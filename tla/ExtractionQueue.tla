--------------------------- MODULE ExtractionQueue ---------------------------
(***************************************************************************)
(* The extraction queue of lib/datamodo/extract.ts: the `items` table is   *)
(* the queue, an invocation of a serverless route is a worker, and a row's *)
(* (status, claimed_at, attempts) is the lease on it.                      *)
(*                                                                         *)
(* Workers are the invocations that run extraction:                        *)
(*   kick    after() of a capture route: claims up to KickMax items in one *)
(*           statement and runs them one after the other (kick.ts);        *)
(*   tick    the cron route: recovers the queue, then claims one item at a *)
(*           time (extract-tick/route.ts);                                 *)
(*   inline  the MCP tool run_extraction: captures an item and runs it in  *)
(*           the same call, with no claim (api/mcp/[transport]/route.ts).  *)
(* Every SQL statement is one action.  A worker may die between any two.   *)
(*                                                                         *)
(* Items are numbered in the order of received_at, which the claim sorts   *)
(* by.  Time is counted in units; claimAge is now() - claimed_at, life is  *)
(* the age of an invocation, which the platform kills at RunLimit.         *)
(***************************************************************************)
EXTENDS Integers, FiniteSets

CONSTANTS
  NumItems,      \* how many items are ever captured
  Workers,       \* invocations that may exist at one time
  MaxAttempts,   \* MAX_ATTEMPTS
  OrphanAfter,   \* ORPHAN_AFTER_MINUTES, in time units
  RunLimit,      \* maxDuration of the routes, in time units
  KickMax,       \* how many items kickExtraction claims
  TickMax,       \* BATCH * 4: how many items one tick claims
  MaxRequeues,   \* bound: calls of the extract-requeue endpoint
  InlineItems    \* the items that come through the MCP tool run_extraction

ASSUME QueueAssumption ==
  /\ NumItems \in Nat \ {0}
  /\ MaxAttempts \in Nat \ {0}
  /\ OrphanAfter \in Nat \ {0}
  /\ RunLimit \in Nat
  /\ KickMax \in Nat \ {0}
  /\ TickMax \in Nat \ {0}
  /\ MaxRequeues \in Nat
  /\ InlineItems \subseteq 1..NumItems

Items   == 1..NumItems
Status  == {"none", "stored", "analyzing", "analyzed", "failed"}
Control == {"idle", "recover", "abandon", "claim", "loop", "extract", "answer"}
Kind    == {"none", "kick", "tick", "inline"}
NoClaim == -1          \* claimed_at is null
NoItem  == 0

VARIABLES
  status,     \* items.status ("none": not captured yet)
  attempts,   \* items.attempts
  claimAge,   \* age of items.claimed_at, or NoClaim
  kind,       \* which route a worker is an invocation of
  pc,         \* where it is in that route
  batch,      \* the items it has claimed (or captured) and not finished
  cur,        \* the item it is running
  claims,     \* how many items a tick has claimed
  life,       \* the age of the invocation
  answers,    \* how often an item's sender was sent a parse reply
  requeues    \* how often extract-requeue ran

rows    == <<status, attempts, claimAge>>
procs   == <<kind, pc, batch, cur, claims, life>>
history == <<answers, requeues>>
vars    == <<status, attempts, claimAge, kind, pc, batch, cur, claims, life,
             answers, requeues>>

TypeOK ==
  /\ status   \in [Items -> Status]
  /\ attempts \in [Items -> 0..MaxAttempts]
  /\ claimAge \in [Items -> {NoClaim} \cup 0..OrphanAfter]
  /\ kind     \in [Workers -> Kind]
  /\ pc       \in [Workers -> Control]
  /\ batch    \in [Workers -> SUBSET Items]
  /\ cur      \in [Workers -> Items \cup {NoItem}]
  /\ claims   \in [Workers -> 0..TickMax]
  /\ life     \in [Workers -> 0..RunLimit]
  /\ answers  \in [Items -> Nat]
  /\ requeues \in 0..MaxRequeues

Init ==
  /\ status   = [i \in Items |-> "none"]
  /\ attempts = [i \in Items |-> 0]
  /\ claimAge = [i \in Items |-> NoClaim]
  /\ kind     = [w \in Workers |-> "none"]
  /\ pc       = [w \in Workers |-> "idle"]
  /\ batch    = [w \in Workers |-> {}]
  /\ cur      = [w \in Workers |-> NoItem]
  /\ claims   = [w \in Workers |-> 0]
  /\ life     = [w \in Workers |-> 0]
  /\ answers  = [i \in Items |-> 0]
  /\ requeues = 0

-----------------------------------------------------------------------------
(* The conditions of the SQL statements.                                   *)

Stored == {i \in Items : status[i] = "stored"}

\* order by received_at asc limit n for update skip locked
OldestStored(n) ==
  {i \in Stored : Cardinality({j \in Stored : j < i}) < n}

\* Mutant: the comparison is off by one unit.
StaleTooEarly(i) == claimAge[i] = NoClaim \/ claimAge[i] >= OrphanAfter - 1
\* Mutant: the age of the claim is not looked at.
StaleAlways(i) == TRUE

\* claimed_at is null or claimed_at < now() - ORPHAN_AFTER_MINUTES
Stale(i) == claimAge[i] = NoClaim \/ claimAge[i] >= OrphanAfter

\* Mutant: one attempt too many.
RetryableOneMore(i) == attempts[i] <= MaxAttempts

Retryable(i) == attempts[i] < MaxAttempts

\* Mutant: the recovery forgets the failed items.
RequeuedOrphansOnly ==
  {i \in Items : Retryable(i) /\ status[i] = "analyzing" /\ Stale(i)}

Requeued ==
  {i \in Items : /\ Retryable(i)
                 /\ \/ status[i] = "analyzing" /\ Stale(i)
                    \/ status[i] = "failed"}

\* Mutant: the second statement forgets the age of the claim.
AbandonedAnyAge == {i \in Items : status[i] = "analyzing" /\ ~Retryable(i)}

Abandoned == {i \in Items : status[i] = "analyzing" /\ Stale(i) /\ ~Retryable(i)}

\* Mutant: the claim is not stamped with its time.
ClaimUnstamped(S) ==
  /\ status'   = [i \in Items |-> IF i \in S THEN "analyzing" ELSE status[i]]
  /\ attempts' = [i \in Items |-> IF i \in S THEN attempts[i] + 1 ELSE attempts[i]]
  /\ UNCHANGED claimAge

\* update items set status = 'analyzing', claimed_at = now(), attempts + 1
Claim(S) ==
  /\ status'   = [i \in Items |-> IF i \in S THEN "analyzing" ELSE status[i]]
  /\ attempts' = [i \in Items |-> IF i \in S THEN attempts[i] + 1 ELSE attempts[i]]
  /\ claimAge' = [i \in Items |-> IF i \in S THEN 0 ELSE claimAge[i]]

-----------------------------------------------------------------------------
(* Capture routes.  Only the captured row matters here: Capture.tla has    *)
(* what ingest() does before the row is 'stored'.                          *)

\* ingest() ends with status 'stored'; the route schedules kickExtraction.
CaptureAndKick(w) ==
  \E i \in Items \ InlineItems :
    /\ pc[w] = "idle"
    /\ status[i] = "none"
    /\ status' = [status EXCEPT ![i] = "stored"]
    /\ kind'   = [kind EXCEPT ![w] = "kick"]
    /\ pc'     = [pc EXCEPT ![w] = "claim"]
    /\ UNCHANGED <<attempts, claimAge, batch, cur, claims, life, history>>

\* claimStoredItems(3): one statement for the whole batch.
KickClaim(w) ==
  /\ pc[w] = "claim"
  /\ kind[w] = "kick"
  /\ Claim(OldestStored(KickMax))
  /\ batch' = [batch EXCEPT ![w] = OldestStored(KickMax)]
  /\ pc'    = [pc EXCEPT ![w] = "loop"]
  /\ UNCHANGED <<kind, cur, claims, life, history>>

\* run_extraction: the captured item goes straight to runExtractionForItem.
CaptureInline(w) ==
  \E i \in InlineItems :
    /\ pc[w] = "idle"
    /\ status[i] = "none"
    /\ status' = [status EXCEPT ![i] = "stored"]
    /\ kind'   = [kind EXCEPT ![w] = "inline"]
    /\ batch'  = [batch EXCEPT ![w] = {i}]
    /\ pc'     = [pc EXCEPT ![w] = "loop"]
    /\ UNCHANGED <<attempts, claimAge, cur, claims, life, history>>

-----------------------------------------------------------------------------
(* The cron tick.                                                          *)

StartTick(w) ==
  /\ pc[w] = "idle"
  /\ kind' = [kind EXCEPT ![w] = "tick"]
  /\ pc'   = [pc EXCEPT ![w] = "recover"]
  /\ UNCHANGED <<rows, batch, cur, claims, life, history>>

\* First statement of recoverExtractionQueue.
RequeueOrphans(w) ==
  /\ pc[w] = "recover"
  /\ status'   = [i \in Items |-> IF i \in Requeued THEN "stored" ELSE status[i]]
  /\ claimAge' = [i \in Items |-> IF i \in Requeued THEN NoClaim ELSE claimAge[i]]
  /\ pc'       = [pc EXCEPT ![w] = "abandon"]
  /\ UNCHANGED <<attempts, kind, batch, cur, claims, life, history>>

\* Second statement of recoverExtractionQueue.
AbandonExhausted(w) ==
  /\ pc[w] = "abandon"
  /\ status' = [i \in Items |-> IF i \in Abandoned THEN "failed" ELSE status[i]]
  /\ pc'     = [pc EXCEPT ![w] = "claim"]
  /\ UNCHANGED <<attempts, claimAge, kind, batch, cur, claims, life, history>>

\* while (time budget left && claimed < BATCH * 4) claimStoredItems(1)
TickClaim(w) ==
  /\ pc[w] = "claim"
  /\ kind[w] = "tick"
  /\ Stored # {}
  /\ claims[w] < TickMax
  /\ Claim(OldestStored(1))
  /\ batch'  = [batch EXCEPT ![w] = OldestStored(1)]
  /\ claims' = [claims EXCEPT ![w] = @ + 1]
  /\ pc'     = [pc EXCEPT ![w] = "loop"]
  /\ UNCHANGED <<kind, cur, life, history>>

-----------------------------------------------------------------------------
(* runExtractionForItem.                                                   *)

\* The row is read and set 'analyzing' whatever its status is by now.
BeginRun(w) ==
  \E i \in batch[w] :
    /\ pc[w] = "loop"
    /\ status' = [status EXCEPT ![i] = "analyzing"]
    /\ cur'    = [cur EXCEPT ![w] = i]
    /\ pc'     = [pc EXCEPT ![w] = "extract"]
    /\ UNCHANGED <<attempts, claimAge, kind, batch, claims, life, history>>

\* Everything up to the final update went through: status 'analyzed'.
FinishRun(w) ==
  /\ pc[w] = "extract"
  /\ status' = [status EXCEPT ![cur[w]] = "analyzed"]
  /\ batch'  = [batch EXCEPT ![w] = @ \ {cur[w]}]
  /\ pc'     = [pc EXCEPT ![w] = "answer"]
  /\ UNCHANGED <<attempts, claimAge, kind, cur, claims, life, history>>

\* Something threw: the catch block sets 'failed' and rethrows, and the
\* caller's loop goes on with the next item.
FailRun(w) ==
  /\ pc[w] = "extract"
  /\ status' = [status EXCEPT ![cur[w]] = "failed"]
  /\ batch'  = [batch EXCEPT ![w] = @ \ {cur[w]}]
  /\ cur'    = [cur EXCEPT ![w] = NoItem]
  /\ pc'     = [pc EXCEPT ![w] = "loop"]
  /\ UNCHANGED <<attempts, claimAge, kind, claims, life, history>>

\* After the final update: the parse reply (best effort: it may not be sent).
Answer(w) ==
  /\ pc[w] = "answer"
  /\ \/ answers' = [answers EXCEPT ![cur[w]] = @ + 1]
     \/ UNCHANGED answers
  /\ cur' = [cur EXCEPT ![w] = NoItem]
  /\ pc'  = [pc EXCEPT ![w] = "loop"]
  /\ UNCHANGED <<rows, kind, batch, claims, life, requeues>>

\* The batch is done.  A tick goes back to its claim; the others return.
NextBatch(w) ==
  /\ pc[w] = "loop"
  /\ batch[w] = {}
  /\ kind[w] = "tick"
  /\ pc' = [pc EXCEPT ![w] = "claim"]
  /\ UNCHANGED <<rows, kind, batch, cur, claims, life, history>>

-----------------------------------------------------------------------------
(* The end of an invocation.                                               *)

Gone(w) ==
  /\ kind'   = [kind EXCEPT ![w] = "none"]
  /\ pc'     = [pc EXCEPT ![w] = "idle"]
  /\ batch'  = [batch EXCEPT ![w] = {}]
  /\ cur'    = [cur EXCEPT ![w] = NoItem]
  /\ claims' = [claims EXCEPT ![w] = 0]
  /\ life'   = [life EXCEPT ![w] = 0]
  /\ UNCHANGED <<rows, history>>

\* The route returns: its batch is done and, for a tick, nothing is stored,
\* BATCH * 4 items were claimed, or CLAIM_CUTOFF_MS passed after an item.
Return(w) ==
  /\ \/ pc[w] = "loop" /\ batch[w] = {} /\ kind[w] # "tick"
     \/ /\ pc[w] = "claim"
        /\ kind[w] = "tick"
        /\ Stored = {} \/ claims[w] > 0
  /\ Gone(w)

\* The process dies, at any point of the route.
Crash(w) ==
  /\ pc[w] # "idle"
  /\ Gone(w)

\* The platform kills an invocation that reaches maxDuration.
Kill(w) ==
  /\ pc[w] # "idle"
  /\ life[w] = RunLimit
  /\ Gone(w)

TimePasses ==
  /\ \A w \in Workers : pc[w] # "idle" => life[w] < RunLimit
  /\ claimAge' = [i \in Items |->
                    IF claimAge[i] \in 0..(OrphanAfter - 1) THEN claimAge[i] + 1
                                                            ELSE claimAge[i]]
  /\ life' = [w \in Workers |-> IF pc[w] # "idle" THEN life[w] + 1 ELSE life[w]]
  /\ UNCHANGED <<status, attempts, kind, pc, batch, cur, claims, history>>

\* POST /api/jobs/extract-requeue?below=N with N above the items' stamps.
RequeueAnalyzed ==
  LET S == {i \in Items : status[i] = "analyzed"} IN
    /\ requeues < MaxRequeues
    /\ status'   = [i \in Items |-> IF i \in S THEN "stored" ELSE status[i]]
    /\ claimAge' = [i \in Items |-> IF i \in S THEN NoClaim ELSE claimAge[i]]
    /\ attempts' = [i \in Items |-> IF i \in S THEN 0 ELSE attempts[i]]
    /\ requeues' = requeues + 1
    /\ UNCHANGED <<procs, answers>>

-----------------------------------------------------------------------------
Capture(w)  == CaptureAndKick(w) \/ CaptureInline(w)
Recover(w)  == RequeueOrphans(w) \/ AbandonExhausted(w)
ClaimNext(w) == KickClaim(w) \/ TickClaim(w)
Settle(w)   == FinishRun(w) \/ FailRun(w)
Proceed(w)  == BeginRun(w) \/ Settle(w) \/ Answer(w) \/ NextBatch(w)

WorkerStep(w) ==
  \/ Capture(w) \/ StartTick(w) \/ Recover(w) \/ ClaimNext(w)
  \/ Proceed(w) \/ Return(w) \/ Crash(w) \/ Kill(w)

Next ==
  \/ \E w \in Workers : WorkerStep(w)
  \/ TimePasses
  \/ RequeueAnalyzed

Spec == Init /\ [][Next]_vars

(***************************************************************************)
(* Fairness.  Time passes, the platform kills what reaches its limit, the  *)
(* cron fires again and again, and not every tick dies before the same     *)
(* statement.  Nothing is assumed of the runs: each may hang or crash.     *)
(***************************************************************************)
Fairness ==
  /\ WF_vars(TimePasses)
  /\ \A w \in Workers : WF_vars(Kill(w))
  /\ WF_vars(\E w \in Workers : StartTick(w))
  /\ SF_vars(\E w \in Workers : RequeueOrphans(w))
  /\ SF_vars(\E w \in Workers : AbandonExhausted(w))
  /\ SF_vars(\E w \in Workers : TickClaim(w))

FairSpec == Spec /\ Fairness

-----------------------------------------------------------------------------
(* Safety.                                                                 *)

\* "FOR UPDATE SKIP LOCKED means concurrent cron ticks never grab the same
\* row": not only the claims, the runs never overlap either.  An item is in
\* the hands of one live invocation at most, across crashes and recoveries.
ExclusiveLease ==
  \A w, x \in Workers : w # x => batch[w] \cap batch[x] = {}

\* "capped, so a poison item can't loop forever": whatever puts a row back
\* to 'stored' (the recovery, a requeue, a late run), it still has a try
\* left, so that the claim, which does not look at attempts, keeps the cap.
RetryCap == \A i \in Items : status[i] = "stored" => attempts[i] < MaxAttempts

\* The sender of a message is answered at most once, and once more for each
\* requeue of the whole history: a run that was given up for dead does not
\* come back to answer beside the run that replaced it.
AnsweredOnce == \A i \in Items : answers[i] <= 1 + requeues

\* An analysed item is reopened by the requeue endpoint and by nothing else:
\* no late 'analyzing' or 'failed' of a slower run overwrites it.
AnalyzedIsFinal ==
  [][\A i \in Items :
       status[i] = "analyzed" /\ status'[i] # "analyzed"
         => requeues' = requeues + 1]_vars

\* recoverExtractionQueue requeues "stale 'analyzing' orphans": never an
\* item that a live invocation is still working on.
RecoversOnlyOrphans ==
  [][\A w \in Workers : \A i \in batch[w] :
       status[i] = "analyzing" => status'[i] # "stored"]_vars

(* Liveness. *)

\* Every captured item is analysed in the end, or has burnt all its attempts
\* and is 'failed'; none stays 'stored', 'analyzing' or retryable for ever.
Settled(i) ==
  status[i] = "analyzed" \/ (status[i] = "failed" /\ ~Retryable(i))
Drained == \A i \in Items : (status[i] = "stored") ~> Settled(i)

(* Refinement: the rows and the invocations are a job board. *)

Holder(i) == IF \E w \in Workers : i \in batch[w]
               THEN CHOOSE w \in Workers : i \in batch[w] ELSE NoItem

PhaseOf(i) ==
  CASE status[i] = "none"      -> "absent"
    [] status[i] = "stored"    -> "open"
    [] status[i] = "analyzing" -> "taken"
    [] status[i] = "analyzed"  -> "done"
    [] status[i] = "failed"    -> IF Retryable(i) THEN "open" ELSE "dead"

Board == INSTANCE JobBoard WITH
  Jobs <- Items, MaxTries <- MaxAttempts, Nobody <- NoItem,
  phase <- [i \in Items |-> PhaseOf(i)],
  owner <- [i \in Items |-> Holder(i)],
  tries <- attempts

\* The queue keeps what a job board promises (JobBoard.tla): at most one
\* holder, only the holder ends a job, only ownerless jobs go back.
ImplementsJobBoard == Board!BoardSpec
==============================================================================
