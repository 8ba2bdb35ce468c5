------------------------------ MODULE ImapPoller ------------------------------
(***************************************************************************)
(* One connector of the local edition (lib/local/connectors/imap-poll.mjs) *)
(* and the mailbox it watches.  setInterval starts a tick every minute,    *)
(* also while the last one still runs, so several polls of the connector   *)
(* share its cursor in memory and the file it is saved to.                 *)
(***************************************************************************)
EXTENDS Integers

CONSTANTS
  Polls,       \* polls that may run at once
  MaxUid,      \* bound: messages that ever arrive
  MaxTroubles  \* bound: posts rejected, files not written, restarts, messages
               \* that leave the mailbox or are fetched without a source

ASSUME ImapAssumption == {MaxUid, MaxTroubles} \subseteq Nat

Uids == 1..MaxUid

VARIABLES
  uidNext,     \* of the mailbox
  cursor,      \* cursors[id] in memory, 0 before the first sight
  cursorFile,  \* the same in the file
  gone,        \* messages deleted or moved away
  poll,        \* [step, at (its own cursor), next (the uid it comes to next),
               \* top (the last uid it fetches)]
  posted,      \* messages the ingest route has captured
  skipped,     \* ghost: messages a poll went over without posting them
  firstMark,   \* ghost: the last high-water mark taken as a first sight
  troubles

imapVars == <<uidNext, cursor, cursorFile, gone, poll, posted, skipped, firstMark,
              troubles>>

NoPoll == [step |-> "idle", at |-> 0, next |-> 0, top |-> 0]
PollIs(p, step) == poll[p].step = step
Trouble == troubles < MaxTroubles /\ troubles' = troubles + 1

ImapInit ==
  /\ uidNext \in 1..(MaxUid + 1)
  /\ cursor = 0
  /\ cursorFile = 0
  /\ gone = {}
  /\ poll = [p \in Polls |-> NoPoll]
  /\ posted = {}
  /\ skipped = {}
  /\ firstMark = 0
  /\ troubles = 0

MailArrives ==
  /\ uidNext <= MaxUid
  /\ uidNext' = uidNext + 1
  /\ UNCHANGED <<cursor, cursorFile, gone, poll, posted, skipped, firstMark, troubles>>

\* Its owner deletes a message, or moves it to another mailbox.
MailLeaves ==
  /\ Trouble
  /\ \E uid \in 1..(uidNext - 1) \ gone : gone' = gone \cup {uid}
  /\ UNCHANGED <<uidNext, cursor, cursorFile, poll, posted, skipped, firstMark>>

\* The first sight of a mailbox marks its last message and captures nothing.
FirstSight(p) ==
  /\ PollIs(p, "idle")
  /\ cursor = 0
  /\ cursor' = uidNext - 1
  /\ firstMark' = uidNext - 1
  /\ poll' = [poll EXCEPT ![p] = [step |-> "save", at |-> uidNext - 1,
                                  next |-> uidNext, top |-> uidNext - 1]]
  /\ UNCHANGED <<uidNext, cursorFile, gone, posted, skipped, troubles>>

\* Mutant: the last message counts as seen.
NothingNewButLast == cursor + 2 >= uidNext

NothingNew == cursor + 1 >= uidNext

OpenMailbox(p) ==
  /\ PollIs(p, "idle")
  /\ cursor # 0
  /\ ~NothingNew
  /\ poll' = [poll EXCEPT ![p] = [step |-> "post", at |-> cursor,
                                  next |-> cursor + 1, top |-> uidNext - 1]]
  /\ UNCHANGED <<uidNext, cursor, cursorFile, gone, posted, skipped, firstMark, troubles>>

\* The message is captured (ingest dedupes it), and the cursor advances to
\* it: this poll's own cursor, whatever other polls have set meanwhile, and
\* past the messages this poll went over before it.
PostMail(p) ==
  LET uid == poll[p].next
  IN /\ PollIs(p, "post")
     /\ posted' = posted \cup {uid}
     /\ cursor' = uid
     /\ poll' = [poll EXCEPT ![p] = [step |-> "save", at |-> uid, next |-> uid + 1,
                                     top |-> poll[p].top]]
     /\ UNCHANGED <<uidNext, cursorFile, gone, skipped, firstMark, troubles>>

\* The poll has gone over its next message: on to the others, or done.
PastNext(p) ==
  IF poll[p].next < poll[p].top THEN [poll[p] EXCEPT !.next = @ + 1] ELSE NoPoll

\* "continue": a message the poll is not to post.
GoesOver(p) ==
  /\ PollIs(p, "post")
  /\ skipped' = skipped \cup {poll[p].next}
  /\ poll' = [poll EXCEPT ![p] = PastNext(p)]
  /\ UNCHANGED <<uidNext, cursor, cursorFile, gone, posted, firstMark>>

\* The fetch has no message with that uid any more.
SkipGone(p) == poll[p].next \in gone /\ GoesOver(p) /\ UNCHANGED troubles

\* The message is fetched without its source.
SkipSourceless(p) == Trouble /\ GoesOver(p)

\* Mutant: a rejected message is skipped.
AfterRejectSkips(p) == PastNext(p)

\* "don't advance past a failure; retry next tick".
AfterReject(p) == NoPoll

\* The route answers with an error, or its answer is lost.
PostRejected(p) ==
  /\ PollIs(p, "post")
  /\ Trouble
  /\ posted' \in {posted, posted \cup {poll[p].next}}
  /\ poll' = [poll EXCEPT ![p] = AfterReject(p)]
  /\ UNCHANGED <<uidNext, cursor, cursorFile, gone, skipped, firstMark>>

\* Back to the messages that are left, or done.
AfterSave(p) ==
  IF poll[p].next <= poll[p].top THEN [poll[p] EXCEPT !.step = "post"] ELSE NoPoll

\* saveCursors: all polls write through one temporary file, so that what is
\* renamed may be what another poll wrote.
SaveCursor(p) ==
  /\ PollIs(p, "save")
  /\ cursorFile' \in {poll[q].at : q \in {q \in Polls : PollIs(q, "save")}}
  /\ poll' = [poll EXCEPT ![p] = AfterSave(p)]
  /\ UNCHANGED <<uidNext, cursor, gone, posted, skipped, firstMark, troubles>>

\* The file is not written, or was renamed away: the poll throws.
SaveFails(p) ==
  /\ PollIs(p, "save")
  /\ Trouble
  /\ poll' = [poll EXCEPT ![p] = NoPoll]
  /\ UNCHANGED <<uidNext, cursor, cursorFile, gone, posted, skipped, firstMark>>

\* The process ends and starts again: loadCursors reads the file.
ImapRestart ==
  /\ Trouble
  /\ poll' = [p \in Polls |-> NoPoll]
  /\ cursor' = cursorFile
  /\ UNCHANGED <<uidNext, cursorFile, gone, posted, skipped, firstMark>>

PollStep(p) ==
  FirstSight(p) \/ OpenMailbox(p) \/ PostMail(p) \/ SkipGone(p) \/ SaveCursor(p)
ImapNext ==
  \/ MailArrives \/ MailLeaves
  \/ \E p \in Polls : \/ PollStep(p) \/ SkipSourceless(p)
                      \/ PostRejected(p) \/ SaveFails(p)
  \/ ImapRestart

\* The interval keeps firing, and a poll that has begun goes on.
ImapFairness == \A p \in Polls : WF_imapVars(PollStep(p))

ImapSpec == ImapInit /\ [][ImapNext]_imapVars /\ ImapFairness

-----------------------------------------------------------------------------
ImapTypeOK ==
  /\ uidNext \in 1..(MaxUid + 1)
  /\ {cursor, cursorFile, firstMark} \subseteq 0..MaxUid
  /\ poll \in [Polls -> [step : {"idle", "post", "save"}, at : 0..MaxUid,
                         next : 0..(MaxUid + 1), top : 0..MaxUid]]
  /\ gone \subseteq Uids /\ posted \subseteq Uids /\ skipped \subseteq Uids
  /\ troubles \in 0..MaxTroubles

\* Messages that came after the first sight and are neither captured nor ones a
\* poll went over lie beyond the cursor c; and it was a capture that moved c past
\* the first sight: a poll that only goes over messages leaves them to be retried.
HonestAt(c) ==
  /\ \A uid \in Uids : firstMark < uid /\ uid <= c => uid \in posted \cup skipped
  /\ c <= firstMark \/ c \in posted

\* Whatever polls overlap, fail or restart, the cursor in memory and the one in
\* the file pass a message that came after the first sight only when it is
\* captured, or when a poll went over it and a later one was captured.
ImapCursorHonest == HonestAt(cursor) /\ HonestAt(cursorFile)

\* A message that arrives after the first sight is captured in the end, unless it
\* leaves the mailbox, a poll goes over it without its source and the cursor then
\* passes it, or the mailbox is taken for a new one again (its cursor is lost).
ImapDelivers ==
  \A uid \in Uids :
    (firstMark < uid /\ uid < uidNext /\ cursor # 0)
      ~> (uid \in posted \cup gone \/ uid <= firstMark
          \/ (uid \in skipped /\ uid <= cursor))
===============================================================================
