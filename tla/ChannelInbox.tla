----------------------------- MODULE ChannelInbox -----------------------------
(***************************************************************************)
(* The messages of one organisation's chat channel (app/api/webhooks,      *)
(* lib/datamodo/channels.ts, review-inbox.ts, review-ping.ts): a sender is *)
(* bound by a link code, the questions a message left are pinged back, and *)
(* a short reply decides one of them.  Webhook calls run concurrently, and *)
(* so do the decisions taken in the app.                                   *)
(***************************************************************************)
EXTENDS Integers, Sequences, FiniteSets

CONSTANTS
  Handles, Codes,
  Items,       \* messages whose extraction files reviews
  Calls,       \* webhook calls and taps in the app that may run at once
  NoHandle,
  PingLimit,   \* MAX_PING_QUESTIONS
  MaxReviews,  \* bound: reviews ever filed
  MaxCalls     \* bound: calls ever made

NoReviewId == 0
ReviewIds == 1..MaxReviews

ASSUME InboxAssumption ==
  /\ NoHandle \notin Handles
  /\ PingLimit \in Nat \ {0}
  /\ {MaxReviews, MaxCalls} \subseteq Nat

VARIABLES
  code,     \* channel_link_codes: [state, by (consumed_handle)]
  bound,    \* the handles with an active ingest source
  bindings, \* ghost: <<code, handle>> of every upsert of a source
  inbox,    \* knowledge_reviews in the order filed: [item, status]
  ping,     \* the reviews that the last ping asked about
  call,     \* a call: [step, handle, code, text, meant, review, verdict]
            \* (meant is a ghost: the review its sender was asked about)
  answered, \* ghost: <<the review the ping asked, the review decided>>
  confirmed,\* ghost: the reviews a reply was confirmed for
  calls

inboxVars ==
  <<code, bound, bindings, inbox, ping, call, answered, confirmed, calls>>
linking == <<code, bound, bindings>>
asking == <<inbox, ping, answered, confirmed>>

NoCall == [step |-> "idle", handle |-> NoHandle, code |-> "none", text |-> 0,
           meant |-> NoReviewId, review |-> NoReviewId, verdict |-> "none"]
CallAt(c, step) == call[c].step = step
Proceed(c, step) == call' = [call EXCEPT ![c] = [call[c] EXCEPT !.step = step]]
Ends(c) == call' = [call EXCEPT ![c] = NoCall]
Calling(c) == CallAt(c, "idle") /\ calls < MaxCalls /\ calls' = calls + 1

InboxInit ==
  /\ code = [k \in Codes |-> [state |-> "live", by |-> NoHandle]]
  /\ bound \in SUBSET Handles
  /\ bindings = {}
  /\ inbox = << >>
  /\ ping = {}
  /\ call = [c \in Calls |-> NoCall]
  /\ answered = {}
  /\ confirmed = {}
  /\ calls = 0

-----------------------------------------------------------------------------
(* redeemChannelLinkCode, for a sender that getBoundSource did not find.   *)

ReceiveCode(c) ==
  \E h \in Handles \ bound, k \in Codes :
    /\ Calling(c)
    /\ code[k].state = "live"
    /\ call' = [call EXCEPT ![c] = [NoCall EXCEPT !.step = "consume",
                                                  !.handle = h, !.code = k]]
    /\ UNCHANGED <<linking, asking>>

\* Mutant: the update does not look whether the code was consumed.
RedeemableAnyway(k) == TRUE

Redeemable(k) == code[k].state # "consumed"

\* A guarded update: of two calls with one code, one finds it consumed.
ConsumeCode(c) ==
  LET k == call[c].code
  IN /\ CallAt(c, "consume")
     /\ IF Redeemable(k)
          THEN /\ code' = [code EXCEPT ![k] = [state |-> "consumed",
                                               by |-> call[c].handle]]
               /\ Proceed(c, "bind")
          ELSE Ends(c) /\ UNCHANGED code
     /\ UNCHANGED <<bound, bindings, asking, calls>>

BindSource(c) ==
  /\ CallAt(c, "bind")
  /\ bound' = bound \cup {call[c].handle}
  /\ bindings' = bindings \cup {<<call[c].code, call[c].handle>>}
  /\ Ends(c)
  /\ UNCHANGED <<code, asking, calls>>

CodeExpires ==
  \E k \in Codes :
    /\ code[k].state = "live"
    /\ code' = [code EXCEPT ![k] = [state |-> "expired", by |-> NoHandle]]
    /\ UNCHANGED <<bound, bindings, asking, call, calls>>

-----------------------------------------------------------------------------
(* Questions and answers.                                                  *)

Pending == {r \in DOMAIN inbox : inbox[r].status = "pending"}

\* Questions are numbered from the newest review on, at most PingLimit of them.
Rank(r, S) == Cardinality({q \in S : q >= r})
Numbered(n, S) == {r \in S : Rank(r, S) = n}
Shown(S) == {r \in S : Rank(r, S) <= PingLimit}

\* An extraction leaves a question.
FileQuestion ==
  \E i \in Items :
    /\ Len(inbox) < MaxReviews
    /\ inbox' = Append(inbox, [item |-> i, status |-> "pending"])
    /\ UNCHANGED <<linking, ping, answered, confirmed, call, calls>>

\* buildReviewPing: the questions of this message.
Ping ==
  \E i \in Items :
    LET questions == {r \in Pending : inbox[r].item = i}
    IN /\ questions # {}
       /\ ping' = Shown(questions)
       /\ UNCHANGED <<linking, inbox, answered, confirmed, call, calls>>

\* A bound sender answers question n of the ping, or sends something short that
\* reads as an answer.
ReceiveReply(c) ==
  \E n \in 1..PingLimit, v \in {"accepted", "rejected"} :
  \E r \in IF Numbered(n, ping) = {} THEN {NoReviewId} ELSE Numbered(n, ping) :
    /\ Calling(c)
    /\ bound # {}
    /\ call' = [call EXCEPT ![c] = [NoCall EXCEPT !.step = "list", !.text = n,
                                                  !.verdict = v, !.meant = r]]
    /\ UNCHANGED <<linking, asking>>

\* applyReviewReply: the number is looked up in what is pending now, of all
\* messages; a number beyond that makes the message content.
ListQuestions(c) ==
  LET found == Numbered(call[c].text, Pending)
  IN /\ CallAt(c, "list")
     /\ \/ \E r \in found :
             call' = [call EXCEPT ![c] = [call[c] EXCEPT !.step = "load", !.review = r]]
        \/ found = {} /\ Ends(c)
     /\ UNCHANGED <<linking, asking, calls>>

\* A tap in the app decides a review by its id.
ReceiveTap(c) ==
  \E r \in DOMAIN inbox, v \in {"accepted", "rejected"} :
    /\ Calling(c)
    /\ call' = [call EXCEPT ![c] = [NoCall EXCEPT !.step = "load", !.review = r,
                                                  !.verdict = v, !.meant = r]]
    /\ UNCHANGED <<linking, asking>>

\* Mutant: a decision that was loaded counts as taken.
LoadedIsDone(c) == "confirm"

\* acceptReview and rejectReview return silently when nothing is pending.
Loaded(c) == IF inbox[call[c].review].status = "pending" THEN "resolve"
                                                         ELSE "confirm"

LoadReview(c) ==
  /\ CallAt(c, "load")
  /\ Proceed(c, Loaded(c))
  /\ UNCHANGED <<linking, asking, calls>>

ResolveReview(c) ==
  /\ CallAt(c, "resolve")
  /\ inbox' = [inbox EXCEPT ![call[c].review] =
                  [item |-> inbox[call[c].review].item, status |-> call[c].verdict]]
  /\ answered' = IF call[c].meant = NoReviewId THEN answered
                 ELSE answered \cup {<<call[c].meant, call[c].review>>}
  /\ Proceed(c, "confirm")
  /\ UNCHANGED <<linking, ping, confirmed, calls>>

\* The sender is told which question was approved or declined.
Confirm(c) ==
  /\ CallAt(c, "confirm")
  /\ confirmed' = confirmed \cup {call[c].review}
  /\ Ends(c)
  /\ UNCHANGED <<linking, inbox, ping, answered, calls>>

CallDies(c) ==
  /\ ~CallAt(c, "idle")
  /\ Ends(c)
  /\ UNCHANGED <<linking, asking, calls>>

\* The steps of linking and the steps of answering.
LinkNext ==
  \/ CodeExpires
  \/ \E c \in Calls : ReceiveCode(c) \/ ConsumeCode(c) \/ BindSource(c) \/ CallDies(c)
ReplyNext ==
  \/ FileQuestion \/ Ping
  \/ \E c \in Calls :
       \/ ReceiveReply(c) \/ ListQuestions(c) \/ ReceiveTap(c)
       \/ LoadReview(c) \/ ResolveReview(c) \/ Confirm(c) \/ CallDies(c)

InboxNext == LinkNext \/ ReplyNext

InboxSpec == InboxInit /\ [][InboxNext]_inboxVars

-----------------------------------------------------------------------------
InboxTypeOK ==
  /\ code \in [Codes -> [state : {"live", "expired", "consumed"},
                         by : Handles \cup {NoHandle}]]
  /\ bound \subseteq Handles
  /\ bindings \subseteq Codes \X Handles
  /\ inbox \in Seq([item : Items, status : {"pending", "accepted", "rejected"}])
  /\ ping \subseteq DOMAIN inbox /\ Cardinality(ping) <= PingLimit
  /\ \A c \in Calls :
       /\ call[c].step \in {"idle", "consume", "bind", "list", "load", "resolve",
                            "confirm"}
       /\ call[c].handle \in Handles \cup {NoHandle}
       /\ {call[c].meant, call[c].review} \subseteq 0..Len(inbox)
  /\ answered \subseteq ReviewIds \X ReviewIds
  /\ confirmed \subseteq ReviewIds
  /\ calls \in 0..MaxCalls

\* A link code binds one handle, the one that consumed it, also when several
\* senders send it at the same moment ("single-use", channels.ts).
CodeBindsOnce ==
  \A b \in bindings : /\ code[b[1]] = [state |-> "consumed", by |-> b[2]]
                      /\ \A d \in bindings : b[1] = d[1] => b = d

\* Whatever the webhook confirms ("Approved", "Declined") is decided, though
\* acceptReview and rejectReview do not say whether they did anything.
ConfirmedIsDecided == \A r \in confirmed : inbox[r].status # "pending"

\* "Numbering matches the ping: newest pending review = 1" (review-inbox.ts): a
\* reply decides the question that the ping asked under its number.
ReplyDecidesAsked == \A a \in answered : a[1] = a[2]
===============================================================================
