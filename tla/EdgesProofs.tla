----------------------------- MODULE EdgesProofs ------------------------------
(***************************************************************************)
(* The parts at the edge of the system, each for any number of its actors  *)
(* and any bounds: a link code binds the one handle that consumed it and   *)
(* what the webhook confirms is decided; a learning pass folds each event  *)
(* once; a spending cap is overshot by the runs that were live under it    *)
(* and no more.  Last, side by side, every part keeps its own promises:    *)
(* those of the category proposals, of the kinds' templates and of the     *)
(* reconciliation are proved in the two modules this one extends.          *)
(***************************************************************************)
EXTENDS MCEdges, CategoryProposalsProofs, ReconcileProofs

-----------------------------------------------------------------------------
ReplyVerdicts == {"accepted", "rejected"}
CodeRow == [state : {"live", "expired", "consumed"}, by : Handles \cup {NoHandle}]
Question == [item : Items, status : {"pending"} \cup ReplyVerdicts]
CallRow == [step : {"idle", "consume", "bind", "list", "load", "resolve", "confirm"},
            handle : Handles \cup {NoHandle}, code : Codes \cup {"none"},
            text : Nat, meant : Nat, review : Nat, verdict : ReplyVerdicts \cup {"none"}]

InboxShapes ==
  /\ code \in [Codes -> CodeRow]
  /\ bindings \in SUBSET (Codes \X Handles)
  /\ inbox \in Seq(Question)
  /\ call \in [Calls -> CallRow]

ConsumedBy(k, h) == code[k] = [state |-> "consumed", by |-> h]
AskedDecided(r) == r \in DOMAIN inbox /\ inbox[r].status # "pending"

\* What a call has established by the step it has reached.
SoundCall(r) ==
  /\ r.step \in {"consume", "bind"} => r.code \in Codes /\ r.handle \in Handles
  /\ r.step = "bind" => ConsumedBy(r.code, r.handle)
  /\ r.step \in {"list", "load", "resolve"} => r.verdict \in ReplyVerdicts
  /\ r.step \in {"load", "resolve"} => r.review \in DOMAIN inbox
  /\ r.step = "confirm" => AskedDecided(r.review)

InboxInv ==
  /\ InboxShapes
  /\ \A c \in Calls : SoundCall(call[c])
  /\ \A b \in bindings : ConsumedBy(b[1], b[2])
  /\ \A r \in confirmed : AskedDecided(r)

-----------------------------------------------------------------------------
LEMMA NoCallRow == NoCall \in CallRow /\ SoundCall(NoCall)
  BY DEF NoCall, CallRow, SoundCall, NoReviewId, ReplyVerdicts

LEMMA QuestionRow ==
  ASSUME inbox \in Seq(Question), NEW r \in DOMAIN inbox
  PROVE  inbox[r] \in Question /\ r \in Nat
  <1>1. DOMAIN inbox = 1..Len(inbox) /\ Len(inbox) \in Nat
    OBVIOUS
  <1> QED
    BY <1>1

\* A call that moves, with nothing else, to a row that is sound.
LEMMA CallMoves ==
  ASSUME InboxInv, NEW c \in Calls, NEW r \in CallRow, SoundCall(r),
         call' = [call EXCEPT ![c] = r], UNCHANGED <<code, bindings, inbox, confirmed>>
  PROVE  InboxInv'
  <1>1. \A d \in Calls : call'[d] = IF d = c THEN r ELSE call[d]
    BY DEF InboxInv, InboxShapes
  <1>2. \A d \in Calls : SoundCall(call'[d])
    BY <1>1 DEF InboxInv
  <1>3. InboxShapes'
    BY DEF InboxInv, InboxShapes
  <1>4. \A d \in Calls : SoundCall(call[d])'
    BY <1>2 DEF SoundCall, ConsumedBy, AskedDecided
  <1>5. (\A b \in bindings : ConsumedBy(b[1], b[2]))' /\ (\A q \in confirmed : AskedDecided(q))'
    BY DEF InboxInv, ConsumedBy, AskedDecided
  <1> QED
    BY <1>3, <1>4, <1>5 DEF InboxInv

\* A call goes on: its row, but for the step.
LEMMA ProceedRow ==
  ASSUME InboxShapes, NEW c \in Calls,
         NEW step \in {"idle", "consume", "bind", "list", "load", "resolve", "confirm"}
  PROVE  [call[c] EXCEPT !.step = step] \in CallRow
  BY DEF InboxShapes, CallRow

LEMMA EndsInv ==
  ASSUME InboxInv, NEW c \in Calls, Ends(c), UNCHANGED <<code, bindings, inbox, confirmed>>
  PROVE  InboxInv'
  BY CallMoves, NoCallRow DEF Ends

-----------------------------------------------------------------------------
\* The initial state satisfies the invariant.
THEOREM InboxInvInit == InboxInit => InboxInv
  <1> SUFFICES ASSUME InboxInit PROVE InboxInv
    OBVIOUS
  <1>1. \A c \in Calls : call[c] = NoCall
    BY DEF InboxInit
  <1>2. InboxShapes
    BY NoCallRow DEF InboxInit, InboxShapes, CodeRow
  <1>3. \A c \in Calls : SoundCall(call[c])
    BY <1>1, NoCallRow
  <1> QED
    BY <1>2, <1>3 DEF InboxInit, InboxInv

LEMMA ReceiveCodeInv ==
  ASSUME InboxInv, NEW c \in Calls, ReceiveCode(c)
  PROVE  InboxInv'
  <1>1. PICK h \in Handles \ bound, k \in Codes :
          call' = [call EXCEPT ![c] = [NoCall EXCEPT !.step = "consume",
                                                     !.handle = h, !.code = k]]
    BY DEF ReceiveCode
  <1> DEFINE r == [NoCall EXCEPT !.step = "consume", !.handle = h, !.code = k]
  <1>2. r \in CallRow /\ r.step = "consume" /\ r.code = k /\ r.handle = h
    BY DEF NoCall, CallRow, NoReviewId
  <1>3. UNCHANGED <<code, bindings, inbox, confirmed>>
    BY DEF ReceiveCode, linking, asking
  <1>4. call' = [call EXCEPT ![c] = r]
    BY <1>1
  <1> HIDE DEF r
  <1>5. SoundCall(r)
    BY <1>2 DEF SoundCall
  <1> QED
    BY <1>2, <1>3, <1>4, <1>5, CallMoves

\* Only a code that is not consumed is touched: no binding loses its code.
LEMMA CodeTouched ==
  ASSUME InboxInv, NEW k \in Codes, code[k].state # "consumed", NEW r0 \in CodeRow,
         code' = [code EXCEPT ![k] = r0]
  PROVE  /\ code' \in [Codes -> CodeRow]
         /\ \A j \in Codes, h \in Handles : ConsumedBy(j, h) => ConsumedBy(j, h)'
  BY DEF InboxInv, InboxShapes, ConsumedBy

LEMMA ConsumeCodeInv ==
  ASSUME InboxInv, NEW c \in Calls, ConsumeCode(c)
  PROVE  InboxInv'
  <1>0. PICK k \in Codes, h \in Handles : call[c].code = k /\ call[c].handle = h
    BY DEF InboxInv, SoundCall, ConsumeCode, CallAt
  <1> DEFINE r0 == [state |-> "consumed", by |-> h]
             r == [call[c] EXCEPT !.step = "bind"]
  <1>1. UNCHANGED <<bindings, inbox, confirmed>>
    BY DEF ConsumeCode, asking
  <1>2. CASE Redeemable(k)
    <2>1. code' = [code EXCEPT ![k] = r0] /\ call' = [call EXCEPT ![c] = r]
      BY <1>0, <1>2 DEF ConsumeCode, Proceed
    <2>2. code[k].state # "consumed" /\ r0 \in CodeRow
      BY <1>2 DEF Redeemable, CodeRow
    <2>3. /\ code' \in [Codes -> CodeRow]
          /\ \A j \in Codes, g \in Handles : ConsumedBy(j, g) => ConsumedBy(j, g)'
      <3> HIDE DEF r0
      <3> QED
        BY <2>1, <2>2, CodeTouched
    <2>4. ConsumedBy(k, h)'
      BY <2>1 DEF ConsumedBy, InboxInv, InboxShapes
    <2>5. r \in CallRow
      BY ProceedRow DEF InboxInv
    <2>6. r.step = "bind" /\ r.code = k /\ r.handle = h
      BY <1>0 DEF InboxInv, InboxShapes, CallRow
    <2> HIDE DEF r, r0
    <2>7. \A d \in Calls : call'[d] = IF d = c THEN r ELSE call[d]
      BY <2>1 DEF InboxInv, InboxShapes
    <2>8. InboxShapes'
      BY <1>1, <2>1, <2>3, <2>5 DEF InboxInv, InboxShapes
    <2>9. ASSUME NEW d \in Calls PROVE SoundCall(call[d])'
      <3>1. CASE d = c
        BY <3>1, <2>4, <2>6, <2>7 DEF SoundCall
      <3>2. CASE d # c
        <4>1. SoundCall(call[d]) /\ call'[d] = call[d]
          BY <3>2, <2>7 DEF InboxInv
        <4> QED
          BY <4>1, <1>1, <2>3 DEF SoundCall, AskedDecided
      <3> QED
        BY <3>1, <3>2
    <2>10. (\A b \in bindings : ConsumedBy(b[1], b[2]))'
      BY <1>1, <2>3 DEF InboxInv, InboxShapes
    <2>11. (\A q \in confirmed : AskedDecided(q))'
      BY <1>1 DEF InboxInv, AskedDecided
    <2> QED
      BY <2>8, <2>9, <2>10, <2>11 DEF InboxInv
  <1>3. CASE ~Redeemable(k)
    BY <1>0, <1>1, <1>3, EndsInv DEF ConsumeCode
  <1> QED
    BY <1>2, <1>3

LEMMA BindSourceInv ==
  ASSUME InboxInv, NEW c \in Calls, BindSource(c)
  PROVE  InboxInv'
  <1>1. /\ call[c].code \in Codes /\ call[c].handle \in Handles
        /\ ConsumedBy(call[c].code, call[c].handle)
    BY DEF InboxInv, SoundCall, BindSource, CallAt
  <1>2. /\ bindings' = bindings \cup {<<call[c].code, call[c].handle>>}
        /\ UNCHANGED <<code, inbox, confirmed>> /\ call' = [call EXCEPT ![c] = NoCall]
    BY DEF BindSource, Ends, asking
  <1>3. \A d \in Calls : call'[d] = IF d = c THEN NoCall ELSE call[d]
    BY <1>2 DEF InboxInv, InboxShapes
  <1>4. InboxShapes'
    BY <1>1, <1>2, NoCallRow DEF InboxInv, InboxShapes
  <1>5. \A d \in Calls : SoundCall(call'[d])
    BY <1>3, NoCallRow DEF InboxInv
  <1>6. \A d \in Calls : SoundCall(call[d])'
    BY <1>2, <1>5 DEF SoundCall, ConsumedBy, AskedDecided
  <1>7. (\A b \in bindings : ConsumedBy(b[1], b[2]))'
    <2>1. ASSUME NEW b \in bindings' PROVE ConsumedBy(b[1], b[2])'
      <3>1. CASE b \in bindings
        BY <3>1, <1>2 DEF InboxInv, ConsumedBy
      <3>2. CASE b = <<call[c].code, call[c].handle>>
        <4>1. b[1] = call[c].code /\ b[2] = call[c].handle
          BY <3>2
        <4> QED
          BY <4>1, <1>1, <1>2 DEF ConsumedBy
      <3> QED
        BY <3>1, <3>2, <1>2
    <2> QED
      BY <2>1
  <1>8. (\A q \in confirmed : AskedDecided(q))'
    BY <1>2 DEF InboxInv, AskedDecided
  <1> QED
    BY <1>4, <1>6, <1>7, <1>8 DEF InboxInv

LEMMA CodeExpiresInv ==
  ASSUME InboxInv, CodeExpires
  PROVE  InboxInv'
  <1>1. PICK k \in Codes : /\ code[k].state = "live"
                           /\ code' = [code EXCEPT ![k] = [state |-> "expired",
                                                           by |-> NoHandle]]
    BY DEF CodeExpires
  <1>2. UNCHANGED <<bindings, inbox, confirmed, call>>
    BY DEF CodeExpires, asking
  <1>3. [state |-> "expired", by |-> NoHandle] \in CodeRow
    BY DEF CodeRow
  <1>4. /\ code' \in [Codes -> CodeRow]
        /\ \A j \in Codes, h \in Handles : ConsumedBy(j, h) => ConsumedBy(j, h)'
    BY <1>1, <1>3, CodeTouched
  <1>5. InboxShapes'
    BY <1>2, <1>4 DEF InboxInv, InboxShapes
  <1>6. ASSUME NEW d \in Calls PROVE SoundCall(call[d])'
    <2>1. SoundCall(call[d]) /\ call'[d] = call[d]
      BY <1>2 DEF InboxInv
    <2> QED
      BY <2>1, <1>2, <1>4 DEF SoundCall, AskedDecided
  <1>7. (\A b \in bindings : ConsumedBy(b[1], b[2]))'
    BY <1>2, <1>4 DEF InboxInv, InboxShapes
  <1>8. (\A q \in confirmed : AskedDecided(q))'
    BY <1>2 DEF InboxInv, AskedDecided
  <1> QED
    BY <1>5, <1>6, <1>7, <1>8 DEF InboxInv

-----------------------------------------------------------------------------
LEMMA FileQuestionInv ==
  ASSUME InboxInv, FileQuestion
  PROVE  InboxInv'
  <1>1. PICK i \in Items : inbox' = Append(inbox, [item |-> i, status |-> "pending"])
    BY DEF FileQuestion
  <1>2. UNCHANGED <<code, bindings, confirmed, call>>
    BY DEF FileQuestion, linking
  <1>3. [item |-> i, status |-> "pending"] \in Question
    BY DEF Question
  <1>4. \A r \in DOMAIN inbox : r \in DOMAIN inbox' /\ inbox'[r] = inbox[r]
    BY <1>1, <1>3 DEF InboxInv, InboxShapes
  <1>5. InboxShapes'
    BY <1>1, <1>2, <1>3 DEF InboxInv, InboxShapes
  <1>6. ASSUME NEW d \in Calls PROVE SoundCall(call[d])'
    <2>1. SoundCall(call[d]) /\ call'[d] = call[d]
      BY <1>2 DEF InboxInv
    <2> QED
      BY <2>1, <1>2, <1>4 DEF SoundCall, AskedDecided, ConsumedBy
  <1>7. (\A b \in bindings : ConsumedBy(b[1], b[2]))'
    BY <1>2 DEF InboxInv, ConsumedBy
  <1>8. (\A q \in confirmed : AskedDecided(q))'
    BY <1>2, <1>4 DEF InboxInv, AskedDecided
  <1> QED
    BY <1>5, <1>6, <1>7, <1>8 DEF InboxInv

LEMMA ReceiveReplyInv ==
  ASSUME InboxInv, NEW c \in Calls, ReceiveReply(c), ping \in SUBSET Nat
  PROVE  InboxInv'
  <1>1. PICK n \in 1..PingLimit, v \in ReplyVerdicts, q \in ping \cup {NoReviewId} :
          call' = [call EXCEPT ![c] = [NoCall EXCEPT !.step = "list", !.text = n,
                                                     !.verdict = v, !.meant = q]]
    BY DEF ReceiveReply, Numbered, ReplyVerdicts
  <1> DEFINE r == [NoCall EXCEPT !.step = "list", !.text = n, !.verdict = v, !.meant = q]
  <1>2. n \in Nat /\ q \in Nat
    BY InboxAssumption DEF NoReviewId
  <1>3. r \in CallRow /\ r.step = "list" /\ r.verdict = v
    BY <1>2 DEF NoCall, CallRow, NoReviewId
  <1>4. UNCHANGED <<code, bindings, inbox, confirmed>>
    BY DEF ReceiveReply, linking, asking
  <1>5. call' = [call EXCEPT ![c] = r]
    BY <1>1
  <1> HIDE DEF r
  <1>6. SoundCall(r)
    BY <1>3 DEF SoundCall
  <1> QED
    BY <1>3, <1>4, <1>5, <1>6, CallMoves

LEMMA ReceiveTapInv ==
  ASSUME InboxInv, NEW c \in Calls, ReceiveTap(c)
  PROVE  InboxInv'
  <1>1. PICK q \in DOMAIN inbox, v \in ReplyVerdicts :
          call' = [call EXCEPT ![c] = [NoCall EXCEPT !.step = "load", !.review = q,
                                                     !.verdict = v, !.meant = q]]
    BY DEF ReceiveTap, ReplyVerdicts
  <1> DEFINE r == [NoCall EXCEPT !.step = "load", !.review = q, !.verdict = v, !.meant = q]
  <1>2. q \in Nat
    BY QuestionRow DEF InboxInv, InboxShapes
  <1>3. r \in CallRow /\ r.step = "load" /\ r.verdict = v /\ r.review = q
    BY <1>2 DEF NoCall, CallRow, NoReviewId
  <1>4. UNCHANGED <<code, bindings, inbox, confirmed>>
    BY DEF ReceiveTap, linking, asking
  <1>5. call' = [call EXCEPT ![c] = r]
    BY <1>1
  <1> HIDE DEF r
  <1>6. SoundCall(r)
    BY <1>3 DEF SoundCall
  <1> QED
    BY <1>3, <1>4, <1>5, <1>6, CallMoves

LEMMA ListQuestionsInv ==
  ASSUME InboxInv, NEW c \in Calls, ListQuestions(c)
  PROVE  InboxInv'
  <1>1. UNCHANGED <<code, bindings, inbox, confirmed>>
    BY DEF ListQuestions, linking, asking
  <1>2. CASE Ends(c)
    BY <1>1, <1>2, EndsInv
  <1>3. ASSUME NEW q \in DOMAIN inbox,
               call' = [call EXCEPT ![c] =
                          [call[c] EXCEPT !.step = "load", !.review = q]]
        PROVE  InboxInv'
    <2> DEFINE r == [call[c] EXCEPT !.step = "load", !.review = q]
    <2>1. q \in Nat /\ call[c] \in CallRow
      BY QuestionRow DEF InboxInv, InboxShapes
    <2>2. call[c].verdict \in ReplyVerdicts
      BY DEF InboxInv, SoundCall, ListQuestions, CallAt
    <2>3. r \in CallRow /\ r.step = "load" /\ r.verdict \in ReplyVerdicts /\ r.review = q
      BY <2>1, <2>2 DEF CallRow
    <2>4. call' = [call EXCEPT ![c] = r]
      BY <1>3
    <2> HIDE DEF r
    <2>5. SoundCall(r)
      BY <2>3 DEF SoundCall
    <2> QED
      BY <1>1, <2>3, <2>4, <2>5, CallMoves
  <1> QED
    BY <1>2, <1>3 DEF ListQuestions, Numbered, Pending

LEMMA LoadReviewInv ==
  ASSUME InboxInv, NEW c \in Calls, LoadReview(c)
  PROVE  InboxInv'
  <1> DEFINE r == [call[c] EXCEPT !.step = Loaded(c)]
  <1>1. UNCHANGED <<code, bindings, inbox, confirmed>>
    BY DEF LoadReview, linking, asking
  <1>2. call[c].verdict \in ReplyVerdicts /\ call[c].review \in DOMAIN inbox
    BY DEF InboxInv, SoundCall, LoadReview, CallAt
  <1>3. Loaded(c) \in {"resolve", "confirm"}
    BY DEF Loaded
  <1>4. Loaded(c) = "confirm" => AskedDecided(call[c].review)
    BY <1>2 DEF Loaded, AskedDecided
  <1>5. r \in CallRow
    BY <1>3, ProceedRow DEF InboxInv
  <1>6. r.step = Loaded(c) /\ r.verdict = call[c].verdict /\ r.review = call[c].review
    BY DEF InboxInv, InboxShapes, CallRow
  <1>7. call' = [call EXCEPT ![c] = r]
    BY DEF LoadReview, Proceed
  <1> HIDE DEF r
  <1>8. SoundCall(r)
    BY <1>2, <1>3, <1>4, <1>6 DEF SoundCall
  <1> QED
    BY <1>1, <1>5, <1>7, <1>8, CallMoves

\* The review that is decided stays decided; so do all others.
LEMMA ResolveReviewInv ==
  ASSUME InboxInv, NEW c \in Calls, ResolveReview(c)
  PROVE  InboxInv'
  <1> DEFINE q == call[c].review
             decided == [item |-> inbox[q].item, status |-> call[c].verdict]
             r == [call[c] EXCEPT !.step = "confirm"]
  <1>1. q \in DOMAIN inbox /\ call[c].verdict \in ReplyVerdicts
    BY DEF InboxInv, SoundCall, ResolveReview, CallAt
  <1>2. /\ inbox' = [inbox EXCEPT ![q] = decided]
        /\ call' = [call EXCEPT ![c] = r]
        /\ UNCHANGED <<code, bindings, confirmed>>
    BY DEF ResolveReview, Proceed, linking
  <1>3. decided \in Question /\ decided.status # "pending"
    BY <1>1, QuestionRow DEF InboxInv, InboxShapes, Question, ReplyVerdicts
  <1>4. r \in CallRow
    BY ProceedRow DEF InboxInv
  <1>5. r.step = "confirm" /\ r.review = q
    BY DEF InboxInv, InboxShapes, CallRow
  <1> HIDE DEF decided, r, q
  <1>6. /\ inbox' \in Seq(Question) /\ DOMAIN inbox' = DOMAIN inbox
        /\ \A n \in DOMAIN inbox : inbox'[n] = IF n = q THEN decided ELSE inbox[n]
    BY <1>1, <1>2, <1>3 DEF InboxInv, InboxShapes
  <1>7. \A n : AskedDecided(n) \/ n = q => AskedDecided(n)'
    BY <1>1, <1>3, <1>6 DEF AskedDecided
  <1>8. \A d \in Calls : call'[d] = IF d = c THEN r ELSE call[d]
    BY <1>2 DEF InboxInv, InboxShapes
  <1>9. InboxShapes'
    BY <1>2, <1>4, <1>6 DEF InboxInv, InboxShapes
  <1>10. ASSUME NEW d \in Calls PROVE SoundCall(call[d])'
    <2>1. CASE d = c
      BY <2>1, <1>5, <1>7, <1>8 DEF SoundCall
    <2>2. CASE d # c
      <3>1. SoundCall(call[d]) /\ call'[d] = call[d]
        BY <2>2, <1>8 DEF InboxInv
      <3> QED
        BY <3>1, <1>2, <1>6, <1>7 DEF SoundCall, ConsumedBy
    <2> QED
      BY <2>1, <2>2
  <1>11. (\A b \in bindings : ConsumedBy(b[1], b[2]))'
    BY <1>2 DEF InboxInv, ConsumedBy
  <1>12. (\A n \in confirmed : AskedDecided(n))'
    BY <1>2, <1>7 DEF InboxInv
  <1> QED
    BY <1>9, <1>10, <1>11, <1>12 DEF InboxInv

LEMMA ConfirmInv ==
  ASSUME InboxInv, NEW c \in Calls, Confirm(c)
  PROVE  InboxInv'
  <1>1. AskedDecided(call[c].review)
    BY DEF InboxInv, SoundCall, Confirm, CallAt
  <1>2. /\ confirmed' = confirmed \cup {call[c].review}
        /\ call' = [call EXCEPT ![c] = NoCall]
        /\ UNCHANGED <<code, bindings, inbox>>
    BY DEF Confirm, Ends, linking
  <1>3. \A d \in Calls : call'[d] = IF d = c THEN NoCall ELSE call[d]
    BY <1>2 DEF InboxInv, InboxShapes
  <1>4. InboxShapes'
    BY <1>2, NoCallRow DEF InboxInv, InboxShapes
  <1>5. \A d \in Calls : SoundCall(call'[d])
    BY <1>3, NoCallRow DEF InboxInv
  <1>6. \A d \in Calls : SoundCall(call[d])'
    BY <1>2, <1>5 DEF SoundCall, ConsumedBy, AskedDecided
  <1>7. (\A b \in bindings : ConsumedBy(b[1], b[2]))'
    BY <1>2 DEF InboxInv, ConsumedBy
  <1>8. (\A q \in confirmed : AskedDecided(q))'
    BY <1>1, <1>2 DEF InboxInv, AskedDecided
  <1> QED
    BY <1>4, <1>6, <1>7, <1>8 DEF InboxInv

-----------------------------------------------------------------------------
\* The last ping lists reviews, which are numbers: what a reply's sender meant.
PingInv == ping \in SUBSET Nat

LEMMA PingStep ==
  ASSUME PingInv, InboxInv, [InboxNext]_inboxVars
  PROVE  PingInv'
  <1>1. DOMAIN inbox \subseteq Nat
    BY QuestionRow DEF InboxInv, InboxShapes
  <1>2. CASE Ping
    BY <1>1, <1>2 DEF Ping, Shown, Pending, PingInv
  <1>3. CASE UNCHANGED ping
    BY <1>3 DEF PingInv
  <1> QED
    BY <1>2, <1>3 DEF InboxNext, LinkNext, ReplyNext, inboxVars, asking, FileQuestion,
       CodeExpires, ReceiveCode, ConsumeCode, BindSource, CallDies, ReceiveReply,
       ListQuestions, ReceiveTap, LoadReview, ResolveReview, Confirm

\* Every step of a call, every question and every expiry keeps the invariant.
THEOREM InboxInvStep ==
  ASSUME InboxInv, PingInv, [InboxNext]_inboxVars
  PROVE  InboxInv'
  <1>1. CASE UNCHANGED <<code, bindings, inbox, confirmed, call>>
    BY <1>1 DEF InboxInv, InboxShapes, SoundCall, ConsumedBy, AskedDecided
  <1>2. ASSUME NEW c \in Calls, CallDies(c) PROVE InboxInv'
    BY <1>2, EndsInv DEF CallDies, linking, asking
  <1>3. CASE LinkNext
    BY <1>2, <1>3, CodeExpiresInv, ReceiveCodeInv, ConsumeCodeInv, BindSourceInv
       DEF LinkNext
  <1>4. CASE Ping
    BY <1>1, <1>4 DEF Ping, linking
  <1>5. ASSUME NEW c \in Calls, ReceiveReply(c) PROVE InboxInv'
    BY <1>5, ReceiveReplyInv DEF PingInv
  <1>6. CASE ReplyNext
    BY <1>2, <1>4, <1>5, <1>6, FileQuestionInv, ListQuestionsInv, ReceiveTapInv,
       LoadReviewInv, ResolveReviewInv, ConfirmInv DEF ReplyNext
  <1> QED
    BY <1>1, <1>3, <1>6 DEF InboxNext, inboxVars

LEMMA InvImpliesProperties == InboxInv => CodeBindsOnce /\ ConfirmedIsDecided
  <1> SUFFICES ASSUME InboxInv PROVE CodeBindsOnce /\ ConfirmedIsDecided
    OBVIOUS
  <1>1. ConfirmedIsDecided
    BY DEF InboxInv, AskedDecided, ConfirmedIsDecided
  <1>2. \A b \in bindings : b = <<b[1], b[2]>> /\ ConsumedBy(b[1], b[2])
    BY DEF InboxInv, InboxShapes
  <1>3. ASSUME NEW b \in bindings, NEW d \in bindings, b[1] = d[1]
        PROVE  b = d
    <2>1. [state |-> "consumed", by |-> b[2]] = [state |-> "consumed", by |-> d[2]]
      BY <1>2, <1>3 DEF ConsumedBy
    <2>2. b[2] = d[2]
      BY <2>1
    <2> QED
      BY <1>2, <1>3, <2>2
  <1>4. CodeBindsOnce
    BY <1>2, <1>3 DEF CodeBindsOnce, ConsumedBy
  <1> QED
    BY <1>1, <1>4

LEMMA InboxInvHolds == InboxSpec => [](InboxInv /\ PingInv)
  <1>1. InboxInit => InboxInv /\ PingInv
    BY InboxInvInit DEF InboxInit, PingInv
  <1>2. InboxInv /\ PingInv /\ [InboxNext]_inboxVars => (InboxInv /\ PingInv)'
    BY InboxInvStep, PingStep
  <1> QED
    BY <1>1, <1>2, PTL DEF InboxSpec

\* The property CodeBindsOnce of the run: of several senders with one code, one
\* is bound.
THEOREM CodesBindOnce == InboxSpec => []CodeBindsOnce
  BY InboxInvHolds, InvImpliesProperties, PTL

\* The property ConfirmedIsDecided of the run: no reply and no tap is confirmed
\* for a review that is still pending.
THEOREM ConfirmedAreDecided == InboxSpec => []ConfirmedIsDecided
  BY InboxInvHolds, InvImpliesProperties, PTL

-----------------------------------------------------------------------------
(* Types: a call refers to reviews that are filed, and a ping asks at most *)
(* PingLimit of them, since no two questions get the same number.          *)

Refers(r) == r.meant \in 0..Len(inbox) /\ r.review \in 0..Len(inbox)
AsksFew(S) == S \subseteq DOMAIN inbox /\ Cardinality(S) <= PingLimit

InboxBounds ==
  /\ bound \subseteq Handles
  /\ Len(inbox) <= MaxReviews
  /\ AsksFew(ping)
  /\ \A c \in Calls : Refers(call[c])
  /\ answered \subseteq ReviewIds \X ReviewIds
  /\ confirmed \subseteq ReviewIds
  /\ calls \in 0..MaxCalls

LEMMA InboxRange ==
  ASSUME InboxInv
  PROVE  /\ Len(inbox) \in Nat /\ DOMAIN inbox = 1..Len(inbox)
         /\ IsFiniteSet(DOMAIN inbox)
  <1>1. Len(inbox) \in Nat /\ DOMAIN inbox = 1..Len(inbox)
    BY DEF InboxInv, InboxShapes
  <1> QED
    BY <1>1, FS_Interval

\* No two reviews of a set have the same number from the newest on.
LEMMA RanksDiffer ==
  ASSUME InboxInv, NEW S \in SUBSET DOMAIN inbox, NEW q \in S, NEW r \in S, q < r
  PROVE  Rank(q, S) # Rank(r, S)
  <1> DEFINE Q == {k \in S : k >= q}
             R == {k \in S : k >= r}
  <1>1. q \in Nat /\ r \in Nat /\ \A k \in S : k \in Nat
    BY InboxRange
  <1>2. (\A k \in S : k >= r => k >= q) /\ q >= q /\ ~(q >= r)
    BY <1>1
  <1>3. R \subseteq Q /\ q \in Q /\ q \notin R
    BY <1>2
  <1>4. IsFiniteSet(Q)
    <2>1. Q \subseteq DOMAIN inbox
      OBVIOUS
    <2> HIDE DEF Q
    <2> QED
      BY <2>1, InboxRange, FS_Subset
  <1> HIDE DEF Q, R
  <1>5. Cardinality(Q) # Cardinality(R)
    <2>1. ASSUME NEW A, IsFiniteSet(A), NEW B \in SUBSET A
          PROVE  Cardinality(A) = Cardinality(B) => A = B
      BY <2>1, FS_Subset
    <2>2. Cardinality(Q) = Cardinality(R) => Q = R
      BY <1>3, <1>4, <2>1
    <2> QED
      BY <1>3, <2>2
  <1> QED
    BY <1>5 DEF Rank, Q, R

\* buildReviewPing's cut: what is shown are at most PingLimit questions.
LEMMA ShownAreFew ==
  ASSUME InboxInv, NEW S \in SUBSET DOMAIN inbox
  PROVE  AsksFew(Shown(S))
  <1> DEFINE T == Shown(S)
             rank == [r \in T |-> Rank(r, S)]
  <1>1. T \subseteq S /\ \A r \in T : r \in Nat /\ Rank(r, S) <= PingLimit
    BY InboxRange DEF Shown
  <1>2. \A r \in S : Rank(r, S) \in Nat /\ Rank(r, S) >= 1
    <2> TAKE r \in S
    <2> DEFINE R == {k \in S : k >= r}
    <2>1. R \subseteq DOMAIN inbox /\ r \in R
      BY InboxRange
    <2> HIDE DEF R
    <2>2. IsFiniteSet(R)
      BY <2>1, InboxRange, FS_Subset
    <2>3. Cardinality(R) \in Nat /\ Cardinality(R) # 0
      BY <2>1, <2>2, FS_CardinalityType, FS_EmptySet
    <2> QED
      BY <2>3 DEF Rank, R
  <1> HIDE DEF T
  <1>3. PingLimit \in Nat
    BY InboxAssumption
  <1>4. rank \in Injection(T, 1..PingLimit)
    <2>1. rank \in [T -> 1..PingLimit]
      BY <1>1, <1>2, <1>3
    <2>2. ASSUME NEW q \in T, NEW r \in T, rank[q] = rank[r]
          PROVE  q = r
      <3>1. Rank(q, S) = Rank(r, S) /\ q \in S /\ r \in S
        BY <1>1, <2>2
      <3>2. ~(q < r) /\ ~(r < q)
        BY <3>1, RanksDiffer
      <3> QED
        BY <1>1, <3>2
    <2> QED
      BY <2>1, <2>2 DEF Injection, IsInjective
  <1>5. IsFiniteSet(1..PingLimit) /\ Cardinality(1..PingLimit) = PingLimit
    BY <1>3, FS_Interval
  <1>6. Cardinality(T) <= PingLimit
    <2> HIDE DEF rank
    <2>1. ASSUME NEW A, NEW B, IsFiniteSet(B), NEW f \in Injection(A, B)
          PROVE  Cardinality(A) <= Cardinality(B)
      BY <2>1, FS_Injection
    <2> QED
      BY <1>4, <1>5, <2>1
  <1> QED
    BY <1>1, <1>6 DEF AsksFew, T

LEMMA InboxBoundsInit == InboxInit => InboxBounds
  <1> SUFFICES ASSUME InboxInit PROVE InboxBounds
    OBVIOUS
  <1>1. Len(inbox) = 0 /\ MaxReviews \in Nat /\ MaxCalls \in Nat /\ PingLimit \in Nat
    BY InboxAssumption DEF InboxInit
  <1>2. AsksFew(ping)
    BY <1>1, FS_EmptySet DEF InboxInit, AsksFew
  <1>3. \A c \in Calls : Refers(call[c])
    BY <1>1 DEF InboxInit, Refers, NoCall, NoReviewId
  <1> QED
    BY <1>1, <1>2, <1>3 DEF InboxInit, InboxBounds

\* A call moves, and the list of questions is as long as it was or longer.
LEMMA BoundsMove ==
  ASSUME InboxInv, InboxBounds, NEW c \in Calls, NEW r, Refers(r),
         call' = [call EXCEPT ![c] = r], Len(inbox') = Len(inbox)
  PROVE  (\A d \in Calls : Refers(call[d]))'
  <1>1. \A d \in Calls : call'[d] = IF d = c THEN r ELSE call[d]
    BY DEF InboxInv, InboxShapes
  <1> QED
    BY <1>1 DEF InboxBounds, Refers

LEMMA CallRefers ==
  ASSUME InboxInv, InboxBounds, NEW c \in Calls, NEW step
  PROVE  Refers([call[c] EXCEPT !.step = step])
  <1>1. Refers(call[c]) /\ call[c] \in CallRow
    BY DEF InboxInv, InboxShapes, InboxBounds
  <1> QED
    BY <1>1 DEF Refers, CallRow

LEMMA NoCallRefers ==
  ASSUME InboxInv
  PROVE  Refers(NoCall)
  BY InboxRange DEF Refers, NoCall, NoReviewId

LEMMA CallingCounts ==
  ASSUME InboxBounds, NEW c, Calling(c)
  PROVE  calls' \in 0..MaxCalls
  BY InboxAssumption DEF InboxBounds, Calling

LEMMA EndsBounds ==
  ASSUME InboxInv, InboxBounds, NEW c \in Calls, Ends(c) \/ \E s : Proceed(c, s),
         UNCHANGED <<inbox, ping>>
  PROVE  (AsksFew(ping) /\ \A d \in Calls : Refers(call[d]))'
  <1>1. AsksFew(ping)'
    BY DEF InboxBounds, AsksFew
  <1>2. CASE Ends(c)
    BY <1>1, <1>2, NoCallRefers, BoundsMove DEF Ends
  <1>3. ASSUME NEW s, Proceed(c, s)
        PROVE  (\A d \in Calls : Refers(call[d]))'
    BY <1>3, CallRefers, BoundsMove DEF Proceed
  <1> QED
    BY <1>1, <1>2, <1>3

LEMMA LinkBounds ==
  ASSUME InboxInv, InboxBounds, LinkNext
  PROVE  InboxBounds'
  <1>1. CASE CodeExpires
    BY <1>1 DEF CodeExpires, asking, InboxBounds, AsksFew, Refers
  <1>2. ASSUME NEW c \in Calls, ReceiveCode(c)
        PROVE  InboxBounds'
    <2>1. PICK h \in Handles \ bound, k \in Codes :
            /\ Calling(c) /\ UNCHANGED <<linking, asking>>
            /\ call' = [call EXCEPT ![c] = [NoCall EXCEPT !.step = "consume",
                                                          !.handle = h, !.code = k]]
      BY <1>2 DEF ReceiveCode
    <2> DEFINE r == [NoCall EXCEPT !.step = "consume", !.handle = h, !.code = k]
    <2>2. Refers(r)
      BY InboxRange DEF Refers, NoCall, NoReviewId
    <2>3. call' = [call EXCEPT ![c] = r]
      BY <2>1
    <2> HIDE DEF r
    <2>4. UNCHANGED <<code, bound, bindings, inbox, ping, answered, confirmed>>
      BY <2>1 DEF linking, asking
    <2>5. (\A d \in Calls : Refers(call[d]))'
      BY <2>2, <2>3, <2>4, BoundsMove
    <2> QED
      BY <2>1, <2>4, <2>5, CallingCounts DEF InboxBounds, AsksFew
  <1>3. ASSUME NEW c \in Calls, ConsumeCode(c)
        PROVE  InboxBounds'
    <2>1. UNCHANGED <<bound, inbox, ping, answered, confirmed, calls>>
          /\ (Ends(c) \/ Proceed(c, "bind"))
      BY <1>3 DEF ConsumeCode, asking
    <2> QED
      BY <2>1, EndsBounds DEF InboxBounds
  <1>4. ASSUME NEW c \in Calls, BindSource(c)
        PROVE  InboxBounds'
    <2>1. UNCHANGED <<inbox, ping, answered, confirmed, calls>> /\ Ends(c)
      BY <1>4 DEF BindSource, asking
    <2>2. bound' \subseteq Handles
      BY <1>4 DEF BindSource, CallAt, InboxInv, SoundCall, InboxBounds
    <2> QED
      BY <2>1, <2>2, EndsBounds DEF InboxBounds
  <1>5. ASSUME NEW c \in Calls, CallDies(c)
        PROVE  InboxBounds'
    <2>1. UNCHANGED <<bound, inbox, ping, answered, confirmed, calls>> /\ Ends(c)
      BY <1>5 DEF CallDies, linking, asking
    <2> QED
      BY <2>1, EndsBounds DEF InboxBounds
  <1> QED
    BY <1>1, <1>2, <1>3, <1>4, <1>5 DEF LinkNext

\* A new call that refers to filed reviews: an answer or a tap.
LEMMA CallStarts ==
  ASSUME InboxInv, InboxBounds, NEW c \in Calls, Calling(c),
         NEW r, Refers(r), call' = [call EXCEPT ![c] = r],
         UNCHANGED <<linking, asking>>
  PROVE  InboxBounds'
  <1>1. UNCHANGED <<bound, inbox, ping, answered, confirmed>>
    BY DEF linking, asking
  <1>2. (\A d \in Calls : Refers(call[d]))'
    BY <1>1, BoundsMove
  <1> QED
    BY <1>1, <1>2, CallingCounts DEF InboxBounds, AsksFew

LEMMA ReplyBounds ==
  ASSUME InboxInv, InboxBounds, ReplyNext
  PROVE  InboxBounds'
  <1>0. Len(inbox) \in Nat /\ DOMAIN inbox = 1..Len(inbox) /\ MaxReviews \in Nat
        /\ DOMAIN inbox \subseteq ReviewIds
    BY InboxRange, InboxAssumption DEF InboxBounds, ReviewIds
  <1>1. CASE FileQuestion
    <2>1. PICK i \in Items :
            /\ Len(inbox) < MaxReviews
            /\ inbox' = Append(inbox, [item |-> i, status |-> "pending"])
            /\ UNCHANGED <<bound, ping, answered, confirmed, call, calls>>
      BY <1>1 DEF FileQuestion, linking
    <2>2. Len(inbox') = Len(inbox) + 1 /\ DOMAIN inbox' = 1..Len(inbox')
      BY <1>0, <2>1 DEF InboxInv, InboxShapes
    <2>3. AsksFew(ping)'
      BY <1>0, <2>1, <2>2 DEF InboxBounds, AsksFew
    <2>4. (\A d \in Calls : Refers(call[d]))'
      BY <1>0, <2>1, <2>2 DEF InboxBounds, Refers
    <2> QED
      BY <1>0, <2>1, <2>2, <2>3, <2>4 DEF InboxBounds
  <1>2. CASE Ping
    <2>1. PICK i \in Items :
            /\ ping' = Shown({r \in Pending : inbox[r].item = i})
            /\ UNCHANGED <<bound, inbox, answered, confirmed, call, calls>>
      BY <1>2 DEF Ping, linking
    <2>2. AsksFew(ping')
      BY <2>1, ShownAreFew DEF Pending
    <2> QED
      BY <2>1, <2>2 DEF InboxBounds, AsksFew, Refers
  <1>3. ASSUME NEW c \in Calls, ReceiveReply(c)
        PROVE  InboxBounds'
    <2>1. PICK n \in 1..PingLimit, v \in {"accepted", "rejected"},
               q \in ping \cup {NoReviewId} :
            /\ Calling(c) /\ UNCHANGED <<linking, asking>>
            /\ call' = [call EXCEPT ![c] = [NoCall EXCEPT !.step = "list", !.text = n,
                                                          !.verdict = v, !.meant = q]]
      BY <1>3 DEF ReceiveReply, Numbered
    <2> DEFINE r == [NoCall EXCEPT !.step = "list", !.text = n,
                                   !.verdict = v, !.meant = q]
    <2>2. q \in 0..Len(inbox)
      BY <1>0 DEF InboxBounds, AsksFew, NoReviewId
    <2>3. Refers(r)
      BY <1>0, <2>2 DEF Refers, NoCall, NoReviewId
    <2>4. call' = [call EXCEPT ![c] = r]
      BY <2>1
    <2> HIDE DEF r
    <2> QED
      BY <2>1, <2>3, <2>4, CallStarts
  <1>4. ASSUME NEW c \in Calls, ReceiveTap(c)
        PROVE  InboxBounds'
    <2>1. PICK q \in DOMAIN inbox, v \in {"accepted", "rejected"} :
            /\ Calling(c) /\ UNCHANGED <<linking, asking>>
            /\ call' = [call EXCEPT ![c] = [NoCall EXCEPT !.step = "load", !.review = q,
                                                  !.verdict = v, !.meant = q]]
      BY <1>4 DEF ReceiveTap
    <2> DEFINE r == [NoCall EXCEPT !.step = "load", !.review = q,
                                   !.verdict = v, !.meant = q]
    <2>2. q \in 0..Len(inbox)
      BY <1>0
    <2>3. Refers(r)
      BY <1>0, <2>2 DEF Refers, NoCall, NoReviewId
    <2>4. call' = [call EXCEPT ![c] = r]
      BY <2>1
    <2> HIDE DEF r
    <2> QED
      BY <2>1, <2>3, <2>4, CallStarts
  <1>5. ASSUME NEW c \in Calls, ListQuestions(c)
        PROVE  InboxBounds'
    <2>1. UNCHANGED <<bound, inbox, ping, answered, confirmed, calls>>
      BY <1>5 DEF ListQuestions, linking, asking
    <2>2. CASE Ends(c)
      BY <2>1, <2>2, EndsBounds DEF InboxBounds
    <2>3. ASSUME NEW q \in Numbered(call[c].text, Pending),
                 call' = [call EXCEPT ![c] = [call[c] EXCEPT !.step = "load", !.review = q]]
          PROVE  InboxBounds'
      <3> DEFINE r == [call[c] EXCEPT !.step = "load", !.review = q]
      <3>1. q \in 0..Len(inbox)
        BY <1>0 DEF Numbered, Pending
      <3>2. Refers(call[c]) /\ call[c] \in CallRow
        BY DEF InboxInv, InboxShapes, InboxBounds
      <3>3. Refers(r)
        BY <3>1, <3>2 DEF Refers, CallRow
      <3>4. call' = [call EXCEPT ![c] = r]
        BY <2>3
      <3> HIDE DEF r
      <3>5. (\A d \in Calls : Refers(call[d]))'
        BY <2>1, <3>3, <3>4, BoundsMove
      <3> QED
        BY <2>1, <3>5 DEF InboxBounds, AsksFew
    <2> QED
      BY <1>5, <2>2, <2>3 DEF ListQuestions
  <1>6. ASSUME NEW c \in Calls, LoadReview(c)
        PROVE  InboxBounds'
    <2>1. UNCHANGED <<bound, inbox, ping, answered, confirmed, calls>>
          /\ \E s : Proceed(c, s)
      BY <1>6 DEF LoadReview, linking, asking
    <2> QED
      BY <2>1, EndsBounds DEF InboxBounds
  <1>7. ASSUME NEW c \in Calls, ResolveReview(c)
        PROVE  InboxBounds'
    <2>1. /\ UNCHANGED <<bound, ping, confirmed, calls>> /\ Proceed(c, "confirm")
          /\ \E x : inbox' = [inbox EXCEPT ![call[c].review] = x]
          /\ call[c].step = "resolve"
          /\ answered' = IF call[c].meant = NoReviewId THEN answered
                         ELSE answered \cup {<<call[c].meant, call[c].review>>}
      BY <1>7 DEF ResolveReview, linking, CallAt
    <2>2. Len(inbox') = Len(inbox) /\ DOMAIN inbox' = DOMAIN inbox
      BY <1>0, <2>1 DEF InboxInv, InboxShapes
    <2>3. AsksFew(ping)'
      BY <2>1, <2>2 DEF InboxBounds, AsksFew
    <2>4. (\A d \in Calls : Refers(call[d]))'
      BY <2>1, <2>2, CallRefers, BoundsMove DEF Proceed
    <2>5. Refers(call[c]) /\ call[c].review \in DOMAIN inbox
      BY <2>1 DEF InboxInv, SoundCall, InboxBounds
    <2>6. answered' \subseteq ReviewIds \X ReviewIds
      <3>1. call[c].meant # NoReviewId => call[c].meant \in ReviewIds
        BY <1>0, <2>5 DEF Refers, NoReviewId
      <3> QED
        BY <1>0, <2>1, <2>5, <3>1 DEF InboxBounds
    <2> QED
      BY <2>1, <2>2, <2>3, <2>4, <2>6 DEF InboxBounds
  <1>8. ASSUME NEW c \in Calls, Confirm(c)
        PROVE  InboxBounds'
    <2>1. /\ UNCHANGED <<bound, inbox, ping, answered, calls>> /\ Ends(c)
          /\ confirmed' = confirmed \cup {call[c].review} /\ call[c].step = "confirm"
      BY <1>8 DEF Confirm, linking, CallAt
    <2>2. call[c].review \in DOMAIN inbox
      BY <2>1 DEF InboxInv, SoundCall, AskedDecided
    <2> QED
      BY <1>0, <2>1, <2>2, EndsBounds DEF InboxBounds
  <1>9. ASSUME NEW c \in Calls, CallDies(c)
        PROVE  InboxBounds'
    <2>1. UNCHANGED <<bound, inbox, ping, answered, confirmed, calls>> /\ Ends(c)
      BY <1>9 DEF CallDies, linking, asking
    <2> QED
      BY <2>1, EndsBounds DEF InboxBounds
  <1> QED
    BY <1>1, <1>2, <1>3, <1>4, <1>5, <1>6, <1>7, <1>8, <1>9 DEF ReplyNext

LEMMA InboxBoundsStep ==
  InboxInv /\ InboxBounds /\ [InboxNext]_inboxVars => InboxBounds'
  <1>1. CASE UNCHANGED inboxVars
    BY <1>1 DEF inboxVars, InboxBounds, AsksFew, Refers
  <1> QED
    BY <1>1, LinkBounds, ReplyBounds DEF InboxNext

\* The variables of a channel keep their types: calls, pings and verdicts refer
\* to reviews that are filed, and a ping never asks more than PingLimit.
THEOREM InboxTypesHold == InboxSpec => []InboxTypeOK
  <1>1. InboxInv /\ InboxBounds => InboxTypeOK
    <2> SUFFICES ASSUME InboxInv, InboxBounds PROVE InboxTypeOK
      OBVIOUS
    <2>1. \A c \in Calls : call[c] \in CallRow
      BY DEF InboxInv, InboxShapes
    <2>2. \A c \in Calls : {call[c].meant, call[c].review} \subseteq 0..Len(inbox)
      BY DEF InboxBounds, Refers
    <2>3. \A c \in Calls :
            /\ call[c].step \in {"idle", "consume", "bind", "list", "load", "resolve",
                                 "confirm"}
            /\ call[c].handle \in Handles \cup {NoHandle}
      BY <2>1 DEF CallRow
    <2>4. Question = [item : Items, status : {"pending", "accepted", "rejected"}]
      BY DEF Question, ReplyVerdicts
    <2> QED
      BY <2>2, <2>3, <2>4
         DEF InboxInv, InboxShapes, InboxBounds, AsksFew, InboxTypeOK, CodeRow
  <1> QED
    BY <1>1, InboxInvHolds, InboxBoundsInit, InboxBoundsStep, PTL DEF InboxSpec

-----------------------------------------------------------------------------
(* The learning pass: what is stamped is folded, what is not logged is     *)
(* not, and a pass folds what it read.                                     *)

EventRow == [agent : RoutedAgents, item : RoutedItems \cup {NoRoutedItem},
             consumed : BOOLEAN]
Counts == [EventIds -> Nat]
PassRow == [step : {"idle", "load", "read", "fold", "stamp"},
            left : SUBSET RoutedAgents, agent : RoutedAgents \cup {NoRoutedAgent},
            batch : SUBSET EventIds, base : Counts]

LearnShapes ==
  /\ agentRows \in SUBSET RoutedAgents
  /\ settled \in [RoutedItems -> RoutedAgents \cup {NoRoutedAgent}]
  /\ events \in Seq(EventRow) /\ Len(events) <= MaxEvents
  /\ profile \in Counts /\ cutOff \in Counts
  /\ pass \in PassRow

\* What is not logged is not folded.
Unlogged == \A e \in EventIds : e \notin DOMAIN events => profile[e] = 0 /\ cutOff[e] = 0

\* What a pass r still has before it: events nobody has stamped.
SoundPass(r) ==
  /\ r.batch \subseteq DOMAIN events
  /\ r.agent \notin r.left
  /\ \A n \in r.batch : events[n].agent \in r.left \cup {r.agent} => ~events[n].consumed
  /\ r.step = "fold" => r.base = profile

LearnInv == LearnShapes /\ Unlogged /\ SoundPass(pass) /\ LearnFoldsOnce

-----------------------------------------------------------------------------
LEMMA NoPassRow == NoPass \in PassRow /\ SoundPass(NoPass)
  BY DEF NoPass, PassRow, SoundPass, Counts

LEMMA EventTypes ==
  ASSUME events \in Seq(EventRow)
  PROVE  /\ Len(events) \in Nat /\ DOMAIN events = 1..Len(events)
         /\ \A n \in DOMAIN events : events[n] \in EventRow
  OBVIOUS

LEMMA OnwardRow ==
  ASSUME LearnShapes, SoundPass(pass), NEW left \in SUBSET pass.left
  PROVE  /\ Onward(left) \in PassRow /\ SoundPass(Onward(left))
         /\ Onward(left).step \in {"idle", "read"}
  <1>1. /\ NoPass.base \in Counts /\ left \in SUBSET RoutedAgents
        /\ NoRoutedAgent \notin RoutedAgents
    BY LearnAssumption DEF LearnShapes, PassRow, NoPass, Counts
  <1>2. /\ Onward(left) \in PassRow /\ Onward(left).left = left
        /\ Onward(left).agent = NoRoutedAgent
        /\ Onward(left).batch \subseteq pass.batch
        /\ Onward(left).step \in {"idle", "read"}
    BY <1>1 DEF Onward, LearnShapes, PassRow
  <1>3. \A n \in DOMAIN events : events[n].agent # NoRoutedAgent
    BY <1>1, EventTypes DEF LearnShapes, EventRow
  <1> HIDE DEF Onward
  <1> QED
    BY <1>1, <1>2, <1>3 DEF SoundPass

\* A pass that moves, with nothing else, to a sound row that is not about to
\* stamp, from a step where it has not folded.
LEMMA PassMoves ==
  ASSUME LearnInv, pass.step # "stamp", NEW r \in PassRow, r.step # "stamp",
         SoundPass(r), pass' = r,
         UNCHANGED <<agentRows, settled, events, profile, cutOff>>
  PROVE  LearnInv'
  <1>1. LearnShapes' /\ Unlogged'
    BY DEF LearnInv, LearnShapes, Unlogged
  <1>2. SoundPass(pass)'
    BY DEF SoundPass
  <1>3. LearnFoldsOnce'
    BY DEF LearnInv, LearnFoldsOnce, EventExists, PassAt
  <1> QED
    BY <1>1, <1>2, <1>3 DEF LearnInv

\* The initial state satisfies the invariant.
LEMMA LearnInvInit == LearnInit => LearnInv
  <1> SUFFICES ASSUME LearnInit PROVE LearnInv
    OBVIOUS
  <1>1. events = << >> /\ Len(events) = 0 /\ DOMAIN events = {}
    BY DEF LearnInit
  <1>2. LearnShapes
    BY <1>1, NoPassRow, LearnAssumption DEF LearnInit, LearnShapes, Counts
  <1>3. Unlogged
    BY DEF LearnInit, Unlogged
  <1>4. SoundPass(pass)
    BY NoPassRow DEF LearnInit
  <1>5. LearnFoldsOnce
    BY <1>1 DEF LearnFoldsOnce
  <1> QED
    BY <1>2, <1>3, <1>4, <1>5 DEF LearnInv

-----------------------------------------------------------------------------
\* Events are logged behind those there are, whatever the pass is doing.
LEMMA EventsGrow ==
  ASSUME LearnInv, NEW extra \in Seq(EventRow), Len(events) + Len(extra) <= MaxEvents,
         \A n \in DOMAIN extra : ~extra[n].consumed,
         events' = events \o extra, UNCHANGED <<agentRows, settled, profile, cutOff>>,
         \/ pass' = pass
         \/ /\ pass.step = "idle" /\ pass' \in PassRow
            /\ pass'.step = "load" /\ pass'.batch = {} /\ pass'.agent \notin pass'.left
  PROVE  LearnInv'
  <1>1. /\ Len(events) \in Nat /\ DOMAIN events = 1..Len(events)
        /\ Len(extra) \in Nat /\ DOMAIN extra = 1..Len(extra)
    BY DEF LearnInv, LearnShapes
  <1>2. /\ events' \in Seq(EventRow) /\ Len(events') = Len(events) + Len(extra)
        /\ DOMAIN events' = 1..Len(events')
    BY <1>1 DEF LearnInv, LearnShapes
  <1>3. \A n \in DOMAIN events : n \in DOMAIN events' /\ events'[n] = events[n]
    BY <1>1, <1>2 DEF LearnInv, LearnShapes
  <1>4. ASSUME NEW n \in DOMAIN events', n \notin DOMAIN events
        PROVE  ~events'[n].consumed /\ n \in EventIds
    <2>1. n \in Nat /\ n > Len(events) /\ n - Len(events) \in DOMAIN extra
      BY <1>1, <1>2, <1>4
    <2>2. events'[n] = extra[n - Len(events)]
      BY <1>1, <1>2, <2>1 DEF LearnInv, LearnShapes
    <2> QED
      BY <1>2, <2>1, <2>2, LearnAssumption DEF EventIds
  <1>5. LearnShapes'
    BY <1>2 DEF LearnInv, LearnShapes
  <1>6. Unlogged'
    BY <1>3 DEF LearnInv, Unlogged
  <1>7. SoundPass(pass)'
    BY <1>3 DEF LearnInv, SoundPass
  <1>8. LearnFoldsOnce'
    <2> SUFFICES ASSUME NEW n \in DOMAIN events', EventExists(n)'
                 PROVE  profile[n] = cutOff[n] + (IF events'[n].consumed \/
                                       (PassAt("stamp")' /\ n \in Mine') THEN 1 ELSE 0)
      BY DEF LearnFoldsOnce
    <2>1. PassAt("stamp")' => pass' = pass /\ PassAt("stamp")
      BY DEF PassAt
    <2>2. CASE n \in DOMAIN events
      <3>1. EventExists(n)
        BY <1>3, <2>2 DEF EventExists
      <3>2. PassAt("stamp") = PassAt("stamp")' /\
            (PassAt("stamp") => (n \in Mine <=> n \in Mine'))
        BY <1>3, <2>1, <2>2 DEF Mine, PassAt
      <3>3. events'[n] = events[n]
        BY <1>3, <2>2
      <3>4. profile[n] = cutOff[n] + (IF events[n].consumed \/
                            (PassAt("stamp") /\ n \in Mine) THEN 1 ELSE 0)
        BY <2>2, <3>1 DEF LearnInv, LearnFoldsOnce
      <3> QED
        BY <3>2, <3>3, <3>4
    <2>3. CASE n \notin DOMAIN events
      <3>1. ~events'[n].consumed /\ profile[n] = 0 /\ cutOff[n] = 0
        BY <1>4, <2>3 DEF LearnInv, Unlogged
      <3>2. PassAt("stamp")' => n \notin Mine'
        BY <2>1, <2>3 DEF Mine, LearnInv, SoundPass
      <3> QED
        BY <3>1, <3>2
    <2> QED
      BY <2>2, <2>3
  <1> QED
    BY <1>5, <1>6, <1>7, <1>8 DEF LearnInv

LEMMA EventIsRow ==
  ASSUME NEW a \in RoutedAgents, NEW i \in RoutedItems \cup {NoRoutedItem}
  PROVE  Event(a, i) \in EventRow /\ ~Event(a, i).consumed
  BY DEF Event, EventRow

LEMMA FeedbackInv ==
  ASSUME LearnInv, Feedback
  PROVE  LearnInv'
  <1>1. PICK a \in agentRows, i \in RoutedItems \cup {NoRoutedItem} :
          events' = Append(events, Event(a, i))
    BY DEF Feedback
  <1>2. /\ Len(events) < MaxEvents /\ Len(events) \in Nat /\ MaxEvents \in Nat
        /\ UNCHANGED <<agentRows, settled, profile, pass, cutOff>>
    BY LearnAssumption DEF Feedback, LearnInv, LearnShapes
  <1>3. Event(a, i) \in EventRow /\ ~Event(a, i).consumed
    BY EventIsRow DEF LearnInv, LearnShapes
  <1> DEFINE extra == <<Event(a, i)>>
  <1>4. /\ extra \in Seq(EventRow) /\ Len(extra) = 1 /\ extra[1] = Event(a, i)
        /\ DOMAIN extra = {1}
    BY <1>3
  <1>5. events' = events \o extra
    BY <1>1, <1>3 DEF LearnInv, LearnShapes
  <1>6. \A n \in DOMAIN extra : ~extra[n].consumed
    BY <1>3, <1>4
  <1>7. Len(events) + Len(extra) <= MaxEvents
    BY <1>2, <1>4
  <1> HIDE DEF extra
  <1> QED
    BY <1>2, <1>4, <1>5, <1>6, <1>7, EventsGrow

LEMMA SweepImplicitInv ==
  ASSUME LearnInv, SweepImplicit
  PROVE  LearnInv'
  <1> DEFINE unlabelled == {i \in RoutedItems :
                              /\ settled[i] \in agentRows
                              /\ ~\E n \in DOMAIN events :
                                    EventExists(n) /\ events[n].item = i}
             room == MaxEvents - Len(events)
             top == IF Cardinality(unlabelled) < room THEN Cardinality(unlabelled)
                                                      ELSE room
  <1>1. Len(events) \in Nat /\ Len(events) <= MaxEvents /\ MaxEvents \in Nat
    BY LearnAssumption DEF LearnInv, LearnShapes
  <1>2. Cardinality(unlabelled) \in Nat
    <2>1. IsFiniteSet(unlabelled)
      BY LearnAssumption, FS_Subset
    <2> QED
      BY <2>1, FS_CardinalityType
  <1>3. PICK item \in [1..top -> unlabelled] :
          events' = events \o [n \in 1..top |-> Event(settled[item[n]], item[n])]
    BY DEF SweepImplicit
  <1>4. /\ pass.step = "idle" /\ pass' = [NoPass EXCEPT !.step = "load"]
        /\ UNCHANGED <<agentRows, settled, profile, cutOff>>
    BY DEF SweepImplicit, PassAt
  <1>5. top \in Nat /\ Len(events) + top <= MaxEvents
    <2> HIDE DEF unlabelled
    <2> QED
      BY <1>1, <1>2
  <1>6. \A i \in unlabelled : i \in RoutedItems /\ settled[i] \in RoutedAgents
    BY DEF LearnInv, LearnShapes
  <1> DEFINE extra == [n \in 1..top |-> Event(settled[item[n]], item[n])]
  <1> HIDE DEF top, unlabelled
  <1>7. \A n \in 1..top : extra[n] \in EventRow /\ ~extra[n].consumed
    BY <1>3, <1>6, EventIsRow
  <1>8. extra \in Seq(EventRow) /\ Len(extra) = top /\ DOMAIN extra = 1..top
    BY <1>5, <1>7
  <1>9. events' = events \o extra
    BY <1>3
  <1>10. /\ pass' \in PassRow /\ pass'.step = "load" /\ pass'.batch = {}
         /\ pass'.agent \notin pass'.left
    BY <1>4, NoPassRow DEF NoPass, PassRow
  <1> HIDE DEF extra
  <1> QED
    BY <1>4, <1>5, <1>7, <1>8, <1>9, <1>10, EventsGrow

-----------------------------------------------------------------------------
LEMMA AgentDeletedInv ==
  ASSUME LearnInv, AgentDeleted
  PROVE  LearnInv'
  <1>1. agentRows' \subseteq agentRows
        /\ UNCHANGED <<settled, events, profile, pass, cutOff>>
    BY DEF AgentDeleted
  <1> QED
    BY <1>1 DEF LearnInv, LearnShapes, Unlogged, SoundPass, LearnFoldsOnce, EventExists,
       PassAt, Mine

LEMMA ItemSettlesInv ==
  ASSUME LearnInv, ItemSettles
  PROVE  LearnInv'
  <1>1. settled' \in [RoutedItems -> RoutedAgents \cup {NoRoutedAgent}]
        /\ UNCHANGED <<agentRows, events, profile, pass, cutOff>>
    BY DEF ItemSettles, LearnInv, LearnShapes
  <1> QED
    BY <1>1 DEF LearnInv, LearnShapes, Unlogged, SoundPass, LearnFoldsOnce, EventExists,
       PassAt, Mine

LEMMA LoadEventsInv ==
  ASSUME LearnInv, LoadEvents
  PROVE  LearnInv'
  <1> DEFINE open == {n \in DOMAIN events : Unconsumed(n)}
             batch == {n \in open : Cardinality({k \in open : k < n}) < BatchMax}
             agents == {events[n].agent : n \in batch}
             r == [NoPass EXCEPT !.step = "read", !.batch = batch, !.left = agents]
  <1>1. /\ PassAt("load") /\ UNCHANGED <<agentRows, settled, events, profile, cutOff>>
        /\ pass' = IF batch = {} THEN NoPass ELSE r
    BY DEF LoadEvents
  <1>2. batch \subseteq DOMAIN events /\ \A n \in batch : ~events[n].consumed
    BY DEF Unconsumed
  <1>3. DOMAIN events \subseteq EventIds
    BY EventTypes, LearnAssumption DEF LearnInv, LearnShapes, EventIds
  <1>4. \A n \in batch : events[n].agent \in RoutedAgents
    BY <1>2, EventTypes DEF LearnInv, LearnShapes, EventRow
  <1> HIDE DEF batch
  <1>5. agents \in SUBSET RoutedAgents /\ NoRoutedAgent \notin agents
    BY <1>4, LearnAssumption
  <1> HIDE DEF agents
  <1>6. /\ r \in PassRow /\ r.step = "read" /\ r.batch = batch /\ r.left = agents
        /\ r.agent = NoRoutedAgent
    BY <1>2, <1>3, <1>5, NoPassRow DEF NoPass, PassRow
  <1> HIDE DEF r
  <1>7. SoundPass(r)
    BY <1>2, <1>5, <1>6 DEF SoundPass
  <1>8. CASE pass' = NoPass
    BY <1>1, <1>8, NoPassRow, PassMoves DEF PassAt, NoPass
  <1>9. CASE pass' = r
    BY <1>1, <1>6, <1>7, <1>9, PassMoves DEF PassAt
  <1> QED
    BY <1>1, <1>8, <1>9

LEMMA ReadProfileInv ==
  ASSUME LearnInv, ReadProfile
  PROVE  LearnInv'
  <1>1. PICK a \in pass.left :
          pass' = IF a \in agentRows
                    THEN [pass EXCEPT !.step = "fold", !.agent = a, !.base = profile,
                                      !.left = @ \ {a}]
                    ELSE Onward(pass.left \ {a})
    BY DEF ReadProfile
  <1>2. PassAt("read") /\ UNCHANGED <<agentRows, settled, events, profile, cutOff>>
    BY DEF ReadProfile
  <1>3. pass \in PassRow /\ profile \in Counts /\ pass.left \in SUBSET RoutedAgents
    BY DEF LearnInv, LearnShapes, PassRow
  <1> DEFINE r == [pass EXCEPT !.step = "fold", !.agent = a, !.base = profile,
                               !.left = @ \ {a}]
  <1>4. CASE a \in agentRows
    <2>1. /\ r \in PassRow /\ r.step = "fold" /\ r.batch = pass.batch
          /\ r.left = pass.left \ {a} /\ r.agent = a /\ r.base = profile
      BY <1>3 DEF PassRow
    <2>2. pass' = r
      BY <1>1, <1>4
    <2> HIDE DEF r
    <2>3. SoundPass(r)
      BY <2>1 DEF LearnInv, SoundPass
    <2> QED
      BY <1>2, <2>1, <2>2, <2>3, PassMoves DEF PassAt
  <1>5. CASE a \notin agentRows
    <2>1. pass' = Onward(pass.left \ {a})
      BY <1>1, <1>5
    <2>2. /\ Onward(pass.left \ {a}) \in PassRow /\ SoundPass(Onward(pass.left \ {a}))
          /\ Onward(pass.left \ {a}).step \in {"idle", "read"}
      BY OnwardRow DEF LearnInv
    <2> QED
      BY <1>2, <2>1, <2>2, PassMoves DEF PassAt
  <1> QED
    BY <1>4, <1>5

-----------------------------------------------------------------------------
\* The agent's own events, as a fact about one event.
LEMMA MineIs == \A n : n \in Mine <=> n \in pass.batch /\ events[n].agent = pass.agent
  BY DEF Mine

\* The fold: what was read is what is stored, so an event gains one.
LEMMA WriteProfileInv ==
  ASSUME LearnInv, WriteProfile
  PROVE  LearnInv'
  <1>1. /\ PassAt("fold") /\ UNCHANGED <<agentRows, settled, events, cutOff>>
        /\ profile' = [e \in EventIds |-> IF e \in Mine /\ pass.agent \in agentRows
                                            THEN pass.base[e] + 1 ELSE profile[e]]
        /\ pass' = [pass EXCEPT !.step = "stamp", !.base = NoPass.base]
    BY DEF WriteProfile
  <1>2. /\ pass' \in PassRow /\ pass'.step = "stamp" /\ pass'.left = pass.left
        /\ pass'.agent = pass.agent /\ pass'.batch = pass.batch
    BY <1>1 DEF LearnInv, LearnShapes, PassRow, NoPass, Counts
  <1>3. pass.base = profile /\ profile \in Counts
    BY <1>1 DEF LearnInv, LearnShapes, SoundPass, PassAt
  <1>4. \A e \in EventIds : profile'[e] = IF e \in Mine /\ pass.agent \in agentRows
                                            THEN profile[e] + 1 ELSE profile[e]
    BY <1>1, <1>3
  <1>5. profile' \in Counts
    BY <1>1, <1>3 DEF Counts
  <1>6. LearnShapes'
    BY <1>1, <1>2, <1>5 DEF LearnInv, LearnShapes
  <1>7. \A e \in Mine : e \in DOMAIN events /\ ~events[e].consumed
    BY DEF Mine, LearnInv, SoundPass
  <1>8. Unlogged'
    BY <1>1, <1>4, <1>7 DEF LearnInv, Unlogged
  <1>9. SoundPass(pass)'
    BY <1>1, <1>2 DEF LearnInv, SoundPass
  <1>10. DOMAIN events \subseteq EventIds
    BY EventTypes, LearnAssumption DEF LearnInv, LearnShapes, EventIds
  <1>11. ASSUME NEW n \in DOMAIN events, EventExists(n)
         PROVE  profile'[n] = cutOff[n] + (IF events[n].consumed \/ n \in Mine
                                             THEN 1 ELSE 0)
    <2>1. profile[n] = cutOff[n] + (IF events[n].consumed THEN 1 ELSE 0)
      BY <1>1, <1>11 DEF LearnInv, LearnFoldsOnce, PassAt
    <2>2. n \in EventIds /\ cutOff[n] \in Nat
      BY <1>10 DEF LearnInv, LearnShapes, Counts
    <2>3. n \in Mine => pass.agent \in agentRows
      BY <1>11 DEF Mine, EventExists
    <2> QED
      BY <1>4, <1>7, <2>1, <2>2, <2>3
  <1>12. \A n : n \in Mine' <=> n \in Mine
    BY <1>1, <1>2 DEF Mine
  <1>13. LearnFoldsOnce'
    BY <1>1, <1>2, <1>11, <1>12 DEF LearnFoldsOnce, EventExists, PassAt
  <1> QED
    BY <1>6, <1>8, <1>9, <1>13 DEF LearnInv

LEMMA StampConsumedInv ==
  ASSUME LearnInv, StampConsumed
  PROVE  LearnInv'
  <1>1. /\ PassAt("stamp") /\ UNCHANGED <<agentRows, settled, profile, cutOff>>
        /\ events' = [n \in DOMAIN events |->
                        [events[n] EXCEPT !.consumed = @ \/ n \in Mine]]
        /\ pass' = Onward(pass.left)
    BY DEF StampConsumed
  <1>2. /\ Len(events) \in Nat /\ DOMAIN events = 1..Len(events)
        /\ \A n \in DOMAIN events : events[n] \in EventRow
    BY EventTypes DEF LearnInv, LearnShapes
  <1>3. \A n \in DOMAIN events :
          /\ events'[n] \in EventRow /\ events'[n].agent = events[n].agent
          /\ events'[n].consumed = (events[n].consumed \/ n \in Mine)
    BY <1>1, <1>2 DEF EventRow
  <1>4. events' \in Seq(EventRow) /\ Len(events') = Len(events)
        /\ DOMAIN events' = DOMAIN events
    <2>1. events' = [n \in 1..Len(events) |-> events'[n]]
      BY <1>1, <1>2, Zenon
    <2> QED
      BY <1>2, <1>3, <2>1
  <1>5. /\ Onward(pass.left) \in PassRow /\ SoundPass(Onward(pass.left))
        /\ Onward(pass.left).step \in {"idle", "read"}
    BY OnwardRow DEF LearnInv
  <1>6. LearnShapes' /\ Unlogged'
    BY <1>1, <1>4, <1>5 DEF LearnInv, LearnShapes, Unlogged
  <1>7. SoundPass(pass)'
    <2>1. /\ pass'.left = pass.left /\ pass'.agent = NoRoutedAgent
          /\ pass'.batch \subseteq pass.batch /\ pass'.step # "fold"
      BY <1>1 DEF Onward, LearnInv, LearnShapes, PassRow
    <2>2. NoRoutedAgent \notin RoutedAgents /\ pass.left \subseteq RoutedAgents
      BY LearnAssumption DEF LearnInv, LearnShapes, PassRow
    <2>3. ASSUME NEW n \in pass'.batch, events'[n].agent \in pass'.left \cup {pass'.agent}
          PROVE  ~events'[n].consumed
      <3>1. n \in pass.batch /\ n \in DOMAIN events /\ pass.agent \notin pass.left
        BY <2>1 DEF LearnInv, SoundPass
      <3>2. events[n].agent \in pass.left
        BY <1>2, <1>3, <2>1, <2>2, <2>3, <3>1 DEF EventRow
      <3>3. ~events[n].consumed
        BY <3>1, <3>2 DEF LearnInv, SoundPass
      <3>4. n \notin Mine
        BY <3>1, <3>2, MineIs
      <3> QED
        BY <1>3, <3>1, <3>3, <3>4
    <2>4. pass'.batch \subseteq DOMAIN events'
      BY <1>4, <2>1 DEF LearnInv, SoundPass
    <2> QED
      BY <2>1, <2>2, <2>3, <2>4 DEF SoundPass
  <1>8. ASSUME NEW n \in DOMAIN events, EventExists(n)'
        PROVE  profile[n] = cutOff[n] + (IF events'[n].consumed THEN 1 ELSE 0)
    <2>1. EventExists(n)
      <3>1. agentRows' = agentRows
        BY <1>1
      <3> QED
        BY <1>3, <1>8, <3>1 DEF EventExists
    <2>2. profile[n] = cutOff[n] + (IF events[n].consumed \/ n \in Mine THEN 1 ELSE 0)
      BY <1>1, <2>1 DEF LearnInv, LearnFoldsOnce
    <2> QED
      BY <1>3, <2>2
  <1>9. ~PassAt("stamp")'
    BY <1>1, <1>5 DEF PassAt
  <1>10. LearnFoldsOnce'
    BY <1>1, <1>4, <1>8, <1>9 DEF LearnFoldsOnce
  <1> QED
    BY <1>6, <1>7, <1>10 DEF LearnInv

\* A pass that ends between the fold and the stamp leaves its agent's events to
\* be folded again.
LEMMA PassCutOffInv ==
  ASSUME LearnInv, PassCutOff
  PROVE  LearnInv'
  <1>1. /\ UNCHANGED <<agentRows, settled, events, profile>>
        /\ cutOff' = [e \in EventIds |->
                        cutOff[e] + (IF PassAt("stamp") /\ e \in Mine THEN 1 ELSE 0)]
        /\ pass' \in {NoPass, Onward(pass.left)}
    BY DEF PassCutOff
  <1>2. /\ pass' \in PassRow /\ SoundPass(pass') /\ pass'.step \notin {"stamp", "fold"}
    <2>1. CASE pass' = NoPass
      BY <2>1, NoPassRow DEF NoPass
    <2>2. CASE pass' = Onward(pass.left)
      <3>1. /\ Onward(pass.left) \in PassRow /\ SoundPass(Onward(pass.left))
            /\ Onward(pass.left).step \in {"idle", "read"}
        BY OnwardRow DEF LearnInv
      <3> QED
        BY <2>2, <3>1
    <2> QED
      BY <1>1, <2>1, <2>2
  <1>3. cutOff \in Counts /\ DOMAIN events \subseteq EventIds
    BY EventTypes, LearnAssumption DEF LearnInv, LearnShapes, EventIds
  <1>4. \A e \in EventIds : cutOff[e] \in Nat /\ cutOff'[e] =
          IF PassAt("stamp") /\ e \in Mine THEN cutOff[e] + 1 ELSE cutOff[e]
    BY <1>1, <1>3 DEF Counts
  <1>5. cutOff' \in Counts
    BY <1>1, <1>4 DEF Counts
  <1>6. \A e \in Mine : e \in DOMAIN events /\ ~events[e].consumed
    BY DEF Mine, LearnInv, SoundPass
  <1>7. LearnShapes'
    BY <1>1, <1>2, <1>5 DEF LearnInv, LearnShapes
  <1>8. Unlogged'
    BY <1>1, <1>4, <1>6 DEF LearnInv, Unlogged
  <1>9. SoundPass(pass)'
    BY <1>1, <1>2 DEF SoundPass
  <1>10. ASSUME NEW n \in DOMAIN events, EventExists(n)
         PROVE  profile[n] = cutOff'[n] + (IF events[n].consumed THEN 1 ELSE 0)
    <2>1. profile[n] = cutOff[n] + (IF events[n].consumed \/
                                       (PassAt("stamp") /\ n \in Mine) THEN 1 ELSE 0)
      BY <1>10 DEF LearnInv, LearnFoldsOnce
    <2> QED
      BY <1>3, <1>4, <1>6, <2>1
  <1>11. ~PassAt("stamp")'
    BY <1>2 DEF PassAt
  <1>12. LearnFoldsOnce'
    BY <1>1, <1>10, <1>11 DEF LearnFoldsOnce, EventExists
  <1> QED
    BY <1>7, <1>8, <1>9, <1>12 DEF LearnInv

-----------------------------------------------------------------------------
\* Every step of the pass and of its surroundings keeps the invariant.
LEMMA LearnInvStep ==
  ASSUME LearnInv, [LearnNext]_learnVars
  PROVE  LearnInv'
  <1>1. CASE UNCHANGED learnVars
    BY <1>1 DEF learnVars, LearnInv, LearnShapes, Unlogged, SoundPass, LearnFoldsOnce,
       EventExists, PassAt, Mine
  <1>2. CASE LearnNext
    BY <1>2, FeedbackInv, ItemSettlesInv, AgentDeletedInv, SweepImplicitInv,
       LoadEventsInv, ReadProfileInv, WriteProfileInv, StampConsumedInv, PassCutOffInv
       DEF LearnNext
  <1> QED
    BY <1>1, <1>2

\* A stamped event stands in its agent's profile once, and once more for each
\* pass that was cut off between the fold and the stamp (runRoutingLearning),
\* however many passes, agents and events there are.
THEOREM EventsAreFoldedOnce == LearnSpec => []LearnFoldsOnce
  <1>1. LearnInv => LearnFoldsOnce
    BY DEF LearnInv
  <1>2. LearnInv /\ [LearnNext]_learnVars => LearnInv'
    BY LearnInvStep
  <1> QED
    BY <1>1, <1>2, LearnInvInit, PTL DEF LearnSpec

\* The log, the profiles and the pass keep their shape.
THEOREM LearnTypesHold == LearnSpec => []LearnTypeOK
  <1>1. LearnInv => LearnTypeOK
    BY DEF LearnInv, LearnShapes, EventRow, Counts, PassRow, LearnTypeOK
  <1>2. LearnInv /\ [LearnNext]_learnVars => LearnInv'
    BY LearnInvStep
  <1> QED
    BY <1>1, <1>2, LearnInvInit, PTL DEF LearnSpec

-----------------------------------------------------------------------------
(* The cap.  A run that is live holds a right for each call it has still to  *)
(* make and for each cost that is not recorded yet: all it may add to the    *)
(* ledger.                                                                   *)

SpenderRow == [provider : {"none", "byok", "ollama"}, calls : 0..CallsPerRun,
               unsaved : SUBSET ((1..CallsPerRun) \X (0..CallCost))]

\* The calls of a run that are still to be made or to be recorded.
Open(r) == 1..r.calls \cup {u[1] : u \in r.unsaved}

\* Only a run on the user's key has any; a call is recorded at most once.
GoodSpender(r) ==
  /\ r \in SpenderRow
  /\ r.provider # "byok" => r.calls = 0 /\ r.unsaved = {}
  /\ \A u \in r.unsaved : u[1] > r.calls
  /\ \A u, v \in r.unsaved : u[1] = v[1] => u = v

Rights == {x \in Spenders \X (1..CallsPerRun) : x[2] \in Open(spender[x[1]])}

CapShapes ==
  /\ ledger \in Nat
  /\ blind \in 0..MaxBlind
  /\ adrift \in 0..MaxAdrift
  /\ owed \in 0..MaxAdrift
  /\ spender \in [Spenders -> SpenderRow]
  /\ \A s \in Spenders : GoodSpender(spender[s])

\* The costs that may yet be recorded, and how many the bound allows for.
InFlight == Cardinality(Rights) + adrift
Allowance == (Cardinality(Spenders) + blind) * CallsPerRun + owed

\* The ledger, and all that may yet be added to it.
Committed == ledger + InFlight * CallCost < CapUnits + Allowance * CallCost

CapInv == CapShapes /\ Committed

-----------------------------------------------------------------------------
LEMMA CapConstants ==
  /\ CapUnits \in Nat /\ CapUnits > 0 /\ CallsPerRun \in Nat /\ CallsPerRun > 0
  /\ CallCost \in Nat /\ CallCost > 0 /\ MaxBlind \in Nat /\ MaxAdrift \in Nat
  /\ Cardinality(Spenders) \in Nat /\ Cardinality(Spenders) > 0
  /\ IsFiniteSet(Spenders)
<1>1. IsFiniteSet(Spenders) /\ Spenders # {}
  BY CapAssumption
<1>2. Cardinality(Spenders) \in Nat /\ Cardinality(Spenders) # 0
  BY <1>1, FS_CardinalityType, FS_EmptySet
<1>3. QED
  BY <1>1, <1>2, CapAssumption

LEMMA TimesMonotone ==
  ASSUME NEW a \in Nat, NEW b \in Nat, NEW c \in Nat, a <= b
  PROVE  a * c \in Nat /\ b * c \in Nat /\ a * c <= b * c
<1>1. a * c \in Nat /\ b * c \in Nat
  OBVIOUS
<1>2. PICK d \in Nat : b = a + d
  BY b - a \in Nat
<1>3. d * c \in Nat /\ b * c = a * c + d * c
  BY <1>2
<1>4. QED
  BY <1>1, <1>3

\* The rights are finitely many, and no more than all calls of all runs.
LEMMA RightsBounded ==
  /\ IsFiniteSet(Rights) /\ Cardinality(Rights) \in Nat
  /\ Cardinality(Rights) <= Cardinality(Spenders) * CallsPerRun
<1> DEFINE all == Spenders \X (1..CallsPerRun)
<1>1. IsFiniteSet(1..CallsPerRun) /\ Cardinality(1..CallsPerRun) = CallsPerRun
  BY CapConstants, FS_Interval
<1>2. IsFiniteSet(all) /\ Cardinality(all) = Cardinality(Spenders) * CallsPerRun
  BY <1>1, CapConstants, FS_Product
<1>3. Rights \subseteq all
  BY DEF Rights
<1>4. IsFiniteSet(Rights) /\ Cardinality(Rights) <= Cardinality(all)
  BY <1>2, <1>3, FS_Subset
<1>5. QED
  BY <1>2, <1>4, FS_CardinalityType

\* What is counted is a number.
LEMMA CapNumbers ==
  ASSUME CapShapes
  PROVE  /\ ledger \in Nat /\ blind \in Nat /\ adrift \in Nat /\ owed \in Nat
         /\ Cardinality(Rights) \in Nat
         /\ InFlight \in Nat /\ Allowance \in Nat
         /\ InFlight * CallCost \in Nat /\ Allowance * CallCost \in Nat
<1>1. ledger \in Nat /\ blind \in Nat /\ adrift \in Nat /\ owed \in Nat
  BY CapConstants DEF CapShapes
<1>2. Cardinality(Rights) \in Nat
  BY RightsBounded
<1>3. InFlight \in Nat
  BY <1>1, <1>2 DEF InFlight
<1>4. Allowance \in Nat
  <2>1. (Cardinality(Spenders) + blind) * CallsPerRun \in Nat
    BY <1>1, CapConstants
  <2>2. QED
    BY <1>1, <2>1 DEF Allowance
<1>5. InFlight * CallCost \in Nat /\ Allowance * CallCost \in Nat
  BY <1>3, <1>4, CapConstants
<1>6. QED
  BY <1>1, <1>2, <1>3, <1>4, <1>5

\* When all that is adrift is allowed for, so is all that is pending.
LEMMA AllowanceIsEnough ==
  ASSUME CapShapes, owed = adrift
  PROVE  InFlight <= Allowance
<1> DEFINE n == Cardinality(Spenders)
           r == Cardinality(Rights)
<1>1. /\ n \in Nat /\ r \in Nat /\ r <= n * CallsPerRun /\ CallsPerRun \in Nat
      /\ blind \in Nat /\ adrift \in Nat
  BY CapConstants, RightsBounded, CapNumbers
<1> HIDE DEF n, r
<1>2. n + blind \in Nat /\ n <= n + blind
  BY <1>1
<1>3. /\ n * CallsPerRun \in Nat /\ (n + blind) * CallsPerRun \in Nat
      /\ n * CallsPerRun <= (n + blind) * CallsPerRun
  BY <1>1, <1>2, TimesMonotone
<1>4. r + adrift <= (n + blind) * CallsPerRun + adrift
  BY <1>1, <1>3
<1>5. QED
  BY <1>4 DEF n, r, InFlight, Allowance

LEMMA SpenderRows ==
  /\ GoodSpender(NoSpender) /\ GoodSpender(ByokSpender)
  /\ Open(NoSpender) = {} /\ Open(ByokSpender) = 1..CallsPerRun
<1>1. NoSpender \in SpenderRow /\ ByokSpender \in SpenderRow
  BY CapConstants DEF NoSpender, ByokSpender, SpenderRow
<1>2. QED
  BY <1>1, CapConstants DEF GoodSpender, NoSpender, ByokSpender, Open

\* A run on no key of the user holds no right, and one that holds none may
\* be given any row.
LEMMA FreeIsOpenless ==
  ASSUME NEW r, GoodSpender(r), r.provider # "byok"
  PROVE  Open(r) = {}
<1>1. r.calls = 0 /\ r.unsaved = {}
  BY DEF GoodSpender
<1>2. QED
  BY <1>1 DEF Open

\* One run's row changes: the other runs keep their rights.
LEMMA OneSpender ==
  ASSUME CapShapes, NEW s \in Spenders, NEW r, GoodSpender(r),
         spender' = [spender EXCEPT ![s] = r]
  PROVE  /\ spender' \in [Spenders -> SpenderRow]
         /\ \A t \in Spenders : GoodSpender(spender'[t])
         /\ \A x \in Spenders \X (1..CallsPerRun) :
              x \in Rights' <=> IF x[1] = s THEN x[2] \in Open(r) ELSE x \in Rights
<1>1. r \in SpenderRow
  BY DEF GoodSpender
<1>2. \A t \in Spenders : spender'[t] = IF t = s THEN r ELSE spender[t]
  BY DEF CapShapes
<1>3. \A x \in Spenders \X (1..CallsPerRun) : x[1] \in Spenders
  OBVIOUS
<1>4. QED
  BY <1>1, <1>2, <1>3 DEF CapShapes, Rights

\* What is only given up leaves the commitment as it is.
LEMMA FewerInFlight ==
  ASSUME CapShapes, CapShapes', Committed, UNCHANGED <<blind, owed>>,
         InFlight' <= InFlight, ledger' <= ledger
  PROVE  Committed'
<1>1. /\ InFlight \in Nat /\ ledger \in Nat
      /\ InFlight * CallCost \in Nat /\ Allowance * CallCost \in Nat
  BY CapNumbers
<1>2. InFlight' \in Nat /\ ledger' \in Nat
  <2>1. (CapShapes => InFlight \in Nat /\ ledger \in Nat)'
    BY CapNumbers, PTL
  <2>2. QED
    BY <2>1
<1>3. InFlight' * CallCost \in Nat /\ InFlight' * CallCost <= InFlight * CallCost
  BY <1>1, <1>2, CapConstants, TimesMonotone
<1>4. Allowance' = Allowance
  BY DEF Allowance
<1> DEFINE a == InFlight' * CallCost
           b == InFlight * CallCost
           c == Allowance * CallCost
<1>5. ledger + b < CapUnits + c /\ CapUnits \in Nat
  BY CapConstants DEF Committed
<1> HIDE DEF a, b, c
<1>6. ledger' + a < CapUnits + c
  BY <1>1, <1>2, <1>3, <1>5 DEF a, b, c
<1>7. QED
  BY <1>4, <1>6 DEF a, c, Committed

LEMMA FewerRights ==
  ASSUME Rights' \subseteq Rights
  PROVE  /\ Cardinality(Rights') \in Nat
         /\ Cardinality(Rights') <= Cardinality(Rights)
<1>1. IsFiniteSet(Rights)
  BY RightsBounded
<1>2. QED
  BY <1>1, FS_Subset, FS_CardinalityType

LEMMA FewerInFlightRights ==
  ASSUME CapShapes, CapShapes', UNCHANGED adrift,
         Cardinality(Rights') <= Cardinality(Rights)
  PROVE  InFlight' <= InFlight
<1>1. Cardinality(Rights) \in Nat /\ adrift \in Nat
  BY CapNumbers
<1>2. Cardinality(Rights') \in Nat
  <2>1. (CapShapes => Cardinality(Rights) \in Nat)'
    BY CapNumbers, PTL
  <2>2. QED
    BY <2>1
<1>3. QED
  BY <1>1, <1>2 DEF InFlight

\* A ledger that is under the cap when all that is adrift is allowed for: a
\* run may be given all its calls, for every run that is live by then spends
\* within the allowance.
LEMMA UnderCapCommits ==
  ASSUME CapShapes, owed = adrift, ledger < CapUnits
  PROVE  Committed
<1> DEFINE b == InFlight * CallCost
           c == Allowance * CallCost
<1>1. b \in Nat /\ c \in Nat /\ b <= c /\ ledger \in Nat
  BY AllowanceIsEnough, CapNumbers, CapConstants, TimesMonotone
<1>2. CapUnits \in Nat
  BY CapConstants
<1> HIDE DEF b, c
<1>3. ledger + b < CapUnits + c
  BY <1>1, <1>2
<1>4. QED
  BY <1>3 DEF b, c, Committed

\* What was pending is recorded.
LEMMA PaidKeepsCommitment ==
  ASSUME CapShapes, CapShapes', Committed, UNCHANGED <<blind, owed>>,
         InFlight' = InFlight - 1, ledger' <= ledger + CallCost
  PROVE  Committed'
<1> DEFINE P == InFlight
           Q == InFlight'
           c == Allowance * CallCost
<1>1. /\ P \in Nat /\ c \in Nat /\ ledger \in Nat
      /\ CallCost \in Nat /\ CapUnits \in Nat
  BY CapNumbers, CapConstants
<1>2. Q \in Nat /\ ledger' \in Nat
  <2>1. (CapShapes => InFlight \in Nat /\ ledger \in Nat)'
    BY CapNumbers, PTL
  <2>2. QED
    BY <2>1
<1>3. Allowance' = Allowance
  BY DEF Allowance
<1>4. P = Q + 1 /\ ledger + P * CallCost < CapUnits + c
  <2>1. Q = P - 1 /\ ledger + P * CallCost < CapUnits + c
    BY DEF Committed
  <2> HIDE DEF P, Q, c
  <2>2. QED
    BY <1>1, <1>2, <2>1
<1> HIDE DEF P, Q, c
<1>5. P * CallCost = Q * CallCost + CallCost /\ Q * CallCost \in Nat
  <2>1. (Q + 1) * CallCost = Q * CallCost + CallCost
    BY <1>1, <1>2
  <2>2. QED
    BY <1>1, <1>2, <1>4, <2>1
<1> DEFINE R == Q * CallCost
<1>6. R \in Nat /\ ledger + (R + CallCost) < CapUnits + c
  BY <1>4, <1>5
<1> HIDE DEF R
<1>7. ledger' + R < CapUnits + c
  <2>1. \A x, y, z, w \in Nat, v \in Nat :
          x <= y + z /\ y + (v + z) < w => x + v < w
    OBVIOUS
  <2>2. CapUnits + c \in Nat /\ ledger' <= ledger + CallCost
    BY <1>1
  <2>3. QED
    BY <1>1, <1>2, <1>6, <2>1, <2>2
<1>8. QED
  BY <1>3, <1>7 DEF P, Q, R, c, Committed

LEMMA CapInvInit == CapInit => CapInv
<1> SUFFICES ASSUME CapInit PROVE CapInv
  OBVIOUS
<1>1. CapShapes
  BY SpenderRows, CapConstants DEF CapInit, CapShapes, GoodSpender
<1>2. Rights = {}
  BY SpenderRows DEF CapInit, Rights
<1>3. Cardinality(Rights) = 0
  BY <1>2, FS_EmptySet
<1> DEFINE n == Cardinality(Spenders)
<1>4. n \in Nat /\ n > 0 /\ CallsPerRun \in Nat /\ CallsPerRun > 0
      /\ CallCost \in Nat /\ CallCost > 0 /\ CapUnits \in Nat
  BY CapConstants
<1> HIDE DEF n
<1>5. n * CallsPerRun \in Nat /\ n * CallsPerRun > 0
  <2>1. 1 * CallsPerRun <= n * CallsPerRun /\ n * CallsPerRun \in Nat
    BY <1>4, TimesMonotone
  <2>2. QED
    BY <1>4, <2>1
<1>6. n * CallsPerRun * CallCost \in Nat /\ n * CallsPerRun * CallCost > 0
  <2>1. 1 * CallCost <= n * CallsPerRun * CallCost /\ n * CallsPerRun * CallCost \in Nat
    BY <1>4, <1>5, TimesMonotone
  <2>2. QED
    BY <1>4, <2>1
<1>7. InFlight = 0 /\ Allowance = n * CallsPerRun
  <2>1. adrift = 0 /\ owed = 0 /\ blind = 0
    BY DEF CapInit
  <2>2. n + 0 = n /\ n * CallsPerRun + 0 = n * CallsPerRun
    BY <1>4, <1>5
  <2>3. QED
    BY <1>3, <2>1, <2>2 DEF n, InFlight, Allowance
<1>8. Committed
  <2>1. ledger \in Nat /\ ledger <= CapUnits /\ InFlight * CallCost = 0
    BY <1>4, <1>7 DEF CapInit
  <2>2. ledger + 0 < CapUnits + n * CallsPerRun * CallCost
    BY <1>4, <1>6, <2>1
  <2>3. QED
    BY <1>7, <2>1, <2>2 DEF Committed
<1>9. QED
  BY <1>1, <1>8 DEF CapInv

LEMMA ResolveKeepsCap ==
  ASSUME CapInv, NEW s \in Spenders, ResolveProvider(s)
  PROVE  CapInv'
<1>1. /\ GoodSpender(spender[s]) /\ spender[s].provider = "none"
      /\ UNCHANGED <<ledger, adrift, blind>> /\ spender \in [Spenders -> SpenderRow]
      /\ ledger \in Nat /\ CapShapes
  BY DEF ResolveProvider, CapInv, CapShapes
<1>2. CASE UnderCap(ledger)
  <2>1. spender' = [spender EXCEPT ![s] = ByokSpender] /\ owed' = adrift
    BY <1>2 DEF ResolveProvider
  <2>2. CapShapes'
    BY <1>1, <2>1, OneSpender, SpenderRows DEF CapInv, CapShapes
  <2>3. ledger' < CapUnits
    BY <1>1, <1>2 DEF UnderCap
  <2>4. Committed'
    <3>1. (CapShapes /\ owed = adrift /\ ledger < CapUnits => Committed)'
      BY UnderCapCommits, PTL
    <3>2. QED
      BY <1>1, <2>1, <2>2, <2>3, <3>1
  <2>5. QED
    BY <2>2, <2>4 DEF CapInv
<1>3. CASE ~UnderCap(ledger)
  <2> DEFINE free == [spender[s] EXCEPT !.provider = "ollama"]
  <2>1. /\ spender' = spender \/ spender' = [spender EXCEPT ![s] = free]
        /\ UNCHANGED owed
    BY <1>3 DEF ResolveProvider
  <2>2. CASE spender' = spender
    <3>1. Rights' = Rights
      BY <2>2 DEF Rights
    <3>2. QED
      BY <1>1, <2>1, <2>2, <3>1
         DEF CapInv, CapShapes, Committed, InFlight, Allowance
  <2>3. CASE spender' = [spender EXCEPT ![s] = free]
    <3>1. GoodSpender(free) /\ Open(free) = {}
      <4>1. free \in SpenderRow /\ free.provider = "ollama"
            /\ free.calls = spender[s].calls /\ free.unsaved = spender[s].unsaved
        BY <1>1 DEF SpenderRow
      <4>2. GoodSpender(free)
        BY <1>1, <4>1 DEF GoodSpender
      <4>3. QED
        BY <4>1, <4>2, FreeIsOpenless
    <3>2. CapShapes' /\ Rights' \subseteq Rights
      <4> HIDE DEF free
      <4>1. CapShapes
        BY DEF CapInv
      <4>2. /\ spender' \in [Spenders -> SpenderRow]
            /\ \A t \in Spenders : GoodSpender(spender'[t])
            /\ \A x \in Spenders \X (1..CallsPerRun) :
                 x \in Rights' <=> IF x[1] = s THEN x[2] \in Open(free) ELSE x \in Rights
        BY <2>3, <3>1, <4>1, OneSpender
      <4>3. Rights' \subseteq Spenders \X (1..CallsPerRun)
        BY DEF Rights
      <4>4. QED
        BY <1>1, <2>1, <3>1, <4>2, <4>3 DEF CapShapes
    <3>3. Cardinality(Rights') <= Cardinality(Rights)
      BY <3>2, FewerRights
    <3>4. InFlight' <= InFlight
      BY <1>1, <3>2, <3>3, FewerInFlightRights
    <3>5. Committed'
      BY <1>1, <2>1, <3>2, <3>4, FewerInFlight DEF CapInv
    <3>6. QED
      BY <3>2, <3>5 DEF CapInv
  <2>4. QED
    BY <2>1, <2>2, <2>3
<1>4. QED
  BY <1>2, <1>3

\* A run that could not read the ledger brings its own allowance.
LEMMA ResolveBlindKeepsInv ==
  ASSUME CapInv, NEW s \in Spenders, ResolveBlind(s)
  PROVE  CapInv'
<1>1. /\ spender' = [spender EXCEPT ![s] = ByokSpender]
      /\ UNCHANGED <<ledger, adrift, owed>> /\ ledger \in Nat
      /\ blind' = blind + 1 /\ blind \in Nat /\ blind' \in 0..MaxBlind
  BY CapConstants DEF ResolveBlind, CapInv, CapShapes
<1>2. CapShapes
  BY DEF CapInv
<1>3. /\ spender' \in [Spenders -> SpenderRow]
      /\ \A t \in Spenders : GoodSpender(spender'[t])
      /\ \A x \in Spenders \X (1..CallsPerRun) :
           x \in Rights' <=> IF x[1] = s THEN x[2] \in Open(ByokSpender) ELSE x \in Rights
  BY <1>1, <1>2, OneSpender, SpenderRows
<1> DEFINE own == {s} \X (1..CallsPerRun)
<1>4. Rights' \subseteq Rights \cup own
  BY <1>3 DEF Rights
<1>5. /\ IsFiniteSet(own) /\ Cardinality(own) = CallsPerRun
  <2>1. IsFiniteSet({s}) /\ Cardinality({s}) = 1
    BY FS_Singleton
  <2>2. IsFiniteSet(1..CallsPerRun) /\ Cardinality(1..CallsPerRun) = CallsPerRun
    BY CapConstants, FS_Interval
  <2>3. IsFiniteSet(own) /\ Cardinality(own) = Cardinality({s}) * Cardinality(1..CallsPerRun)
    <3>1. ASSUME NEW A, NEW B, IsFiniteSet(A), IsFiniteSet(B)
          PROVE  IsFiniteSet(A \X B) /\ Cardinality(A \X B) = Cardinality(A) * Cardinality(B)
      BY <3>1, FS_Product
    <3>2. QED
      BY <2>1, <2>2, <3>1
  <2>4. Cardinality({s}) * Cardinality(1..CallsPerRun) = CallsPerRun
    <3>1. 1 * CallsPerRun = CallsPerRun
      BY CapConstants
    <3>2. QED
      BY <2>1, <2>2, <3>1
  <2>5. QED
    BY <2>3, <2>4
<1>6. /\ Cardinality(Rights') \in Nat /\ Cardinality(Rights) \in Nat
      /\ Cardinality(Rights') <= Cardinality(Rights) + CallsPerRun
  <2> DEFINE both == Rights \cup own
  <2>1. IsFiniteSet(Rights) /\ Cardinality(Rights) \in Nat
    BY RightsBounded
  <2>2. /\ IsFiniteSet(both)
        /\ Cardinality(both) = Cardinality(Rights) + Cardinality(own)
                                 - Cardinality(Rights \cap own)
    BY <1>5, <2>1, FS_Union
  <2>3. Cardinality(Rights \cap own) \in Nat
    BY <2>1, FS_Intersection, FS_CardinalityType
  <2>4. Cardinality(both) <= Cardinality(Rights) + CallsPerRun
    <3> DEFINE i == Cardinality(Rights \cap own)
    <3> HIDE DEF i
    <3>1. Cardinality(both) = Cardinality(Rights) + CallsPerRun - i /\ i \in Nat
      BY <1>5, <2>2, <2>3 DEF i
    <3>2. QED
      BY <2>1, <3>1, CapConstants
  <2>5. Cardinality(Rights') <= Cardinality(both) /\ IsFiniteSet(Rights')
    BY <1>4, <2>2, FS_Subset
  <2>6. Cardinality(both) \in Nat /\ Cardinality(Rights') \in Nat
    BY <2>2, <2>5, FS_CardinalityType
  <2> HIDE DEF both
  <2>7. QED
    BY <2>1, <2>4, <2>5, <2>6, CapConstants
<1>7. CapShapes'
  BY <1>1, <1>2, <1>3 DEF CapShapes
<1>8. /\ InFlight \in Nat /\ InFlight' \in Nat /\ InFlight' <= InFlight + CallsPerRun
      /\ Allowance \in Nat /\ Allowance' = Allowance + CallsPerRun
  <2> DEFINE n == Cardinality(Spenders)
             r == Cardinality(Rights)
             r2 == Cardinality(Rights')
  <2>1. /\ n \in Nat /\ CallsPerRun \in Nat /\ adrift \in Nat /\ owed \in Nat
        /\ r \in Nat /\ r2 \in Nat /\ r2 <= r + CallsPerRun
        /\ InFlight \in Nat /\ Allowance \in Nat
    BY <1>2, <1>6, CapConstants, CapNumbers
  <2> HIDE DEF n, r, r2
  <2>2. r2 + adrift \in Nat /\ r2 + adrift <= (r + adrift) + CallsPerRun
    BY <2>1
  <2>3. (n + (blind + 1)) * CallsPerRun = (n + blind) * CallsPerRun + CallsPerRun
    BY <1>1, <2>1
  <2>4. (n + blind) * CallsPerRun \in Nat
    BY <1>1, <2>1
  <2>5. (n + (blind + 1)) * CallsPerRun + owed
          = ((n + blind) * CallsPerRun + owed) + CallsPerRun
    <3> DEFINE m == (n + blind) * CallsPerRun
    <3>1. m \in Nat /\ (n + (blind + 1)) * CallsPerRun = m + CallsPerRun
      BY <2>3, <2>4
    <3> HIDE DEF m
    <3>2. (m + CallsPerRun) + owed = (m + owed) + CallsPerRun
      BY <2>1, <3>1
    <3>3. QED
      BY <3>1, <3>2 DEF m
  <2>6. InFlight' = r2 + adrift /\ InFlight = r + adrift
    BY <1>1 DEF InFlight, r, r2
  <2>7. /\ Allowance' = (n + (blind + 1)) * CallsPerRun + owed
        /\ Allowance = (n + blind) * CallsPerRun + owed
    BY <1>1 DEF Allowance, n
  <2>8. QED
    BY <2>1, <2>2, <2>5, <2>6, <2>7
<1>9. Committed'
  <2> DEFINE P == InFlight
             Q == InFlight'
             L == Allowance
  <2>1. /\ P \in Nat /\ Q \in Nat /\ Q <= P + CallsPerRun /\ L \in Nat
        /\ CallsPerRun \in Nat /\ CallCost \in Nat /\ CapUnits \in Nat
        /\ Allowance' = L + CallsPerRun
        /\ ledger + P * CallCost < CapUnits + L * CallCost
    BY <1>8, CapConstants DEF CapInv, Committed
  <2> HIDE DEF P, Q, L
  <2>2. /\ Q * CallCost \in Nat /\ (P + CallsPerRun) * CallCost \in Nat
        /\ Q * CallCost <= (P + CallsPerRun) * CallCost
    BY <2>1, TimesMonotone
  <2>3. /\ (P + CallsPerRun) * CallCost = P * CallCost + CallsPerRun * CallCost
        /\ (L + CallsPerRun) * CallCost = L * CallCost + CallsPerRun * CallCost
    BY <2>1
  <2>4. P * CallCost \in Nat /\ L * CallCost \in Nat /\ CallsPerRun * CallCost \in Nat
    BY <2>1
  <2> DEFINE A == P * CallCost
             B == CallsPerRun * CallCost
             C == L * CallCost
             R == Q * CallCost
  <2>5. /\ A \in Nat /\ B \in Nat /\ C \in Nat /\ R \in Nat /\ R <= A + B
        /\ ledger + A < CapUnits + C
    BY <2>1, <2>2, <2>3, <2>4
  <2>6. Allowance' * CallCost = C + B
    BY <2>1, <2>3
  <2>7. ledger + R < CapUnits + (C + B)
    <3> HIDE DEF A, B, C, R
    <3>1. QED
      BY <1>1, <2>1, <2>5
  <2>8. QED
    BY <1>1, <2>6, <2>7 DEF Q, Committed
<1>10. QED
  BY <1>7, <1>9 DEF CapInv

\* A call that is made keeps its right until its cost is recorded.
LEMMA CallKeepsInv ==
  ASSUME CapInv, NEW s \in Spenders, CallModel(s)
  PROVE  CapInv'
<1> DEFINE r == spender[s]
<1>1. PICK cost \in 0..CallCost :
        /\ r.provider = "byok" /\ r.calls > 0
        /\ spender' = [spender EXCEPT ![s].calls = @ - 1,
                         ![s].unsaved = @ \cup {<<spender[s].calls, cost>>}]
        /\ UNCHANGED <<ledger, adrift, blind, owed>>
  BY DEF CallModel
<1> DEFINE r0 == [r EXCEPT !.calls = @ - 1, !.unsaved = @ \cup {<<r.calls, cost>>}]
<1>2. CapShapes /\ GoodSpender(r) /\ r \in SpenderRow /\ spender \in [Spenders -> SpenderRow]
  BY DEF CapInv, CapShapes
<1>3. spender' = [spender EXCEPT ![s] = r0]
  BY <1>1, <1>2 DEF SpenderRow
<1>4. /\ r0.provider = r.provider /\ r0.calls = r.calls - 1
      /\ r0.unsaved = r.unsaved \cup {<<r.calls, cost>>}
      /\ r.calls \in 1..CallsPerRun /\ r0 \in SpenderRow
  <2>1. r.calls \in 1..CallsPerRun /\ r.calls - 1 \in 0..CallsPerRun
    BY <1>1, <1>2, CapConstants DEF SpenderRow
  <2>2. <<r.calls, cost>> \in (1..CallsPerRun) \X (0..CallCost)
    BY <2>1
  <2>3. r.unsaved \cup {<<r.calls, cost>>} \in SUBSET ((1..CallsPerRun) \X (0..CallCost))
    BY <1>2, <2>2 DEF SpenderRow
  <2>4. QED
    BY <1>2, <2>1, <2>3 DEF SpenderRow
<1>5. GoodSpender(r0) /\ Open(r0) = Open(r)
  <2> HIDE DEF r0
  <2>1. \A u \in r0.unsaved : u \in r.unsaved \/ u = <<r.calls, cost>>
    BY <1>4
  <2>2. \A u \in r.unsaved : u[1] > r.calls /\ u[1] \in Nat
    BY <1>2, CapConstants DEF GoodSpender, SpenderRow
  <2>3. \A u \in r0.unsaved : u[1] > r0.calls
    BY <1>4, <2>1, <2>2, CapConstants
  <2>4. \A u, v \in r0.unsaved : u[1] = v[1] => u = v
    BY <1>2, <1>4, <2>1, <2>2, CapConstants DEF GoodSpender
  <2>5. GoodSpender(r0)
    BY <1>1, <1>4, <2>3, <2>4 DEF GoodSpender
  <2>6. 1..r.calls = 1..r0.calls \cup {r.calls}
    BY <1>4, CapConstants
  <2>7. {u[1] : u \in r0.unsaved} = {u[1] : u \in r.unsaved} \cup {r.calls}
    <3>1. <<r.calls, cost>>[1] = r.calls
      OBVIOUS
    <3>2. QED
      BY <1>4, <3>1
  <2>8. QED
    BY <2>5, <2>6, <2>7 DEF Open
<1>6. CapShapes' /\ Rights' = Rights
  <2> HIDE DEF r0
  <2>1. /\ spender' \in [Spenders -> SpenderRow]
        /\ \A t \in Spenders : GoodSpender(spender'[t])
        /\ \A x \in Spenders \X (1..CallsPerRun) :
             x \in Rights' <=> IF x[1] = s THEN x[2] \in Open(r0) ELSE x \in Rights
    BY <1>2, <1>3, <1>5, OneSpender
  <2>2. \A x \in Spenders \X (1..CallsPerRun) : x \in Rights' <=> x \in Rights
    BY <1>5, <2>1 DEF Rights
  <2>3. Rights' \subseteq Spenders \X (1..CallsPerRun)
        /\ Rights \subseteq Spenders \X (1..CallsPerRun)
    BY DEF Rights
  <2>4. QED
    BY <1>1, <1>2, <2>1, <2>2, <2>3 DEF CapShapes
<1>7. QED
  BY <1>1, <1>6 DEF CapInv, Committed, InFlight, Allowance

\* The cost of a call is recorded, or its insert is lost: the right ends.
LEMMA RightEnds ==
  ASSUME CapInv, NEW s \in Spenders, NEW u \in spender[s].unsaved,
         spender' = [spender EXCEPT ![s].unsaved = @ \ {u}]
  PROVE  /\ spender' \in [Spenders -> SpenderRow]
         /\ \A t \in Spenders : GoodSpender(spender'[t])
         /\ <<s, u[1]>> \in Rights /\ Rights' = Rights \ {<<s, u[1]>>}
         /\ u[2] \in 0..CallCost
<1> DEFINE r == spender[s]
           r0 == [r EXCEPT !.unsaved = @ \ {u}]
<1>1. CapShapes /\ GoodSpender(r) /\ r \in SpenderRow /\ spender \in [Spenders -> SpenderRow]
  BY DEF CapInv, CapShapes
<1>2. spender' = [spender EXCEPT ![s] = r0]
  BY <1>1 DEF SpenderRow
<1>3. /\ r0.provider = r.provider /\ r0.calls = r.calls /\ r0.unsaved = r.unsaved \ {u}
      /\ r0 \in SpenderRow /\ u \in (1..CallsPerRun) \X (0..CallCost)
  BY <1>1 DEF SpenderRow
<1>4. GoodSpender(r0)
  BY <1>1, <1>3 DEF GoodSpender
<1>5. Open(r0) = Open(r) \ {u[1]} /\ u[1] \in Open(r)
  <2> HIDE DEF r0
  <2>1. u[1] > r.calls /\ u[1] \in Nat /\ r.calls \in Nat
    BY <1>1, <1>3, CapConstants DEF GoodSpender, SpenderRow
  <2>2. u[1] \notin 1..r.calls
    BY <2>1
  <2>3. {v[1] : v \in r0.unsaved} = {v[1] : v \in r.unsaved} \ {u[1]}
    BY <1>1, <1>3 DEF GoodSpender
  <2>4. QED
    BY <1>3, <2>2, <2>3 DEF Open
<1>6. /\ spender' \in [Spenders -> SpenderRow]
      /\ \A t \in Spenders : GoodSpender(spender'[t])
      /\ \A x \in Spenders \X (1..CallsPerRun) :
           x \in Rights' <=> IF x[1] = s THEN x[2] \in Open(r0) ELSE x \in Rights
  <2> HIDE DEF r0
  <2>1. QED
    BY <1>1, <1>2, <1>4, OneSpender
<1>7. <<s, u[1]>> \in Rights
  BY <1>3, <1>5 DEF Rights
<1>8. Rights' = Rights \ {<<s, u[1]>>}
  <2> HIDE DEF r0
  <2>1. \A x \in Spenders \X (1..CallsPerRun) :
          x \in Rights' <=> x \in Rights /\ x # <<s, u[1]>>
    <3>1. TAKE x \in Spenders \X (1..CallsPerRun)
    <3>2. x = <<x[1], x[2]>>
      OBVIOUS
    <3>3. x \in Rights <=> x[2] \in Open(spender[x[1]])
      BY DEF Rights
    <3>4. x = <<s, u[1]>> <=> x[1] = s /\ x[2] = u[1]
      BY <3>2
    <3>5. QED
      BY <1>5, <1>6, <3>3, <3>4
  <2>2. Rights' \subseteq Spenders \X (1..CallsPerRun)
        /\ Rights \subseteq Spenders \X (1..CallsPerRun)
    BY DEF Rights
  <2>3. QED
    BY <2>1, <2>2
<1>9. QED
  BY <1>3, <1>6, <1>7, <1>8

LEMMA SaveKeepsCap ==
  ASSUME CapInv, NEW s \in Spenders, SaveUsage(s)
  PROVE  CapInv'
<1>1. PICK u \in spender[s].unsaved :
        /\ ledger' = ledger + u[2]
        /\ spender' = [spender EXCEPT ![s].unsaved = @ \ {u}]
        /\ UNCHANGED <<adrift, blind, owed>>
  BY DEF SaveUsage
<1>2. /\ spender' \in [Spenders -> SpenderRow]
      /\ \A t \in Spenders : GoodSpender(spender'[t])
      /\ <<s, u[1]>> \in Rights /\ Rights' = Rights \ {<<s, u[1]>>}
      /\ u[2] \in 0..CallCost
  BY <1>1, RightEnds
<1>3. ledger \in Nat /\ ledger' \in Nat /\ ledger' <= ledger + CallCost
  BY <1>1, <1>2, CapConstants DEF CapInv, CapShapes
<1>4. CapShapes /\ CapShapes'
  BY <1>1, <1>2, <1>3 DEF CapInv, CapShapes
<1>5. InFlight' = InFlight - 1
  <2> DEFINE r == Cardinality(Rights)
             r2 == Cardinality(Rights')
  <2>1. IsFiniteSet(Rights) /\ r \in Nat /\ adrift \in Nat
    BY <1>4, RightsBounded, CapNumbers
  <2>2. r2 = r - 1
    <3>1. Cardinality(Rights \ {<<s, u[1]>>})
            = IF <<s, u[1]>> \in Rights THEN r - 1 ELSE r
      BY <2>1, FS_RemoveElement
    <3>2. QED
      BY <1>2, <3>1
  <2>3. InFlight = r + adrift /\ InFlight' = r2 + adrift
    BY <1>1 DEF InFlight
  <2> HIDE DEF r, r2
  <2>4. QED
    BY <2>1, <2>2, <2>3
<1>6. Committed'
  BY <1>1, <1>3, <1>4, <1>5, PaidKeepsCommitment DEF CapInv
<1>7. QED
  BY <1>4, <1>6 DEF CapInv

LEMMA LostKeepsCap ==
  ASSUME CapInv, NEW s \in Spenders, UsageLost(s)
  PROVE  CapInv'
<1>1. PICK u \in spender[s].unsaved :
        /\ spender' = [spender EXCEPT ![s].unsaved = @ \ {u}]
        /\ UNCHANGED <<ledger, adrift, blind, owed>>
  BY DEF UsageLost
<1>2. /\ spender' \in [Spenders -> SpenderRow]
      /\ \A t \in Spenders : GoodSpender(spender'[t])
      /\ Rights' \subseteq Rights
  BY <1>1, RightEnds
<1>3. CapShapes /\ CapShapes' /\ ledger' <= ledger
  BY <1>1, <1>2 DEF CapInv, CapShapes
<1>4. InFlight' <= InFlight
  BY <1>1, <1>2, <1>3, FewerRights, FewerInFlightRights
<1>5. Committed'
  BY <1>1, <1>3, <1>4, FewerInFlight DEF CapInv
<1>6. QED
  BY <1>3, <1>5 DEF CapInv

\* The inserts a run leaves behind are no more than the rights it gives up.
LEMMA LeftBehind ==
  ASSUME CapShapes, NEW s \in Spenders, spender' = [spender EXCEPT ![s] = NoSpender]
  PROVE  /\ Rights' \subseteq Rights
         /\ Cardinality(Rights') \in Nat
         /\ Cardinality(spender[s].unsaved) \in Nat
         /\ Cardinality(Rights') + Cardinality(spender[s].unsaved) <= Cardinality(Rights)
<1> DEFINE left == spender[s].unsaved
           gone == Rights \ Rights'
           f == [u \in left |-> <<s, u[1]>>]
<1>1. /\ \A x \in Spenders \X (1..CallsPerRun) :
           x \in Rights' <=> IF x[1] = s THEN x[2] \in Open(NoSpender) ELSE x \in Rights
      /\ Rights' \subseteq Spenders \X (1..CallsPerRun)
  BY OneSpender, SpenderRows DEF Rights
<1>2. Rights' \subseteq Rights /\ \A x \in Rights' : x[1] # s
  BY <1>1, SpenderRows DEF Rights
<1>3. GoodSpender(spender[s]) /\ left \subseteq (1..CallsPerRun) \X (0..CallCost)
  BY DEF CapShapes, GoodSpender, SpenderRow
<1>4. \A u \in left : <<s, u[1]>> \in gone
  <2>1. TAKE u \in left
  <2>2. u[1] \in 1..CallsPerRun /\ u[1] \in Open(spender[s])
    BY <1>3 DEF Open
  <2>3. <<s, u[1]>> \in Rights
    BY <2>2 DEF Rights
  <2>4. <<s, u[1]>> \notin Rights'
    BY <1>2
  <2>5. QED
    BY <2>3, <2>4
<1>5. \A u, v \in left : <<s, u[1]>> = <<s, v[1]>> => u = v
  BY <1>3 DEF GoodSpender
<1>6. f \in Injection(left, gone)
  <2>1. f \in [left -> gone]
    BY <1>4
  <2>2. \A u, v \in left : f[u] = f[v] => u = v
    BY <1>5
  <2> HIDE DEF f, left, gone
  <2>3. QED
    BY <2>1, <2>2 DEF Injection, IsInjective
<1>7. IsFiniteSet(Rights) /\ Cardinality(Rights) \in Nat
  BY RightsBounded
<1>8. /\ IsFiniteSet(Rights') /\ IsFiniteSet(gone)
      /\ Cardinality(Rights') \in Nat /\ Cardinality(gone) \in Nat
  BY <1>2, <1>7, FS_Subset, FS_CardinalityType
<1>9. IsFiniteSet(left) /\ Cardinality(left) <= Cardinality(gone) /\ Cardinality(left) \in Nat
  <2> HIDE DEF f, left, gone
  <2>1. IsFiniteSet(left) /\ Cardinality(left) <= Cardinality(gone)
    BY <1>6, <1>8, FS_Injection
  <2>2. QED
    BY <2>1, FS_CardinalityType
<1>10. Cardinality(Rights) = Cardinality(Rights') + Cardinality(gone)
  <2>1. Rights = Rights' \cup gone /\ Rights' \cap gone = {}
    BY <1>2
  <2> HIDE DEF gone
  <2>2. Cardinality(Rights' \cup gone)
          = Cardinality(Rights') + Cardinality(gone) - Cardinality(Rights' \cap gone)
    BY <1>8, FS_Union
  <2>3. Cardinality(Rights' \cap gone) = 0
    BY <2>1, FS_EmptySet
  <2>4. QED
    BY <1>8, <2>1, <2>2, <2>3
<1> HIDE DEF left, gone
<1>11. Cardinality(Rights') + Cardinality(left) <= Cardinality(Rights)
  BY <1>8, <1>9, <1>10
<1>12. QED
  BY <1>2, <1>8, <1>9, <1>11 DEF left

LEMMA EndKeepsCap ==
  ASSUME CapInv, NEW s \in Spenders, SpenderEnds(s)
  PROVE  CapInv'
<1> DEFINE k == Cardinality(spender[s].unsaved)
<1>1. /\ spender' = [spender EXCEPT ![s] = NoSpender]
      /\ adrift' \in {adrift, adrift + k} /\ adrift' <= MaxAdrift
      /\ UNCHANGED <<ledger, blind, owed>>
  BY DEF SpenderEnds
<1>2. CapShapes
  BY DEF CapInv
<1>3. /\ spender' \in [Spenders -> SpenderRow]
      /\ \A t \in Spenders : GoodSpender(spender'[t])
  BY <1>1, <1>2, OneSpender, SpenderRows
<1>4. /\ Cardinality(Rights') \in Nat /\ k \in Nat
      /\ Cardinality(Rights') + k <= Cardinality(Rights)
  BY <1>1, <1>2, LeftBehind
<1>5. adrift \in Nat /\ Cardinality(Rights) \in Nat
  BY <1>2, CapNumbers
<1> HIDE DEF k
<1>6. CapShapes' /\ ledger' <= ledger
  <2>1. adrift' \in 0..MaxAdrift
    BY <1>1, <1>4, <1>5, CapConstants
  <2>2. QED
    BY <1>1, <1>2, <1>3, <2>1 DEF CapShapes
<1>7. InFlight' <= InFlight
  <2> DEFINE r == Cardinality(Rights)
             r2 == Cardinality(Rights')
  <2>1. InFlight = r + adrift /\ InFlight' = r2 + adrift'
    BY DEF InFlight
  <2>2. r2 \in Nat /\ r \in Nat /\ r2 + k <= r
    BY <1>4, <1>5
  <2> HIDE DEF r, r2
  <2>3. adrift' \in Nat /\ adrift' <= adrift + k
    BY <1>1, <1>4, <1>5
  <2>4. r2 + adrift' <= r + adrift
    <3>1. \A x, y, z, v, w \in Nat : x + v <= y /\ w <= z + v => x + w <= y + z
      OBVIOUS
    <3>2. QED
      BY <1>4, <1>5, <2>2, <2>3, <3>1
  <2>5. QED
    BY <2>1, <2>4
<1>8. Committed'
  BY <1>1, <1>2, <1>6, <1>7, FewerInFlight DEF CapInv
<1>9. QED
  BY <1>6, <1>8 DEF CapInv

LEMMA LateKeepsCap ==
  ASSUME CapInv, LateUsage
  PROVE  CapInv'
<1>1. PICK cost \in 0..CallCost :
        /\ adrift > 0 /\ adrift' = adrift - 1 /\ ledger' = ledger + cost
        /\ UNCHANGED <<spender, blind, owed>>
  BY DEF LateUsage
<1>2. CapShapes
  BY DEF CapInv
<1>3. ledger \in Nat /\ adrift \in Nat /\ Cardinality(Rights) \in Nat
  BY <1>2, CapNumbers
<1>4. CapShapes' /\ ledger' <= ledger + CallCost
  <2>1. ledger' \in Nat /\ ledger' <= ledger + CallCost /\ adrift' \in 0..MaxAdrift
    BY <1>1, <1>2, <1>3, CapConstants DEF CapShapes
  <2>2. QED
    BY <1>1, <1>2, <2>1 DEF CapShapes
<1>5. InFlight' = InFlight - 1
  <2>1. Rights' = Rights
    BY <1>1 DEF Rights
  <2>2. QED
    BY <1>1, <1>3, <2>1 DEF InFlight
<1>6. Committed'
  BY <1>1, <1>2, <1>4, <1>5, PaidKeepsCommitment DEF CapInv
<1>7. QED
  BY <1>4, <1>6 DEF CapInv

LEMMA MonthKeepsCap ==
  ASSUME CapInv, NewMonth
  PROVE  CapInv'
<1>1. ledger' = 0 /\ owed' = adrift /\ UNCHANGED <<spender, adrift, blind>>
  BY DEF NewMonth
<1>2. CapShapes'
  BY <1>1 DEF CapInv, CapShapes
<1>3. ledger' < CapUnits
  BY <1>1, CapConstants
<1>4. (CapShapes /\ owed = adrift /\ ledger < CapUnits => Committed)'
  BY UnderCapCommits, PTL
<1>5. Committed'
  BY <1>1, <1>2, <1>3, <1>4
<1>6. QED
  BY <1>2, <1>5 DEF CapInv

LEMMA CapInvStep == CapInv /\ [CapNext]_capVars => CapInv'
<1> SUFFICES ASSUME CapInv, [CapNext]_capVars PROVE CapInv'
  OBVIOUS
<1>1. CASE NewMonth
  BY <1>1, MonthKeepsCap
<1>2. CASE LateUsage
  BY <1>2, LateKeepsCap
<1>3. CASE UNCHANGED capVars
  <2>1. Rights' = Rights
    BY <1>3 DEF capVars, Rights
  <2>2. QED
    BY <1>3, <2>1 DEF capVars, CapInv, CapShapes, Committed, InFlight, Allowance
<1>4. ASSUME NEW s \in Spenders,
             \/ ResolveProvider(s) \/ ResolveBlind(s) \/ CallModel(s)
             \/ SaveUsage(s) \/ UsageLost(s) \/ SpenderEnds(s)
      PROVE  CapInv'
  BY <1>4, ResolveKeepsCap, ResolveBlindKeepsInv, CallKeepsInv, SaveKeepsCap,
     LostKeepsCap, EndKeepsCap
<1>5. QED
  BY <1>1, <1>2, <1>3, <1>4 DEF CapNext

LEMMA CapInvariant == CapSpec => []CapInv
  BY CapInvInit, CapInvStep, PTL DEF CapSpec

\* Every variable of the cap keeps its type.
THEOREM CapTypesHold == CapSpec => []CapTypeOK
<1>1. CapInv => CapTypeOK
  BY DEF CapInv, CapShapes, GoodSpender, SpenderRow, CapTypeOK
<1>2. QED
  BY <1>1, CapInvariant, PTL

\* A month's recorded cost passes the cap by no more than what the runs that
\* are live at once, and those that could not read the ledger, may spend, and
\* the inserts that were still to land when the ledger was last found under
\* the cap: for any number of runs, calls and costs, though no run looks at
\* the ledger after it began, and an insert may land when its run is over.
THEOREM CapIsOvershotByLiveRuns == CapSpec => []CapOvershoot
<1>1. CapInv => CapOvershoot
  <2> SUFFICES ASSUME CapInv PROVE CapOvershoot
    OBVIOUS
  <2> DEFINE b == InFlight * CallCost
             c == Allowance * CallCost
  <2>1. b \in Nat /\ c \in Nat /\ ledger \in Nat /\ CapUnits \in Nat
    BY CapConstants, CapNumbers DEF CapInv
  <2>2. ledger + b < CapUnits + c
    BY DEF CapInv, Committed
  <2> HIDE DEF b, c
  <2>3. ledger < CapUnits + c
    BY <2>1, <2>2
  <2>4. QED
    BY <2>3 DEF c, Allowance, CapOvershoot
<1>2. QED
  BY <1>1, CapInvariant, PTL

-----------------------------------------------------------------------------
(* Side by side.  A behaviour of the whole, seen from one part, is one of   *)
(* that part: it moves, or another part moves and leaves it as it is.       *)

LEMMA EdgesAreInbox == Spec => InboxSpec
<1>1. Init => InboxInit
  BY DEF Init
<1>2. [Next]_vars => [InboxNext]_inboxVars
  BY DEF Next, vars, InboxNext
<1>3. QED
  BY <1>1, <1>2, PTL DEF Spec, InboxSpec

LEMMA EdgesAreCategory == Spec => CategorySpec
<1>1. Init => CategoryInit
  BY DEF Init
<1>2. [Next]_vars => [CategoryNext]_categoryVars
  BY DEF Next, vars
<1>3. QED
  BY <1>1, <1>2, PTL DEF Spec, CategorySpec

LEMMA EdgesAreLearning == Spec => LearnSpec
<1>1. Init => LearnInit
  BY DEF Init
<1>2. [Next]_vars => [LearnNext]_learnVars
  BY DEF Next, vars
<1>3. QED
  BY <1>1, <1>2, PTL DEF Spec, LearnSpec

LEMMA EdgesAreCap == Spec => CapSpec
<1>1. Init => CapInit
  BY DEF Init
<1>2. [Next]_vars => [CapNext]_capVars
  BY DEF Next, vars
<1>3. QED
  BY <1>1, <1>2, PTL DEF Spec, CapSpec

LEMMA EdgesAreReconcile == Spec => ReconcileSpec
<1>1. Init => ReconcileInit
  BY DEF Init
<1>2. [Next]_vars => [ReconcileNext]_reconcileVars
  BY DEF Next, vars
<1>3. QED
  BY <1>1, <1>2, PTL DEF Spec, ReconcileSpec

LEMMA EdgesAreTemplate == Spec => TemplateSpec
<1>1. Init => TemplateInit
  BY DEF Init
<1>2. [Next]_vars => [TemplateNext]_templateVars
  BY DEF Next, vars
<1>3. QED
  BY <1>1, <1>2, PTL DEF Spec, TemplateSpec

LEMMA FocusHolds == Spec => [](focus \in Parts)
<1>1. Init => focus \in Parts
  BY DEF Init
<1>2. focus \in Parts /\ [Next]_vars => (focus \in Parts)'
  BY DEF Next, vars
<1>3. QED
  BY <1>1, <1>2, PTL DEF Spec

\* Every part keeps its types, whichever of them moves.
THEOREM EdgesTypesHold == Spec => []TypeOK
<1>1. focus \in Parts /\ InboxTypeOK /\ CategoryTypeOK /\ LearnTypeOK /\ CapTypeOK
      /\ ReconcileTypeOK /\ TemplateTypeOK => TypeOK
  BY DEF TypeOK
<1>2. QED
  BY <1>1, EdgesAreInbox, EdgesAreCategory, EdgesAreLearning, EdgesAreCap,
     EdgesAreReconcile, EdgesAreTemplate, FocusHolds, InboxTypesHold, CategoryTypesHold,
     LearnTypesHold, CapTypesHold, ReconcileTypesHold, TemplateTypesHold, PTL

\* Every part keeps every promise of its own, whichever of them moves: all that
\* the run of this module checks besides the types.
EveryPromise ==
  /\ CodeBindsOnce /\ ConfirmedIsDecided
  /\ CategoryAskedBounded /\ AcceptedIsRegistered
  /\ LearnFoldsOnce
  /\ CapOvershoot
  /\ ReconcileMeetsReference /\ ReconcileIsStable
  /\ FieldsHaveColumns /\ AcceptedGrows

THEOREM EdgesKeepTheirPromises == Spec => []EveryPromise
<1>1. CodeBindsOnce /\ ConfirmedIsDecided /\ CategoryAskedBounded /\ AcceptedIsRegistered
      /\ LearnFoldsOnce /\ CapOvershoot /\ ReconcileMeetsReference /\ ReconcileIsStable
      /\ FieldsHaveColumns /\ AcceptedGrows => EveryPromise
  BY DEF EveryPromise
<1>2. QED
  BY <1>1, EdgesAreInbox, EdgesAreCategory, EdgesAreLearning, EdgesAreCap,
     EdgesAreReconcile, EdgesAreTemplate, CodesBindOnce, ConfirmedAreDecided,
     CategoryIsAskedBoundedly, AcceptedAreRegistered, EventsAreFoldedOnce,
     CapIsOvershotByLiveRuns, FirstPassKeepsThePromise, SecondPassChangesNothing,
     FieldsAreShown, AcceptedStays, PTL
================================================================================
