------------------------ MODULE CategoryProposalsProofs ------------------------
(***************************************************************************)
(* A kind is proposed at most once per caller that can overlap, and an     *)
(* accepted proposal has its category: for any sets of kinds, runs,        *)
(* imports and decisions, and over histories of any length.  The row of a  *)
(* kind, its template and its columns, is the second half: for any keys    *)
(* and any number of writers.                                              *)
(***************************************************************************)
EXTENDS CategoryProposals, KindTemplate, FiniteSetTheorems, TLAPS

Verdicts == {"accepted", "rejected"}
Review == [kind : Kinds, status : {"pending"} \cup Verdicts]
FilerRow == [step : {"idle", "loop", "look", "draft"}, todo : SUBSET Kinds,
             kind : Kinds \cup {"none"}]
DeciderRow == [step : {"idle", "create", "resolve"}, review : Nat,
               verdict : Verdicts \cup {"none"}]

\* The proposals of a kind, and the callers about to file one.
Proposals(k) == {n \in DOMAIN asked : asked[n].kind = k}
Drafting(k) == {f \in Filers : filer[f].step = "draft" /\ filer[f].kind = k}

Shapes ==
  /\ registered \in SUBSET Kinds /\ removed \in SUBSET Kinds
  /\ asked \in Seq(Review)
  /\ filer \in [Filers -> FilerRow]
  /\ decider \in [Deciders -> DeciderRow]

\* Whoever is past the loop has a kind.
Candidates ==
  \A f \in Filers : filer[f].step \in {"look", "draft"} => filer[f].kind \in Kinds

\* Proposals on file and proposals about to be filed, together.
Counted ==
  \A k \in Kinds :
    Cardinality(Proposals(k)) + Cardinality(Drafting(k)) <= Cardinality(Filers)

\* A decision is about a review, and one that is about to accept has created.
Created ==
  \A d \in Deciders :
    decider[d].step # "idle" =>
      /\ decider[d].review \in DOMAIN asked
      /\ decider[d].verdict \in Verdicts
      /\ decider[d].step = "resolve" /\ decider[d].verdict = "accepted" =>
           asked[decider[d].review].kind \in registered \cup removed

CategoryInv == Shapes /\ Candidates /\ Counted /\ Created /\ AcceptedIsRegistered

-----------------------------------------------------------------------------
LEMMA NoRows == NoFiler \in FilerRow /\ NoDecision \in DeciderRow
  BY DEF NoFiler, FilerRow, NoDecision, DeciderRow, Verdicts

LEMMA ReviewRow ==
  ASSUME asked \in Seq(Review), NEW n \in DOMAIN asked
  PROVE  asked[n].kind \in Kinds
  <1>1. asked[n] \in Review
    OBVIOUS
  <1> QED
    BY <1>1 DEF Review

LEMMA Finite ==
  ASSUME Shapes, NEW k
  PROVE  /\ IsFiniteSet(Filers)
         /\ IsFiniteSet(Proposals(k)) /\ IsFiniteSet(Drafting(k))
         /\ Cardinality(Proposals(k)) \in Nat /\ Cardinality(Drafting(k)) \in Nat
         /\ Cardinality(Filers) \in Nat /\ Cardinality(Drafting(k)) <= Cardinality(Filers)
  <1>1. IsFiniteSet(Filers)
    BY CategoryAssumption
  <1>2. Drafting(k) \subseteq Filers
    BY DEF Drafting
  <1>3. Len(asked) \in Nat /\ DOMAIN asked = 1..Len(asked)
    BY DEF Shapes
  <1>4. IsFiniteSet(DOMAIN asked)
    BY <1>3, FS_Interval
  <1>5. Proposals(k) \subseteq DOMAIN asked
    BY DEF Proposals
  <1> QED
    BY <1>1, <1>2, <1>4, <1>5, FS_Subset, FS_CardinalityType

-----------------------------------------------------------------------------
\* The rows of the table, as one caller moves.

LEMMA BackToLoopRow ==
  ASSUME NEW todo \in SUBSET Kinds
  PROVE  /\ BackToLoop(todo) \in FilerRow
         /\ BackToLoop(todo).step \in {"idle", "loop"}
  BY NoRows DEF BackToLoop, FilerRow, NoFiler

\* A caller that moves to anything but a draft files nothing.
LEMMA FilerMoves ==
  ASSUME CategoryInv, NEW f \in Filers, NEW r \in FilerRow,
         r.step \in {"idle", "loop", "look"},
         r.step = "look" => r.kind \in Kinds,
         filer' = [filer EXCEPT ![f] = r],
         UNCHANGED <<registered, removed, asked, decider>>
  PROVE  CategoryInv'
  <1>1. Shapes'
    BY DEF CategoryInv, Shapes
  <1>2. \A g \in Filers : filer'[g] = IF g = f THEN r ELSE filer[g]
    BY DEF CategoryInv, Shapes
  <1>3. Candidates'
    BY <1>2 DEF CategoryInv, Candidates
  <1>4. ASSUME NEW k \in Kinds
        PROVE  (Cardinality(Proposals(k)) + Cardinality(Drafting(k))
                 <= Cardinality(Filers))'
    <2>1. Proposals(k)' = Proposals(k)
      BY DEF Proposals
    <2>2. Drafting(k)' \subseteq Drafting(k)
      BY <1>2 DEF Drafting
    <2>3. Cardinality(Drafting(k)') <= Cardinality(Drafting(k))
          /\ Cardinality(Drafting(k)') \in Nat
      BY <2>2, Finite, FS_Subset, FS_CardinalityType DEF CategoryInv
    <2>4. Cardinality(Proposals(k)) + Cardinality(Drafting(k)) <= Cardinality(Filers)
      BY DEF CategoryInv, Counted
    <2>5. /\ Cardinality(Proposals(k)) \in Nat /\ Cardinality(Drafting(k)) \in Nat
          /\ Cardinality(Filers) \in Nat
      BY Finite DEF CategoryInv
    <2> QED
      BY <2>1, <2>3, <2>4, <2>5
  <1>5. Counted'
    BY <1>4 DEF Counted
  <1>6. Created' /\ AcceptedIsRegistered'
    BY DEF CategoryInv, Created, AcceptedIsRegistered
  <1> QED
    BY <1>1, <1>3, <1>5, <1>6 DEF CategoryInv

LEMMA FilingKeepsInv ==
  ASSUME CategoryInv, NEW f \in Filers,
         RunProposes(f) \/ ImportProposes(f) \/ TakeCandidate(f) \/ FilerFails(f)
  PROVE  CategoryInv'
  <1>1. filer[f] \in FilerRow /\ filer[f].todo \in SUBSET Kinds
    BY DEF CategoryInv, Shapes, FilerRow
  <1>2. CASE RunProposes(f)
    BY <1>2, BackToLoopRow, FilerMoves DEF RunProposes, registry
  <1>3. CASE ImportProposes(f)
    BY <1>3, BackToLoopRow, FilerMoves DEF ImportProposes, registry
  <1>4. CASE TakeCandidate(f)
    <2>1. PICK k \in filer[f].todo :
            /\ filer' = [filer EXCEPT ![f] =
                 IF f \in Imports \/ sightings[k] >= ProposeAt
                   THEN [step |-> "look", todo |-> filer[f].todo \ {k}, kind |-> k]
                   ELSE BackToLoop(filer[f].todo \ {k})]
            /\ UNCHANGED <<registered, removed, asked, decider>>
      BY <1>4 DEF TakeCandidate, registry
    <2> DEFINE r == IF f \in Imports \/ sightings[k] >= ProposeAt
                      THEN [step |-> "look", todo |-> filer[f].todo \ {k}, kind |-> k]
                      ELSE BackToLoop(filer[f].todo \ {k})
    <2>2. k \in Kinds /\ filer[f].todo \ {k} \in SUBSET Kinds
      BY <1>1
    <2>3. /\ r \in FilerRow /\ r.step \in {"idle", "loop", "look"}
          /\ r.step = "look" => r.kind \in Kinds
      <3>1. CASE f \in Imports \/ sightings[k] >= ProposeAt
        BY <2>2, <3>1 DEF FilerRow
      <3>2. CASE ~(f \in Imports \/ sightings[k] >= ProposeAt)
        <4>1. r = BackToLoop(filer[f].todo \ {k})
          BY <3>2
        <4> HIDE DEF r
        <4> QED
          BY <2>2, <4>1, BackToLoopRow
      <3> QED
        BY <3>1, <3>2
    <2>4. filer' = [filer EXCEPT ![f] = r]
      BY <2>1
    <2> HIDE DEF r
    <2> QED
      BY <2>1, <2>3, <2>4, FilerMoves
  <1>5. CASE FilerFails(f)
    <2>1. CASE filer' = [filer EXCEPT ![f] = NoFiler]
      BY <1>5, <2>1, NoRows, FilerMoves DEF FilerFails, NoFiler, registry
    <2>2. CASE Skip(f)
      BY <1>1, <1>5, <2>2, BackToLoopRow, FilerMoves DEF FilerFails, Skip, registry
    <2> QED
      BY <1>5, <2>1, <2>2 DEF FilerFails
  <1> QED
    BY <1>2, <1>3, <1>4, <1>5

\* Looking: who finds no proposal may draft one, and there is none on file.
LEMMA LookKeepsInv ==
  ASSUME CategoryInv, NEW f \in Filers, LookForPrior(f)
  PROVE  CategoryInv'
  <1>1. /\ filer[f] \in FilerRow /\ filer[f].todo \in SUBSET Kinds
        /\ filer[f].kind \in Kinds /\ filer[f].step = "look"
    BY DEF CategoryInv, Shapes, FilerRow, Candidates, LookForPrior, Filing
  <1>2. UNCHANGED <<registered, removed, asked, decider>>
    BY DEF LookForPrior, registry
  <1>3. CASE Prior(filer[f].kind)
    BY <1>1, <1>2, <1>3, BackToLoopRow, FilerMoves DEF LookForPrior, Skip
  <1>4. CASE ~Prior(filer[f].kind)
    <2> DEFINE r == [filer[f] EXCEPT !.step = "draft"]
    <2>1. /\ r \in FilerRow /\ r.step = "draft" /\ r.kind = filer[f].kind
          /\ filer' = [filer EXCEPT ![f] = r]
      BY <1>1, <1>4 DEF LookForPrior, FilerRow
    <2> HIDE DEF r
    <2>2. \A g \in Filers : filer'[g] = IF g = f THEN r ELSE filer[g]
      BY <2>1 DEF CategoryInv, Shapes
    <2>3. Shapes'
      BY <1>2, <2>1 DEF CategoryInv, Shapes
    <2>4. Candidates'
      BY <1>1, <2>1, <2>2 DEF CategoryInv, Candidates
    <2>5. ASSUME NEW k \in Kinds
          PROVE  (Cardinality(Proposals(k)) + Cardinality(Drafting(k))
                   <= Cardinality(Filers))'
      <3>1. CASE k = filer[f].kind
        <4>1. Proposals(k)' = {}
          BY <1>2, <1>4, <3>1 DEF Prior, Proposals
        <4>2. Cardinality(Drafting(k)') <= Cardinality(Filers)
              /\ Cardinality(Drafting(k)') \in Nat
          <5>1. Drafting(k)' \subseteq Filers
            BY DEF Drafting
          <5> QED
            BY <5>1, CategoryAssumption, FS_Subset, FS_CardinalityType
        <4> QED
          BY <4>1, <4>2, FS_EmptySet
      <3>2. CASE k # filer[f].kind
        <4>1. Proposals(k)' = Proposals(k)
          BY <1>2 DEF Proposals
        <4>2. Drafting(k)' = Drafting(k)
          BY <1>1, <2>1, <2>2, <3>2 DEF Drafting
        <4> QED
          BY <4>1, <4>2 DEF CategoryInv, Counted
      <3> QED
        BY <3>1, <3>2
    <2>6. Counted'
      BY <2>5 DEF Counted
    <2>7. Created' /\ AcceptedIsRegistered'
      BY <1>2 DEF CategoryInv, Created, AcceptedIsRegistered
    <2> QED
      BY <2>3, <2>4, <2>6, <2>7 DEF CategoryInv
  <1> QED
    BY <1>3, <1>4

\* Filing: one proposal more, one draft less.
LEMMA FileKeepsInv ==
  ASSUME CategoryInv, NEW f \in Filers, FileProposal(f)
  PROVE  CategoryInv'
  <1> DEFINE k0 == filer[f].kind
             r == BackToLoop(filer[f].todo)
             new == [kind |-> k0, status |-> "pending"]
  <1>1. /\ filer[f].todo \in SUBSET Kinds /\ k0 \in Kinds /\ filer[f].step = "draft"
    BY DEF CategoryInv, Shapes, FilerRow, Candidates, FileProposal, Filing
  <1>2. /\ r \in FilerRow /\ r.step \in {"idle", "loop"}
    BY <1>1, BackToLoopRow
  <1>3. new \in Review /\ new.kind = k0 /\ new.status = "pending"
    BY <1>1 DEF Review
  <1>4. /\ asked' = Append(asked, new) /\ filer' = [filer EXCEPT ![f] = r]
        /\ UNCHANGED <<registered, removed, decider>>
    BY DEF FileProposal, Skip, registry
  <1> HIDE DEF r, new
  <1>5. \A g \in Filers : filer'[g] = IF g = f THEN r ELSE filer[g]
    BY <1>4 DEF CategoryInv, Shapes
  <1>6. Shapes'
    BY <1>2, <1>3, <1>4 DEF CategoryInv, Shapes
  <1>7. /\ Len(asked) \in Nat /\ DOMAIN asked = 1..Len(asked)
        /\ DOMAIN asked' = 1..(Len(asked) + 1)
        /\ asked'[Len(asked) + 1] = new
        /\ \A n \in DOMAIN asked : asked'[n] = asked[n]
    BY <1>3, <1>4 DEF CategoryInv, Shapes
  <1>8. Candidates'
    BY <1>2, <1>5 DEF CategoryInv, Candidates
  <1>9. ASSUME NEW k \in Kinds
        PROVE  (Cardinality(Proposals(k)) + Cardinality(Drafting(k))
                 <= Cardinality(Filers))'
    <2>1. /\ Cardinality(Proposals(k)) + Cardinality(Drafting(k)) <= Cardinality(Filers)
          /\ IsFiniteSet(Proposals(k)) /\ IsFiniteSet(Drafting(k))
          /\ Cardinality(Proposals(k)) \in Nat /\ Cardinality(Drafting(k)) \in Nat
          /\ Cardinality(Filers) \in Nat
      BY Finite DEF CategoryInv, Counted
    <2>2. CASE k = k0
      <3>1. Proposals(k)' = Proposals(k) \cup {Len(asked) + 1}
        BY <1>3, <1>7, <2>2 DEF Proposals
      <3>2. Len(asked) + 1 \notin Proposals(k)
        BY <1>7 DEF Proposals
      <3>3. Drafting(k)' = Drafting(k) \ {f} /\ f \in Drafting(k)
        BY <1>1, <1>2, <1>5, <2>2 DEF Drafting
      <3>4. Cardinality(Proposals(k)') = Cardinality(Proposals(k)) + 1
        BY <2>1, <3>1, <3>2, FS_AddElement
      <3>5. Cardinality(Drafting(k)') = Cardinality(Drafting(k)) - 1
        BY <2>1, <3>3, FS_RemoveElement
      <3> QED
        BY <2>1, <3>4, <3>5
    <2>3. CASE k # k0
      <3>1. Proposals(k)' = Proposals(k)
        BY <1>3, <1>7, <2>3 DEF Proposals
      <3>2. Drafting(k)' = Drafting(k)
        BY <1>1, <1>2, <1>5, <2>3 DEF Drafting
      <3> QED
        BY <2>1, <3>1, <3>2
    <2> QED
      BY <2>2, <2>3
  <1>10. Counted'
    BY <1>9 DEF Counted
  <1>11. Created'
    BY <1>4, <1>7 DEF CategoryInv, Created
  <1>12. AcceptedIsRegistered'
    BY <1>3, <1>4, <1>7 DEF CategoryInv, AcceptedIsRegistered
  <1> QED
    BY <1>6, <1>8, <1>10, <1>11, <1>12 DEF CategoryInv

-----------------------------------------------------------------------------
\* Steps that file and draft nothing, and change no kind of a review.
LEMMA CountKept ==
  ASSUME CategoryInv, UNCHANGED filer, DOMAIN asked' = DOMAIN asked,
         \A n \in DOMAIN asked : asked'[n].kind = asked[n].kind
  PROVE  Candidates' /\ Counted'
  <1>1. Candidates'
    BY DEF CategoryInv, Candidates
  <1>2. \A k \in Kinds : Proposals(k)' = Proposals(k) /\ Drafting(k)' = Drafting(k)
    BY DEF Proposals, Drafting
  <1> QED
    BY <1>1, <1>2 DEF CategoryInv, Counted

LEMMA UsersKeepInv ==
  ASSUME CategoryInv, EntitiesChange \/ UserCreates \/ UserDeletes
  PROVE  CategoryInv'
  <1>1. /\ UNCHANGED <<asked, filer, decider>>
        /\ registered' \in SUBSET Kinds /\ removed' \in SUBSET Kinds
        /\ registered \cup removed \subseteq registered' \cup removed'
    BY DEF CategoryInv, Shapes, EntitiesChange, UserCreates, UserDeletes, registry
  <1>2. Shapes'
    BY <1>1 DEF CategoryInv, Shapes
  <1>3. Candidates' /\ Counted'
    BY <1>1, CountKept
  <1>4. Created' /\ AcceptedIsRegistered'
    BY <1>1 DEF CategoryInv, Created, AcceptedIsRegistered
  <1> QED
    BY <1>2, <1>3, <1>4 DEF CategoryInv

\* One decision moves, and the reviews stay as they are.
LEMMA DeciderMoves ==
  ASSUME CategoryInv, NEW d \in Deciders, NEW r \in DeciderRow,
         decider' = [decider EXCEPT ![d] = r],
         UNCHANGED <<asked, filer, removed>>,
         registered' \in SUBSET Kinds, registered \subseteq registered',
         r.step # "idle" =>
           /\ r.review \in DOMAIN asked /\ r.verdict \in Verdicts
           /\ r.step = "resolve" /\ r.verdict = "accepted" =>
                asked[r.review].kind \in registered' \cup removed
  PROVE  CategoryInv'
  <1>1. Shapes'
    BY DEF CategoryInv, Shapes
  <1>2. \A e \in Deciders : decider'[e] = IF e = d THEN r ELSE decider[e]
    BY DEF CategoryInv, Shapes
  <1>3. Candidates' /\ Counted'
    BY CountKept
  <1>4. Created'
    BY <1>2 DEF CategoryInv, Created
  <1>5. AcceptedIsRegistered'
    BY DEF CategoryInv, AcceptedIsRegistered
  <1> QED
    BY <1>1, <1>3, <1>4, <1>5 DEF CategoryInv

LEMMA DecisionKeepsInv ==
  ASSUME CategoryInv, NEW d \in Deciders,
         Decide(d) \/ CreateAccepted(d) \/ CreateFails(d) \/ DeciderDies(d)
  PROVE  CategoryInv'
  <1>1. NoDecision \in DeciderRow /\ NoDecision.step = "idle"
    BY NoRows DEF NoDecision
  <1>2. /\ decider[d] \in DeciderRow
        /\ DOMAIN asked \subseteq Nat
        /\ registered \in SUBSET Kinds
    BY DEF CategoryInv, Shapes
  <1>3. CASE Decide(d)
    <2>1. PICK n \in DOMAIN asked, v \in Verdicts :
            decider' = [decider EXCEPT ![d] =
               [step |-> IF v = "accepted" THEN "create" ELSE "resolve",
                review |-> n, verdict |-> v]]
      BY <1>3 DEF Decide, Verdicts
    <2> DEFINE r == [step |-> IF v = "accepted" THEN "create" ELSE "resolve",
                     review |-> n, verdict |-> v]
    <2>2. /\ r \in DeciderRow /\ r.review = n /\ r.verdict = v
          /\ ~(r.step = "resolve" /\ r.verdict = "accepted")
      BY <1>2 DEF DeciderRow, Verdicts
    <2>3. UNCHANGED <<asked, filer, removed>> /\ registered' = registered
      BY <1>3 DEF Decide, registry
    <2>4. decider' = [decider EXCEPT ![d] = r]
      BY <2>1
    <2> HIDE DEF r
    <2> QED
      BY <1>2, <2>2, <2>3, <2>4, DeciderMoves
  <1>4. CASE CreateAccepted(d)
    <2> DEFINE r == [decider[d] EXCEPT !.step = "resolve"]
    <2>1. /\ r \in DeciderRow /\ r.review = decider[d].review
          /\ r.verdict = decider[d].verdict
      BY <1>2 DEF DeciderRow
    <2>2. r.review \in DOMAIN asked /\ r.verdict \in Verdicts
      BY <1>4, <2>1 DEF CreateAccepted, Deciding, CategoryInv, Created
    <2>3. /\ decider' = [decider EXCEPT ![d] = r]
          /\ UNCHANGED <<asked, filer, removed>>
          /\ registered' = registered \cup {asked[r.review].kind}
      BY <1>4, <2>1 DEF CreateAccepted
    <2>4. asked[r.review].kind \in Kinds
      BY <2>2, ReviewRow DEF CategoryInv, Shapes
    <2> HIDE DEF r
    <2> QED
      BY <1>2, <2>1, <2>2, <2>3, <2>4, DeciderMoves
  <1>5. CASE CreateFails(d) \/ DeciderDies(d)
    <2>1. /\ decider' = [decider EXCEPT ![d] = NoDecision]
          /\ UNCHANGED <<asked, filer, removed>> /\ registered' = registered
      BY <1>5 DEF CreateFails, DeciderDies, AfterError, registry
    <2> QED
      BY <1>1, <1>2, <2>1, DeciderMoves
  <1> QED
    BY <1>3, <1>4, <1>5

LEMMA ResolveKeepsInv ==
  ASSUME CategoryInv, NEW d \in Deciders, ResolveProposal(d)
  PROVE  CategoryInv'
  <1> DEFINE n0 == decider[d].review
             v == decider[d].verdict
             new == [kind |-> asked[n0].kind, status |-> v]
  <1>1. /\ n0 \in DOMAIN asked /\ v \in Verdicts /\ decider[d].step = "resolve"
        /\ v = "accepted" => asked[n0].kind \in registered \cup removed
    BY DEF CategoryInv, Created, ResolveProposal, Deciding
  <1>2. /\ asked' = [asked EXCEPT ![n0] = new]
        /\ decider' = [decider EXCEPT ![d] = NoDecision]
        /\ UNCHANGED <<registered, removed, filer>>
    BY DEF ResolveProposal, registry
  <1>3. new \in Review /\ new.kind = asked[n0].kind /\ new.status = v
    <2>1. asked[n0].kind \in Kinds
      BY <1>1, ReviewRow DEF CategoryInv, Shapes
    <2> HIDE DEF n0, v
    <2> QED
      BY <1>1, <2>1 DEF Review, Verdicts
  <1> HIDE DEF new, n0, v
  <1>4. /\ DOMAIN asked' = DOMAIN asked
        /\ \A n \in DOMAIN asked : asked'[n] = IF n = n0 THEN new ELSE asked[n]
        /\ asked' \in Seq(Review)
    BY <1>1, <1>2, <1>3 DEF CategoryInv, Shapes
  <1>5. Shapes'
    BY <1>2, <1>4, NoRows DEF CategoryInv, Shapes
  <1>6. \A n \in DOMAIN asked : asked'[n].kind = asked[n].kind
    BY <1>3, <1>4
  <1>7. Candidates' /\ Counted'
    BY <1>2, <1>4, <1>6, CountKept
  <1>8. \A e \in Deciders : decider'[e] = IF e = d THEN NoDecision ELSE decider[e]
    BY <1>2 DEF CategoryInv, Shapes
  <1>9. Created'
    BY <1>2, <1>4, <1>6, <1>8 DEF CategoryInv, Created, NoDecision
  <1>10. AcceptedIsRegistered'
    BY <1>1, <1>2, <1>3, <1>4 DEF CategoryInv, AcceptedIsRegistered
  <1> QED
    BY <1>5, <1>7, <1>9, <1>10 DEF CategoryInv

-----------------------------------------------------------------------------
THEOREM CategoryInvInit == CategoryInit => CategoryInv
  <1> SUFFICES ASSUME CategoryInit PROVE CategoryInv
    OBVIOUS
  <1>1. Shapes
    BY NoRows DEF CategoryInit, Shapes
  <1>2. Candidates
    BY DEF CategoryInit, Candidates, NoFiler
  <1>3. ASSUME NEW k \in Kinds
        PROVE  Cardinality(Proposals(k)) + Cardinality(Drafting(k)) <= Cardinality(Filers)
    <2>1. Proposals(k) = {}
      BY DEF CategoryInit, Proposals
    <2> QED
      BY <1>1, <2>1, Finite, FS_EmptySet
  <1>4. Created /\ AcceptedIsRegistered
    BY DEF CategoryInit, Created, AcceptedIsRegistered, NoDecision
  <1> QED
    BY <1>1, <1>2, <1>3, <1>4 DEF CategoryInv, Counted

THEOREM CategoryInvStep == CategoryInv /\ [CategoryNext]_categoryVars => CategoryInv'
  <1> SUFFICES ASSUME CategoryInv, [CategoryNext]_categoryVars PROVE CategoryInv'
    OBVIOUS
  <1>1. CASE EntitiesChange \/ UserCreates \/ UserDeletes
    BY <1>1, UsersKeepInv
  <1>2. ASSUME NEW f \in Filers,
               RunProposes(f) \/ ImportProposes(f) \/ TakeCandidate(f) \/ FilerFails(f)
        PROVE  CategoryInv'
    BY <1>2, FilingKeepsInv
  <1>3. ASSUME NEW f \in Filers, LookForPrior(f) PROVE CategoryInv'
    BY <1>3, LookKeepsInv
  <1>4. ASSUME NEW f \in Filers, FileProposal(f) PROVE CategoryInv'
    BY <1>4, FileKeepsInv
  <1>5. ASSUME NEW d \in Deciders,
               Decide(d) \/ CreateAccepted(d) \/ CreateFails(d) \/ DeciderDies(d)
        PROVE  CategoryInv'
    BY <1>5, DecisionKeepsInv
  <1>6. ASSUME NEW d \in Deciders, ResolveProposal(d) PROVE CategoryInv'
    BY <1>6, ResolveKeepsInv
  <1>7. CASE UNCHANGED categoryVars
    <2>1. UNCHANGED <<registered, removed, asked, filer, decider>>
      BY <1>7 DEF categoryVars
    <2>2. Candidates' /\ Counted'
      BY <2>1, CountKept
    <2> QED
      BY <2>1, <2>2 DEF CategoryInv, Shapes, Created, AcceptedIsRegistered
  <1> QED
    BY <1>1, <1>2, <1>3, <1>4, <1>5, <1>6, <1>7 DEF CategoryNext

\* maybeProposeCategories and the Obsidian import file no more proposals of a
\* kind than there are callers that can be live at once, ever: its look for an
\* earlier proposal is not atomic with the filing, but it sees every status.
THEOREM CategoryIsAskedBoundedly == CategorySpec => []CategoryAskedBounded
  <1>1. CategoryInv => CategoryAskedBounded
    <2> SUFFICES ASSUME CategoryInv, NEW k \in Kinds
                 PROVE  Cardinality(Proposals(k)) <= Cardinality(Filers)
      BY DEF CategoryAskedBounded, Proposals
    <2>1. /\ Cardinality(Proposals(k)) + Cardinality(Drafting(k)) <= Cardinality(Filers)
          /\ Cardinality(Proposals(k)) \in Nat /\ Cardinality(Drafting(k)) \in Nat
          /\ Cardinality(Filers) \in Nat
      BY Finite DEF CategoryInv, Counted
    <2> QED
      BY <2>1
  <1> QED
    BY <1>1, CategoryInvInit, CategoryInvStep, PTL DEF CategorySpec

\* An accepted category_proposal has its category, or a user deleted it since,
\* though acceptReview swallows a unique violation of createKind and may be cut
\* off anywhere.
THEOREM AcceptedAreRegistered == CategorySpec => []AcceptedIsRegistered
  <1>1. CategoryInv => AcceptedIsRegistered
    BY DEF CategoryInv
  <1> QED
    BY <1>1, CategoryInvInit, CategoryInvStep, PTL DEF CategorySpec

\* Beside the invariant: the counts are in their range, and a decision that is
\* not under way refers to nothing.
CategoryBounds ==
  /\ sightings \in [Kinds -> 0..MaxFiled]
  /\ \A d \in Deciders : decider[d].step = "idle" => decider[d].review = 0

LEMMA CategoryBoundsStep ==
  ASSUME CategoryInv, CategoryBounds, [CategoryNext]_categoryVars
  PROVE  CategoryBounds'
  <1>1. CASE EntitiesChange
    BY <1>1 DEF EntitiesChange, CategoryBounds
  <1>2. ASSUME UNCHANGED sightings, NEW d \in Deciders, NEW r,
               r.step = "idle" => r.review = 0, decider' = [decider EXCEPT ![d] = r]
        PROVE  CategoryBounds'
    <2>1. \A e \in Deciders : decider'[e] = IF e = d THEN r ELSE decider[e]
      BY <1>2 DEF CategoryInv, Shapes
    <2> QED
      BY <1>2, <2>1 DEF CategoryBounds
  <1>3. NoDecision.review = 0
    BY DEF NoDecision
  <1>4. ASSUME NEW d \in Deciders, Decide(d)
        PROVE  CategoryBounds'
    <2>1. PICK r : /\ UNCHANGED sightings /\ r.step \in {"create", "resolve"}
                   /\ decider' = [decider EXCEPT ![d] = r]
      <3>1. PICK n \in DOMAIN asked, v \in {"accepted", "rejected"} :
              /\ decider' = [decider EXCEPT ![d] =
                   [step |-> IF v = "accepted" THEN "create" ELSE "resolve",
                    review |-> n, verdict |-> v]]
              /\ UNCHANGED sightings
        BY <1>4 DEF Decide
      <3> DEFINE r == [step |-> IF v = "accepted" THEN "create" ELSE "resolve",
                       review |-> n, verdict |-> v]
      <3>2. r.step \in {"create", "resolve"}
        OBVIOUS
      <3> QED
        BY <3>1, <3>2
    <2> QED
      BY <1>2, <2>1
  <1>5. ASSUME NEW d \in Deciders, CreateAccepted(d)
        PROVE  CategoryBounds'
    <2>1. decider[d] \in DeciderRow
      BY DEF CategoryInv, Shapes
    <2>2. [decider[d] EXCEPT !.step = "resolve"].step = "resolve"
      BY <2>1 DEF DeciderRow
    <2> QED
      BY <1>2, <1>5, <2>2 DEF CreateAccepted
  <1>6. ASSUME NEW d \in Deciders,
               CreateFails(d) \/ ResolveProposal(d) \/ DeciderDies(d)
        PROVE  CategoryBounds'
    BY <1>2, <1>3, <1>6 DEF CreateFails, ResolveProposal, DeciderDies, AfterError
  <1>7. CASE UNCHANGED <<sightings, decider>>
    BY <1>7 DEF CategoryBounds
  <1> QED
    BY <1>1, <1>4, <1>5, <1>6, <1>7 DEF CategoryNext, categoryVars, UserCreates,
       UserDeletes, RunProposes, ImportProposes, TakeCandidate, LookForPrior,
       FileProposal, FilerFails

\* The variables of the categories keep their types.
THEOREM CategoryTypesHold == CategorySpec => []CategoryTypeOK
  <1>1. CategoryInit => CategoryBounds
    BY CategoryAssumption DEF CategoryInit, CategoryBounds, NoDecision
  <1>2. CategoryInv /\ CategoryBounds => CategoryTypeOK
    <2> SUFFICES ASSUME CategoryInv, CategoryBounds PROVE CategoryTypeOK
      OBVIOUS
    <2>1. Len(asked) \in Nat /\ DOMAIN asked = 1..Len(asked)
      BY DEF CategoryInv, Shapes
    <2>2. \A d \in Deciders : decider[d] \in DeciderRow /\ decider[d].review \in 0..Len(asked)
      BY <2>1 DEF CategoryInv, Shapes, Created, CategoryBounds
    <2>3. \A f \in Filers : filer[f] \in FilerRow
      BY DEF CategoryInv, Shapes
    <2>4. Review = [kind : Kinds, status : {"pending", "accepted", "rejected"}]
      BY DEF Review, Verdicts
    <2> QED
      BY <2>2, <2>3, <2>4 DEF CategoryInv, Shapes, CategoryBounds, CategoryTypeOK,
         DeciderRow, FilerRow
  <1>3. CategoryInv /\ CategoryBounds /\ [CategoryNext]_categoryVars => CategoryBounds'
    BY CategoryBoundsStep
  <1> QED
    BY <1>1, <1>2, <1>3, CategoryInvInit, CategoryInvStep, PTL DEF CategorySpec

-----------------------------------------------------------------------------
(***************************************************************************)
(* The row of a kind.  Decisions is what makes AcceptedGrows inductive:    *)
(* whoever is about to record an acceptance has seen the name in the row,  *)
(* and no step loses a name without an account (NamesKept).                *)
(***************************************************************************)

WriterRow == [step : WriterSteps, about : Keys \cup {NoKey},
              verdict : {"none", "accepted", "rejected"},
              copy : SUBSET Entries, cols : SUBSET (Keys \cup {LabelKey}),
              todo : SUBSET Keys]
GrowthRow == [status : {"none", "pending", "accepted", "rejected"},
              aliasOf : Keys \cup {NoKey}]

\* A name that is in the vocabulary, or whose loss is accounted for.
Kept(p) == p \in Vocabulary(template) \cup excused

\* A decision knows its predicate, and one that is about to be recorded as
\* accepted has seen it in the template.
Decisions ==
  \A a \in Approvals :
    work[a].step # "idle" =>
      /\ work[a].about \in Keys /\ work[a].verdict \in {"accepted", "rejected"}
      /\ work[a].step = "resolve" /\ work[a].verdict = "accepted" => Kept(work[a].about)

TemplateInv == TemplateTypeOK /\ Decisions /\ FieldsHaveColumns /\ AcceptedGrows

-----------------------------------------------------------------------------
\* What the operations on templates return, and what they keep.

LEMMA EntryRow ==
  ASSUME NEW k \in Keys, NEW sort \in Sorts
  PROVE  Entry(k, sort) \in Entries /\ Entry(k, sort).key = k /\ Entry(k, sort).sort = sort
  BY DEF Entry, Entries

LEMMA VocabularyRange ==
  ASSUME NEW t, t \subseteq Entries
  PROVE  Vocabulary(t) \subseteq Keys /\ KeysOf(t) \subseteq Keys
  <1>1. \A x \in t : x.key \in Keys /\ x.aliases \subseteq Keys
    BY DEF Entries
  <1> QED
    BY <1>1 DEF Vocabulary, KeysOf

LEMMA ColumnsRange ==
  ASSUME NEW t, t \subseteq Entries
  PROVE  ColumnsFromTemplate(t) \subseteq Keys \cup {LabelKey}
  <1>1. \A x \in t : x.key \in Keys
    BY DEF Entries
  <1> QED
    BY <1>1 DEF ColumnsFromTemplate, KeysOf, Fields, Relations

\* The backfill touches no name.
LEMMA DeclaredKeeps ==
  ASSUME NEW t, t \subseteq Entries
  PROVE  /\ Declared(t) \subseteq Entries
         /\ Vocabulary(Declared(t)) = Vocabulary(t)
         /\ KeysOf(Fields(Declared(t))) = KeysOf(Fields(t))
  <1> DEFINE D(x) == [x EXCEPT !.declared = @ \/ x.key \in Declares]
  <1>1. \A x \in t : D(x) \in Entries /\ D(x).key = x.key /\ D(x).aliases = x.aliases
                     /\ D(x).sort = x.sort
    <2> SUFFICES ASSUME NEW x \in t
                 PROVE D(x) \in Entries /\ D(x).key = x.key /\ D(x).aliases = x.aliases
                       /\ D(x).sort = x.sort
      OBVIOUS
    <2>1. x \in Entries
      OBVIOUS
    <2>2. (x.declared \/ x.key \in Declares) \in BOOLEAN
      OBVIOUS
    <2> QED
      BY <2>1, <2>2 DEF Entries
  <1>2. Declared(t) = {D(x) : x \in t}
    BY DEF Declared
  <1> HIDE DEF D
  <1>3. KeysOf(Declared(t)) = KeysOf(t)
    BY <1>1, <1>2 DEF KeysOf
  <1>4. UNION {y.aliases : y \in Declared(t)} = UNION {x.aliases : x \in t}
    BY <1>1, <1>2
  <1>5. Fields(Declared(t)) = {D(x) : x \in Fields(t)}
    BY <1>1, <1>2 DEF Fields
  <1>6. KeysOf(Fields(Declared(t))) = KeysOf(Fields(t))
    BY <1>1, <1>5 DEF KeysOf, Fields
  <1> QED
    BY <1>1, <1>2, <1>3, <1>4, <1>6 DEF Vocabulary

\* Growth adds the predicate, if the key it is an alias of is there.
LEMMA GrownKeeps ==
  ASSUME NEW t, t \subseteq Entries, NEW p \in Keys, NEW k \in Keys \cup {NoKey}
  PROVE  /\ Grown(t, p, k) \subseteq Entries
         /\ Vocabulary(t) \subseteq Vocabulary(Grown(t, p, k))
         /\ k \in KeysOf(t) \cup {NoKey} => p \in Vocabulary(Grown(t, p, k))
  <1>1. CASE k = NoKey
    <2>1. Grown(t, p, k) = t \cup {Entry(p, SortOf(p))}
      BY <1>1 DEF Grown
    <2>2. SortOf(p) \in Sorts
      BY DEF SortOf, Sorts
    <2>3. Entry(p, SortOf(p)) \in Entries /\ Entry(p, SortOf(p)).key = p
      BY <2>2, EntryRow
    <2> QED
      BY <2>1, <2>3 DEF Vocabulary, KeysOf
  <1>2. CASE k # NoKey
    <2> DEFINE G(x) == [x EXCEPT !.aliases = IF x.key = k THEN @ \cup {p} ELSE @]
    <2>1. Grown(t, p, k) = {G(x) : x \in t}
      BY <1>2 DEF Grown
    <2>2. \A x \in t : /\ G(x) \in Entries /\ G(x).key = x.key
                       /\ x.aliases \subseteq G(x).aliases
                       /\ x.key = k => p \in G(x).aliases
      BY DEF Entries
    <2> HIDE DEF G
    <2>3. Grown(t, p, k) \subseteq Entries
      BY <2>1, <2>2
    <2>4. KeysOf(Grown(t, p, k)) = KeysOf(t)
      BY <2>1, <2>2 DEF KeysOf
    <2>5. UNION {x.aliases : x \in t} \subseteq UNION {y.aliases : y \in Grown(t, p, k)}
      BY <2>1, <2>2
    <2>6. k \in KeysOf(t) => p \in UNION {y.aliases : y \in Grown(t, p, k)}
      BY <2>1, <2>2 DEF KeysOf
    <2> QED
      BY <1>2, <2>3, <2>4, <2>5, <2>6 DEF Vocabulary
  <1> QED
    BY <1>1, <1>2

LEMMA EditedRange ==
  ASSUME NEW t, t \subseteq Entries, NEW u \in Edited(t)
  PROVE  u \subseteq Entries
  <1>1. CASE \E k \in Keys \ KeysOf(t), sort \in Sorts : u = t \cup {Entry(k, sort)}
    BY <1>1, EntryRow
  <1>2. CASE u = t \/ \E x \in t : u = t \ {x}
    BY <1>2
  <1> QED
    BY <1>1, <1>2 DEF Edited

\* What setColumns writes: the fields that are shown and those that never are.
Synced(copy, cols) == Fields(SyncFieldsToColumns(copy, cols)) \cup Relations(template)

LEMMA SyncedRange ==
  ASSUME NEW copy, copy \subseteq Entries, template \subseteq Entries,
         NEW cols, cols \subseteq Keys \cup {LabelKey}
  PROVE  /\ Synced(copy, cols) \subseteq Entries
         /\ KeysOf(Fields(Synced(copy, cols))) \ Bookkeeping \subseteq cols
  <1> DEFINE shown == cols \ ({LabelKey} \cup KeysOf(Relations(copy)))
             new == {Entry(k, "field") : k \in shown \ KeysOf(Fields(copy))}
  <1>1. \A k \in shown : Entry(k, "field") \in Entries /\ Entry(k, "field").key = k
    BY EntryRow DEF Sorts
  <1>2. SyncFieldsToColumns(copy, cols) =
          Relations(copy) \cup {x \in Fields(copy) : x.key \in shown \cup Bookkeeping} \cup new
    BY DEF SyncFieldsToColumns
  <1>3. SyncFieldsToColumns(copy, cols) \subseteq Entries
    BY <1>1, <1>2 DEF Relations, Fields
  <1>4. \A x \in Fields(SyncFieldsToColumns(copy, cols)) : x.key \in shown \cup Bookkeeping
    BY <1>1, <1>2 DEF Relations, Fields
  <1>5. Fields(Synced(copy, cols)) = Fields(SyncFieldsToColumns(copy, cols))
    BY DEF Synced, Fields, Relations
  <1> QED
    BY <1>3, <1>4, <1>5 DEF Synced, KeysOf, Fields, Relations

\* A name read from a field whose column is still there is there.
LEMMA SyncedKeeps ==
  ASSUME NEW copy, copy \subseteq Entries, NEW old, NEW cols,
         old \subseteq Keys \cup {LabelKey},
         NEW p \in NamesAt((old \ KeysOf(Relations(copy))) \cup Bookkeeping, Fields(copy)),
         p \notin NamesAt(old \ cols, copy)
  PROVE  p \in Vocabulary(Synced(copy, cols))
  <1>1. PICK x \in Fields(copy) :
          /\ x.key \in (old \ KeysOf(Relations(copy))) \cup Bookkeeping
          /\ p = x.key \/ p \in x.aliases
    BY DEF NamesAt, Vocabulary, KeysOf
  <1>2. x \in copy /\ x.key \in Keys /\ x.sort = "field"
    BY <1>1 DEF Fields, Entries
  <1>3. x.key \notin old \ cols
    BY <1>1, <1>2 DEF NamesAt, Vocabulary, KeysOf
  <1>4. x.key # LabelKey
    BY <1>2, TemplateAssumption
  <1>5. x \in SyncFieldsToColumns(copy, cols)
    BY <1>1, <1>3, <1>4 DEF SyncFieldsToColumns
  <1>6. x \in Synced(copy, cols)
    BY <1>2, <1>5 DEF Synced, Fields
  <1> QED
    BY <1>1, <1>6 DEF Vocabulary, KeysOf

-----------------------------------------------------------------------------
(* Types.                                                                  *)

LEMMA RestRow == AtRest \in WriterRow
  BY DEF AtRest, WriterRow, WriterSteps

\* A writer's row may be replaced by a row.
LEMMA RowPut ==
  ASSUME work \in [Writers -> WriterRow], NEW w \in Writers, NEW r \in WriterRow,
         work' = [work EXCEPT ![w] = r]
  PROVE  work' \in [Writers -> WriterRow]
  BY DEF WriterRow

\* A row that has read the template.
LEMMA RowRead ==
  ASSUME NEW r \in WriterRow, NEW step \in WriterSteps, NEW t, t \subseteq Entries
  PROVE  [r EXCEPT !.step = step, !.copy = t] \in WriterRow
  BY DEF WriterRow

LEMMA RowIsRow ==
  ASSUME TemplateTypeOK, NEW w \in Writers
  PROVE  /\ work[w] \in WriterRow
         /\ work[w].copy \subseteq Entries /\ work[w].cols \subseteq Keys \cup {LabelKey}
         /\ work[w].about \in Keys \cup {NoKey} /\ work[w].todo \subseteq Keys
         /\ work[w].verdict \in {"none", "accepted", "rejected"}
         /\ work[w].step \in WriterSteps
  BY DEF TemplateTypeOK, WriterRow

LEMMA GotoType ==
  ASSUME TemplateTypeOK, NEW w \in Writers, NEW step \in WriterSteps, Goto(w, step)
  PROVE  work' \in [Writers -> WriterRow]
  <1>1. [work[w] EXCEPT !.step = step] \in WriterRow
    BY RowIsRow DEF WriterRow
  <1> QED
    BY <1>1, RowPut DEF Goto, TemplateTypeOK, WriterRow

LEMMA RestType ==
  ASSUME TemplateTypeOK, NEW w \in Writers, Rest(w)
  PROVE  work' \in [Writers -> WriterRow]
  BY RestRow, RowPut DEF Rest, TemplateTypeOK, WriterRow

\* Saving a template keeps the types.
LEMMA ExcuseType ==
  ASSUME TemplateTypeOK, NEW t, NEW known \in SUBSET Keys, NEW read, Excuse(t, known, read)
  PROVE  excused' \subseteq Keys
  BY VocabularyRange DEF Excuse, TemplateTypeOK

LEMMA UpdateType ==
  ASSUME NEW t, t \subseteq Entries, UpdateKind(t)
  PROVE  template' \subseteq Entries /\ columns' \subseteq Keys \cup {LabelKey}
  BY ColumnsRange DEF UpdateKind

LEMMA NamesRange ==
  ASSUME NEW keys, NEW t, t \subseteq Entries
  PROVE  NamesAt(keys, t) \subseteq Keys
  BY VocabularyRange DEF NamesAt

LEMMA TypesInit == TemplateInit => TemplateTypeOK
  <1> SUFFICES ASSUME TemplateInit PROVE TemplateTypeOK
    OBVIOUS
  <1>1. template \subseteq Entries
    BY TemplateAssumption DEF TemplateInit
  <1>2. columns \subseteq Keys \cup {LabelKey}
    BY <1>1, ColumnsRange DEF TemplateInit
  <1>3. Unasked \in GrowthRow
    BY DEF Unasked, GrowthRow
  <1>4. 0 \in 0..MaxEdits
    BY TemplateAssumption
  <1> QED
    BY <1>1, <1>2, <1>3, <1>4, RestRow DEF TemplateInit, TemplateTypeOK, GrowthRow, WriterRow

LEMMA TypesStep ==
  TemplateTypeOK /\ Decisions /\ [TemplateNext]_templateVars => TemplateTypeOK'
  <1> SUFFICES ASSUME TemplateTypeOK, Decisions, [TemplateNext]_templateVars PROVE TemplateTypeOK'
    OBVIOUS
  <1> DEFINE Rows == work' \in [Writers -> WriterRow]
             Row == template' \subseteq Entries /\ columns' \subseteq Keys \cup {LabelKey}
             Edits == edits' \in 0..MaxEdits
             Ghosts == excused' \subseteq Keys /\ crossed' \in BOOLEAN
             Grows == growth' \in [Keys -> GrowthRow]
  <1>0. Rows /\ Row /\ Edits /\ Ghosts /\ Grows => TemplateTypeOK'
    BY DEF TemplateTypeOK, WriterRow, GrowthRow
  <1>a. UNCHANGED row => Row
    BY DEF row, TemplateTypeOK
  <1>b. UNCHANGED ghosts => Ghosts
    BY DEF ghosts, TemplateTypeOK
  <1>c. UNCHANGED growth => Grows
    BY DEF TemplateTypeOK, GrowthRow
  <1>d. edits' = edits \/ (edits < MaxEdits /\ edits' = edits + 1) => Edits
    BY TemplateAssumption DEF TemplateTypeOK
  <1>e. Growth \in Writers /\ Approvals \subseteq Writers /\ Editors \subseteq Writers
        /\ Sheets \subseteq Writers
    BY DEF Writers
  <1>f. work \in [Writers -> WriterRow] /\ template \subseteq Entries
        /\ columns \subseteq Keys \cup {LabelKey} /\ crossed \in BOOLEAN
    BY DEF TemplateTypeOK, WriterRow
  <1>1. ASSUME LoadGrowth PROVE TemplateTypeOK'
    <2>1. PICK usage \in Usages :
            LET todo == {p \in Proposed(usage, template) : ~Asked(p)}
            IN work' = [work EXCEPT ![Growth] =
                 IF todo = {} THEN AtRest
                 ELSE [AtRest EXCEPT !.step = "file", !.copy = template, !.todo = todo]]
      BY <1>1 DEF LoadGrowth
    <2> DEFINE todo == {p \in Proposed(usage, template) : ~Asked(p)}
    <2>2. todo \subseteq Keys
      BY DEF Proposed
    <2>3. [AtRest EXCEPT !.step = "file", !.copy = template, !.todo = todo] \in WriterRow
      BY <2>2, <1>f DEF AtRest, WriterRow, WriterSteps
    <2>4. Rows
      BY <2>1, <2>3, <1>e, <1>f, RestRow, RowPut
    <2> QED
      BY <1>0, <1>1, <1>a, <1>b, <1>c, <1>d, <2>4 DEF LoadGrowth
  <1>2. ASSUME FileField PROVE TemplateTypeOK'
    <2>0. PICK p \in work[Growth].todo :
            /\ \E k \in AliasesFor(p, work[Growth].copy) :
                 growth' = [growth EXCEPT ![p] = [status |-> "pending", aliasOf |-> k]]
            /\ work' = [work EXCEPT ![Growth] =
                 IF work[Growth].todo \ {p} = {} THEN AtRest
                 ELSE [work[Growth] EXCEPT !.todo = work[Growth].todo \ {p}]]
      BY <1>2 DEF FileField
    <2>1. PICK k \in AliasesFor(p, work[Growth].copy) :
            growth' = [growth EXCEPT ![p] = [status |-> "pending", aliasOf |-> k]]
      BY <2>0
    <2>2. p \in Keys /\ k \in Keys \cup {NoKey}
      BY <1>e, RowIsRow, VocabularyRange DEF AliasesFor
    <2>3. Grows
      BY <2>1, <2>2 DEF TemplateTypeOK, GrowthRow
    <2>4. [work[Growth] EXCEPT !.todo = work[Growth].todo \ {p}] \in WriterRow
      BY <1>e, RowIsRow DEF WriterRow
    <2>5. Rows
      BY <2>0, <2>4, <1>e, <1>f, RestRow, RowPut
    <2> QED
      BY <1>0, <1>2, <1>a, <1>b, <1>d, <2>3, <2>5 DEF FileField
  <1>3. ASSUME NEW a \in Approvals, DecideField(a) PROVE TemplateTypeOK'
    <2>1. PICK p \in Keys, verdict \in {"accepted", "rejected"} :
            work' = [work EXCEPT ![a] =
              [AtRest EXCEPT !.step = IF verdict = "accepted" THEN "list" ELSE "resolve",
                             !.about = p, !.verdict = verdict]]
      BY <1>3 DEF DecideField
    <2>2. [AtRest EXCEPT !.step = IF verdict = "accepted" THEN "list" ELSE "resolve",
                         !.about = p, !.verdict = verdict] \in WriterRow
      BY DEF AtRest, WriterRow, WriterSteps
    <2>3. Rows
      BY <2>1, <2>2, <1>e, <1>f, RowPut
    <2> QED
      BY <1>0, <1>3, <1>a, <1>b, <1>c, <1>d, <2>3 DEF DecideField
  <1>4. ASSUME NEW a \in Approvals, LoadForApproval(a) PROVE TemplateTypeOK'
    <2> DEFINE step == IF work[a].about \in Vocabulary(template) THEN "resolve" ELSE "save"
    <2>1. [work[a] EXCEPT !.step = step, !.copy = template] \in WriterRow
      BY <1>e, <1>f, RowIsRow, RowRead DEF WriterSteps
    <2>2. Rows
      BY <1>4, <2>1, <1>e, <1>f, RowPut DEF LoadForApproval
    <2> QED
      BY <1>0, <1>4, <1>a, <1>b, <1>c, <1>d, <2>2 DEF LoadForApproval
  <1>5. ASSUME NEW a \in Approvals, SaveGrowth(a) PROVE TemplateTypeOK'
    <2> DEFINE p == work[a].about
               k == growth[p].aliasOf
               grown == Grown(work[a].copy, p, k)
               known == IF k \in KeysOf(work[a].copy) \cup {NoKey} THEN {} ELSE {p}
    <2>1. p \in Keys
      BY <1>5 DEF SaveGrowth, In, Decisions
    <2>2. k \in Keys \cup {NoKey}
      BY <2>1 DEF TemplateTypeOK
    <2>3. grown \subseteq Entries
      BY <2>1, <2>2, <1>e, RowIsRow, GrownKeeps
    <2>4. Row
      BY <1>5, <2>3, UpdateType DEF SaveGrowth
    <2>5. excused' \subseteq Keys
      BY <1>5, <2>1, ExcuseType DEF SaveGrowth
    <2>6. Rows
      BY <1>5, <1>e, GotoType DEF SaveGrowth, WriterSteps
    <2> QED
      BY <1>0, <1>5, <1>c, <1>d, <1>f, <2>4, <2>5, <2>6 DEF SaveGrowth
  <1>6. ASSUME NEW a \in Approvals, ResolveField(a) PROVE TemplateTypeOK'
    <2>1. work[a].about \in Keys /\ work[a].verdict \in {"accepted", "rejected"}
      BY <1>6 DEF ResolveField, In, Decisions
    <2>2. Grows
      BY <1>6, <2>1 DEF ResolveField, TemplateTypeOK, GrowthRow
    <2>3. Rows
      BY <1>6, <1>e, RestType DEF ResolveField
    <2> QED
      BY <1>0, <1>6, <1>a, <1>b, <1>d, <2>2, <2>3 DEF ResolveField
  <1>7. ASSUME NEW e \in Editors, LoadForEdit(e) PROVE TemplateTypeOK'
    <2>1. [AtRest EXCEPT !.step = "edit", !.copy = template] \in WriterRow
      BY <1>f DEF AtRest, WriterRow, WriterSteps
    <2>2. Rows
      BY <1>7, <2>1, <1>e, <1>f, RowPut DEF LoadForEdit
    <2> QED
      BY <1>0, <1>7, <1>a, <1>b, <1>c, <1>d, <2>2 DEF LoadForEdit
  <1>8. ASSUME NEW e \in Editors, SaveEdit(e) PROVE TemplateTypeOK'
    <2> DEFINE known == Vocabulary(work[e].copy)
    <2>1. PICK t \in Edited(work[e].copy) : UpdateKind(t) /\ Excuse(t, known, known)
      BY <1>8 DEF SaveEdit
    <2>2. t \subseteq Entries /\ known \subseteq Keys
      BY <1>e, RowIsRow, EditedRange, VocabularyRange
    <2>3. Row /\ excused' \subseteq Keys
      BY <2>1, <2>2, UpdateType, ExcuseType
    <2>4. Rows
      BY <1>8, <1>e, RestType DEF SaveEdit
    <2> QED
      BY <1>0, <1>8, <1>c, <1>d, <1>f, <2>3, <2>4 DEF SaveEdit
  <1>9. ASSUME NEW e \in Editors, UpdateCategory(e) PROVE TemplateTypeOK'
    <2> DEFINE known == Vocabulary(work[e].copy)
    <2>1. PICK t \in Edited(work[e].copy), given \in SUBSET Sorts, told \in BOOLEAN :
            UpdateKind(Passed(t, given, told)) /\ Excuse(Passed(t, given, told), known, known)
      BY <1>9 DEF UpdateCategory
    <2> DEFINE bare == Passed(t, given, told)
    <2>2. t \subseteq Entries /\ known \subseteq Keys
      BY <1>e, RowIsRow, EditedRange, VocabularyRange
    <2>3. bare \subseteq Entries
      <3>1. \A x \in t : /\ [x EXCEPT !.aliases = {}, !.declared = @ /\ told] \in Entries
                         /\ x \in Entries
        BY <2>2 DEF Entries
      <3> QED
        BY <3>1 DEF Passed
    <2>4. UpdateKind(bare) /\ Excuse(bare, known, known)
      BY <2>1
    <2> HIDE DEF bare
    <2>5. Row /\ excused' \subseteq Keys
      BY <2>2, <2>3, <2>4, UpdateType, ExcuseType
    <2>6. Rows
      BY <1>9, <1>e, RestType DEF UpdateCategory
    <2> QED
      BY <1>0, <1>9, <1>c, <1>d, <1>f, <2>5, <2>6 DEF UpdateCategory
  <1>10. ASSUME NEW s \in Sheets, OpenSheet(s) \/ ReadBare(s) PROVE TemplateTypeOK'
    <2>1. /\ [AtRest EXCEPT !.step = "shown", !.cols = columns] \in WriterRow
          /\ [AtRest EXCEPT !.step = "fill", !.copy = template] \in WriterRow
      BY <1>f DEF AtRest, WriterRow, WriterSteps
    <2>2. Rows
      BY <1>10, <2>1, <1>e, <1>f, RowPut DEF OpenSheet, ReadBare
    <2> QED
      BY <1>0, <1>10, <1>a, <1>b, <1>c, <1>d, <2>2 DEF OpenSheet, ReadBare
  <1>11. ASSUME NEW s \in Sheets, ReadTemplate(s) PROVE TemplateTypeOK'
    <2>1. [work[s] EXCEPT !.step = "sync", !.copy = template] \in WriterRow
      BY <1>e, <1>f, RowIsRow, RowRead DEF WriterSteps
    <2>2. Rows
      BY <1>11, <2>1, <1>e, <1>f, RowPut DEF ReadTemplate
    <2> QED
      BY <1>0, <1>11, <1>a, <1>b, <1>c, <1>d, <2>2 DEF ReadTemplate
  <1>12. ASSUME NEW s \in Sheets, SetColumns(s) PROVE TemplateTypeOK'
    <2> DEFINE copy == work[s].copy
    <2>1. PICK cols \in Rearranged(work[s].cols) :
            /\ template' = Synced(copy, cols) /\ columns' = cols
            /\ Excuse(Synced(copy, cols), NamesAt(work[s].cols \ cols, copy),
                      NamesAt((work[s].cols \ KeysOf(Relations(copy))) \cup Bookkeeping,
                              Fields(copy)))
      BY <1>12 DEF SetColumns, Synced
    <2>2. copy \subseteq Entries /\ work[s].cols \subseteq Keys \cup {LabelKey}
      BY <1>e, RowIsRow
    <2>3. cols \subseteq Keys \cup {LabelKey}
      BY <2>2 DEF Rearranged
    <2>4. Row
      BY <1>f, <2>1, <2>2, <2>3, SyncedRange
    <2>5. excused' \subseteq Keys
      BY <2>1, <2>2, NamesRange, ExcuseType
    <2>6. Rows
      BY <1>12, <1>e, RestType DEF SetColumns
    <2> QED
      BY <1>0, <1>12, <1>c, <1>d, <1>f, <2>4, <2>5, <2>6 DEF SetColumns
  <1>13. ASSUME NEW s \in Sheets, FillColumns(s) PROVE TemplateTypeOK'
    <2>1. columns' \subseteq Keys \cup {LabelKey}
      BY <1>13, <1>e, RowIsRow, ColumnsRange DEF FillColumns
    <2>2. crossed' \in BOOLEAN
      BY <1>13, <1>f DEF FillColumns
    <2>3. Rows
      BY <1>13, <1>e, RestType DEF FillColumns
    <2> QED
      BY <1>0, <1>13, <1>c, <1>d, <1>f, <2>1, <2>2, <2>3 DEF FillColumns, TemplateTypeOK
  <1>14. ASSUME NEW w \in Writers, ReadUndeclared(w) PROVE TemplateTypeOK'
    <2>1. [work[w] EXCEPT !.step = "patch", !.copy = template] \in WriterRow
      BY <1>f, RowIsRow, RowRead DEF WriterSteps
    <2>2. Rows
      BY <1>14, <2>1, <1>f, RowPut DEF ReadUndeclared
    <2> QED
      BY <1>0, <1>14, <1>a, <1>b, <1>c, <1>d, <2>2 DEF ReadUndeclared
  <1>15. ASSUME NEW w \in Writers, Patch(w) PROVE TemplateTypeOK'
    <2>1. work[w].copy \subseteq Entries
      BY RowIsRow
    <2>2. Row
      BY <1>15, <1>f, <2>1, DeclaredKeeps DEF Patch
    <2>3. excused' \subseteq Keys
      BY <1>15, ExcuseType DEF Patch
    <2>4. Rows
      BY <1>15, GotoType DEF Patch, WriterSteps
    <2>5. crossed' \in BOOLEAN
      BY <1>15, <1>f DEF Patch
    <2> QED
      BY <1>0, <1>15, <1>c, <1>d, <2>2, <2>3, <2>4, <2>5 DEF Patch
  <1>16. ASSUME NEW w \in Writers, Leaves(w) PROVE TemplateTypeOK'
    BY <1>0, <1>16, <1>a, <1>b, <1>c, <1>d, RestType DEF Leaves
  <1>17. ASSUME UNCHANGED templateVars PROVE TemplateTypeOK'
    BY <1>0, <1>17, <1>a, <1>b, <1>c, <1>d, <1>f DEF templateVars, row, ghosts
  <1> QED
    BY <1>1, <1>2, <1>3, <1>4, <1>5, <1>6, <1>7, <1>8, <1>9, <1>10, <1>11, <1>12, <1>13,
       <1>14, <1>15, <1>16, <1>17 DEF TemplateNext

-----------------------------------------------------------------------------
(* What is lost is accounted for.                                          *)

\* A save that follows its own read loses nothing without an account.
LEMMA SavedKeeps ==
  ASSUME NEW t, NEW known, NEW read, NEW p, Kept(p),
         template' = t, Excuse(t, known, read), p \in read => p \in known \cup Vocabulary(t)
  PROVE  Kept(p)'
  <1>1. excused' = excused \cup (known \ Vocabulary(t))
                           \cup (Vocabulary(template) \ (Vocabulary(t) \cup read))
    BY DEF Excuse
  <1>2. Vocabulary(template)' = Vocabulary(t)
    BY DEF Vocabulary, KeysOf
  <1> QED
    BY <1>1, <1>2 DEF Kept

LEMMA UnwrittenKeeps ==
  ASSUME NEW p, Kept(p), UNCHANGED <<template, excused>>
  PROVE  Kept(p)'
  BY DEF Kept, Vocabulary, KeysOf

\* No step loses a name without an account.
LEMMA NamesKept ==
  ASSUME TemplateTypeOK, Decisions, [TemplateNext]_templateVars, NEW p \in Keys, Kept(p)
  PROVE  Kept(p)'
  <1>e. Growth \in Writers /\ Approvals \subseteq Writers /\ Editors \subseteq Writers
        /\ Sheets \subseteq Writers
    BY DEF Writers
  <1>1. ASSUME NEW a \in Approvals, SaveGrowth(a) PROVE Kept(p)'
    <2> DEFINE q == work[a].about
               k == growth[q].aliasOf
               grown == Grown(work[a].copy, q, k)
               known == IF k \in KeysOf(work[a].copy) \cup {NoKey} THEN {} ELSE {q}
    <2>1. q \in Keys
      BY <1>1 DEF SaveGrowth, In, Decisions
    <2>2. k \in Keys \cup {NoKey}
      BY <2>1 DEF TemplateTypeOK
    <2>3. Vocabulary(work[a].copy) \subseteq Vocabulary(grown)
      BY <2>1, <2>2, <1>e, RowIsRow, GrownKeeps
    <2>4. template' = grown /\ Excuse(grown, known, Vocabulary(work[a].copy))
      BY <1>1 DEF SaveGrowth, UpdateKind
    <2> HIDE DEF grown, known
    <2> QED
      BY <2>3, <2>4, SavedKeeps
  <1>2. ASSUME NEW e \in Editors, SaveEdit(e) \/ UpdateCategory(e) PROVE Kept(p)'
    <2>1. PICK t : template' = t /\ Excuse(t, Vocabulary(work[e].copy), Vocabulary(work[e].copy))
      BY <1>2 DEF SaveEdit, UpdateCategory, UpdateKind
    <2> QED
      BY <2>1, SavedKeeps
  <1>3. ASSUME NEW s \in Sheets, SetColumns(s) PROVE Kept(p)'
    <2> DEFINE copy == work[s].copy
               old == work[s].cols
               read == NamesAt((old \ KeysOf(Relations(copy))) \cup Bookkeeping, Fields(copy))
    <2>1. PICK cols \in Rearranged(old) :
            /\ template' = Synced(copy, cols)
            /\ Excuse(Synced(copy, cols), NamesAt(old \ cols, copy), read)
      BY <1>3 DEF SetColumns, Synced
    <2>2. copy \subseteq Entries /\ old \subseteq Keys \cup {LabelKey}
      BY <1>e, RowIsRow
    <2>3. p \in read => p \in NamesAt(old \ cols, copy) \cup Vocabulary(Synced(copy, cols))
      BY <2>2, SyncedKeeps
    <2> HIDE DEF read
    <2> QED
      BY <2>1, <2>3, SavedKeeps
  <1>4. ASSUME NEW w \in Writers, Patch(w) PROVE Kept(p)'
    <2> DEFINE copy == work[w].copy
    <2>1. Vocabulary(Declared(copy)) = Vocabulary(copy)
      BY RowIsRow, DeclaredKeeps
    <2>2. template' = Declared(copy) /\ Excuse(copy, {}, Vocabulary(copy))
      BY <1>4 DEF Patch
    <2>3. Excuse(Declared(copy), {}, Vocabulary(copy))
      BY <2>1, <2>2 DEF Excuse
    <2> QED
      BY <2>1, <2>2, <2>3, SavedKeeps
  <1>5. ASSUME UNCHANGED <<template, excused>> PROVE Kept(p)'
    BY <1>5, UnwrittenKeeps
  <1>6. ASSUME NEW s \in Sheets, FillColumns(s) PROVE Kept(p)'
    BY <1>6, <1>5 DEF FillColumns
  <1>7. ASSUME UNCHANGED row /\ UNCHANGED ghosts PROVE Kept(p)'
    BY <1>7, <1>5 DEF row, ghosts
  <1> QED
    BY <1>1, <1>2, <1>3, <1>4, <1>6, <1>7
       DEF TemplateNext, templateVars, row, ghosts, LoadGrowth, FileField, DecideField,
           LoadForApproval, ResolveField, LoadForEdit, OpenSheet, ReadTemplate, ReadBare,
           ReadUndeclared, Leaves

\* Kept after the step.
StillKept(p) == p \in Vocabulary(template') \cup excused'

LEMMA KeptIsStillKept ==
  ASSUME NEW p
  PROVE  Kept(p)' <=> StillKept(p)
  BY DEF Kept, StillKept, Vocabulary, KeysOf

\* What one decision promises, told of its row.
Decided(r) ==
  r.step # "idle" => r.about \in Keys /\ r.verdict \in {"accepted", "rejected"}
ToRecord(r) == r.step = "resolve" /\ r.verdict = "accepted"

\* A step puts one row, and nobody's name is lost without an account.
LEMMA DecisionsStep ==
  ASSUME TemplateTypeOK, Decisions, \A p \in Keys : Kept(p) => StillKept(p),
         NEW w \in Writers, NEW r, work' = [work EXCEPT ![w] = r],
         w \in Approvals => Decided(r) /\ (ToRecord(r) => StillKept(r.about))
  PROVE  Decisions'
  <1>1. \A a \in Approvals : work'[a] = IF a = w THEN r ELSE work[a]
    BY DEF TemplateTypeOK, Writers
  <1>2. ASSUME NEW a \in Approvals
        PROVE  Decided(work'[a]) /\ (ToRecord(work'[a]) => StillKept(work'[a].about))
    <2>1. CASE a = w
      BY <1>1, <2>1
    <2>2. CASE a # w
      <3>1. work'[a] = work[a]
        BY <1>1, <2>2
      <3>2. Decided(work[a]) /\ (ToRecord(work[a]) => Kept(work[a].about))
        BY DEF Decisions, Decided, ToRecord
      <3>3. ToRecord(work[a]) => work[a].about \in Keys
        BY <3>2 DEF Decided, ToRecord
      <3> QED
        BY <3>1, <3>2, <3>3
    <2> QED
      BY <2>1, <2>2
  <1>3. Decisions' <=> \A a \in Approvals :
          Decided(work'[a]) /\ (ToRecord(work'[a]) => StillKept(work'[a].about))
    BY DEF Decisions, Decided, ToRecord, Kept, StillKept, Vocabulary, KeysOf
  <1> QED
    BY <1>2, <1>3

LEMMA RestDecides == Decided(AtRest) /\ ~ToRecord(AtRest)
  BY DEF AtRest, Decided, ToRecord

\* A step of an approval that goes on to a step other than the record.
LEMMA DecisionsGo ==
  ASSUME TemplateTypeOK, Decisions, NEW a \in Approvals, work[a].step # "idle"
  PROVE  Decided(work[a])
  BY DEF Decisions, Decided

LEMMA DecisionsKept ==
  ASSUME TemplateTypeOK, Decisions, [TemplateNext]_templateVars
  PROVE  Decisions'
  <1>a. \A p \in Keys : Kept(p) => StillKept(p)
    BY NamesKept, KeptIsStillKept
  <1>b. Growth \in Writers /\ Approvals \subseteq Writers /\ Editors \subseteq Writers
        /\ Sheets \subseteq Writers
    BY DEF Writers
  <1>c. /\ Growth \notin Approvals
        /\ \A e \in Editors : e \notin Approvals
        /\ \A s \in Sheets : s \notin Approvals
    BY TemplateAssumption
  <1>1. ASSUME LoadGrowth \/ FileField PROVE Decisions'
    <2>1. PICK r : work' = [work EXCEPT ![Growth] = r]
      BY <1>1 DEF LoadGrowth, FileField
    <2> QED
      BY <1>a, <1>b, <1>c, <2>1, DecisionsStep
  <1>2. ASSUME NEW e \in Editors, LoadForEdit(e) \/ SaveEdit(e) \/ UpdateCategory(e)
        PROVE  Decisions'
    <2>1. PICK r : work' = [work EXCEPT ![e] = r]
      BY <1>2 DEF LoadForEdit, SaveEdit, UpdateCategory, Rest
    <2> QED
      BY <1>a, <1>b, <1>c, <2>1, DecisionsStep
  <1>3. ASSUME NEW s \in Sheets,
               \/ OpenSheet(s) \/ ReadTemplate(s) \/ SetColumns(s)
               \/ ReadBare(s) \/ FillColumns(s)
        PROVE  Decisions'
    <2>1. PICK r : work' = [work EXCEPT ![s] = r]
      BY <1>3 DEF OpenSheet, ReadTemplate, SetColumns, ReadBare, FillColumns, Rest
    <2> QED
      BY <1>a, <1>b, <1>c, <2>1, DecisionsStep
  <1>4. ASSUME NEW a \in Approvals, DecideField(a) PROVE Decisions'
    <2>1. PICK p \in Keys, verdict \in {"accepted", "rejected"} :
            work' = [work EXCEPT ![a] =
              [AtRest EXCEPT !.step = IF verdict = "accepted" THEN "list" ELSE "resolve",
                             !.about = p, !.verdict = verdict]]
      BY <1>4 DEF DecideField
    <2> DEFINE r == [AtRest EXCEPT !.step = IF verdict = "accepted" THEN "list" ELSE "resolve",
                                   !.about = p, !.verdict = verdict]
    <2>2. Decided(r) /\ ~ToRecord(r)
      BY DEF AtRest, Decided, ToRecord
    <2> HIDE DEF r
    <2>3. work' = [work EXCEPT ![a] = r]
      BY <2>1 DEF r
    <2> QED
      BY <1>a, <1>b, <2>2, <2>3, DecisionsStep
  <1>5. ASSUME NEW a \in Approvals, LoadForApproval(a) PROVE Decisions'
    <2> DEFINE r == [work[a] EXCEPT !.step = IF work[a].about \in Vocabulary(template)
                                               THEN "resolve" ELSE "save",
                                    !.copy = template]
    <2>1. work[a].step # "idle"
      <3>1. a \notin Editors \cup {Growth}
        BY TemplateAssumption
      <3> QED
        BY <1>5, <3>1 DEF LoadForApproval, Listed, Lists, In
    <2>2. Decided(work[a]) /\ work[a].about \in Keys
      BY <2>1, DecisionsGo DEF Decided
    <2>3. /\ r.about = work[a].about /\ r.verdict = work[a].verdict
          /\ r.step = "resolve" => work[a].about \in Vocabulary(template)
      BY <1>b, RowIsRow DEF WriterRow
    <2>4. ToRecord(r) => StillKept(r.about)
      BY <1>a, <2>2, <2>3 DEF ToRecord, Kept
    <2>5. Decided(r)
      BY <2>1, <2>2, <2>3 DEF Decided
    <2>6. work' = [work EXCEPT ![a] = r]
      BY <1>5 DEF LoadForApproval
    <2> HIDE DEF r
    <2> QED
      BY <1>a, <1>b, <2>4, <2>5, <2>6, DecisionsStep
  <1>6. ASSUME NEW a \in Approvals, SaveGrowth(a) PROVE Decisions'
    <2> DEFINE r == [work[a] EXCEPT !.step = "resolve"]
               p == work[a].about
               k == growth[p].aliasOf
               grown == Grown(work[a].copy, p, k)
    <2>1. work[a].step # "idle" /\ p \in Keys
      BY <1>6 DEF SaveGrowth, In, Decisions
    <2>2. Decided(r) /\ r.about = p
      BY <2>1, <1>b, RowIsRow DEF Decisions, Decided, WriterRow
    <2>3. k \in Keys \cup {NoKey}
      BY <2>1 DEF TemplateTypeOK
    <2>4. k \in KeysOf(work[a].copy) \cup {NoKey} => p \in Vocabulary(grown)
      BY <2>1, <2>3, <1>b, RowIsRow, GrownKeeps
    <2>5. template' = grown
      BY <1>6 DEF SaveGrowth, UpdateKind
    <2>6. Excuse(grown, IF k \in KeysOf(work[a].copy) \cup {NoKey} THEN {} ELSE {p},
                 Vocabulary(work[a].copy))
      BY <1>6 DEF SaveGrowth
    <2> HIDE DEF grown
    <2>7. StillKept(p)
      BY <2>4, <2>5, <2>6 DEF StillKept, Excuse
    <2>8. work' = [work EXCEPT ![a] = r]
      BY <1>6 DEF SaveGrowth, Goto
    <2> HIDE DEF r, p, k
    <2> QED
      BY <1>a, <1>b, <2>2, <2>7, <2>8, DecisionsStep
  <1>7. ASSUME NEW a \in Approvals, ResolveField(a) PROVE Decisions'
    BY <1>7, <1>a, <1>b, RestDecides, DecisionsStep DEF ResolveField, Rest
  <1>8. ASSUME NEW w \in Writers, Leaves(w) PROVE Decisions'
    BY <1>8, <1>a, RestDecides, DecisionsStep DEF Leaves, Rest
  <1>9. ASSUME NEW w \in Writers, ReadUndeclared(w) PROVE Decisions'
    <2> DEFINE r == [work[w] EXCEPT !.step = "patch", !.copy = template]
    <2>1. w \in Approvals => work[w].step # "idle"
      <3>1. w \in Approvals => w \notin Editors \cup {Growth}
        BY TemplateAssumption
      <3> QED
        BY <1>9, <3>1 DEF ReadUndeclared, Lists, In
    <2>2. r.step = "patch" /\ r.about = work[w].about /\ r.verdict = work[w].verdict
      BY RowIsRow DEF WriterRow
    <2>3. w \in Approvals => Decided(r) /\ ~ToRecord(r)
      BY <2>1, <2>2, DecisionsGo DEF Decided, ToRecord
    <2>4. work' = [work EXCEPT ![w] = r]
      BY <1>9 DEF ReadUndeclared
    <2> HIDE DEF r
    <2> QED
      BY <1>a, <2>3, <2>4, DecisionsStep
  <1>10. ASSUME NEW w \in Writers, Patch(w) PROVE Decisions'
    <2> DEFINE r == [work[w] EXCEPT !.step = "load"]
    <2>1. work[w].step # "idle"
      BY <1>10 DEF Patch, In
    <2>2. r.step = "load" /\ r.about = work[w].about /\ r.verdict = work[w].verdict
      BY RowIsRow DEF WriterRow
    <2>3. w \in Approvals => Decided(r) /\ ~ToRecord(r)
      BY <2>1, <2>2, DecisionsGo DEF Decided, ToRecord
    <2>4. work' = [work EXCEPT ![w] = r]
      BY <1>10 DEF Patch, Goto
    <2> HIDE DEF r
    <2> QED
      BY <1>a, <2>3, <2>4, DecisionsStep
  <1>11. ASSUME UNCHANGED templateVars PROVE Decisions'
    BY <1>11 DEF templateVars, Decisions, Kept, Vocabulary, KeysOf
  <1> QED
    BY <1>1, <1>2, <1>3, <1>4, <1>5, <1>6, <1>7, <1>8, <1>9, <1>10, <1>11 DEF TemplateNext
-----------------------------------------------------------------------------
(* The two invariants.                                                     *)

\* A review becomes accepted only when its decision is recorded.
LEMMA AcceptedStep ==
  ASSUME TemplateTypeOK, Decisions, AcceptedGrows, [TemplateNext]_templateVars
  PROVE  AcceptedGrows'
  <1>a. \A p \in Keys : Kept(p) => StillKept(p)
    BY NamesKept, KeptIsStillKept
  <1>b. \A p \in Keys : growth[p].status = "accepted" => Kept(p)
    BY DEF AcceptedGrows, Kept
  <1>c. (\A p \in Keys : growth'[p].status = "accepted" => StillKept(p)) => AcceptedGrows'
    BY DEF AcceptedGrows, StillKept, Vocabulary, KeysOf
  <1>1. ASSUME UNCHANGED growth PROVE AcceptedGrows'
    BY <1>1, <1>a, <1>b, <1>c
  <1>2. ASSUME FileField PROVE AcceptedGrows'
    <2>1. PICK q \in work[Growth].todo, k \in Keys \cup {NoKey} :
            growth' = [growth EXCEPT ![q] = [status |-> "pending", aliasOf |-> k]]
      <3>1. work[Growth].copy \subseteq Entries
        BY RowIsRow DEF Writers
      <3> QED
        BY <1>2, <3>1, VocabularyRange DEF FileField, AliasesFor
    <2>2. \A p \in Keys : growth'[p].status = "accepted" => growth[p].status = "accepted"
      BY <2>1 DEF TemplateTypeOK
    <2> QED
      BY <2>2, <1>a, <1>b, <1>c
  <1>3. ASSUME NEW a \in Approvals, ResolveField(a) PROVE AcceptedGrows'
    <2> DEFINE q == work[a].about
    <2>1. /\ q \in Keys
          /\ work[a].verdict = "accepted" => Kept(q)
      BY <1>3 DEF ResolveField, In, Decisions
    <2>2. growth' = [growth EXCEPT ![q] = [@ EXCEPT !.status = work[a].verdict]]
      BY <1>3 DEF ResolveField
    <2>3. \A p \in Keys : growth'[p].status = "accepted" => Kept(p)
      <3>1. growth'[q].status = work[a].verdict
        BY <2>1, <2>2 DEF TemplateTypeOK
      <3>2. \A p \in Keys \ {q} : growth'[p] = growth[p]
        BY <2>1, <2>2 DEF TemplateTypeOK
      <3> QED
        BY <2>1, <3>1, <3>2, <1>b
    <2> QED
      BY <2>3, <1>a, <1>c
  <1> QED
    BY <1>1, <1>2, <1>3
       DEF TemplateNext, templateVars, LoadGrowth, DecideField, LoadForApproval, SaveGrowth,
           LoadForEdit, SaveEdit, UpdateCategory, OpenSheet, ReadTemplate, SetColumns,
           ReadBare, FillColumns, ReadUndeclared, Patch, Leaves

\* Every field of t that is shown has its column.
Covered(t, cols) == KeysOf(Fields(t)) \ Bookkeeping \subseteq cols

LEMMA UpdateCovers ==
  ASSUME NEW t
  PROVE  Covered(t, ColumnsFromTemplate(t))
  BY DEF Covered, ColumnsFromTemplate

\* The fields and the columns are written together, or half of the row is
\* written from a read of the other half that is still true, or that is crossed.
LEMMA LockstepStep ==
  ASSUME TemplateTypeOK, FieldsHaveColumns, [TemplateNext]_templateVars
  PROVE  FieldsHaveColumns'
  <1>a. (columns' # {} /\ ~crossed' => Covered(template', columns')) => FieldsHaveColumns'
    BY DEF FieldsHaveColumns, Covered, KeysOf, Fields
  <1>b. columns # {} /\ ~crossed => Covered(template, columns)
    BY DEF FieldsHaveColumns, Covered
  <1>1. ASSUME NEW t, UpdateKind(t) PROVE FieldsHaveColumns'
    BY <1>1, <1>a, UpdateCovers DEF UpdateKind
  <1>2. ASSUME NEW s \in Sheets, SetColumns(s) PROVE FieldsHaveColumns'
    <2>1. PICK cols \in Rearranged(work[s].cols) :
            template' = Synced(work[s].copy, cols) /\ columns' = cols
      BY <1>2 DEF SetColumns, Synced
    <2>2. work[s].copy \subseteq Entries /\ work[s].cols \subseteq Keys \cup {LabelKey}
      BY RowIsRow DEF Writers
    <2>3. cols \subseteq Keys \cup {LabelKey}
      BY <2>2 DEF Rearranged
    <2>4. Covered(Synced(work[s].copy, cols), cols)
      BY <2>2, <2>3, SyncedRange DEF TemplateTypeOK, Covered
    <2> QED
      BY <2>1, <2>4, <1>a
  <1>3. ASSUME NEW s \in Sheets, FillColumns(s) PROVE FieldsHaveColumns'
    <2>1. ~crossed' => work[s].copy = template
      BY <1>3 DEF FillColumns
    <2>2. columns' = ColumnsFromTemplate(work[s].copy) /\ template' = template
      BY <1>3 DEF FillColumns
    <2> QED
      BY <2>1, <2>2, <1>a, UpdateCovers
  <1>4. ASSUME NEW w \in Writers, Patch(w) PROVE FieldsHaveColumns'
    <2>1. ~crossed' => ~crossed /\ work[w].copy = template
      BY <1>4 DEF Patch
    <2>2. template' = Declared(work[w].copy) /\ columns' = columns
      BY <1>4 DEF Patch
    <2>3. KeysOf(Fields(Declared(work[w].copy))) = KeysOf(Fields(work[w].copy))
      BY RowIsRow, DeclaredKeeps
    <2> QED
      BY <2>1, <2>2, <2>3, <1>a, <1>b DEF Covered
  <1>5. ASSUME UNCHANGED row, UNCHANGED ghosts PROVE FieldsHaveColumns'
    BY <1>5, <1>a, <1>b DEF row, ghosts
  <1> QED
    BY <1>1, <1>2, <1>3, <1>4, <1>5
       DEF TemplateNext, templateVars, row, ghosts, LoadGrowth, FileField, DecideField,
           LoadForApproval, SaveGrowth, ResolveField, LoadForEdit, SaveEdit, UpdateCategory,
           OpenSheet, ReadTemplate, ReadBare, ReadUndeclared, Leaves

LEMMA TemplateInvInit == TemplateInit => TemplateInv
  <1> SUFFICES ASSUME TemplateInit PROVE TemplateInv
    OBVIOUS
  <1>1. Decisions
    BY DEF TemplateInit, Decisions, AtRest, Writers
  <1>2. FieldsHaveColumns
    BY UpdateCovers DEF TemplateInit, FieldsHaveColumns, Covered
  <1>3. AcceptedGrows
    BY DEF TemplateInit, AcceptedGrows, Unasked
  <1> QED
    BY <1>1, <1>2, <1>3, TypesInit DEF TemplateInv

LEMMA TemplateInvStep == TemplateInv /\ [TemplateNext]_templateVars => TemplateInv'
  BY TypesStep, DecisionsKept, AcceptedStep, LockstepStep DEF TemplateInv

LEMMA TemplateInvHolds == TemplateSpec => []TemplateInv
  BY TemplateInvInit, TemplateInvStep, PTL DEF TemplateSpec

\* The row of a kind and everybody at work on it stay in their types, for every
\* set of keys and every number of approvals, editors and tables (kinds.ts,
\* datasets.ts, reviews.ts).
THEOREM TemplateTypesHold == TemplateSpec => []TemplateTypeOK
  <1>1. TemplateInv => TemplateTypeOK
    BY DEF TemplateInv
  <1> QED
    BY <1>1, TemplateInvHolds, PTL

\* setColumns and updateKind keep the columns and the fields of a kind in
\* lockstep (datasets.ts, kinds.ts), for every number of writers: every field
\* that is shown has its column, unless half of the row was written over a
\* newer other half.
THEOREM FieldsAreShown == TemplateSpec => []FieldsHaveColumns
  <1>1. TemplateInv => FieldsHaveColumns
    BY DEF TemplateInv
  <1> QED
    BY <1>1, TemplateInvHolds, PTL

\* What an accepted field_proposal added (reviews.ts) stays in the vocabulary of
\* the kind through every edit, patch and change of columns, for every number of
\* writers, except for the losses Excuse accounts for.
THEOREM AcceptedStays == TemplateSpec => []AcceptedGrows
  <1>1. TemplateInv => AcceptedGrows
    BY DEF TemplateInv
  <1> QED
    BY <1>1, TemplateInvHolds, PTL
===============================================================================
