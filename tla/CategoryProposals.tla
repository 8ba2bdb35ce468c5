--------------------------- MODULE CategoryProposals ---------------------------
(***************************************************************************)
(* The categories of one organisation (lib/datamodo/kinds.ts) and the      *)
(* reviews that propose new ones.  Extraction runs and Obsidian imports    *)
(* look for an earlier proposal and then file one, seconds later; users    *)
(* accept, reject, add and delete categories meanwhile.                    *)
(***************************************************************************)
EXTENDS Integers, Sequences, FiniteSets

CONSTANTS
  Kinds,      \* kinds the builtin registry does not know
  Runs,       \* extraction runs that may be live at once
  Imports,    \* Obsidian imports that may be live at once
  Deciders,   \* accept and reject calls that may be live at once
  ProposeAt,  \* PROPOSE_KIND_AT
  MaxFiled    \* bound: entities of a kind that are counted

Filers == Runs \cup Imports

ASSUME CategoryAssumption ==
  /\ IsFiniteSet(Filers) /\ Runs \cap Imports = {}
  /\ ProposeAt \in Nat /\ MaxFiled \in Nat /\ ProposeAt <= MaxFiled

VARIABLES
  registered,  \* kinds with a row in the table kinds
  removed,     \* ghost: kinds a user has deleted
  sightings,   \* entities of a kind that are not merged away
  asked,       \* the category_proposal reviews: [kind, status]
  filer,       \* of a run or import: [step, todo (candidates left), kind]
  decider      \* of a decision: [step, review, verdict]

categoryVars == <<registered, removed, sightings, asked, filer, decider>>
registry == <<registered, removed>>

NoFiler == [step |-> "idle", todo |-> {}, kind |-> "none"]
NoDecision == [step |-> "idle", review |-> 0, verdict |-> "none"]
Filing(f, step) == filer[f].step = step
Deciding(d, step) == decider[d].step = step

CategoryInit ==
  /\ registered \in SUBSET Kinds
  /\ removed = {}
  /\ sightings = [k \in Kinds |-> 0]
  /\ asked = << >>
  /\ filer = [f \in Filers |-> NoFiler]
  /\ decider = [d \in Deciders |-> NoDecision]

\* Back to the loop over the candidates, or out of it.
BackToLoop(todo) ==
  IF todo = {} THEN NoFiler ELSE [step |-> "loop", todo |-> todo, kind |-> "none"]
Skip(f) == filer' = [filer EXCEPT ![f] = BackToLoop(filer[f].todo)]

-----------------------------------------------------------------------------
\* Other extractions create entities of the kind, merges take some away.
EntitiesChange ==
  \E k \in Kinds, n \in {-1, 1} :
    /\ sightings[k] + n \in 0..MaxFiled
    /\ sightings' = [sightings EXCEPT ![k] = @ + n]
    /\ UNCHANGED <<registry, asked, filer, decider>>

\* A run has loaded the registry, or failed to and goes on with an empty one,
\* and extracted; unregisteredKinds keeps what that registry does not know.
RunProposes(f) ==
  /\ f \in Runs /\ Filing(f, "idle")
  /\ \E known \in {registered, {}} : \E todo \in (SUBSET (Kinds \ known)) \ {{}} :
       filer' = [filer EXCEPT ![f] = BackToLoop(todo)]
  /\ UNCHANGED <<registry, sightings, asked, decider>>

\* The folders of an import announce kinds, whether registered or not.
ImportProposes(f) ==
  /\ f \in Imports /\ Filing(f, "idle")
  /\ \E todo \in (SUBSET Kinds) \ {{}} :
       filer' = [filer EXCEPT ![f] = BackToLoop(todo)]
  /\ UNCHANGED <<registry, sightings, asked, decider>>

\* A run counts the entities of a candidate; an import does not.
TakeCandidate(f) ==
  \E k \in filer[f].todo :
    LET rest == filer[f].todo \ {k}
    IN /\ Filing(f, "loop")
       /\ filer' = [filer EXCEPT ![f] =
                      IF f \in Imports \/ sightings[k] >= ProposeAt
                        THEN [step |-> "look", todo |-> rest, kind |-> k]
                        ELSE BackToLoop(rest)]
       /\ UNCHANGED <<registry, sightings, asked, decider>>

\* Mutant: only a pending proposal counts as an earlier one.
PriorPending(k) ==
  \E n \in DOMAIN asked : asked[n].kind = k /\ asked[n].status = "pending"

\* "Any-status dedupe": whatever the user decided stands.
Prior(k) == \E n \in DOMAIN asked : asked[n].kind = k

LookForPrior(f) ==
  /\ Filing(f, "look")
  /\ IF Prior(filer[f].kind) THEN Skip(f)
     ELSE filer' = [filer EXCEPT ![f] = [filer[f] EXCEPT !.step = "draft"]]
  /\ UNCHANGED <<registry, sightings, asked, decider>>

\* The template is drafted (or not: then it is empty) and the review filed.
FileProposal(f) ==
  /\ Filing(f, "draft")
  /\ asked' = Append(asked, [kind |-> filer[f].kind, status |-> "pending"])
  /\ Skip(f)
  /\ UNCHANGED <<registry, sightings, decider>>

\* A statement throws: a run gives up all its candidates ("callers swallow
\* errors"), an import goes on with the next folder.  Either may die.
FilerFails(f) ==
  /\ ~Filing(f, "idle")
  /\ \/ f \in Imports /\ ~Filing(f, "loop") /\ Skip(f)
     \/ filer' = [filer EXCEPT ![f] = NoFiler]
  /\ UNCHANGED <<registry, sightings, asked, decider>>

-----------------------------------------------------------------------------
\* loadPending of acceptReview or rejectReview.
Decide(d) ==
  \E n \in DOMAIN asked, v \in {"accepted", "rejected"} :
    /\ Deciding(d, "idle")
    /\ asked[n].status = "pending"
    /\ decider' = [decider EXCEPT ![d] =
         [step |-> IF v = "accepted" THEN "create" ELSE "resolve",
          review |-> n, verdict |-> v]]
    /\ UNCHANGED <<registry, sightings, asked, filer>>

\* createKind; a violation of kinds_org_kind_uq (P2002) is swallowed.
CreateAccepted(d) ==
  /\ Deciding(d, "create")
  /\ registered' = registered \cup {asked[decider[d].review].kind}
  /\ decider' = [decider EXCEPT ![d] = [decider[d] EXCEPT !.step = "resolve"]]
  /\ UNCHANGED <<removed, sightings, asked, filer>>

\* Mutant: every error of createKind is swallowed.
AfterErrorResolves(d) == [decider[d] EXCEPT !.step = "resolve"]

\* Any other error is thrown on, and the review stays pending.
AfterError(d) == NoDecision

CreateFails(d) ==
  /\ Deciding(d, "create")
  /\ decider' = [decider EXCEPT ![d] = AfterError(d)]
  /\ UNCHANGED <<registry, sightings, asked, filer>>

ResolveProposal(d) ==
  /\ Deciding(d, "resolve")
  /\ asked' = [asked EXCEPT ![decider[d].review] =
                  [kind |-> asked[decider[d].review].kind, status |-> decider[d].verdict]]
  /\ decider' = [decider EXCEPT ![d] = NoDecision]
  /\ UNCHANGED <<registry, sightings, filer>>

DeciderDies(d) ==
  /\ Deciding(d, "resolve")
  /\ decider' = [decider EXCEPT ![d] = NoDecision]
  /\ UNCHANGED <<registry, sightings, asked, filer>>

\* createKind and deleteKind by hand (dashboard, MCP).
UserCreates ==
  \E k \in Kinds \ registered :
    /\ registered' = registered \cup {k}
    /\ UNCHANGED <<removed, sightings, asked, filer, decider>>

UserDeletes ==
  \E k \in registered :
    /\ registered' = registered \ {k}
    /\ removed' = removed \cup {k}
    /\ UNCHANGED <<sightings, asked, filer, decider>>

CategoryNext ==
  \/ EntitiesChange \/ UserCreates \/ UserDeletes
  \/ \E f \in Filers :
       \/ RunProposes(f) \/ ImportProposes(f) \/ TakeCandidate(f)
       \/ LookForPrior(f) \/ FileProposal(f) \/ FilerFails(f)
  \/ \E d \in Deciders :
       \/ Decide(d) \/ CreateAccepted(d) \/ CreateFails(d)
       \/ ResolveProposal(d) \/ DeciderDies(d)

CategorySpec == CategoryInit /\ [][CategoryNext]_categoryVars

-----------------------------------------------------------------------------
CategoryTypeOK ==
  /\ registered \subseteq Kinds /\ removed \subseteq Kinds
  /\ sightings \in [Kinds -> 0..MaxFiled]
  /\ asked \in Seq([kind : Kinds, status : {"pending", "accepted", "rejected"}])
  /\ \A f \in Filers :
       /\ filer[f].step \in {"idle", "loop", "look", "draft"}
       /\ filer[f].todo \subseteq Kinds
       /\ filer[f].kind \in Kinds \cup {"none"}
  /\ \A d \in Deciders :
       /\ decider[d].step \in {"idle", "create", "resolve"}
       /\ decider[d].review \in 0..Len(asked)

\* "A kind is only ever proposed once" (kinds.ts) holds up to the runs that
\* overlap: never more proposals than callers that can be between the look and
\* the filing at once, over the whole history and whatever was decided.
CategoryAskedBounded ==
  \A k \in Kinds :
    Cardinality({n \in DOMAIN asked : asked[n].kind = k}) <= Cardinality(Filers)

\* An accepted proposal has its category, unless a user has deleted it, though
\* acceptReview swallows an error of createKind.
AcceptedIsRegistered ==
  \A n \in DOMAIN asked :
    asked[n].status = "accepted" => asked[n].kind \in registered \cup removed
===============================================================================
