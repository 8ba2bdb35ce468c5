---------------------------- MODULE ReconcileFacts ----------------------------
(***************************************************************************)
(* reconcileExtraction (lib/datamodo/reconcile-core.ts): what the model    *)
(* said about one message is settled before it is folded into the store.   *)
(* The functions are operators on sequences; a behaviour takes one         *)
(* extraction and reconciles it twice.                                     *)
(***************************************************************************)
EXTENDS Integers, Sequences, FiniteSets

CONSTANTS
  LocalIds, Predicates, Literals,
  EntityLists,  \* lists of entities a message may be said to have
  FactPool,     \* facts it may be said to state
  MaxFacts,     \* bound: facts of an extraction
  Registry      \* Registry[kind][predicate]: "one", "many" or "none"

\* A value is an entity reference or a literal.  Form "raw" is a spelling that
\* normalizeFactValue changes (an unpadded date, a unit's synonym, a tracked
\* URL), "upper" one that only valueSlot ignores, "blank" an unusable value.
Value == [kind : {"entity", "literal"}, of : LocalIds \cup Literals,
          form : {"clean", "raw", "upper", "blank"}]
Entity == [id : LocalIds, kind : DOMAIN Registry, labelled : BOOLEAN]
Fact == [subject : LocalIds, predicate : Predicates, value : Value,
         card : {"unset", "one", "many"}, conf : Nat]
Extraction == [entities : Seq(Entity), facts : Seq(Fact)]

ASSUME ReconcileAssumption ==
  /\ MaxFacts \in Nat
  /\ EntityLists \subseteq Seq(Entity)
  /\ FactPool \subseteq Fact

VARIABLES
  said,     \* the extraction as the model said it: [entities, facts]
  settled1, \* what the last pass was given
  settled2, \* what it returned
  passes

reconcileVars == <<said, settled1, settled2, passes>>

-----------------------------------------------------------------------------
\* for (const x of s): what each round of the loop has made of an empty list.
Rounds(Round(_, _), s) ==
  LET built[n \in 0..Len(s)] ==
        IF n = 0 THEN << >> ELSE Round(built[n - 1], s[n])
  IN built
Loop(Round(_, _), s) == Rounds(Round, s)[Len(s)]

Normalized(f) ==
  IF f.value.form = "raw" THEN [f EXCEPT !.value = [@ EXCEPT !.form = "clean"]] ELSE f

ValueSlot(v) == <<v.kind, v.of, v.form = "raw">>
SlotOf(f) == <<f.subject, f.predicate>>

\* One entity for a local id, the first with a label.
KeepEntity(kept, e) ==
  IF e.labelled /\ ~\E n \in DOMAIN kept : kept[n].id = e.id
    THEN Append(kept, e) ELSE kept
Entities(list) == Loop(KeepEntity, list)

KindIn(entities, id) ==
  entities[CHOOSE n \in DOMAIN entities : entities[n].id = id].kind

\* Facts with known references, not to their own subject, and a usable value.
Usable(entities, f) ==
  LET known == {entities[n].id : n \in DOMAIN entities}
  IN /\ f.subject \in known
     /\ f.value.kind = "entity" => f.value.of \in known \ {f.subject}
     /\ f.value.form # "blank"

KeepFact(entities, referenced, f) ==
  IF Usable(entities, f) THEN Append(referenced, Normalized(f)) ELSE referenced
Referenced(entities, facts) ==
  Loop(LAMBDA referenced, f : KeepFact(entities, referenced, f), facts)

\* Mutant: a new slot goes to the front.
SlotOrderReversed(facts) ==
  Loop(LAMBDA slots, f : IF \E n \in DOMAIN slots : slots[n] = SlotOf(f)
                           THEN slots ELSE <<SlotOf(f)>> \o slots, facts)

\* The slots in the order of their first fact, and the facts of a slot.
AddSlot(slots, f) ==
  IF \E n \in DOMAIN slots : slots[n] = SlotOf(f) THEN slots
                                                 ELSE Append(slots, SlotOf(f))
SlotOrder(facts) == Loop(AddSlot, facts)

AddToGroup(slot, group, f) == IF SlotOf(f) = slot THEN Append(group, f) ELSE group
Group(slot, facts) == Loop(LAMBDA group, f : AddToGroup(slot, group, f), facts)

Larger(a, b) == IF a > b THEN a ELSE b

\* A repeat of a value: the highest confidence, "many" if either says so.
MergeInto(prev, f) ==
  [prev EXCEPT !.conf = Larger(@, f.conf), !.card = IF f.card = "many" THEN "many" ELSE @]

AddValue(distinct, f) ==
  LET same == {n \in DOMAIN distinct :
                 ValueSlot(distinct[n].value) = ValueSlot(f.value)}
  IN IF same = {} THEN Append(distinct, f)
     ELSE LET n == CHOOSE n \in same : TRUE
          IN [distinct EXCEPT ![n] = MergeInto(@, f)]
Collapse(group) == Loop(AddValue, group)

\* Mutant: the last of the equally confident values wins.
MostConfidentLast(distinct) ==
  distinct[CHOOSE n \in DOMAIN distinct :
             \A k \in DOMAIN distinct :
               \/ distinct[k].conf < distinct[n].conf
               \/ distinct[k].conf = distinct[n].conf /\ k <= n]

\* A stable sort by confidence, and its head.
MostConfident(distinct) ==
  distinct[CHOOSE n \in DOMAIN distinct :
             \A k \in DOMAIN distinct :
               \/ distinct[k].conf < distinct[n].conf
               \/ distinct[k].conf = distinct[n].conf /\ n <= k]

\* A declared list, a list by the model's word, or several values at once.
IsList(declared, distinct) ==
  \/ declared = "many"
  \/ \E n \in DOMAIN distinct : distinct[n].card = "many"
  \/ Len(distinct) > 1

Settle(declared, distinct) ==
  IF declared = "one"
    THEN LET best == MostConfident(distinct)
         IN <<[best EXCEPT !.card = IF @ = "many" THEN "one" ELSE @]>>
  ELSE IF IsList(declared, distinct)
    THEN [n \in DOMAIN distinct |-> [distinct[n] EXCEPT !.card = "many"]]
  ELSE distinct

DeclaredFor(entities, slot) == Registry[KindIn(entities, slot[1])][slot[2]]
Settled(entities, facts, slot) ==
  Settle(DeclaredFor(entities, slot), Collapse(Group(slot, facts)))

Reconcile(x) ==
  LET entities == Entities(x.entities)
      facts == Referenced(entities, x.facts)
  IN [entities |-> entities,
      facts |-> Loop(LAMBDA done, slot : done \o Settled(entities, facts, slot),
                     SlotOrder(facts))]

-----------------------------------------------------------------------------
ReconcileInit ==
  /\ said \in [entities : EntityLists,
               facts : UNION {[1..n -> FactPool] : n \in 0..MaxFacts}]
  /\ settled1 = said
  /\ settled2 = said
  /\ passes = 0

ReconcilePass ==
  /\ passes < 2
  /\ passes' = passes + 1
  /\ settled1' = settled2
  /\ settled2' = Reconcile(settled2)
  /\ UNCHANGED said

ReconcileNext == ReconcilePass

ReconcileSpec == ReconcileInit /\ [][ReconcileNext]_reconcileVars

-----------------------------------------------------------------------------
ReconcileTypeOK ==
  /\ {said, settled1, settled2} \subseteq Extraction
  /\ passes \in 0..2

\* "Two values arriving in the SAME message are never a change over time"
\* (reconcile-core.ts): what the passage promises, as sets.  Of every slot the
\* model spoke of, one value when it is declared single (the most confident,
\* the first said of those), else every value that was said, at the highest
\* confidence it got.
Promised ==
  LET entities == Entities(said.entities)
      usable == {n \in DOMAIN said.facts : Usable(entities, said.facts[n])}
      fact(n) == Normalized(said.facts[n])
      same(n) == {k \in usable : /\ SlotOf(fact(k)) = SlotOf(fact(n))
                                 /\ ValueSlot(fact(k).value) = ValueSlot(fact(n).value)}
      firsts == {n \in usable : \A k \in same(n) : n <= k}
      best(n) == CHOOSE c \in {fact(k).conf : k \in same(n)} :
                   \A k \in same(n) : fact(k).conf <= c
      rivals(n) == {k \in firsts : SlotOf(fact(k)) = SlotOf(fact(n))}
      wins(n) == \A k \in rivals(n) : best(k) < best(n) \/ (best(k) = best(n) /\ n <= k)
  IN {<<SlotOf(fact(n)), fact(n).value, best(n)>> :
        n \in {n \in firsts : DeclaredFor(entities, SlotOf(fact(n))) = "one" => wins(n)}}

\* reconcileExtraction returns what was promised, each fact once.
ReconcileMeetsReference ==
  passes = 1 =>
    /\ {<<SlotOf(settled2.facts[n]), settled2.facts[n].value, settled2.facts[n].conf>> :
          n \in DOMAIN settled2.facts} = Promised
    /\ Len(settled2.facts) = Cardinality(Promised)

\* A second pass changes nothing, not even the order.
ReconcileIsStable == passes = 2 => settled2 = settled1
===============================================================================
