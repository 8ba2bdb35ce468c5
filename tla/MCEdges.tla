------------------------------- MODULE MCEdges --------------------------------
(***************************************************************************)
(* The parts at the edge of the system, checked in one run.  They do not   *)
(* interact, so a behaviour moves one of them, the focus, and leaves the   *)
(* others in one initial state: the run is the union of theirs.            *)
(***************************************************************************)
EXTENDS ChannelInbox, CategoryProposals, RoutingLearn, SpendingCap,
        ReconcileFacts, KindTemplate

EdgeEntity(id, kind, labelled) == [id |-> id, kind |-> kind, labelled |-> labelled]
Literal(of, form) == [kind |-> "literal", of |-> of, form |-> form]
Reference(id) == [kind |-> "entity", of |-> id, form |-> "clean"]
EdgeFact(subject, predicate, value, card, conf) ==
  [subject |-> subject, predicate |-> predicate, value |-> value, card |-> card,
   conf |-> conf]

\* Two entities; one whose first definition has no label; one defined twice.
EdgeEntityLists == {
  <<EdgeEntity("e1", "paper", TRUE), EdgeEntity("e2", "person", TRUE)>>,
  <<EdgeEntity("e1", "paper", FALSE), EdgeEntity("e1", "person", TRUE),
    EdgeEntity("e2", "person", TRUE)>>,
  <<EdgeEntity("e1", "paper", TRUE), EdgeEntity("e1", "person", TRUE)>>}

EdgeRegistry == [
  paper  |-> [year |-> "one",  author |-> "many", note |-> "none"],
  person |-> [year |-> "none", author |-> "one",  note |-> "none"]]

EdgeFacts == {
  EdgeFact("e1", "year", Literal("x", "clean"), "unset", 1),
  EdgeFact("e1", "year", Literal("y", "clean"), "many", 2),
  EdgeFact("e1", "year", Literal("x", "raw"), "unset", 2),
  EdgeFact("e1", "year", Literal("x", "upper"), "one", 2),
  EdgeFact("e1", "note", Literal("x", "clean"), "unset", 1),
  EdgeFact("e1", "note", Literal("y", "raw"), "one", 2),
  EdgeFact("e1", "note", Literal("y", "clean"), "many", 1),
  EdgeFact("e1", "note", Literal("y", "blank"), "unset", 1),
  EdgeFact("e1", "author", Reference("e2"), "unset", 1),
  EdgeFact("e1", "author", Reference("e1"), "unset", 1),
  EdgeFact("e2", "author", Reference("e9"), "one", 1),
  EdgeFact("e2", "author", Reference("e1"), "one", 2)}

\* A kind from before cardinalities were declared, and one without a template.
EdgeSeeds == {{Entry("amount", "field")}, {}}
EdgeUsages == {[amount |-> 1, total |-> 4, size |-> 3]}
EdgeAlike == {<<"total", "amount">>}

VARIABLE focus

vars == <<focus, inboxVars, categoryVars, learnVars, capVars, reconcileVars,
          templateVars>>
Parts == {"link", "reply", "category", "learn", "cap", "reconcile", "template"}

\* A part varies its initial state only when the focus is on it.
Init ==
  /\ focus \in Parts
  /\ InboxInit /\ (focus = "link" \/ bound = Handles)
  /\ CategoryInit /\ (focus = "category" \/ registered = {})
  /\ LearnInit
  /\ CapInit /\ (focus = "cap" \/ ledger = 0)
  /\ ReconcileInit
  /\ \/ focus = "reconcile"
     \/ said = [entities |-> CHOOSE list \in EntityLists : TRUE, facts |-> << >>]
  /\ TemplateInit /\ (focus = "template" \/ (template = {} /\ columns = {}))

Next ==
  \/ /\ focus = "link" /\ LinkNext
     /\ UNCHANGED <<focus, categoryVars, learnVars, capVars, reconcileVars,
                    templateVars>>
  \/ /\ focus = "reply" /\ ReplyNext
     /\ UNCHANGED <<focus, categoryVars, learnVars, capVars, reconcileVars,
                    templateVars>>
  \/ /\ focus = "category" /\ CategoryNext
     /\ UNCHANGED <<focus, inboxVars, learnVars, capVars, reconcileVars,
                    templateVars>>
  \/ /\ focus = "learn" /\ LearnNext
     /\ UNCHANGED <<focus, inboxVars, categoryVars, capVars, reconcileVars,
                    templateVars>>
  \/ /\ focus = "cap" /\ CapNext
     /\ UNCHANGED <<focus, inboxVars, categoryVars, learnVars, reconcileVars,
                    templateVars>>
  \/ /\ focus = "reconcile" /\ ReconcileNext
     /\ UNCHANGED <<focus, inboxVars, categoryVars, learnVars, capVars, templateVars>>
  \/ /\ focus = "template" /\ TemplateNext
     /\ UNCHANGED <<focus, inboxVars, categoryVars, learnVars, capVars,
                    reconcileVars>>

Spec == Init /\ [][Next]_vars

\* Every part keeps its types.
TypeOK ==
  /\ focus \in Parts
  /\ InboxTypeOK /\ CategoryTypeOK /\ LearnTypeOK /\ CapTypeOK
  /\ ReconcileTypeOK /\ TemplateTypeOK
===============================================================================
