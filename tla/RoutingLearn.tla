----------------------------- MODULE RoutingLearn -----------------------------
(***************************************************************************)
(* Routing feedback and the nightly pass that learns from it               *)
(* (lib/datamodo/routing.ts): events are logged by sends and chips, the    *)
(* pass folds those not yet consumed into the agents' profiles and stamps  *)
(* them, agent by agent, without a transaction.  What a fold computes is   *)
(* abstracted to how often each event is in the stored profile.            *)
(***************************************************************************)
EXTENDS Integers, Sequences, FiniteSets

CONSTANTS
  RoutedAgents,
  RoutedItems,   \* items the auto-router filed
  NoRoutedItem,
  NoRoutedAgent,
  BatchMax,      \* MAX_EVENTS_PER_PASS
  MaxEvents,     \* bound: events ever logged
  MaxCutOffs     \* bound: passes cut off between the fold and the stamp of one event

ASSUME LearnAssumption ==
  /\ NoRoutedItem \notin RoutedItems /\ NoRoutedAgent \notin RoutedAgents
  /\ IsFiniteSet(RoutedItems)
  /\ BatchMax \in Nat \ {0}
  /\ {MaxEvents, MaxCutOffs} \subseteq Nat

VARIABLES
  agentRows,  \* agents that exist
  settled,    \* the agent of an item that was routed and left alone for a day
  events,     \* routing_events, oldest first: [agent, item, consumed]
  profile,    \* how often event e is folded into the row of its agent
  pass,       \* the pass: [step, left (agents), agent, base, batch]
  cutOff      \* ghost: passes that ended between the fold and the stamp of e

learnVars == <<agentRows, settled, events, profile, pass, cutOff>>

EventIds == 1..MaxEvents
NoPass == [step |-> "idle", left |-> {}, agent |-> NoRoutedAgent, batch |-> {},
           base |-> [e \in EventIds |-> 0]]
PassAt(step) == pass.step = step

LearnInit ==
  /\ agentRows = RoutedAgents
  /\ settled = [i \in RoutedItems |-> NoRoutedAgent]
  /\ events = << >>
  /\ profile = [e \in EventIds |-> 0]
  /\ pass = NoPass
  /\ cutOff = [e \in EventIds |-> 0]

Event(a, i) == [agent |-> a, item |-> i, consumed |-> FALSE]

\* logRoutingEvent: a chip or an addressed send, with its item or without.
Feedback ==
  \E a \in agentRows, i \in RoutedItems \cup {NoRoutedItem} :
    /\ Len(events) < MaxEvents
    /\ events' = Append(events, Event(a, i))
    /\ UNCHANGED <<agentRows, settled, profile, pass, cutOff>>

ItemSettles ==
  \E i \in RoutedItems, a \in agentRows :
    /\ settled[i] = NoRoutedAgent
    /\ settled' = [settled EXCEPT ![i] = a]
    /\ UNCHANGED <<agentRows, events, profile, pass, cutOff>>

\* ON DELETE CASCADE: the events of an agent go with it; here they stay in the
\* list, and whoever reads it passes them over.
AgentDeleted ==
  \E a \in agentRows :
    /\ agentRows' = agentRows \ {a}
    /\ UNCHANGED <<settled, events, profile, pass, cutOff>>

EventExists(n) == events[n].agent \in agentRows

\* Leg 1 of the pass: one implicit accept for every item that has no event, as
\* many as one statement may insert.
SweepImplicit ==
  LET unlabelled == {i \in RoutedItems :
                       /\ settled[i] \in agentRows
                       /\ ~\E n \in DOMAIN events : EventExists(n) /\ events[n].item = i}
      room == MaxEvents - Len(events)
      top == IF Cardinality(unlabelled) < room THEN Cardinality(unlabelled) ELSE room
  IN /\ PassAt("idle")
     /\ \E item \in [1..top -> unlabelled] :
          /\ \A m, n \in 1..top : item[m] = item[n] => m = n
          /\ events' = events \o [n \in 1..top |-> Event(settled[item[n]], item[n])]
     /\ pass' = [NoPass EXCEPT !.step = "load"]
     /\ UNCHANGED <<agentRows, settled, profile, cutOff>>

\* Mutant: consumed events are loaded again.
UnconsumedOrNot(n) == EventExists(n)

Unconsumed(n) == EventExists(n) /\ ~events[n].consumed

\* Leg 2: the oldest unconsumed events, and their agents.
LoadEvents ==
  LET open == {n \in DOMAIN events : Unconsumed(n)}
      batch == {n \in open : Cardinality({k \in open : k < n}) < BatchMax}
  IN /\ PassAt("load")
     /\ pass' = IF batch = {} THEN NoPass
                ELSE [NoPass EXCEPT !.step = "read", !.batch = batch,
                                    !.left = {events[n].agent : n \in batch}]
     /\ UNCHANGED <<agentRows, settled, events, profile, cutOff>>

Mine == {n \in pass.batch : events[n].agent = pass.agent}

\* The next agent of the loop, or its end.
Onward(left) == [pass EXCEPT !.left = left, !.agent = NoRoutedAgent,
                             !.step = IF left = {} THEN "idle" ELSE "read",
                             !.batch = IF left = {} THEN {} ELSE @,
                             !.base = NoPass.base]

\* The profile is read; an agent that is gone is passed over.
ReadProfile ==
  \E a \in pass.left :
    /\ PassAt("read")
    /\ pass' = IF a \in agentRows
                 THEN [pass EXCEPT !.step = "fold", !.agent = a, !.base = profile,
                                   !.left = @ \ {a}]
                 ELSE Onward(pass.left \ {a})
    /\ UNCHANGED <<agentRows, settled, events, profile, cutOff>>

\* The folded profile overwrites the row.
WriteProfile ==
  /\ PassAt("fold")
  /\ profile' = [e \in EventIds |-> IF e \in Mine /\ pass.agent \in agentRows
                                      THEN pass.base[e] + 1 ELSE profile[e]]
  /\ pass' = [pass EXCEPT !.step = "stamp", !.base = NoPass.base]
  /\ UNCHANGED <<agentRows, settled, events, cutOff>>

StampConsumed ==
  /\ PassAt("stamp")
  /\ events' = [n \in DOMAIN events |->
                  [events[n] EXCEPT !.consumed = @ \/ n \in Mine]]
  /\ pass' = Onward(pass.left)
  /\ UNCHANGED <<agentRows, settled, profile, cutOff>>

\* A statement throws (the loop goes on with the next agent), or the pass dies.
PassCutOff ==
  /\ ~PassAt("idle")
  /\ PassAt("stamp") => \A e \in Mine : cutOff[e] < MaxCutOffs
  /\ pass' \in {NoPass} \cup (IF PassAt("fold") \/ PassAt("stamp")
                                THEN {Onward(pass.left)} ELSE {})
  /\ cutOff' = [e \in EventIds |->
                  cutOff[e] + (IF PassAt("stamp") /\ e \in Mine THEN 1 ELSE 0)]
  /\ UNCHANGED <<agentRows, settled, events, profile>>

LearnNext ==
  \/ Feedback \/ ItemSettles \/ AgentDeleted
  \/ SweepImplicit \/ LoadEvents \/ ReadProfile \/ WriteProfile
  \/ StampConsumed \/ PassCutOff

LearnSpec == LearnInit /\ [][LearnNext]_learnVars

-----------------------------------------------------------------------------
LearnTypeOK ==
  /\ agentRows \subseteq RoutedAgents /\ settled \in [RoutedItems -> RoutedAgents \cup {NoRoutedAgent}]
  /\ events \in Seq([agent : RoutedAgents, item : RoutedItems \cup {NoRoutedItem},
                     consumed : BOOLEAN])
  /\ {profile, cutOff, pass.base} \subseteq [EventIds -> Nat]
  /\ pass.step \in {"idle", "load", "read", "fold", "stamp"}
  /\ pass.left \subseteq RoutedAgents
  /\ pass.agent \in RoutedAgents \cup {NoRoutedAgent}
  /\ pass.batch \subseteq EventIds

\* "Idempotent: ... folded events stamp consumed_at" (routing.ts): an event is
\* in its agent's profile once when it is stamped, and once more for every pass
\* that was cut off between the fold and the stamp; never less and never more.
LearnFoldsOnce ==
  \A n \in DOMAIN events :
    EventExists(n) =>
      profile[n] = cutOff[n]
                   + (IF events[n].consumed \/ (PassAt("stamp") /\ n \in Mine)
                        THEN 1 ELSE 0)
===============================================================================
