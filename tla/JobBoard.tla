------------------------------ MODULE JobBoard -------------------------------
(***************************************************************************)
(* What a job queue with leases promises, whatever implements it: a job is *)
(* worked on by at most one worker, only the worker that holds a job ends  *)
(* it, a job is put back only when nobody holds it, it is tried at most    *)
(* MaxTries times, and it is buried only after that.                       *)
(* ExtractionQueue is shown to implement this board.                       *)
(***************************************************************************)
EXTENDS Naturals

CONSTANTS Jobs, Workers, MaxTries, Nobody

VARIABLES phase, owner, tries

boardVars == <<phase, owner, tries>>

Phase == {"absent", "open", "taken", "done", "dead"}

BoardTypeOK ==
  /\ phase \in [Jobs -> Phase]
  /\ owner \in [Jobs -> Workers \cup {Nobody}]
  /\ tries \in [Jobs -> 0..MaxTries]

BoardInit ==
  /\ phase = [j \in Jobs |-> "absent"]
  /\ owner = [j \in Jobs |-> Nobody]
  /\ tries = [j \in Jobs |-> 0]

\* f with the value v on S.
Put(f, S, v) == [j \in Jobs |-> IF j \in S THEN v ELSE f[j]]

Post(j) ==
  /\ phase[j] = "absent"
  /\ phase' = Put(phase, {j}, "open")
  /\ UNCHANGED <<owner, tries>>

Take(w, S) ==
  /\ \A j \in S : phase[j] = "open" /\ tries[j] < MaxTries
  /\ phase' = Put(phase, S, "taken")
  /\ owner' = Put(owner, S, w)
  /\ tries' = [j \in Jobs |-> IF j \in S THEN tries[j] + 1 ELSE tries[j]]

Complete(w, j) ==
  /\ phase[j] = "taken" /\ owner[j] = w
  /\ phase' = Put(phase, {j}, "done")
  /\ owner' = Put(owner, {j}, Nobody)
  /\ UNCHANGED tries

\* The worker gives the job back: open while it has tries left, else dead.
GiveUp(w, j) ==
  /\ phase[j] = "taken" /\ owner[j] = w
  /\ phase' = Put(phase, {j}, IF tries[j] < MaxTries THEN "open" ELSE "dead")
  /\ owner' = Put(owner, {j}, Nobody)
  /\ UNCHANGED tries

Vanish(w) ==
  /\ owner' = [j \in Jobs |-> IF owner[j] = w THEN Nobody ELSE owner[j]]
  /\ UNCHANGED <<phase, tries>>

Ownerless(S) == \A j \in S : phase[j] = "taken" /\ owner[j] = Nobody

Reclaim(S) ==
  /\ Ownerless(S)
  /\ \A j \in S : tries[j] < MaxTries
  /\ phase' = Put(phase, S, "open")
  /\ UNCHANGED <<owner, tries>>

Bury(S) ==
  /\ Ownerless(S)
  /\ \A j \in S : tries[j] = MaxTries
  /\ phase' = Put(phase, S, "dead")
  /\ UNCHANGED <<owner, tries>>

Reopen(S) ==
  /\ \A j \in S : phase[j] = "done"
  /\ phase' = Put(phase, S, "open")
  /\ tries' = Put(tries, S, 0)
  /\ UNCHANGED owner

BoardNext ==
  \/ \E j \in Jobs : Post(j)
  \/ \E w \in Workers : \E S \in SUBSET Jobs : Take(w, S)
  \/ \E w \in Workers : \E j \in Jobs : Complete(w, j) \/ GiveUp(w, j)
  \/ \E w \in Workers : Vanish(w)
  \/ \E S \in SUBSET Jobs : Reclaim(S) \/ Bury(S) \/ Reopen(S)

BoardSpec == BoardInit /\ [][BoardNext]_boardVars
==============================================================================
