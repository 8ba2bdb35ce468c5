------------------------------ MODULE SpendingCap ------------------------------
(***************************************************************************)
(* The monthly cap on what the runs of one organisation spend on a user's  *)
(* own LLM key (llm-for-user.ts, usage.ts, llm-cost.ts).  The ledger is    *)
(* read when a run resolves its provider; each of its calls is recorded    *)
(* after it was made, by an insert nobody waits for: it may land when the   *)
(* run that made the call is over.                                         *)
(***************************************************************************)
EXTENDS Integers, FiniteSets

CONSTANTS
  Spenders,     \* runs that may be live at once
  CapUnits,     \* byokMonthlyCapUsd, in units of cost
  CallsPerRun,  \* LLM calls a run makes at most
  CallCost,     \* cost of a call at most, in units
  MaxBlind,     \* bound: ledger reads that fail
  MaxAdrift     \* bound: inserts in flight at once whose run is over

ASSUME CapAssumption ==
  /\ IsFiniteSet(Spenders) /\ Spenders # {}
  /\ {CapUnits, CallsPerRun, CallCost} \subseteq Nat \ {0}
  /\ {MaxBlind, MaxAdrift} \subseteq Nat

VARIABLES
  ledger,    \* llm_usage: the sum of cost_usd of this month
  spender,   \* of a run: [provider, calls (left to make), unsaved (inserts)]
  adrift,    \* inserts in flight whose run is over
  blind,     \* ghost: ledger reads that failed
  owed       \* ghost: how many were adrift when the ledger was last found under
             \* the cap, or the month began

capVars == <<ledger, spender, adrift, blind, owed>>

NoSpender == [provider |-> "none", calls |-> 0, unsaved |-> {}]
ByokSpender == [provider |-> "byok", calls |-> CallsPerRun, unsaved |-> {}]

CapInit ==
  /\ ledger \in 0..CapUnits
  /\ spender = [s \in Spenders |-> NoSpender]
  /\ adrift = 0
  /\ blind = 0
  /\ owed = 0

\* Mutant: the cap itself may still be spent on.
UnderCapOrAt(spent) == spent <= CapUnits

\* byokCapDecision: "ok" under the cap.
UnderCap(spent) == spent < CapUnits

\* llmForUser.  Over the cap the local edition falls back to the machine's own
\* Ollama, which is free, and the cloud throws.
ResolveProvider(s) ==
  /\ spender[s].provider = "none"
  /\ IF UnderCap(ledger)
       THEN /\ spender' = [spender EXCEPT ![s] = ByokSpender]
            /\ owed' = adrift
       ELSE /\ spender' \in {spender, [spender EXCEPT ![s].provider = "ollama"]}
            /\ UNCHANGED owed
  /\ UNCHANGED <<ledger, adrift, blind>>

\* monthToDateSpendUsd fails: "the cap simply can't engage without data".
ResolveBlind(s) ==
  /\ spender[s].provider = "none"
  /\ blind < MaxBlind
  /\ blind' = blind + 1
  /\ spender' = [spender EXCEPT ![s] = ByokSpender]
  /\ UNCHANGED <<ledger, adrift, owed>>

\* A call is answered, and its cost (0 when the model has no price) recorded:
\* recordUsage is started and not awaited.
CallModel(s) ==
  \E cost \in 0..CallCost :
    /\ spender[s].provider = "byok"
    /\ spender[s].calls > 0
    /\ spender' = [spender EXCEPT ![s].calls = @ - 1,
                                  ![s].unsaved = @ \cup {<<spender[s].calls, cost>>}]
    /\ UNCHANGED <<ledger, adrift, blind, owed>>

SaveUsage(s) ==
  \E u \in spender[s].unsaved :
    /\ ledger' = ledger + u[2]
    /\ spender' = [spender EXCEPT ![s].unsaved = @ \ {u}]
    /\ UNCHANGED <<adrift, blind, owed>>

\* The insert throws and recordUsage swallows it.
UsageLost(s) ==
  \E u \in spender[s].unsaved :
    /\ spender' = [spender EXCEPT ![s].unsaved = @ \ {u}]
    /\ UNCHANGED <<ledger, adrift, blind, owed>>

\* The run ends.  Its inserts that have not landed go with the process, or go
\* on in one that survives it: nothing cancels them.
SpenderEnds(s) ==
  /\ spender[s].provider # "none"
  /\ spender' = [spender EXCEPT ![s] = NoSpender]
  /\ adrift' \in {adrift, adrift + Cardinality(spender[s].unsaved)}
  /\ adrift' <= MaxAdrift
  /\ UNCHANGED <<ledger, blind, owed>>

\* An insert outlives its run, and lands or (as if it cost nothing) is lost.
LateUsage ==
  \E cost \in 0..CallCost :
    /\ adrift > 0
    /\ adrift' = adrift - 1
    /\ ledger' = ledger + cost
    /\ UNCHANGED <<spender, blind, owed>>

\* date_trunc('month', now()): the sum starts again.
NewMonth ==
  /\ ledger # 0
  /\ ledger' = 0
  /\ owed' = adrift
  /\ UNCHANGED <<spender, adrift, blind>>

CapNext ==
  \/ NewMonth
  \/ LateUsage
  \/ \E s \in Spenders :
       \/ ResolveProvider(s) \/ ResolveBlind(s) \/ CallModel(s)
       \/ SaveUsage(s) \/ UsageLost(s) \/ SpenderEnds(s)

CapSpec == CapInit /\ [][CapNext]_capVars

-----------------------------------------------------------------------------
CapTypeOK ==
  /\ ledger \in Nat
  /\ blind \in 0..MaxBlind
  /\ {adrift, owed} \subseteq 0..MaxAdrift
  /\ \A s \in Spenders :
       /\ spender[s].provider \in {"none", "byok", "ollama"}
       /\ spender[s].calls \in 0..CallsPerRun
       /\ spender[s].unsaved \subseteq (1..CallsPerRun) \X (0..CallCost)

\* The cap is checked before a run and spent during it and after it: a month's
\* recorded cost passes the cap by no more than what the runs that are live at
\* once may spend, those that could not read the ledger, and the calls whose
\* inserts were adrift when it was last found under the cap.
CapOvershoot ==
  ledger < CapUnits
             + ((Cardinality(Spenders) + blind) * CallsPerRun + owed) * CallCost
===============================================================================
