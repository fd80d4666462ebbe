------------------------- MODULE IsolationInventory -------------------------
(***************************************************************************)
(* What a report says of the workers it used (isolate/inventory.py): one   *)
(* record per attempted worker, and one summary of them all.               *)
(*                                                                         *)
(* The list of records is a function: its domain names the workers.  Their *)
(* order in the list decides nothing in the summary.  Details that name no *)
(* capability, or a state of none, are normalised by the code to           *)
(* "unsupported"; no runner produces them, so they do not occur here.      *)
(***************************************************************************)
EXTENDS Integers, FiniteSets

CONSTANTS
  Capabilities, \* policy.CAPABILITIES
  Mechanisms    \* names a policy's mechanism may have; "none" before a spawn

ASSUME MechanismAssumption == Mechanisms \cap {"mixed", "null"} = {}

CAPABILITY_STRENGTH ==
  [failed |-> 0, unsupported |-> 1, degraded |-> 2, enforced |-> 3]

States == {"failed", "unsupported", "degraded", "enforced"}

FALLBACK_MECHANISMS == {"job-only", "restricted-token", "restricted_token"}

FAILURES == {"failed", "timeout", "terminated"}

AnalyzerStatus == {"completed", "unsupported", "skipped"} \cup FAILURES

\* The isolation details of one attempt.  A spawn that raised leaves no pid.
IsolationType ==
  [mode : {"subprocess"}, pid : BOOLEAN, mechanism : Mechanisms,
   fallbackErrors : BOOLEAN, capabilities : [Capabilities -> States]]

\* One record of the inventory; what is only copied is left out.
RecordType ==
  [status : AnalyzerStatus, launched : BOOLEAN, mechanism : Mechanisms,
   fallbackUsed : BOOLEAN, capabilities : [Capabilities -> States]]

-----------------------------------------------------------------------------

WorkerRecord(status, isolation) ==
  [status |-> status,
   launched |-> isolation.pid,
   mechanism |-> isolation.mechanism,
   fallbackUsed |-> isolation.fallbackErrors \/ isolation.mechanism \in FALLBACK_MECHANISMS,
   capabilities |-> isolation.capabilities]

\* min() turned round.
MutantStrongest(states) ==
  CHOOSE s \in states : \A t \in states : CAPABILITY_STRENGTH[t] <= CAPABILITY_STRENGTH[s]

\* min(states, key=CAPABILITY_STRENGTH.__getitem__)
Weakest(states) ==
  CHOOSE s \in states : \A t \in states : CAPABILITY_STRENGTH[s] <= CAPABILITY_STRENGTH[t]

Launched(records) == {w \in DOMAIN records : records[w].launched}
Used(records) == {records[w].mechanism : w \in Launched(records)}

\* The mechanisms of launched workers only, whoever else was attempted.
MutantUniform(records) == \E m \in Mechanisms : Used(records) = {m}

Uniform(records) ==
  Launched(records) = DOMAIN records /\ \E m \in Mechanisms : Used(records) = {m}

Summary(records) ==
  [mechanism |-> IF Uniform(records) THEN CHOOSE m \in Mechanisms : Used(records) = {m}
                 ELSE IF Launched(records) # {} THEN "mixed" ELSE "none",
   allLaunched |-> Launched(records) = DOMAIN records,
   failedCount |-> Cardinality({w \in DOMAIN records : records[w].status \in FAILURES}),
   fallbackUsed |-> \E w \in DOMAIN records : records[w].fallbackUsed,
   capabilities |-> [c \in Capabilities |->
                       Weakest({records[w].capabilities[c] : w \in DOMAIN records})]]

\* Nothing was attempted: no mechanism is named, no capability is claimed.
EmptySummary ==
  [mechanism |-> "null", allLaunched |-> TRUE, failedCount |-> 0,
   fallbackUsed |-> FALSE, capabilities |-> << >>]

AggregateWorkerIsolation(records) ==
  IF DOMAIN records = {} THEN EmptySummary ELSE Summary(records)

SummaryType ==
  [mechanism : Mechanisms \cup {"mixed", "none", "null"}, allLaunched : BOOLEAN,
   failedCount : Nat, fallbackUsed : BOOLEAN,
   capabilities : [Capabilities -> States] \cup {<< >>}]
=============================================================================
