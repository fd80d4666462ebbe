--------------------------- MODULE WorkerContract ---------------------------
(***************************************************************************)
(* What one isolated run promises its caller (docs/ISOLATE_PROTOCOL.md),   *)
(* stated without processes, pipes, signals or timers.                     *)
(*                                                                         *)
(*   - restrictions come into force before the sample is opened and before *)
(*     the worker answers, never after;                                    *)
(*   - a worker may answer without opening the sample (it refuses the      *)
(*     request), so an answer alone says nothing of the sample;            *)
(*   - the run ends once, with one verdict, and from then on neither the   *)
(*     verdict nor the claimed restrictions change;                        *)
(*   - a restriction is claimed only if it is in force, and the worker's   *)
(*     own answer is the verdict only if the worker gave one.              *)
(***************************************************************************)
CONSTANTS Restrictions, Verdicts

VARIABLES
  verdict,       \* "pending", then the published verdict
  claimed,       \* the restrictions published as enforced
  inForce,       \* the restrictions that really hold in the worker
  sampleOpened,  \* the worker has opened the sample
  answered       \* the worker has published a whole answer

vars == <<verdict, claimed, inForce, sampleOpened, answered>>

Init ==
  /\ verdict = "pending" /\ claimed = {} /\ inForce = {}
  /\ sampleOpened = FALSE /\ answered = FALSE

Restrict ==
  /\ ~sampleOpened /\ ~answered
  /\ \E more \in SUBSET Restrictions : inForce' = inForce \cup more
  /\ UNCHANGED <<verdict, claimed, sampleOpened, answered>>

OpenSample ==
  /\ ~sampleOpened
  /\ sampleOpened' = TRUE
  /\ UNCHANGED <<verdict, claimed, inForce, answered>>

Answer ==
  /\ ~answered
  /\ answered' = TRUE
  /\ UNCHANGED <<verdict, claimed, inForce, sampleOpened>>

Publish ==
  /\ verdict = "pending"
  /\ verdict' \in Verdicts
  /\ verdict' = "child_result" => answered
  /\ claimed' \in SUBSET inForce
  /\ UNCHANGED <<inForce, sampleOpened, answered>>

Next == Restrict \/ OpenSample \/ Answer \/ Publish

Spec == Init /\ [][Next]_vars
=============================================================================
