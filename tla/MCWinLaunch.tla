---------------------------- MODULE MCWinLaunch ----------------------------
(***************************************************************************)
(* Instances of WinLaunch for TLC: two threads of one process, or one      *)
(* thread in each of two processes.                                        *)
(***************************************************************************)
EXTENDS WinLaunch, TLC

CONSTANTS t1, t2

OneProcess == [t \in {t1, t2} |-> "p1"]
TwoProcesses == [t \in {t1, t2} |-> IF t = t1 THEN "p1" ELSE "p2"]

\* The libraries and the package go first, the markers and a running image stay.
MCLeftovers == {{"exe", "mark", "acl"}}

Symmetry == Permutations({t1, t2})

\* States that differ only in the libraries and the package of a published tree
\* take the same steps: nothing reads them there any more.
MCView ==
  <<[v \in Versions |-> [dest[v] EXCEPT !.parts = @ \cap {"exe"}, !.app = None]],
    source, staging, aclDone, memory, call, launchVars>>
=============================================================================
