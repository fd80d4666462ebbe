--------------------------- MODULE MCAnalyzerPool ---------------------------
(***************************************************************************)
(* Instances of AnalyzerPool for TLC: four analyzers, up to four of them   *)
(* jobs; two capabilities; launched, weaker, timed-out and never launched  *)
(* workers of two mechanisms, as a Windows host has them.                  *)
(***************************************************************************)
EXTENDS AnalyzerPool, TLC

E == "eligible"
MCPlans == {<<E, E, E, E>>, <<E, "unsupported", E, E>>, <<E, E, E, "redundant">>,
            <<"unsupported", "unsupported", E, "redundant">>}

States2(x, y) == [net |-> x, fs |-> y]
Isolation(pid, mechanism, caps) ==
  [mode |-> "subprocess", pid |-> pid, mechanism |-> mechanism,
   fallbackErrors |-> FALSE, capabilities |-> caps]
Result(status, isolation, count, items) ==
  [status |-> status, isolation |-> isolation, evidence |-> count, items |-> items,
   shaped |-> TRUE]

\* A URL with its domain, an import, a second URL of the same domain; the import again.
Item(link, withEvidence) == [link |-> link, evidence |-> withEvidence]
MCItems == <<Item("url", TRUE), Item("domain", FALSE), Item(NoLink, TRUE),
             Item("other url", TRUE), Item("domain", FALSE), Item("url", TRUE)>>

Strong == Isolation(TRUE, "appcontainer", States2("enforced", "enforced"))
Weak == Isolation(TRUE, "appcontainer", States2("enforced", "degraded"))
Fallback == [Isolation(TRUE, "job-only", States2("unsupported", "degraded"))
               EXCEPT !.fallbackErrors = TRUE]
NoSpawn == Isolation(FALSE, "none", States2("unsupported", "failed"))

MCWorkerAnswers ==
  {Result("completed", Strong, 2, MCItems), Result("timeout", Weak, 0, << >>),
   Result("failed", NoSpawn, 0, << >>),
   [Result("completed", Strong, 1, <<Item("url", TRUE)>>) EXCEPT !.shaped = FALSE]}
MCLocalAnswers ==
  {Result("completed", NotIsolated, 1, Tail(MCItems)), Result("failed", NotIsolated, 0, << >>)}
MCBrokerRecords ==
  {<< >>, <<WorkerRecord("completed", Strong)>>,
   <<WorkerRecord("failed", NoSpawn), WorkerRecord("completed", Strong)>>,
   <<WorkerRecord("completed", Fallback)>>}
=============================================================================
