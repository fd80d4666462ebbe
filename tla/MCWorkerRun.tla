---------------------------- MODULE MCWorkerRun ----------------------------
(***************************************************************************)
(* Instances of WorkerRun for TLC.  The two hosts have each of the three   *)
(* features once present and once absent.                                  *)
(***************************************************************************)
EXTENDS WorkerRun, TLC

NetnsHost == [f \in Flags |-> f = "unshare_net"]
NoNetnsHost == [f \in Flags |-> f # "unshare_net"]

MCHosts == {NetnsHost, NoNetnsHost}
MCOneHost == {NetnsHost}

=============================================================================
