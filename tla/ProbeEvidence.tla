--------------------------- MODULE ProbeEvidence ---------------------------
(***************************************************************************)
(* What security-status makes of its probes: the evaluation of the file    *)
(* system, network and process-creation claims from what the probe workers *)
(* reported (isolate/probe_evidence.py, isolate/network_capability.py).    *)
(* Pure definitions: SecurityStatus runs the probes.                       *)
(*                                                                         *)
(* A probe worker comes back as a record: how it was launched, under which *)
(* mechanism, what the policy of its launch claims, whether its helper     *)
(* completed with an answer that validates, and what the answer says.      *)
(***************************************************************************)
EXTENDS Integers, FiniteSets

States == {"enforced", "degraded", "unsupported", "failed"}
Mechanisms == {"none", "appcontainer", "restricted_token", "job-only", "unix-preexec"}
Families == {"ipv4", "ipv6"}

\* What one launch claims (IsolationPolicy.capabilities()).
ClaimsType == [fs : States, net : States, creation : States]
NoClaims == [fs |-> "unsupported", net |-> "unsupported", creation |-> "unsupported"]

LaunchType == [mech : Mechanisms, token : BOOLEAN, claims : ClaimsType]
NoLaunch == [mech |-> "none", token |-> FALSE, claims |-> NoClaims]

\* A worker that tries one operation: launched, completed with a validated
\* answer, whose details say that it succeeded (read_ok, write_ok, spawned) or
\* that it was denied.
ProbeType ==
  [launch : LaunchType, launched : BOOLEAN, completed : BOOLEAN,
   ok : BOOLEAN, denied : BOOLEAN]
NoProbe ==
  [launch |-> NoLaunch, launched |-> FALSE, completed |-> FALSE, ok |-> FALSE, denied |-> FALSE]

-----------------------------------------------------------------------------
(* Mechanisms *)

\* An enforced claim that the evidence does not carry is a degraded one.
Weakened(claim) == IF claim = "enforced" THEN "degraded" ELSE claim

\* What a claim is worth after the forbidden operation succeeded.
Refuted(claim) == IF claim = "unsupported" THEN "unsupported" ELSE "failed"

mechanism_allows_os_enforcement(mech) == mech # "none"

filesystem_mechanism_supports_enforced(mech, token) ==
  \/ mech = "appcontainer" /\ token
  \/ mech = "unix-preexec"

\* The two file system workers ran under the same mechanism ...
SameMechanism(read, write) == read.launch.mech = write.launch.mech

\* ... which is one that can restrict files, confirmed for both.
assess_filesystem_mechanisms(read, write) ==
  /\ SameMechanism(read, write)
  /\ filesystem_mechanism_supports_enforced(read.launch.mech,
       read.launch.token /\ write.launch.token)

\* The same of the network analyzer and the listen helper; their claims must
\* agree too.
assess_network_mechanisms(net, listen) ==
  LET claim == net.launch.claims.net
  IN /\ net.launch.mech = listen.launch.mech
     /\ \/ net.launch.mech = "appcontainer" /\ net.launch.token /\ listen.launch.token
        \/ net.launch.mech = "unix-preexec"
     /\ claim = listen.launch.claims.net
     /\ claim \in {"degraded", "enforced"}

\* network_claim_for_evaluation
NetworkClaim(net, listen) ==
  IF assess_network_mechanisms(net, listen) THEN net.launch.claims.net ELSE "unsupported"

-----------------------------------------------------------------------------
(* File system and process creation *)

probe_helper_complete(probe) == probe.launched /\ probe.completed

operation_attempted(probe) == probe.ok \/ probe.denied

Attempted(probe) == probe_helper_complete(probe) /\ operation_attempted(probe)

\* The parent does not look whether the file is there.
MutantEvaluateFilesystem(claim, read, write, hostWriteExists) ==
  IF read.ok \/ write.ok THEN Refuted(claim)
  ELSE IF ~SameMechanism(read, write) THEN Weakened(claim)
  ELSE IF ~mechanism_allows_os_enforcement(read.launch.mech) THEN "unsupported"
  ELSE IF ~Attempted(read) \/ ~Attempted(write) THEN Weakened(claim)
  ELSE IF assess_filesystem_mechanisms(read, write) THEN claim ELSE Weakened(claim)

\* The claim is that of the read worker.
evaluate_filesystem_restriction(claim, read, write, hostWriteExists) ==
  IF read.ok \/ write.ok \/ hostWriteExists THEN Refuted(claim)
  ELSE IF ~SameMechanism(read, write) THEN Weakened(claim)
  ELSE IF ~mechanism_allows_os_enforcement(read.launch.mech) THEN "unsupported"
  ELSE IF ~Attempted(read) \/ ~Attempted(write) THEN Weakened(claim)
  ELSE IF assess_filesystem_mechanisms(read, write) THEN claim ELSE Weakened(claim)

evaluate_process_creation(claim, spawn) ==
  IF spawn.ok THEN IF claim = "degraded" THEN "degraded" ELSE Refuted(claim)
  ELSE IF ~Attempted(spawn) THEN Weakened(claim)
  ELSE IF ~mechanism_allows_os_enforcement(spawn.launch.mech) THEN "unsupported"
  ELSE claim

evaluate_process_boundary(anyLaunched) == IF anyLaunched THEN "enforced" ELSE "unsupported"

-----------------------------------------------------------------------------
(* Network *)

Outcomes == {"unavailable", "incomplete", "denied", "succeeded"}

\* The network analyzer: the parent's listeners and UDP receivers it was given,
\* and, family by family, what its answer says: connected, connected beyond the
\* host, and for UDP sent.
NetType ==
  [launch : LaunchType, launched : BOOLEAN, completed : BOOLEAN,
   connected : SUBSET Families, external : BOOLEAN, sent : SUBSET Families]
NoNet ==
  [launch |-> NoLaunch, launched |-> FALSE, completed |-> FALSE,
   connected |-> {}, external |-> FALSE, sent |-> {}]

\* The listen probe: ready once the ready file was accepted; completed once the
\* helper's answer was; the outcome of host_to_worker in each family.
ListenType ==
  [launch : LaunchType, launched : BOOLEAN, ready : BOOLEAN, completed : BOOLEAN,
   error : BOOLEAN, outcome : [Families -> Outcomes]]
NoListen ==
  [launch |-> NoLaunch, launched |-> FALSE, ready |-> FALSE, completed |-> FALSE, error |-> FALSE,
   outcome |-> [f \in Families |-> IF f = "ipv4" THEN "incomplete" ELSE "unavailable"]]

\* A connect that was tried and did not succeed left an error.
classify_connect_outcome(available, succeeded, complete) ==
  IF ~available THEN "unavailable"
  ELSE IF ~complete THEN "incomplete"
  ELSE IF succeeded THEN "succeeded" ELSE "denied"

\* Sent but not received is no denial.
classify_udp_outcome(available, received, sent, complete) ==
  IF ~available THEN "unavailable"
  ELSE IF ~complete THEN "incomplete"
  ELSE IF received THEN "succeeded"
  ELSE IF sent THEN "incomplete" ELSE "denied"

LocalhostConnect(net, listeners) ==
  [f \in Families |->
     classify_connect_outcome(f \in listeners, f \in net.connected, net.completed)]

LocalhostUdp(net, receivers, received) ==
  [f \in Families |->
     classify_udp_outcome(f \in receivers, f \in received, f \in net.sent, net.completed)]

\* A channel is judged in IPv4, and in IPv6 where there is IPv6.
Interpretable(outcomes) ==
  /\ outcomes["ipv4"] \in {"succeeded", "denied"}
  /\ outcomes["ipv6"] \in {"succeeded", "denied", "unavailable"}

build_probe_completeness(net, listen, connect, udp) ==
  /\ ~listen.error /\ net.completed /\ listen.completed /\ listen.ready
  /\ Interpretable(connect) /\ Interpretable(listen.outcome) /\ Interpretable(udp)

\* Usable communication.  That a socket can be bound is not.
meaningful_network_success(net, listen, received) ==
  \/ net.connected # {} \/ net.external
  \/ \E f \in Families : listen.outcome[f] = "succeeded"
  \/ received # {}

\* Nothing succeeded: that is taken for a denial.
MutantEvaluateNetwork(claim, success, complete, mechanismsAllow) ==
  IF success THEN IF claim = "degraded" THEN "degraded" ELSE Refuted(claim)
  ELSE IF claim \in {"enforced", "degraded"}
  THEN IF mechanismsAllow THEN "enforced" ELSE "degraded"
  ELSE claim

\* Complete evidence of denial upgrades a degraded claim.
evaluate_network_restriction(claim, success, complete, mechanismsAllow) ==
  IF success THEN IF claim = "degraded" THEN "degraded" ELSE Refuted(claim)
  ELSE IF claim \in {"enforced", "degraded"}
  THEN IF complete /\ mechanismsAllow THEN "enforced" ELSE "degraded"
  ELSE claim

-----------------------------------------------------------------------------

\* Last-line safety: no mechanism, nothing enforced.
reject_os_enforcement_without_mechanism(state, mech) ==
  IF mechanism_allows_os_enforcement(mech) THEN state
  ELSE IF state = "enforced" THEN "unsupported" ELSE state
=============================================================================
