--------------------------- MODULE SecurityStatus ---------------------------
(***************************************************************************)
(* security-status (isolate/status.py): one report on what the OS really   *)
(* denies to a worker, from five workers that try it.                      *)
(*                                                                         *)
(* The parent opens TCP listeners and UDP receivers on loopback, then runs *)
(* the file read, file write, network and spawn probes one after the other *)
(* (the analyzers isolate_test.* of test_analyzers.py), and the listen     *)
(* probe (network_capability.py), in which parent and helper act at the    *)
(* same time: the helper binds, writes the ready file and accepts for a    *)
(* while, the parent waits for the file, connects, and waits for the       *)
(* helper.  Every worker may end early, be launched with less containment  *)
(* than the others, or send an answer that is refused.                     *)
(*                                                                         *)
(* done records what the workers really did, which the parent cannot see.  *)
(* An operation is done or it is not: whether the OS denied it or it       *)
(* failed of itself is not told apart, here or in the code.                *)
(***************************************************************************)
EXTENDS ProbeEvidence

CONSTANTS
  Platforms,      \* "win32", "linux"
  MaxTroubles     \* bound: how much does not go as in a full denial

ASSUME PlatformAssumption == Platforms \subseteq {"win32", "linux"}
ASSUME TroubleAssumption == MaxTroubles \in Nat

VARIABLES
  host,        \* the platform, and the features detected on it
  at,          \* the step inspect_isolation is at
  troubles,
  listeners,   \* families the parent listens in
  receivers,   \* families the parent receives datagrams in
  inbox,       \* families a datagram with the right token arrived in
  read, write, net, spawn, listen,     \* what the probes came back as
  helper,      \* the listen helper
  endpoints,   \* families the parent has yet to connect to, of the ready file
  refused,     \* parent_connect_errors
  done,        \* what really happened
  report

probes == <<read, write, net, spawn, listen>>
sockets == <<listeners, receivers, inbox>>
listening == <<helper, endpoints, refused>>
vars == <<host, at, troubles, sockets, probes, listening, done, report>>

HostType == [platform : Platforms, landlock : BOOLEAN, unshare : BOOLEAN]

Stages == {"bind", "read", "write", "network", "spawn", "listen", "ready", "connect", "wait",
           "drain", "finalize", "done"}

\* The helper: open are the families it still listens in, announced those in
\* the ready file.
HelperType ==
  [is : {"none", "starting", "listening", "answered", "dead"},
   open : SUBSET Families, announced : SUBSET Families]
NoHelper == [is |-> "none", open |-> {}, announced |-> {}]

\* Files: the secret was read, the file was written (all or some of it, or just
\* created).  Processes: one was created, and one whose end the worker did not
\* wait for.  Network: a usable connection or datagram, by kind and family.
DoneType ==
  [read : BOOLEAN, written : BOOLEAN, spawned : BOOLEAN, slow : BOOLEAN,
   channels : SUBSET ({"connect", "udp", "accept"} \X Families \cup {<<"external", "ipv4">>})]

Report == [fs : States, net : States, creation : States, boundary : States]
NoReport == [fs |-> "unsupported", net |-> "unsupported", creation |-> "unsupported",
             boundary |-> "unsupported"]

Init ==
  /\ host \in {h \in HostType : h.platform = "win32" => ~h.landlock /\ ~h.unshare}
  /\ at = "bind" /\ troubles = 0
  /\ listeners = {} /\ receivers = {} /\ inbox = {}
  /\ read = NoProbe /\ write = NoProbe /\ spawn = NoProbe
  /\ net = NoNet /\ listen = NoListen
  /\ helper = NoHelper /\ endpoints = {} /\ refused = {}
  /\ done = [read |-> FALSE, written |-> FALSE, spawned |-> FALSE, slow |-> FALSE, channels |-> {}]
  /\ report = NoReport

\* n more of the things that may go otherwise happened.
Trouble(n) ==
  /\ troubles + n <= MaxTroubles
  /\ troubles' = troubles + n

Count(holds) == IF holds THEN 1 ELSE 0

-----------------------------------------------------------------------------
(* How a worker is launched *)

\* What the worker's bootstrap attests, and the parent takes from the ACK.
Attested == [applied |-> "enforced", unsupported |-> "unsupported", failed |-> "failed"]

\* Windows: an AppContainer, a restricted token or neither, in a job of one
\* process or in none (apply_policy_from_launch).
WindowsFilesystem(mech, confirmed) ==
  IF mech = "appcontainer" /\ confirmed THEN "enforced"
  ELSE IF mech \in {"appcontainer", "restricted_token"} THEN "degraded"
  ELSE "unsupported"

WindowsLaunches ==
  {[mech |-> mech, token |-> mech = "appcontainer" /\ confirmed,
    claims |-> [fs |-> WindowsFilesystem(mech, confirmed),
                net |-> IF mech = "appcontainer" THEN "degraded" ELSE "unsupported",
                creation |-> IF assigned THEN "enforced" ELSE "degraded"]] :
     mech \in {"appcontainer", "restricted_token", "job-only"},
     confirmed \in BOOLEAN, assigned \in BOOLEAN}

UnixClaiming(fs, net_) ==
  [mech |-> "unix-preexec", token |-> FALSE,
   claims |-> [fs |-> fs, net |-> net_, creation |-> "degraded"]]

\* Unix, before the bootstrap ACK (apply_unix_policy): features that were
\* detected are degraded claims.
UnixLaunch ==
  UnixClaiming(IF host.landlock THEN "degraded" ELSE "unsupported",
               IF host.unshare THEN "degraded" ELSE "unsupported")

\* A validated ACK says it for each (apply_validated_ack); an ACK that attests
\* what was not detected is refused, as one that is missing.
AttestedLaunches ==
  {UnixClaiming(Attested[fs], Attested[net_]) :
     fs \in {"unsupported", "failed"} \cup (IF host.landlock THEN {"applied"} ELSE {}),
     net_ \in {"unsupported", "failed"} \cup (IF host.unshare THEN {"applied"} ELSE {})}

\* The runner takes the ACK; the listen probe does not look at it.
LaunchesOf(runner) ==
  IF host.platform = "win32" THEN WindowsLaunches
  ELSE IF runner THEN {UnixLaunch} \cup AttestedLaunches ELSE {UnixLaunch}

\* The launch that costs no trouble: everything there is was applied and is
\* attested.
Expected(launch, runner) ==
  CASE host.platform = "win32" ->
         launch.mech = "appcontainer" /\ launch.token /\ launch.claims.creation = "enforced"
    [] runner ->
         launch.claims = [fs |-> IF host.landlock THEN "enforced" ELSE "unsupported",
                          net |-> IF host.unshare THEN "enforced" ELSE "unsupported",
                          creation |-> "degraded"]
    [] OTHER -> TRUE

\* How a run of the runner ends: no worker; the answer taken; the worker
\* crashed, timed out or was not believed; the runner failed after the launch,
\* which it reports as if there had been none.
Endings == {"not launched", "completed", "lost", "error"}

\* A worker that was not launched has no mechanism at all.
MutantProbeOf(launch, ending, ok, denied) ==
  [launch |-> IF ending = "not launched" THEN [launch EXCEPT !.mech = "null"] ELSE launch,
   launched |-> ending \in {"completed", "lost"}, completed |-> ending = "completed",
   ok |-> ending = "completed" /\ ok, denied |-> ending = "completed" /\ denied]

\* A probe by the runner, whose worker got this far.
ProbeOf(launch, ending, ok, denied) ==
  IF ending = "not launched" THEN NoProbe
  ELSE [launch |-> launch, launched |-> ending # "error", completed |-> ending = "completed",
        ok |-> ending = "completed" /\ ok, denied |-> ending = "completed" /\ denied]

\* What a launch and an ending cost, with what was done.
RunsAs(ending, launch, cost) ==
  /\ ending = "not launched" => cost = 0
  /\ Trouble(cost + Count(ending # "completed") + Count(~Expected(launch, TRUE)))

-----------------------------------------------------------------------------
(* inspect_isolation *)

\* A receiver in each family where a socket can be had.
bind_udp_receivers == SUBSET Families

\* Listeners and receivers; any socket may fail to bind.
Bind ==
  /\ at = "bind"
  /\ \E tcp \in SUBSET Families, udp \in bind_udp_receivers :
       /\ listeners' = tcp /\ receivers' = udp
       /\ Trouble(Cardinality(Families \ tcp) + Cardinality(Families \ udp))
  /\ at' = "read"
  /\ UNCHANGED <<host, inbox, probes, listening, done, report>>

\* IsolateReadOutsideAnalyzer: read_ok, or denied on any OSError.
ProbeRead ==
  /\ at = "read" /\ at' = "write"
  /\ \E launch \in LaunchesOf(TRUE), ending \in Endings, reads \in BOOLEAN :
       /\ RunsAs(ending, launch, Count(reads))
       /\ read' = ProbeOf(launch, ending, reads, ~reads)
       /\ done' = [done EXCEPT !.read = reads]
  /\ UNCHANGED <<host, sockets, write, net, spawn, listen, listening, report>>

\* IsolateWriteOutsideAnalyzer: an OSError after the file was created is a
\* denial too.
ProbeWrite ==
  /\ at = "write" /\ at' = "network"
  /\ \E launch \in LaunchesOf(TRUE), ending \in Endings, creates, finishes \in BOOLEAN :
       /\ finishes => creates
       /\ RunsAs(ending, launch, Count(creates))
       /\ write' = ProbeOf(launch, ending, finishes, ~finishes)
       /\ done' = [done EXCEPT !.written = creates]
  /\ UNCHANGED <<host, sockets, read, net, spawn, listen, listening, report>>

\* IsolateNetworkAnalyzer: connects to the listeners and beyond the host, sends
\* to the receivers.  A datagram that was sent may not arrive.
ProbeNetwork ==
  /\ at = "network" /\ at' = "spawn"
  /\ \E launch \in LaunchesOf(TRUE), ending \in Endings, connected \in SUBSET listeners,
       sent \in SUBSET receivers, external \in BOOLEAN :
       /\ RunsAs(ending, launch, Cardinality(connected) + Cardinality(sent) + Count(external))
       /\ net' = IF ending = "completed"
                 THEN [launch |-> launch, launched |-> TRUE, completed |-> TRUE,
                       connected |-> connected, external |-> external, sent |-> sent]
                 ELSE [NoNet EXCEPT !.launch = IF ending = "not launched" THEN NoLaunch ELSE launch,
                                    !.launched = ending = "lost"]
       /\ \E arrived \in SUBSET sent :
            /\ inbox' = arrived
            /\ done' = [done EXCEPT !.channels =
                 ({"connect"} \X connected) \cup ({"udp"} \X arrived)
                   \cup (IF external THEN {<<"external", "ipv4">>} ELSE {})]
  /\ UNCHANGED <<host, listeners, receivers, read, write, spawn, listen, listening, report>>

\* IsolateSpawnAnalyzer: a process that was created but takes more than five
\* seconds is "denied" (TimeoutExpired is a SubprocessError).
ProbeSpawn ==
  /\ at = "spawn" /\ at' = "listen"
  /\ \E launch \in LaunchesOf(TRUE), ending \in Endings, spawns, slow \in BOOLEAN :
       /\ slow => ~spawns
       /\ RunsAs(ending, launch, Count(spawns \/ slow))
       /\ spawn' = ProbeOf(launch, ending, spawns, ~spawns)
       /\ done' = [done EXCEPT !.spawned = spawns, !.slow = slow]
  /\ UNCHANGED <<host, sockets, read, write, net, listen, listening, report>>

-----------------------------------------------------------------------------
(* probe_host_to_worker_listen *)

\* The helper is launched, or an exception ends the probe.
LaunchListen ==
  /\ at = "listen"
  /\ \/ /\ \E launch \in LaunchesOf(FALSE) :
             /\ listen' = [NoListen EXCEPT !.launch = launch, !.launched = TRUE]
             /\ Trouble(Count(~Expected(launch, FALSE)))
        /\ helper' = [NoHelper EXCEPT !.is = "starting"]
        /\ at' = "ready"
     \/ /\ listen' = [NoListen EXCEPT !.error = TRUE]
        /\ Trouble(1)
        /\ at' = "drain" /\ UNCHANGED helper
  /\ UNCHANGED <<host, sockets, read, write, net, spawn, endpoints, refused, done, report>>

\* It binds what it can and writes the ready file, if there is anything in it.
HelperBinds ==
  /\ helper.is = "starting"
  /\ \E bound \in SUBSET Families :
       /\ helper' = [is |-> "listening", open |-> bound, announced |-> bound]
       /\ Trouble(Cardinality(Families \ bound))
  /\ UNCHANGED <<host, at, sockets, probes, endpoints, refused, done, report>>

\* The families are accepted in this order.
Current(open) == IF "ipv4" \in open THEN "ipv4" ELSE "ipv6"

\* A connection is there, or nobody came in time: the socket is closed.
HelperCloses ==
  /\ helper.is = "listening" /\ helper.open # {}
  /\ LET f == Current(helper.open)
     IN /\ helper' = [helper EXCEPT !.open = @ \ {f}]
        /\ Trouble(Count(at = "ready" \/ f \in endpoints))
  /\ UNCHANGED <<host, at, sockets, probes, endpoints, refused, done, report>>

HelperAnswers ==
  /\ helper.is = "listening" /\ helper.open = {}
  /\ helper' = [helper EXCEPT !.is = "answered"]
  /\ UNCHANGED <<host, at, troubles, sockets, probes, endpoints, refused, done, report>>

\* It crashes, exits with another code, or answers what is refused.
HelperDies ==
  /\ helper.is \in {"starting", "listening"}
  /\ helper' = [helper EXCEPT !.is = "dead", !.open = {}]
  /\ Trouble(1)
  /\ UNCHANGED <<host, at, sockets, probes, endpoints, refused, done, report>>

\* The ready file is there and is accepted ...
ReadReady ==
  /\ at = "ready" /\ helper.announced # {}
  /\ listen' = [listen EXCEPT !.ready = TRUE,
       !.outcome["ipv6"] = IF "ipv6" \in helper.announced THEN "incomplete" ELSE @]
  /\ endpoints' = helper.announced
  /\ at' = "connect"
  /\ UNCHANGED <<host, troubles, sockets, read, write, net, spawn, helper, refused, done, report>>

\* ... or is refused (read half written, for one), or does not come in time.
NotReady ==
  /\ at = "ready"
  /\ Trouble(Count(helper.is = "starting" \/ helper.announced # {}))
  /\ at' = "wait"
  /\ UNCHANGED <<host, sockets, probes, listening, done, report>>

\* create_connection and sendall: both went through.
Connected(f) ==
  /\ f \in helper.open
  /\ listen' = [listen EXCEPT !.outcome[f] = "succeeded"]
  /\ done' = [done EXCEPT !.channels = @ \cup {<<"accept", f>>}]
  /\ Trouble(1)
  /\ UNCHANGED refused

\* An OSError: denied, timed out, nobody listens, or it broke before sendall was
\* over, which is one try with the connect: no connection anybody could use.  It
\* is incomplete until the helper's answer was seen.
Refused(f) ==
  /\ refused' = refused \cup {f}
  /\ listen' = [listen EXCEPT !.outcome[f] = "incomplete"]
  /\ UNCHANGED <<done, troubles>>

Connect ==
  /\ at = "connect" /\ endpoints # {}
  /\ LET f == Current(endpoints)
     IN /\ Connected(f) \/ Refused(f)
        /\ endpoints' = endpoints \ {f}
        /\ at' = IF endpoints = {f} THEN "wait" ELSE "connect"
  /\ UNCHANGED <<host, sockets, read, write, net, spawn, helper, report>>

\* The helper ended well: connects that failed are taken for denials
\* (_promote_connect_errors_to_denial).
HelperCompleted ==
  /\ helper.is = "answered"
  /\ listen' = [listen EXCEPT !.completed = TRUE,
       !.outcome = [f \in Families |->
          IF f \in refused /\ @[f] # "succeeded" THEN "denied" ELSE @[f]]]
  /\ UNCHANGED troubles

\* It did not, or not in time: an error, and no denials.
HelperLost ==
  /\ \/ helper.is = "dead" /\ UNCHANGED troubles
     \/ helper.is \in {"starting", "listening"} /\ Trouble(1)
  /\ listen' = [listen EXCEPT !.error = TRUE]

\* wait_or_timeout, finalize_listen_comm_from_helper, and the helper is gone.
WaitForHelper ==
  /\ at = "wait" /\ at' = "drain"
  /\ HelperCompleted \/ HelperLost
  /\ helper' = NoHelper
  /\ UNCHANGED <<host, sockets, read, write, net, spawn, endpoints, refused, done, report>>

\* drain_udp_receiver, for a number of rounds: other datagrams may use them up.
Drain ==
  /\ at = "drain" /\ at' = "finalize"
  /\ \E found \in SUBSET inbox : inbox' = found /\ Trouble(Cardinality(inbox \ found))
  /\ UNCHANGED <<host, listeners, receivers, probes, listening, done, report>>

-----------------------------------------------------------------------------
(* _finalize *)

HostWriteExists == done.written

Launched == {p \in {read, write, spawn} : p.launched} # {} \/ net.launched \/ listen.launched

\* The first mechanism there is; for the last-line check only.
ReportMechanism ==
  IF \E l \in {net.launch, listen.launch, read.launch, write.launch, spawn.launch} : l.mech # "none"
  THEN (CHOOSE l \in {net.launch, listen.launch, read.launch, write.launch, spawn.launch} :
          l.mech # "none").mech
  ELSE "none"

Safe(state) == reject_os_enforcement_without_mechanism(state, ReportMechanism)

NetworkState ==
  evaluate_network_restriction(
    NetworkClaim(net, listen),
    meaningful_network_success(net, listen, inbox),
    build_probe_completeness(net, listen, LocalhostConnect(net, listeners),
                             LocalhostUdp(net, receivers, inbox)),
    assess_network_mechanisms(net, listen))

Finalize ==
  /\ at = "finalize" /\ at' = "done"
  /\ report' =
       [fs |-> Safe(evaluate_filesystem_restriction(read.launch.claims.fs, read, write, HostWriteExists)),
        net |-> Safe(NetworkState),
        creation |-> Safe(evaluate_process_creation(spawn.launch.claims.creation, spawn)),
        boundary |-> evaluate_process_boundary(Launched)]
  /\ UNCHANGED <<host, troubles, sockets, probes, listening, done>>

Finished == at = "done" /\ UNCHANGED vars

Parent ==
  \/ Bind \/ ProbeRead \/ ProbeWrite \/ ProbeNetwork \/ ProbeSpawn
  \/ LaunchListen \/ ReadReady \/ NotReady \/ Connect \/ WaitForHelper
  \/ Drain \/ Finalize

Helper == HelperBinds \/ HelperCloses \/ HelperAnswers \/ HelperDies

Next == Parent \/ Helper \/ Finished

Spec == Init /\ [][Next]_vars

-----------------------------------------------------------------------------
(* Properties *)

\* Every variable has its type.
TypeOK ==
  /\ host \in HostType /\ at \in Stages /\ troubles \in 0 .. MaxTroubles
  /\ listeners \subseteq Families /\ receivers \subseteq Families /\ inbox \subseteq Families
  /\ read \in ProbeType /\ write \in ProbeType /\ spawn \in ProbeType
  /\ net \in NetType /\ listen \in ListenType
  /\ helper \in HelperType /\ endpoints \subseteq Families /\ refused \subseteq Families
  /\ done \in DoneType
  /\ report \in Report

\* "Never reports enforced unless the forbidden op failed" (status.py:46): an
\* operation that took place in any of the workers, seen or not, in a worker
\* that crashed or was not believed afterwards, is not reported as denied.  (A
\* process that was created but is slow to end is left out: see ProbeSpawn.)
EnforcedMeansFailed ==
  at = "done" =>
    /\ report.fs = "enforced" => ~done.read /\ ~done.written
    /\ report.net = "enforced" => done.channels = {}
    /\ report.creation = "enforced" => ~done.spawned

\* A network restriction is enforced only if every kind of channel was tried and
\* refused, by two workers of one confirmed mechanism that both finished: absence
\* of success alone is never a denial.
NetworkEnforcedIsProbed ==
  at = "done" /\ report.net = "enforced" =>
    /\ net.completed /\ listen.completed
    /\ net.launch.mech = listen.launch.mech
    /\ net.launch.mech = "appcontainer" => net.launch.token /\ listen.launch.token
    /\ "ipv4" \in listeners \cap receivers \cap refused
    /\ net.connected = {} /\ net.sent = {}

\* "Incomplete evidence stays degraded" (docs/SECURITY_MODEL.md:135): where both
\* network workers claim a restriction and nothing got through, the report does
\* not say that there is none.
IncompleteStaysDegraded ==
  at = "done" /\ done.channels = {}
    /\ {net.launch.claims.net, listen.launch.claims.net} \subseteq {"degraded", "enforced"}
  => report.net \in {"degraded", "enforced"}
=============================================================================
