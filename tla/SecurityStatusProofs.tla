------------------------ MODULE SecurityStatusProofs ------------------------
(***************************************************************************)
(* Proofs about SecurityStatus, for every platform, any number of troubles *)
(* and every way the probe workers end.                                    *)
(*                                                                         *)
(* done is not seen by the parent.  IInv says which of the records the     *)
(* parent has tell the truth about it: the answers of workers that         *)
(* completed (ProbesTell), and the outcome of each connection to the       *)
(* listen helper (ListenTells).  Finalize reports "enforced" only from     *)
(* these.                                                                  *)
(***************************************************************************)
EXTENDS SecurityStatus, FiniteSetTheorems, TLAPS

\* An answer that completed says what was done.  A datagram is only sent to a
\* receiver there is.
ProbesTell ==
  /\ read.completed => (done.read <=> read.ok)
  /\ spawn.completed => (done.spawned <=> spawn.ok)
  /\ net.completed =>
       /\ \A f \in Families : <<"connect", f>> \in done.channels => f \in net.connected
       /\ \A f \in Families : <<"udp", f>> \in done.channels => f \in net.sent
       /\ <<"external", "ipv4">> \in done.channels => net.external
  /\ net.sent \subseteq receivers
  /\ at = "bind" => net.sent = {}

BeforeConnecting == {"bind", "read", "write", "network", "spawn", "listen", "ready"}

\* A family that was connected to is recorded, and not tried again; a denial is
\* a connection that was tried.
ListenTells ==
  /\ \A f \in Families : <<"accept", f>> \in done.channels =>
       /\ listen.outcome[f] = "succeeded"
       /\ f \notin endpoints
       /\ at \notin BeforeConnecting
  /\ \A f \in Families : listen.outcome[f] = "denied" => f \in refused

IInv ==
  /\ TypeOK
  /\ ProbesTell
  /\ ListenTells
  /\ EnforcedMeansFailed
  /\ NetworkEnforcedIsProbed

-----------------------------------------------------------------------------
(* Types *)

\* The number of families in a set is a number.
LEMMA FamilyCount ==
  ASSUME NEW S \in SUBSET Families
  PROVE  Cardinality(S) \in Nat
<1>1. IsFiniteSet({"ipv4"}) /\ IsFiniteSet({"ipv6"})
  BY FS_Singleton
<1>2. IsFiniteSet({"ipv4"} \cup {"ipv6"})
  BY <1>1, FS_Union
<1>3. {"ipv4"} \cup {"ipv6"} = Families
  BY DEF Families
<1>4. IsFiniteSet(Families)
  BY <1>2, <1>3
<1>5. IsFiniteSet(S)
  BY <1>4, FS_Subset
<1> QED BY <1>5, FS_CardinalityType

\* Trouble keeps its type, and what it counts is a number.
LEMMA TroubleTyped ==
  ASSUME NEW n \in Nat, troubles \in 0 .. MaxTroubles, Trouble(n)
  PROVE  troubles' \in 0 .. MaxTroubles
BY TroubleAssumption DEF Trouble

LEMMA CountTyped ==
  ASSUME NEW b \in BOOLEAN
  PROVE  Count(b) \in Nat
BY DEF Count

\* Whatever a worker is launched as is a launch.
LEMMA LaunchTyped ==
  ASSUME host \in HostType, NEW b \in BOOLEAN, NEW launch \in LaunchesOf(b)
  PROVE  launch \in LaunchType
<1>1. ASSUME launch \in WindowsLaunches
      PROVE  launch \in LaunchType
  <2>1. PICK mech \in {"appcontainer", "restricted_token", "job-only"},
             confirmed, assigned \in BOOLEAN :
          launch = [mech |-> mech, token |-> mech = "appcontainer" /\ confirmed,
            claims |-> [fs |-> WindowsFilesystem(mech, confirmed),
                        net |-> IF mech = "appcontainer" THEN "degraded" ELSE "unsupported",
                        creation |-> IF assigned THEN "enforced" ELSE "degraded"]]
    BY <1>1 DEF WindowsLaunches
  <2>2. WindowsFilesystem(mech, confirmed) \in States
    BY DEF WindowsFilesystem, States
  <2>3. (mech = "appcontainer" /\ confirmed) \in BOOLEAN
    OBVIOUS
  <2>4. launch.claims \in ClaimsType
    BY <2>1, <2>2 DEF ClaimsType, States
  <2> QED BY <2>1, <2>3, <2>4 DEF LaunchType, Mechanisms
<1>2. \A fs, n \in States : UnixClaiming(fs, n) \in LaunchType
  BY DEF UnixClaiming, LaunchType, ClaimsType, States, Mechanisms
<1>3. UnixLaunch \in LaunchType
  BY <1>2 DEF UnixLaunch, States
<1>4. ASSUME launch \in AttestedLaunches
      PROVE  launch \in LaunchType
  <2>1. PICK fs, n \in {"unsupported", "failed", "applied"} :
          launch = UnixClaiming(Attested[fs], Attested[n])
    BY <1>4 DEF AttestedLaunches
  <2>2. Attested[fs] \in States /\ Attested[n] \in States
    BY DEF Attested, States
  <2> QED BY <2>1, <2>2, <1>2
<1> QED BY <1>1, <1>3, <1>4 DEF LaunchesOf

\* A probe's record has its type; if it completed it holds what was found.
LEMMA ProbeRecord ==
  ASSUME NEW launch \in LaunchType, NEW ending \in Endings,
         NEW ok \in BOOLEAN, NEW denied \in BOOLEAN
  PROVE  /\ ProbeOf(launch, ending, ok, denied) \in ProbeType
         /\ ProbeOf(launch, ending, ok, denied).completed =>
              ProbeOf(launch, ending, ok, denied).ok = ok
BY DEF ProbeOf, ProbeType, NoProbe, NoLaunch, NoClaims, LaunchType, ClaimsType, States,
   Mechanisms, Endings

\* The evaluations give states.
LEMMA StatesReported ==
  ASSUME TypeOK
  PROVE  /\ Safe(evaluate_filesystem_restriction(read.launch.claims.fs, read, write,
                   HostWriteExists)) \in States
         /\ Safe(NetworkState) \in States
         /\ Safe(evaluate_process_creation(spawn.launch.claims.creation, spawn)) \in States
<1>1. \A s \in States : Safe(s) \in States
  BY DEF Safe, reject_os_enforcement_without_mechanism, States
<1>2. /\ read.launch.claims.fs \in States
      /\ spawn.launch.claims.creation \in States
      /\ net.launch.claims.net \in States
  BY DEF TypeOK, ProbeType, NetType, LaunchType, ClaimsType
<1>3. evaluate_filesystem_restriction(read.launch.claims.fs, read, write, HostWriteExists) \in States
  BY <1>2 DEF evaluate_filesystem_restriction, Refuted, Weakened, States
<1>4. NetworkState \in States
  BY <1>2 DEF NetworkState, NetworkClaim, evaluate_network_restriction, Refuted, States
<1>5. evaluate_process_creation(spawn.launch.claims.creation, spawn) \in States
  BY <1>2 DEF evaluate_process_creation, Refuted, Weakened, States
<1> QED BY <1>1, <1>3, <1>4, <1>5
-----------------------------------------------------------------------------
(* What the report rests on *)

\* A restriction of the file system is reported only after two answers that
\* completed and found the operation denied.
LEMMA FilesystemEvidence ==
  ASSUME NEW claim, NEW hostWriteExists \in BOOLEAN, read \in ProbeType, write \in ProbeType,
         Safe(evaluate_filesystem_restriction(claim, read, write, hostWriteExists)) = "enforced"
  PROVE  read.completed /\ ~read.ok /\ ~hostWriteExists
<1>1. evaluate_filesystem_restriction(claim, read, write, hostWriteExists) = "enforced"
  BY DEF Safe, reject_os_enforcement_without_mechanism
<1>2. ~(read.ok \/ write.ok \/ hostWriteExists)
  BY <1>1 DEF evaluate_filesystem_restriction, Refuted
<1>3. Attempted(read)
  BY <1>1, <1>2 DEF evaluate_filesystem_restriction, Weakened
<1> QED BY <1>2, <1>3 DEF Attempted, probe_helper_complete, ProbeType

LEMMA CreationEvidence ==
  ASSUME NEW claim, spawn \in ProbeType,
         Safe(evaluate_process_creation(claim, spawn)) = "enforced"
  PROVE  spawn.completed /\ ~spawn.ok
<1>1. evaluate_process_creation(claim, spawn) = "enforced"
  BY DEF Safe, reject_os_enforcement_without_mechanism
<1>2. ~spawn.ok
  BY <1>1 DEF evaluate_process_creation, Refuted
<1>3. Attempted(spawn)
  BY <1>1, <1>2 DEF evaluate_process_creation, Weakened
<1> QED BY <1>2, <1>3 DEF Attempted, probe_helper_complete

\* A restriction of the network: both helpers completed under one mechanism,
\* nothing got through, and every channel has an outcome.
LEMMA NetworkEvidence ==
  ASSUME TypeOK, Safe(NetworkState) = "enforced"
  PROVE  /\ ~meaningful_network_success(net, listen, inbox)
         /\ build_probe_completeness(net, listen, LocalhostConnect(net, listeners),
                                      LocalhostUdp(net, receivers, inbox))
         /\ assess_network_mechanisms(net, listen)
<1> DEFINE success == meaningful_network_success(net, listen, inbox)
           complete == build_probe_completeness(net, listen, LocalhostConnect(net, listeners),
                                                LocalhostUdp(net, receivers, inbox))
           allow == assess_network_mechanisms(net, listen)
           claim == NetworkClaim(net, listen)
<1>1. evaluate_network_restriction(claim, success, complete, allow) = "enforced"
  BY DEF Safe, reject_os_enforcement_without_mechanism, NetworkState
<1>2. success \in BOOLEAN /\ complete \in BOOLEAN /\ allow \in BOOLEAN
  BY DEF TypeOK, NetType, ListenType, LaunchType, meaningful_network_success,
     build_probe_completeness, assess_network_mechanisms, Interpretable
<1> HIDE DEF success, complete, allow, claim
<1>3. ~success
  BY <1>1, <1>2 DEF evaluate_network_restriction, Refuted
<1>4. complete /\ allow
  BY <1>1, <1>2, <1>3 DEF evaluate_network_restriction
<1> QED BY <1>3, <1>4 DEF success, complete, allow

\* With complete evidence and no success, no datagram was sent and no connection
\* made, and the parent's own connections were refused.
LEMMA DenialEvidence ==
  ASSUME TypeOK, ProbesTell, ListenTells,
         ~meaningful_network_success(net, listen, inbox),
         build_probe_completeness(net, listen, LocalhostConnect(net, listeners),
                                  LocalhostUdp(net, receivers, inbox))
  PROVE  /\ net.completed /\ listen.completed
         /\ net.connected = {} /\ ~net.external /\ net.sent = {}
         /\ \A f \in Families : listen.outcome[f] # "succeeded"
         /\ "ipv4" \in listeners \cap receivers \cap refused
<1> DEFINE connect == LocalhostConnect(net, listeners)
           udp == LocalhostUdp(net, receivers, inbox)
<1>1. /\ net.completed /\ listen.completed
      /\ Interpretable(connect) /\ Interpretable(listen.outcome) /\ Interpretable(udp)
  BY DEF build_probe_completeness
<1>2. /\ net.connected = {} /\ ~net.external /\ inbox = {}
      /\ \A f \in Families : listen.outcome[f] # "succeeded"
  BY DEF meaningful_network_success
<1>3. "ipv4" \in Families /\ "ipv6" \in Families /\ Families = {"ipv4", "ipv6"}
  BY DEF Families
<1>4. "ipv4" \in listeners
  <2>1. connect["ipv4"] # "unavailable"
    BY <1>1 DEF Interpretable
  <2> QED BY <2>1, <1>3 DEF LocalhostConnect, classify_connect_outcome
<1>5. \A f \in Families :
        udp[f] = classify_udp_outcome(f \in receivers, f \in inbox, f \in net.sent, net.completed)
  BY DEF LocalhostUdp
<1>6. "ipv4" \in receivers /\ "ipv4" \notin net.sent
  BY <1>1, <1>2, <1>3, <1>5 DEF Interpretable, classify_udp_outcome
<1>7. "ipv6" \in receivers => "ipv6" \notin net.sent
  BY <1>1, <1>2, <1>3, <1>5 DEF Interpretable, classify_udp_outcome
<1>8. net.sent = {}
  BY <1>3, <1>6, <1>7 DEF ProbesTell, TypeOK, NetType
<1>9. "ipv4" \in refused
  BY <1>1, <1>2, <1>3 DEF Interpretable, ListenTells
<1> QED BY <1>1, <1>2, <1>4, <1>6, <1>8, <1>9

-----------------------------------------------------------------------------
(* Type correctness *)

\* However it ends, the run of a probe worker keeps the type of troubles.
LEMMA RunTyped ==
  ASSUME TypeOK, NEW ending \in Endings, NEW launch, NEW cost \in Nat,
         RunsAs(ending, launch, cost)
  PROVE  troubles' \in 0 .. MaxTroubles
<1> DEFINE m == Count(ending # "completed")
           k == Count(~Expected(launch, TRUE))
<1>1. m \in Nat /\ k \in Nat
  BY DEF Count
<1>2. Trouble(cost + m + k)
  BY DEF RunsAs
<1> HIDE DEF m, k
<1>3. cost + m + k \in Nat
  BY <1>1
<1> QED BY <1>2, <1>3, TroubleTyped DEF TypeOK

LEMMA InitTyped == Init => TypeOK
<1> SUFFICES ASSUME Init PROVE TypeOK
  OBVIOUS
<1>1. NoLaunch \in LaunchType
  BY DEF NoLaunch, NoClaims, LaunchType, ClaimsType, States, Mechanisms
<1>2. NoProbe \in ProbeType /\ NoNet \in NetType /\ NoListen \in ListenType
  BY <1>1 DEF NoProbe, NoNet, NoListen, ProbeType, NetType, ListenType, Outcomes
<1>3. NoHelper \in HelperType /\ NoReport \in Report
  BY DEF NoHelper, HelperType, NoReport, Report, States
<1>4. done \in DoneType
  BY DEF Init, DoneType
<1>5. troubles \in 0 .. MaxTroubles
  BY TroubleAssumption DEF Init
<1> QED BY <1>2, <1>3, <1>4, <1>5 DEF Init, TypeOK, Stages

LEMMA ProbesTyped ==
  ASSUME TypeOK, Bind \/ ProbeRead \/ ProbeWrite \/ ProbeNetwork \/ ProbeSpawn
  PROVE  TypeOK'
<1> USE DEF TypeOK
<1>1. CASE Bind
  <2>1. PICK tcp, udp \in SUBSET Families :
          /\ listeners' = tcp /\ receivers' = udp
          /\ Trouble(Cardinality(Families \ tcp) + Cardinality(Families \ udp))
    BY <1>1 DEF Bind, bind_udp_receivers
  <2>2. Families \ tcp \in SUBSET Families /\ Families \ udp \in SUBSET Families
    OBVIOUS
  <2>3. Cardinality(Families \ tcp) + Cardinality(Families \ udp) \in Nat
    BY <2>2, FamilyCount
  <2>4. troubles' \in 0 .. MaxTroubles
    BY <2>1, <2>3, TroubleTyped
  <2> QED BY <1>1, <2>1, <2>4 DEF Bind, bind_udp_receivers, Stages, probes, listening
<1>2. CASE ProbeRead
  <2>1. PICK launch \in LaunchesOf(TRUE), ending \in Endings, reads \in BOOLEAN :
          /\ RunsAs(ending, launch, Count(reads))
          /\ read' = ProbeOf(launch, ending, reads, ~reads)
          /\ done' = [done EXCEPT !.read = reads]
    BY <1>2 DEF ProbeRead
  <2>2. launch \in LaunchType
    BY LaunchTyped
  <2>3. read' \in ProbeType
    BY <2>1, <2>2, ProbeRecord
  <2>4. troubles' \in 0 .. MaxTroubles
    BY <2>1, CountTyped, RunTyped
  <2>5. done' \in DoneType
    BY <2>1 DEF DoneType
  <2> QED BY <1>2, <2>3, <2>4, <2>5 DEF ProbeRead, Stages, sockets, listening
<1>3. CASE ProbeWrite
  <2>1. PICK launch \in LaunchesOf(TRUE), ending \in Endings, creates, finishes \in BOOLEAN :
          /\ RunsAs(ending, launch, Count(creates))
          /\ write' = ProbeOf(launch, ending, finishes, ~finishes)
          /\ done' = [done EXCEPT !.written = creates]
    BY <1>3 DEF ProbeWrite
  <2>2. launch \in LaunchType
    BY LaunchTyped
  <2>3. write' \in ProbeType
    BY <2>1, <2>2, ProbeRecord
  <2>4. troubles' \in 0 .. MaxTroubles
    BY <2>1, CountTyped, RunTyped
  <2>5. done' \in DoneType
    BY <2>1 DEF DoneType
  <2> QED BY <1>3, <2>3, <2>4, <2>5 DEF ProbeWrite, Stages, sockets, listening
<1>4. CASE ProbeNetwork
  <2>0. PICK launch \in LaunchesOf(TRUE), ending \in Endings, connected \in SUBSET listeners,
             sent \in SUBSET receivers, external \in BOOLEAN :
          /\ RunsAs(ending, launch, Cardinality(connected) + Cardinality(sent) + Count(external))
          /\ net' = IF ending = "completed"
                    THEN [launch |-> launch, launched |-> TRUE, completed |-> TRUE,
                          connected |-> connected, external |-> external, sent |-> sent]
                    ELSE [NoNet EXCEPT !.launch = IF ending = "not launched" THEN NoLaunch ELSE launch,
                                       !.launched = ending = "lost"]
          /\ \E arrived \in SUBSET sent :
               /\ inbox' = arrived
               /\ done' = [done EXCEPT !.channels =
                    ({"connect"} \X connected) \cup ({"udp"} \X arrived)
                      \cup (IF external THEN {<<"external", "ipv4">>} ELSE {})]
    BY <1>4 DEF ProbeNetwork
  <2>1. PICK arrived \in SUBSET sent :
          /\ inbox' = arrived
          /\ done' = [done EXCEPT !.channels =
               ({"connect"} \X connected) \cup ({"udp"} \X arrived)
                 \cup (IF external THEN {<<"external", "ipv4">>} ELSE {})]
    BY <2>0
  <2>2. launch \in LaunchType /\ NoLaunch \in LaunchType
    BY LaunchTyped DEF NoLaunch, NoClaims, LaunchType, ClaimsType, States, Mechanisms
  <2>3. connected \in SUBSET Families /\ sent \in SUBSET Families /\ arrived \in SUBSET Families
    OBVIOUS
  <2>4. net' \in NetType
    BY <2>0, <2>2, <2>3 DEF NetType, NoNet
  <2>5. troubles' \in 0 .. MaxTroubles
    <3>1. Cardinality(connected) + Cardinality(sent) + Count(external) \in Nat
      BY <2>3, FamilyCount, CountTyped
    <3> QED BY <2>0, <3>1, RunTyped
  <2>6. done' \in DoneType
    <3>1. ({"connect"} \X connected) \cup ({"udp"} \X arrived)
            \cup (IF external THEN {<<"external", "ipv4">>} ELSE {})
          \in SUBSET ({"connect", "udp", "accept"} \X Families \cup {<<"external", "ipv4">>})
      BY <2>3
    <3> QED BY <2>1, <3>1 DEF DoneType
  <2> QED BY <1>4, <2>1, <2>3, <2>4, <2>5, <2>6 DEF ProbeNetwork, Stages, listening
<1>5. CASE ProbeSpawn
  <2>1. PICK launch \in LaunchesOf(TRUE), ending \in Endings, spawns, slow \in BOOLEAN :
          /\ RunsAs(ending, launch, Count(spawns \/ slow))
          /\ spawn' = ProbeOf(launch, ending, spawns, ~spawns)
          /\ done' = [done EXCEPT !.spawned = spawns, !.slow = slow]
    BY <1>5 DEF ProbeSpawn
  <2>2. launch \in LaunchType
    BY LaunchTyped
  <2>3. spawn' \in ProbeType
    BY <2>1, <2>2, ProbeRecord
  <2>4. troubles' \in 0 .. MaxTroubles
    BY <2>1, CountTyped, RunTyped
  <2>5. done' \in DoneType
    BY <2>1 DEF DoneType
  <2> QED BY <1>5, <2>3, <2>4, <2>5 DEF ProbeSpawn, Stages, sockets, listening
<1> QED BY <1>1, <1>2, <1>3, <1>4, <1>5

LEMMA ListenTyped ==
  ASSUME TypeOK,
         LaunchListen \/ ReadReady \/ NotReady \/ Connect \/ WaitForHelper \/ Helper
  PROVE  TypeOK'
<1> USE DEF TypeOK
<1>1. CASE LaunchListen
  <2>1. NoListen \in ListenType /\ NoHelper \in HelperType
    BY DEF NoListen, NoLaunch, NoClaims, NoHelper, HelperType, ListenType, LaunchType, ClaimsType, States, Mechanisms, Outcomes
  <2>2. CASE \E launch \in LaunchesOf(FALSE) :
               /\ listen' = [NoListen EXCEPT !.launch = launch, !.launched = TRUE]
               /\ Trouble(Count(~Expected(launch, FALSE)))
    <3>1. PICK launch \in LaunchesOf(FALSE) :
               /\ listen' = [NoListen EXCEPT !.launch = launch, !.launched = TRUE]
               /\ Trouble(Count(~Expected(launch, FALSE)))
      BY <2>2
    <3>2. listen' \in ListenType
      BY <2>1, <3>1, LaunchTyped DEF ListenType
    <3>3. troubles' \in 0 .. MaxTroubles
      <4>1. Count(~Expected(launch, FALSE)) \in Nat
        BY DEF Count
      <4> QED BY <3>1, <4>1, TroubleTyped
    <3>4. helper' \in HelperType /\ at' \in Stages
      BY <1>1, <2>1 DEF LaunchListen, HelperType, Stages
    <3> QED BY <1>1, <3>2, <3>3, <3>4 DEF LaunchListen, sockets
  <2>3. CASE listen' = [NoListen EXCEPT !.error = TRUE] /\ Trouble(1) /\ at' = "drain"
    <3>1. listen' \in ListenType
      BY <2>1, <2>3 DEF ListenType
    <3>2. troubles' \in 0 .. MaxTroubles
      BY <2>3, TroubleTyped
    <3>3. helper' \in HelperType
      BY <1>1, <2>1 DEF LaunchListen, HelperType
    <3> QED BY <1>1, <2>3, <3>1, <3>2, <3>3 DEF LaunchListen, sockets, Stages
  <2> QED BY <1>1, <2>2, <2>3 DEF LaunchListen
<1>2. CASE ReadReady
  <2>1. listen' \in ListenType
    BY <1>2 DEF ReadReady, ListenType, Families, Outcomes
  <2> QED BY <1>2, <2>1 DEF ReadReady, sockets, Stages, HelperType
<1>3. CASE NotReady
  <2>1. Count(helper.is = "starting" \/ helper.announced # {}) \in Nat
    BY DEF Count
  <2>2. troubles' \in 0 .. MaxTroubles
    BY <1>3, <2>1, TroubleTyped DEF NotReady
  <2> QED BY <1>3, <2>2 DEF NotReady, sockets, probes, listening, Stages
<1>4. CASE Connect
  <2> DEFINE f == Current(endpoints)
  <2>1. f \in Families
    BY DEF Current, Families
  <2>2. (Connected(f) \/ Refused(f)) /\ endpoints' = endpoints \ {f} /\ at' \in {"wait", "connect"}
    BY <1>4 DEF Connect
  <2> HIDE DEF f
  <2>3. CASE Connected(f)
    <3>1. listen' \in ListenType
      BY <2>1, <2>3 DEF Connected, ListenType, Outcomes
    <3>2. done' \in DoneType
      BY <2>1, <2>3 DEF Connected, DoneType
    <3>3. troubles' \in 0 .. MaxTroubles
      BY <2>3, TroubleTyped DEF Connected
    <3> QED BY <1>4, <2>2, <2>3, <3>1, <3>2, <3>3 DEF Connect, Connected, sockets, Stages
  <2>4. CASE Refused(f)
    <3>1. listen' \in ListenType
      BY <2>1, <2>4 DEF Refused, ListenType, Outcomes
    <3> QED BY <1>4, <2>1, <2>2, <2>4, <3>1 DEF Connect, Refused, sockets, Stages
  <2> QED BY <2>2, <2>3, <2>4
<1>5. CASE WaitForHelper
  <2>1. CASE HelperCompleted
    <3>1. [f \in Families |-> IF f \in refused /\ listen.outcome[f] # "succeeded" THEN "denied"
                             ELSE listen.outcome[f]] \in [Families -> Outcomes]
      BY DEF ListenType, Outcomes
    <3>2. listen' \in ListenType
      BY <2>1, <3>1 DEF HelperCompleted, ListenType
    <3> QED BY <1>5, <2>1, <3>2 DEF WaitForHelper, HelperCompleted, sockets, Stages, NoHelper, HelperType
  <2>2. CASE HelperLost
    <3>1. listen' \in ListenType
      BY <2>2 DEF HelperLost, ListenType
    <3>2. troubles' \in 0 .. MaxTroubles
      BY <2>2, TroubleTyped DEF HelperLost
    <3> QED BY <1>5, <2>2, <3>1, <3>2 DEF WaitForHelper, sockets, Stages, NoHelper, HelperType
  <2> QED BY <1>5, <2>1, <2>2 DEF WaitForHelper
<1>6. CASE Helper
  <2> USE DEF sockets, probes
  <2>1. CASE HelperBinds
    <3>1. PICK bound \in SUBSET Families :
            /\ helper' = [is |-> "listening", open |-> bound, announced |-> bound]
            /\ Trouble(Cardinality(Families \ bound))
      BY <2>1 DEF HelperBinds
    <3>2. Families \ bound \in SUBSET Families
      OBVIOUS
    <3>3. troubles' \in 0 .. MaxTroubles
      BY <3>1, <3>2, FamilyCount, TroubleTyped
    <3>4. helper' \in HelperType
      BY <3>1 DEF HelperType
    <3> QED BY <2>1, <3>3, <3>4 DEF HelperBinds
  <2>2. CASE HelperCloses
    <3> DEFINE f == Current(helper.open)
    <3>1. helper' = [helper EXCEPT !.open = @ \ {f}]
      BY <2>2 DEF HelperCloses
    <3>2. helper' \in HelperType
      BY <3>1 DEF HelperType
    <3>3. Count(at = "ready" \/ f \in endpoints) \in Nat
      BY DEF Count
    <3>4. troubles' \in 0 .. MaxTroubles
      BY <2>2, <3>3, TroubleTyped DEF HelperCloses
    <3> QED BY <2>2, <3>2, <3>4 DEF HelperCloses
  <2>3. CASE HelperAnswers
    BY <2>3 DEF HelperAnswers, HelperType
  <2>4. CASE HelperDies
    <3>1. troubles' \in 0 .. MaxTroubles
      BY <2>4, TroubleTyped DEF HelperDies
    <3> QED BY <2>4, <3>1 DEF HelperDies, HelperType
  <2> QED BY <1>6, <2>1, <2>2, <2>3, <2>4 DEF Helper
<1> QED BY <1>1, <1>2, <1>3, <1>4, <1>5, <1>6

LEMMA ReportTyped ==
  ASSUME TypeOK, Drain \/ Finalize \/ UNCHANGED vars
  PROVE  TypeOK'
<1>1. CASE Drain
  <2>1. PICK found \in SUBSET inbox : inbox' = found /\ Trouble(Cardinality(inbox \ found))
    BY <1>1 DEF Drain
  <2>2. inbox \ found \in SUBSET Families
    BY DEF TypeOK
  <2>3. troubles' \in 0 .. MaxTroubles
    BY <2>1, <2>2, FamilyCount, TroubleTyped DEF TypeOK
  <2> QED BY <1>1, <2>1, <2>3 DEF Drain, TypeOK, probes, listening, Stages
<1>2. CASE Finalize
  <2>1. report' \in Report
    BY <1>2, StatesReported DEF Finalize, Report, evaluate_process_boundary, States
  <2> QED BY <1>2, <2>1 DEF Finalize, TypeOK, sockets, probes, listening, Stages
<1>3. CASE UNCHANGED vars
  BY <1>3 DEF vars, TypeOK, sockets, probes, listening
<1> QED BY <1>1, <1>2, <1>3

LEMMA TypeStep ==
  ASSUME TypeOK, [Next]_vars
  PROVE  TypeOK'
BY ProbesTyped, ListenTyped, ReportTyped DEF Next, Parent, Finished

\* Every variable of a security-status report has its type.
THEOREM TypeCorrect == Spec => []TypeOK
BY InitTyped, TypeStep, PTL DEF Spec

-----------------------------------------------------------------------------
(* The records tell the truth *)

LEMMA InitTells == Init => ProbesTell /\ ListenTells
BY DEF Init, ProbesTell, ListenTells, NoProbe, NoNet, NoListen, Families

\* A probe that ran to its end and was believed says what it did.
LEMMA ProbesTellStep ==
  ASSUME TypeOK, ProbesTell, ListenTells,
         Bind \/ ProbeRead \/ ProbeWrite \/ ProbeNetwork \/ ProbeSpawn
  PROVE  ProbesTell' /\ ListenTells'
<1>1. CASE Bind
  <2>1. ProbesTell'
    BY <1>1 DEF Bind, bind_udp_receivers, ProbesTell, probes, TypeOK, NetType
  <2> QED BY <1>1, <2>1 DEF Bind, bind_udp_receivers, ListenTells, probes, listening, BeforeConnecting
<1>2. CASE ProbeRead
  <2>1. PICK launch \in LaunchesOf(TRUE), ending \in Endings, reads \in BOOLEAN :
          /\ read' = ProbeOf(launch, ending, reads, ~reads)
          /\ done' = [done EXCEPT !.read = reads]
    BY <1>2 DEF ProbeRead
  <2>2. read'.completed => read'.ok = reads
    BY <2>1, LaunchTyped, ProbeRecord DEF TypeOK
  <2>3. /\ done'.read = reads /\ done'.spawned = done.spawned
        /\ done'.channels = done.channels
    BY <2>1 DEF TypeOK, DoneType
  <2> QED BY <1>2, <2>2, <2>3 DEF ProbeRead, ProbesTell, ListenTells, sockets, listening, BeforeConnecting
<1>3. CASE ProbeWrite
  <2>1. PICK creates \in BOOLEAN : done' = [done EXCEPT !.written = creates]
    BY <1>3 DEF ProbeWrite
  <2>2. /\ done'.read = done.read /\ done'.spawned = done.spawned
        /\ done'.channels = done.channels
    BY <2>1 DEF TypeOK, DoneType
  <2> QED BY <1>3, <2>2 DEF ProbeWrite, ProbesTell, ListenTells, sockets, listening, BeforeConnecting
<1>4. CASE ProbeNetwork
  <2>1. PICK launch \in LaunchesOf(TRUE), ending \in Endings, connected \in SUBSET listeners,
             sent \in SUBSET receivers, external \in BOOLEAN :
          /\ RunsAs(ending, launch, Cardinality(connected) + Cardinality(sent) + Count(external))
          /\ net' = IF ending = "completed"
                    THEN [launch |-> launch, launched |-> TRUE, completed |-> TRUE,
                          connected |-> connected, external |-> external, sent |-> sent]
                    ELSE [NoNet EXCEPT !.launch = IF ending = "not launched" THEN NoLaunch ELSE launch,
                                       !.launched = ending = "lost"]
          /\ \E arrived \in SUBSET sent :
               /\ inbox' = arrived
               /\ done' = [done EXCEPT !.channels =
                    ({"connect"} \X connected) \cup ({"udp"} \X arrived)
                      \cup (IF external THEN {<<"external", "ipv4">>} ELSE {})]
    BY <1>4 DEF ProbeNetwork
  <2>2. PICK arrived \in SUBSET sent :
               done' = [done EXCEPT !.channels =
                    ({"connect"} \X connected) \cup ({"udp"} \X arrived)
                      \cup (IF external THEN {<<"external", "ipv4">>} ELSE {})]
    BY <2>1
  <2>3. /\ done'.read = done.read /\ done'.spawned = done.spawned
        /\ done'.channels = ({"connect"} \X connected) \cup ({"udp"} \X arrived)
                              \cup (IF external THEN {<<"external", "ipv4">>} ELSE {})
    BY <2>2 DEF TypeOK, DoneType
  <2>4. \A f \in Families :
          /\ <<"connect", f>> \in done'.channels => f \in connected
          /\ <<"udp", f>> \in done'.channels => f \in sent
          /\ <<"accept", f>> \notin done'.channels
    BY <2>3
  <2>5. <<"external", "ipv4">> \in done'.channels => external
    BY <2>3
  <2>6. net'.completed =>
          net'.connected = connected /\ net'.sent = sent /\ net'.external = external
    BY <2>1 DEF NoNet
  <2>7. net'.sent \subseteq receivers
    BY <2>1 DEF NoNet
  <2>8. /\ at' = "spawn" /\ read' = read /\ spawn' = spawn /\ receivers' = receivers
        /\ listen' = listen /\ refused' = refused
    BY <1>4 DEF ProbeNetwork, listening
  <2>9. ProbesTell'
    BY <2>3, <2>4, <2>5, <2>6, <2>7, <2>8 DEF ProbesTell
  <2>10. ListenTells'
    BY <2>4, <2>8 DEF ListenTells
  <2> QED BY <2>9, <2>10
<1>5. CASE ProbeSpawn
  <2>1. PICK launch \in LaunchesOf(TRUE), ending \in Endings, spawns, slow \in BOOLEAN :
          /\ spawn' = ProbeOf(launch, ending, spawns, ~spawns)
          /\ done' = [done EXCEPT !.spawned = spawns, !.slow = slow]
    BY <1>5 DEF ProbeSpawn
  <2>2. spawn'.completed => spawn'.ok = spawns
    BY <2>1, LaunchTyped, ProbeRecord DEF TypeOK
  <2>3. /\ done'.spawned = spawns /\ done'.read = done.read
        /\ done'.channels = done.channels
    BY <2>1 DEF TypeOK, DoneType
  <2> QED BY <1>5, <2>2, <2>3 DEF ProbeSpawn, ProbesTell, ListenTells, sockets, listening, BeforeConnecting
<1> QED BY <1>1, <1>2, <1>3, <1>4, <1>5

\* The parent's connections are recorded as they went, and only those that were
\* refused become denials.
LEMMA ListenTellsStep ==
  ASSUME TypeOK, ProbesTell, ListenTells,
         LaunchListen \/ ReadReady \/ NotReady \/ Connect \/ WaitForHelper
  PROVE  ProbesTell' /\ ListenTells'
<1>1. CASE LaunchListen
  <2>1. \A f \in Families : <<"accept", f>> \notin done'.channels
    BY <1>1 DEF LaunchListen, ListenTells, BeforeConnecting
  <2>2. \A f \in Families : listen'.outcome[f] # "denied"
    BY <1>1 DEF LaunchListen, NoListen
  <2> QED BY <1>1, <2>1, <2>2 DEF LaunchListen, ProbesTell, ListenTells, sockets
<1>2. CASE ReadReady
  <2>1. \A f \in Families : <<"accept", f>> \notin done'.channels
    BY <1>2 DEF ReadReady, ListenTells, BeforeConnecting
  <2>2. \A f \in Families : listen'.outcome[f] = "denied" => listen.outcome[f] = "denied"
    <3>1. listen'.outcome = [listen.outcome EXCEPT !["ipv6"] =
            IF "ipv6" \in helper.announced THEN "incomplete" ELSE @]
      BY <1>2 DEF ReadReady, TypeOK, ListenType
    <3>2. listen.outcome \in [Families -> Outcomes]
      BY DEF TypeOK, ListenType
    <3> QED BY <3>1, <3>2
  <2> QED BY <1>2, <2>1, <2>2 DEF ReadReady, ProbesTell, ListenTells, sockets
<1>3. CASE NotReady
  BY <1>3 DEF NotReady, ProbesTell, ListenTells, sockets, probes, listening, BeforeConnecting
<1>4. CASE Connect
  <2> DEFINE f == Current(endpoints)
  <2>1. f \in Families /\ f \in endpoints
    BY <1>4 DEF Current, Families, Connect, TypeOK
  <2>2. /\ Connected(f) \/ Refused(f)
        /\ endpoints' = endpoints \ {f} /\ at' \in {"wait", "connect"} /\ at = "connect"
        /\ read' = read /\ spawn' = spawn /\ net' = net /\ receivers' = receivers
    BY <1>4 DEF Connect, sockets
  <2> HIDE DEF f
  <2>3. CASE Connected(f)
    <3>1. /\ done'.channels = done.channels \cup {<<"accept", f>>}
          /\ done'.read = done.read /\ done'.spawned = done.spawned
      BY <2>3 DEF Connected, TypeOK, DoneType
    <3>2. \A g \in Families :
            listen'.outcome[g] = IF g = f THEN "succeeded" ELSE listen.outcome[g]
      BY <2>1, <2>3 DEF Connected, TypeOK, ListenType
    <3>3. refused' = refused
      BY <2>3 DEF Connected
    <3>4. ProbesTell'
      BY <2>2, <3>1 DEF ProbesTell
    <3>5. ListenTells'
      BY <2>2, <3>1, <3>2, <3>3 DEF ListenTells, BeforeConnecting
    <3> QED BY <3>4, <3>5
  <2>4. CASE Refused(f)
    <3>1. \A g \in Families :
            listen'.outcome[g] = IF g = f THEN "incomplete" ELSE listen.outcome[g]
      BY <2>1, <2>4 DEF Refused, TypeOK, ListenType
    <3>2. done' = done /\ refused' = refused \cup {f}
      BY <2>4 DEF Refused
    <3>3. <<"accept", f>> \notin done.channels
      BY <2>1 DEF ListenTells
    <3>4. ProbesTell'
      BY <2>2, <3>2 DEF ProbesTell
    <3>5. ListenTells'
      BY <2>2, <3>1, <3>2, <3>3 DEF ListenTells, BeforeConnecting
    <3> QED BY <3>4, <3>5
  <2> QED BY <2>2, <2>3, <2>4
<1>5. CASE WaitForHelper
  <2>1. /\ at' = "drain" /\ at = "wait" /\ done' = done /\ refused' = refused
        /\ endpoints' = endpoints
        /\ read' = read /\ spawn' = spawn /\ net' = net /\ receivers' = receivers
    BY <1>5 DEF WaitForHelper, sockets
  <2>2. \A f \in Families :
          /\ listen.outcome[f] = "succeeded" => listen'.outcome[f] = "succeeded"
          /\ listen'.outcome[f] = "denied" => f \in refused \/ listen.outcome[f] = "denied"
    <3>1. CASE HelperCompleted
      BY <3>1 DEF HelperCompleted, TypeOK, ListenType
    <3>2. CASE HelperLost
      BY <3>2 DEF HelperLost, TypeOK, ListenType
    <3> QED BY <1>5, <3>1, <3>2 DEF WaitForHelper
  <2> QED BY <2>1, <2>2 DEF ProbesTell, ListenTells, BeforeConnecting
<1> QED BY <1>1, <1>2, <1>3, <1>4, <1>5

LEMMA OtherTellsStep ==
  ASSUME ProbesTell, ListenTells, Helper \/ Drain \/ Finalize \/ UNCHANGED vars
  PROVE  ProbesTell' /\ ListenTells'
<1> USE DEF ProbesTell, ListenTells, BeforeConnecting, sockets, probes, listening
<1>1. CASE Helper
  <2>1. /\ at' = at /\ done' = done /\ listen' = listen /\ endpoints' = endpoints
        /\ refused' = refused /\ read' = read /\ spawn' = spawn /\ net' = net
        /\ receivers' = receivers
    BY <1>1 DEF Helper, HelperBinds, HelperCloses, HelperAnswers, HelperDies
  <2> QED BY <2>1
<1>2. CASE Drain
  BY <1>2 DEF Drain
<1>3. CASE Finalize
  BY <1>3 DEF Finalize
<1>4. CASE UNCHANGED vars
  BY <1>4 DEF vars
<1> QED BY <1>1, <1>2, <1>3, <1>4

-----------------------------------------------------------------------------
(* The invariant *)

\* The report is made from records that tell the truth.
LEMMA FinalizeStep ==
  ASSUME TypeOK, ProbesTell, ListenTells, Finalize
  PROVE  EnforcedMeansFailed' /\ NetworkEnforcedIsProbed'
<1>1. /\ report' = [fs |-> Safe(evaluate_filesystem_restriction(read.launch.claims.fs, read, write,
                               HostWriteExists)),
                    net |-> Safe(NetworkState),
                    creation |-> Safe(evaluate_process_creation(spawn.launch.claims.creation, spawn)),
                    boundary |-> evaluate_process_boundary(Launched)]
      /\ done' = done /\ net' = net /\ listen' = listen /\ listeners' = listeners
      /\ receivers' = receivers /\ refused' = refused
  BY DEF Finalize, probes, sockets, listening
<1>2. ASSUME report'.fs = "enforced"
      PROVE  ~done'.read /\ ~done'.written
  <2>1. Safe(evaluate_filesystem_restriction(read.launch.claims.fs, read, write, HostWriteExists))
          = "enforced"
    BY <1>1, <1>2
  <2>2. HostWriteExists \in BOOLEAN /\ read \in ProbeType /\ write \in ProbeType
    BY DEF HostWriteExists, TypeOK, DoneType
  <2>3. read.completed /\ ~read.ok /\ ~HostWriteExists
    BY <2>1, <2>2, FilesystemEvidence
  <2> QED BY <1>1, <2>3 DEF ProbesTell, HostWriteExists
<1>3. ASSUME report'.creation = "enforced"
      PROVE  ~done'.spawned
  <2>1. spawn.completed /\ ~spawn.ok
    BY <1>1, <1>3, CreationEvidence DEF TypeOK
  <2> QED BY <1>1, <2>1 DEF ProbesTell
<1>4. ASSUME report'.net = "enforced"
      PROVE  /\ done'.channels = {}
             /\ net.completed /\ listen.completed
             /\ assess_network_mechanisms(net, listen)
             /\ "ipv4" \in listeners \cap receivers \cap refused
             /\ net.connected = {} /\ net.sent = {}
  <2>1. Safe(NetworkState) = "enforced"
    BY <1>1, <1>4
  <2>2. /\ net.completed /\ listen.completed
        /\ net.connected = {} /\ ~net.external /\ net.sent = {}
        /\ \A f \in Families : listen.outcome[f] # "succeeded"
        /\ "ipv4" \in listeners \cap receivers \cap refused
    BY <2>1, NetworkEvidence, DenialEvidence
  <2>3. assess_network_mechanisms(net, listen)
    BY <2>1, NetworkEvidence
  <2>4. /\ \A f \in Families : /\ <<"connect", f>> \notin done.channels
                              /\ <<"udp", f>> \notin done.channels
                              /\ <<"accept", f>> \notin done.channels
        /\ <<"external", "ipv4">> \notin done.channels
    BY <2>2 DEF ProbesTell, ListenTells
  <2>5. done.channels \subseteq
          ({"connect", "udp", "accept"} \X Families \cup {<<"external", "ipv4">>})
    BY DEF TypeOK, DoneType
  <2>6. done.channels = {}
    <3>1. ASSUME NEW x \in done.channels
          PROVE  FALSE
      <4>1. CASE x = <<"external", "ipv4">>
        BY <2>4, <4>1
      <4>2. CASE x \in {"connect", "udp", "accept"} \X Families
        <5>1. PICK kind \in {"connect", "udp", "accept"}, f \in Families : x = <<kind, f>>
          BY <4>2
        <5> QED BY <2>4, <5>1
      <4> QED BY <2>5, <4>1, <4>2
    <3> QED BY <3>1
  <2> QED BY <1>1, <2>2, <2>3, <2>6
<1>5. EnforcedMeansFailed'
  BY <1>2, <1>3, <1>4 DEF EnforcedMeansFailed
<1>6. NetworkEnforcedIsProbed'
  BY <1>1, <1>4 DEF NetworkEnforcedIsProbed, assess_network_mechanisms
<1> QED BY <1>5, <1>6

\* No step but Finalize makes a report.
LEMMA ReportStep ==
  ASSUME TypeOK, ProbesTell, ListenTells, EnforcedMeansFailed, NetworkEnforcedIsProbed, [Next]_vars
  PROVE  EnforcedMeansFailed' /\ NetworkEnforcedIsProbed'
<1>1. CASE Finalize
  BY <1>1, FinalizeStep
<1>2. CASE Helper \/ UNCHANGED vars
  <2>1. /\ at' = at /\ done' = done /\ listen' = listen /\ refused' = refused /\ net' = net
        /\ receivers' = receivers /\ listeners' = listeners /\ report' = report
    BY <1>2 DEF Helper, HelperBinds, HelperCloses, HelperAnswers, HelperDies, vars, sockets, probes,
       listening
  <2> QED BY <2>1 DEF EnforcedMeansFailed, NetworkEnforcedIsProbed
<1>3. CASE Parent /\ ~Finalize
  <2>1. at' # "done"
    BY <1>3 DEF Parent, Bind, ProbeRead, ProbeWrite, ProbeNetwork, ProbeSpawn, LaunchListen,
       ReadReady, NotReady, Connect, WaitForHelper, Drain
  <2> QED BY <2>1 DEF EnforcedMeansFailed, NetworkEnforcedIsProbed
<1> QED BY <1>1, <1>2, <1>3 DEF Next, Finished

\* The invariant of a security-status report: the records of workers that
\* completed and of the parent's own connections are true.
THEOREM Invariant == Spec => []IInv
<1>1. Init => IInv
  BY InitTyped, InitTells DEF IInv, Init, EnforcedMeansFailed, NetworkEnforcedIsProbed
<1>2. IInv /\ [Next]_vars => IInv'
  <2> SUFFICES ASSUME IInv, [Next]_vars PROVE IInv'
    OBVIOUS
  <2>1. TypeOK'
    BY TypeStep DEF IInv
  <2>2. ProbesTell' /\ ListenTells'
    BY ProbesTellStep, ListenTellsStep, OtherTellsStep DEF IInv, Next, Parent, Finished
  <2>3. EnforcedMeansFailed' /\ NetworkEnforcedIsProbed'
    BY ReportStep DEF IInv
  <2> QED BY <2>1, <2>2, <2>3 DEF IInv
<1> QED BY <1>1, <1>2, PTL DEF Spec

\* "Never reports enforced unless the forbidden op failed" (status.py): what is
\* reported as enforced did not happen in any probe worker.
THEOREM EnforcedIsDenied == Spec => []EnforcedMeansFailed
<1>1. IInv => EnforcedMeansFailed
  BY DEF IInv
<1> QED BY <1>1, Invariant, PTL

\* The network is reported as restricted only after every channel was tried and
\* refused by two workers of one confirmed mechanism.
THEOREM NetworkIsProbed == Spec => []NetworkEnforcedIsProbed
<1>1. IInv => NetworkEnforcedIsProbed
  BY DEF IInv
<1> QED BY <1>1, Invariant, PTL
=============================================================================
