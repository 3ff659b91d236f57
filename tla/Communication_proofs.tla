------------------------ MODULE Communication_proofs ------------------------
(***************************************************************************)
(* What the tractor hears and says: AgIO's network, its NTRIP client, its  *)
(* serial ports, and the position that comes of what it hears.             *)
(*                                                                         *)
(* 1. The network for any subnets and any number of commands: the types,   *)
(*    the socket that is closed when UDP is off, and the command that      *)
(*    reaches the module wherever it is.  The last rests on where a        *)
(*    command may be: its shots fire one after the other, and between two  *)
(*    of them the user, the search, the socket and shots of other kinds go *)
(*    on.                                                                  *)
(* 2. The NTRIP client for any set of mount points, any number of retries  *)
(*    and any number of commands waiting: its safety invariants, which are *)
(*    inductive together with the types and with what the last command in  *)
(*    the queue says.                                                      *)
(* 3. The serial ports for any types, devices and number of workers: the   *)
(*    types, what a worker says of a dynamic port, and what is shown of a  *)
(*    port that is open.                                                   *)
(* 4. The position for any places, fields and switches between receiver    *)
(*    and simulator: whose it is, and how often it was corrected.          *)
(***************************************************************************)
EXTENDS AgIO, NTRIPWorker, SerialPorts, GPSFix, SequenceTheorems, TLAPS

(* A module that restarts has a shot waiting for it. *)
RestartIsAwaited == module.up \/ shots["restart"] > 0 \/ shots["verify"] > 0

Idle(ss) == \A s \in ss : shots[s] = 0

(* IP Set has called the module, or is about to. *)
Calling ==
    /\ shots["wake"] = 1 /\ Idle({"send", "auto", "restart", "verify"})
    /\ module.up /\ wire \subseteq {module.at}

(* Once the module's answer is in, AgIO knows where the module is: a search *)
(* that begins meanwhile forgets it, but is answered as well.               *)
Locating ==
    /\ shots["send"] = 1 /\ Idle({"wake", "auto", "restart", "verify"})
    /\ module.up /\ wire \subseteq {module.at}
    /\ wire = {} => discovered = module.at

(* Auto-Configure is about to send to everybody. *)
Summoning == Idle({"wake", "send", "restart", "verify"}) /\ module.up /\ shots["auto"] = 1

(* The module has kept the subnet it was told. *)
Moved == Idle({"wake", "send", "auto"}) /\ module.at = ethernet_ip

CommandInv == undisturbed => Calling \/ Locating \/ Summoning \/ Moved

IInv == TypeOK /\ NoSocketWhenStopped /\ RestartIsAwaited /\ CommandInv

----------------------------------------------------------------------------
(* The types and the socket. *)

LEMMA InitIInv == Init => IInv
<1> SUFFICES ASSUME Init PROVE IInv
  OBVIOUS
<1>1. shots \in [Shots -> Nat] /\ module \in [at : Subnets, up : BOOLEAN] /\ module.up
  BY DEF Init
<1>2. commands \in 0 .. MaxCommands
  BY BoundAssumption DEF Init
<1> QED
  BY <1>1, <1>2
  DEF Init, IInv, TypeOK, NoSocketWhenStopped, RestartIsAwaited, CommandInv

(* The shots stay numbers: one is fired only when there is one. *)
LEMMA ShotsFacts ==
    ASSUME TypeOK, NEW s \in Shots, NEW t \in Shots
    PROVE  /\ Started(s) \in [Shots -> Nat]
           /\ shots[s] > 0 => Fired(s) \in [Shots -> Nat]
           /\ shots[s] > 0 => Followed(s, t) \in [Shots -> Nat]
<1>1. shots \in [Shots -> Nat]
  BY DEF TypeOK
<1>2. Started(s) \in [Shots -> Nat]
  BY <1>1 DEF Started
<1>3. ASSUME shots[s] > 0 PROVE [shots EXCEPT ![s] = @ - 1] \in [Shots -> Nat]
  BY <1>1, <1>3
<1>4. ASSUME shots[s] > 0 PROVE Followed(s, t) \in [Shots -> Nat]
  <2>1. Followed(s, t) =
          [x \in Shots |-> IF x = t THEN shots[t] + 1
                           ELSE IF x = s THEN shots[s] - 1 ELSE shots[x]]
    BY <1>1 DEF Followed
  <2>2. shots[s] - 1 \in Nat /\ shots[t] + 1 \in Nat
    BY <1>1, <1>4
  <2> QED
    BY <1>1, <2>1, <2>2
<1> QED
  BY <1>2, <1>3, <1>4 DEF Fired

(* A search forgets what it found, and only when it begins. *)
LEMMA ScanFacts ==
    ASSUME TypeOK, ScanAllSubnets
    PROVE  /\ scanActive' \in BOOLEAN /\ scanTimer' \in BOOLEAN
           /\ discovered' \in Subnets \cup {Unknown}
           /\ scanActive' => discovered' = Unknown
           /\ wire' \in {wire, wire \cup Reply}
           /\ discovered' = discovered \/ wire' = wire \cup Reply
BY DEF TypeOK, ScanAllSubnets

(* What the module answers and keeps is its own subnet, or the one it is    *)
(* told.                                                                    *)
LEMMA ModuleFacts ==
    ASSUME TypeOK, NEW targets
    PROVE  /\ Reply \subseteq Subnets /\ Reply \subseteq {module.at}
           /\ module.up => Reply = {module.at}
           /\ Configured(targets) \in [at : Subnets, up : BOOLEAN]
           /\ ~Configured(targets).up => ~module.up \/ Configured(targets).at = ethernet_ip
           /\ module.up /\ module.at \in targets => Configured(targets).at = ethernet_ip
BY DEF TypeOK, Reply, Configured

(* UDP that is switched on or off has a socket only if it runs. *)
UdpOK ==
    /\ isRunning \in BOOLEAN /\ isUdpEnabled \in BOOLEAN /\ isBound \in BOOLEAN
    /\ isBound => isRunning
    /\ isRunning => isUdpEnabled

LEMMA UdpFacts ==
    ASSUME UdpOK, StartUDP \/ StopUDP \/ UNCHANGED udpVars
    PROVE  UdpOK'
<1>1. CASE StartUDP
  <2>1. CASE isRunning
    BY <1>1, <2>1 DEF StartUDP, UdpOK, udpVars
  <2>2. CASE ~isRunning
    <3>1. PICK bound \in BOOLEAN : isRunning' = bound /\ isBound' = bound
      BY <1>1, <2>2 DEF StartUDP
    <3>2. isUdpEnabled' = TRUE
      BY <1>1, <2>2 DEF StartUDP
    <3> QED
      BY <3>1, <3>2 DEF UdpOK
  <2> QED
    BY <2>1, <2>2
<1>2. CASE StopUDP
  BY <1>2 DEF StopUDP, UdpOK, udpVars
<1>3. CASE UNCHANGED udpVars
  BY <1>3 DEF UdpOK, udpVars
<1> QED
  BY <1>1, <1>2, <1>3

----------------------------------------------------------------------------
(* Types, the socket and the restart, action by action. *)

Basic == TypeOK /\ NoSocketWhenStopped /\ RestartIsAwaited

(* Basic in parts, each about the variables that change together. *)
ServiceOK == initialized \in BOOLEAN /\ workersReady \in BOOLEAN /\ ethernet_isOn \in BOOLEAN
AddressOK ==
    /\ udpBroadcastAddress \in Subnets \cup {Unknown}
    /\ tractorAddress \in Subnets \cup {Unknown}
ScanOK ==
    /\ scanActive \in BOOLEAN /\ scanTimer \in BOOLEAN
    /\ discovered \in Subnets \cup {Unknown}
    /\ scanActive => discovered = Unknown
ShotsOK == shots \in [Shots -> Nat] /\ RestartIsAwaited
ModuleOK == module \in [at : Subnets, up : BOOLEAN]
Counted == commands \in 0 .. MaxCommands

LEMMA Parts ==
    /\ Basic <=> /\ ServiceOK /\ UdpOK /\ AddressOK /\ ScanOK /\ ShotsOK /\ ModuleOK /\ Counted
                 /\ ethernet_ip \in Subnets /\ wire \subseteq Subnets
                 /\ shouldAutoConfigure \in BOOLEAN /\ undisturbed \in BOOLEAN
    /\ Basic' <=> /\ ServiceOK' /\ UdpOK' /\ AddressOK' /\ ScanOK' /\ ShotsOK' /\ ModuleOK' /\ Counted'
                  /\ ethernet_ip' \in Subnets /\ wire' \subseteq Subnets
                  /\ shouldAutoConfigure' \in BOOLEAN /\ undisturbed' \in BOOLEAN
BY Zenon DEF Basic, TypeOK, NoSocketWhenStopped, ServiceOK, UdpOK, AddressOK, ScanOK, ShotsOK,
   ModuleOK, Counted

LEMMA Kept ==
    ASSUME Basic
    PROVE  /\ UNCHANGED serviceVars => ServiceOK'
           /\ UNCHANGED udpVars => UdpOK'
           /\ UNCHANGED addressVars => AddressOK'
           /\ UNCHANGED <<discovered, scanActive, scanTimer>> => ScanOK'
           /\ UNCHANGED scanVars => ScanOK' /\ shouldAutoConfigure' = shouldAutoConfigure
           /\ UNCHANGED <<shots, module>> => ShotsOK'
           /\ UNCHANGED module => ModuleOK'
           /\ UNCHANGED commands => Counted'
<1>1. UNCHANGED serviceVars => ServiceOK'
  BY Parts DEF serviceVars, ServiceOK
<1>2. UNCHANGED udpVars => UdpOK'
  BY Parts DEF udpVars, UdpOK
<1>3. UNCHANGED addressVars => AddressOK'
  BY Parts DEF addressVars, AddressOK
<1>4. UNCHANGED <<discovered, scanActive, scanTimer>> => ScanOK'
  BY Parts DEF ScanOK
<1>5. UNCHANGED scanVars => UNCHANGED <<discovered, scanActive, scanTimer>>
                            /\ shouldAutoConfigure' = shouldAutoConfigure
  BY DEF scanVars
<1>6. UNCHANGED <<shots, module>> => ShotsOK'
  BY Parts DEF ShotsOK, RestartIsAwaited
<1>7. UNCHANGED module => ModuleOK'
  BY Parts DEF ModuleOK
<1>8. UNCHANGED commands => Counted'
  BY Parts DEF Counted
<1> QED
  BY <1>1, <1>2, <1>3, <1>4, <1>5, <1>6, <1>7, <1>8

(* A shot more loses none that is awaited. *)
LEMMA ShotMore ==
    ASSUME Basic, NEW s \in Shots, shots' = Started(s), UNCHANGED module
    PROVE  ShotsOK'
<1>1. TypeOK /\ RestartIsAwaited /\ shots \in [Shots -> Nat] /\ {"restart", "verify"} \subseteq Shots
  BY DEF Basic, TypeOK, Shots
<1>2. shots' \in [Shots -> Nat] /\ \A x \in Shots : shots'[x] >= shots[x]
  BY <1>1 DEF Started
<1> QED
  BY <1>1, <1>2 DEF ShotsOK, RestartIsAwaited

(* One that fires loses none but its own, and those are awaited by nobody   *)
(* or the module is up.                                                     *)
LEMMA ShotFired ==
    ASSUME Basic, NEW s \in Shots, shots[s] > 0, shots' = Fired(s), UNCHANGED module,
           s \in {"restart", "verify"} => module.up
    PROVE  ShotsOK'
<1>1. TypeOK /\ RestartIsAwaited /\ shots \in [Shots -> Nat] /\ {"restart", "verify"} \subseteq Shots
  BY DEF Basic, TypeOK, Shots
<1>2. shots' \in [Shots -> Nat] /\ \A x \in Shots \ {s} : shots'[x] = shots[x]
  BY <1>1, ShotsFacts DEF Fired
<1> QED
  BY <1>1, <1>2 DEF ShotsOK, RestartIsAwaited

(* One that is followed by another: the module may go down for it. *)
LEMMA ShotFollowed ==
    ASSUME Basic, NEW s \in Shots, NEW t \in Shots, shots[s] > 0, s # t, shots' = Followed(s, t),
           \/ UNCHANGED module /\ s \notin {"restart", "verify"}
           \/ t \in {"restart", "verify"}
    PROVE  ShotsOK'
<1>1. TypeOK /\ RestartIsAwaited /\ shots \in [Shots -> Nat] /\ {"restart", "verify"} \subseteq Shots
  BY DEF Basic, TypeOK, Shots
<1>2. shots' \in [Shots -> Nat]
  BY <1>1, ShotsFacts
<1>3. shots'[t] = shots[t] + 1 /\ \A x \in Shots \ {s, t} : shots'[x] = shots[x]
  BY <1>1 DEF Followed
<1>4. shots[t] \in Nat
  BY <1>1
<1> QED
  BY <1>1, <1>2, <1>3, <1>4 DEF ShotsOK, RestartIsAwaited

LEMMA NextBasic ==
    ASSUME Basic, [Next]_vars
    PROVE  Basic'
<1>0. TypeOK /\ {"initial", "rebind", "wake", "send", "restart", "auto", "verify"} \subseteq Shots
  BY DEF Basic, TypeOK, Shots
<1>u. UdpOK /\ ServiceOK /\ AddressOK /\ ScanOK /\ ShotsOK /\ ModuleOK /\ Counted
      /\ ethernet_ip \in Subnets /\ wire \subseteq Subnets
      /\ shouldAutoConfigure \in BOOLEAN /\ undisturbed \in BOOLEAN
  BY Parts
(* UDP that starts has an initial scan to come. *)
<1>s. ASSUME StartUDP, UNCHANGED module PROVE ShotsOK'
  <2>1. UNCHANGED shots \/ shots' = Started("initial")
    BY <1>s DEF StartUDP
  <2> QED
    BY <1>0, <1>s, <2>1, ShotMore, Kept
<1>1. CASE StartCommunication
  <2>1. /\ initialized' = TRUE /\ workersReady' = TRUE /\ UNCHANGED ethernet_isOn
        /\ udpBroadcastAddress' = ethernet_ip /\ tractorAddress' = ethernet_ip
        /\ StartUDP \/ UNCHANGED <<udpVars, shots>>
        /\ UNCHANGED <<ethernet_ip, scanVars, module, wire, commands, undisturbed>>
    BY <1>1 DEF StartCommunication
  <2>2. UdpOK'
    BY <1>u, <2>1, UdpFacts
  <2>3. ShotsOK'
    BY <1>s, <2>1, Kept
  <2>4. ServiceOK' /\ AddressOK'
    BY <1>u, <2>1 DEF ServiceOK, AddressOK
  <2> QED
    BY <1>u, <2>1, <2>2, <2>3, <2>4, Kept, Parts
<1>2. CASE StopCommunication
  <2>1. /\ initialized' = FALSE /\ UNCHANGED <<workersReady, ethernet_isOn>> /\ StopUDP
        /\ UNCHANGED <<ethernet_ip, addressVars, scanVars, shots, module, wire, commands,
                       undisturbed>>
    BY <1>2 DEF StopCommunication
  <2>2. UdpOK'
    BY <1>u, <2>1, UdpFacts
  <2>3. ServiceOK'
    BY <1>u, <2>1 DEF ServiceOK
  <2> QED
    BY <1>u, <2>1, <2>2, <2>3, Kept, Parts
<1>3. ASSUME NEW enable \in BOOLEAN, EnableUDP(enable) PROVE Basic'
  <2>1. /\ ethernet_isOn' = enable /\ tractorAddress' \in {tractorAddress, udpBroadcastAddress}
        /\ StartUDP \/ (UNCHANGED shots /\ (StopUDP \/ UNCHANGED udpVars))
        /\ UNCHANGED <<initialized, workersReady, ethernet_ip, udpBroadcastAddress, scanVars,
                       module, wire, commands, undisturbed>>
    BY <1>3 DEF EnableUDP
  <2>2. UdpOK'
    BY <1>u, <2>1, UdpFacts
  <2>3. ShotsOK'
    BY <1>s, <2>1, Kept
  <2>4. ServiceOK' /\ AddressOK'
    BY <1>u, <2>1 DEF ServiceOK, AddressOK
  <2> QED
    BY <1>u, <2>1, <2>2, <2>3, <2>4, Kept, Parts
<1>4. CASE OnUdpError
  <2>1. /\ isBound' = FALSE /\ UNCHANGED <<isRunning, isUdpEnabled>> /\ shots' = Started("rebind")
        /\ UNCHANGED <<serviceVars, ethernet_ip, addressVars, scanVars, module, wire,
                       commands, undisturbed>>
    BY <1>4 DEF OnUdpError
  <2>2. UdpOK' /\ ShotsOK'
    BY <1>0, <1>u, <2>1, ShotMore DEF UdpOK
  <2> QED
    BY <1>u, <2>1, <2>2, Kept, Parts
<1>5. CASE Rebind
  <2>1. /\ shots["rebind"] > 0 /\ shots' = Fired("rebind")
        /\ isBound' \in MayBind /\ UNCHANGED <<isRunning, isUdpEnabled>>
        /\ UNCHANGED <<serviceVars, ethernet_ip, addressVars, scanVars, module, wire,
                       commands, undisturbed>>
    BY <1>5 DEF Rebind
  <2>2. UdpOK'
    BY <1>u, <2>1 DEF UdpOK, MayBind
  <2>3. ShotsOK'
    BY <1>0, <2>1, ShotFired
  <2> QED
    BY <1>u, <2>1, <2>2, <2>3, Kept, Parts
<1>6. ASSUME NEW thenConfigure \in BOOLEAN, ScanModules(thenConfigure) PROVE Basic'
  <2>1. /\ ScanAllSubnets /\ shouldAutoConfigure' = (shouldAutoConfigure \/ thenConfigure)
        /\ UNCHANGED <<serviceVars, ethernet_ip, udpVars, addressVars, shots, module,
                       commands, undisturbed>>
    BY <1>6 DEF ScanModules
  <2>2. ScanOK' /\ wire' \subseteq Subnets
    BY <1>0, <1>u, <2>1, ScanFacts, ModuleFacts DEF ScanOK
  <2>3. shouldAutoConfigure' \in BOOLEAN
    BY <2>1
  <2> QED
    BY <1>u, <2>1, <2>2, <2>3, Kept, Parts
<1>7. CASE ScanTimeout
  <2>1. /\ ScanAllSubnets \/ (scanTimer' = FALSE /\ UNCHANGED <<discovered, scanActive, wire>>)
        /\ UNCHANGED <<serviceVars, ethernet_ip, udpVars, addressVars, shouldAutoConfigure,
                       shots, module, commands, undisturbed>>
    BY <1>7 DEF ScanTimeout
  <2>2. ScanOK' /\ wire' \subseteq Subnets
    <3>1. CASE ScanAllSubnets
      BY <1>0, <1>u, <3>1, ScanFacts, ModuleFacts DEF ScanOK
    <3>2. CASE scanTimer' = FALSE /\ UNCHANGED <<discovered, scanActive, wire>>
      BY <1>u, <3>2 DEF ScanOK
    <3> QED
      BY <2>1, <3>1, <3>2
  <2> QED
    BY <1>u, <2>1, <2>2, Kept, Parts
<1>8. ASSUME NEW subnet \in Subnets, SetIP(subnet) PROVE Basic'
  <2>1. /\ commands < MaxCommands /\ commands' = commands + 1 /\ ethernet_ip' = subnet
        /\ shots' = Started("wake") /\ undisturbed' = (Quiet /\ ~shouldAutoConfigure)
        /\ UNCHANGED <<serviceVars, udpVars, addressVars, scanVars, module, wire>>
    BY <1>8 DEF SetIP
  <2>2. Counted' /\ undisturbed' \in BOOLEAN
    BY <1>u, <2>1, BoundAssumption DEF Counted
  <2>3. ShotsOK'
    BY <1>0, <2>1, ShotMore
  <2> QED
    BY <1>u, <2>1, <2>2, <2>3, Kept, Parts
<1>9. CASE WakeShot
  <2>1. /\ shots["wake"] > 0 /\ shots' = Followed("wake", "send") /\ WakeUpModules
        /\ UNCHANGED <<serviceVars, ethernet_ip, udpVars, addressVars, scanVars, module,
                       commands, undisturbed>>
    BY <1>9 DEF WakeShot
  <2>2. ShotsOK' /\ wire' \subseteq Subnets
    BY <1>0, <1>u, <2>1, ShotFollowed, ModuleFacts DEF WakeUpModules
  <2> QED
    BY <1>u, <2>1, <2>2, Kept, Parts
<1>10. CASE SendPGN201ToAllInterfaces
  <2>1. /\ shots["send"] > 0 /\ shots' = Followed("send", "restart")
        /\ module' = Configured(Targets)
        /\ UNCHANGED <<serviceVars, ethernet_ip, udpVars, addressVars, scanVars, wire,
                       commands, undisturbed>>
    BY <1>10 DEF SendPGN201ToAllInterfaces
  <2>2. ShotsOK' /\ ModuleOK'
    BY <1>0, <2>1, ShotFollowed, ModuleFacts DEF ModuleOK
  <2> QED
    BY <1>u, <2>1, <2>2, Kept, Parts
<1>11. CASE HandleModuleRestart
  <2>1. /\ shots["restart"] > 0 /\ module.up /\ shots' = Fired("restart")
        /\ udpBroadcastAddress' = ethernet_ip /\ WakeUpModules
        /\ UNCHANGED <<serviceVars, ethernet_ip, udpVars, tractorAddress, scanVars, module,
                       commands, undisturbed>>
    BY <1>11 DEF HandleModuleRestart
  <2>2. ShotsOK' /\ wire' \subseteq Subnets
    BY <1>0, <1>u, <2>1, ShotFired, ModuleFacts DEF WakeUpModules
  <2>3. AddressOK'
    BY <1>u, <2>1 DEF AddressOK
  <2> QED
    BY <1>u, <2>1, <2>2, <2>3, Kept, Parts
<1>12. CASE SendPGN201ToDetectedModule
  <2>1. /\ shots["auto"] > 0 /\ shots' = Followed("auto", "verify")
        /\ module' = Configured(Subnets)
        /\ UNCHANGED <<serviceVars, ethernet_ip, udpVars, addressVars, scanVars, wire,
                       commands, undisturbed>>
    BY <1>12 DEF SendPGN201ToDetectedModule
  <2>2. ShotsOK' /\ ModuleOK'
    BY <1>0, <2>1, ShotFollowed, ModuleFacts DEF ModuleOK
  <2> QED
    BY <1>u, <2>1, <2>2, Kept, Parts
<1>13. CASE VerificationScan
  <2>1. /\ shots["verify"] > 0 /\ module.up /\ shots' = Fired("verify") /\ ScanAllSubnets
        /\ UNCHANGED <<serviceVars, ethernet_ip, udpVars, addressVars, shouldAutoConfigure,
                       module, commands, undisturbed>>
    BY <1>13 DEF VerificationScan
  <2>2. ShotsOK' /\ ScanOK' /\ wire' \subseteq Subnets
    BY <1>0, <1>u, <2>1, ShotFired, ScanFacts, ModuleFacts DEF ScanOK
  <2> QED
    BY <1>u, <2>1, <2>2, Kept, Parts
<1>14. CASE InitialScan
  <2>1. /\ shots["initial"] > 0 /\ shots' = Fired("initial") /\ WakeUpModules
        /\ UNCHANGED <<serviceVars, ethernet_ip, udpVars, addressVars, scanVars, module,
                       commands, undisturbed>>
    BY <1>14 DEF InitialScan
  <2>2. ShotsOK' /\ wire' \subseteq Subnets
    BY <1>0, <1>u, <2>1, ShotFired, ModuleFacts DEF WakeUpModules
  <2> QED
    BY <1>u, <2>1, <2>2, Kept, Parts
<1>15. ASSUME NEW from \in wire, OnScanReply(from) PROVE Basic'
  <2>1. /\ discovered' = from /\ scanActive' = FALSE /\ scanTimer' = (scanTimer /\ ~scanActive)
        /\ SubnetScanCompleted(wire \ {from})
        /\ UNCHANGED <<serviceVars, udpVars, addressVars, module>>
    BY <1>15 DEF OnScanReply
  <2>2. ScanOK'
    BY <1>u, <2>1 DEF ScanOK
  <2>3. CASE scanActive /\ shouldAutoConfigure
    <3>1. /\ commands < MaxCommands /\ commands' = commands + 1 /\ shouldAutoConfigure' = FALSE
          /\ ethernet_ip' = Home /\ shots' = Started("auto")
          /\ wire' = (wire \ {from}) \cup Reply
          /\ undisturbed' = (\A s \in Shots : shots[s] = 0)
      BY <2>1, <2>3 DEF SubnetScanCompleted
    <3>2. Counted' /\ ethernet_ip' \in Subnets /\ wire' \subseteq Subnets /\ undisturbed' \in BOOLEAN
      BY <1>0, <1>u, <3>1, BoundAssumption, SubnetAssumption, ModuleFacts DEF Counted
    <3>3. ShotsOK'
      BY <1>0, <2>1, <3>1, ShotMore
    <3> QED
      BY <1>u, <2>1, <2>2, <3>1, <3>2, <3>3, Kept, Parts
  <2>4. CASE ~(scanActive /\ shouldAutoConfigure)
    <3>1. /\ wire' = wire \ {from}
          /\ UNCHANGED <<commands, shouldAutoConfigure, ethernet_ip, shots, undisturbed>>
      BY <2>1, <2>4 DEF SubnetScanCompleted
    <3> QED
      BY <1>u, <2>1, <2>2, <3>1, Kept, Parts
  <2> QED
    BY <2>3, <2>4
<1>16. ASSUME NEW from \in wire, Lose(from) PROVE Basic'
  <2>1. /\ wire' = wire \ {from} /\ undisturbed' = FALSE
        /\ UNCHANGED <<serviceVars, ethernet_ip, udpVars, addressVars, scanVars, shots, module,
                       commands>>
    BY <1>16 DEF Lose
  <2> QED
    BY <1>u, <2>1, Kept, Parts
<1>17. CASE ModuleUp
  <2>1. /\ module' = [module EXCEPT !.up = TRUE]
        /\ UNCHANGED <<serviceVars, ethernet_ip, udpVars, addressVars, scanVars, shots, wire,
                       commands, undisturbed>>
    BY <1>17 DEF ModuleUp
  <2>2. ShotsOK' /\ ModuleOK'
    BY <1>u, <2>1 DEF ShotsOK, ModuleOK, RestartIsAwaited
  <2> QED
    BY <1>u, <2>1, <2>2, Kept, Parts
<1>18. CASE UNCHANGED vars
  BY <1>u, <1>18, Kept, Parts DEF vars
<1> QED
  BY <1>1, <1>2, <1>3, <1>4, <1>5, <1>6, <1>7, <1>8, <1>9, <1>10, <1>11, <1>12, <1>13,
     <1>14, <1>15, <1>16, <1>17, <1>18 DEF Next

----------------------------------------------------------------------------
(* Where a command is, action by action. *)

Chain == {"wake", "send", "auto", "restart", "verify"}

(* Steps that leave the chain of the command, the module and its subnet     *)
(* alone can only add the module's own answer and, with it, forget where it *)
(* was found.                                                               *)
LEMMA AsideKeepsCommand ==
    ASSUME CommandInv, RestartIsAwaited, undisturbed' = undisturbed,
           \A s \in Chain : shots'[s] = shots[s],
           module' = module, ethernet_ip' = ethernet_ip,
           Reply \subseteq {module.at}, module.up => Reply = {module.at},
           wire' \in {wire, wire \cup Reply},
           discovered' = discovered \/ wire' = wire \cup Reply
    PROVE  CommandInv'
<1> SUFFICES ASSUME undisturbed PROVE Calling' \/ Locating' \/ Summoning' \/ Moved'
  BY DEF CommandInv
<1> USE DEF Chain, Idle
<1>1. CASE Calling
  BY <1>1 DEF Calling
<1>2. CASE Locating
  <2>1. wire' \subseteq {module.at}
    BY <1>2 DEF Locating
  <2>2. wire' = {} => discovered' = module.at
    BY <1>2 DEF Locating
  <2> QED
    BY <1>2, <2>1, <2>2 DEF Locating
<1>3. CASE Summoning
  BY <1>3 DEF Summoning
<1>4. CASE Moved
  BY <1>4 DEF Moved
<1> QED
  BY <1>1, <1>2, <1>3, <1>4 DEF CommandInv

(* The steps that bring a command forward, and those that go on beside it.  *)
LEMMA NextCommandInv ==
    ASSUME Basic, CommandInv, [Next]_vars
    PROVE  CommandInv'
<1>0. /\ TypeOK /\ RestartIsAwaited
      /\ shots \in [Shots -> Nat]
      /\ Chain \cup {"initial", "rebind"} = Shots
  BY DEF Basic, TypeOK, Shots, Chain
<1>a. /\ Reply \subseteq {module.at}
      /\ module.up => Reply = {module.at}
  BY <1>0, ModuleFacts
<1>1. ASSUME NEW s \in {"initial", "rebind"},
             shots' \in {Started(s), Fired(s), shots}
      PROVE  \A t \in Chain : shots'[t] = shots[t]
  BY <1>0, <1>1 DEF Started, Fired, Chain
<1>2. CASE StartCommunication
  <2>1. shots' \in {Started("initial"), Fired("initial"), shots}
    BY <1>2 DEF StartCommunication, StartUDP
  <2> QED
    BY <1>0, <1>a, <1>1, <1>2, <2>1, AsideKeepsCommand DEF StartCommunication, scanVars
<1>3. CASE StopCommunication
  BY <1>0, <1>a, <1>3, AsideKeepsCommand DEF StopCommunication, scanVars
<1>4. ASSUME NEW enable \in BOOLEAN, EnableUDP(enable) PROVE CommandInv'
  <2>1. shots' \in {Started("initial"), Fired("initial"), shots}
    BY <1>4 DEF EnableUDP, StartUDP
  <2> QED
    BY <1>0, <1>a, <1>1, <1>4, <2>1, AsideKeepsCommand DEF EnableUDP, scanVars
<1>5. CASE OnUdpError \/ Rebind
  <2>1. shots' \in {Started("rebind"), Fired("rebind"), shots}
    BY <1>5 DEF OnUdpError, Rebind
  <2> QED
    BY <1>0, <1>a, <1>1, <1>5, <2>1, AsideKeepsCommand DEF OnUdpError, Rebind, scanVars
<1>6. ASSUME NEW thenConfigure \in BOOLEAN, ScanModules(thenConfigure) PROVE CommandInv'
  BY <1>0, <1>a, <1>6, ScanFacts, AsideKeepsCommand DEF ScanModules
<1>7. CASE ScanTimeout
  <2>1. CASE isRunning
    BY <1>0, <1>a, <1>7, <2>1, ScanFacts, AsideKeepsCommand DEF ScanTimeout
  <2>2. CASE ~isRunning
    BY <1>0, <1>a, <1>7, <2>2, AsideKeepsCommand DEF ScanTimeout
  <2> QED
    BY <2>1, <2>2
<1>8. ASSUME NEW subnet \in Subnets, SetIP(subnet) PROVE CommandInv'
  <2> SUFFICES ASSUME undisturbed' PROVE Calling'
    BY DEF CommandInv
  <2>1. Quiet
    BY <1>8 DEF SetIP
  <2>2. shots'["wake"] = 1 /\ \A s \in Chain \ {"wake"} : shots'[s] = 0
    BY <1>0, <1>8, <2>1 DEF SetIP, Started, Quiet, Chain
  <2> QED
    BY <1>8, <2>1, <2>2 DEF SetIP, Quiet, Answered, Calling, Idle, Chain
<1>9. CASE WakeShot
  <2> SUFFICES ASSUME undisturbed' PROVE Locating'
    BY DEF CommandInv
  <2>1. Calling
    BY <1>9 DEF WakeShot, CommandInv, Locating, Summoning, Moved, Idle
  <2>2. shots'["send"] = 1 /\ \A s \in Chain \ {"send"} : shots'[s] = 0
    BY <1>0, <1>9, <2>1 DEF WakeShot, Followed, Calling, Idle, Chain
  <2>3. wire' = {module.at} /\ module' = module
    BY <1>9, <1>a, <2>1 DEF WakeShot, WakeUpModules, Calling
  <2> QED
    BY <2>1, <2>2, <2>3 DEF Calling, Locating, Idle, Chain
<1>10. CASE SendPGN201ToAllInterfaces
  <2> SUFFICES ASSUME undisturbed' PROVE Moved'
    BY DEF CommandInv
  <2>1. Locating
    BY <1>10 DEF SendPGN201ToAllInterfaces, CommandInv, Calling, Summoning, Moved, Idle
  <2>2. discovered = module.at /\ discovered # Unknown
    BY <1>0, <1>10, <2>1, UnknownAssumption
    DEF SendPGN201ToAllInterfaces, Answered, Locating, TypeOK
  <2>3. module'.at = ethernet_ip
    BY <1>0, <1>10, <2>1, <2>2, ModuleFacts DEF SendPGN201ToAllInterfaces, Targets, Locating
  <2>4. shots'["wake"] = 0 /\ shots'["send"] = 0 /\ shots'["auto"] = 0
    BY <1>0, <1>10, <2>1 DEF SendPGN201ToAllInterfaces, Followed, Locating, Idle, Chain
  <2> QED
    BY <1>10, <2>3, <2>4 DEF SendPGN201ToAllInterfaces, Moved, Idle
<1>11. ASSUME HandleModuleRestart \/ VerificationScan PROVE CommandInv'
  <2> SUFFICES ASSUME undisturbed' PROVE Moved'
    BY DEF CommandInv
  <2>1. undisturbed /\ (shots["restart"] > 0 \/ shots["verify"] > 0)
    BY <1>11 DEF HandleModuleRestart, VerificationScan
  <2>2. Moved
    BY <2>1 DEF CommandInv, Calling, Locating, Summoning, Idle
  <2>3. shots'["wake"] = 0 /\ shots'["send"] = 0 /\ shots'["auto"] = 0
    BY <1>0, <1>11, <2>2
    DEF HandleModuleRestart, VerificationScan, Fired, Moved, Idle, Chain
  <2> QED
    BY <1>11, <2>2, <2>3 DEF HandleModuleRestart, VerificationScan, Moved, Idle
<1>12. CASE SendPGN201ToDetectedModule
  <2> SUFFICES ASSUME undisturbed' PROVE Moved'
    BY DEF CommandInv
  <2>1. Summoning
    BY <1>12 DEF SendPGN201ToDetectedModule, CommandInv, Calling, Locating, Moved, Idle
  <2>2. module.at \in Subnets /\ module.up
    BY <1>0, <2>1 DEF TypeOK, Summoning
  <2>3. module'.at = ethernet_ip
    BY <1>0, <1>12, <2>2, ModuleFacts DEF SendPGN201ToDetectedModule
  <2>4. shots'["wake"] = 0 /\ shots'["send"] = 0 /\ shots'["auto"] = 0
    BY <1>0, <1>12, <2>1 DEF SendPGN201ToDetectedModule, Followed, Summoning, Idle, Chain
  <2> QED
    BY <1>12, <2>3, <2>4 DEF SendPGN201ToDetectedModule, Moved, Idle
<1>13. CASE InitialScan
  <2>1. shots' \in {Started("initial"), Fired("initial"), shots}
    BY <1>13 DEF InitialScan
  <2> QED
    BY <1>0, <1>a, <1>1, <1>13, <2>1, AsideKeepsCommand
    DEF InitialScan, WakeUpModules, scanVars
<1>14. ASSUME NEW from \in wire, OnScanReply(from) PROVE CommandInv'
  <2> SUFFICES ASSUME undisturbed' PROVE Calling' \/ Locating' \/ Summoning' \/ Moved'
    BY DEF CommandInv
  <2>1. CASE scanActive /\ shouldAutoConfigure
    <3>1. \A s \in Shots : shots[s] = 0
      BY <1>14, <2>1 DEF OnScanReply, SubnetScanCompleted
    <3>2. shots'["auto"] = 1 /\ \A s \in Chain \ {"auto"} : shots'[s] = 0
      BY <1>0, <1>14, <2>1, <3>1 DEF OnScanReply, SubnetScanCompleted, Started, Chain
    <3>3. module'.up
      BY <1>0, <1>14, <3>1 DEF OnScanReply, RestartIsAwaited, Chain
    <3> QED
      BY <3>2, <3>3 DEF Summoning, Idle, Chain
  <2>2. CASE ~(scanActive /\ shouldAutoConfigure)
    <3>1. /\ shots' = shots /\ module' = module /\ ethernet_ip' = ethernet_ip
          /\ undisturbed /\ wire' \subseteq wire /\ discovered' = from
      BY <1>14, <2>2 DEF OnScanReply, SubnetScanCompleted
    <3>2. Locating => discovered' = module.at
      BY <1>14, <3>1 DEF Locating
    <3> QED
      BY <3>1, <3>2 DEF CommandInv, Calling, Locating, Summoning, Moved, Idle
  <2> QED
    BY <2>1, <2>2
<1>15. ASSUME NEW from \in wire, Lose(from) PROVE CommandInv'
  BY <1>15 DEF Lose, CommandInv
<1>16. CASE ModuleUp
  <2>1. module'.at = module.at /\ module'.up
    BY <1>0, <1>16 DEF ModuleUp, TypeOK
  <2> QED
    BY <1>16, <2>1
    DEF ModuleUp, scanVars, CommandInv, Calling, Locating, Summoning, Moved, Idle
<1>17. CASE UNCHANGED vars
  BY <1>17 DEF vars, scanVars, CommandInv, Calling, Locating, Summoning, Moved, Idle
<1> QED
  BY <1>2, <1>3, <1>4, <1>5, <1>6, <1>7, <1>8, <1>9, <1>10, <1>11, <1>12, <1>13, <1>14,
     <1>15, <1>16, <1>17 DEF Next

----------------------------------------------------------------------------
(* AgIO keeps its invariant in every state. *)
THEOREM Invariant == Spec => []IInv
<1>1. IInv /\ [Next]_vars => IInv'
  BY NextBasic, NextCommandInv DEF IInv, Basic
<1> QED
  BY InitIInv, <1>1, PTL DEF Spec

(* Every variable keeps its type, a search that goes on has found nothing,  *)
(* and every single shot that fires was started.                            *)
THEOREM TypeCorrect == Spec => []TypeOK
<1>1. IInv => TypeOK
  BY DEF IInv
<1> QED
  BY Invariant, <1>1, PTL

(* UDP that was switched off holds no socket, however many errors and       *)
(* starts have left their single shots behind (onUdpError, stopUDP).        *)
THEOREM NoSocket == Spec => []NoSocketWhenStopped
<1>1. IInv => NoSocketWhenStopped
  BY DEF IInv
<1> QED
  BY Invariant, <1>1, PTL

(* IP Set and Auto-Configure reach the module on any subnet, also one where *)
(* it would not be sought, and leave it on the subnet they name             *)
(* (configureSubnet, sendPGN201ToAllInterfaces, onSubnetScanCompleted).     *)
THEOREM CommandArrives == Spec => []CommandMovesModule
<1>1. IInv => CommandMovesModule
  <2> SUFFICES ASSUME IInv, undisturbed, Quiet PROVE module.at = ethernet_ip
    BY DEF CommandMovesModule
  <2>1. shots["wake"] = 0 /\ shots["send"] = 0 /\ shots["auto"] = 0
    BY DEF Quiet, Shots
  <2> QED
    BY <2>1 DEF IInv, CommandInv, Calling, Locating, Summoning, Moved
<1> QED
  BY Invariant, <1>1, PTL

----------------------------------------------------------------------------
(* 2. The NTRIP client.                                                     *)

(* The commands end with the settings applied last.                        *)
LastIsApplied == posted # <<>> => posted[Len(posted)] = applied

(* Only a socket that connects can have a close pending.                   *)
PendingWhileConnecting == pendingClose => socket = "Connecting"

(* Nothing of a response is left when a connection is made.                 *)
HeaderIsReset == socket = "Connecting" \/ ~m_isRunning => ~m_headerReceived

(* A running worker knows of a connection until it is down.                 *)
DisconnectedIsDown ==
    m_isRunning /\ m_connectionState = "Disconnected" => socket = "Unconnected"

(* The part of the invariant about the commands.                            *)
QueueInv ==
    /\ applied \in Mounts \cup {Off}
    /\ posted \in Seq(Mounts \cup {Off})
    /\ m_isRunning \in BOOLEAN
    /\ LastIsApplied
    /\ FollowsCommands

(* The part about the connection.                                           *)
ConnectionInv ==
    /\ m_isRunning \in BOOLEAN
    /\ m_ntripMount \in Mounts \cup {Off}
    /\ m_connectionState \in ConnectionState
    /\ m_headerReceived \in BOOLEAN
    /\ m_reconnectAttempts \in 0 .. MaxAttempts
    /\ m_reconnectTimer \in BOOLEAN
    /\ socket \in SocketState
    /\ pendingClose \in BOOLEAN
    /\ m_rtcmBuffer \in Held
    /\ spliced \in BOOLEAN
    /\ PendingWhileConnecting
    /\ HeaderIsReset
    /\ DisconnectedIsDown
    /\ RetryIsScheduled
    /\ StoppedIsQuiet
    /\ ReceivesAfterAcceptance
    /\ m_reconnectTimer => m_reconnectAttempts < MaxAttempts

NTRIPInv == QueueInv /\ ConnectionInv

(* The invariant holds at first.                                            *)
LEMMA InitNTRIPInv == NTRIPInit => NTRIPInv
<1> SUFFICES ASSUME NTRIPInit PROVE NTRIPInv
  OBVIOUS
<1>1. QueueInv
  <2>1. posted = <<>> /\ applied = Off /\ m_isRunning = FALSE
    BY DEF NTRIPInit
  <2>2. posted \in Seq(Mounts \cup {Off})
    BY <2>1
  <2>3. m_isRunning = (applied # Off)
    BY <2>1
  <2> QED
    BY <2>1, <2>2, <2>3 DEF QueueInv, LastIsApplied, FollowsCommands
<1>2. m_reconnectAttempts \in 0 .. MaxAttempts
  BY AttemptsAssumption DEF NTRIPInit
<1>3. ConnectionInv
  BY <1>2 DEF NTRIPInit, ConnectionInv, PendingWhileConnecting, HeaderIsReset,
        DisconnectedIsDown, RetryIsScheduled,
     StoppedIsQuiet, ReceivesAfterAcceptance, ConnectionState, SocketState, Held
<1> QED
  BY <1>1, <1>3 DEF NTRIPInv

(* Taking a command keeps the queue in order; when it was the last one, it  *)
(* was the one applied last.                                                *)
LEMMA TakeCommandOK ==
    ASSUME QueueInv, posted # <<>>, TakeCommand
    PROVE  /\ posted' \in Seq(Mounts \cup {Off})
           /\ applied' \in Mounts \cup {Off}
           /\ LastIsApplied'
           /\ posted' = <<>> => Head(posted) = applied'
<1>1. posted' \in Seq(Mounts \cup {Off}) /\ applied' \in Mounts \cup {Off}
  BY DEF QueueInv, TakeCommand
<1>2. posted[Len(posted)] = applied' /\ Len(posted) \in Nat /\ Len(posted) > 0
  BY DEF QueueInv, LastIsApplied, TakeCommand
<1>3. CASE Len(posted) = 1
  BY <1>2, <1>3 DEF QueueInv, LastIsApplied, TakeCommand
<1>4. CASE Len(posted) > 1
  <2>1. posted' = Tail(posted) /\ posted \in Seq(Mounts \cup {Off})
    BY DEF QueueInv, TakeCommand
  <2>2. Len(posted') = Len(posted) - 1
    BY <2>1, <1>2
  <2>3. \A i \in 1 .. Len(posted) - 1 : posted'[i] = posted[i + 1]
    BY <2>1, <1>2, <1>4
  <2>4. posted'[Len(posted')] = posted[Len(posted)]
    BY <2>2, <2>3, <1>2, <1>4
  <2>5. posted' # <<>>
    BY <2>2, <1>2, <1>4
  <2> QED
    BY <2>4, <2>5, <1>1, <1>2 DEF LastIsApplied
<1>5. Len(posted) = 1 \/ Len(posted) > 1
  <2>1. Len(posted) \in Nat /\ Len(posted) > 0
    BY <1>2
  <2> QED
    BY <2>1
<1>6. LastIsApplied' /\ (posted' = <<>> => Head(posted) = applied')
  BY <1>3, <1>4, <1>5
<1> QED
  BY <1>1, <1>6

(* The queue says whether the worker runs.                                  *)
LEMMA NextQueueInv ==
    ASSUME QueueInv, [NTRIPNext]_ntripVars
    PROVE  QueueInv'
<1>1. ASSUME NEW mount \in Mounts \cup {Off}, ConfigureNTRIP(mount) PROVE QueueInv'
  <2>1. posted' = Append(posted, mount) /\ applied' = mount /\ m_isRunning' = m_isRunning
    BY <1>1 DEF ConfigureNTRIP, runVars
  <2>2. posted' # <<>> /\ posted'[Len(posted')] = mount
    BY <2>1 DEF QueueInv
  <2> QED
    BY <2>1, <2>2 DEF QueueInv, LastIsApplied, FollowsCommands
<1>2. ASSUME posted # <<>>, TakeCommand, m_isRunning' = (Head(posted) # Off)
      PROVE  QueueInv'
  <2>1. m_isRunning' \in BOOLEAN
    BY <1>2
  <2> QED
    BY <1>2, <2>1, TakeCommandOK DEF QueueInv, FollowsCommands
<1>3. ASSUME NEW mount \in Mounts, StartNTRIP(mount) PROVE QueueInv'
  BY <1>2, <1>3, OffAssumption DEF StartNTRIP
<1>4. CASE StopNTRIP
  BY <1>2, <1>4 DEF StopNTRIP
<1>5. CASE IgnoreCommand
  BY <1>2, <1>5 DEF IgnoreCommand, runVars
<1>6. CASE UNCHANGED <<applied, posted, m_isRunning>>
  BY <1>6 DEF QueueInv, LastIsApplied, FollowsCommands
<1>7. ASSUME NEW isAccepted \in BOOLEAN, ProcessNtripResponse(isAccepted) PROVE QueueInv'
  BY <1>6, <1>7 DEF ProcessNtripResponse, commandVars, runVars
<1>8. CASE AttemptReconnect \/ OnTcpConnected \/ OnTcpError \/ OnTcpDisconnected
  BY <1>6, <1>8 DEF AttemptReconnect, OnTcpConnected, OnTcpError, OnTcpDisconnected,
     commandVars, runVars
<1>9. CASE OnTcpErrorDisconnected \/ OnTcpDataReceived \/ CheckConnectionStatus
  BY <1>6, <1>9 DEF OnTcpErrorDisconnected, OnTcpDataReceived, CheckConnectionStatus,
     commandVars, runVars
<1>10. CASE UNCHANGED ntripVars
  BY <1>6, <1>10 DEF ntripVars, commandVars, runVars
<1> QED
  BY <1>1, <1>3, <1>4, <1>5, <1>7, <1>8, <1>9, <1>10 DEF NTRIPNext, HandleCommand, ConnectEnds

(* A socket that is cleaned up goes down, unless it still connects.         *)
LEMMA CleanedUpFacts ==
    ASSUME socket \in SocketState, NEW left \in CleanedUp
    PROVE  /\ left \in SocketState
           /\ left # "Connected"
           /\ left = "Connecting" <=> socket = "Connecting"
BY DEF CleanedUp, SocketState

(* The timer and the socket agree with what the worker is doing.            *)
LEMMA NextConnectionInv ==
    ASSUME ConnectionInv, [NTRIPNext]_ntripVars
    PROVE  ConnectionInv'
<1> USE AttemptsAssumption, OffAssumption
    DEF ConnectionInv, PendingWhileConnecting, HeaderIsReset,
        DisconnectedIsDown, RetryIsScheduled, StoppedIsQuiet,
        ReceivesAfterAcceptance, ConnectionState, SocketState, Held, runVars, retryVars,
        socketVars, rtcmVars, MayRetry, Retry
<1>1. ASSUME NEW mount \in Mounts \cup {Off}, ConfigureNTRIP(mount) PROVE ConnectionInv'
  BY <1>1 DEF ConfigureNTRIP
<1>2. ASSUME NEW mount \in Mounts, StartNTRIP(mount) PROVE ConnectionInv'
  BY <1>2 DEF StartNTRIP, ConnectToHost
<1>3. CASE StopNTRIP
  <2>1. /\ m_isRunning' = FALSE /\ m_headerReceived' = FALSE
        /\ m_reconnectAttempts' = 0 /\ m_reconnectTimer' = FALSE
        /\ m_connectionState' = "Disconnected"
        /\ UNCHANGED <<m_ntripMount, m_rtcmBuffer, spliced>>
    BY <1>3 DEF StopNTRIP
  <2>2. /\ socket' \in SocketState
        /\ socket' # "Connected"
        /\ socket' = "Connecting" <=> socket = "Connecting"
    BY <1>3, CleanedUpFacts DEF StopNTRIP, CleanupConnection
  <2>3. pendingClose' \in BOOLEAN /\ (pendingClose' <=> pendingClose \/ socket = "Connecting")
    BY <1>3 DEF StopNTRIP, CleanupConnection
  <2>4. PendingWhileConnecting' /\ HeaderIsReset' /\ DisconnectedIsDown'
    BY <2>1, <2>2, <2>3
  <2>5. RetryIsScheduled' /\ StoppedIsQuiet' /\ ReceivesAfterAcceptance'
    BY <2>1, <2>2, <2>3
  <2>6. m_reconnectAttempts' \in 0 .. MaxAttempts
    BY <2>1
  <2> QED
    BY <2>1, <2>2, <2>3, <2>4, <2>5, <2>6
<1>4. CASE IgnoreCommand
  BY <1>4 DEF IgnoreCommand
<1>5. CASE AttemptReconnect
  <2>1. PICK left \in CleanedUp :
          /\ m_connectionState' = IF left # "Unconnected" THEN "Error" ELSE "Connecting"
          /\ socket' = IF left = "Unconnected" THEN "Connecting" ELSE left
          /\ m_reconnectTimer' \in BOOLEAN
          /\ m_reconnectTimer' => m_reconnectAttempts' < MaxAttempts
          /\ left # "Unconnected" /\ m_reconnectAttempts' < MaxAttempts => m_reconnectTimer'
    BY <1>5 DEF AttemptReconnect, ConnectToHost
  <2>2. m_reconnectAttempts' \in 0 .. MaxAttempts
    BY <1>5 DEF AttemptReconnect
  <2>3. socket' \in SocketState /\ socket' # "Unconnected"
    BY <2>1, CleanedUpFacts
  <2>4. pendingClose' \in BOOLEAN /\ (pendingClose' <=> socket = "Connecting")
    BY <1>5 DEF AttemptReconnect
  <2>5. pendingClose' => socket' = "Connecting"
    BY <2>1, <2>4, CleanedUpFacts
  <2>6. /\ m_isRunning /\ m_isRunning' = m_isRunning /\ m_ntripMount' = m_ntripMount
        /\ m_headerReceived' = FALSE
        /\ UNCHANGED <<m_rtcmBuffer, spliced>>
    BY <1>5 DEF AttemptReconnect
  <2> QED
    BY <2>1, <2>2, <2>3, <2>4, <2>5, <2>6
<1>6. CASE OnTcpConnected
  BY <1>6 DEF OnTcpConnected
<1>7. CASE OnTcpError
  <2>1. m_reconnectTimer' \in BOOLEAN /\ (m_reconnectTimer' <=> m_reconnectTimer \/ Retry)
    BY <1>7 DEF OnTcpError
  <2>2. RetryIsScheduled' /\ StoppedIsQuiet' /\ ReceivesAfterAcceptance'
    BY <1>7, <2>1 DEF OnTcpError
  <2>3. m_reconnectTimer' => m_reconnectAttempts' < MaxAttempts
    BY <1>7, <2>1 DEF OnTcpError
  <2> QED
    BY <1>7, <2>1, <2>2, <2>3 DEF OnTcpError
<1>8. CASE OnTcpDisconnected
  <2>1. /\ m_reconnectTimer' \in BOOLEAN
        /\ m_reconnectTimer' <=> m_reconnectTimer \/ (m_connectionState # "Disconnected" /\ Retry)
    BY <1>8 DEF OnTcpDisconnected
  <2> QED
    BY <1>8, <2>1 DEF OnTcpDisconnected
<1>9. CASE OnTcpErrorDisconnected
  BY <1>9 DEF OnTcpErrorDisconnected
<1>10. ASSUME NEW isAccepted \in BOOLEAN, ProcessNtripResponse(isAccepted)
       PROVE  ConnectionInv'
  BY <1>10 DEF ProcessNtripResponse, ProcessRTCMPackets
<1>11. CASE OnTcpDataReceived
  BY <1>11 DEF OnTcpDataReceived, ProcessRTCMPackets
<1>12. CASE CheckConnectionStatus
  BY <1>12 DEF CheckConnectionStatus
<1>13. CASE UNCHANGED ntripVars
  BY <1>13 DEF ntripVars
<1> QED
  BY <1>1, <1>2, <1>3, <1>4, <1>5, <1>6, <1>7, <1>8, <1>9, <1>10, <1>11, <1>12, <1>13
  DEF NTRIPNext, HandleCommand, ConnectEnds

(* The worker's invariant holds in every state.                             *)
THEOREM NTRIPInvariant == NTRIPSpec => []NTRIPInv
<1>1. NTRIPInv /\ [NTRIPNext]_ntripVars => NTRIPInv'
  BY NextQueueInv, NextConnectionInv DEF NTRIPInv
<1> QED
  BY InitNTRIPInv, <1>1, PTL DEF NTRIPSpec

(* Every variable keeps its type, and no more than MaxAttempts attempts to  *)
(* reconnect are made (onTcpDisconnected, onTcpError, attemptReconnect).    *)
THEOREM NTRIPTypeCorrect == NTRIPSpec => []NTRIPTypeOK
<1>1. NTRIPInv => NTRIPTypeOK
  BY DEF NTRIPInv, QueueInv, ConnectionInv, NTRIPTypeOK
<1> QED
  BY NTRIPInvariant, <1>1, PTL

(* The worker does what the last handled command says (startNTRIP,          *)
(* stopNTRIP), however many commands were posted and in whatever state they *)
(* found the socket.                                                        *)
THEOREM Follows == NTRIPSpec => []FollowsCommands
<1>1. NTRIPInv => FollowsCommands
  BY DEF NTRIPInv, QueueInv
<1> QED
  BY NTRIPInvariant, <1>1, PTL

(* A running worker that lost its connection has its reconnect timer        *)
(* running, until the attempts are used up.                                 *)
THEOREM Retries == NTRIPSpec => []RetryIsScheduled
<1>1. NTRIPInv => RetryIsScheduled
  BY DEF NTRIPInv, ConnectionInv
<1> QED
  BY NTRIPInvariant, <1>1, PTL

(* After stopNTRIP no timer and no connection is left that could bring the  *)
(* stream back.                                                             *)
THEOREM NTRIPQuiet == NTRIPSpec => []StoppedIsQuiet
<1>1. NTRIPInv => StoppedIsQuiet
  BY DEF NTRIPInv, ConnectionInv
<1> QED
  BY NTRIPInvariant, <1>1, PTL

(* processRtcmData runs only behind an accepted response, and every new     *)
(* connection reads its own (m_headerReceived).                             *)
THEOREM Accepted == NTRIPSpec => []ReceivesAfterAcceptance
<1>1. NTRIPInv => ReceivesAfterAcceptance
  BY DEF NTRIPInv, ConnectionInv
<1> QED
  BY NTRIPInvariant, <1>1, PTL

----------------------------------------------------------------------------
(* The serial ports.                                                       *)
(*                                                                         *)
(* The flag, the name and the device of a dynamic port change together in  *)
(* every function of the worker, since a port is closed as a whole before  *)
(* anything else is tried; and what waits in its buffer is of the device   *)
(* it is open on, since closing empties it.  None of it depends on what is *)
(* in the queues but that the calls are about ports there are.             *)
(*                                                                         *)
(* What is shown of a port lags behind it by two queues.  The last part    *)
(* sums each queue up by what it will have done when it is empty, and      *)
(* finds that the two agree on every port that is open.                    *)

Ports == [Workers -> [Types -> Port]]

(* What is known of a dynamic port, and that its buffer is its own. *)
Truthful(q) ==
    /\ q.flag = q.open
    /\ (q.name # None) = q.open
    /\ q.name = q.dev
    /\ q.rest \in {None, q.dev}

AllTruthful(p) == \A w \in Workers, t \in Types \ Legacy : Truthful(p[w][t])

(* Every reopening that is pending was ordered with a worker. *)
PortsInv == SerialTypeOK /\ AllTruthful(ports) /\ mixed \subseteq Legacy /\ reconnects <= worker

LEMMA InitPortsInv == SerialInit => PortsInv
<1> SUFFICES ASSUME SerialInit PROVE PortsInv
  OBVIOUS
<1>1. NoPort \in Port /\ Truthful(NoPort)
  BY DEF NoPort, Port, Name, Truthful
<1>2. ports \in Ports
  BY <1>1 DEF SerialInit, Ports
<1>3. SerialTypeOK
  <2>1. 0 \in 0..MaxWorkers /\ 0 \in 0..MaxEvents
    BY PortsAssumption
  <2>2. <<>> \in Seq(Call) /\ <<>> \in Seq(Signal)
    OBVIOUS
  <2>3. toWorker \in [Workers -> Seq(Call)] /\ connected \in [Types -> BOOLEAN]
    BY <2>2 DEF SerialInit
  <2> QED
    BY <1>2, <2>1, <2>2, <2>3 DEF SerialInit, SerialTypeOK, Ports
<1>4. AllTruthful(ports)
  BY <1>1 DEF SerialInit, AllTruthful
<1> QED
  BY <1>3, <1>4 DEF SerialInit, PortsInv

----------------------------------------------------------------------------
(* What the functions of the worker make of the ports. *)

(* One port is replaced. *)
LEMMA Replaced ==
    ASSUME NEW p \in Ports, NEW w \in Workers, NEW t \in Types, NEW q \in Port
    PROVE  /\ [p EXCEPT ![w][t] = q] \in Ports
           /\ [p EXCEPT ![w][t] = q][w][t] = q
           /\ AllTruthful(p) /\ (t \notin Legacy => Truthful(q))
                => AllTruthful([p EXCEPT ![w][t] = q])
<1> DEFINE new == [p EXCEPT ![w][t] = q]
<1>1. new \in Ports
  BY DEF Ports
<1>2. ASSUME NEW v \in Workers, NEW u \in Types
      PROVE  new[v][u] = IF v = w /\ u = t THEN q ELSE p[v][u]
  BY DEF Ports
<1>3. ASSUME AllTruthful(p), t \notin Legacy => Truthful(q) PROVE AllTruthful(new)
  BY <1>2, <1>3 DEF AllTruthful
<1> QED
  BY <1>1, <1>2, <1>3

(* A function of the worker is right that keeps the ports such and sends    *)
(* signals there are.                                                       *)
Right(done) == done.p \in Ports /\ AllTruthful(done.p) /\ done.signals \in Seq(Signal)

LEMMA SignalFacts ==
    ASSUME NEW t \in Types
    PROVE  /\ <<Connected(t, FALSE)>> \in Seq(Signal)
           /\ <<Connected(t, TRUE), Result(t, TRUE)>> \in Seq(Signal)
           /\ Result(t, FALSE) \in Signal /\ Connected(t, FALSE) \in Signal
           /\ [of |-> "error", type |-> t] \in Signal
           /\ [of |-> "close", type |-> t] \in Signal
<1>1. /\ \A v \in BOOLEAN : Connected(t, v) \in Signal /\ Result(t, v) \in Signal
      /\ [of |-> "error", type |-> t] \in Signal
      /\ [of |-> "close", type |-> t] \in Signal
  BY DEF Connected, Result, Signal
<1>2. ASSUME NEW a \in Signal, NEW b \in Signal
      PROVE  <<a>> \in Seq(Signal) /\ <<a, b>> \in Seq(Signal)
  OBVIOUS
<1>3. /\ Connected(t, FALSE) \in Signal /\ Result(t, FALSE) \in Signal
      /\ Connected(t, TRUE) \in Signal /\ Result(t, TRUE) \in Signal
  BY <1>1
<1> QED
  BY <1>1, <1>2, <1>3

LEMMA SignalLists ==
    ASSUME NEW list \in Seq(Signal), NEW a \in Signal, NEW b \in Signal
    PROVE  /\ <<a>> \in Seq(Signal) /\ <<a, b>> \in Seq(Signal)
           /\ Append(list, a) \in Seq(Signal)
           /\ list \o <<a, b>> \in Seq(Signal) /\ <<a>> \o list \in Seq(Signal)
OBVIOUS

LEMMA NoPortFacts == NoPort \in Port /\ Truthful(NoPort)
BY DEF NoPort, Port, Name, Truthful

LEMMA CloseLegacyRight ==
    ASSUME NEW p \in Ports, AllTruthful(p), NEW w \in Workers, NEW t \in Legacy
    PROVE  Right(CloseLegacy(p, w, t))
<1> DEFINE q == [NoPort EXCEPT !.rest = p[w][t].rest]
<1>1. t \in Types /\ p[w][t] \in Port
  BY DEF Ports, Legacy
<1>2. q \in Port
  BY <1>1 DEF NoPort, Port, Name
<1>3. [p EXCEPT ![w][t] = q] \in Ports /\ AllTruthful([p EXCEPT ![w][t] = q])
  BY <1>1, <1>2, Replaced
<1>4. <<Connected(t, FALSE)>> \in Seq(Signal)
  BY <1>1, SignalFacts
<1> QED
  BY <1>3, <1>4 DEF Right, CloseLegacy

LEMMA CloseDynamicRight ==
    ASSUME NEW p \in Ports, AllTruthful(p), NEW w \in Workers, NEW t \in Types
    PROVE  /\ Right(CloseDynamic(p, w, t))
           /\ CloseDynamic(p, w, t).p[w][t] = NoPort
<1>1. /\ [p EXCEPT ![w][t] = NoPort] \in Ports
      /\ AllTruthful([p EXCEPT ![w][t] = NoPort])
      /\ [p EXCEPT ![w][t] = NoPort][w][t] = NoPort
  BY NoPortFacts, Replaced
<1>2. <<Connected(t, FALSE)>> \in Seq(Signal)
  BY SignalFacts
<1> QED
  BY <1>1, <1>2 DEF Right, CloseDynamic

LEMMA OpenLegacyRight ==
    ASSUME NEW p \in Ports, AllTruthful(p), NEW w \in Workers, NEW t \in Legacy, NEW d \in Devices
    PROVE  Right(OpenLegacy(p, w, t, d))
<1> DEFINE q == p[w][t]
           closed == IF q.open THEN [q EXCEPT !.dev = None, !.open = FALSE] ELSE q
           freed == [p EXCEPT ![w][t] = closed]
           try == OpenPort(p, w, t, d)
<1>1. t \in Types /\ q \in Port
  BY DEF Ports, Legacy
<1>2. closed \in Port
  BY <1>1 DEF Port, Name
<1>3. freed \in Ports /\ AllTruthful(freed) /\ freed[w][t] = closed
  <2> HIDE DEF closed
  <2> QED
    BY <1>1, <1>2, Replaced
<1>4. ASSUME NEW x \in Port
      PROVE  [freed EXCEPT ![w][t] = x] \in Ports /\ AllTruthful([freed EXCEPT ![w][t] = x])
             /\ [freed EXCEPT ![w][t] = x][w][t] = x
  <2> HIDE DEF freed
  <2> QED
    BY <1>1, <1>3, Replaced
<1>5. CanOpen(d, freed) \in BOOLEAN
  BY DEF CanOpen
<1> DEFINE opened == [closed EXCEPT !.dev = IF CanOpen(d, freed) THEN d ELSE None,
                                    !.open = CanOpen(d, freed)]
<1>6. opened \in Port
  BY <1>2, <1>5 DEF Port, Name
<1>7. try.ok = CanOpen(d, freed) /\ try.p = [freed EXCEPT ![w][t] = opened]
  <2> DEFINE result == [freed EXCEPT ![w][t] = opened]
  <2>1. try = [ok |-> CanOpen(d, freed),
               p  |-> [freed EXCEPT ![w][t] =
                         [@ EXCEPT !.dev = IF CanOpen(d, freed) THEN d ELSE None,
                                   !.open = CanOpen(d, freed)]]]
    BY DEF OpenPort
  <2>2. freed[w][t] = closed
    BY <1>3
  <2> HIDE DEF freed, closed
  <2>3. try = [ok |-> CanOpen(d, freed), p |-> result]
    BY <2>1, <2>2, Zenon
  <2> HIDE DEF try, result
  <2>4. try.ok = CanOpen(d, freed) /\ try.p = result
    BY <2>3
  <2> QED
    BY <2>4 DEF result
<1>8. try.p \in Ports /\ AllTruthful(try.p) /\ try.p[w][t] \in Port
  <2> HIDE DEF try, freed, opened
  <2> QED
    BY <1>4, <1>6, <1>7
<1>9. [try.p EXCEPT ![w][t] = [try.p[w][t] EXCEPT !.flag = TRUE, !.name = d]] \in Ports
      /\ AllTruthful([try.p EXCEPT ![w][t] = [try.p[w][t] EXCEPT !.flag = TRUE, !.name = d]])
  <2>1. [try.p[w][t] EXCEPT !.flag = TRUE, !.name = d] \in Port
    BY <1>8 DEF Port, Name
  <2> HIDE DEF try
  <2> QED
    BY <2>1, <1>1, <1>8, Replaced
<1>10. <<Connected(t, TRUE), Result(t, TRUE)>> \in Seq(Signal) /\ <<Result(t, FALSE)>> \in Seq(Signal)
  <2>1. Result(t, FALSE) \in Signal /\ <<Connected(t, TRUE), Result(t, TRUE)>> \in Seq(Signal)
    BY <1>1, SignalFacts
  <2>2. \A a \in Signal : <<a>> \in Seq(Signal)
    BY SignalLists
  <2> QED
    BY <2>1, <2>2
<1> HIDE DEF try
<1> QED
  BY <1>8, <1>9, <1>10 DEF Right, OpenLegacy, try

LEMMA OpenDynamicRight ==
    ASSUME NEW p \in Ports, AllTruthful(p), NEW w \in Workers, NEW t \in Types, NEW d \in Devices
    PROVE  Right(OpenDynamic(p, w, t, d))
<1> DEFINE freed == IF p[w][t].dev = None THEN [p |-> p, signals |-> <<>>]
                                           ELSE CloseDynamic(p, w, t)
           q == [NoPort EXCEPT !.dev = d, !.open = TRUE, !.flag = TRUE, !.name = d]
<1>1. Right(freed)
  <2>1. Right([p |-> p, signals |-> <<>>])
    BY DEF Right
  <2> QED
    BY <2>1, CloseDynamicRight
<1>2. q \in Port /\ Truthful(q)
  BY PortsAssumption DEF NoPort, Port, Name, Truthful
<1> HIDE DEF freed, q
<1>3. [freed.p EXCEPT ![w][t] = q] \in Ports /\ AllTruthful([freed.p EXCEPT ![w][t] = q])
  BY <1>1, <1>2, Replaced DEF Right
<1>4. /\ freed.signals \o <<Connected(t, TRUE), Result(t, TRUE)>> \in Seq(Signal)
      /\ Append(freed.signals, Result(t, FALSE)) \in Seq(Signal)
  <2>1. freed.signals \in Seq(Signal)
    BY <1>1 DEF Right
  <2>2. /\ Result(t, FALSE) \in Signal
        /\ <<Connected(t, TRUE), Result(t, TRUE)>> \in Seq(Signal)
    BY SignalFacts
  <2>3. ASSUME NEW a \in Seq(Signal), NEW b \in Seq(Signal) PROVE a \o b \in Seq(Signal)
    OBVIOUS
  <2> QED
    BY <2>1, <2>2, <2>3, SignalLists
<1>5. Right([p |-> [freed.p EXCEPT ![w][t] = q],
             signals |-> freed.signals \o <<Connected(t, TRUE), Result(t, TRUE)>>])
  BY <1>3, <1>4 DEF Right
<1>6. Right([p |-> freed.p, signals |-> Append(freed.signals, Result(t, FALSE))])
  BY <1>1, <1>4 DEF Right
<1> QED
  BY <1>5, <1>6 DEF OpenDynamic, freed, q

LEMMA DoneRight ==
    ASSUME NEW p \in Ports, AllTruthful(p), NEW w \in Workers, NEW c \in Call
    PROVE  Right(Done(p, w, c))
<1>1. c.type \in Types /\ c.do \in {"open", "close"} /\ (c.do = "open" => c.dev \in Devices)
  BY DEF Call
<1>2. CASE c.do = "open" /\ c.type \in Legacy
  BY <1>1, <1>2, OpenLegacyRight DEF Done
<1>3. CASE c.do = "open" /\ c.type \notin Legacy
  BY <1>1, <1>3, OpenDynamicRight DEF Done
<1>4. CASE c.do = "close" /\ c.type \in Legacy
  BY <1>1, <1>4, CloseLegacyRight DEF Done
<1>5. CASE c.do = "close" /\ c.type \notin Legacy
  BY <1>1, <1>5, CloseDynamicRight DEF Done
<1> QED
  BY <1>1, <1>2, <1>3, <1>4, <1>5
----------------------------------------------------------------------------
(* The invariant. *)

(* Where the invariant holds after a step that leaves the ports alone. *)
LEMMA PortsLeftAlone ==
    ASSUME PortsInv, SerialTypeOK', ports' = ports, mixed' = mixed, reconnects' <= worker'
    PROVE  PortsInv'
BY DEF PortsInv, AllTruthful

(* What is posted is appended to the calls of the present worker. *)
LEMMA PostFacts ==
    ASSUME SerialTypeOK, NEW calls \in Seq(Call), Post(calls)
    PROVE  toWorker' \in [Workers -> Seq(Call)]
<1>1. toWorker \in [Workers -> Seq(Call)]
  BY DEF SerialTypeOK
<1>2. CASE worker \in Workers
  <2>1. toWorker[worker] \o calls \in Seq(Call)
    BY <1>1, <1>2
  <2> QED
    BY <1>1, <2>1 DEF Post
<1>3. CASE worker \notin Workers
  BY <1>1, <1>3 DEF Post
<1> QED
  BY <1>2, <1>3

LEMMA CallFacts ==
    ASSUME NEW t \in Types
    PROVE  /\ <<[do |-> "close", type |-> t]>> \in Seq(Call)
           /\ \A d \in Devices : <<[do |-> "open", type |-> t, dev |-> d]>> \in Seq(Call)
<1>1. [do |-> "close", type |-> t] \in Call
  BY DEF Call
<1>2. ASSUME NEW d \in Devices PROVE [do |-> "open", type |-> t, dev |-> d] \in Call
  BY DEF Call
<1>3. ASSUME NEW c \in Call PROVE <<c>> \in Seq(Call)
  OBVIOUS
<1> QED
  BY <1>1, <1>2, <1>3

LEMMA ReopenedFacts ==
    ASSUME SerialTypeOK, NEW t
    PROVE  Reopened(t) \in Seq(Call)
<1>1. CASE t \in Legacy /\ settings[t] # None
  <2>1. t \in Types /\ settings[t] \in Devices
    BY <1>1 DEF SerialTypeOK, Legacy, Name
  <2> QED
    BY <1>1, <2>1, CallFacts DEF Reopened
<1>2. CASE ~(t \in Legacy /\ settings[t] # None)
  BY <1>2 DEF Reopened
<1> QED
  BY <1>1, <1>2

LEMMA ClosingFacts ==
    ASSUME SerialTypeOK, NEW t \in Types, Closing(t)
    PROVE  /\ settings' \in [Types -> Name] /\ toWorker' \in [Workers -> Seq(Call)]
           /\ connected' \in [Types -> BOOLEAN] /\ portConnected' \in BOOLEAN
<1>1. toWorker' \in [Workers -> Seq(Call)]
  BY CallFacts, PostFacts DEF Closing
<1>2. settings' \in [Types -> Name]
  BY DEF Closing, SerialTypeOK, Name
<1>3. connected' \in [Types -> BOOLEAN] /\ portConnected' \in BOOLEAN
  BY DEF Closing, SerialTypeOK
<1> QED
  BY <1>1, <1>2, <1>3

LEMMA MainStepFacts ==
    ASSUME SerialTypeOK, MainStep
    PROVE  /\ settings' \in [Types -> Name] /\ toWorker' \in [Workers -> Seq(Call)]
           /\ connected' \in [Types -> BOOLEAN] /\ portConnected' \in BOOLEAN
           /\ toMain' \in Seq(Signal)
<1> DEFINE s == Head(toMain)
           rest == Tail(toMain)
<1>1. s \in Signal /\ rest \in Seq(Signal) /\ s.type \in Types
  <2>1. s \in Signal /\ rest \in Seq(Signal)
    BY DEF MainStep, SerialTypeOK
  <2> HIDE DEF s
  <2> QED
    BY <2>1 DEF Signal
<1>2. s.of \in {"connected", "result"} => s.ok \in BOOLEAN
  <2> HIDE DEF s
  <2> QED
    BY <1>1 DEF Signal
<1> HIDE DEF s, rest
<1>3. CASE OnConnected(s, rest)
  BY <1>1, <1>2, <1>3 DEF OnConnected, SerialTypeOK
<1>4. CASE OnPortOpenResult(s, rest)
  BY <1>1, <1>2, <1>4 DEF OnPortOpenResult, SerialTypeOK
<1>5. CASE OnSerialError(s, rest)
  BY <1>1, <1>5 DEF OnSerialError, SerialTypeOK
<1>6. CASE OnData(s, rest)
  <2>1. [of |-> "close", type |-> s.type] \in Signal
    BY <1>1, SignalFacts
  <2>2. Append(rest, [of |-> "close", type |-> s.type]) \in Seq(Signal)
    BY <1>1, <2>1, SignalLists
  <2> QED
    BY <1>1, <1>6, <2>2 DEF OnData, SerialTypeOK
<1>7. CASE OnClose(s, rest)
  BY <1>1, <1>7, ClosingFacts DEF OnClose
<1> QED
  BY <1>3, <1>4, <1>5, <1>6, <1>7 DEF MainStep, s, rest

(* The actions of the main thread, the user and the devices leave the ports *)
(* to the worker.                                                           *)
LEMMA OthersIInv ==
    ASSUME PortsInv,
           \/ StartSerial \/ StopSerial \/ Reconnect \/ MainStep
           \/ \E t \in Types : CloseSerialPort(t) \/ \E d \in Devices : OpenSerialPort(t, d)
           \/ \E d \in Devices : Unplug(d) \/ PlugIn(d)
    PROVE  PortsInv'
<1>1. SerialTypeOK /\ reconnects <= worker
  BY DEF PortsInv
<1>2. worker \in Nat /\ reconnects \in Nat /\ MaxWorkers \in Nat /\ events \in Nat /\ MaxEvents \in Nat
  BY <1>1, PortsAssumption DEF SerialTypeOK
<1>3. CASE StartSerial
  <2>1. SerialTypeOK' /\ reconnects' <= worker'
    BY <1>1, <1>2, <1>3 DEF StartSerial, SerialTypeOK
  <2> QED
    BY <1>3, <2>1, PortsLeftAlone DEF StartSerial
<1>4. CASE StopSerial
  <2>1. events' \in 0..MaxEvents
    BY <1>2, <1>4 DEF StopSerial, Event
  <2>2. SerialTypeOK'
    BY <1>1, <1>4, <2>1 DEF StopSerial, SerialTypeOK
  <2> QED
    BY <1>1, <1>4, <2>2, PortsLeftAlone DEF StopSerial
<1>5. CASE Reconnect
  <2>1. Reopened("GPS") \o Reopened("IMU") \o Reopened("Steer") \in Seq(Call)
    BY <1>1, ReopenedFacts
  <2>2. toWorker' \in [Workers -> Seq(Call)]
    BY <1>1, <1>5, <2>1, PostFacts DEF Reconnect
  <2>3. SerialTypeOK' /\ reconnects' <= worker'
    BY <1>1, <1>2, <1>5, <2>2 DEF Reconnect, SerialTypeOK
  <2> QED
    BY <1>5, <2>3, PortsLeftAlone DEF Reconnect
<1>6. CASE MainStep
  <2>1. SerialTypeOK'
    BY <1>1, <1>6, MainStepFacts DEF MainStep, SerialTypeOK
  <2> QED
    BY <1>1, <1>6, <2>1, PortsLeftAlone DEF MainStep
<1>7. ASSUME NEW t \in Types, CloseSerialPort(t) PROVE PortsInv'
  <2>1. Closing(t)
    BY <1>7 DEF CloseSerialPort
  <2>2. events' \in 0..MaxEvents
    BY <1>2, <1>7 DEF CloseSerialPort, Event
  <2>3. SerialTypeOK'
    BY <1>1, <1>7, <2>1, <2>2, ClosingFacts DEF CloseSerialPort, SerialTypeOK
  <2> QED
    BY <1>1, <1>7, <2>3, PortsLeftAlone DEF CloseSerialPort
<1>8. ASSUME NEW t \in Types, NEW d \in Devices, OpenSerialPort(t, d) PROVE PortsInv'
  <2>1. toWorker' \in [Workers -> Seq(Call)]
    BY <1>1, <1>8, CallFacts, PostFacts DEF OpenSerialPort
  <2>2. events' \in 0..MaxEvents /\ settings' \in [Types -> Name]
    BY <1>1, <1>2, <1>8 DEF OpenSerialPort, Event, SerialTypeOK, Name
  <2>3. SerialTypeOK'
    BY <1>1, <1>8, <2>1, <2>2 DEF OpenSerialPort, SerialTypeOK
  <2> QED
    BY <1>1, <1>8, <2>3, PortsLeftAlone DEF OpenSerialPort
<1>9. ASSUME NEW d \in Devices, Unplug(d) \/ PlugIn(d) PROVE PortsInv'
  <2>1. events' \in 0..MaxEvents /\ plugged' \subseteq Devices
    BY <1>1, <1>2, <1>9 DEF Unplug, PlugIn, Event, SerialTypeOK
  <2>2. SerialTypeOK'
    BY <1>1, <1>9, <2>1 DEF Unplug, PlugIn, SerialTypeOK
  <2> QED
    BY <1>1, <1>9, <2>2, PortsLeftAlone DEF Unplug, PlugIn
<1> QED
  BY <1>3, <1>4, <1>5, <1>6, <1>7, <1>8, <1>9

LEMMA WorkerIInv ==
    ASSUME PortsInv, NEW w \in Workers, WorkerStep(w)
    PROVE  PortsInv'
<1> DEFINE c == Head(toWorker[w])
           done == Done(ports, w, c)
<1>1. SerialTypeOK /\ AllTruthful(ports) /\ ports \in Ports
  BY DEF PortsInv, SerialTypeOK, Ports
<1>2. c \in Call /\ Tail(toWorker[w]) \in Seq(Call)
  BY <1>1 DEF WorkerStep, SerialTypeOK
<1> HIDE DEF c
<1>3. Right(done)
  BY <1>1, <1>2, DoneRight
<1>4. ports' = done.p /\ toMain' = toMain \o done.signals
  BY DEF WorkerStep, c
<1> HIDE DEF done
<1>5. ports' \in Ports /\ AllTruthful(ports') /\ toMain' \in Seq(Signal)
  BY <1>1, <1>3, <1>4 DEF Right, SerialTypeOK
<1>6. toWorker' \in [Workers -> Seq(Call)]
  BY <1>1, <1>2 DEF WorkerStep, SerialTypeOK
<1>7. SerialTypeOK'
  BY <1>1, <1>5, <1>6 DEF WorkerStep, SerialTypeOK, Ports
<1>8. AllTruthful(ports)'
  BY <1>5 DEF AllTruthful
<1> QED
  BY <1>7, <1>8 DEF PortsInv, WorkerStep

LEMMA ErrorIInv ==
    ASSUME PortsInv, NEW w \in Workers, NEW t \in Types, HandleSerialError(w, t)
    PROVE  PortsInv'
<1> DEFINE done == IF t \in Legacy THEN ErrorLegacy(w, t) ELSE ErrorDynamic(w, t)
<1>1. SerialTypeOK /\ AllTruthful(ports) /\ ports \in Ports /\ ports[w][t] \in Port
  BY DEF PortsInv, SerialTypeOK, Ports
<1>2. ASSUME t \in Legacy PROVE Right(ErrorLegacy(w, t))
  <2> DEFINE q == [ports[w][t] EXCEPT !.open = FALSE, !.flag = FALSE]
  <2>1. q \in Port
    BY <1>1 DEF Port
  <2>2. [ports EXCEPT ![w][t] = q] \in Ports /\ AllTruthful([ports EXCEPT ![w][t] = q])
    <3> HIDE DEF q
    <3> QED
      BY <1>1, <1>2, <2>1, Replaced
  <2>3. <<[of |-> "error", type |-> t], Connected(t, FALSE)>> \in Seq(Signal)
    <3>1. [of |-> "error", type |-> t] \in Signal /\ Connected(t, FALSE) \in Signal
      BY SignalFacts
    <3>2. \A a, b \in Signal : <<a, b>> \in Seq(Signal)
      BY SignalLists
    <3> QED
      BY <3>1, <3>2
  <2> QED
    BY <2>2, <2>3 DEF Right, ErrorLegacy
<1>3. Right(ErrorDynamic(w, t))
  <2> DEFINE closed == CloseDynamic(ports, w, t)
  <2>1. Right(closed)
    BY <1>1, CloseDynamicRight
  <2>2. closed = [p |-> closed.p, signals |-> closed.signals]
    BY DEF CloseDynamic
  <2> HIDE DEF closed
  <2>3. <<[of |-> "error", type |-> t]>> \o closed.signals \in Seq(Signal)
    <3>1. [of |-> "error", type |-> t] \in Signal /\ closed.signals \in Seq(Signal)
      BY <2>1, SignalFacts DEF Right
    <3> QED
      BY <3>1, SignalLists
  <2>4. Right([closed EXCEPT !.signals = <<[of |-> "error", type |-> t]>> \o @])
    BY <2>1, <2>2, <2>3 DEF Right
  <2> QED
    BY <2>4 DEF ErrorDynamic, closed
<1>4. Right(done)
  BY <1>2, <1>3
<1>5. ports' = done.p /\ toMain' = toMain \o done.signals
  BY DEF HandleSerialError
<1> HIDE DEF done
<1>6. ports' \in Ports /\ AllTruthful(ports') /\ toMain' \in Seq(Signal)
  BY <1>1, <1>4, <1>5 DEF Right, SerialTypeOK
<1>7. SerialTypeOK'
  BY <1>1, <1>6 DEF HandleSerialError, SerialTypeOK, Ports
<1>8. AllTruthful(ports)'
  BY <1>6 DEF AllTruthful
<1> QED
  BY <1>7, <1>8 DEF PortsInv, HandleSerialError

LEMMA DataIInv ==
    ASSUME PortsInv, NEW w \in Workers, NEW t \in Types, NEW complete \in BOOLEAN,
           DataReady(w, t, complete)
    PROVE  PortsInv'
<1> DEFINE q == ports[w][t]
           read == [q EXCEPT !.rest = Buffered(q, complete)]
<1>1. /\ SerialTypeOK /\ AllTruthful(ports) /\ ports \in Ports /\ q \in Port
      /\ q.open /\ q.dev \in Devices
  BY DEF PortsInv, SerialTypeOK, Ports, DataReady
<1>2. t \notin Legacy => Truthful(q)
  BY <1>1 DEF AllTruthful
<1>3. read \in Port
  BY <1>1 DEF Port, Name, Buffered
<1>4. t \notin Legacy => Truthful(read)
  BY <1>1, <1>2 DEF Truthful, Port, Buffered
<1>5. ports' = [ports EXCEPT ![w][t] = read]
  BY DEF DataReady
<1>6. ports' \in Ports /\ AllTruthful(ports')
  <2> HIDE DEF read
  <2> QED
    BY <1>1, <1>3, <1>4, <1>5, Replaced
<1>7. toMain' \in Seq(Signal)
  <2>1. [of |-> "data", type |-> t, dev |-> q.dev] \in Signal
    BY <1>1 DEF Signal
  <2> QED
    BY <1>1, <2>1 DEF DataReady, SerialTypeOK
<1>8. mixed' \subseteq Legacy
  BY <1>1, <1>2 DEF DataReady, PortsInv, Truthful
<1>9. SerialTypeOK'
  <2>1. events' \in 0..MaxEvents
    BY <1>1, PortsAssumption DEF DataReady, Event, SerialTypeOK
  <2> QED
    BY <1>1, <1>6, <1>7, <1>8, <2>1 DEF DataReady, SerialTypeOK, Ports, Legacy
<1>10. AllTruthful(ports)'
  BY <1>6 DEF AllTruthful
<1> QED
  BY <1>8, <1>9, <1>10 DEF PortsInv, DataReady

LEMMA Step == PortsInv /\ [SerialNext]_serialVars => PortsInv'
<1> SUFFICES ASSUME PortsInv, [SerialNext]_serialVars PROVE PortsInv'
  OBVIOUS
<1>1. CASE \E w \in Workers : WorkerStep(w)
  BY <1>1, WorkerIInv
<1>2. CASE \E w \in Workers, t \in Types :
              HandleSerialError(w, t) \/ \E c \in BOOLEAN : DataReady(w, t, c)
  BY <1>2, ErrorIInv, DataIInv
<1>3. CASE UNCHANGED serialVars
  BY <1>3 DEF serialVars, PortsInv, SerialTypeOK, AllTruthful
<1> QED
  BY <1>1, <1>2, <1>3, OthersIInv DEF SerialNext

THEOREM PortsInvariant == SerialSpec => []PortsInv
BY InitPortsInv, Step, PTL DEF SerialSpec

(* The queues carry calls and signals there are, of ports there are, and no *)
(* more reopenings are pending than workers were made.                      *)
THEOREM SerialTypeCorrect == SerialSpec => []SerialTypeOK
<1>1. PortsInv => SerialTypeOK
  BY DEF PortsInv
<1> QED
  BY <1>1, PortsInvariant, PTL

(* What the worker says of a dynamic port is so, whatever failed to open,   *)
(* was opened again or was pulled out (openDynamicPort, closeDynamicPort,   *)
(* handleDynamicPortError).                                                 *)
THEOREM DynamicTruth == SerialSpec => []DynamicPortsTellTheTruth
<1>1. PortsInv => DynamicPortsTellTheTruth
  BY DEF PortsInv, AllTruthful, Truthful, DynamicPortsTellTheTruth
<1> QED
  BY <1>1, PortsInvariant, PTL

----------------------------------------------------------------------------
(* What is shown of a port, once the queues are empty.                      *)
(*                                                                          *)
(* Each queue is summed up by what its events will have done: the last call *)
(* for a port, and the last signal that says whether it is connected.       *)
Calls(q, t) == \E i \in 1 .. Len(q) : q[i].type = t

(* The last call for t, if it is to open it, opens d. *)
LastOpens(q, t, d) ==
    \A i \in 1 .. Len(q) :
        q[i].type = t /\ q[i].do = "open" /\ (\A j \in 1 .. Len(q) : j > i => q[j].type # t)
            => q[i].dev = d

(* The signals that change what is shown of t, but for the closing of a     *)
(* port that has another module on it.                                      *)
Determines(s, t) ==
    /\ s.type = t
    /\ IF t = "GPS" THEN s.of = "result"
       ELSE s.of = "connected" \/ (s.of = "error" /\ t \in Legacy)

Silent(q, t) == \A i \in 1 .. Len(q) : ~Determines(q[i], t)
SaysOpen(s, t) == Determines(s, t) /\ s.of # "error" /\ s.ok
LastSaysOpen(q, t) ==
    \E i \in 1 .. Len(q) : SaysOpen(q[i], t)
                          /\ \A j \in 1 .. Len(q) : j > i => ~Determines(q[j], t)
WillClose(q, t) == \E i \in 1 .. Len(q) : q[i].of = "close" /\ q[i].type = t

LEMMA TailIndices ==
    ASSUME NEW S, NEW q \in Seq(S), q # <<>>
    PROVE  /\ Tail(q) \in Seq(S) /\ Head(q) = q[1] /\ Len(q) \in Nat /\ Len(q) >= 1
           /\ Len(Tail(q)) = Len(q) - 1
           /\ \A i \in 1 .. Len(Tail(q)) : Tail(q)[i] = q[i + 1]
OBVIOUS

LEMMA JoinIndices ==
    ASSUME NEW S, NEW q \in Seq(S), NEW r \in Seq(S)
    PROVE  /\ q \o r \in Seq(S) /\ Len(q) \in Nat /\ Len(r) \in Nat
           /\ Len(q \o r) = Len(q) + Len(r)
           /\ \A i \in 1 .. Len(q) : (q \o r)[i] = q[i]
           /\ \A i \in 1 .. Len(r) : (q \o r)[Len(q) + i] = r[i]
OBVIOUS

(* Where an index of a queue is found in its tail, and in what it is joined *)
(* to.                                                                      *)
LEMMA TailOrHead ==
    ASSUME NEW S, NEW q \in Seq(S), q # <<>>, NEW i \in 1 .. Len(q)
    PROVE  \/ i = 1 /\ q[i] = Head(q)
           \/ i - 1 \in 1 .. Len(Tail(q)) /\ Tail(q)[i - 1] = q[i]
<1> DEFINE n == Len(q)
           r == Tail(q)
<1>1. n \in Nat /\ Len(r) = n - 1 /\ Head(q) = q[1] /\ \A k \in 1 .. Len(r) : r[k] = q[k + 1]
  BY TailIndices
<1> HIDE DEF n, r
<1>2. i \in 1 .. n
  BY DEF n
<1>3. i = 1 \/ (i - 1 \in 1 .. Len(r) /\ (i - 1) + 1 = i)
  BY <1>1, <1>2
<1>4. i # 1 => r[i - 1] = q[i]
  <2> SUFFICES ASSUME i # 1 PROVE r[i - 1] = q[i]
    OBVIOUS
  <2>1. i - 1 \in 1 .. Len(r) /\ (i - 1) + 1 = i
    BY <1>3
  <2>2. r[i - 1] = q[(i - 1) + 1]
    BY <1>1, <2>1
  <2> QED
    BY <2>1, <2>2
<1> QED
  BY <1>1, <1>3, <1>4 DEF r

LEMMA LeftOrRight ==
    ASSUME NEW S, NEW q \in Seq(S), NEW r \in Seq(S), NEW i \in 1 .. Len(q \o r)
    PROVE  \/ i \in 1 .. Len(q) /\ (q \o r)[i] = q[i]
           \/ i - Len(q) \in 1 .. Len(r) /\ (q \o r)[i] = r[i - Len(q)]
<1> DEFINE m == Len(q)
           n == Len(r)
           j == q \o r
<1>1. /\ m \in Nat /\ n \in Nat /\ Len(j) = m + n
      /\ \A k \in 1 .. m : j[k] = q[k]
      /\ \A k \in 1 .. n : j[m + k] = r[k]
  BY JoinIndices
<1> HIDE DEF m, n, j
<1>2. i \in 1 .. m + n
  BY <1>1 DEF j
<1>3. CASE i \in 1 .. m
  BY <1>1, <1>3 DEF j, m
<1>4. CASE i \notin 1 .. m
  <2>1. i - m \in 1 .. n /\ m + (i - m) = i
    BY <1>1, <1>2, <1>4
  <2>2. j[m + (i - m)] = r[i - m]
    BY <1>1, <2>1
  <2> QED
    BY <2>1, <2>2 DEF j, m, n
<1> QED
  BY <1>3, <1>4

LEMMA AppendJoins ==
    ASSUME NEW S, NEW q \in Seq(S), NEW e \in S
    PROVE  /\ <<e>> \in Seq(S) /\ Append(q, e) = q \o <<e>> /\ Append(q, e) \in Seq(S)
OBVIOUS

LEMMA EveryIndex ==
    ASSUME NEW S, NEW q \in Seq(S), NEW r \in Seq(S)
    PROVE  \A i \in 1 .. Len(q \o r) :
              \/ i \in 1 .. Len(q) /\ (q \o r)[i] = q[i]
              \/ i - Len(q) \in 1 .. Len(r) /\ (q \o r)[i] = r[i - Len(q)]
<1> TAKE i \in 1 .. Len(q \o r)
<1> QED
  BY LeftOrRight

(* The first call is taken. *)
LEMMA CallTaken ==
    ASSUME NEW q \in Seq(Call), q # <<>>, NEW t, NEW d
    PROVE  LET c == Head(q)
           IN  /\ Calls(q, t) => Calls(Tail(q), t) \/ c.type = t
               /\ LastOpens(q, t, d) => LastOpens(Tail(q), t, d)
               /\ LastOpens(q, t, d) /\ c.type = t /\ c.do = "open"
                     => Calls(Tail(q), t) \/ c.dev = d
<1> DEFINE c == Head(q)
           r == Tail(q)
<1>1. /\ c = q[1] /\ Len(q) \in Nat /\ Len(q) >= 1 /\ Len(r) = Len(q) - 1
      /\ \A i \in 1 .. Len(r) : r[i] = q[i + 1]
  BY TailIndices
<1>2. \A i \in 1 .. Len(q) : i = 1 \/ (i - 1 \in 1 .. Len(r) /\ r[i - 1] = q[i])
  BY TailOrHead
<1> HIDE DEF c, r
<1>3. ASSUME Calls(q, t), c.type # t PROVE Calls(r, t)
  <2>1. PICK i \in 1 .. Len(q) : q[i].type = t
    BY <1>3 DEF Calls
  <2>2. i # 1
    BY <1>1, <1>3, <2>1
  <2> QED
    BY <1>2, <2>1, <2>2 DEF Calls
<1>4. ASSUME LastOpens(q, t, d),
             NEW i \in 1 .. Len(r), r[i].type = t, r[i].do = "open",
             \A j \in 1 .. Len(r) : j > i => r[j].type # t
      PROVE  r[i].dev = d
  <2>1. i + 1 \in 1 .. Len(q) /\ r[i] = q[i + 1]
    BY <1>1
  <2>2. ASSUME NEW j \in 1 .. Len(q), j > i + 1 PROVE q[j].type # t
    <3>1. j # 1 /\ j - 1 > i
      BY <1>1, <2>2
    <3>2. j - 1 \in 1 .. Len(r) /\ r[j - 1] = q[j]
      BY <1>2, <3>1
    <3> QED
      BY <1>4, <3>1, <3>2
  <2> QED
    BY <1>4, <2>1, <2>2 DEF LastOpens
<1>5. ASSUME LastOpens(q, t, d), c.type = t, c.do = "open", ~Calls(r, t) PROVE c.dev = d
  <2>1. ASSUME NEW j \in 1 .. Len(q), j > 1 PROVE q[j].type # t
    <3>1. j # 1
      BY <1>1, <2>1
    <3> QED
      BY <1>2, <1>5, <3>1 DEF Calls
  <2>2. 1 \in 1 .. Len(q)
    BY <1>1
  <2> QED
    BY <1>1, <1>5, <2>1, <2>2 DEF LastOpens
<1>6. LastOpens(q, t, d) => LastOpens(r, t, d)
  BY <1>4 DEF LastOpens
<1> QED
  BY <1>3, <1>5, <1>6 DEF c, r

(* Calls are posted. *)
LEMMA CallsPosted ==
    ASSUME NEW q \in Seq(Call), NEW r \in Seq(Call), NEW t, NEW d,
           \A i \in 1 .. Len(r) : r[i].type = t /\ r[i].do = "open" => r[i].dev = d
    PROVE  /\ Calls(q, t) \/ Calls(r, t) => Calls(q \o r, t)
           /\ LastOpens(q, t, d) \/ Calls(r, t) => LastOpens(q \o r, t, d)
<1> DEFINE m == Len(q)
           p == q \o r
<1>1. /\ m \in Nat /\ Len(r) \in Nat /\ Len(p) = m + Len(r)
      /\ \A i \in 1 .. m : p[i] = q[i]
      /\ \A i \in 1 .. Len(r) : p[m + i] = r[i]
  BY JoinIndices
<1>2. \A i \in 1 .. Len(p) : \/ i \in 1 .. m /\ p[i] = q[i]
                             \/ i - m \in 1 .. Len(r) /\ p[i] = r[i - m]
  BY EveryIndex
<1>3. \A i \in 1 .. m : i \in 1 .. Len(p)
  <2> HIDE DEF m, p
  <2> QED
    BY <1>1
<1>4. \A i \in 1 .. Len(r) : m + i \in 1 .. Len(p)
  <2> HIDE DEF m, p
  <2> QED
    BY <1>1
<1>5. Calls(q, t) => Calls(p, t)
  <2> HIDE DEF p
  <2> QED
    BY <1>1, <1>3 DEF Calls
<1> HIDE DEF m, p
<1>6. Calls(r, t) => Calls(p, t)
  BY <1>1, <1>4 DEF Calls
<1>7. ASSUME LastOpens(q, t, d) \/ Calls(r, t),
             NEW i \in 1 .. Len(p), p[i].type = t, p[i].do = "open",
             \A j \in 1 .. Len(p) : j > i => p[j].type # t
      PROVE  p[i].dev = d
  <2>1. CASE i - m \in 1 .. Len(r) /\ p[i] = r[i - m]
    BY <1>7, <2>1
  <2>2. CASE i \in 1 .. m /\ p[i] = q[i]
    <3>1. ~Calls(r, t)
      <4> SUFFICES ASSUME NEW k \in 1 .. Len(r), r[k].type = t PROVE FALSE
        BY DEF Calls
      <4>1. m + k \in 1 .. Len(p) /\ p[m + k] = r[k] /\ m + k > i
        BY <1>1, <1>4, <2>2
      <4> QED
        BY <1>7, <4>1
    <3>2. \A j \in 1 .. m : j > i => q[j].type # t
      BY <1>1, <1>3, <1>7
    <3> QED
      BY <1>7, <2>2, <3>1, <3>2 DEF LastOpens, m
  <2> QED
    BY <1>2, <2>1, <2>2
<1>8. LastOpens(q, t, d) \/ Calls(r, t) => LastOpens(p, t, d)
  BY <1>7 DEF LastOpens
<1> QED
  BY <1>5, <1>6, <1>8 DEF p

(* The first signal is taken. *)
LEMMA SignalTaken ==
    ASSUME NEW q \in Seq(Signal), q # <<>>, NEW t
    PROVE  LET s == Head(q)
           IN  /\ WillClose(q, t) => WillClose(Tail(q), t) \/ (s.of = "close" /\ s.type = t)
               /\ Silent(q, t) => Silent(Tail(q), t) /\ ~Determines(s, t)
               /\ LastSaysOpen(q, t) => \/ LastSaysOpen(Tail(q), t)
                                        \/ Silent(Tail(q), t) /\ SaysOpen(s, t)
<1> DEFINE s == Head(q)
           r == Tail(q)
<1>1. /\ s = q[1] /\ Len(q) \in Nat /\ Len(q) >= 1 /\ Len(r) = Len(q) - 1
      /\ \A i \in 1 .. Len(r) : r[i] = q[i + 1]
  BY TailIndices
<1>2. \A i \in 1 .. Len(q) : i = 1 \/ (i - 1 \in 1 .. Len(r) /\ r[i - 1] = q[i])
  BY TailOrHead
<1> HIDE DEF s, r
<1>3. \A i \in 1 .. Len(r) : i + 1 \in 1 .. Len(q)
  BY <1>1
<1>4. ASSUME WillClose(q, t), ~(s.of = "close" /\ s.type = t) PROVE WillClose(r, t)
  <2>1. PICK i \in 1 .. Len(q) : q[i].of = "close" /\ q[i].type = t
    BY <1>4 DEF WillClose
  <2>2. i # 1
    BY <1>1, <1>4, <2>1
  <2> QED
    BY <1>2, <2>1, <2>2 DEF WillClose
<1>5. Silent(q, t) => Silent(r, t) /\ ~Determines(s, t)
  <2>1. 1 \in 1 .. Len(q)
    BY <1>1
  <2> QED
    BY <1>1, <1>3, <2>1 DEF Silent
<1>6. ASSUME LastSaysOpen(q, t) PROVE LastSaysOpen(r, t) \/ (Silent(r, t) /\ SaysOpen(s, t))
  <2>1. PICK i \in 1 .. Len(q) : SaysOpen(q[i], t)
                          /\ \A j \in 1 .. Len(q) : j > i => ~Determines(q[j], t)
    BY <1>6 DEF LastSaysOpen
  <2>2. CASE i = 1
    <3>1. \A j \in 1 .. Len(r) : ~Determines(r[j], t)
      <4> TAKE j \in 1 .. Len(r)
      <4>1. j + 1 \in 1 .. Len(q) /\ j + 1 > i /\ r[j] = q[j + 1]
        BY <1>1, <2>2
      <4> QED
        BY <2>1, <4>1
    <3> QED
      BY <1>1, <2>1, <2>2, <3>1 DEF Silent
  <2>3. CASE i # 1
    <3>1. i - 1 \in 1 .. Len(r) /\ r[i - 1] = q[i]
      BY <1>2, <2>3
    <3>2. ASSUME NEW j \in 1 .. Len(r), j > i - 1 PROVE ~Determines(r[j], t)
      <4>1. j + 1 \in 1 .. Len(q) /\ j + 1 > i /\ r[j] = q[j + 1]
        BY <1>1, <3>2
      <4> QED
        BY <2>1, <4>1
    <3> QED
      BY <2>1, <3>1, <3>2 DEF LastSaysOpen
  <2> QED
    BY <2>2, <2>3
<1> QED
  BY <1>4, <1>5, <1>6 DEF s, r

(* Signals are queued. *)
LEMMA SignalsQueued ==
    ASSUME NEW q \in Seq(Signal), NEW r \in Seq(Signal), NEW t
    PROVE  /\ WillClose(q, t) \/ WillClose(r, t) => WillClose(q \o r, t)
           /\ Silent(q, t) /\ Silent(r, t) => Silent(q \o r, t)
           /\ LastSaysOpen(q, t) /\ Silent(r, t) => LastSaysOpen(q \o r, t)
           /\ LastSaysOpen(r, t) => LastSaysOpen(q \o r, t)
<1> DEFINE m == Len(q)
           p == q \o r
<1>1. /\ m \in Nat /\ Len(r) \in Nat /\ Len(p) = m + Len(r)
      /\ \A i \in 1 .. m : p[i] = q[i]
      /\ \A i \in 1 .. Len(r) : p[m + i] = r[i]
  BY JoinIndices
<1>2. \A i \in 1 .. Len(p) : \/ i \in 1 .. m /\ p[i] = q[i]
                             \/ i - m \in 1 .. Len(r) /\ p[i] = r[i - m]
  BY EveryIndex
<1>3. (\A i \in 1 .. m : i \in 1 .. Len(p)) /\ \A i \in 1 .. Len(r) : m + i \in 1 .. Len(p)
  <2> HIDE DEF m, p
  <2> QED
    BY <1>1
<1> HIDE DEF p
<1>4. WillClose(q, t) => WillClose(p, t)
  BY <1>1, <1>3 DEF WillClose
<1>5. Silent(q, t) /\ Silent(r, t) => Silent(p, t)
  BY <1>2 DEF Silent
<1>6. ASSUME LastSaysOpen(q, t), Silent(r, t) PROVE LastSaysOpen(p, t)
  <2>1. PICK i \in 1 .. m : SaysOpen(q[i], t)
                          /\ \A j \in 1 .. m : j > i => ~Determines(q[j], t)
    BY <1>6 DEF LastSaysOpen
  <2>2. i \in 1 .. Len(p) /\ p[i] = q[i]
    BY <1>1, <1>3
  <2>3. \A j \in 1 .. Len(p) : j > i => ~Determines(p[j], t)
    BY <1>2, <1>6, <2>1 DEF Silent
  <2> QED
    BY <2>1, <2>2, <2>3 DEF LastSaysOpen
<1> HIDE DEF m
<1>7. WillClose(r, t) => WillClose(p, t)
  BY <1>1, <1>3 DEF WillClose
<1>8. ASSUME LastSaysOpen(r, t) PROVE LastSaysOpen(p, t)
  <2>1. PICK k \in 1 .. Len(r) : SaysOpen(r[k], t)
                          /\ \A j \in 1 .. Len(r) : j > k => ~Determines(r[j], t)
    BY <1>8 DEF LastSaysOpen
  <2>2. m + k \in 1 .. Len(p) /\ p[m + k] = r[k]
    BY <1>1, <1>3
  <2>3. ASSUME NEW j \in 1 .. Len(p), j > m + k PROVE ~Determines(p[j], t)
    <3>1. j \notin 1 .. m /\ j - m > k
      BY <1>1, <2>3
    <3>2. j - m \in 1 .. Len(r) /\ p[j] = r[j - m]
      BY <1>2, <3>1
    <3> QED
      BY <2>1, <3>1, <3>2
  <2> QED
    BY <2>1, <2>2, <2>3 DEF LastSaysOpen
<1> QED
  BY <1>4, <1>5, <1>6, <1>7, <1>8 DEF p

----------------------------------------------------------------------------
(* What the worker does of a call for u: the other ports are left alone,    *)
(* what it signals is about u, and a port that ends open is the one asked   *)
(* for, and is said to be open.                                             *)
Does(done, p, w, u, d) ==
    /\ \A v \in Workers, t \in Types : v # w \/ t # u => done.p[v][t] = p[v][t]
    /\ done.signals \in Seq(Signal)
    /\ \A t \in Types : t # u => Silent(done.signals, t)
    /\ done.p[w][u].open => done.p[w][u].dev = d /\ LastSaysOpen(done.signals, u)

LEMMA ReplacedOnly ==
    ASSUME NEW p \in Ports, NEW w \in Workers, NEW t \in Types, NEW q
    PROVE  /\ [p EXCEPT ![w][t] = q][w][t] = q
           /\ \A v \in Workers, u \in Types : v # w \/ u # t => [p EXCEPT ![w][t] = q][v][u] = p[v][u]
BY DEF Ports

LEMMA ShortLists ==
    ASSUME NEW S, NEW a \in S, NEW b \in S
    PROVE  /\ Len(<<a>>) = 1 /\ \A i \in 1 .. Len(<<a>>) : <<a>>[i] = a
           /\ <<a>> \o <<b>> = <<a, b>>
<1>1. Len(<<a>>) = 1 /\ \A i \in 1 .. Len(<<a>>) : <<a>>[i] = a
  OBVIOUS
<1> DEFINE left == <<a>> \o <<b>>
           right == <<a, b>>
<1>2. left \in Seq(S) /\ Len(left) = 2 /\ left[1] = a /\ left[2] = b
  OBVIOUS
<1>3. right \in Seq(S) /\ Len(right) = 2 /\ right[1] = a /\ right[2] = b
  OBVIOUS
<1> HIDE DEF left, right
<1>4. \A i \in 1 .. 2 : left[i] = right[i]
  <2>1. \A i \in 1 .. 2 : i = 1 \/ i = 2
    OBVIOUS
  <2> QED
    BY <1>2, <1>3, <2>1
<1>5. left = right
  BY <1>2, <1>3, <1>4, SeqEqual
<1> QED
  BY <1>1, <1>5 DEF left, right

(* The lists of signals there are. *)
LEMMA Signalled ==
    ASSUME NEW u \in Types, NEW list \in Seq(Signal)
    PROVE  /\ LastSaysOpen(list \o <<Connected(u, TRUE), Result(u, TRUE)>>, u)
           /\ \A t \in Types : t # u =>
                 /\ Silent(<<Connected(u, TRUE), Result(u, TRUE)>>, t)
                 /\ Silent(<<Connected(u, FALSE)>>, t)
                 /\ Silent(<<Result(u, FALSE)>>, t)
                 /\ Silent(<<>>, t)
                 /\ Silent(<<[of |-> "error", type |-> u]>>, t)
<1> DEFINE said == <<Connected(u, TRUE), Result(u, TRUE)>>
<1>1. said \in Seq(Signal)
  BY SignalFacts
<1>2. Len(said) = 2 /\ said[1] = Connected(u, TRUE) /\ said[2] = Result(u, TRUE)
  OBVIOUS
<1>3. LastSaysOpen(said, u)
  <2>1. CASE u = "GPS"
    <3>1. SaysOpen(Result(u, TRUE), u)
      BY <2>1 DEF SaysOpen, Determines, Result
    <3>2. 2 \in 1 .. 2 /\ \A j \in 1 .. 2 : ~(j > 2)
      OBVIOUS
    <3> HIDE DEF said
    <3>3. SaysOpen(said[2], u) /\ \A j \in 1 .. Len(said) : j > 2 => ~Determines(said[j], u)
      BY <1>2, <3>1, <3>2
    <3> QED
      BY <1>2, <3>2, <3>3 DEF LastSaysOpen
  <2>2. CASE u # "GPS"
    <3>1. SaysOpen(Connected(u, TRUE), u) /\ ~Determines(Result(u, TRUE), u)
      BY <2>2 DEF SaysOpen, Determines, Result, Connected
    <3> HIDE DEF said
    <3>2. 1 \in 1 .. 2 /\ \A j \in 1 .. 2 : j > 1 => j = 2
      OBVIOUS
    <3>3. SaysOpen(said[1], u) /\ \A j \in 1 .. Len(said) : j > 1 => ~Determines(said[j], u)
      BY <1>2, <3>1, <3>2
    <3> QED
      BY <1>2, <3>2, <3>3 DEF LastSaysOpen
  <2> QED
    BY <2>1, <2>2
<1>4. LastSaysOpen(list \o said, u)
  <2> HIDE DEF said
  <2> QED
    BY <1>1, <1>3, SignalsQueued
<1>5. ASSUME NEW t \in Types, t # u
      PROVE  /\ Silent(said, t) /\ Silent(<<Connected(u, FALSE)>>, t)
             /\ Silent(<<Result(u, FALSE)>>, t) /\ Silent(<<>>, t)
             /\ Silent(<<[of |-> "error", type |-> u]>>, t)
  BY <1>5 DEF Silent, Determines, Connected, Result
<1> QED
  BY <1>4, <1>5

LEMMA CloseLegacyDoes ==
    ASSUME NEW p \in Ports, NEW w \in Workers, NEW u \in Legacy, NEW d
    PROVE  /\ Does(CloseLegacy(p, w, u), p, w, u, d)
           /\ ~CloseLegacy(p, w, u).p[w][u].open
<1> DEFINE q == [NoPort EXCEPT !.rest = p[w][u].rest]
           new == [p EXCEPT ![w][u] = q]
<1>1. u \in Types
  BY DEF Legacy
<1>2. ~q.open
  BY DEF NoPort
<1>3. new[w][u] = q /\ \A v \in Workers, t \in Types : v # w \/ t # u => new[v][t] = p[v][t]
  <2> HIDE DEF q
  <2> QED
    BY <1>1, ReplacedOnly
<1>4. <<Connected(u, FALSE)>> \in Seq(Signal) /\ \A t \in Types : t # u => Silent(<<Connected(u, FALSE)>>, t)
  <2>1. <<>> \in Seq(Signal)
    OBVIOUS
  <2> QED
    BY <1>1, <2>1, SignalFacts, Signalled
<1>5. CloseLegacy(p, w, u).p = new /\ CloseLegacy(p, w, u).signals = <<Connected(u, FALSE)>>
  BY DEF CloseLegacy
<1> HIDE DEF new, q
<1> QED
  BY <1>2, <1>3, <1>4, <1>5 DEF Does

LEMMA CloseDynamicDoes ==
    ASSUME NEW p \in Ports, NEW w \in Workers, NEW u \in Types, NEW d
    PROVE  /\ Does(CloseDynamic(p, w, u), p, w, u, d)
           /\ ~CloseDynamic(p, w, u).p[w][u].open
<1> DEFINE new == [p EXCEPT ![w][u] = NoPort]
<1>1. ~NoPort.open
  BY DEF NoPort
<1>2. new[w][u] = NoPort /\ \A v \in Workers, t \in Types : v # w \/ t # u => new[v][t] = p[v][t]
  BY ReplacedOnly
<1>3. <<Connected(u, FALSE)>> \in Seq(Signal) /\ \A t \in Types : t # u => Silent(<<Connected(u, FALSE)>>, t)
  <2>1. <<>> \in Seq(Signal)
    OBVIOUS
  <2> QED
    BY <2>1, SignalFacts, Signalled
<1>4. CloseDynamic(p, w, u).p = new /\ CloseDynamic(p, w, u).signals = <<Connected(u, FALSE)>>
  BY DEF CloseDynamic
<1> HIDE DEF new
<1> QED
  BY <1>1, <1>2, <1>3, <1>4 DEF Does

LEMMA OpenLegacyDoes ==
    ASSUME NEW p \in Ports, NEW w \in Workers, NEW u \in Legacy, NEW d \in Devices
    PROVE  Does(OpenLegacy(p, w, u, d), p, w, u, d)
<1> DEFINE q == p[w][u]
           closed == IF q.open THEN [q EXCEPT !.dev = None, !.open = FALSE] ELSE q
           freed == [p EXCEPT ![w][u] = closed]
           ok == CanOpen(d, freed)
           opened == [closed EXCEPT !.dev = IF ok THEN d ELSE None, !.open = ok]
           result == [freed EXCEPT ![w][u] = opened]
           named == [opened EXCEPT !.flag = TRUE, !.name = d]
           flagged == [result EXCEPT ![w][u] = named]
           try == OpenPort(p, w, u, d)
<1>1. u \in Types /\ q \in Port
  BY DEF Ports, Legacy
<1>2. closed \in Port
  BY <1>1 DEF Port, Name
<1>3. ok \in BOOLEAN
  BY DEF CanOpen
<1> HIDE DEF closed
<1>4. freed \in Ports /\ freed[w][u] = closed
      /\ \A v \in Workers, t \in Types : v # w \/ t # u => freed[v][t] = p[v][t]
  BY <1>1, <1>2, Replaced, ReplacedOnly
<1> HIDE DEF freed, ok
<1>5. opened \in Port /\ opened.open = ok /\ (ok => opened.dev = d)
  BY <1>2, <1>3 DEF Port, Name
<1>6. named.dev = opened.dev
  BY <1>5 DEF Port
<1> HIDE DEF opened, named
<1>7. result \in Ports /\ result[w][u] = opened
      /\ \A v \in Workers, t \in Types : v # w \/ t # u => result[v][t] = freed[v][t]
  BY <1>1, <1>4, <1>5, Replaced, ReplacedOnly
<1> HIDE DEF result
<1>8. flagged[w][u] = named
      /\ \A v \in Workers, t \in Types : v # w \/ t # u => flagged[v][t] = result[v][t]
  BY <1>1, <1>7, ReplacedOnly
<1> HIDE DEF flagged
<1>9. try.ok = ok /\ try.p = result
  <2>1. try = [ok |-> ok,
               p  |-> [freed EXCEPT ![w][u] = [@ EXCEPT !.dev = IF ok THEN d ELSE None,
                                                         !.open = ok]]]
    BY DEF OpenPort, ok, freed, closed
  <2>2. [freed EXCEPT ![w][u] = [@ EXCEPT !.dev = IF ok THEN d ELSE None, !.open = ok]] = result
    BY <1>4, Zenon DEF result, opened
  <2>3. try = [ok |-> ok, p |-> result]
    BY <2>1, <2>2, Zenon
  <2> HIDE DEF try
  <2> QED
    BY <2>3
<1> HIDE DEF try
<1>10. [try.p EXCEPT ![w][u] = [@ EXCEPT !.flag = TRUE, !.name = d]] = flagged
  BY <1>7, <1>9, Zenon DEF flagged, named
<1> DEFINE yes == <<Connected(u, TRUE), Result(u, TRUE)>>
           no == <<Result(u, FALSE)>>
<1>11. OpenLegacy(p, w, u, d) = IF ok THEN [p |-> flagged, signals |-> yes]
                                       ELSE [p |-> result, signals |-> no]
  BY <1>9, <1>10, Zenon DEF OpenLegacy, try
<1>12. /\ yes \in Seq(Signal) /\ no \in Seq(Signal) /\ LastSaysOpen(yes, u)
       /\ \A t \in Types : t # u => Silent(yes, t) /\ Silent(no, t)
  <2>6. yes \in Seq(Signal) /\ Result(u, FALSE) \in Signal
    BY <1>1, SignalFacts
  <2>7. <<>> \in Seq(Signal)
    OBVIOUS
  <2>1. <<>> \in Seq(Signal) /\ yes \in Seq(Signal) /\ Result(u, FALSE) \in Signal
    BY <2>6, <2>7
  <2>2. no \in Seq(Signal)
    BY <2>1, SignalLists
  <2>3. <<>> \o yes = yes
    BY <2>1
  <2>4. LastSaysOpen(<<>> \o yes, u)
    BY <1>1, <2>1, Signalled
  <2>5. \A t \in Types : t # u => Silent(yes, t) /\ Silent(no, t)
    BY <1>1, <2>1, Signalled
  <2> QED
    BY <2>1, <2>2, <2>3, <2>4, <2>5
<1> HIDE DEF yes, no
<1> DEFINE done == OpenLegacy(p, w, u, d)
<1>13. ok => done.p = flagged /\ done.signals = yes
  BY <1>11
<1>14. ~ok => done.p = result /\ done.signals = no
  BY <1>11
<1> HIDE DEF done
<1>15. done.p[w][u].open => done.p[w][u].dev = d /\ LastSaysOpen(done.signals, u)
  BY <1>3, <1>5, <1>6, <1>7, <1>8, <1>12, <1>13, <1>14
<1>16. \A v \in Workers, t \in Types : v # w \/ t # u => done.p[v][t] = p[v][t]
  BY <1>3, <1>4, <1>7, <1>8, <1>13, <1>14
<1>17. done.signals \in Seq(Signal) /\ \A t \in Types : t # u => Silent(done.signals, t)
  BY <1>3, <1>12, <1>13, <1>14
<1> QED
  BY <1>15, <1>16, <1>17 DEF Does, done

LEMMA OpenDynamicDoes ==
    ASSUME NEW p \in Ports, NEW w \in Workers, NEW u \in Types, NEW d \in Devices,
           p[w][u].dev = None => ~p[w][u].open
    PROVE  Does(OpenDynamic(p, w, u, d), p, w, u, d)
<1> DEFINE freed == IF p[w][u].dev = None THEN [p |-> p, signals |-> <<>>]
                                           ELSE CloseDynamic(p, w, u)
           q == [NoPort EXCEPT !.dev = d, !.open = TRUE, !.flag = TRUE, !.name = d]
           before == freed.p
           list == freed.signals
           new == [before EXCEPT ![w][u] = q]
           yes == <<Connected(u, TRUE), Result(u, TRUE)>>
<1>1. freed.p \in Ports
  <2>1. CASE p[w][u].dev = None
    BY <2>1
  <2>2. CASE p[w][u].dev # None
    <3>1. CloseDynamic(p, w, u).p \in Ports
      BY NoPortFacts, Replaced DEF CloseDynamic
    <3> QED
      BY <2>2, <3>1
  <2> QED
    BY <2>1, <2>2
<1>2. Does(freed, p, w, u, d) /\ ~freed.p[w][u].open
  <2>1. CASE p[w][u].dev = None
    <3>1. <<>> \in Seq(Signal)
      OBVIOUS
    <3>2. \A t \in Types : t # u => Silent(<<>>, t)
      BY <3>1, Signalled
    <3> QED
      BY <2>1, <3>1, <3>2 DEF Does
  <2>2. CASE p[w][u].dev # None
    BY <2>2, CloseDynamicDoes
  <2> QED
    BY <2>1, <2>2
<1>3. q.dev = d
  BY DEF NoPort
<1>13. before \in Ports /\ ~before[w][u].open
      /\ \A v \in Workers, t \in Types : v # w \/ t # u => before[v][t] = p[v][t]
  BY <1>1, <1>2 DEF Does
<1>14. list \in Seq(Signal) /\ \A t \in Types : t # u => Silent(list, t)
  BY <1>2 DEF Does
<1> HIDE DEF freed, q, before, list
<1>4. new[w][u] = q /\ \A v \in Workers, t \in Types : v # w \/ t # u => new[v][t] = before[v][t]
  <2> HIDE DEF new
  <2>1. \A v \in Workers, t \in Types :
           new[v][t] = IF v = w /\ t = u THEN q ELSE before[v][t]
    BY <1>13 DEF Ports, new
  <2> QED
    BY <2>1
<1>5. /\ yes \in Seq(Signal) /\ Result(u, FALSE) \in Signal /\ <<Result(u, FALSE)>> \in Seq(Signal)
  <2>1. Result(u, FALSE) \in Signal /\ yes \in Seq(Signal)
    BY SignalFacts
  <2> QED
    BY <1>14, <2>1, SignalLists
<1>6. list \o yes \in Seq(Signal) /\ LastSaysOpen(list \o yes, u)
  <2>1. LastSaysOpen(list \o yes, u)
    BY <1>14, Signalled
  <2> HIDE DEF yes
  <2> QED
    BY <1>5, <1>14, <2>1, JoinIndices
<1>7. Append(list, Result(u, FALSE)) = list \o <<Result(u, FALSE)>>
  BY <1>5, <1>14, AppendJoins
<1>8. ASSUME NEW t \in Types, t # u
      PROVE  /\ Silent(list \o yes, t)
             /\ Silent(list \o <<Result(u, FALSE)>>, t)
  <2>1. Silent(list, t)
    BY <1>8, <1>14
  <2>2. Silent(yes, t) /\ Silent(<<Result(u, FALSE)>>, t)
    BY <1>14, <1>8, Signalled
  <2> HIDE DEF yes
  <2> QED
    BY <1>5, <1>14, <2>1, <2>2, SignalsQueued
<1>9. Append(list, Result(u, FALSE)) \in Seq(Signal)
  BY <1>5, <1>14, AppendJoins
<1> DEFINE done == OpenDynamic(p, w, u, d)
           yesList == list \o yes
           noList == Append(list, Result(u, FALSE))
<1>10. done = IF CanOpen(d, before) THEN [p |-> new, signals |-> yesList]
              ELSE [p |-> before, signals |-> noList]
  BY DEF OpenDynamic, freed, q, before, list
<1> HIDE DEF done, new, yes, yesList, noList
<1>11. CASE CanOpen(d, before)
  <2>1. done.p = new /\ done.signals = yesList
    BY <1>10, <1>11
  <2> QED
    BY <1>3, <1>4, <1>6, <1>8, <1>13, <2>1 DEF Does, done, yesList
<1>12. CASE ~CanOpen(d, before)
  <2>1. done.p = before /\ done.signals = noList
    BY <1>10, <1>12
  <2> QED
    BY <1>7, <1>8, <1>9, <1>13, <2>1 DEF Does, done, noList
<1> QED
  BY <1>11, <1>12

LEMMA DoneDoes ==
    ASSUME NEW p \in Ports, AllTruthful(p), NEW w \in Workers, NEW c \in Call
    PROVE  /\ c.do = "open" => Does(Done(p, w, c), p, w, c.type, c.dev)
           /\ c.do = "close" => /\ Does(Done(p, w, c), p, w, c.type, c.type)
                                /\ ~Done(p, w, c).p[w][c.type].open
<1>1. c.type \in Types /\ c.do \in {"open", "close"} /\ (c.do = "open" => c.dev \in Devices)
  BY DEF Call
<1>2. CASE c.do = "open" /\ c.type \in Legacy
  BY <1>1, <1>2, OpenLegacyDoes DEF Done
<1>3. CASE c.do = "open" /\ c.type \notin Legacy
  <2>1. Truthful(p[w][c.type])
    BY <1>1, <1>3 DEF AllTruthful
  <2>2. p[w][c.type].dev = None => ~p[w][c.type].open
    BY <2>1 DEF Truthful
  <2> QED
    BY <1>1, <1>3, <2>2, OpenDynamicDoes DEF Done
<1>4. CASE c.do = "close" /\ c.type \in Legacy
  BY <1>1, <1>4, CloseLegacyDoes DEF Done
<1>5. CASE c.do = "close" /\ c.type \notin Legacy
  BY <1>1, <1>5, CloseDynamicDoes DEF Done
<1> QED
  BY <1>1, <1>2, <1>3, <1>4, <1>5

----------------------------------------------------------------------------
(* The invariant: of a port that is open either a call is on its way, or    *)
(* its device is the configured one and the signals end by showing it.      *)
(* A port to be closed for the wrong module on it comes to a call.          *)
Shown(t) == IF t = "GPS" THEN portConnected ELSE connected[t]

Told(t) ==
    \/ WillClose(toMain, t)
    \/ LastSaysOpen(toMain, t)
    \/ Silent(toMain, t) /\ Shown(t)

Known(t) ==
    /\ LastOpens(toWorker[1], t, settings[t])
    /\ ports[1][t].open =>
          \/ Calls(toWorker[1], t)
          \/ settings[t] = ports[1][t].dev /\ Told(t)

(* It holds while there is one worker; those to come are idle. *)
AtRest ==
    /\ \A w \in Workers : w > worker =>
          toWorker[w] = <<>> /\ \A t \in Types : ~ports[w][t].open
    /\ worker = 0 => toMain = <<>>

SInv == PortsInv /\ AtRest /\ (worker = 1 => \A t \in Types \ {"Blockage"} : Known(t))

LEMMA OneIsAWorker == 1 \in Workers
BY PortsAssumption DEF Workers

LEMMA EmptyQueues ==
    ASSUME NEW t
    PROVE  /\ ~Calls(<<>>, t) /\ (\A d : LastOpens(<<>>, t, d)) /\ Silent(<<>>, t)
           /\ ~WillClose(<<>>, t) /\ ~LastSaysOpen(<<>>, t)
BY DEF Calls, LastOpens, Silent, WillClose, LastSaysOpen

LEMMA InitSInv == SerialInit => SInv
<1> SUFFICES ASSUME SerialInit PROVE SInv
  OBVIOUS
<1>1. PortsInv
  BY InitPortsInv
<1>2. AtRest /\ worker # 1
  BY DEF SerialInit, AtRest, NoPort
<1> QED
  BY <1>1, <1>2 DEF SInv

(* Calls are posted to the one worker. *)
LEMMA PostedKnown ==
    ASSUME PortsInv, worker = 1, NEW t \in Types \ {"Blockage"}, Known(t),
           NEW calls \in Seq(Call), Post(calls), ports' = ports,
           \A i \in 1 .. Len(calls) :
              calls[i].type = t /\ calls[i].do = "open" => calls[i].dev = settings'[t],
           \/ Calls(calls, t)
           \/ settings'[t] = settings[t] /\ (Told(t) => Told(t)')
    PROVE  Known(t)'
<1> DEFINE q == toWorker[1]
           d == settings'[t]
<1>1. q \in Seq(Call) /\ toWorker'[1] = q \o calls
  BY OneIsAWorker DEF Post, PortsInv, SerialTypeOK
<1>2. LastOpens(q, t, settings[t]) /\ (ports[1][t].open => Calls(q, t) \/ (settings[t] = ports[1][t].dev /\ Told(t)))
  BY DEF Known
<1> HIDE DEF q, d
<1>3. /\ Calls(q, t) \/ Calls(calls, t) => Calls(q \o calls, t)
      /\ LastOpens(q, t, d) \/ Calls(calls, t) => LastOpens(q \o calls, t, d)
  BY <1>1, CallsPosted DEF d
<1>4. LastOpens(toWorker'[1], t, settings'[t])
  BY <1>1, <1>2, <1>3 DEF d
<1>5. ports'[1][t].open =>
          \/ Calls(toWorker'[1], t)
          \/ settings'[t] = ports'[1][t].dev /\ Told(t)'
  BY <1>1, <1>2, <1>3
<1> QED
  BY <1>4, <1>5 DEF Known

(* What closing posts. *)
LEMMA ClosingKnown ==
    ASSUME PortsInv, worker = 1, NEW t \in Types \ {"Blockage"}, Known(t),
           NEW u \in Types, Closing(u), ports' = ports,
           t # u => (Told(t) => Told(t)')
    PROVE  Known(t)'
<1> DEFINE call == [do |-> "close", type |-> u]
           calls == <<call>>
<1>1. calls \in Seq(Call) /\ Len(calls) = 1 /\ calls[1] = call
  BY CallFacts
<1>2. Post(calls) /\ settings' = [settings EXCEPT ![u] = None]
  BY DEF Closing
<1>3. call.do = "close" /\ call.type = u
  OBVIOUS
<1> HIDE DEF calls, call
<1>4. \A i \in 1 .. Len(calls) : calls[i].do # "open"
  BY <1>1, <1>3
<1>5. CASE t = u
  <2>1. 1 \in 1 .. Len(calls)
    BY <1>1
  <2>2. Calls(calls, t)
    BY <1>1, <1>3, <1>5, <2>1 DEF Calls
  <2> QED
    BY <1>1, <1>2, <1>4, <2>2, PostedKnown
<1>6. CASE t # u
  <2>1. settings'[t] = settings[t]
    BY <1>2, <1>6 DEF PortsInv, SerialTypeOK
  <2> QED
    BY <1>1, <1>2, <1>4, <1>6, <2>1, PostedKnown
<1> QED
  BY <1>5, <1>6

(* What is shown of t changes only by what says something of t. *)
LEMMA ClosingShown ==
    ASSUME PortsInv, NEW t \in Types \ {"Blockage"}, NEW u \in Types, Closing(u), t # u
    PROVE  Shown(t)' = Shown(t)
BY DEF Closing, Shown, PortsInv, SerialTypeOK

(* A slot of the service. *)
LEMMA SlotTold ==
    ASSUME PortsInv, MainStep, NEW t \in Types \ {"Blockage"},
           ~(Head(toMain).of = "close" /\ Head(toMain).type = t), Told(t)
    PROVE  Told(t)'
<1> DEFINE q == toMain
           s == Head(toMain)
           rest == Tail(toMain)
<1>1. q \in Seq(Signal) /\ q # <<>> /\ s \in Signal /\ rest \in Seq(Signal)
  BY DEF MainStep, PortsInv, SerialTypeOK
<1>2. \/ OnConnected(s, rest) \/ OnPortOpenResult(s, rest) \/ OnSerialError(s, rest)
      \/ OnData(s, rest) \/ OnClose(s, rest)
  BY DEF MainStep
<1>3. /\ WillClose(q, t) => WillClose(rest, t)
      /\ Silent(q, t) => Silent(rest, t) /\ ~Determines(s, t)
      /\ LastSaysOpen(q, t) => \/ LastSaysOpen(rest, t)
                               \/ Silent(rest, t) /\ SaysOpen(s, t)
  BY <1>1, SignalTaken
<1>4. ~(s.of = "close" /\ s.type = t) /\ Told(t)
  OBVIOUS
<1> HIDE DEF q, s, rest
<1>5. s.type \in Types /\ s.of \in {"connected", "result", "error", "close", "data"}
  BY <1>1 DEF Signal
<1>6. connected \in [Types -> BOOLEAN]
  BY DEF PortsInv, SerialTypeOK
<1>7. ~Determines(s, t) => Shown(t)' = Shown(t)
  <2> SUFFICES ASSUME ~Determines(s, t) PROVE Shown(t)' = Shown(t)
    OBVIOUS
  <2>1. CASE OnConnected(s, rest)
    BY <1>5, <1>6, <2>1 DEF OnConnected, Determines, Shown
  <2>2. CASE OnPortOpenResult(s, rest)
    BY <1>5, <1>6, <2>2 DEF OnPortOpenResult, Determines, Shown
  <2>3. CASE OnSerialError(s, rest)
    BY <1>5, <1>6, <2>3 DEF OnSerialError, Determines, Shown
  <2>4. CASE OnData(s, rest)
    BY <2>4 DEF OnData, Shown
  <2>5. CASE OnClose(s, rest)
    BY <1>4, <1>5, <2>5, ClosingShown DEF OnClose
  <2> QED
    BY <1>2, <2>1, <2>2, <2>3, <2>4, <2>5
<1>8. SaysOpen(s, t) => Shown(t)'
  <2> SUFFICES ASSUME SaysOpen(s, t) PROVE Shown(t)'
    OBVIOUS
  <2>1. s.type = t /\ s.ok /\ IF t = "GPS" THEN s.of = "result" ELSE s.of = "connected"
    BY DEF SaysOpen, Determines
  <2>2. CASE t = "GPS"
    BY <1>2, <2>1, <2>2 DEF OnConnected, OnPortOpenResult, OnSerialError, OnData, OnClose, Shown
  <2>3. CASE t # "GPS"
    BY <1>2, <1>6, <2>1, <2>3 DEF OnConnected, OnPortOpenResult, OnSerialError, OnData, OnClose, Shown
  <2> QED
    BY <2>2, <2>3
<1>9. \/ toMain' = rest
      \/ toMain' = rest \o <<[of |-> "close", type |-> s.type]>>
  <2>1. [of |-> "close", type |-> s.type] \in Signal
    BY <1>5, SignalFacts
  <2>2. Append(rest, [of |-> "close", type |-> s.type]) = rest \o <<[of |-> "close", type |-> s.type]>>
    BY <1>1, <2>1, AppendJoins
  <2> QED
    BY <1>2, <2>2 DEF OnConnected, OnPortOpenResult, OnSerialError, OnData, OnClose
<1>10. /\ WillClose(rest, t) => WillClose(toMain', t)
       /\ Silent(rest, t) => Silent(toMain', t)
       /\ LastSaysOpen(rest, t) => LastSaysOpen(toMain', t)
  <2>1. CASE toMain' = rest
    BY <2>1
  <2>2. CASE toMain' = rest \o <<[of |-> "close", type |-> s.type]>>
    <3> DEFINE close == <<[of |-> "close", type |-> s.type]>>
    <3>1. close \in Seq(Signal)
      BY <1>5, SignalFacts, SignalLists, <1>1
    <3>2. Silent(close, t)
      BY DEF Silent, Determines
    <3> HIDE DEF close
    <3> QED
      BY <1>1, <2>2, <3>1, <3>2, SignalsQueued DEF close
  <2> QED
    BY <1>9, <2>1, <2>2
<1>11. WillClose(q, t) \/ LastSaysOpen(q, t) \/ (Silent(q, t) /\ Shown(t))
  BY <1>4 DEF Told, q
<1>12. WillClose(toMain', t) \/ LastSaysOpen(toMain', t) \/ (Silent(toMain', t) /\ Shown(t)')
  BY <1>3, <1>4, <1>7, <1>8, <1>10, <1>11
<1> QED
  BY <1>12 DEF Told

(* The workers that are not there yet get nothing and open nothing. *)
LEMMA AtRestKept ==
    ASSUME AtRest, worker \in Nat, worker' = worker, worker # 0,
           \A w \in Workers : w > worker =>
              toWorker'[w] = toWorker[w] /\ \A t \in Types : ports'[w][t].open = ports[w][t].open
    PROVE  AtRest'
BY DEF AtRest

LEMMA PostIdle ==
    ASSUME PortsInv, AtRest, worker # 0, worker' = worker, ports' = ports, NEW calls, Post(calls)
    PROVE  AtRest'
<1>1. worker \in Nat /\ toWorker \in [Workers -> Seq(Call)]
  BY PortsAssumption DEF PortsInv, SerialTypeOK
<1>2. \A w \in Workers : w > worker => toWorker'[w] = toWorker[w]
  BY <1>1 DEF Post
<1> QED
  BY <1>1, <1>2, AtRestKept

LEMMA WorkerIsThere ==
    ASSUME PortsInv, AtRest, NEW w \in Workers,
           toWorker[w] # <<>> \/ \E t \in Types : ports[w][t].open
    PROVE  worker # 0 /\ worker \in Nat /\ ~(w > worker) /\ (worker = 1 => w = 1)
<1>1. worker \in Nat /\ w \in Nat /\ w >= 1
  BY PortsAssumption DEF PortsInv, SerialTypeOK, Workers
<1>2. ~(w > worker)
  BY DEF AtRest
<1> QED
  BY <1>1, <1>2

(* The worker carries out a call. *)
LEMMA WorkerKnown ==
    ASSUME SInv, NEW w \in Workers, WorkerStep(w)
    PROVE  AtRest' /\ (worker' = 1 => \A t \in Types \ {"Blockage"} : Known(t)')
<1> DEFINE q == toWorker[w]
           c == Head(q)
           done == Done(ports, w, c)
<1>1. /\ PortsInv /\ AtRest /\ ports \in Ports /\ AllTruthful(ports) /\ toMain \in Seq(Signal)
      /\ toWorker \in [Workers -> Seq(Call)]
  BY DEF SInv, PortsInv, SerialTypeOK, Ports
<1>2. q \in Seq(Call) /\ q # <<>>
  BY <1>1 DEF WorkerStep
<1>3. c \in Call /\ Tail(q) \in Seq(Call)
  BY <1>2
<1>4. worker # 0 /\ worker \in Nat /\ ~(w > worker) /\ (worker = 1 => w = 1)
  BY <1>1, <1>2, WorkerIsThere
<1>5. /\ ports' = done.p /\ toMain' = toMain \o done.signals /\ worker' = worker
      /\ toWorker' = [toWorker EXCEPT ![w] = Tail(q)]
      /\ UNCHANGED <<settings, connected, portConnected>>
  BY DEF WorkerStep
<1>6. toWorker'[w] = Tail(q) /\ \A v \in Workers : v # w => toWorker'[v] = toWorker[v]
  <2> HIDE DEF q
  <2> QED
    BY <1>1, <1>5
<1>7. \A t : /\ Calls(q, t) => Calls(Tail(q), t) \/ c.type = t
             /\ \A d : LastOpens(q, t, d) => LastOpens(Tail(q), t, d)
             /\ \A d : LastOpens(q, t, d) /\ c.type = t /\ c.do = "open"
                     => Calls(Tail(q), t) \/ c.dev = d
  <2> HIDE DEF q
  <2> QED
    BY <1>2, CallTaken
<1> HIDE DEF c
<1>8. c.type \in Types /\ c.do \in {"open", "close"}
  BY <1>3 DEF Call
<1>9. /\ c.do = "open" => Does(done, ports, w, c.type, c.dev)
      /\ c.do = "close" => Does(done, ports, w, c.type, c.type) /\ ~done.p[w][c.type].open
  BY <1>1, <1>3, DoneDoes
<1> HIDE DEF done
<1>10. /\ \A v \in Workers, t \in Types : v # w \/ t # c.type => done.p[v][t] = ports[v][t]
       /\ done.signals \in Seq(Signal)
       /\ \A t \in Types : t # c.type => Silent(done.signals, t)
       /\ done.p[w][c.type].open =>
             c.do = "open" /\ done.p[w][c.type].dev = c.dev /\ LastSaysOpen(done.signals, c.type)
  BY <1>8, <1>9 DEF Does
<1>11. AtRest'
  <2>1. \A v \in Workers : v > worker => v # w
    BY <1>4
  <2>2. \A v \in Workers : v > worker =>
          toWorker'[v] = toWorker[v] /\ \A t \in Types : ports'[v][t].open = ports[v][t].open
    BY <1>5, <1>6, <1>10, <2>1
  <2> QED
    BY <1>1, <1>4, <1>5, <2>2, AtRestKept
<1>12. ASSUME worker = 1, NEW t \in Types \ {"Blockage"} PROVE Known(t)'
  <2>1. w = 1 /\ Known(t)
    BY <1>4, <1>12 DEF SInv
  <2>2. LastOpens(q, t, settings[t])
        /\ (ports[1][t].open => Calls(q, t) \/ (settings[t] = ports[1][t].dev /\ Told(t)))
    BY <2>1 DEF Known
  <2> DEFINE r == Tail(q)
  <2>3. toWorker'[1] = r /\ LastOpens(r, t, settings[t]) /\ settings'[t] = settings[t]
    BY <1>5, <1>6, <1>7, <2>1, <2>2
  <2>4. /\ WillClose(toMain, t) => WillClose(toMain', t)
        /\ Silent(toMain, t) /\ Silent(done.signals, t) => Silent(toMain', t)
        /\ LastSaysOpen(toMain, t) /\ Silent(done.signals, t) => LastSaysOpen(toMain', t)
        /\ LastSaysOpen(done.signals, t) => LastSaysOpen(toMain', t)
    BY <1>1, <1>5, <1>10, SignalsQueued
  <2>5. Calls(q, t) => Calls(r, t) \/ c.type = t
    BY <1>7
  <2>6. c.type = t /\ c.do = "open" => Calls(r, t) \/ c.dev = settings[t]
    BY <1>7, <2>2
  <2> HIDE DEF q, r
  <2>7. ports'[1][t].open => Calls(r, t) \/ (settings[t] = ports'[1][t].dev /\ Told(t)')
    <3>1. CASE t = c.type
      BY <1>5, <1>10, <2>1, <2>4, <2>6, <3>1 DEF Told
    <3>2. CASE t # c.type
      <4>1. ports'[1][t] = ports[1][t]
        BY <1>5, <1>10, <2>1, <3>2
      <4>2. Shown(t)' = Shown(t)
        BY <1>5 DEF Shown
      <4>3. Silent(done.signals, t)
        BY <1>10, <3>2
      <4>4. Told(t) => Told(t)'
        BY <2>4, <4>2, <4>3 DEF Told
      <4> QED
        BY <2>2, <2>5, <3>2, <4>1, <4>4
    <3> QED
      BY <3>1, <3>2
  <2> QED
    BY <2>3, <2>7 DEF Known
<1> QED
  BY <1>5, <1>11, <1>12

(* A port fails or reads: it is not opened, and nothing is said to be open  *)
(* or closed of another.                                                    *)
LEMMA DeviceKnown ==
    ASSUME SInv, NEW w \in Workers, NEW u \in Types, ports[w][u].open,
           NEW signals \in Seq(Signal), toMain' = toMain \o signals,
           UNCHANGED <<worker, settings, toWorker, connected, portConnected>>,
           \A v \in Workers, t \in Types : v # w \/ t # u => ports'[v][t] = ports[v][t],
           \A t \in Types : t # u => Silent(signals, t),
           ports'[w][u].open => ports'[w][u].dev = ports[w][u].dev /\ Silent(signals, u)
    PROVE  AtRest' /\ (worker' = 1 => \A t \in Types \ {"Blockage"} : Known(t)')
<1>1. PortsInv /\ AtRest /\ toMain \in Seq(Signal)
  BY DEF SInv, PortsInv, SerialTypeOK
<1>2. worker # 0 /\ worker \in Nat /\ ~(w > worker) /\ (worker = 1 => w = 1)
  BY <1>1, WorkerIsThere
<1>3. AtRest'
  <2>1. \A v \in Workers : v > worker => v # w
    BY <1>2
  <2> QED
    BY <1>1, <1>2, <2>1, AtRestKept
<1>4. ASSUME worker = 1, NEW t \in Types \ {"Blockage"} PROVE Known(t)'
  <2>1. w = 1 /\ Known(t)
    BY <1>2, <1>4 DEF SInv
  <2>2. Silent(signals, t) => (Told(t) => Told(t)')
    <3>1. Shown(t)' = Shown(t)
      BY DEF Shown
    <3>2. /\ WillClose(toMain, t) => WillClose(toMain', t)
          /\ Silent(toMain, t) /\ Silent(signals, t) => Silent(toMain', t)
          /\ LastSaysOpen(toMain, t) /\ Silent(signals, t) => LastSaysOpen(toMain', t)
      BY <1>1, SignalsQueued
    <3> QED
      BY <3>1, <3>2 DEF Told
  <2>3. ports'[1][t].open =>
          ports[1][t].open /\ ports'[1][t].dev = ports[1][t].dev /\ Silent(signals, t)
    BY <2>1
  <2>4. ports[1][t].open => Calls(toWorker[1], t) \/ (settings[t] = ports[1][t].dev /\ Told(t))
    BY <2>1 DEF Known
  <2>5. ports'[1][t].open =>
          Calls(toWorker'[1], t) \/ (settings'[t] = ports'[1][t].dev /\ Told(t)')
    BY <2>2, <2>3, <2>4
  <2>6. LastOpens(toWorker'[1], t, settings'[t])
    BY <2>1 DEF Known
  <2> QED
    BY <2>5, <2>6 DEF Known
<1> QED
  BY <1>3, <1>4

LEMMA ErrorKnown ==
    ASSUME SInv, NEW w \in Workers, NEW u \in Types, HandleSerialError(w, u)
    PROVE  AtRest' /\ (worker' = 1 => \A t \in Types \ {"Blockage"} : Known(t)')
<1> DEFINE e == <<[of |-> "error", type |-> u]>>
           no == <<Connected(u, FALSE)>>
<1>1. ports \in Ports /\ ports[w][u] \in Port
  BY DEF SInv, PortsInv, SerialTypeOK, Ports
<1>2. /\ e \in Seq(Signal) /\ no \in Seq(Signal)
      /\ \A t \in Types : t # u => Silent(e, t) /\ Silent(no, t)
  <2>1. [of |-> "error", type |-> u] \in Signal /\ no \in Seq(Signal)
    BY SignalFacts
  <2> QED
    BY <2>1, SignalLists, Signalled
<1>3. e \o no = <<[of |-> "error", type |-> u], Connected(u, FALSE)>>
  <2>1. [of |-> "error", type |-> u] \in Signal /\ Connected(u, FALSE) \in Signal
    BY SignalFacts
  <2> QED
    BY <2>1, ShortLists
<1> DEFINE closed == IF u \in Legacy THEN [ports[w][u] EXCEPT !.open = FALSE, !.flag = FALSE] ELSE NoPort
<1>4. ~closed.open
  BY <1>1 DEF Port, NoPort
<1> DEFINE signals == e \o no
<1>5. toMain' = toMain \o signals /\ ports' = [ports EXCEPT ![w][u] = closed]
  <2>1. CASE u \in Legacy
    BY <1>3, <2>1 DEF HandleSerialError, ErrorLegacy
  <2>2. CASE u \notin Legacy
    BY <2>2 DEF HandleSerialError, ErrorDynamic, CloseDynamic
  <2> QED
    BY <2>1, <2>2
<1> HIDE DEF closed, e, no
<1>6. ports'[w][u] = closed /\ \A v \in Workers, t \in Types : v # w \/ t # u => ports'[v][t] = ports[v][t]
  BY <1>1, <1>5 DEF Ports
<1>7. signals \in Seq(Signal) /\ \A t \in Types : t # u => Silent(signals, t)
  BY <1>2, JoinIndices, SignalsQueued
<1> HIDE DEF signals
<1>8. ports[w][u].open /\ UNCHANGED <<worker, settings, toWorker, connected, portConnected>>
  BY DEF HandleSerialError
<1> QED
  BY <1>4, <1>5, <1>6, <1>7, <1>8, DeviceKnown

LEMMA DataKnown ==
    ASSUME SInv, NEW w \in Workers, NEW u \in Types, NEW complete \in BOOLEAN,
           DataReady(w, u, complete)
    PROVE  AtRest' /\ (worker' = 1 => \A t \in Types \ {"Blockage"} : Known(t)')
<1> DEFINE p == ports[w][u]
           read == [p EXCEPT !.rest = Buffered(p, complete)]
           data == [of |-> "data", type |-> u, dev |-> p.dev]
           signals == IF complete /\ u # "GPS" THEN <<data>> ELSE <<>>
<1>1. ports \in Ports /\ p \in Port /\ p.open /\ p.dev \in Devices /\ toMain \in Seq(Signal)
  BY DEF SInv, PortsInv, SerialTypeOK, Ports, DataReady
<1>2. data \in Signal
  BY <1>1 DEF Signal
<1>3. \A t : ~Determines(data, t)
  BY DEF Determines
<1>4. read.open = p.open /\ read.dev = p.dev
  BY <1>1 DEF Port
<1>5. ports' = [ports EXCEPT ![w][u] = read]
  BY DEF DataReady
<1>6. toMain' = IF complete /\ u # "GPS" THEN Append(toMain, data) ELSE toMain
  BY DEF DataReady
<1>7. ports[w][u].open /\ UNCHANGED <<worker, settings, toWorker, connected, portConnected>>
  BY DEF DataReady
<1> HIDE DEF data
<1>8. signals \in Seq(Signal) /\ (\A t : Silent(signals, t)) /\ toMain' = toMain \o signals
  <2>1. CASE complete /\ u # "GPS"
    <3>1. <<data>> \in Seq(Signal) /\ Append(toMain, data) = toMain \o <<data>>
      BY <1>1, <1>2, AppendJoins
    <3>2. \A t : Silent(<<data>>, t)
      BY <1>3 DEF Silent
    <3> QED
      BY <1>6, <2>1, <3>1, <3>2
  <2>2. CASE ~(complete /\ u # "GPS")
    <3>1. toMain \o <<>> = toMain /\ <<>> \in Seq(Signal)
      BY <1>1
    <3> QED
      BY <1>6, <2>2, <3>1, EmptyQueues
  <2> QED
    BY <2>1, <2>2
<1> HIDE DEF read, signals
<1>9. ports'[w][u] = read /\ \A v \in Workers, t \in Types : v # w \/ t # u => ports'[v][t] = ports[v][t]
  BY <1>1, <1>5 DEF Ports
<1> QED
  BY <1>4, <1>7, <1>8, <1>9, DeviceKnown

(* What is reopened is what is configured. *)
LEMMA ReopenedConfigured ==
    ASSUME SerialTypeOK
    PROVE  LET calls == Reopened("GPS") \o Reopened("IMU") \o Reopened("Steer")
           IN  /\ calls \in Seq(Call)
               /\ \A i \in 1 .. Len(calls) : calls[i].dev = settings[calls[i].type]
<1> DEFINE Ok(list) == list \in Seq(Call) /\ \A i \in 1 .. Len(list) : list[i].dev = settings[list[i].type]
<1>1. ASSUME NEW t PROVE Ok(Reopened(t))
  <2>1. Reopened(t) \in Seq(Call)
    BY ReopenedFacts
  <2>2. CASE t \in Legacy /\ settings[t] # None
    <3> DEFINE call == [do |-> "open", type |-> t, dev |-> settings[t]]
    <3>1. Reopened(t) = <<call>>
      BY <2>2 DEF Reopened
    <3>2. call.dev = settings[call.type]
      OBVIOUS
    <3> HIDE DEF call
    <3>3. \A i \in 1 .. Len(<<call>>) : <<call>>[i] = call
      OBVIOUS
    <3>4. \A i \in 1 .. Len(<<call>>) : <<call>>[i].dev = settings[<<call>>[i].type]
      BY <3>2, <3>3
    <3> QED
      BY <2>1, <3>1, <3>4
  <2>3. CASE ~(t \in Legacy /\ settings[t] # None)
    <3>1. Reopened(t) = <<>>
      BY <2>3 DEF Reopened
    <3> QED
      BY <2>1, <3>1
  <2> QED
    BY <2>2, <2>3
<1>2. ASSUME NEW a, NEW b, Ok(a), Ok(b) PROVE Ok(a \o b)
  <2>1. a \in Seq(Call) /\ b \in Seq(Call)
    BY <1>2
  <2>2. \A i \in 1 .. Len(a \o b) :
           \/ i \in 1 .. Len(a) /\ (a \o b)[i] = a[i]
           \/ i - Len(a) \in 1 .. Len(b) /\ (a \o b)[i] = b[i - Len(a)]
    BY <2>1, EveryIndex
  <2>3. a \o b \in Seq(Call)
    BY <2>1
  <2> QED
    BY <1>2, <2>2, <2>3
<1> HIDE DEF Ok
<1>3. Ok(Reopened("GPS") \o Reopened("IMU") \o Reopened("Steer"))
  BY <1>1, <1>2
<1> QED
  BY <1>3 DEF Ok

(* The service. *)
LEMMA ServiceKnown ==
    ASSUME SInv, StartSerial \/ StopSerial \/ Reconnect \/ MainStep
    PROVE  AtRest' /\ (worker' = 1 => \A t \in Types \ {"Blockage"} : Known(t)')
<1>1. PortsInv /\ AtRest /\ worker \in Nat /\ reconnects \in Nat /\ reconnects <= worker /\ SerialTypeOK
  BY PortsAssumption DEF SInv, PortsInv, SerialTypeOK
<1>2. CASE StartSerial
  <2>1. worker' = worker + 1 /\ UNCHANGED <<settings, ports, toWorker, toMain, connected, portConnected>>
    BY <1>2 DEF StartSerial
  <2>2. worker' # 0 /\ \A w \in Workers : w > worker' => w > worker
    BY <1>1, <2>1 DEF Workers
  <2>3. AtRest'
    BY <1>1, <2>1, <2>2 DEF AtRest
  <2>4. ASSUME worker' = 1, NEW t \in Types \ {"Blockage"} PROVE Known(t)'
    <3>1. 1 > worker
      BY <1>1, <2>1, <2>4
    <3>2. toWorker[1] = <<>> /\ ~ports[1][t].open
      BY <1>1, <3>1, OneIsAWorker DEF AtRest
    <3> QED
      BY <2>1, <3>2, EmptyQueues DEF Known
  <2> QED
    BY <2>3, <2>4
<1>3. CASE StopSerial
  <2>1. UNCHANGED <<worker, settings, ports, toWorker, toMain, connected, portConnected>>
    BY <1>3 DEF StopSerial
  <2> QED
    BY <2>1 DEF SInv, AtRest, Known, Told, Shown
<1>4. CASE Reconnect
  <2> DEFINE calls == Reopened("GPS") \o Reopened("IMU") \o Reopened("Steer")
  <2>1. worker # 0 /\ Post(calls)
        /\ UNCHANGED <<worker, settings, ports, toMain, connected, portConnected>>
    BY <1>1, <1>4 DEF Reconnect
  <2>2. calls \in Seq(Call) /\ \A i \in 1 .. Len(calls) : calls[i].dev = settings[calls[i].type]
    BY <1>1, ReopenedConfigured
  <2> HIDE DEF calls
  <2>3. AtRest'
    BY <1>1, <2>1, PostIdle
  <2>4. ASSUME worker = 1, NEW t \in Types \ {"Blockage"} PROVE Known(t)'
    <3>1. Known(t)
      BY <2>4 DEF SInv
    <3>2. settings'[t] = settings[t] /\ (Told(t) => Told(t)')
      BY <2>1 DEF Told, Shown
    <3>3. \A i \in 1 .. Len(calls) :
              calls[i].type = t /\ calls[i].do = "open" => calls[i].dev = settings'[t]
      BY <2>1, <2>2
    <3> QED
      BY <1>1, <2>1, <2>2, <2>4, <3>1, <3>2, <3>3, PostedKnown
  <2> QED
    BY <2>1, <2>3, <2>4
<1>5. CASE MainStep
  <2> DEFINE s == Head(toMain)
             rest == Tail(toMain)
  <2>1. toMain # <<>> /\ UNCHANGED <<worker, ports>>
    BY <1>5 DEF MainStep
  <2>2. worker # 0
    BY <1>1, <2>1 DEF AtRest
  <2>3. \/ UNCHANGED <<settings, toWorker>>
        \/ s.of = "close" /\ Closing(s.type)
    BY <1>5 DEF MainStep, OnConnected, OnPortOpenResult, OnSerialError, OnData, OnClose
  <2>4. s \in Signal
    BY <1>1, <2>1 DEF SerialTypeOK
  <2>5. s.type \in Types
    <3> HIDE DEF s
    <3> QED
      BY <2>4 DEF Signal
  <2>6. AtRest'
    <3>1. CASE UNCHANGED <<settings, toWorker>>
      BY <1>1, <2>1, <2>2, <3>1, AtRestKept
    <3>2. CASE s.of = "close" /\ Closing(s.type)
      BY <1>1, <2>1, <2>2, <3>2, PostIdle DEF Closing
    <3> QED
      BY <2>3, <3>1, <3>2
  <2>7. ASSUME worker = 1, NEW t \in Types \ {"Blockage"} PROVE Known(t)'
    <3>1. Known(t)
      BY <2>7 DEF SInv
    <3>2. ~(s.of = "close" /\ s.type = t) => (Told(t) => Told(t)')
      BY <1>1, <1>5, SlotTold
    <3> HIDE DEF s
    <3>3. CASE UNCHANGED <<settings, toWorker>> /\ ~(s.of = "close" /\ s.type = t)
      BY <2>1, <3>1, <3>2, <3>3 DEF Known
    <3>4. CASE s.of = "close" /\ Closing(s.type)
      BY <1>1, <2>1, <2>5, <2>7, <3>1, <3>2, <3>4, ClosingKnown
    <3>5. s.of = "close" => Closing(s.type)
      BY <1>5 DEF MainStep, OnConnected, OnPortOpenResult, OnSerialError, OnData, OnClose, s
    <3> QED
      BY <2>3, <3>3, <3>4, <3>5
  <2> QED
    BY <2>1, <2>6, <2>7
<1> QED
  BY <1>2, <1>3, <1>4, <1>5

(* The user and the devices. *)
LEMMA UserKnown ==
    ASSUME SInv,
           \/ \E t \in Types : CloseSerialPort(t) \/ \E d \in Devices : OpenSerialPort(t, d)
           \/ \E d \in Devices : Unplug(d) \/ PlugIn(d)
           \/ UNCHANGED serialVars
    PROVE  AtRest' /\ (worker' = 1 => \A t \in Types \ {"Blockage"} : Known(t)')
<1>1. PortsInv /\ AtRest /\ worker \in Nat /\ SerialTypeOK
  BY PortsAssumption DEF SInv, PortsInv, SerialTypeOK
<1>2. ASSUME NEW u \in Types, CloseSerialPort(u)
      PROVE  AtRest' /\ (worker' = 1 => \A t \in Types \ {"Blockage"} : Known(t)')
  <2>1. worker # 0 /\ Closing(u) /\ UNCHANGED <<worker, ports, toMain>>
    BY <1>1, <1>2 DEF CloseSerialPort
  <2>2. AtRest'
    BY <1>1, <2>1, PostIdle DEF Closing
  <2>3. ASSUME worker = 1, NEW t \in Types \ {"Blockage"} PROVE Known(t)'
    <3>1. Known(t)
      BY <2>3 DEF SInv
    <3>2. t # u => (Told(t) => Told(t)')
      BY <1>1, <2>1, ClosingShown DEF Told
    <3> QED
      BY <1>1, <2>1, <2>3, <3>1, <3>2, ClosingKnown
  <2> QED
    BY <2>1, <2>2, <2>3
<1>3. ASSUME NEW u \in Types, NEW d \in Devices, OpenSerialPort(u, d)
      PROVE  AtRest' /\ (worker' = 1 => \A t \in Types \ {"Blockage"} : Known(t)')
  <2> DEFINE call == [do |-> "open", type |-> u, dev |-> d]
             calls == <<call>>
  <2>1. /\ worker # 0 /\ Post(calls) /\ settings' = [settings EXCEPT ![u] = d]
        /\ UNCHANGED <<worker, ports, toMain, connected, portConnected>>
    BY <1>1, <1>3 DEF OpenSerialPort
  <2>2. calls \in Seq(Call) /\ Len(calls) = 1 /\ \A i \in 1 .. Len(calls) : calls[i] = call
    <3>1. call \in Call /\ calls \in Seq(Call)
      BY CallFacts DEF Call
    <3> HIDE DEF call
    <3> QED
      BY <3>1, ShortLists
  <2>3. call.type = u /\ call.dev = d
    OBVIOUS
  <2> HIDE DEF call, calls
  <2>4. AtRest'
    BY <1>1, <2>1, PostIdle
  <2>5. ASSUME worker = 1, NEW t \in Types \ {"Blockage"} PROVE Known(t)'
    <3>1. Known(t)
      BY <2>5 DEF SInv
    <3>2. Told(t) => Told(t)'
      BY <2>1 DEF Told, Shown
    <3>3. settings'[u] = d /\ (t # u => settings'[t] = settings[t])
      BY <1>1, <2>1 DEF SerialTypeOK
    <3>4. \A i \in 1 .. Len(calls) :
              calls[i].type = t /\ calls[i].do = "open" => calls[i].dev = settings'[t]
      BY <2>2, <2>3, <3>3
    <3>5. t = u => Calls(calls, t)
      <4>1. 1 \in 1 .. Len(calls)
        BY <2>2
      <4> QED
        BY <2>2, <2>3, <4>1 DEF Calls
    <3> QED
      BY <1>1, <2>1, <2>2, <2>5, <3>1, <3>2, <3>3, <3>4, <3>5, PostedKnown
  <2> QED
    BY <2>1, <2>4, <2>5
<1>4. CASE (\E d \in Devices : Unplug(d) \/ PlugIn(d)) \/ UNCHANGED serialVars
  <2>1. UNCHANGED <<worker, settings, ports, toWorker, toMain, connected, portConnected>>
    BY <1>4 DEF Unplug, PlugIn, serialVars
  <2> QED
    BY <2>1 DEF SInv, AtRest, Known, Told, Shown
<1> QED
  BY <1>2, <1>3, <1>4

LEMMA SInvariant == SerialSpec => []SInv
<1>1. SInv /\ [SerialNext]_serialVars => SInv'
  <2> SUFFICES ASSUME SInv, [SerialNext]_serialVars PROVE SInv'
    OBVIOUS
  <2>1. PortsInv'
    BY Step DEF SInv
  <2>2. CASE \E w \in Workers : WorkerStep(w)
    BY <2>1, <2>2, WorkerKnown DEF SInv
  <2>3. CASE \E w \in Workers, t \in Types :
                HandleSerialError(w, t) \/ \E c \in BOOLEAN : DataReady(w, t, c)
    BY <2>1, <2>3, ErrorKnown, DataKnown DEF SInv
  <2>4. CASE StartSerial \/ StopSerial \/ Reconnect \/ MainStep
    BY <2>1, <2>4, ServiceKnown DEF SInv
  <2>5. CASE \/ \E t \in Types : CloseSerialPort(t) \/ \E d \in Devices : OpenSerialPort(t, d)
             \/ \E d \in Devices : Unplug(d) \/ PlugIn(d)
             \/ UNCHANGED serialVars
    BY <2>1, <2>5, UserKnown DEF SInv
  <2> QED
    BY <2>2, <2>3, <2>4, <2>5 DEF SerialNext
<1> QED
  BY InitSInv, <1>1, PTL DEF SerialSpec

(* Once the queues are empty a port that is open is shown, and is the one   *)
(* that is configured (openSerialPort, closeSerialPort and the slots of     *)
(* AgIOService against SerialWorker's functions).                           *)
THEOREM OpenIsShown == SerialSpec => []OpenPortIsShown
<1>1. SInv => OpenPortIsShown
  <2> SUFFICES ASSUME SInv, SerialQuiet, worker = 1, NEW t \in Types \ {"Blockage"}, ports[1][t].open
               PROVE  Shown(t) /\ settings[t] = ports[1][t].dev
    BY DEF OpenPortIsShown, Shown
  <2>1. toMain = <<>> /\ toWorker[1] = <<>>
    BY OneIsAWorker DEF SerialQuiet
  <2>2. Known(t)
    BY DEF SInv
  <2> QED
    BY <2>1, <2>2, EmptyQueues DEF Known, Told
<1> QED
  BY <1>1, SInvariant, PTL

----------------------------------------------------------------------------
(* What the tractor's position rests on.  gps is a record of sixteen       *)
(* members that every action changes in its own way, so each operator of   *)
(* GPSFix has a lemma that says what it keeps: IsGood, the ranges and the  *)
(* three points of a first heading; IsFree, that no position is of the     *)
(* other source; the source of the heading; the corrections.  The actions  *)
(* then only combine them.                                                 *)

GPS == [latlon : Places, start : SimPlaces, fix : Places, corrections : 0 .. 2, raw : Places,
        vtgSpeed : BOOLEAN, avgSpeed : BOOLEAN, lastKnown : SimPlaces, force : BOOLEAN,
        startCounter : 0 .. StartFrames + 1, isFirstFixPositionSet : BOOLEAN,
        isGPSPositionInitialized : BOOLEAN, isFirstHeadingSet : BOOLEAN,
        stepFixPts : Seq(Places), corrected : 0 .. 2, headingFromSource : Sources]

(* What FixTypeOK asks of a frame's state beyond the ranges. *)
IsGood(g) ==
    /\ g \in GPS
    /\ Len(g.stepFixPts) <= 3
    /\ g.headingFromSource = "Fix" => (g.isFirstHeadingSet <=> Len(g.stepFixPts) = 3)
    /\ g.isGPSPositionInitialized => g.isFirstFixPositionSet

(* No position of g and no point of its heading is of the other source. *)
IsFree(g, other) ==
    /\ g.latlon.source # other /\ g.fix.source # other /\ g.raw.source # other
    /\ \A i \in 1 .. Len(g.stepFixPts) : g.stepFixPts[i].source # other

LEMMA Constants ==
    /\ StartFrames \in Nat /\ 0 \in SimPlaces /\ SimStart \in SimPlaces /\ OldStart \in SimPlaces
    /\ GPSPlaces \subseteq SimPlaces /\ SimPlaces \subseteq Nat
    /\ OldField \in Fields /\ NewField \in Fields
<1>1. StartFrames \in Nat
  BY PlacesAssumption
<1>2. 0 \in SimPlaces /\ SimStart \in SimPlaces /\ OldStart \in SimPlaces
  BY PlacesAssumption
<1>3. GPSPlaces \subseteq SimPlaces /\ SimPlaces \subseteq Nat
  BY PlacesAssumption
<1> QED
  BY <1>1, <1>2, <1>3 DEF Fields

LEMMA MinOfTwo ==
    ASSUME NEW a \in Int, NEW b \in Int
    PROVE  Min({a, b}) = IF a <= b THEN a ELSE b
<1> DEFINE m == IF a <= b THEN a ELSE b
<1>1. m \in {a, b} /\ \A y \in {a, b} : m <= y
  OBVIOUS
<1>2. \A x \in {a, b} : (\A y \in {a, b} : x <= y) => x = m
  OBVIOUS
<1> HIDE DEF m
<1>3. (CHOOSE x \in {a, b} : \A y \in {a, b} : x <= y) = m
  BY <1>1, <1>2
<1> QED
  BY <1>3 DEF Min, m

(* The latest point comes first, and the third last goes. *)
LEMMA PushFacts ==
    ASSUME NEW points \in Seq(Places), Len(points) <= 3, NEW place \in Places
    PROVE  /\ Push(points, place) \in Seq(Places)
           /\ Len(Push(points, place)) = IF Len(points) < 3 THEN Len(points) + 1 ELSE 3
           /\ \A other : /\ place.source # other
                         /\ \A i \in 1 .. Len(points) : points[i].source # other
                         => \A i \in 1 .. Len(Push(points, place)) : Push(points, place)[i].source # other
<1> DEFINE n == IF Len(points) < 3 THEN Len(points) + 1 ELSE 3
           long == <<place>> \o points
           new == Push(points, place)
<1>1. Len(points) \in Nat
  OBVIOUS
<1>2. Min({Len(points) + 1, 3}) = n
  BY <1>1, MinOfTwo
<1>3. long \in Seq(Places) /\ Len(long) = Len(points) + 1
  OBVIOUS
<1>4. long[1] = place /\ \A i \in 2 .. Len(points) + 1 : long[i] = points[i - 1]
  OBVIOUS
<1>5. n \in 1 .. Len(long)
  BY <1>1, <1>3
<1>6. new = SubSeq(long, 1, n)
  BY <1>2 DEF Push
<1> HIDE DEF long, n, new
<1>7. new \in Seq(Places) /\ Len(new) = n /\ \A i \in 1 .. n : new[i] = long[i]
  BY <1>3, <1>5, <1>6, SubSeqProperties
<1>8. ASSUME NEW other, place.source # other, \A i \in 1 .. Len(points) : points[i].source # other,
             NEW i \in 1 .. n
      PROVE  new[i].source # other
  <2>1. CASE i = 1
    BY <1>4, <1>7, <1>8, <2>1
  <2>2. CASE i # 1
    <3>1. i \in 2 .. Len(points) + 1 /\ i - 1 \in 1 .. Len(points)
      BY <1>1, <1>3, <1>5, <2>2
    <3> QED
      BY <1>4, <1>7, <1>8, <3>1
  <2> QED
    BY <2>1, <2>2
<1> QED
  BY <1>7, <1>8 DEF new, n

LEMMA CorrectedFacts ==
    ASSUME NEW g, IsGood(g)
    PROVE  /\ IsGood(Corrected(g))
           /\ \A other : IsFree(g, other) => IsFree(Corrected(g), other)
           /\ Corrected(g).isFirstHeadingSet = g.isFirstHeadingSet
           /\ Corrected(g).stepFixPts = g.stepFixPts
           /\ Corrected(g).raw = g.raw
           /\ Corrected(g).headingFromSource = g.headingFromSource
           /\ g.corrections = 0 => Corrected(g).corrections = 1
<1> DEFINE n == Min({g.corrections + 1, 2})
<1>1. g.corrections \in 0 .. 2
  BY DEF IsGood, GPS
<1>2. n \in 0 .. 2 /\ (g.corrections = 0 => n = 1)
  BY <1>1, MinOfTwo
<1>3. Corrected(g) = [g EXCEPT !.corrections = n]
  BY DEF Corrected
<1> HIDE DEF n
<1> QED
  BY <1>2, <1>3 DEF IsGood, GPS, IsFree

LEMMA TheRestFacts ==
    ASSUME NEW g, IsGood(g)
    PROVE  /\ IsGood(TheRest(g))
           /\ \A other : IsFree(g, other) => IsFree(TheRest(g), other)
           /\ TheRest(g).headingFromSource = g.headingFromSource
           /\ TheRest(g).corrected = g.corrections
BY DEF TheRest, IsGood, GPS, IsFree

(* A place that comes with the fix is one of the fix's. *)
LEMMA PlacesFacts ==
    ASSUME NEW g, IsGood(g)
    PROVE  g.latlon \in Places /\ g.fix \in Places /\ g.raw \in Places
           /\ g.stepFixPts \in Seq(Places) /\ Len(g.stepFixPts) <= 3
BY DEF IsGood, GPS

LEMMA KeepPointFacts ==
    ASSUME NEW g, IsGood(g), NEW hasMoved \in BOOLEAN,
           g.isFirstHeadingSet \/ Len(g.stepFixPts) = 3,
           g.headingFromSource = "Fix"
    PROVE  /\ IsGood(KeepPoint(g, hasMoved))
           /\ \A other : IsFree(g, other) => IsFree(KeepPoint(g, hasMoved), other)
           /\ KeepPoint(g, hasMoved).headingFromSource = g.headingFromSource
           /\ KeepPoint(g, hasMoved).corrections = g.corrections
<1> DEFINE new == Push(g.stepFixPts, g.raw)
<1>1. Len(g.stepFixPts) = 3
  BY DEF IsGood
<1>2. /\ new \in Seq(Places) /\ Len(new) = 3
      /\ \A other : IsFree(g, other) => \A i \in 1 .. 3 : new[i].source # other
  <2>1. g.stepFixPts \in Seq(Places) /\ g.raw \in Places
    BY PlacesFacts
  <2> DEFINE points == g.stepFixPts
             place == g.raw
  <2>0. Len(points) <= 3 /\ ~(Len(points) < 3)
    BY <1>1
  <2> HIDE DEF points, place
  <2>2. Push(points, place) \in Seq(Places) /\ Len(Push(points, place)) = 3
    BY <2>0, <2>1, PushFacts DEF points, place
  <2>3. ASSUME NEW other, IsFree(g, other) PROVE \A i \in 1 .. 3 : new[i].source # other
    <3>1. /\ g.raw.source # other
          /\ \A i \in 1 .. Len(g.stepFixPts) : g.stepFixPts[i].source # other
      BY <2>3 DEF IsFree
    <3>2. \A i \in 1 .. Len(points) : points[i].source # other
      BY <3>1 DEF points
    <3>3. \A i \in 1 .. Len(Push(points, place)) : Push(points, place)[i].source # other
      BY <2>0, <2>1, <3>1, <3>2, PushFacts DEF points, place
    <3> QED
      BY <2>2, <3>3 DEF points, place
  <2> QED
    BY <2>2, <2>3 DEF points, place
<1>3. CASE hasMoved
  <2>1. KeepPoint(g, hasMoved) = [g EXCEPT !.stepFixPts = new]
    BY <1>3 DEF KeepPoint
  <2> HIDE DEF new
  <2> DEFINE h == [g EXCEPT !.stepFixPts = new]
  <2>2. h \in GPS
    BY <1>2 DEF IsGood, GPS
  <2>3. /\ h.stepFixPts = new /\ h.isFirstHeadingSet = g.isFirstHeadingSet
        /\ h.isGPSPositionInitialized = g.isGPSPositionInitialized
        /\ h.isFirstFixPositionSet = g.isFirstFixPositionSet
        /\ h.headingFromSource = g.headingFromSource /\ h.corrections = g.corrections
        /\ h.latlon = g.latlon /\ h.fix = g.fix /\ h.raw = g.raw
    BY DEF IsGood, GPS
  <2> HIDE DEF h
  <2>4. IsGood(h)
    BY <1>1, <1>2, <2>2, <2>3 DEF IsGood
  <2>5. \A other : IsFree(g, other) => IsFree(h, other)
    <3>1. Len(h.stepFixPts) = 3 /\ \A i \in 1 .. 3 : h.stepFixPts[i] = new[i]
      BY <1>2, <2>3
    <3>2. ASSUME NEW other, IsFree(g, other)
          PROVE  IsFree(h, other)
      <4>1. \A i \in 1 .. 3 : h.stepFixPts[i].source # other
        BY <1>2, <3>1, <3>2
      <4>2. h.latlon.source # other /\ h.fix.source # other /\ h.raw.source # other
        BY <2>3, <3>2 DEF IsFree
      <4> QED
        BY <3>1, <4>1, <4>2 DEF IsFree
    <3> QED
      BY <3>2
  <2> QED
    BY <2>1, <2>3, <2>4, <2>5 DEF h
<1>4. CASE ~hasMoved
  BY <1>4 DEF KeepPoint
<1> QED
  BY <1>3, <1>4

LEMMA FirstHeadingFacts ==
    ASSUME NEW g, IsGood(g), ~g.isFirstHeadingSet, Len(g.stepFixPts) < 3
    PROVE  /\ IsGood(FirstHeading(g))
           /\ \A other : IsFree(g, other) => IsFree(FirstHeading(g), other)
           /\ FirstHeading(g).headingFromSource = g.headingFromSource
           /\ FirstHeading(g).corrected = g.corrected
<1> DEFINE points == Push(g.stepFixPts, g.fix)
           pushed == [g EXCEPT !.stepFixPts = points]
           set == [pushed EXCEPT !.isFirstHeadingSet = TRUE]
<1>1. /\ points \in Seq(Places) /\ Len(points) = Len(g.stepFixPts) + 1
      /\ \A other : IsFree(g, other) => \A i \in 1 .. Len(points) : points[i].source # other
  BY PlacesFacts, PushFacts DEF IsFree
<1>2. Len(g.stepFixPts) \in Nat
  BY PlacesFacts
<1>3. FirstHeading(g) = IF Len(points) < 3 THEN pushed ELSE Corrected(set)
  BY DEF FirstHeading
<1> HIDE DEF points
<1>4. CASE Len(points) < 3
  <2>1. /\ IsGood(pushed) /\ pushed.headingFromSource = g.headingFromSource
        /\ pushed.corrected = g.corrected
    <3>1. pushed \in GPS
      BY <1>1 DEF IsGood, GPS
    <3>2. /\ pushed.stepFixPts = points /\ pushed.isFirstHeadingSet = g.isFirstHeadingSet
          /\ pushed.isGPSPositionInitialized = g.isGPSPositionInitialized
          /\ pushed.isFirstFixPositionSet = g.isFirstFixPositionSet
          /\ pushed.headingFromSource = g.headingFromSource /\ pushed.corrected = g.corrected
      BY DEF IsGood, GPS
    <3> HIDE DEF pushed
    <3>3. Len(points) <= 3 /\ Len(points) # 3
      BY <1>1, <1>2, <1>4
    <3>4. pushed.isGPSPositionInitialized => pushed.isFirstFixPositionSet
      BY <3>2 DEF IsGood
    <3>5. ~pushed.isFirstHeadingSet /\ Len(pushed.stepFixPts) = Len(points)
      BY <3>2
    <3>6. IsGood(pushed)
      BY <3>1, <3>3, <3>4, <3>5 DEF IsGood
    <3> QED
      BY <3>2, <3>6
  <2>2. \A other : IsFree(g, other) => IsFree(pushed, other)
    BY <1>1 DEF IsGood, GPS, IsFree
  <2> QED
    BY <1>3, <1>4, <2>1, <2>2
<1>5. CASE ~(Len(points) < 3)
  <2>1. Len(points) = 3
    BY <1>1, <1>2, <1>5
  <2>2. IsGood(set) /\ set.headingFromSource = g.headingFromSource /\ set.corrected = g.corrected
    <3>1. set \in GPS
      BY <1>1 DEF IsGood, GPS
    <3>2. /\ set.stepFixPts = points /\ set.isFirstHeadingSet
          /\ set.isGPSPositionInitialized = g.isGPSPositionInitialized
          /\ set.isFirstFixPositionSet = g.isFirstFixPositionSet
          /\ set.headingFromSource = g.headingFromSource /\ set.corrected = g.corrected
      BY DEF IsGood, GPS
    <3> HIDE DEF set
    <3>3. set.isGPSPositionInitialized => set.isFirstFixPositionSet
      BY <3>2 DEF IsGood
    <3>4. Len(set.stepFixPts) = 3 /\ Len(set.stepFixPts) <= 3
      <4>1. Len(set.stepFixPts) = 3
        BY <2>1, <3>2
      <4> QED
        BY <4>1, 3 <= 3
    <3>5. IsGood(set)
      BY <3>1, <3>2, <3>3, <3>4 DEF IsGood
    <3> QED
      BY <3>2, <3>5
  <2>3. \A other : IsFree(g, other) => IsFree(set, other)
    BY <1>1 DEF IsGood, GPS, IsFree
  <2>4. Corrected(set).corrected = set.corrected
    BY <2>2 DEF Corrected, IsGood, GPS
  <2> HIDE DEF set
  <2> QED
    BY <1>3, <1>5, <2>2, <2>3, <2>4, CorrectedFacts
<1> QED
  BY <1>4, <1>5

(* Once the heading comes from the fixes, a frame's fix is corrected once. *)
LEMMA FixHeadingFacts ==
    ASSUME NEW g, IsGood(g), NEW hasMoved \in BOOLEAN, g.headingFromSource = "Fix"
    PROVE  /\ IsGood(FixHeading(g, hasMoved))
           /\ \A other : IsFree(g, other) => IsFree(FixHeading(g, hasMoved), other)
           /\ FixHeading(g, hasMoved).headingFromSource = g.headingFromSource
           /\ g.isFirstHeadingSet => FixHeading(g, hasMoved).corrected = 1
<1>1. CASE ~g.isFirstHeadingSet /\ ~g.avgSpeed
  BY <1>1, TheRestFacts DEF FixHeading
<1>2. CASE ~g.isFirstHeadingSet /\ g.avgSpeed /\ Len(g.stepFixPts) < 3
  BY <1>2, FirstHeadingFacts DEF FixHeading
<1>3. CASE g.isFirstHeadingSet \/ (g.avgSpeed /\ ~(Len(g.stepFixPts) < 3))
  <2> DEFINE anew == [g EXCEPT !.fix = g.raw, !.corrections = 0]
             once == Corrected(anew)
             kept == KeepPoint(once, hasMoved)
  <2>1. /\ IsGood(anew) /\ anew.headingFromSource = g.headingFromSource
        /\ anew.corrections = 0 /\ anew.stepFixPts = g.stepFixPts
        /\ anew.isFirstHeadingSet = g.isFirstHeadingSet
    <3>0. g.raw \in Places /\ 0 \in 0 .. 2
      BY PlacesFacts
    <3>1. anew \in GPS
      BY <3>0 DEF IsGood, GPS
    <3>2. /\ anew.stepFixPts = g.stepFixPts /\ anew.isFirstHeadingSet = g.isFirstHeadingSet
          /\ anew.isGPSPositionInitialized = g.isGPSPositionInitialized
          /\ anew.isFirstFixPositionSet = g.isFirstFixPositionSet
          /\ anew.headingFromSource = g.headingFromSource /\ anew.corrections = 0
      BY DEF IsGood, GPS
    <3> HIDE DEF anew
    <3>3. IsGood(anew)
      BY <3>1, <3>2 DEF IsGood
    <3> QED
      BY <3>2, <3>3
  <2>2. \A other : IsFree(g, other) => IsFree(anew, other)
    BY DEF IsGood, GPS, IsFree
  <2>3. FixHeading(g, hasMoved) = TheRest(kept)
    BY <1>3 DEF FixHeading
  <2>4. g.isFirstHeadingSet \/ Len(g.stepFixPts) = 3
    <3> DEFINE n == Len(g.stepFixPts)
    <3>1. n \in Nat /\ n <= 3
      BY PlacesFacts
    <3>2. g.isFirstHeadingSet \/ ~(n < 3)
      BY <1>3
    <3> HIDE DEF n
    <3>3. g.isFirstHeadingSet \/ n = 3
      BY <3>1, <3>2
    <3> QED
      BY <3>3 DEF n
  <2> HIDE DEF anew
  <2>5. /\ IsGood(once) /\ once.headingFromSource = g.headingFromSource /\ once.corrections = 1
        /\ once.stepFixPts = g.stepFixPts /\ once.isFirstHeadingSet = g.isFirstHeadingSet
        /\ \A other : IsFree(g, other) => IsFree(once, other)
    BY <2>1, <2>2, CorrectedFacts
  <2> HIDE DEF once
  <2>6. /\ IsGood(kept) /\ kept.headingFromSource = g.headingFromSource /\ kept.corrections = 1
        /\ \A other : IsFree(g, other) => IsFree(kept, other)
    BY <2>4, <2>5, KeepPointFacts
  <2> HIDE DEF kept
  <2> QED
    BY <2>3, <2>6, TheRestFacts
<1> QED
  BY <1>1, <1>2, <1>3

LEMMA FirstPositionsFacts ==
    ASSUME NEW g, IsGood(g)
    PROVE  LET h == InitializeFirstFewGPSPositions(g)
           IN  /\ IsGood(h)
               /\ \A other : IsFree(g, other) => IsFree(h, other)
               /\ h.headingFromSource = g.headingFromSource
               /\ h.corrected = g.corrected
<1> DEFINE h == InitializeFirstFewGPSPositions(g)
           begun == [g EXCEPT !.isGPSPositionInitialized = g.startCounter > StartFrames]
           placed(f) == [f EXCEPT !.fix = g.latlon, !.corrections = 0,
                                  !.isFirstFixPositionSet = TRUE]
           referred == [g EXCEPT !.start = g.latlon.km, !.force = FALSE]
<1>1. (g.startCounter > StartFrames) \in BOOLEAN
  BY Constants DEF IsGood, GPS
<1>2. g.latlon.km \in SimPlaces
  BY PlacesFacts, Constants DEF Places, Nowhere, Place
<1>3. h = IF g.isFirstFixPositionSet THEN begun
          ELSE IF isJobStarted # NoField /\ ~g.force THEN placed(g)
          ELSE IF g.latlon.km = 0 THEN g
          ELSE placed(referred)
  BY DEF InitializeFirstFewGPSPositions
<1>4. ASSUME g.isFirstFixPositionSet
      PROVE  /\ IsGood(begun) /\ begun.headingFromSource = g.headingFromSource
             /\ begun.corrected = g.corrected
    <2>1. begun \in GPS
      BY <1>1 DEF IsGood, GPS
    <2>2. /\ begun.stepFixPts = g.stepFixPts /\ begun.isFirstHeadingSet = g.isFirstHeadingSet
          /\ begun.isFirstFixPositionSet = g.isFirstFixPositionSet
          /\ begun.headingFromSource = g.headingFromSource /\ begun.corrected = g.corrected
      BY DEF IsGood, GPS
    <2> HIDE DEF begun
    <2>3. IsGood(begun)
      BY <1>4, <2>1, <2>2 DEF IsGood
    <2> QED
      BY <2>2, <2>3
<1>5. \A other : IsFree(g, other) => IsFree(begun, other)
    BY DEF IsGood, GPS, IsFree
<1>6. IsGood(referred) /\ referred.headingFromSource = g.headingFromSource
      /\ referred.latlon = g.latlon /\ referred.corrected = g.corrected
  BY <1>2 DEF IsGood, GPS
<1>7. \A other : IsFree(g, other) => IsFree(referred, other)
  BY DEF IsGood, GPS, IsFree
<1>8. ASSUME NEW f, IsGood(f), f.latlon = g.latlon
      PROVE  /\ IsGood(placed(f)) /\ placed(f).headingFromSource = f.headingFromSource
             /\ placed(f).corrected = f.corrected
             /\ \A other : IsFree(f, other) => IsFree(placed(f), other)
  <2>1. /\ IsGood(placed(f)) /\ placed(f).headingFromSource = f.headingFromSource
        /\ placed(f).corrected = f.corrected
    <3> DEFINE p == placed(f)
    <3>1. g.latlon \in Places /\ 0 \in 0 .. 2 /\ TRUE \in BOOLEAN
      BY PlacesFacts
    <3>2. p \in GPS
      BY <1>8, <3>1 DEF IsGood, GPS
    <3>3. /\ p.stepFixPts = f.stepFixPts /\ p.isFirstHeadingSet = f.isFirstHeadingSet
          /\ p.isFirstFixPositionSet
          /\ p.headingFromSource = f.headingFromSource /\ p.corrected = f.corrected
      BY <1>8 DEF IsGood, GPS
    <3> HIDE DEF p
    <3>4. IsGood(p)
      BY <1>8, <3>2, <3>3 DEF IsGood
    <3>5. IsGood(p) /\ p.headingFromSource = f.headingFromSource /\ p.corrected = f.corrected
      BY <3>3, <3>4
    <3> QED
      BY <3>5 DEF p
  <2>2. \A other : IsFree(f, other) => IsFree(placed(f), other)
    BY <1>8 DEF IsGood, GPS, IsFree
  <2> QED
    BY <2>1, <2>2
<1> HIDE DEF h, begun, placed, referred
<1>9. /\ IsGood(h) /\ h.headingFromSource = g.headingFromSource /\ h.corrected = g.corrected
      /\ \A other : IsFree(g, other) => IsFree(h, other)
  BY <1>3, <1>4, <1>5, <1>6, <1>7, <1>8
<1> QED
  BY <1>9 DEF h

(* The whole of a frame. *)
LEMMA UpdateFacts ==
    ASSUME NEW g, IsGood(g), NEW avgSpeed \in BOOLEAN, NEW hasMoved \in BOOLEAN
    PROVE  LET h == UpdateFixPosition(g, avgSpeed, hasMoved)
           IN  /\ IsGood(h)
               /\ \A other : IsFree(g, other) => IsFree(h, other)
               /\ h.headingFromSource = g.headingFromSource
               /\ g.headingFromSource = "Fix" /\ (g.isGPSPositionInitialized => g.isFirstHeadingSet)
                     => h.corrected \in {g.corrected, 1}
<1> DEFINE h == UpdateFixPosition(g, avgSpeed, hasMoved)
           n == Min({g.startCounter + 1, StartFrames + 1})
           counted == [g EXCEPT !.startCounter = n]
           moving == [counted EXCEPT !.avgSpeed = avgSpeed]
           fromReceiver == [moving EXCEPT !.isFirstHeadingSet = TRUE]
<1>1. n \in 0 .. StartFrames + 1
  <2>1. g.startCounter \in 0 .. StartFrames + 1
    BY DEF IsGood, GPS
  <2> QED
    BY <2>1, Constants, MinOfTwo
<1>2. h = IF ~g.isGPSPositionInitialized THEN InitializeFirstFewGPSPositions(counted)
          ELSE IF g.headingFromSource = "Fix" THEN FixHeading(moving, hasMoved)
          ELSE TheRest(Corrected(fromReceiver))
  BY DEF UpdateFixPosition, ReceiverHeading, IsGood, GPS
<1> HIDE DEF h, n
<1>3. /\ IsGood(counted) /\ counted.headingFromSource = g.headingFromSource
      /\ counted.corrected = g.corrected
      /\ \A other : IsFree(g, other) => IsFree(counted, other)
  BY <1>1 DEF IsGood, GPS, IsFree
<1> HIDE DEF counted
<1>4. /\ IsGood(moving) /\ moving.headingFromSource = counted.headingFromSource
      /\ moving.corrected = counted.corrected
      /\ \A other : IsFree(counted, other) => IsFree(moving, other)
  BY <1>3 DEF IsGood, GPS, IsFree
<1>5. moving.isFirstHeadingSet = g.isFirstHeadingSet
  BY <1>1 DEF IsGood, GPS, counted
<1> HIDE DEF moving
<1>6. ASSUME moving.headingFromSource # "Fix"
      PROVE  /\ IsGood(fromReceiver)
             /\ fromReceiver.headingFromSource = moving.headingFromSource
             /\ \A other : IsFree(moving, other) => IsFree(fromReceiver, other)
  BY <1>4, <1>6 DEF IsGood, GPS, IsFree
<1> HIDE DEF fromReceiver
<1> SUFFICES /\ IsGood(h)
             /\ \A other : IsFree(g, other) => IsFree(h, other)
             /\ h.headingFromSource = g.headingFromSource
             /\ g.headingFromSource = "Fix" /\ (g.isGPSPositionInitialized => g.isFirstHeadingSet)
                   => h.corrected \in {g.corrected, 1}
  BY DEF h
<1>7. CASE ~g.isGPSPositionInitialized
  BY <1>2, <1>3, <1>7, FirstPositionsFacts
<1>8. CASE g.isGPSPositionInitialized /\ g.headingFromSource = "Fix"
  BY <1>2, <1>3, <1>4, <1>5, <1>8, FixHeadingFacts
<1>9. CASE g.isGPSPositionInitialized /\ g.headingFromSource # "Fix"
  <2> DEFINE once == Corrected(fromReceiver)
  <2>1. /\ IsGood(once) /\ once.headingFromSource = g.headingFromSource
        /\ \A other : IsFree(g, other) => IsFree(once, other)
    BY <1>3, <1>4, <1>6, <1>9, CorrectedFacts
  <2> HIDE DEF once
  <2>2. h = TheRest(once)
    BY <1>2, <1>9 DEF once
  <2> QED
    BY <1>9, <2>1, <2>2, TheRestFacts
<1> QED
  BY <1>7, <1>8, <1>9

(* What a sentence is made of. *)
LEMMA SentenceFacts ==
    ASSUME NEW data \in Received
    PROVE  data.km \in GPSPlaces \cup {0} /\ data.speed \in BOOLEAN
<1>1. PICK s \in SentencesFrom(GPSPlaces) : data = parse(s)
  BY DEF Received, AllParsed
<1>2. s.km \in GPSPlaces \cup {0} /\ s.speed \in BOOLEAN
  BY DEF SentencesFrom
<1> DEFINE d == parse(s)
<1>3. d \in {ParsedData, parseGGA(s), parseRMC(s), parseVTG(s), parsePANDA(s), parsePAOGI(s),
              parseGSA(s), parseGSV(s), parseHDT(s), parseAVR(s), parseKSXT(s)}
  <2>1. parseNMEA(s) \in {ParsedData, parseGGA(s), parseRMC(s), parseVTG(s), parsePANDA(s), parsePAOGI(s),
              parseGSA(s), parseGSV(s), parseHDT(s), parseAVR(s), parseKSXT(s)}
    BY DEF parseNMEA, SentencesFrom, Kinds
  <2> QED
    BY <2>1 DEF parse
<1> HIDE DEF d
<1> DEFINE R == [isValid : BOOLEAN, km : GPSPlaces \cup {0}, quality : BOOLEAN,
                 satellites : BOOLEAN, speed : BOOLEAN]
<1>4. ParsedData \in R
  BY DEF ParsedData
<1>5. Valid \in R
  BY <1>4 DEF Valid
<1>6. s.quality \in BOOLEAN /\ s.satellites \in BOOLEAN
  BY DEF SentencesFrom
<1>7. Position(s) \in R
  BY <1>2, <1>5, <1>6 DEF Position
<1>8. parseGGA(s) \in R /\ parseGSA(s) \in R /\ parseHDT(s) \in R
  BY <1>4, <1>5, <1>7 DEF parseGGA, parseGSA, parseHDT
<1>9. parseRMC(s) \in R /\ parseVTG(s) \in R
  BY <1>2, <1>5 DEF parseRMC, parseVTG
<1>10. parseGSV(s) \in R /\ parseAVR(s) \in R
  BY <1>5, <1>6 DEF parseGSV, parseAVR
<1>11. [Position(s) EXCEPT !.speed = s.speed] \in R
  BY <1>2, <1>7
<1>12. parsePANDA(s) \in R /\ parsePAOGI(s) \in R /\ parseKSXT(s) \in R
  BY <1>4, <1>11 DEF parsePANDA, parsePAOGI, parseKSXT
<1>13. d \in R
  BY <1>3, <1>4, <1>8, <1>9, <1>10, <1>12
<1> QED
  BY <1>1, <1>13 DEF d

LEMMA PlaceFacts ==
    ASSUME NEW km \in SimPlaces, NEW source \in {"gps", "sim"}
    PROVE  /\ Place(source, km) \in Places /\ Place(source, km).source = source
           /\ Place(source, km).km = km
BY DEF Place, Places

LEMMA NowhereFacts == Nowhere \in Places /\ Nowhere.source = "none"
BY DEF Nowhere, Place, Places

(* A position goes to the members it is kept in. *)
Placed(g, place, speed) ==
    [g EXCEPT !.vtgSpeed = speed, !.latlon = place, !.fix = place, !.corrections = 0,
              !.raw = place]

LEMMA PlacedFacts ==
    ASSUME NEW g, IsGood(g), NEW place \in Places, NEW speed \in BOOLEAN
    PROVE  LET h == Placed(g, place, speed)
           IN  /\ IsGood(h)
               /\ \A other : IsFree(g, other) /\ place.source # other => IsFree(h, other)
               /\ h.headingFromSource = g.headingFromSource /\ h.corrected = g.corrected
               /\ h.isFirstHeadingSet = g.isFirstHeadingSet
               /\ h.isGPSPositionInitialized = g.isGPSPositionInitialized
<1> DEFINE h == Placed(g, place, speed)
<1>1. h \in GPS
  BY 0 \in 0 .. 2 DEF Placed, IsGood, GPS
<1>2. /\ h.headingFromSource = g.headingFromSource /\ h.corrected = g.corrected
      /\ h.isFirstHeadingSet = g.isFirstHeadingSet
      /\ h.isGPSPositionInitialized = g.isGPSPositionInitialized
      /\ h.isFirstFixPositionSet = g.isFirstFixPositionSet
      /\ h.stepFixPts = g.stepFixPts
      /\ h.latlon = place /\ h.fix = place /\ h.raw = place
  BY DEF Placed, IsGood, GPS
<1> HIDE DEF h
<1>3. IsGood(h)
  BY <1>1, <1>2 DEF IsGood
<1>4. \A other : IsFree(g, other) /\ place.source # other => IsFree(h, other)
  BY <1>2 DEF IsFree
<1>5. /\ IsGood(h)
      /\ \A other : IsFree(g, other) /\ place.source # other => IsFree(h, other)
      /\ h.headingFromSource = g.headingFromSource /\ h.corrected = g.corrected
      /\ h.isFirstHeadingSet = g.isFirstHeadingSet
      /\ h.isGPSPositionInitialized = g.isGPSPositionInitialized
  BY <1>2, <1>3, <1>4
<1> QED
  BY <1>5 DEF h

(* A jump and a switch leave nothing of what was before. *)
LEMMA BegunAnew ==
    ASSUME NEW h \in GPS,
           h.stepFixPts = <<>>, ~h.isFirstHeadingSet, ~h.isGPSPositionInitialized,
           NEW other, h.latlon.source # other, h.fix.source # other, h.raw.source # other
    PROVE  IsGood(h) /\ IsFree(h, other)
<1>1. Len(h.stepFixPts) = 0
  OBVIOUS
<1>2. Len(h.stepFixPts) <= 3 /\ Len(h.stepFixPts) # 3
  BY <1>1
<1>3. \A i \in 1 .. Len(h.stepFixPts) : h.stepFixPts[i].source # other
  BY <1>1
<1> QED
  BY <1>2, <1>3 DEF IsGood, IsFree

LEMMA JumpFacts ==
    ASSUME NEW g, IsGood(g), NEW km \in SimPlaces
    PROVE  LET h == HandleGPSJump(g, km)
           IN  /\ IsGood(h) /\ IsFree(h, "gps")
               /\ h.headingFromSource = g.headingFromSource /\ h.corrected = g.corrected
               /\ ~h.isGPSPositionInitialized
<1> DEFINE h == HandleGPSJump(g, km)
           place == Place("sim", km)
<1>1. place \in Places /\ place.source = "sim"
  BY PlaceFacts
<1>2. 0 \in 0 .. 2 /\ 0 \in 0 .. StartFrames + 1 /\ <<>> \in Seq(Places)
  BY Constants
<1> HIDE DEF place
<1>3. h = [g EXCEPT !.start = km, !.isGPSPositionInitialized = FALSE,
              !.isFirstFixPositionSet = TRUE, !.isFirstHeadingSet = FALSE,
              !.startCounter = 0, !.latlon = place,
              !.fix = place, !.corrections = 0, !.raw = place,
              !.stepFixPts = <<>>, !.lastKnown = km]
  BY DEF HandleGPSJump, place
<1> HIDE DEF h
<1>4. h \in GPS
  BY <1>1, <1>2, <1>3 DEF IsGood, GPS
<1>5. /\ h.headingFromSource = g.headingFromSource /\ h.corrected = g.corrected
      /\ ~h.isGPSPositionInitialized /\ ~h.isFirstHeadingSet /\ h.stepFixPts = <<>>
      /\ h.latlon = place /\ h.fix = place /\ h.raw = place
  BY <1>3 DEF IsGood, GPS
<1>6. IsGood(h) /\ IsFree(h, "gps")
  BY <1>1, <1>4, <1>5, BegunAnew
<1> QED
  BY <1>5, <1>6 DEF h

LEMMA ResetFacts ==
    ASSUME NEW g, IsGood(g), NEW toSimMode \in BOOLEAN, sim \in SimPlaces
    PROVE  LET h == ResetGPSState(g, toSimMode)
           IN  /\ IsGood(h) /\ IsFree(h, IF toSimMode THEN "gps" ELSE "sim")
               /\ h.corrected = g.corrected
<1> DEFINE h == ResetGPSState(g, toSimMode)
           reset == [g EXCEPT !.isGPSPositionInitialized = FALSE,
                           !.isFirstFixPositionSet = toSimMode,
                           !.isFirstHeadingSet = FALSE, !.startCounter = 0,
                           !.stepFixPts = <<>>, !.corrections = 0]
           place == Place("sim", sim)
<1>1. place \in Places /\ place.source = "sim"
  BY PlaceFacts
<1>2. 0 \in 0 .. 2 /\ 0 \in 0 .. StartFrames + 1 /\ <<>> \in Seq(Places) /\ 0 \in SimPlaces
  BY Constants
<1> HIDE DEF place
<1>3. h = IF toSimMode
          THEN [reset EXCEPT !.latlon = place, !.start = sim, !.fix = place, !.raw = place,
                             !.lastKnown = sim]
          ELSE [reset EXCEPT !.latlon = Nowhere, !.fix = Nowhere, !.raw = Nowhere,
                             !.lastKnown = 0, !.force = TRUE]
  BY DEF ResetGPSState, place
<1>4. reset \in GPS
  BY <1>2 DEF IsGood, GPS
<1>5. /\ ~reset.isGPSPositionInitialized /\ ~reset.isFirstHeadingSet
      /\ reset.stepFixPts = <<>> /\ reset.corrected = g.corrected
  BY DEF IsGood, GPS
<1> HIDE DEF h, reset
<1>6. CASE toSimMode
  <2>1. h \in GPS
    BY <1>1, <1>3, <1>4, <1>6 DEF GPS
  <2>2. /\ ~h.isGPSPositionInitialized /\ ~h.isFirstHeadingSet
        /\ h.stepFixPts = <<>> /\ h.corrected = g.corrected
        /\ h.latlon = place /\ h.fix = place /\ h.raw = place
    BY <1>3, <1>4, <1>5, <1>6 DEF GPS
  <2> QED
    BY <1>1, <1>6, <2>1, <2>2, BegunAnew DEF h
<1>7. CASE ~toSimMode
  <2>1. h \in GPS
    BY <1>2, <1>3, <1>4, <1>7, NowhereFacts DEF GPS
  <2>2. /\ ~h.isGPSPositionInitialized /\ ~h.isFirstHeadingSet
        /\ h.stepFixPts = <<>> /\ h.corrected = g.corrected
        /\ h.latlon = Nowhere /\ h.fix = Nowhere /\ h.raw = Nowhere
    BY <1>3, <1>4, <1>5, <1>7 DEF GPS
  <2> QED
    BY <1>7, <2>1, <2>2, BegunAnew, NowhereFacts DEF h
<1> QED
  BY <1>6, <1>7

----------------------------------------------------------------------------
(* The invariant.  The position is free of the other mode's only when the   *)
(* watchdog has seen the switch; until then both timers may be wrong.       *)
Other == IF simulatorOn THEN "gps" ELSE "sim"

Modes ==
    /\ simulatorOn \in BOOLEAN /\ wasSimulatorOn \in BOOLEAN /\ timerSim = wasSimulatorOn
    /\ sim \in SimPlaces

PositionOK ==
    /\ IsGood(gps)
    /\ simulatorOn = wasSimulatorOn => IsFree(gps, Other)

FieldOK ==
    /\ isJobStarted \in DOMAIN startFix \cup {NoField}
    /\ DOMAIN startFix \subseteq Fields
    /\ \A f \in DOMAIN startFix : startFix[f] \in SimPlaces
    /\ contents = [f \in Fields |-> contents[f]]
    /\ \A f \in Fields : contents[f] \subseteq SimPlaces

FixInv == Modes /\ PositionOK /\ FieldOK

LEMMA StartIsGood ==
    ASSUME NEW source \in Sources, NEW place \in Places
    PROVE  IsGood(Start(source, place))
           /\ \A other : other # "none" /\ place.source # other
                 => IsFree(Start(source, place), other)
<1> DEFINE g == Start(source, place)
<1>1. place.km \in SimPlaces
  BY Constants DEF Places, Nowhere, Place
<1>2. 0 \in 0 .. 2 /\ 0 \in 0 .. StartFrames + 1 /\ <<>> \in Seq(Places) /\ 0 \in SimPlaces
  BY Constants
<1>3. g \in GPS
  BY <1>1, <1>2, NowhereFacts DEF Start, GPS
<1>4. /\ g.latlon = place /\ g.fix = Nowhere /\ g.raw = Nowhere /\ g.stepFixPts = <<>>
      /\ ~g.isFirstHeadingSet /\ ~g.isGPSPositionInitialized
  BY DEF Start
<1> HIDE DEF g
<1>5. ASSUME NEW other, other # "none", place.source # other
      PROVE  IsGood(g) /\ IsFree(g, other)
  BY <1>3, <1>4, <1>5, NowhereFacts, BegunAnew
<1>6. IsGood(g)
  <2>1. Len(g.stepFixPts) = 0
    BY <1>4
  <2>2. Len(g.stepFixPts) <= 3 /\ Len(g.stepFixPts) # 3
    BY <2>1
  <2> QED
    BY <1>3, <1>4, <2>2 DEF IsGood
<1> QED
  BY <1>5, <1>6 DEF g

LEMMA InitIsGood == FixInit => FixInv
<1> SUFFICES ASSUME FixInit PROVE FixInv
  OBVIOUS
<1>1. Modes
  BY Constants DEF FixInit, Modes
<1>2. PositionOK
  <2>1. PICK source \in Sources :
           gps = Start(source, IF simulatorOn THEN Place("sim", SimStart) ELSE Nowhere)
    BY DEF FixInit
  <2>2. Place("sim", SimStart) \in Places /\ Place("sim", SimStart).source = "sim"
    BY Constants, PlaceFacts
  <2> DEFINE place == IF simulatorOn THEN Place("sim", SimStart) ELSE Nowhere
  <2>5. place \in Places /\ place.source # Other /\ Other # "none"
    BY <2>2, NowhereFacts DEF Other
  <2>6. gps = Start(source, place)
    BY <2>1
  <2> HIDE DEF place
  <2>7. IsGood(gps) /\ IsFree(gps, Other)
    BY <2>5, <2>6, StartIsGood
  <2> QED
    BY <2>7 DEF PositionOK
<1>3. FieldOK
  <2>1. startFix = [f \in {OldField} |-> OldStart]
    BY DEF FixInit
  <2>2. contents = [f \in Fields |-> IF f = OldField THEN {OldStart} ELSE {}]
    BY DEF FixInit
  <2>3. \A f \in Fields : contents[f] \subseteq SimPlaces
    BY <2>2, Constants
  <2>4. isJobStarted = NoField
    BY DEF FixInit
  <2> QED
    BY <2>1, <2>2, <2>3, <2>4, Constants DEF FieldOK
<1> QED
  BY <1>1, <1>2, <1>3 DEF FixInv

(* What is recorded is relative to the reference. *)
LEMMA RecordedFacts ==
    ASSUME FixInv
    PROVE  /\ Recorded(gps) = [f \in Fields |-> Recorded(gps)[f]]
           /\ \A f \in Fields : Recorded(gps)[f] \subseteq SimPlaces
<1>1. gps.start \in SimPlaces
  BY DEF FixInv, PositionOK, IsGood, GPS
<1>2. contents = [f \in Fields |-> contents[f]] /\ \A f \in Fields : contents[f] \subseteq SimPlaces
  BY DEF FixInv, FieldOK
<1> DEFINE grown == [contents EXCEPT ![isJobStarted] = @ \cup {gps.start}]
<1>3. grown = [f \in Fields |-> IF f = isJobStarted THEN contents[f] \cup {gps.start} ELSE contents[f]]
  BY <1>2
<1>4. grown = [f \in Fields |-> grown[f]] /\ \A f \in Fields : grown[f] \subseteq SimPlaces
  BY <1>1, <1>2, <1>3
<1>5. Recorded(gps) = grown \/ Recorded(gps) = contents
  BY DEF Recorded
<1> HIDE DEF grown
<1> QED
  BY <1>2, <1>4, <1>5

(* The frames and the sentences. *)
LEMMA FrameStep ==
    ASSUME FixInv, OnGPSTimerTimeout
    PROVE  /\ FixInv' /\ gps'.headingFromSource = gps.headingFromSource
           /\ gps.headingFromSource = "Fix" /\ gps.isFirstHeadingSet
                 => gps'.corrected \in {gps.corrected, 1}
<1>1. PICK avgSpeed \in {gps.avgSpeed, gps.vtgSpeed}, hasMoved \in BOOLEAN :
         gps' = UpdateFixPosition(gps, avgSpeed, hasMoved)
  BY DEF OnGPSTimerTimeout
<1>2. IsGood(gps) /\ avgSpeed \in BOOLEAN
  BY DEF FixInv, PositionOK, IsGood, GPS
<1>3. /\ IsGood(gps') /\ gps'.headingFromSource = gps.headingFromSource
      /\ \A other : IsFree(gps, other) => IsFree(gps', other)
      /\ gps.headingFromSource = "Fix" /\ gps.isFirstHeadingSet
            => gps'.corrected \in {gps.corrected, 1}
  BY <1>1, <1>2, UpdateFacts
<1>4. /\ UNCHANGED <<simulatorOn, wasSimulatorOn, timerSim, sim, isJobStarted, startFix>>
      /\ contents' = Recorded(gps)
  BY DEF OnGPSTimerTimeout, setup
<1>5. Modes' /\ Other' = Other
  BY <1>4 DEF FixInv, Modes, Other
<1>6. PositionOK'
  BY <1>3, <1>4, <1>5 DEF FixInv, PositionOK
<1>7. FieldOK'
  BY <1>4, RecordedFacts DEF FixInv, FieldOK
<1> QED
  BY <1>3, <1>5, <1>6, <1>7 DEF FixInv

LEMMA SentenceStep ==
    ASSUME FixInv, NEW data \in Received, OnNmeaDataReady(data)
    PROVE  FixInv' /\ gps'.corrected = gps.corrected
<1>1. data.km \in SimPlaces /\ data.speed \in BOOLEAN
  BY SentenceFacts, Constants
<1> DEFINE place == Place("gps", data.km)
<1>2. place \in Places /\ place.source = "gps"
  BY <1>1, PlaceFacts
<1>3. ~simulatorOn /\ UNCHANGED <<simulatorOn, wasSimulatorOn, timerSim, sim, isJobStarted, startFix, contents>>
  BY DEF OnNmeaDataReady, setup, field
<1>4. gps' = [gps EXCEPT !.vtgSpeed = data.speed]
      \/ gps' = Placed(gps, place, data.speed)
  BY DEF OnNmeaDataReady, Placed
<1> HIDE DEF place
<1>5. IsGood(gps)
  BY DEF FixInv, PositionOK
<1>6. /\ IsGood(gps') /\ gps'.corrected = gps.corrected
      /\ IsFree(gps, "sim") => IsFree(gps', "sim")
  <2>1. CASE gps' = [gps EXCEPT !.vtgSpeed = data.speed]
    BY <1>1, <1>5, <2>1 DEF IsGood, GPS, IsFree
  <2>2. CASE gps' = Placed(gps, place, data.speed)
    BY <1>1, <1>2, <1>5, <2>2, PlacedFacts
  <2> QED
    BY <1>4, <2>1, <2>2
<1>7. Modes' /\ Other' = "sim" /\ Other = "sim"
  BY <1>3 DEF FixInv, Modes, Other
<1>8. PositionOK'
  BY <1>3, <1>6, <1>7 DEF FixInv, PositionOK
<1>9. FieldOK'
  BY <1>3 DEF FixInv, FieldOK
<1> QED
  BY <1>6, <1>7, <1>8, <1>9 DEF FixInv

LEMMA SimulatorStep ==
    ASSUME FixInv, NEW km \in SimPlaces, NEW speed \in BOOLEAN, OnSimNewPosition(km, speed)
    PROVE  /\ FixInv'
           /\ gps.headingFromSource = "Fix" /\ gps.isFirstHeadingSet
                 => gps'.corrected \in {gps.corrected, 1}
<1> DEFINE isJump == DetectGPSJump(gps, km)
           jumped == IF isJump THEN HandleGPSJump(gps, km)
                     ELSE [gps EXCEPT !.lastKnown = IF @ = 0 THEN km ELSE @]
           place == Place("sim", km)
           fixed == Placed(jumped, place, speed)
<1>1. PICK avgSpeed \in {gps.avgSpeed, speed}, hasMoved \in BOOLEAN :
         gps' = UpdateFixPosition(fixed, avgSpeed, hasMoved)
  BY DEF OnSimNewPosition, Placed
<1>2. /\ simulatorOn /\ timerSim /\ sim' = km
      /\ isJobStarted' = IF isJump THEN NoField ELSE isJobStarted
      /\ contents' = IF isJump THEN contents ELSE Recorded(gps)
      /\ UNCHANGED <<simulatorOn, wasSimulatorOn, timerSim, startFix>>
  BY DEF OnSimNewPosition, setup
<1>3. IsGood(gps) /\ avgSpeed \in BOOLEAN
  BY DEF FixInv, PositionOK, IsGood, GPS
<1>4. IsFree(gps, "gps")
  BY <1>2 DEF FixInv, Modes, PositionOK, Other
<1>5. place \in Places /\ place.source = "sim"
  BY PlaceFacts
<1> HIDE DEF place, isJump
<1>6. /\ IsGood(jumped) /\ IsFree(jumped, "gps")
      /\ jumped.headingFromSource = gps.headingFromSource /\ jumped.corrected = gps.corrected
      /\ gps.isFirstHeadingSet /\ jumped.isGPSPositionInitialized => jumped.isFirstHeadingSet
  <2>1. CASE isJump
    BY <1>3, <2>1, JumpFacts
  <2>2. CASE ~isJump
    <3> DEFINE known == IF gps.lastKnown = 0 THEN km ELSE gps.lastKnown
    <3>1. known \in SimPlaces
      BY <1>3 DEF IsGood, GPS
    <3>2. jumped = [gps EXCEPT !.lastKnown = known]
      BY <1>3, <2>2 DEF IsGood, GPS
    <3> HIDE DEF known, jumped
    <3>3. /\ IsGood(jumped)
          /\ jumped.headingFromSource = gps.headingFromSource /\ jumped.corrected = gps.corrected
          /\ jumped.isFirstHeadingSet = gps.isFirstHeadingSet
      BY <1>3, <3>1, <3>2 DEF IsGood, GPS
    <3>4. IsFree(jumped, "gps")
      BY <1>3, <1>4, <3>2 DEF IsGood, GPS, IsFree
    <3> QED
      BY <3>3, <3>4
  <2> QED
    BY <2>1, <2>2
<1> HIDE DEF jumped
<1>7. /\ IsGood(fixed) /\ IsFree(fixed, "gps")
      /\ fixed.headingFromSource = gps.headingFromSource /\ fixed.corrected = gps.corrected
      /\ gps.isFirstHeadingSet /\ fixed.isGPSPositionInitialized => fixed.isFirstHeadingSet
  <2>1. /\ IsGood(fixed)
        /\ \A other : IsFree(jumped, other) /\ place.source # other => IsFree(fixed, other)
        /\ fixed.headingFromSource = jumped.headingFromSource /\ fixed.corrected = jumped.corrected
        /\ fixed.isFirstHeadingSet = jumped.isFirstHeadingSet
        /\ fixed.isGPSPositionInitialized = jumped.isGPSPositionInitialized
    BY <1>5, <1>6, PlacedFacts
  <2> HIDE DEF fixed
  <2> QED
    BY <1>5, <1>6, <2>1
<1> HIDE DEF fixed
<1>8. /\ IsGood(gps') /\ IsFree(gps', "gps")
      /\ gps.headingFromSource = "Fix" /\ gps.isFirstHeadingSet
            => gps'.corrected \in {gps.corrected, 1}
  BY <1>1, <1>3, <1>7, UpdateFacts
<1>9. Modes' /\ Other' = "gps"
  BY <1>2 DEF FixInv, Modes, Other
<1>10. PositionOK'
  BY <1>8, <1>9 DEF PositionOK
<1>11. FieldOK'
  <2>1. isJobStarted' \in DOMAIN startFix \cup {NoField}
    BY <1>2 DEF FixInv, FieldOK
  <2>2. contents' = [f \in Fields |-> contents'[f]] /\ \A f \in Fields : contents'[f] \subseteq SimPlaces
    BY <1>2, RecordedFacts DEF FixInv, FieldOK
  <2> QED
    BY <1>2, <2>1, <2>2 DEF FixInv, FieldOK
<1> QED
  BY <1>8, <1>9, <1>10, <1>11 DEF FixInv

(* The watchdog, the user and the fields. *)
LEMMA WatchdogStep ==
    ASSUME FixInv, TmrWatchdog
    PROVE  FixInv' /\ gps'.corrected = gps.corrected
<1>1. /\ gps' = ResetGPSState(gps, simulatorOn) /\ isJobStarted' = NoField
      /\ wasSimulatorOn' = simulatorOn /\ timerSim' = simulatorOn
      /\ UNCHANGED <<simulatorOn, sim, startFix, contents>>
  BY DEF TmrWatchdog
<1>2. IsGood(gps) /\ simulatorOn \in BOOLEAN /\ sim \in SimPlaces
  BY DEF FixInv, Modes, PositionOK
<1>3. IsGood(gps') /\ IsFree(gps', Other) /\ gps'.corrected = gps.corrected
  BY <1>1, <1>2, ResetFacts DEF Other
<1>4. Modes' /\ Other' = Other
  BY <1>1, <1>2 DEF Modes, Other
<1>5. PositionOK'
  BY <1>3, <1>4 DEF PositionOK
<1>6. FieldOK'
  BY <1>1 DEF FixInv, FieldOK
<1> QED
  BY <1>3, <1>4, <1>5, <1>6 DEF FixInv

LEMMA SwitchStep ==
    ASSUME FixInv, SwitchSimulator
    PROVE  FixInv' /\ gps'.corrected = gps.corrected
<1>1. /\ simulatorOn = wasSimulatorOn /\ simulatorOn' = ~simulatorOn
      /\ UNCHANGED <<wasSimulatorOn, timerSim, sim, gps, isJobStarted, startFix, contents>>
  BY DEF SwitchSimulator, field
<1>2. Modes' /\ simulatorOn' # wasSimulatorOn'
  BY <1>1 DEF FixInv, Modes
<1>3. PositionOK'
  BY <1>1, <1>2 DEF FixInv, PositionOK
<1>4. FieldOK'
  BY <1>1 DEF FixInv, FieldOK
<1> QED
  BY <1>1, <1>2, <1>3, <1>4 DEF FixInv

LEMMA DirectionStep ==
    ASSUME FixInv, ResetDirection
    PROVE  FixInv' /\ gps'.corrected = gps.corrected
<1>1. /\ gps' = [gps EXCEPT !.stepFixPts = <<>>, !.isFirstHeadingSet = FALSE]
      /\ UNCHANGED <<simulatorOn, wasSimulatorOn, timerSim, sim, isJobStarted, startFix, contents>>
  BY DEF ResetDirection, setup, field
<1>2. IsGood(gps) /\ (simulatorOn = wasSimulatorOn => IsFree(gps, Other)) /\ <<>> \in Seq(Places)
  BY DEF FixInv, PositionOK
<1>3. gps' \in GPS
  BY <1>1, <1>2 DEF IsGood, GPS
<1>4. /\ gps'.stepFixPts = <<>> /\ ~gps'.isFirstHeadingSet /\ gps'.corrected = gps.corrected
      /\ gps'.latlon = gps.latlon /\ gps'.fix = gps.fix /\ gps'.raw = gps.raw
      /\ gps'.isGPSPositionInitialized = gps.isGPSPositionInitialized
      /\ gps'.isFirstFixPositionSet = gps.isFirstFixPositionSet
  BY <1>1, <1>2 DEF IsGood, GPS
<1>5. Len(gps'.stepFixPts) = 0
  BY <1>4
<1>6. Len(gps'.stepFixPts) <= 3 /\ Len(gps'.stepFixPts) # 3
  BY <1>5
<1>7. IsGood(gps')
  BY <1>2, <1>3, <1>4, <1>6 DEF IsGood
<1>8. \A other : IsFree(gps, other) => IsFree(gps', other)
  <2>1. \A other : \A i \in 1 .. Len(gps'.stepFixPts) : gps'.stepFixPts[i].source # other
    BY <1>5
  <2> QED
    BY <1>4, <2>1 DEF IsFree
<1>9. Modes' /\ Other' = Other
  BY <1>1 DEF FixInv, Modes, Other
<1>10. PositionOK'
  BY <1>1, <1>2, <1>7, <1>8, <1>9 DEF PositionOK
<1>11. FieldOK'
  BY <1>1 DEF FixInv, FieldOK
<1> QED
  BY <1>4, <1>9, <1>10, <1>11 DEF FixInv

(* The reference goes to the field, and the simulator with it. *)
LEMMA OpenedFacts ==
    ASSUME FixInv, NEW f \in DOMAIN startFix
    PROVE  LET h == Opened(gps, f)
           IN  /\ IsGood(h) /\ h.corrected = gps.corrected /\ h.latlon.km \in SimPlaces
               /\ simulatorOn = wasSimulatorOn => IsFree(h, Other)
<1> DEFINE h == Opened(gps, f)
           latlon == IF timerSim THEN Place("sim", startFix[f]) ELSE gps.latlon
<1>1. IsGood(gps) /\ (simulatorOn = wasSimulatorOn => IsFree(gps, Other))
  BY DEF FixInv, PositionOK
<1>2. startFix[f] \in SimPlaces /\ 0 \in 0 .. StartFrames + 1
  BY Constants DEF FixInv, FieldOK
<1>3. latlon \in Places /\ latlon.km \in SimPlaces
      /\ (simulatorOn = wasSimulatorOn => latlon.source # Other)
  <2>1. Place("sim", startFix[f]) \in Places /\ Place("sim", startFix[f]).source = "sim"
        /\ Place("sim", startFix[f]).km = startFix[f]
    BY <1>2, PlaceFacts
  <2>2. CASE timerSim
    BY <1>2, <2>1, <2>2 DEF FixInv, Modes, Other
  <2>3. CASE ~timerSim
    <3>1. gps.latlon \in Places
      BY <1>1, PlacesFacts
    <3>2. gps.latlon.km \in SimPlaces
      BY <3>1, Constants DEF Places, Nowhere, Place
    <3> QED
      BY <1>1, <2>3, <3>1, <3>2 DEF IsFree
  <2> QED
    BY <2>2, <2>3
<1> HIDE DEF latlon
<1>4. h = [gps EXCEPT !.startCounter = 0, !.start = startFix[f], !.latlon = latlon]
  BY <1>1 DEF Opened, latlon, IsGood, GPS
<1> HIDE DEF h
<1>5. h \in GPS
  BY <1>1, <1>2, <1>3, <1>4 DEF IsGood, GPS
<1>6. /\ h.stepFixPts = gps.stepFixPts /\ h.isFirstHeadingSet = gps.isFirstHeadingSet
      /\ h.corrected = gps.corrected /\ h.latlon = latlon /\ h.fix = gps.fix /\ h.raw = gps.raw
      /\ h.isGPSPositionInitialized = gps.isGPSPositionInitialized
      /\ h.isFirstFixPositionSet = gps.isFirstFixPositionSet
      /\ h.headingFromSource = gps.headingFromSource
  BY <1>1, <1>4 DEF IsGood, GPS
<1>7. IsGood(h)
  BY <1>1, <1>5, <1>6 DEF IsGood
<1>8. simulatorOn = wasSimulatorOn => IsFree(h, Other)
  BY <1>1, <1>3, <1>6 DEF IsFree
<1> QED
  BY <1>3, <1>6, <1>7, <1>8 DEF h

LEMMA OpenStep ==
    ASSUME FixInv, NEW f \in Fields, OpenField(f)
    PROVE  FixInv' /\ gps'.corrected = gps.corrected
<1>1. /\ f \in DOMAIN startFix /\ isJobStarted' = f /\ gps' = Opened(gps, f)
      /\ sim' = IF timerSim THEN startFix[f] ELSE sim
      /\ UNCHANGED <<simulatorOn, wasSimulatorOn, timerSim, startFix, contents>>
  BY DEF OpenField, Visit, setup
<1>2. /\ IsGood(gps') /\ gps'.corrected = gps.corrected
      /\ simulatorOn = wasSimulatorOn => IsFree(gps', Other)
  BY <1>1, OpenedFacts
<1>3. Modes' /\ Other' = Other
  BY <1>1 DEF FixInv, Modes, FieldOK, Other
<1>4. PositionOK'
  BY <1>1, <1>2, <1>3 DEF PositionOK
<1>5. FieldOK'
  BY <1>1 DEF FixInv, FieldOK
<1> QED
  BY <1>2, <1>3, <1>4, <1>5 DEF FixInv

LEMMA SaveFacts ==
    ASSUME FixInv, NEW f \in Fields, NEW km \in SimPlaces, SaveStartFix(f, km)
    PROVE  /\ DOMAIN startFix' = DOMAIN startFix \cup {f}
           /\ DOMAIN startFix' \subseteq Fields
           /\ \A g \in DOMAIN startFix' : startFix'[g] \in SimPlaces
<1>1. DOMAIN startFix \subseteq Fields /\ \A g \in DOMAIN startFix : startFix[g] \in SimPlaces
  BY DEF FixInv, FieldOK
<1> QED
  BY <1>1 DEF SaveStartFix

LEMMA CreateStep ==
    ASSUME FixInv, NEW f \in Fields, CreateField(f)
    PROVE  FixInv' /\ gps'.corrected = gps.corrected
<1> DEFINE km == gps.latlon.km
<1>1. /\ isJobStarted' = f /\ gps' = [gps EXCEPT !.startCounter = 0, !.start = km]
      /\ SaveStartFix(f, km)
      /\ UNCHANGED <<simulatorOn, wasSimulatorOn, timerSim, sim, contents>>
  BY DEF CreateField, Visit, setup
<1>2. IsGood(gps) /\ (simulatorOn = wasSimulatorOn => IsFree(gps, Other))
  BY DEF FixInv, PositionOK
<1>3. km \in SimPlaces /\ 0 \in 0 .. StartFrames + 1
  <2>1. gps.latlon \in Places
    BY <1>2, PlacesFacts
  <2> QED
    BY <2>1, Constants DEF Places, Nowhere, Place
<1> HIDE DEF km
<1>4. gps' \in GPS
  BY <1>1, <1>2, <1>3 DEF IsGood, GPS
<1>5. /\ gps'.stepFixPts = gps.stepFixPts /\ gps'.isFirstHeadingSet = gps.isFirstHeadingSet
      /\ gps'.corrected = gps.corrected
      /\ gps'.latlon = gps.latlon /\ gps'.fix = gps.fix /\ gps'.raw = gps.raw
      /\ gps'.isGPSPositionInitialized = gps.isGPSPositionInitialized
      /\ gps'.isFirstFixPositionSet = gps.isFirstFixPositionSet
      /\ gps'.headingFromSource = gps.headingFromSource
  BY <1>1, <1>2 DEF IsGood, GPS
<1>6. IsGood(gps')
  BY <1>2, <1>4, <1>5 DEF IsGood
<1>7. simulatorOn = wasSimulatorOn => IsFree(gps', Other)
  BY <1>2, <1>5 DEF IsFree
<1>8. Modes' /\ Other' = Other
  BY <1>1 DEF FixInv, Modes, Other
<1>9. PositionOK'
  BY <1>1, <1>6, <1>7, <1>8 DEF PositionOK
<1>10. FieldOK'
  <2>1. contents' = contents
    BY <1>1
  <2> QED
    BY <1>1, <1>3, <2>1, SaveFacts DEF FixInv, FieldOK
<1> QED
  BY <1>5, <1>8, <1>9, <1>10 DEF FixInv

LEMMA CreateFromStep ==
    ASSUME FixInv, NEW existing \in Fields, NEW f \in Fields, CreateFieldFrom(existing, f)
    PROVE  FixInv' /\ gps'.corrected = gps.corrected
<1> DEFINE km == gps'.latlon.km
<1>1. /\ existing \in DOMAIN startFix /\ isJobStarted' = f /\ gps' = Opened(gps, existing)
      /\ sim' = IF timerSim THEN startFix[existing] ELSE sim
      /\ SaveStartFix(f, km)
      /\ contents' = [contents EXCEPT ![f] = contents[existing]]
      /\ UNCHANGED <<simulatorOn, wasSimulatorOn, timerSim>>
  BY DEF CreateFieldFrom, Visit, setup
<1>2. /\ IsGood(gps') /\ gps'.corrected = gps.corrected /\ km \in SimPlaces
      /\ simulatorOn = wasSimulatorOn => IsFree(gps', Other)
  BY <1>1, OpenedFacts
<1> HIDE DEF km
<1>3. Modes' /\ Other' = Other
  BY <1>1 DEF FixInv, Modes, FieldOK, Other
<1>4. PositionOK'
  BY <1>1, <1>2, <1>3 DEF PositionOK
<1>5. contents' = [g \in Fields |-> contents'[g]] /\ \A g \in Fields : contents'[g] \subseteq SimPlaces
  <2>1. contents = [g \in Fields |-> contents[g]] /\ \A g \in Fields : contents[g] \subseteq SimPlaces
    BY DEF FixInv, FieldOK
  <2>2. contents' = [g \in Fields |-> IF g = f THEN contents[existing] ELSE contents[g]]
    BY <1>1, <2>1
  <2> QED
    BY <2>1, <2>2
<1>6. FieldOK'
  <2>1. /\ DOMAIN startFix' = DOMAIN startFix \cup {f}
        /\ DOMAIN startFix' \subseteq Fields
        /\ \A g \in DOMAIN startFix' : startFix'[g] \in SimPlaces
    BY <1>1, <1>2, SaveFacts
  <2>2. isJobStarted' \in DOMAIN startFix'
    BY <1>1, <2>1
  <2> QED
    BY <1>5, <2>1, <2>2 DEF FieldOK
<1> QED
  BY <1>2, <1>3, <1>4, <1>6 DEF FixInv

LEMMA QuietStep ==
    ASSUME FixInv, CloseField \/ UNCHANGED fixVars
    PROVE  FixInv' /\ gps'.corrected = gps.corrected
<1>1. /\ isJobStarted' \in {NoField, isJobStarted}
      /\ UNCHANGED <<simulatorOn, wasSimulatorOn, timerSim, sim, gps, startFix, contents>>
  BY DEF CloseField, fixVars, setup
<1>2. Modes' /\ Other' = Other
  BY <1>1 DEF FixInv, Modes, Other
<1>3. PositionOK'
  BY <1>1, <1>2 DEF FixInv, PositionOK
<1>4. FieldOK'
  BY <1>1 DEF FixInv, FieldOK
<1> QED
  BY <1>1, <1>2, <1>3, <1>4 DEF FixInv

(* One case per action. *)
LEMMA EveryStep ==
    ASSUME FixInv, [FixNext]_fixVars
    PROVE  /\ FixInv'
           /\ gps.headingFromSource = "Fix" /\ gps.isFirstHeadingSet
                 => gps'.corrected \in {gps.corrected, 1}
<1>1. CASE OnGPSTimerTimeout
  BY <1>1, FrameStep
<1>2. ASSUME NEW data \in Received, OnNmeaDataReady(data)
      PROVE  FixInv' /\ gps'.corrected = gps.corrected
  BY <1>2, SentenceStep
<1>3. ASSUME NEW km \in SimPlaces, NEW speed \in BOOLEAN, OnSimNewPosition(km, speed)
      PROVE  FixInv' /\ (gps.headingFromSource = "Fix" /\ gps.isFirstHeadingSet
                        => gps'.corrected \in {gps.corrected, 1})
  BY <1>3, SimulatorStep
<1>4. CASE TmrWatchdog
  BY <1>4, WatchdogStep
<1>5. CASE SwitchSimulator
  BY <1>5, SwitchStep
<1>6. CASE ResetDirection
  BY <1>6, DirectionStep
<1>7. ASSUME NEW f \in Fields, OpenField(f) \/ CreateField(f)
      PROVE  FixInv' /\ gps'.corrected = gps.corrected
  BY <1>7, OpenStep, CreateStep
<1>8. ASSUME NEW existing \in Fields, NEW f \in Fields, CreateFieldFrom(existing, f)
      PROVE  FixInv' /\ gps'.corrected = gps.corrected
  BY <1>8, CreateFromStep
<1>9. CASE CloseField \/ UNCHANGED fixVars
  BY <1>9, QuietStep
<1> QED
  BY <1>1, <1>2, <1>3, <1>4, <1>5, <1>6, <1>7, <1>8, <1>9 DEF FixNext

LEMMA FixInvariant == FixSpec => []FixInv
<1>1. FixInv /\ [FixNext]_fixVars => FixInv'
  BY EveryStep
<1> QED
  BY <1>1, InitIsGood, PTL DEF FixSpec

----------------------------------------------------------------------------
(* The theorems. *)

(* Every variable stays in its range, and a first heading of the fixes      *)
(* rests on three points (UpdateFixPosition, InitializeFirstFewGPSPositions, *)
(* tmrWatchdog_timeout).                                                    *)
THEOREM FixTypeCorrect == FixSpec => []FixTypeOK
<1>1. FixInv => FixTypeOK
  <2> SUFFICES ASSUME FixInv PROVE FixTypeOK
    OBVIOUS
  <2>1. /\ {simulatorOn, wasSimulatorOn, timerSim} \subseteq BOOLEAN
        /\ timerSim = wasSimulatorOn
    BY DEF FixInv, Modes
  <2>2. gps \in GPS
    BY DEF FixInv, PositionOK, IsGood
  <2>3. /\ {sim, gps.start, gps.lastKnown} \subseteq SimPlaces
        /\ {gps.latlon, gps.fix, gps.raw} \subseteq Places
    BY <2>2 DEF FixInv, Modes, GPS
  <2>4. /\ {gps.corrections, gps.corrected} \subseteq 0 .. 2
        /\ gps.startCounter \in 0 .. StartFrames + 1
    BY <2>2 DEF GPS
  <2>5. gps.stepFixPts \in Seq(Places)
    BY <2>2 DEF GPS
  <2>6. ToSet(gps.stepFixPts) \subseteq Places
    BY <2>5 DEF ToSet
  <2>7. /\ Len(gps.stepFixPts) <= 3
        /\ gps.headingFromSource = "Fix" =>
              (gps.isFirstHeadingSet <=> Len(gps.stepFixPts) = 3)
        /\ gps.isGPSPositionInitialized => gps.isFirstFixPositionSet
    BY DEF FixInv, PositionOK, IsGood
  <2>8. /\ isJobStarted \in Fields \cup {NoField}
        /\ isJobStarted # NoField => isJobStarted \in DOMAIN startFix
        /\ DOMAIN startFix \subseteq Fields
        /\ \A f \in Fields : contents[f] \subseteq SimPlaces
    BY DEF FixInv, FieldOK
  <2> QED
    BY <2>1, <2>3, <2>4, <2>6, <2>7, <2>8 DEF FixTypeOK
<1> QED
  BY <1>1, FixInvariant, PTL

(* When the watchdog has seen a switch, neither the position nor a point of *)
(* the heading is one of the other mode's (ResetGPSState).                  *)
THEOREM Own == FixSpec => []OwnPositions
<1>1. FixInv => OwnPositions
  <2> SUFFICES ASSUME FixInv, simulatorOn = wasSimulatorOn,
                      NEW place \in {gps.latlon, gps.fix, gps.raw} \cup ToSet(gps.stepFixPts)
               PROVE  place.source # Other
    BY DEF OwnPositions, Other
  <2>1. IsFree(gps, Other) /\ gps.stepFixPts \in Seq(Places)
    BY DEF FixInv, PositionOK, IsGood, GPS
  <2>2. place \in ToSet(gps.stepFixPts)
          => \E i \in 1 .. Len(gps.stepFixPts) : place = gps.stepFixPts[i]
    BY <2>1 DEF ToSet
  <2> QED
    BY <2>1, <2>2 DEF IsFree
<1> QED
  BY <1>1, FixInvariant, PTL

(* Once the heading comes from the fixes, every frame works with a fix that *)
(* was corrected once (m_rawGpsPosition in UpdateFixPosition).              *)
THEOREM Once == FixSpec => CorrectedOnce
<1>1. FixInv /\ [FixNext]_fixVars =>
         [gps.headingFromSource = "Fix" /\ gps.isFirstHeadingSet
            /\ gps'.corrected # gps.corrected => gps'.corrected = 1]_fixVars
  BY EveryStep
<1> QED
  BY <1>1, FixInvariant, PTL DEF FixSpec, CorrectedOnce
=============================================================================
