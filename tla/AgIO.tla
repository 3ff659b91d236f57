-------------------------------- MODULE AgIO --------------------------------
(***************************************************************************)
(* AgIO's network side: the UDP socket and its life, the module on the     *)
(* other end of the wire, the search for it and the commands that move it  *)
(* to another subnet.                                                      *)
(*                                                                         *)
(* Everything runs on the main thread; what makes it hard are the single   *)
(* shots.  A command is a chain of them (`shots'), a socket error leaves   *)
(* one behind, and the user goes on clicking while they run.               *)
(***************************************************************************)
EXTENDS Naturals, FiniteSets

CONSTANTS
    Subnets,      \* the subnets there are
    Home,         \* 192.168.1, which the code names in several places
    Fallback,     \* where a module is sought whose subnet is not known
    MaxCommands   \* bound: IP Set and Auto-Configure

ASSUME SubnetAssumption == Home \in Fallback /\ Fallback \subseteq Subnets
ASSUME BoundAssumption == MaxCommands \in Nat

VARIABLES
    initialized,     \* m_initialized: AgIO is on
    workersReady,    \* setupWorkerThreads has run once
    ethernet_isOn, ethernet_ip,        \* settings
    isRunning, isUdpEnabled, isBound,  \* UDP, and the state of its socket
    udpBroadcastAddress, tractorAddress, \* both with 255 as the last byte
    discovered,      \* discoveredModuleSubnet
    scanActive, scanTimer, shouldAutoConfigure,
    shots,           \* how many of each single shot are pending
    module,          \* the subnet it is on, and whether it is up
    wire,            \* where the replies on their way to AgIO (PGN 203) come from
    commands,        \* counts up to MaxCommands
    undisturbed      \* the last command ran alone and no reply to it was lost

udpVars == <<isRunning, isUdpEnabled, isBound>>
addressVars == <<udpBroadcastAddress, tractorAddress>>
serviceVars == <<initialized, workersReady, ethernet_isOn>>
scanVars == <<discovered, scanActive, scanTimer, shouldAutoConfigure>>
vars == <<serviceVars, ethernet_ip, udpVars, addressVars, scanVars, shots, module,
          wire, commands, undisturbed>>

Unknown == "no subnet"
ASSUME UnknownAssumption == Unknown \notin Subnets

Shots == {"initial", "rebind", "wake", "send", "restart", "auto", "verify"}

Init ==
    /\ ethernet_ip \in Subnets
    /\ initialized = FALSE /\ workersReady = FALSE /\ ethernet_isOn = TRUE
    /\ isRunning = FALSE /\ isUdpEnabled = FALSE /\ isBound = FALSE
    /\ udpBroadcastAddress = Unknown /\ tractorAddress = Unknown
    /\ discovered = Unknown
    /\ scanActive = FALSE /\ scanTimer = FALSE /\ shouldAutoConfigure = FALSE
    /\ shots = [s \in Shots |-> 0]
    /\ \E at \in Subnets : module = [at |-> at, up |-> TRUE]
    /\ wire = {}
    /\ commands = 0 /\ undisturbed = FALSE

Started(s) == [shots EXCEPT ![s] = @ + 1]
Fired(s) == [shots EXCEPT ![s] = @ - 1]
Followed(s, next) == [shots EXCEPT ![s] = @ - 1, ![next] = @ + 1]

----------------------------------------------------------------------------
(* The module.  It hears what is sent to everybody and what is sent to the  *)
(* subnet it is on; AgIO's computer has an address in each of them.         *)

Reply == IF module.up THEN {module.at} ELSE {}

(* PGN 202 to 255.255.255.255 *)
WakeUpModules == wire' = wire \cup Reply

(* PGN 201: the module keeps the new subnet and restarts. *)
Configured(targets) ==
    IF module.up /\ module.at \in targets THEN [at |-> ethernet_ip, up |-> FALSE] ELSE module

ModuleUp ==
    /\ ~module.up
    /\ module' = [module EXCEPT !.up = TRUE]
    /\ UNCHANGED <<serviceVars, ethernet_ip, udpVars, addressVars, scanVars, shots,
                   wire, commands, undisturbed>>

----------------------------------------------------------------------------
(* The socket. *)

(* All ports may be taken; then isUdpEnabled stays set. *)
StartUDP ==
    IF isRunning THEN UNCHANGED <<udpVars, shots>>
    ELSE /\ isUdpEnabled' = TRUE
         /\ \E bound \in BOOLEAN :
               /\ isRunning' = bound /\ isBound' = bound
               /\ shots' = IF bound THEN Started("initial") ELSE shots

StopUDP ==
    IF isRunning THEN isRunning' = FALSE /\ isUdpEnabled' = FALSE /\ isBound' = FALSE
    ELSE UNCHANGED udpVars

(* Bound: one initial scan is pending at a time, and two attempts to rebind. *)
MayStart == shots["initial"] = 0

StartCommunication ==
    /\ ~initialized
    /\ MayStart
    /\ initialized' = TRUE /\ workersReady' = TRUE
    /\ udpBroadcastAddress' = ethernet_ip
    /\ tractorAddress' = ethernet_ip
    /\ IF ethernet_isOn THEN StartUDP ELSE UNCHANGED <<udpVars, shots>>
    /\ UNCHANGED <<ethernet_isOn, ethernet_ip, scanVars, module, wire,
                   commands, undisturbed>>

StopCommunication ==
    /\ initialized
    /\ initialized' = FALSE
    /\ StopUDP
    /\ UNCHANGED <<workersReady, ethernet_isOn, ethernet_ip, addressVars, scanVars,
                   shots, module, wire, commands, undisturbed>>

(* The signals were connected when AgIO was first switched on, and stay so. *)
EnableUDP(enable) ==
    /\ ethernet_isOn # enable
    /\ MayStart
    /\ ethernet_isOn' = enable
    /\ IF workersReady /\ enable THEN StartUDP
       ELSE UNCHANGED shots /\ IF workersReady THEN StopUDP ELSE UNCHANGED udpVars
    /\ tractorAddress' = IF workersReady /\ enable /\ ~isRunning THEN udpBroadcastAddress
                         ELSE tractorAddress
    /\ UNCHANGED <<initialized, workersReady, ethernet_ip, udpBroadcastAddress, scanVars,
                   module, wire, commands, undisturbed>>

(* The socket is closed and bound again two seconds later, once. *)
OnUdpError ==
    /\ isBound
    /\ shots["rebind"] < 2
    /\ isBound' = FALSE
    /\ shots' = Started("rebind")
    /\ UNCHANGED <<serviceVars, ethernet_ip, isRunning, isUdpEnabled, addressVars,
                   scanVars, module, wire, commands, undisturbed>>

(* A slip: the shot does not look whether UDP is still on. *)
MayBindAlways == {isBound, TRUE}

MayBind == IF isRunning THEN {isBound, TRUE} ELSE {isBound}

Rebind ==
    /\ shots["rebind"] > 0
    /\ shots' = Fired("rebind")
    /\ isBound' \in MayBind
    /\ UNCHANGED <<serviceVars, ethernet_ip, isRunning, isUdpEnabled, addressVars,
                   scanVars, module, wire, commands, undisturbed>>

----------------------------------------------------------------------------
(* The search for the module. *)

(* A slip: what an earlier search found is kept. *)
ScanAllSubnetsKeeping ==
    IF ~isRunning THEN UNCHANGED <<discovered, scanActive, scanTimer, wire>>
    ELSE /\ scanActive' = TRUE /\ scanTimer' = TRUE
         /\ wire' = wire \cup Reply
         /\ UNCHANGED discovered

(* The index of the subnet is reset with every call, so that only the first *)
(* one is asked, and a search ends with an answer or not at all.            *)
ScanAllSubnets ==
    IF ~isRunning THEN UNCHANGED <<discovered, scanActive, scanTimer, wire>>
    ELSE /\ scanActive' = TRUE /\ scanTimer' = TRUE
         /\ discovered' = IF scanActive THEN discovered ELSE Unknown
         /\ wire' = IF scanActive /\ module.at # Home THEN wire
                    ELSE wire \cup Reply

ScanModules(thenConfigure) ==
    /\ workersReady
    /\ ScanAllSubnets
    /\ shouldAutoConfigure' = (shouldAutoConfigure \/ thenConfigure)
    /\ UNCHANGED <<serviceVars, ethernet_ip, udpVars, addressVars, shots, module,
                   commands, undisturbed>>

ScanTimeout ==
    /\ scanTimer
    /\ IF isRunning THEN ScanAllSubnets
       ELSE scanTimer' = FALSE /\ UNCHANGED <<discovered, scanActive, wire>>
    /\ UNCHANGED <<serviceVars, ethernet_ip, udpVars, addressVars, shouldAutoConfigure,
                   shots, module, commands, undisturbed>>

----------------------------------------------------------------------------
(* Moving the module.  A shot that waits two seconds and more fires after   *)
(* the replies to what was sent before have come or been lost, and, if it   *)
(* waits for the module to restart, after it has.                           *)

Answered == wire = {}

Quiet == (\A s \in Shots : shots[s] = 0) /\ module.up /\ Answered

(* IP Set: configureSubnet *)
SetIP(subnet) ==
    /\ workersReady
    /\ commands < MaxCommands
    /\ commands' = commands + 1
    /\ ethernet_ip' = subnet
    /\ shots' = Started("wake")
    /\ undisturbed' = (Quiet /\ ~shouldAutoConfigure)
    /\ UNCHANGED <<serviceVars, udpVars, addressVars, scanVars, module, wire>>

WakeShot ==
    /\ shots["wake"] > 0
    /\ shots' = Followed("wake", "send")
    /\ WakeUpModules
    /\ UNCHANGED <<serviceVars, ethernet_ip, udpVars, addressVars, scanVars, module,
                   commands, undisturbed>>

(* A slip: the module is told on the subnet it is to go to. *)
TargetsNew == {ethernet_ip}

Targets == IF discovered = Unknown THEN Fallback ELSE {discovered}

SendPGN201ToAllInterfaces ==
    /\ shots["send"] > 0 /\ Answered
    /\ shots' = Followed("send", "restart")
    /\ module' = Configured(Targets)
    /\ UNCHANGED <<serviceVars, ethernet_ip, udpVars, addressVars, scanVars, wire,
                   commands, undisturbed>>

HandleModuleRestart ==
    /\ shots["restart"] > 0 /\ module.up
    /\ shots' = Fired("restart")
    /\ udpBroadcastAddress' = ethernet_ip
    /\ WakeUpModules
    /\ UNCHANGED <<serviceVars, ethernet_ip, udpVars, tractorAddress, scanVars, module,
                   commands, undisturbed>>

(* It is sent to everybody. *)
SendPGN201ToDetectedModule ==
    /\ shots["auto"] > 0
    /\ shots' = Followed("auto", "verify")
    /\ module' = Configured(Subnets)
    /\ UNCHANGED <<serviceVars, ethernet_ip, udpVars, addressVars, scanVars, wire,
                   commands, undisturbed>>

VerificationScan ==
    /\ shots["verify"] > 0 /\ module.up
    /\ shots' = Fired("verify")
    /\ ScanAllSubnets
    /\ UNCHANGED <<serviceVars, ethernet_ip, udpVars, addressVars, shouldAutoConfigure,
                   module, commands, undisturbed>>

InitialScan ==
    /\ shots["initial"] > 0
    /\ shots' = Fired("initial")
    /\ WakeUpModules
    /\ UNCHANGED <<serviceVars, ethernet_ip, udpVars, addressVars, scanVars, module,
                   commands, undisturbed>>

----------------------------------------------------------------------------
(* What arrives. *)

(* The search is over and, if it was for Auto-Configure, the module is      *)
(* called to the home subnet.                                               *)
SubnetScanCompleted(rest) ==
    IF scanActive /\ shouldAutoConfigure
    THEN /\ commands < MaxCommands
         /\ commands' = commands + 1
         /\ shouldAutoConfigure' = FALSE
         /\ ethernet_ip' = Home
         /\ shots' = Started("auto")
         /\ wire' = rest \cup Reply
         /\ undisturbed' = (\A s \in Shots : shots[s] = 0)
    ELSE /\ wire' = rest
         /\ UNCHANGED <<commands, shouldAutoConfigure, ethernet_ip, shots, undisturbed>>

(* onUdpDataReady, PGN 203 *)
OnScanReply(from) ==
    /\ isBound
    /\ from \in wire
    /\ discovered' = from
    /\ scanActive' = FALSE
    /\ scanTimer' = (scanTimer /\ ~scanActive)
    /\ SubnetScanCompleted(wire \ {from})
    /\ UNCHANGED <<serviceVars, udpVars, addressVars, module>>

Lose(from) ==
    /\ from \in wire
    /\ wire' = wire \ {from}
    /\ undisturbed' = FALSE
    /\ UNCHANGED <<serviceVars, ethernet_ip, udpVars, addressVars, scanVars, shots,
                   module, commands>>

Next ==
    \/ StartCommunication \/ StopCommunication
    \/ \E enable \in BOOLEAN : EnableUDP(enable)
    \/ OnUdpError \/ Rebind
    \/ \E thenConfigure \in BOOLEAN : ScanModules(thenConfigure)
    \/ ScanTimeout
    \/ \E subnet \in Subnets : SetIP(subnet)
    \/ WakeShot \/ SendPGN201ToAllInterfaces \/ HandleModuleRestart
    \/ SendPGN201ToDetectedModule \/ VerificationScan \/ InitialScan
    \/ \E from \in wire : OnScanReply(from) \/ Lose(from)
    \/ ModuleUp

Spec == Init /\ [][Next]_vars

----------------------------------------------------------------------------
(* Properties. *)

(* Every variable has its type; a search that goes on has found nothing and *)
(* UDP that runs counts its traffic.                                        *)
TypeOK ==
    /\ initialized \in BOOLEAN /\ workersReady \in BOOLEAN /\ ethernet_isOn \in BOOLEAN
    /\ isRunning \in BOOLEAN /\ isUdpEnabled \in BOOLEAN /\ isBound \in BOOLEAN
    /\ scanActive \in BOOLEAN /\ scanTimer \in BOOLEAN /\ shouldAutoConfigure \in BOOLEAN
    /\ undisturbed \in BOOLEAN
    /\ ethernet_ip \in Subnets
    /\ udpBroadcastAddress \in Subnets \cup {Unknown}
    /\ tractorAddress \in Subnets \cup {Unknown}
    /\ discovered \in Subnets \cup {Unknown}
    /\ shots \in [Shots -> Nat]
    /\ module \in [at : Subnets, up : BOOLEAN]
    /\ wire \subseteq Subnets
    /\ commands \in 0 .. MaxCommands
    /\ scanActive => discovered = Unknown
    /\ isRunning => isUdpEnabled

(* UDP that was switched off holds no socket, whatever single shots an      *)
(* error and another start left behind.                                     *)
NoSocketWhenStopped == isBound => isRunning

(* IP Set and Auto-Configure reach the module wherever it is: once their    *)
(* shots have fired it is on the subnet they name, if no reply to them was  *)
(* lost and none of them was begun while another was under way.             *)
CommandMovesModule == undisturbed /\ Quiet => module.at = ethernet_ip

(* Does not hold.                                                           *)
(* What steers and switches the modules is sent to the subnet they were     *)
(* moved to.  It is not: tractorAddress stays as it was.                    *)
SteeringReachesModule ==
    undisturbed /\ Quiet /\ isRunning => tractorAddress = module.at
=============================================================================
