---------------------------- MODULE NTRIPWorker ----------------------------
(***************************************************************************)
(* The NTRIP client: AgIOService (main thread) posts start and stop        *)
(* commands to NTRIPWorker (its own thread), which keeps a TCP connection  *)
(* to a caster, cuts the stream into RTCM packets and hands them on.       *)
(*                                                                         *)
(* The worker's state is spread over its flags, a reconnect timer and the  *)
(* state of the QTcpSocket, whose signals may come after the worker has    *)
(* changed its mind.  Of the socket the model keeps what the worker sees:  *)
(*   - connectToHost on a socket in use fails at once with an error;       *)
(*   - disconnectFromHost on a connected socket ends at once, or after the *)
(*     bytes still to be written have gone out; on a connecting one it is  *)
(*     kept until the connection stands.                                   *)
(***************************************************************************)
EXTENDS Naturals, Sequences

CONSTANTS
    Mounts,       \* the caster and mount point a start command names
    Off,          \* NTRIP is switched off in the settings
    MaxAttempts,  \* 5: reconnections before the worker gives up
    MaxPosted   \* bound: commands posted and not yet handled

ASSUME OffAssumption == Off \notin Mounts
ASSUME AttemptsAssumption == MaxAttempts \in Nat

VARIABLES
    applied,              \* the settings last given to configureNTRIP
    posted,             \* posted to the worker's event loop
    m_isRunning,
    m_ntripMount,         \* what the worker connects to
    m_connectionState,
    m_headerReceived,
    m_reconnectAttempts,
    m_reconnectTimer,     \* the timer is active
    socket,               \* QTcpSocket::state
    pendingClose,         \* disconnectFromHost was called while connecting
    m_rtcmBuffer,         \* what the packet cutter holds back, see Held
    spliced               \* a packet made of two connections was handed on

commandVars == <<applied, posted>>
runVars == <<m_isRunning, m_ntripMount>>
retryVars == <<m_reconnectAttempts, m_reconnectTimer>>
socketVars == <<socket, pendingClose>>
rtcmVars == <<m_rtcmBuffer, spliced>>
ntripVars == <<commandVars, runVars, m_connectionState, m_headerReceived, retryVars,
          socketVars, rtcmVars>>

ConnectionState == {"Disconnected", "Connecting", "Authenticating", "ReceivingData", "Error"}

SocketState == {"Unconnected", "Connecting", "Connected", "Closing"}

(* Nothing, the head of a packet of this connection, or that of an earlier. *)
Held == {"nothing", "head", "staleHead"}

NTRIPInit ==
    /\ applied = Off
    /\ posted = <<>>
    /\ m_isRunning = FALSE
    /\ m_ntripMount = Off
    /\ m_connectionState = "Disconnected"
    /\ m_headerReceived = FALSE
    /\ m_reconnectAttempts = 0
    /\ m_reconnectTimer = FALSE
    /\ socket = "Unconnected"
    /\ pendingClose = FALSE
    /\ m_rtcmBuffer = "nothing"
    /\ spliced = FALSE

----------------------------------------------------------------------------
(* A slip: one attempt too many. *)
MayRetryOnceMore(attempts) == attempts <= MaxAttempts

(* The condition under which a lost connection starts the reconnect timer. *)
MayRetry(attempts) == attempts < MaxAttempts

Retry == m_isRunning /\ MayRetry(m_reconnectAttempts)

(* AgIOService *)

(* configureNTRIP, from the settings page or at startup: posts a start or a  *)
(* stop, as the settings say.                                                *)
ConfigureNTRIP(mount) ==
    /\ Len(posted) < MaxPosted
    /\ applied' = mount
    /\ posted' = Append(posted, mount)
    /\ UNCHANGED <<runVars, m_connectionState, m_headerReceived, retryVars,
                   socketVars, rtcmVars>>

----------------------------------------------------------------------------
(* The commands, on the worker's thread. *)

TakeCommand == posted' = Tail(posted) /\ UNCHANGED applied

(* connectToHost, with the state and the timer that are current when it is  *)
(* called: on a socket in use it is an error.                               *)
ConnectToHost(inUse, mayRetry, timer) ==
    /\ m_connectionState' = IF inUse THEN "Error" ELSE "Connecting"
    /\ m_reconnectTimer' = (timer \/ (inUse /\ mayRetry))

StartNTRIP(mount) ==
    /\ posted # <<>>
    /\ Head(posted) = mount
    /\ TakeCommand
    /\ ~m_isRunning
    /\ m_isRunning' = TRUE
    /\ m_ntripMount' = mount
    /\ m_reconnectAttempts' = 0
    /\ ConnectToHost(socket # "Unconnected", MayRetry(0), m_reconnectTimer)
    /\ socket' = IF socket = "Unconnected" THEN "Connecting" ELSE socket
    /\ UNCHANGED <<m_headerReceived, pendingClose, rtcmVars>>

(* A command the worker has nothing to do for: a start while it runs, or a  *)
(* stop while it does not.                                                  *)
IgnoreCommand ==
    /\ posted # <<>>
    /\ m_isRunning = (Head(posted) # Off)
    /\ TakeCommand
    /\ UNCHANGED <<runVars, m_connectionState, m_headerReceived, retryVars,
                   socketVars, rtcmVars>>

(* The state the socket may be left in by cleanupConnection.  A connected   *)
(* socket goes down at once unless the request is still to be written.      *)
CleanedUp ==
    CASE socket = "Connected" ->
            IF m_connectionState = "Authenticating"
            THEN {"Unconnected", "Closing"} ELSE {"Unconnected"}
      [] socket = "Connecting" -> {"Connecting"}
      [] socket \in {"Closing", "Unconnected"} -> {"Unconnected"}

CleanupConnection ==
    /\ socket' \in CleanedUp
    /\ pendingClose' = (pendingClose \/ socket = "Connecting")

(* A slip: the timers are left to run. *)
StopNTRIPKeepingTimer ==
    /\ posted # <<>>
    /\ Head(posted) = Off
    /\ TakeCommand
    /\ m_isRunning
    /\ m_isRunning' = FALSE
    /\ m_headerReceived' = FALSE
    /\ m_reconnectAttempts' = 0
    /\ CleanupConnection
    /\ m_connectionState' = "Disconnected"
    /\ UNCHANGED <<m_ntripMount, m_reconnectTimer, rtcmVars>>

(* A slip: only a connected socket is closed. *)
StopNTRIPIfConnected ==
    /\ posted # <<>>
    /\ Head(posted) = Off
    /\ TakeCommand
    /\ m_isRunning
    /\ m_isRunning' = FALSE
    /\ m_headerReceived' = FALSE
    /\ m_reconnectAttempts' = 0
    /\ m_reconnectTimer' = FALSE
    /\ socket' \in IF socket = "Connected" THEN CleanedUp ELSE {socket}
    /\ m_connectionState' = "Disconnected"
    /\ UNCHANGED <<m_ntripMount, pendingClose, rtcmVars>>

(* A slip: a stop before the connection stands is dropped. *)
StopNTRIPOnceConnected ==
    /\ posted # <<>>
    /\ Head(posted) = Off
    /\ TakeCommand
    /\ m_isRunning
    /\ m_isRunning' = (socket = "Connecting")
    /\ m_headerReceived' = FALSE
    /\ m_reconnectAttempts' = 0
    /\ m_reconnectTimer' = FALSE
    /\ CleanupConnection
    /\ m_connectionState' = "Disconnected"
    /\ UNCHANGED <<m_ntripMount, rtcmVars>>

StopNTRIP ==
    /\ posted # <<>>
    /\ Head(posted) = Off
    /\ TakeCommand
    /\ m_isRunning
    /\ m_isRunning' = FALSE
    /\ m_headerReceived' = FALSE
    /\ m_reconnectAttempts' = 0
    /\ m_reconnectTimer' = FALSE
    /\ CleanupConnection
    /\ m_connectionState' = "Disconnected"
    /\ UNCHANGED <<m_ntripMount, rtcmVars>>

----------------------------------------------------------------------------
(* The reconnect timer. *)

(* A slip: what was received of the last response is kept. *)
AttemptReconnectKeepingHeader ==
    /\ m_reconnectTimer
    /\ m_isRunning
    /\ m_reconnectAttempts' = m_reconnectAttempts + 1
    /\ \E left \in CleanedUp :
          /\ ConnectToHost(left # "Unconnected", MayRetry(m_reconnectAttempts'), FALSE)
          /\ socket' = IF left = "Unconnected" THEN "Connecting" ELSE left
    /\ pendingClose' = (socket = "Connecting")
    /\ UNCHANGED <<commandVars, runVars, m_headerReceived, rtcmVars>>

(* attemptReconnect, when the timer has run out.  A socket that goes down    *)
(* inside cleanupConnection starts the timer again although the next         *)
(* connection is already on its way; nothing stops the timer when that       *)
(* connection stands.                                                        *)
AttemptReconnect ==
    /\ m_reconnectTimer
    /\ m_isRunning
    /\ m_reconnectAttempts' = m_reconnectAttempts + 1
    /\ m_headerReceived' = FALSE
    /\ \E left \in CleanedUp :
          LET wentDown == /\ socket \in {"Connected", "Closing"}
                          /\ left = "Unconnected"
                          /\ m_connectionState # "Disconnected"
          IN  /\ ConnectToHost(left # "Unconnected", MayRetry(m_reconnectAttempts'),
                               wentDown /\ MayRetry(m_reconnectAttempts'))
              /\ socket' = IF left = "Unconnected" THEN "Connecting" ELSE left
    /\ pendingClose' = (socket = "Connecting")
    /\ UNCHANGED <<commandVars, runVars, rtcmVars>>

----------------------------------------------------------------------------
(* The socket's signals. *)

(* onTcpConnected sends the request, whoever wanted the connection. *)
OnTcpConnected ==
    /\ socket = "Connecting"
    /\ m_connectionState' = "Authenticating"
    /\ socket' = IF pendingClose THEN "Closing" ELSE "Connected"
    /\ pendingClose' = FALSE
    /\ m_rtcmBuffer' = IF m_rtcmBuffer = "head" THEN "staleHead" ELSE m_rtcmBuffer
    /\ UNCHANGED <<commandVars, runVars, m_headerReceived, retryVars, spliced>>

(* A slip: a refused connection is reported and not retried. *)
OnTcpErrorReported ==
    /\ socket = "Connecting"
    /\ socket' = "Unconnected"
    /\ pendingClose' = FALSE
    /\ m_connectionState' = "Error"
    /\ UNCHANGED <<commandVars, runVars, m_headerReceived, retryVars, rtcmVars>>

(* onTcpError: the connection cannot be made. *)
OnTcpError ==
    /\ socket = "Connecting"
    /\ socket' = "Unconnected"
    /\ pendingClose' = FALSE
    /\ m_connectionState' = "Error"
    /\ m_reconnectTimer' = (m_reconnectTimer \/ Retry)
    /\ UNCHANGED <<commandVars, runVars, m_headerReceived, m_reconnectAttempts, rtcmVars>>

(* onTcpDisconnected, at the end of a close that had to wait. *)
OnTcpDisconnected ==
    /\ socket = "Closing"
    /\ socket' = "Unconnected"
    /\ m_connectionState' = "Disconnected"
    /\ m_reconnectTimer' =
          (m_reconnectTimer \/ (m_connectionState # "Disconnected" /\ Retry))
    /\ UNCHANGED <<commandVars, runVars, m_headerReceived, m_reconnectAttempts,
                   pendingClose, rtcmVars>>

(* The caster closes the connection or the network fails: onTcpError and    *)
(* then onTcpDisconnected.                                                  *)
OnTcpErrorDisconnected ==
    /\ socket = "Connected"
    /\ socket' = "Unconnected"
    /\ m_connectionState' = "Disconnected"
    /\ m_reconnectTimer' = (m_reconnectTimer \/ Retry)
    /\ UNCHANGED <<commandVars, runVars, m_headerReceived, m_reconnectAttempts,
                   pendingClose, rtcmVars>>

(* processRTCMPackets: the stream is cut at the lengths the packets declare. *)
(* The head of a packet of an earlier connection is completed with bytes of  *)
(* this one, and the length is all that is looked at.                        *)
ProcessRTCMPackets ==
    \/ /\ m_rtcmBuffer = "staleHead"
       /\ UNCHANGED rtcmVars
    \/ /\ m_rtcmBuffer' \in {"nothing", "head"}
       /\ spliced' = (spliced \/ m_rtcmBuffer = "staleHead")

(* processNtripResponse, once the header is complete, with what follows it. *)
ProcessNtripResponse(isAccepted) ==
    /\ socket = "Connected"
    /\ m_connectionState = "Authenticating"
    /\ ~m_headerReceived
    /\ m_connectionState' = IF isAccepted THEN "ReceivingData" ELSE "Error"
    /\ m_headerReceived' = isAccepted
    /\ IF isAccepted THEN ProcessRTCMPackets \/ UNCHANGED rtcmVars ELSE UNCHANGED rtcmVars
    /\ UNCHANGED <<commandVars, runVars, retryVars, socketVars>>

(* onTcpDataReceived while data is being received. *)
OnTcpDataReceived ==
    /\ socket = "Connected"
    /\ m_connectionState = "ReceivingData"
    /\ ProcessRTCMPackets
    /\ UNCHANGED <<commandVars, runVars, m_connectionState, m_headerReceived,
                   retryVars, socketVars>>

(* checkConnectionStatus finds that no data has come for 30 seconds. *)
CheckConnectionStatus ==
    /\ m_isRunning
    /\ m_connectionState = "ReceivingData"
    /\ m_connectionState' = "Error"
    /\ m_reconnectTimer' = (m_reconnectTimer \/ MayRetry(m_reconnectAttempts))
    /\ UNCHANGED <<commandVars, runVars, m_headerReceived, m_reconnectAttempts,
                   socketVars, rtcmVars>>

----------------------------------------------------------------------------
HandleCommand ==
    \/ \E mount \in Mounts : StartNTRIP(mount)
    \/ StopNTRIP
    \/ IgnoreCommand

ConnectEnds == OnTcpConnected \/ OnTcpError

NTRIPNext ==
    \/ \E mount \in Mounts \cup {Off} : ConfigureNTRIP(mount)
    \/ HandleCommand
    \/ AttemptReconnect
    \/ ConnectEnds
    \/ OnTcpDisconnected
    \/ OnTcpErrorDisconnected
    \/ \E isAccepted \in BOOLEAN : ProcessNtripResponse(isAccepted)
    \/ OnTcpDataReceived
    \/ CheckConnectionStatus

NTRIPSpec == NTRIPInit /\ [][NTRIPNext]_ntripVars

(* The worker's event loop runs what is posted to it and its timer; the     *)
(* operating system ends every attempt to connect and every close.  The     *)
(* caster need do nothing.                                                  *)
NTRIPFairness ==
    /\ WF_ntripVars(HandleCommand)
    /\ WF_ntripVars(AttemptReconnect)
    /\ WF_ntripVars(ConnectEnds)
    /\ WF_ntripVars(OnTcpDisconnected)

NTRIPFairSpec == NTRIPSpec /\ NTRIPFairness

----------------------------------------------------------------------------
(* Every variable stays in its range; no more than MaxAttempts attempts.     *)
NTRIPTypeOK ==
    /\ applied \in Mounts \cup {Off}
    /\ posted \in Seq(Mounts \cup {Off})
    /\ m_isRunning \in BOOLEAN
    /\ m_ntripMount \in Mounts \cup {Off}
    /\ m_connectionState \in ConnectionState
    /\ m_headerReceived \in BOOLEAN
    /\ m_reconnectAttempts \in 0 .. MaxAttempts
    /\ m_reconnectTimer \in BOOLEAN
    /\ socket \in SocketState
    /\ pendingClose \in BOOLEAN
    /\ m_rtcmBuffer \in Held
    /\ spliced \in BOOLEAN

(* When every command has been handled the worker runs if and only if NTRIP  *)
(* is switched on, in whatever state the socket was when they came.          *)
FollowsCommands == posted = <<>> => m_isRunning = (applied # Off)

(* A running worker without a connection never sits and waits: a retry is    *)
(* scheduled, or it has used them all.                                       *)
RetryIsScheduled ==
    m_isRunning /\ socket = "Unconnected"
        => m_reconnectTimer \/ m_reconnectAttempts = MaxAttempts

(* A stopped worker has no timer that would bring it back and no connection  *)
(* that is not on its way down.                                              *)
StoppedIsQuiet ==
    ~m_isRunning =>
        /\ ~m_reconnectTimer
        /\ socket = "Connecting" => pendingClose
        /\ socket # "Connected"

(* Data is taken for RTCM only on a standing connection whose caster has     *)
(* accepted the request, and a new connection always reads its own response. *)
ReceivesAfterAcceptance ==
    /\ m_connectionState = "ReceivingData" => socket = "Connected" /\ m_headerReceived
    /\ m_connectionState = "Authenticating" => ~m_headerReceived

(* NTRIP that is switched off for good is in the end without a connection.   *)
StopsForGood == <>[](applied = Off) => <>[](socket = "Unconnected")

(* Does not hold.                                                            *)
(* "// Apply configuration" (NTrip.qml:244): when every command has been     *)
(* handled, a running worker uses the settings that were applied last.       *)
AppliedSettingsAreUsed == posted = <<>> /\ m_isRunning => m_ntripMount = applied

(* Does not hold.                                                            *)
(* "// Reset state for next connection" (ntripworker.cpp:120): no packet     *)
(* that is handed on is put together from two connections.                   *)
RoutedPacketsAreWhole == ~spliced
=============================================================================
