----------------------------- MODULE SerialPorts -----------------------------
(***************************************************************************)
(* The serial ports of AgIO.  A SerialWorker lives on a thread of its own  *)
(* and owns the QSerialPort objects; AgIOService, on the main thread, asks  *)
(* it to open and close ports and hears of the outcome through signals.     *)
(* Both directions are queued: what one side knows of the other is always   *)
(* a few events old.                                                        *)
(*                                                                          *)
(* Each time AgIO is switched on a new worker is made, and nothing stops or *)
(* deletes the one before: `ports' and `toWorker' are indexed by worker.    *)
(* A port of the first three types (GPS, IMU, Steer) is a member variable   *)
(* of the worker; the others are entries of its maps, opened, closed and    *)
(* flagged by functions of their own, which differ in what they reset.      *)
(***************************************************************************)
EXTENDS Naturals, Sequences, SequencesExt

CONSTANTS
    Types,        \* the port types in use
    Devices,      \* the devices of the operating system (COM5, ttyUSB0, ...)
    Receivers,    \* those that send NMEA sentences
    None,         \* no device: a null pointer or an empty name
    MaxWorkers,   \* bound: how often AgIO is switched on
    MaxEvents     \* bound: what the user and the devices do

ASSUME PortsAssumption ==
    /\ Types \subseteq {"GPS", "IMU", "Steer", "Machine", "Blockage"}
    /\ Receivers \subseteq Devices
    /\ None \notin Devices
    /\ MaxWorkers \in Nat \ {0} /\ MaxEvents \in Nat

VARIABLES
    running,      \* m_initialized of the service
    worker,       \* number of the worker m_serialWorker points to
    reconnects,   \* single shots that will reopen the configured ports
    settings,     \* the port name SettingsManager keeps for each type
    plugged,      \* the devices that are there
    ports,        \* for each worker and type, the port and what is kept of it
    toWorker,     \* for each worker, the calls queued to its thread
    toMain,       \* the signals and calls queued to the main thread
    connected,    \* what the service shows: imuConnected, steerConnected, ...
    portConnected,\* gpsPortConnected, what the connect button of GPS goes by
    mixed,        \* types that handed over a frame with the bytes of two devices
    events        \* counts what the environment did

serialVars == <<running, worker, reconnects, settings, plugged, ports, toWorker,
          toMain, connected, portConnected, mixed, events>>

Legacy == Types \cap {"GPS", "IMU", "Steer"}
Workers == 1..MaxWorkers
Name == Devices \cup {None}
Port == [dev : Name, open : BOOLEAN, flag : BOOLEAN, name : Name, rest : Name]
NoPort == [dev |-> None, open |-> FALSE, flag |-> FALSE, name |-> None, rest |-> None]

Call == [do : {"open"}, type : Types, dev : Devices] \cup [do : {"close"}, type : Types]
Signal == [of : {"connected", "result"}, type : Types, ok : BOOLEAN]
          \cup [of : {"error", "close"}, type : Types]
          \cup [of : {"data"}, type : Types, dev : Devices]

Connected(t, v) == [of |-> "connected", type |-> t, ok |-> v]
Result(t, v) == [of |-> "result", type |-> t, ok |-> v]

SerialInit ==
    /\ running = FALSE /\ worker = 0 /\ reconnects = 0
    /\ settings \in [Types -> Name]
    /\ \A t \in Types \ Legacy : settings[t] = None
    /\ plugged = Devices
    /\ ports = [w \in Workers |-> [t \in Types |-> NoPort]]
    /\ toWorker = [w \in Workers |-> <<>>]
    /\ toMain = <<>>
    /\ connected = [t \in Types |-> FALSE]
    /\ portConnected = FALSE
    /\ mixed = {} /\ events = 0

Event == events < MaxEvents /\ events' = events + 1

-----------------------------------------------------------------------------
(* The main thread. *)

\* Switching AgIO on makes a worker and its thread, and orders the configured
\* ports to be reopened a second later.
StartSerial ==
    /\ ~running /\ worker < MaxWorkers
    /\ running' = TRUE
    /\ worker' = worker + 1
    /\ reconnects' = reconnects + 1
    /\ UNCHANGED <<settings, plugged, ports, toWorker, toMain, connected,
                   portConnected, mixed, events>>

\* Switching it off stops NTRIP and UDP.
StopSerial ==
    /\ running /\ Event
    /\ running' = FALSE
    /\ UNCHANGED <<worker, reconnects, settings, plugged, ports, toWorker, toMain,
                   connected, portConnected, mixed>>

Post(calls) == toWorker' = [toWorker EXCEPT ![worker] = @ \o calls]

\* slip: a type without a port name is reopened too
ReopenedAny(t) ==
    IF t \in Legacy THEN <<[do |-> "open", type |-> t, dev |-> settings[t]]>> ELSE <<>>

Reopened(t) ==
    IF t \in Legacy /\ settings[t] # None
    THEN <<[do |-> "open", type |-> t, dev |-> settings[t]]>> ELSE <<>>

\* The single shot: it runs whether AgIO is still on or not, and speaks to the
\* worker there is by then.
Reconnect ==
    /\ reconnects > 0
    /\ reconnects' = reconnects - 1
    /\ Post(Reopened("GPS") \o Reopened("IMU") \o Reopened("Steer"))
    /\ UNCHANGED <<running, worker, settings, plugged, ports, toMain, connected,
                   portConnected, mixed, events>>

\* slip: a port opened without its name being saved
OpenUnsaved(t, d) ==
    /\ worker > 0 /\ Event
    /\ Post(<<[do |-> "open", type |-> t, dev |-> d]>>)
    /\ UNCHANGED <<running, worker, reconnects, settings, plugged, ports, toMain, connected,
                   portConnected, mixed>>

\* The name is saved before anybody knows whether the port opens.
OpenSerialPort(t, d) ==
    /\ worker > 0 /\ Event
    /\ settings' = [settings EXCEPT ![t] = d]
    /\ Post(<<[do |-> "open", type |-> t, dev |-> d]>>)
    /\ UNCHANGED <<running, worker, reconnects, plugged, ports, toMain, connected,
                   portConnected, mixed>>

\* What closing does at once on the main thread: the port is forgotten and, but
\* for the IMU, shown as disconnected before the worker has heard of it.
Closing(t) ==
    /\ settings' = [settings EXCEPT ![t] = None]
    /\ Post(<<[do |-> "close", type |-> t]>>)
    /\ connected' = [connected EXCEPT ![t] = @ /\ t \in {"GPS", "IMU"}]
    /\ portConnected' = (portConnected /\ t # "GPS")

CloseSerialPort(t) ==
    /\ worker > 0 /\ Event
    /\ Closing(t)
    /\ UNCHANGED <<running, worker, reconnects, plugged, ports, toMain, mixed>>

\* A GPS receiver found on the port of a module: the port is to be closed.
WrongModule(t, d) == t \in {"IMU", "Steer", "Machine"} /\ d \in Receivers

\* The slots of the service, each given the event s and the events behind it.
OnConnected(s, rest) ==      \* blockageConnected is set by no signal
    /\ s.of = "connected"
    /\ connected' = [connected EXCEPT ![s.type] = s.ok /\ s.type # "Blockage"]
    /\ toMain' = rest
    /\ UNCHANGED <<settings, toWorker, portConnected>>

OnPortOpenResult(s, rest) ==
    /\ s.of = "result"
    /\ portConnected' = IF s.type = "GPS" THEN s.ok ELSE portConnected
    /\ toMain' = rest
    /\ UNCHANGED <<settings, toWorker, connected>>

OnSerialError(s, rest) ==    \* the error of a dynamic port names the device
    /\ s.of = "error"
    /\ connected' = [connected EXCEPT ![s.type] = @ /\ s.type \notin Legacy]
    /\ toMain' = rest
    /\ UNCHANGED <<settings, toWorker, portConnected>>

\* The close is queued behind what is waiting already.
OnData(s, rest) ==
    /\ s.of = "data"
    /\ toMain' = IF WrongModule(s.type, s.dev)
                 THEN Append(rest, [of |-> "close", type |-> s.type]) ELSE rest
    /\ UNCHANGED <<settings, toWorker, connected, portConnected>>

OnClose(s, rest) ==
    /\ s.of = "close"
    /\ Closing(s.type)
    /\ toMain' = rest

\* One event of the main thread.  The outcome of closing is announced by nobody:
\* portCloseResult is declared and connected, and never emitted.
MainStep ==
    /\ toMain # <<>>
    /\ LET s == Head(toMain)
           rest == Tail(toMain)
       IN \/ OnConnected(s, rest) \/ OnPortOpenResult(s, rest) \/ OnSerialError(s, rest)
          \/ OnData(s, rest) \/ OnClose(s, rest)
    /\ UNCHANGED <<running, worker, reconnects, plugged, ports, mixed, events>>

-----------------------------------------------------------------------------
(* The worker threads. *)

\* The operating system gives a device to one port at a time.
CanOpen(d, p) == d \in plugged /\ \A w \in Workers, t \in Types :
                    ~(p[w][t].open /\ p[w][t].dev = d)

\* An open port of the same type is closed first; only then is the other tried.
OpenPort(p, w, t, d) ==
    LET freed == [p EXCEPT ![w][t] = IF @.open THEN [@ EXCEPT !.dev = None, !.open = FALSE]
                                               ELSE @]
        opened == CanOpen(d, freed)
    IN [ok |-> opened,
        p  |-> [freed EXCEPT ![w][t] = [@ EXCEPT !.dev = IF opened THEN d ELSE None,
                                                 !.open = opened]]]

\* If it fails the pointer is null, and the flag and the name stay as they were.
OpenLegacy(p, w, t, d) ==
    LET try == OpenPort(p, w, t, d)
    IN IF try.ok
       THEN [p |-> [try.p EXCEPT ![w][t] = [@ EXCEPT !.flag = TRUE, !.name = d]],
             signals |-> <<Connected(t, TRUE), Result(t, TRUE)>>]
       ELSE [p |-> try.p, signals |-> <<Result(t, FALSE)>>]

CloseLegacy(p, w, t) ==
    [p |-> [p EXCEPT ![w][t] = [NoPort EXCEPT !.rest = p[w][t].rest]],
     signals |-> <<Connected(t, FALSE)>>]

\* A dynamic port that is there is closed as a whole, and said to be closed.
CloseDynamic(p, w, t) ==
    [p |-> [p EXCEPT ![w][t] = NoPort], signals |-> <<Connected(t, FALSE)>>]

\* slip: the flag survives an open that fails, as that of a legacy port does
OpenDynamicStaleFlag(p, w, t, d) ==
    LET freed == [p EXCEPT ![w][t] = [@ EXCEPT !.dev = None, !.open = FALSE]]
    IN IF CanOpen(d, freed)
       THEN [p |-> [freed EXCEPT ![w][t] = [NoPort EXCEPT !.dev = d, !.open = TRUE,
                                                          !.flag = TRUE, !.name = d]],
             signals |-> <<Connected(t, TRUE), Result(t, TRUE)>>]
       ELSE [p |-> freed, signals |-> <<Result(t, FALSE)>>]

OpenDynamic(p, w, t, d) ==
    LET freed == IF p[w][t].dev = None THEN [p |-> p, signals |-> <<>>] ELSE CloseDynamic(p, w, t)
    IN IF CanOpen(d, freed.p)
       THEN [p |-> [freed.p EXCEPT ![w][t] = [NoPort EXCEPT !.dev = d, !.open = TRUE,
                                                            !.flag = TRUE, !.name = d]],
             signals |-> freed.signals \o <<Connected(t, TRUE), Result(t, TRUE)>>]
       ELSE [p |-> freed.p, signals |-> Append(freed.signals, Result(t, FALSE))]

Done(p, w, c) ==
    CASE c.do = "open" /\ c.type \in Legacy     -> OpenLegacy(p, w, c.type, c.dev)
      [] c.do = "open" /\ c.type \notin Legacy  -> OpenDynamic(p, w, c.type, c.dev)
      [] c.do = "close" /\ c.type \in Legacy    -> CloseLegacy(p, w, c.type)
      [] c.do = "close" /\ c.type \notin Legacy -> CloseDynamic(p, w, c.type)

WorkerStep(w) ==
    /\ toWorker[w] # <<>>
    /\ LET done == Done(ports, w, Head(toWorker[w]))
       IN ports' = done.p /\ toMain' = toMain \o done.signals
    /\ toWorker' = [toWorker EXCEPT ![w] = Tail(@)]
    /\ UNCHANGED <<running, worker, reconnects, settings, plugged, connected,
                   portConnected, mixed, events>>

\* The device was pulled out: ResourceError.  The port object stays, closed.
ErrorLegacy(w, t) ==
    [p |-> [ports EXCEPT ![w][t] = [@ EXCEPT !.open = FALSE, !.flag = FALSE]],
     signals |-> <<[of |-> "error", type |-> t], Connected(t, FALSE)>>]

ErrorDynamic(w, t) ==
    LET closed == CloseDynamic(ports, w, t)
    IN [closed EXCEPT !.signals = <<[of |-> "error", type |-> t]>> \o @]

HandleSerialError(w, t) ==
    /\ ports[w][t].open /\ ports[w][t].dev \notin plugged
    /\ LET done == IF t \in Legacy THEN ErrorLegacy(w, t) ELSE ErrorDynamic(w, t)
       IN ports' = done.p /\ toMain' = toMain \o done.signals
    /\ UNCHANGED <<running, worker, reconnects, settings, plugged, toWorker, connected,
                   portConnected, mixed, events>>

\* The buffer after the bytes of a device: what is not a whole frame waits in it,
\* and that of a legacy port outlives the port.
Buffered(p, complete) ==
    IF complete THEN None ELSE IF p.rest = None THEN p.dev ELSE p.rest

\* What the GPS port sends is not connected to the service.
DataReady(w, t, complete) ==
    LET p == ports[w][t]
    IN /\ p.open /\ p.dev \in plugged /\ Event
       /\ ports' = [ports EXCEPT ![w][t].rest = Buffered(p, complete)]
       /\ toMain' = IF complete /\ t # "GPS"
                    THEN Append(toMain, [of |-> "data", type |-> t, dev |-> p.dev]) ELSE toMain
       /\ mixed' = IF complete /\ p.rest \notin {None, p.dev} THEN mixed \cup {t} ELSE mixed
       /\ UNCHANGED <<running, worker, reconnects, settings, plugged, toWorker,
                      connected, portConnected>>

Unplug(d) ==
    /\ d \in plugged /\ Event
    /\ plugged' = plugged \ {d}
    /\ UNCHANGED <<running, worker, reconnects, settings, ports, toWorker, toMain,
                   connected, portConnected, mixed>>

PlugIn(d) ==
    /\ d \notin plugged /\ Event
    /\ plugged' = plugged \cup {d}
    /\ UNCHANGED <<running, worker, reconnects, settings, ports, toWorker, toMain,
                   connected, portConnected, mixed>>

SerialNext ==
    \/ StartSerial \/ StopSerial \/ Reconnect \/ MainStep
    \/ \E t \in Types : CloseSerialPort(t) \/ \E d \in Devices : OpenSerialPort(t, d)
    \/ \E w \in Workers : WorkerStep(w)
    \/ \E w \in Workers, t \in Types :
          HandleSerialError(w, t) \/ \E c \in BOOLEAN : DataReady(w, t, c)
    \/ \E d \in Devices : Unplug(d) \/ PlugIn(d)

SerialSpec == SerialInit /\ [][SerialNext]_serialVars

-----------------------------------------------------------------------------
(* Properties. *)

SerialTypeOK ==
    /\ running \in BOOLEAN /\ worker \in 0..MaxWorkers /\ reconnects \in 0..MaxWorkers
    /\ settings \in [Types -> Name] /\ plugged \subseteq Devices
    /\ ports \in [Workers -> [Types -> Port]]
    /\ toWorker \in [Workers -> Seq(Call)]
    /\ toMain \in Seq(Signal)
    /\ connected \in [Types -> BOOLEAN] /\ portConnected \in BOOLEAN
    /\ mixed \subseteq Types /\ events \in 0..MaxEvents

SerialQuiet == toMain = <<>> /\ (\A w \in Workers : toWorker[w] = <<>>)

\* The button of a port that is open offers to close it: once every queued call
\* and signal has been handled, a port that is open is shown as connected and its
\* device is the configured one, in whatever order it was opened, closed, closed
\* for the wrong module on it and reopened.  True of the first worker only; with
\* two of them the signals of the older overwrite those of the newer.  The
\* blockage port is never shown.
OpenPortIsShown ==
    SerialQuiet /\ worker = 1 => \A t \in Types \ {"Blockage"} :
        ports[1][t].open => /\ (IF t = "GPS" THEN portConnected ELSE connected[t])
                            /\ settings[t] = ports[1][t].dev

\* What the worker says of a dynamic port is true at every moment, also after an
\* open that failed, an unplugged device and a reopening: it is flagged as
\* connected, and has a name, exactly while it is open, and no frame is put
\* together from the bytes of two devices.  (The three legacy ports keep the flag
\* when reopening fails, and keep what they have read of a frame.)
DynamicPortsTellTheTruth ==
    /\ \A w \in Workers, t \in Types \ Legacy :
          LET p == ports[w][t]
          IN p.flag = p.open /\ (p.name # None) = p.open /\ p.name = p.dev
    /\ mixed \subseteq Legacy

\* Does not hold.  "Stop AgIOService - disable all communication workers": once AgIO has been
\* switched off and all queues are empty no serial port is held.
StoppedHoldsNoPort ==
    ~running /\ SerialQuiet /\ reconnects = 0 =>
        \A w \in Workers, t \in Types : ~ports[w][t].open
=============================================================================
