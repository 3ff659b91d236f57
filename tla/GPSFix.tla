------------------------------- MODULE GPSFix -------------------------------
(***************************************************************************)
(* From the receiver's sentences to the tractor's position.  A handler     *)
(* keeps the last position a sentence gave, a timer works with it ten      *)
(* times a second, and the simulator does both at once.  Positions become  *)
(* metres from the reference point latStart, lonStart, and so does all     *)
(* that a field holds; the reference changes with the first position, with *)
(* the field, with the mode and with a jump.                               *)
(* Places are kilometres along a line, 0 is no position.  What corrections *)
(* amount to and how a heading is computed is left out: a fix has the      *)
(* number of times it was corrected for antenna offset and roll, and the   *)
(* points of a heading are where they were taken.                          *)
(***************************************************************************)
EXTENDS Sentences, Sequences, SequencesExt, FiniteSetsExt, TLC

CONSTANTS
    GPSPlaces,     \* where the tractor is
    SimStart,      \* where the simulator starts
    OldField, OldStart,  \* a field that was saved earlier, and its StartFix
    NewField,
    Sources,       \* settings of headingFromSource: "Fix", "VTG", "Dual"
    StartFrames,   \* 20 in InitializeFirstFewGPSPositions
    SimPlaces,     \* bound: where the simulator drives
    MaxSwitches,   \* bound: how often the user switches the simulator
    MaxVisits      \* bound: how often he opens or creates a field

ASSUME PlacesAssumption ==
    /\ GPSPlaces \subseteq Nat \ {0}
    /\ {SimStart, OldStart, StartFrames} \subseteq Nat \ {0}
    /\ {0, SimStart, OldStart} \cup GPSPlaces \subseteq SimPlaces
    /\ SimPlaces \subseteq Nat
    /\ {MaxSwitches, MaxVisits} \subseteq Nat
ASSUME FieldsAssumption == OldField # NewField
ASSUME SourcesAssumption == Sources \subseteq {"Fix", "VTG", "Dual"}

Fields == {OldField, NewField}
NoField == "none"

Place(source, km) == [source |-> source, km |-> km]
Nowhere == Place("none", 0)

(* What the receiver sends where the tractor is. *)
Received == AllParsed(GPSPlaces)

VARIABLES
    simulatorOn,       \* menu_isSimulatorOn, the user's setting
    wasSimulatorOn,    \* what the watchdog saw last
    timerSim,          \* timerSim.isActive()
    sim,               \* sim.latitude, sim.longitude
    gps,               \* FormGPS's members on the position, see Start
    isJobStarted,      \* the open field, or NoField
    startFix,          \* the StartFix of each Field.txt
    contents,          \* what each field's contents are relative to
    switches, visits   \* for the bounds

fixVars == <<simulatorOn, wasSimulatorOn, timerSim, sim, gps, isJobStarted, startFix,
             contents, switches, visits>>

setup == <<simulatorOn, wasSimulatorOn, timerSim, switches>>
field == <<isJobStarted, startFix, contents, visits>>

Start(source, place) ==
    [latlon |-> place,               \* pn.latitude, pn.longitude
     start |-> place.km,             \* latStart, lonStart
     fix |-> Nowhere, corrections |-> 0,    \* pn.fix
     raw |-> Nowhere,                \* m_rawGpsPosition
     vtgSpeed |-> FALSE, avgSpeed |-> FALSE,  \* whether 1.5 km/h or more
     lastKnown |-> 0,                \* m_lastKnownLatitude
     force |-> FALSE,                \* m_forceGPSReinitialization
     startCounter |-> 0,
     isFirstFixPositionSet |-> FALSE, isGPSPositionInitialized |-> FALSE,
     isFirstHeadingSet |-> FALSE,
     stepFixPts |-> <<>>,            \* those that are set, the latest first
     corrected |-> 0,                \* corrections of the fix of the last frame
     headingFromSource |-> source]

FixInit ==
    /\ simulatorOn \in BOOLEAN
    /\ wasSimulatorOn = simulatorOn
    /\ timerSim = simulatorOn
    /\ sim = SimStart
    /\ \E source \in Sources :
          gps = Start(source, IF simulatorOn THEN Place("sim", SimStart) ELSE Nowhere)
    /\ isJobStarted = NoField
    /\ startFix = [f \in {OldField} |-> OldStart]
    /\ contents = [f \in Fields |-> IF f = OldField THEN {OldStart} ELSE {}]
    /\ switches = 0 /\ visits = 0

----------------------------------------------------------------------------
(* A frame. *)

(* Before the first fixes: the reference is taken from a position unless a  *)
(* field has one.                                                           *)
InitializeFirstFewGPSPositions(g) ==
    IF g.isFirstFixPositionSet
    THEN [g EXCEPT !.isGPSPositionInitialized = g.startCounter > StartFrames]
    ELSE LET referred == [g EXCEPT !.start = g.latlon.km, !.force = FALSE]
             placed(h) == [h EXCEPT !.fix = g.latlon, !.corrections = 0,
                                    !.isFirstFixPositionSet = TRUE]
         IN  IF isJobStarted # NoField /\ ~g.force THEN placed(g)
             ELSE IF g.latlon.km = 0 THEN g
             ELSE placed(referred)

(* The tractor, the tool and the sections go to where the fix is. *)
TheRest(g) == [g EXCEPT !.corrected = g.corrections]

Corrected(g) == [g EXCEPT !.corrections = Min({@ + 1, 2})]

Push(points, place) == SubSeq(<<place>> \o points, 1, Min({Len(points) + 1, 3}))

(* The first heading takes three points. *)
FirstHeading(g) ==
    LET points == Push(g.stepFixPts, g.fix)
        pushed == [g EXCEPT !.stepFixPts = points]
    IN  IF Len(points) < 3 THEN pushed
        ELSE Corrected([pushed EXCEPT !.isFirstHeadingSet = TRUE])

(* A point is kept when the fix has moved and the direction is not changing. *)
KeepPoint(g, hasMoved) == IF hasMoved THEN [g EXCEPT !.stepFixPts = Push(@, g.raw)] ELSE g

(* Mutant: a frame goes on from the fix of the frame before. *)
FixHeadingGoesOn(g, hasMoved) ==
    IF ~g.isFirstHeadingSet /\ ~g.avgSpeed THEN TheRest(g)
    ELSE IF ~g.isFirstHeadingSet /\ Len(g.stepFixPts) < 3 THEN FirstHeading(g)
    ELSE TheRest(KeepPoint(Corrected(g), hasMoved))

(* The heading from the last fixes: the first one at more than 1.5 km/h;    *)
(* then the fix is corrected anew in every frame.                           *)
FixHeading(g, hasMoved) ==
    IF ~g.isFirstHeadingSet /\ ~g.avgSpeed THEN TheRest(g)
    ELSE IF ~g.isFirstHeadingSet /\ Len(g.stepFixPts) < 3 THEN FirstHeading(g)
    ELSE TheRest(KeepPoint(Corrected([g EXCEPT !.fix = g.raw, !.corrections = 0]), hasMoved))

(* The heading from the receiver. *)
ReceiverHeading(g) == TheRest(Corrected([g EXCEPT !.isFirstHeadingSet = TRUE]))

(* Mutant: the frames are counted from the first fix on. *)
UpdateCountsLater(g, avgSpeed, hasMoved) ==
    LET moving == [g EXCEPT !.avgSpeed = avgSpeed,
                            !.startCounter = Min({@ + 1, StartFrames + 1})]
    IN  IF ~g.isGPSPositionInitialized THEN InitializeFirstFewGPSPositions(g)
        ELSE IF g.headingFromSource = "Fix" THEN FixHeading(moving, hasMoved)
        ELSE ReceiverHeading(moving)

(* The average follows the speed with a delay. *)
UpdateFixPosition(g, avgSpeed, hasMoved) ==
    LET counted == [g EXCEPT !.startCounter = Min({@ + 1, StartFrames + 1})]
        moving == [counted EXCEPT !.avgSpeed = avgSpeed]
    IN  IF ~g.isGPSPositionInitialized THEN InitializeFirstFewGPSPositions(counted)
        ELSE IF g.headingFromSource = "Fix" THEN FixHeading(moving, hasMoved)
        ELSE ReceiverHeading(moving)

(* What is written of a field while frames go on is relative to the         *)
(* reference.                                                               *)
Recorded(g) ==
    IF isJobStarted # NoField /\ g.isGPSPositionInitialized
    THEN [contents EXCEPT ![isJobStarted] = @ \cup {g.start}]
    ELSE contents

(* onGPSTimerTimeout *)
OnGPSTimerTimeout ==
    /\ ~simulatorOn
    /\ \E avgSpeed \in {gps.avgSpeed, gps.vtgSpeed}, hasMoved \in BOOLEAN :
          gps' = UpdateFixPosition(gps, avgSpeed, hasMoved)
    /\ contents' = Recorded(gps)
    /\ UNCHANGED <<setup, sim, isJobStarted, startFix, visits>>

(* onNmeaDataReady: a position counts when it comes with a quality and      *)
(* satellites; the speed is that of the sentence, whether it has one or not.*)
ValidGpsFix(data) == data.quality /\ data.satellites
OnNmeaDataReady(data) ==
    /\ ~simulatorOn /\ data.isValid
    /\ gps' = IF ~ValidGpsFix(data) \/ data.km = 0 THEN [gps EXCEPT !.vtgSpeed = data.speed]
              ELSE [gps EXCEPT !.vtgSpeed = data.speed, !.latlon = Place("gps", data.km),
                               !.fix = Place("gps", data.km), !.corrections = 0,
                               !.raw = Place("gps", data.km)]
    /\ UNCHANGED <<setup, sim, field>>

----------------------------------------------------------------------------
(* The simulator. *)

Near(a, b) == a <= b + 1 /\ b <= a + 1    \* GPS_JUMP_THRESHOLD_KM

(* detectGPSJump compares with the last position that was a jump. *)
DetectGPSJump(g, km) == g.lastKnown # 0 /\ ~Near(km, g.lastKnown)

(* Mutant: the points of the heading are kept. *)
JumpKeepsPoints(g, km) ==
    [g EXCEPT !.start = km, !.isGPSPositionInitialized = FALSE,
              !.isFirstFixPositionSet = TRUE, !.isFirstHeadingSet = FALSE,
              !.startCounter = 0, !.latlon = Place("sim", km),
              !.fix = Place("sim", km), !.corrections = 0, !.raw = Place("sim", km),
              !.lastKnown = km]

HandleGPSJump(g, km) ==
    [g EXCEPT !.start = km, !.isGPSPositionInitialized = FALSE,
              !.isFirstFixPositionSet = TRUE, !.isFirstHeadingSet = FALSE,
              !.startCounter = 0, !.latlon = Place("sim", km),
              !.fix = Place("sim", km), !.corrections = 0, !.raw = Place("sim", km),
              !.stepFixPts = <<>>, !.lastKnown = km]

(* DoSimTick and onSimNewPosition.  A jump saves the field and closes it. *)
OnSimNewPosition(km, speed) ==
    /\ simulatorOn /\ timerSim
    /\ km \in {sim, sim + 1}
    /\ sim' = km
    /\ LET isJump == DetectGPSJump(gps, km)
           jumped == IF isJump THEN HandleGPSJump(gps, km)
                     ELSE [gps EXCEPT !.lastKnown = IF @ = 0 THEN km ELSE @]
           fixed == [jumped EXCEPT !.vtgSpeed = speed, !.latlon = Place("sim", km),
                                   !.fix = Place("sim", km), !.corrections = 0,
                                   !.raw = Place("sim", km)]
       IN  /\ \E avgSpeed \in {gps.avgSpeed, speed}, hasMoved \in BOOLEAN :
                 gps' = UpdateFixPosition(fixed, avgSpeed, hasMoved)
           /\ isJobStarted' = IF isJump THEN NoField ELSE isJobStarted
           /\ contents' = IF isJump THEN contents ELSE Recorded(gps)
    /\ UNCHANGED <<setup, startFix, visits>>

(* Mutant: the position of the simulator stays. *)
ResetKeepsPosition(g, toSimMode) ==
    [g EXCEPT !.isGPSPositionInitialized = FALSE,
              !.isFirstFixPositionSet = toSimMode,
              !.isFirstHeadingSet = FALSE, !.startCounter = 0,
              !.stepFixPts = <<>>, !.corrections = 0,
              !.lastKnown = IF toSimMode THEN sim ELSE 0, !.force = ~toSimMode]

(* ResetGPSState *)
ResetGPSState(g, toSimMode) ==
    LET reset == [g EXCEPT !.isGPSPositionInitialized = FALSE,
                           !.isFirstFixPositionSet = toSimMode,
                           !.isFirstHeadingSet = FALSE, !.startCounter = 0,
                           !.stepFixPts = <<>>, !.corrections = 0]
    IN  IF toSimMode
        THEN [reset EXCEPT !.latlon = Place("sim", sim), !.start = sim,
                           !.fix = Place("sim", sim), !.raw = Place("sim", sim),
                           !.lastKnown = sim]
        ELSE [reset EXCEPT !.latlon = Nowhere, !.fix = Nowhere, !.raw = Nowhere,
                           !.lastKnown = 0, !.force = TRUE]

(* tmrWatchdog_timeout, every 250 ms: the setting has changed. *)
TmrWatchdog ==
    /\ simulatorOn # wasSimulatorOn
    /\ gps' = ResetGPSState(gps, simulatorOn)
    /\ isJobStarted' = NoField
    /\ wasSimulatorOn' = simulatorOn
    /\ timerSim' = simulatorOn
    /\ UNCHANGED <<simulatorOn, sim, startFix, contents, switches, visits>>

(* The user switches the simulator, not twice within 250 ms. *)
SwitchSimulator ==
    /\ simulatorOn = wasSimulatorOn
    /\ switches < MaxSwitches
    /\ simulatorOn' = ~simulatorOn
    /\ switches' = switches + 1
    /\ UNCHANGED <<wasSimulatorOn, timerSim, sim, gps, field>>

----------------------------------------------------------------------------
(* The buttons and the fields. *)

(* onBtnResetDirection_clicked *)
ResetDirection ==
    /\ gps' = [gps EXCEPT !.stepFixPts = <<>>, !.isFirstHeadingSet = FALSE]
    /\ UNCHANGED <<setup, sim, field>>

Visit(f) ==
    /\ visits < MaxVisits
    /\ visits' = visits + 1
    /\ isJobStarted' = f

(* FileOpenField takes the reference from Field.txt; the simulator goes     *)
(* there.                                                                   *)
Opened(g, f) ==
    [g EXCEPT !.startCounter = 0, !.start = startFix[f],
              !.latlon = IF timerSim THEN Place("sim", startFix[f]) ELSE @]

OpenField(f) ==
    /\ f \in DOMAIN startFix
    /\ Visit(f)
    /\ gps' = Opened(gps, f)
    /\ sim' = IF timerSim THEN startFix[f] ELSE sim
    /\ UNCHANGED <<setup, startFix, contents>>

(* The StartFix of a new Field.txt. *)
SaveStartFix(f, km) ==
    startFix' = [g \in DOMAIN startFix \cup {f} |-> IF g = f THEN km ELSE startFix[g]]

(* field_new: Field.txt and the reference get the position. *)
CreateField(f) ==
    /\ f \notin DOMAIN startFix
    /\ Visit(f)
    /\ gps' = [gps EXCEPT !.startCounter = 0, !.start = gps.latlon.km]
    /\ SaveStartFix(f, gps.latlon.km)
    /\ UNCHANGED <<setup, sim, contents>>

(* field_new_from opens the existing field and gives it a new name:         *)
(* Field.txt gets the position, the reference is the existing field's.      *)
CreateFieldFrom(existing, f) ==
    /\ existing \in DOMAIN startFix
    /\ f \notin DOMAIN startFix
    /\ Visit(f)
    /\ gps' = Opened(gps, existing)
    /\ sim' = IF timerSim THEN startFix[existing] ELSE sim
    /\ SaveStartFix(f, gps'.latlon.km)
    /\ contents' = [contents EXCEPT ![f] = contents[existing]]
    /\ UNCHANGED setup

(* field_close *)
CloseField ==
    /\ isJobStarted # NoField
    /\ isJobStarted' = NoField
    /\ UNCHANGED <<setup, sim, gps, startFix, contents, visits>>

----------------------------------------------------------------------------
FixNext ==
    \/ OnGPSTimerTimeout
    \/ \E data \in Received : OnNmeaDataReady(data)
    \/ \E km \in SimPlaces, speed \in BOOLEAN : OnSimNewPosition(km, speed)
    \/ TmrWatchdog
    \/ SwitchSimulator
    \/ ResetDirection
    \/ \E f \in Fields : OpenField(f) \/ CreateField(f)
    \/ \E existing, f \in Fields : CreateFieldFrom(existing, f)
    \/ CloseField

FixSpec == FixInit /\ [][FixNext]_fixVars

(* The three timers run, and the simulator ticks when it stands still too. *)
FixFairSpec ==
    /\ FixSpec
    /\ WF_fixVars(OnGPSTimerTimeout)
    /\ WF_fixVars(\E speed \in BOOLEAN : OnSimNewPosition(sim, speed))
    /\ WF_fixVars(TmrWatchdog)

----------------------------------------------------------------------------
Places == [source : {"gps", "sim"}, km : SimPlaces] \cup {Nowhere}

(* Every variable stays in its range; a first heading of the fixes rests on *)
(* three points (UpdateFixPosition), a frame needs a first fix              *)
(* (InitializeFirstFewGPSPositions), and the simulator's timer follows the  *)
(* watchdog.                                                                *)
FixTypeOK ==
    /\ {simulatorOn, wasSimulatorOn, timerSim} \subseteq BOOLEAN
    /\ timerSim = wasSimulatorOn
    /\ {sim, gps.start, gps.lastKnown} \subseteq SimPlaces
    /\ {gps.latlon, gps.fix, gps.raw} \subseteq Places
    /\ {gps.corrections, gps.corrected} \subseteq 0 .. 2
    /\ gps.startCounter \in 0 .. StartFrames + 1
    /\ Len(gps.stepFixPts) <= 3 /\ ToSet(gps.stepFixPts) \subseteq Places
    /\ gps.headingFromSource = "Fix" =>
          (gps.isFirstHeadingSet <=> Len(gps.stepFixPts) = 3)
    /\ gps.isGPSPositionInitialized => gps.isFirstFixPositionSet
    /\ isJobStarted \in Fields \cup {NoField}
    /\ isJobStarted # NoField => isJobStarted \in DOMAIN startFix
    /\ DOMAIN startFix \subseteq Fields
    /\ \A f \in Fields : contents[f] \subseteq SimPlaces

(* Once the heading comes from the fixes, every frame works with a fix that *)
(* was corrected once, however many frames come between two sentences and   *)
(* whenever the direction was reset (m_rawGpsPosition in UpdateFixPosition).*)
CorrectedOnce ==
    [][gps.headingFromSource = "Fix" /\ gps.isFirstHeadingSet
            /\ gps'.corrected # gps.corrected => gps'.corrected = 1]_fixVars

(* When the watchdog has seen a switch, neither the position nor a point of *)
(* the heading is one of the other mode's (ResetGPSState).                  *)
OwnPositions ==
    simulatorOn = wasSimulatorOn =>
        \A place \in {gps.latlon, gps.fix, gps.raw} \cup ToSet(gps.stepFixPts) :
            place.source # (IF simulatorOn THEN "gps" ELSE "sim")

(* Once a mode has a position its frames begin, through switches, jumps and *)
(* fields that are opened, unless the user switches again (startCounter,    *)
(* m_forceGPSReinitialization).                                             *)
FramesBegin ==
    (gps.latlon.km # 0 /\ simulatorOn = wasSimulatorOn)
        ~> (gps.isGPSPositionInitialized \/ simulatorOn # wasSimulatorOn)

(* Does not hold.                                                           *)
(* The corrections do not add up when frames come between two sentences:    *)
(* said at formgps_position.cpp:3055.  They do add up when the heading      *)
(* comes from the receiver: a frame goes on from the fix of the one before. *)
CorrectionsDoNotAddUp == gps.corrected <= 1

(* Does not hold.                                                           *)
(* What is in a field is relative to its StartFix: formgps.cpp:731 says     *)
(* that the field's data is tied to the coordinate system.  It is not:      *)
(* after a switch to the receiver the first position becomes the reference  *)
(* though a field has been opened meanwhile, and a field made from another  *)
(* has the position for its StartFix.                                       *)
FieldsKeepTheirPlace ==
    \A f \in DOMAIN startFix : contents[f] \subseteq {startFix[f]}
=============================================================================
