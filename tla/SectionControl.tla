--------------------------- MODULE SectionControl ---------------------------
(***************************************************************************)
(* Section control of FormGPS: the section buttons and the two master      *)
(* buttons, the per-section requests, delays and mapping flags that        *)
(* processSectionLookahead computes each GPS frame, and the section bits   *)
(* that go out to the machine module.                                      *)
(*                                                                         *)
(* A frame takes three steps on two threads.  A GPS fix (main thread)      *)
(* hands the painting of the look-ahead buffer to a pool thread; the pool  *)
(* thread posts the rest of the frame back to the main thread's event      *)
(* queue; the main thread runs it later, with whatever the buttons and the *)
(* job have become since.                                                  *)
(***************************************************************************)
EXTENDS Tool, FiniteSets

CONSTANTS
    OffDelay,       \* (int)(gpsHz / 2 * turnOffDelay): frames a valve stays open
    MapOnDelay,     \* (int)(lookAheadOnSetting * (gpsHz / 2) - 1)
    MapOffDelay,    \* the start value of mappingOffTimer, whichever branch sets it
    MaxQueued       \* bound: frames painted and not yet processed

ASSUME DelayAssumption ==
    /\ OffDelay \in Nat
    /\ MapOnDelay \in Nat
    /\ MapOffDelay \in Nat
ASSUME QueueAssumption == MaxQueued \in Nat \ {0}

VARIABLES
    isJobStarted,        \* a field is open
    autoBtnState,        \* master Auto button: "Off" or "Auto"
    manualBtnState,      \* master Manual button: "Off" or "On"
    sectionButtonState,  \* [Sections -> btnStates]
    section,             \* [Sections -> CSection]
    painting,            \* a pool thread paints the back buffer
    queued,              \* frames posted to the main thread, not yet run
    pgn,                 \* sections whose bit is set in PGN 254, 239 and 229
    sent                 \* the bits the modules received last

buttonVars == <<autoBtnState, manualBtnState, sectionButtonState>>
frameVars == <<painting, queued>>
vars == <<isJobStarted, buttonVars, section, frameVars, pgn, sent>>

btnStates == {"Off", "Auto", "On"}

(* What the look-ahead finds for a section set to Auto: the ground ahead is   *)
(* not yet covered; it is covered, or the section looks into the headland; the *)
(* section is out of the boundary; the section is too slow or moves backwards. *)
Ground == {"uncovered", "covered", "outside", "slow"}

CSection == [isSectionOn : BOOLEAN,
             sectionOnRequest : BOOLEAN,
             sectionOffRequest : BOOLEAN,
             sectionOffTimer : Nat,
             isMappingOn : BOOLEAN,
             mappingOnTimer : Nat,
             mappingOffTimer : Nat]

NewSection == [isSectionOn |-> FALSE,
               sectionOnRequest |-> FALSE,
               sectionOffRequest |-> FALSE,
               sectionOffTimer |-> 0,
               isMappingOn |-> FALSE,
               mappingOnTimer |-> 0,
               mappingOffTimer |-> 0]

Init ==
    /\ isJobStarted = FALSE
    /\ autoBtnState = "Off"
    /\ manualBtnState = "Off"
    /\ sectionButtonState = [j \in Sections |-> "Off"]
    /\ section = [j \in Sections |-> NewSection]
    /\ painting = FALSE
    /\ queued = 0
    /\ pgn = {}
    /\ sent = {}

----------------------------------------------------------------------------
(* The buttons.  Every write of the button array goes through               *)
(* setSectionButtonState, which also sets the valve and the requests of     *)
(* every section, whether its own button changed or not.                    *)

CommandOf(s, button) ==
    [s EXCEPT !.isSectionOn = button # "Off",
              !.sectionOnRequest = button # "Off",
              !.sectionOffRequest = button = "Off"]

SetSectionButtonState(buttons) ==
    /\ sectionButtonState' = buttons
    /\ section' = [j \in Sections |-> CommandOf(section[j], buttons[j])]

SetAllSectionsToState(state) ==
    SetSectionButtonState([j \in Sections |-> state])

NextState(button) ==
    CASE button = "Off" -> "Auto"
      [] button = "Auto" -> "On"
      [] button = "On" -> "Off"

(* The buttons are on screen while a field is open. *)
ClickSection(j) ==
    /\ isJobStarted
    /\ SetSectionButtonState([sectionButtonState EXCEPT ![j] = NextState(@)])
    /\ UNCHANGED <<isJobStarted, autoBtnState, manualBtnState, frameVars, pgn, sent>>

(* Checking a master button unchecks the other one, whose handler turns all *)
(* sections off before this one's turns them on.                            *)
ManualOn ==
    /\ isJobStarted
    /\ manualBtnState = "Off"
    /\ manualBtnState' = "On"
    /\ autoBtnState' = "Off"
    /\ SetAllSectionsToState("On")
    /\ UNCHANGED <<isJobStarted, frameVars, pgn, sent>>

ManualOff ==
    /\ isJobStarted
    /\ manualBtnState = "On"
    /\ manualBtnState' = "Off"
    /\ SetAllSectionsToState("Off")
    /\ UNCHANGED <<isJobStarted, autoBtnState, frameVars, pgn, sent>>

AutoOn ==
    /\ isJobStarted
    /\ autoBtnState = "Off"
    /\ autoBtnState' = "Auto"
    /\ manualBtnState' = "Off"
    /\ SetAllSectionsToState("Auto")
    /\ UNCHANGED <<isJobStarted, frameVars, pgn, sent>>

AutoOff ==
    /\ isJobStarted
    /\ autoBtnState = "Auto"
    /\ autoBtnState' = "Off"
    /\ SetAllSectionsToState("Off")
    /\ UNCHANGED <<isJobStarted, manualBtnState, frameVars, pgn, sent>>

----------------------------------------------------------------------------
(* Opening and closing a field.                                             *)

(* FileSaveEverythingBeforeClosingField clears the off requests, and        *)
(* JobClose then takes isJobStarted down before it puts the master buttons  *)
(* off.  A master button that was on unchecks on screen, and its handler    *)
(* turns all sections off; sections switched one by one keep their buttons, *)
(* their valves and their requests.                                         *)
AfterClose(s) ==
    IF autoBtnState = "Auto" \/ manualBtnState = "On"
    THEN CommandOf(s, "Off")
    ELSE [s EXCEPT !.sectionOffRequest = FALSE]

ButtonsAfterClose ==
    IF autoBtnState = "Auto" \/ manualBtnState = "On"
    THEN [j \in Sections |-> "Off"]
    ELSE sectionButtonState

JobClose ==
    /\ isJobStarted
    /\ autoBtnState' = "Off"
    /\ manualBtnState' = "Off"
    /\ sectionButtonState' = ButtonsAfterClose
    /\ section' = [j \in Sections |-> AfterClose(section[j])]
    /\ UNCHANGED <<frameVars, pgn, sent>>

(* field_close, a GPS jump, a switch between simulator and real GPS, or     *)
(* field_open of a field that cannot be read.                               *)
CloseField == JobClose /\ isJobStarted' = FALSE

(* field_open while a field is open: it closes the old one and opens the    *)
(* new one in the same handler.                                             *)
SwitchField == JobClose /\ isJobStarted' = TRUE

(* JobNew: the master buttons are off already. *)
OpenField ==
    /\ ~isJobStarted
    /\ isJobStarted' = TRUE
    /\ UNCHANGED <<buttonVars, section, frameVars, pgn, sent>>

----------------------------------------------------------------------------
(* One frame of section control. *)

(* A slip: leaving the boundary leaves the turn-off delay running. *)
RequestsKeepingDelay(s, button, ground) ==
    LET on == \/ button = "On"
              \/ button = "Auto" /\ ground = "uncovered"
    IN  [s EXCEPT !.sectionOnRequest = on, !.sectionOffRequest = ~on]

(* A slip: too slow or moving backwards beats a button set to On. *)
RequestsWithoutManual(s, button, ground) ==
    LET on == button # "Off" /\ ground # "slow"
    IN  [s EXCEPT !.sectionOnRequest = on,
                  !.sectionOffRequest = ~on,
                  !.sectionOffTimer = IF ground = "outside" THEN 0 ELSE @]

(* The requests: a button set to On beats everything, and leaving the       *)
(* boundary also cuts the turn-off delay short.                             *)
Requests(s, button, ground) ==
    LET on == \/ button = "On"
              \/ button = "Auto" /\ ground = "uncovered"
        out == button = "Auto" /\ ground = "outside"
    IN  [s EXCEPT !.sectionOnRequest = on,
                  !.sectionOffRequest = ~on,
                  !.sectionOffTimer = IF out THEN 0 ELSE @]

(* A slip: the timer is counted down without looking whether it has run out. *)
ValveUnguarded(s) ==
    LET timer == (IF s.sectionOffRequest THEN s.sectionOffTimer ELSE OffDelay) - 1
    IN  [s EXCEPT !.isSectionOn = \/ s.sectionOnRequest
                                  \/ @ /\ ~(s.sectionOffRequest /\ timer = 0),
                  !.sectionOffTimer = timer]

(* A slip: the timer is tested before it is counted down. *)
ValveTestedFirst(s) ==
    LET armed == IF s.sectionOffRequest THEN s.sectionOffTimer ELSE OffDelay
    IN  [s EXCEPT !.isSectionOn = \/ s.sectionOnRequest
                                  \/ @ /\ ~(s.sectionOffRequest /\ armed = 0),
                  !.sectionOffTimer = IF armed > 0 THEN armed - 1 ELSE 0]

(* A slip: the valve is open as long as its timer runs. *)
ValveFollowsTimer(s) ==
    LET armed == IF s.sectionOffRequest THEN s.sectionOffTimer ELSE OffDelay
        timer == IF armed > 0 THEN armed - 1 ELSE 0
    IN  [s EXCEPT !.isSectionOn = s.sectionOnRequest \/ timer > 0,
                  !.sectionOffTimer = timer]

(* The valve: open on request, closed when the turn-off delay has run out. *)
Valve(s) ==
    LET armed == IF s.sectionOffRequest THEN s.sectionOffTimer ELSE OffDelay
        timer == IF armed > 0 THEN armed - 1 ELSE 0
    IN  [s EXCEPT !.isSectionOn = \/ s.sectionOnRequest
                                  \/ @ /\ ~(s.sectionOffRequest /\ timer = 0),
                  !.sectionOffTimer = timer]

(* Start the mapping timers. *)
StartMapTimers(s) ==
    LET restart == s.sectionOnRequest /\ s.isMappingOn /\ s.mappingOffTimer > 1
        startOn == s.sectionOnRequest /\ ~s.isMappingOn /\ s.mappingOnTimer = 0
        startOff == s.sectionOffRequest /\ s.isMappingOn /\ s.mappingOffTimer = 0
    IN  [s EXCEPT !.mappingOnTimer = IF startOn \/ restart THEN MapOnDelay ELSE @,
                  !.mappingOffTimer = IF restart THEN 0
                                      ELSE IF startOff THEN MapOffDelay ELSE @]

(* A slip: a new request to work leaves the off timer where it was. *)
RunMapTimersKeepingOff(s) ==
    CASE s.sectionOnRequest ->
            [s EXCEPT !.mappingOnTimer = IF @ > 1 THEN @ - 1 ELSE @,
                      !.isMappingOn = @ \/ s.mappingOnTimer <= 1]
      [] s.sectionOffRequest ->
            [s EXCEPT !.mappingOnTimer = 0,
                      !.mappingOffTimer = IF @ > 1 THEN @ - 1 ELSE @,
                      !.isMappingOn = @ /\ s.mappingOffTimer > 1]

(* A slip: the flag waits for a timer of 0, and the timer stops at 1. *)
RunMapTimersToZero(s) ==
    CASE s.sectionOnRequest ->
            [s EXCEPT !.mappingOffTimer = 0,
                      !.mappingOnTimer = IF @ > 1 THEN @ - 1 ELSE @,
                      !.isMappingOn = @ \/ s.mappingOnTimer <= 1]
      [] s.sectionOffRequest ->
            [s EXCEPT !.mappingOnTimer = 0,
                      !.mappingOffTimer = IF @ > 1 THEN @ - 1 ELSE @,
                      !.isMappingOn = @ /\ s.mappingOffTimer > 0]

(* Run the mapping timers; the flag flips when its timer has come down to 1. *)
RunMapTimers(s) ==
    CASE s.sectionOnRequest ->
            [s EXCEPT !.mappingOffTimer = 0,
                      !.mappingOnTimer = IF @ > 1 THEN @ - 1 ELSE @,
                      !.isMappingOn = @ \/ s.mappingOnTimer <= 1]
      [] s.sectionOffRequest ->
            [s EXCEPT !.mappingOnTimer = 0,
                      !.mappingOffTimer = IF @ > 1 THEN @ - 1 ELSE @,
                      !.isMappingOn = @ /\ s.mappingOffTimer > 1]

SectionStep(s, button, ground) ==
    RunMapTimers(StartMapTimers(Valve(Requests(s, button, ground))))

MappingSections(secs) == {j \in Sections : secs[j].isMappingOn}

(* BuildMachineByte *)
BuildMachineByte(secs) == {j \in Sections : secs[j].isSectionOn}

(* A GPS fix: PGN 254 goes out with the bits of the last frame, and with a  *)
(* field open a new frame starts; it is dropped if the painter is busy.     *)
UpdateFixPosition ==
    /\ sent' = pgn
    /\ painting' = (painting \/ isJobStarted)
    /\ UNCHANGED <<isJobStarted, buttonVars, section, queued, pgn>>

(* The pool thread has painted the buffer and posts the rest of the frame. *)
PaintDone ==
    /\ painting
    /\ queued < MaxQueued
    /\ painting' = FALSE
    /\ queued' = queued + 1
    /\ UNCHANGED <<isJobStarted, buttonVars, section, pgn, sent>>

(* The posted part of the frame runs, whether or not a field is still open; *)
(* only the sending of PGN 239 and 229 asks for one.                        *)
ProcessFrame(ground) ==
    /\ queued > 0
    /\ queued' = queued - 1
    /\ section' = [j \in Sections |->
                      SectionStep(section[j], sectionButtonState[j], ground[j])]
    /\ pgn' = BuildMachineByte(section')
    /\ sent' = IF isJobStarted THEN pgn' ELSE sent
    /\ UNCHANGED <<isJobStarted, buttonVars, painting>>

ProcessSectionLookahead ==
    \E ground \in [Sections -> Ground] : ProcessFrame(ground)

----------------------------------------------------------------------------
Operator ==
    \/ \E j \in Sections : ClickSection(j)
    \/ ManualOn
    \/ ManualOff
    \/ AutoOn
    \/ AutoOff
    \/ OpenField
    \/ SwitchField
    \/ CloseField

Frame == UpdateFixPosition \/ PaintDone \/ ProcessSectionLookahead

Next == Operator \/ Frame

Spec == Init /\ [][Next]_vars

(* GPS fixes keep coming (timerGPS), the pool runs what it was given, and   *)
(* the main thread's event loop runs what was posted to it.                 *)
Fairness ==
    /\ WF_vars(UpdateFixPosition)
    /\ WF_vars(PaintDone)
    /\ WF_vars(ProcessSectionLookahead)

FairSpec == Spec /\ Fairness
----------------------------------------------------------------------------
(* Properties *)

(* Every variable stays in its range; the timers never leave the range      *)
(* their settings give them.                                                *)
TypeOK ==
    /\ isJobStarted \in BOOLEAN
    /\ autoBtnState \in {"Off", "Auto"}
    /\ manualBtnState \in {"Off", "On"}
    /\ sectionButtonState \in [Sections -> btnStates]
    /\ section \in [Sections -> CSection]
    /\ \A j \in Sections :
          /\ section[j].sectionOffTimer <= OffDelay
          /\ section[j].mappingOnTimer <= MapOnDelay
          /\ section[j].mappingOffTimer <= MapOffDelay
    /\ painting \in BOOLEAN
    /\ queued \in 0 .. MaxQueued
    /\ pgn \in SUBSET Sections
    /\ sent \in SUBSET Sections

(* A section that is told to stop and whose valve is still open has its     *)
(* turn-off delay running, so the valve does close: there is no way to be   *)
(* open, told to stop and not counting.                                     *)
OpenValveIsCounting ==
    \A j \in Sections :
        section[j].isSectionOn /\ section[j].sectionOffRequest
            => section[j].sectionOffTimer > 0

(* No section is asked to work and to stop at once, and it is never both    *)
(* counting towards the start and counting towards the end of its mapping:  *)
(* two timers running would make the flag depend on which ends last.        *)
OneDirectionAtATime ==
    \A j \in Sections :
        /\ ~(section[j].sectionOnRequest /\ section[j].sectionOffRequest)
        /\ section[j].mappingOnTimer = 0 \/ section[j].mappingOffTimer = 0

(* What a section is asked to do it is doing or on its way to: the two       *)
(* together.                                                                 *)
RequestsAreObeyed == OpenValveIsCounting /\ OneDirectionAtATime

(* A section that controls itself and leaves the boundary is shut by the     *)
(* very next frame, whatever is left of its turn-off delay.                  *)
OutsideStopsAtOnce ==
    \A j \in Sections :
        sectionButtonState[j] = "Auto"
            => ~SectionStep(section[j], "Auto", "outside").isSectionOn

(* Seen from outside, every section keeps the promise of SectionSwitch: the *)
(* valve opens whenever work is asked for, and neither the valve nor the    *)
(* recording starts while the section is asked to stop.                     *)
Switch(j) == INSTANCE SectionSwitch
    WITH wanted <- section[j].sectionOnRequest,
         valve <- section[j].isSectionOn,
         recording <- section[j].isMappingOn

SectionsAreSwitches ==
    /\ \A j \in Sections : Switch(j)!Init
    /\ [][\A j \in Sections : [Switch(j)!Next]_(Switch(j)!vars)]_vars

(* A section whose button stays Off in an open field is in the end off at   *)
(* the machine module and no longer recorded, whatever the other buttons do. *)
StopsWhenOff ==
    \A j \in Sections :
        <>[](isJobStarted /\ sectionButtonState[j] = "Off")
            => <>[](j \notin sent /\ ~section[j].isMappingOn)

(* A section whose button stays On in an open field is in the end on at the *)
(* machine module, and what it covers is recorded.                          *)
WorksWhenOn ==
    \A j \in Sections :
        <>[](isJobStarted /\ sectionButtonState[j] = "On")
            => <>[](j \in sent /\ section[j].isMappingOn)

(* Does not hold.                                                            *)
(* "//turn off all the sections" (formgps.cpp:1338): when the field stays    *)
(* closed, the machine module is in the end told to shut every section.  The *)
(* bits it gets with every fix are those of the last frame, and no frame     *)
(* runs without a field.                                                     *)
ClosedFieldShutsMachine == <>[](~isJobStarted) => <>[](sent = {})
=============================================================================
