-------------------------- MODULE FieldWork_proofs --------------------------
(***************************************************************************)
(* Section control, the patch strips, and the two together, for any number *)
(* of sections and any delays.                                             *)
(*                                                                         *)
(* 1. Section control: the types, the safety invariants and the promise of *)
(*    SectionSwitch.  They are a matter of one section at a time, so the   *)
(*    work is done in lemmas about the operators on a CSection record; the *)
(*    step proofs then only say which operator each action applies.        *)
(* 2. The zones: the maximal runs of mapping sections, counted from the    *)
(*    left by how many runs start before them, cover the mapping sections  *)
(*    and do not meet.                                                     *)
(* 3. The strips: whatever sets of sections map one after another, the     *)
(*    strips draw the zones, or the sections, of the last one.  A strip    *)
(*    may go on drawing because the strips that draw are always the first  *)
(*    ones, so that as many strips as zones means the strips of the zones. *)
(* 4. The composition is section control with strips beside it and strips  *)
(*    with section control beside them, so that everything proved of each  *)
(*    holds of it, and the strips never lose track of which sections map.  *)
(***************************************************************************)
EXTENDS FieldWork, FiniteSetTheorems, WellFoundedInduction, TLAPS

----------------------------------------------------------------------------
(* 1. Section control *)

(* A section record whose timers are within their settings. *)
IsTimed(s) ==
    /\ s \in CSection
    /\ s.sectionOffTimer <= OffDelay
    /\ s.mappingOnTimer <= MapOnDelay
    /\ s.mappingOffTimer <= MapOffDelay

(* The invariants, for one section. *)
IsCounting(s) == s.isSectionOn /\ s.sectionOffRequest => s.sectionOffTimer > 0

HasOneDirection(s) ==
    /\ ~(s.sectionOnRequest /\ s.sectionOffRequest)
    /\ s.mappingOnTimer = 0 \/ s.mappingOffTimer = 0

----------------------------------------------------------------------------
(* The operators on one section.                                            *)

(* A command of a button keeps the timers and answers to the button.        *)
LEMMA CommandOfFacts ==
    ASSUME NEW s \in CSection, NEW button \in btnStates
    PROVE  /\ IsTimed(s) => IsTimed(CommandOf(s, button))
           /\ IsCounting(CommandOf(s, button))
           /\ HasOneDirection(s) => HasOneDirection(CommandOf(s, button))
BY DEF CSection, IsTimed, IsCounting, HasOneDirection, CommandOf

(* Requests asks for exactly one of work and stop, and leaving the boundary *)
(* leaves no delay.                                                         *)
LEMMA RequestsFacts ==
    ASSUME NEW s, IsTimed(s), NEW button, NEW ground
    PROVE  LET t == Requests(s, button, ground)
           IN  /\ IsTimed(t)
               /\ t.sectionOffRequest <=> ~t.sectionOnRequest
               /\ t.isSectionOn = s.isSectionOn
               /\ t.isMappingOn = s.isMappingOn
               /\ button = "Auto" /\ ground = "outside" =>
                     t.sectionOffRequest /\ t.sectionOffTimer = 0
<1> DEFINE t == Requests(s, button, ground)
<1>1. t \in CSection
  BY DEF CSection, IsTimed, Requests
<1>2. /\ t.sectionOffTimer \in {0, s.sectionOffTimer}
      /\ t.mappingOnTimer = s.mappingOnTimer
      /\ t.mappingOffTimer = s.mappingOffTimer
      /\ t.isSectionOn = s.isSectionOn
      /\ t.isMappingOn = s.isMappingOn
  BY DEF CSection, IsTimed, Requests
<1>3. t.sectionOffRequest <=> ~t.sectionOnRequest
  BY DEF CSection, IsTimed, Requests
<1>4. ASSUME button = "Auto", ground = "outside"
      PROVE  t.sectionOffRequest /\ t.sectionOffTimer = 0
  BY <1>4 DEF CSection, IsTimed, Requests
<1>5. IsTimed(t)
  BY <1>1, <1>2, DelayAssumption DEF IsTimed, CSection
<1> QED
  BY <1>2, <1>3, <1>4, <1>5

(* Valve leaves no valve open that is asked to stop and not counting, opens *)
(* one only on request and closes one that has no delay left.               *)
LEMMA ValveFacts ==
    ASSUME NEW s, IsTimed(s), s.sectionOffRequest <=> ~s.sectionOnRequest
    PROVE  LET t == Valve(s)
           IN  /\ IsTimed(t)
               /\ IsCounting(t)
               /\ t.sectionOnRequest = s.sectionOnRequest
               /\ t.sectionOffRequest = s.sectionOffRequest
               /\ t.isMappingOn = s.isMappingOn
               /\ s.sectionOnRequest => t.isSectionOn
               /\ t.isSectionOn => s.sectionOnRequest \/ s.isSectionOn
               /\ s.sectionOffRequest /\ s.sectionOffTimer = 0 => ~t.isSectionOn
<1> DEFINE armed == IF s.sectionOffRequest THEN s.sectionOffTimer ELSE OffDelay
           timer == IF armed > 0 THEN armed - 1 ELSE 0
           open == \/ s.sectionOnRequest
                   \/ s.isSectionOn /\ ~(s.sectionOffRequest /\ timer = 0)
<1>1. timer \in 0 .. OffDelay
  BY DelayAssumption DEF IsTimed, CSection
<1>2. Valve(s) = [s EXCEPT !.isSectionOn = open, !.sectionOffTimer = timer]
  BY DEF Valve
<1>3. s.sectionOffRequest /\ s.sectionOffTimer = 0 => timer = 0
  OBVIOUS
<1> HIDE DEF timer
<1>4. open \in BOOLEAN
  OBVIOUS
<1>5. open /\ s.sectionOffRequest => timer > 0
  BY <1>1, DelayAssumption
<1>6. /\ s.sectionOnRequest => open
      /\ open => s.sectionOnRequest \/ s.isSectionOn
      /\ s.sectionOffRequest /\ s.sectionOffTimer = 0 => ~open
  BY <1>3
<1> HIDE DEF open
<1>7. s \in CSection /\ timer \in Nat /\ timer <= OffDelay
  BY <1>1, DelayAssumption DEF IsTimed
<1>8. Valve(s) \in CSection
  BY <1>2, <1>4, <1>7 DEF CSection
<1>9. /\ Valve(s).sectionOffTimer = timer
      /\ Valve(s).sectionOnRequest = s.sectionOnRequest
      /\ Valve(s).sectionOffRequest = s.sectionOffRequest
      /\ Valve(s).isMappingOn = s.isMappingOn
      /\ Valve(s).mappingOnTimer = s.mappingOnTimer
      /\ Valve(s).mappingOffTimer = s.mappingOffTimer
  BY <1>2, <1>7 DEF CSection
<1>10. Valve(s).isSectionOn <=> open
  BY <1>2, <1>7, <1>4 DEF CSection
<1>11. IsTimed(Valve(s))
  BY <1>7, <1>8, <1>9 DEF IsTimed
<1> QED
  BY <1>5, <1>6, <1>9, <1>10, <1>11 DEF IsCounting

(* StartMapTimers touches nothing but the two mapping timers.               *)
LEMMA StartMapTimersFacts ==
    ASSUME NEW s, IsTimed(s)
    PROVE  LET t == StartMapTimers(s)
           IN  /\ IsTimed(t)
               /\ t.isSectionOn = s.isSectionOn
               /\ t.sectionOnRequest = s.sectionOnRequest
               /\ t.sectionOffRequest = s.sectionOffRequest
               /\ t.sectionOffTimer = s.sectionOffTimer
               /\ t.isMappingOn = s.isMappingOn
<1> DEFINE t == StartMapTimers(s)
           restart == s.sectionOnRequest /\ s.isMappingOn /\ s.mappingOffTimer > 1
           startOn == s.sectionOnRequest /\ ~s.isMappingOn /\ s.mappingOnTimer = 0
           startOff == s.sectionOffRequest /\ s.isMappingOn /\ s.mappingOffTimer = 0
           on == IF startOn \/ restart THEN MapOnDelay ELSE s.mappingOnTimer
           off == IF restart THEN 0
                  ELSE IF startOff THEN MapOffDelay ELSE s.mappingOffTimer
<1>1. /\ on \in Nat /\ on <= MapOnDelay
      /\ off \in Nat /\ off <= MapOffDelay
  BY DelayAssumption DEF IsTimed, CSection
<1>2. t = [s EXCEPT !.mappingOnTimer = on, !.mappingOffTimer = off]
  BY DEF StartMapTimers
<1>3. s \in CSection
  BY DEF IsTimed
<1> HIDE DEF on, off, t
<1>4. t \in CSection
  BY <1>1, <1>2, <1>3 DEF CSection
<1>5. /\ t.mappingOnTimer = on
      /\ t.mappingOffTimer = off
      /\ t.isSectionOn = s.isSectionOn
      /\ t.sectionOnRequest = s.sectionOnRequest
      /\ t.sectionOffRequest = s.sectionOffRequest
      /\ t.sectionOffTimer = s.sectionOffTimer
      /\ t.isMappingOn = s.isMappingOn
  BY <1>2, <1>3 DEF CSection
<1>6. IsTimed(t)
  BY <1>1, <1>4, <1>5 DEF IsTimed
<1> QED
  BY <1>5, <1>6 DEF t

(* RunMapTimers leaves at most one of the mapping timers running, and the   *)
(* flag goes only the way that is asked for.                                *)
LEMMA RunMapTimersFacts ==
    ASSUME NEW s, IsTimed(s), s.sectionOffRequest <=> ~s.sectionOnRequest
    PROVE  LET t == RunMapTimers(s)
           IN  /\ IsTimed(t)
               /\ t.mappingOnTimer = 0 \/ t.mappingOffTimer = 0
               /\ t.isSectionOn = s.isSectionOn
               /\ t.sectionOnRequest = s.sectionOnRequest
               /\ t.sectionOffRequest = s.sectionOffRequest
               /\ t.sectionOffTimer = s.sectionOffTimer
               /\ s.sectionOnRequest /\ s.isMappingOn => t.isMappingOn
               /\ s.sectionOffRequest /\ t.isMappingOn => s.isMappingOn
<1> DEFINE t == RunMapTimers(s)
<1>1. s \in CSection
  BY DEF IsTimed
<1>2. CASE s.sectionOnRequest
  <2> DEFINE on == IF s.mappingOnTimer > 1 THEN s.mappingOnTimer - 1 ELSE s.mappingOnTimer
             mapping == s.isMappingOn \/ s.mappingOnTimer <= 1
  <2>1. on \in Nat /\ on <= MapOnDelay
    BY DelayAssumption DEF IsTimed, CSection
  <2>2. t = [s EXCEPT !.mappingOffTimer = 0, !.mappingOnTimer = on,
                      !.isMappingOn = mapping]
    BY <1>2 DEF RunMapTimers
  <2>3. mapping \in BOOLEAN /\ (s.isMappingOn => mapping)
    OBVIOUS
  <2> HIDE DEF on, mapping, t
  <2>4. t \in CSection
    BY <1>1, <2>1, <2>2, <2>3 DEF CSection
  <2>5. /\ t.mappingOnTimer = on
        /\ t.mappingOffTimer = 0
        /\ t.isSectionOn = s.isSectionOn
        /\ t.sectionOnRequest = s.sectionOnRequest
        /\ t.sectionOffRequest = s.sectionOffRequest
        /\ t.sectionOffTimer = s.sectionOffTimer
    BY <1>1, <2>2 DEF CSection
  <2>6. t.isMappingOn <=> mapping
    BY <1>1, <2>2, <2>3 DEF CSection
  <2>7. IsTimed(t)
    BY <2>1, <2>4, <2>5, DelayAssumption DEF IsTimed
  <2> QED
    BY <1>2, <2>3, <2>5, <2>6, <2>7 DEF t
<1>3. CASE ~s.sectionOnRequest /\ s.sectionOffRequest
  <2> DEFINE off == IF s.mappingOffTimer > 1 THEN s.mappingOffTimer - 1 ELSE s.mappingOffTimer
             mapping == s.isMappingOn /\ s.mappingOffTimer > 1
  <2>1. off \in Nat /\ off <= MapOffDelay
    BY DelayAssumption DEF IsTimed, CSection
  <2>2. t = [s EXCEPT !.mappingOnTimer = 0, !.mappingOffTimer = off,
                      !.isMappingOn = mapping]
    BY <1>3 DEF RunMapTimers
  <2>3. mapping \in BOOLEAN /\ (mapping => s.isMappingOn)
    OBVIOUS
  <2> HIDE DEF off, mapping, t
  <2>4. t \in CSection
    BY <1>1, <2>1, <2>2, <2>3 DEF CSection
  <2>5. /\ t.mappingOnTimer = 0
        /\ t.mappingOffTimer = off
        /\ t.isSectionOn = s.isSectionOn
        /\ t.sectionOnRequest = s.sectionOnRequest
        /\ t.sectionOffRequest = s.sectionOffRequest
        /\ t.sectionOffTimer = s.sectionOffTimer
    BY <1>1, <2>2 DEF CSection
  <2>6. t.isMappingOn <=> mapping
    BY <1>1, <2>2, <2>3 DEF CSection
  <2>7. IsTimed(t)
    BY <2>1, <2>4, <2>5, DelayAssumption DEF IsTimed
  <2> QED
    BY <1>3, <2>3, <2>5, <2>6, <2>7 DEF t
<1> QED
  BY <1>2, <1>3

(* One frame of a section, whatever its button and the ground.              *)
LEMMA SectionStepFacts ==
    ASSUME NEW s, IsTimed(s), NEW button, NEW ground
    PROVE  LET t == SectionStep(s, button, ground)
           IN  /\ IsTimed(t)
               /\ IsCounting(t)
               /\ HasOneDirection(t)
               /\ t.sectionOnRequest =>
                     t.isSectionOn /\ (s.isMappingOn => t.isMappingOn)
               /\ ~t.sectionOnRequest =>
                     /\ t.isSectionOn => s.isSectionOn
                     /\ t.isMappingOn => s.isMappingOn
               /\ button = "Auto" /\ ground = "outside" => ~t.isSectionOn
<1> DEFINE r == Requests(s, button, ground)
           v == Valve(r)
           m == StartMapTimers(v)
           t == RunMapTimers(m)
<1>1. /\ IsTimed(r)
      /\ r.sectionOffRequest <=> ~r.sectionOnRequest
      /\ r.isSectionOn = s.isSectionOn
      /\ r.isMappingOn = s.isMappingOn
      /\ button = "Auto" /\ ground = "outside" =>
            r.sectionOffRequest /\ r.sectionOffTimer = 0
  BY RequestsFacts
<1> HIDE DEF r
<1>2. /\ IsTimed(v)
      /\ IsCounting(v)
      /\ v.sectionOnRequest = r.sectionOnRequest
      /\ v.sectionOffRequest = r.sectionOffRequest
      /\ v.isMappingOn = r.isMappingOn
      /\ r.sectionOnRequest => v.isSectionOn
      /\ v.isSectionOn => r.sectionOnRequest \/ r.isSectionOn
      /\ r.sectionOffRequest /\ r.sectionOffTimer = 0 => ~v.isSectionOn
  BY <1>1, ValveFacts
<1> HIDE DEF v
<1>3. /\ IsTimed(m)
      /\ m.isSectionOn = v.isSectionOn
      /\ m.sectionOnRequest = v.sectionOnRequest
      /\ m.sectionOffRequest = v.sectionOffRequest
      /\ m.sectionOffTimer = v.sectionOffTimer
      /\ m.isMappingOn = v.isMappingOn
  BY <1>2, StartMapTimersFacts
<1> HIDE DEF m
<1>4. m.sectionOffRequest <=> ~m.sectionOnRequest
  BY <1>1, <1>2, <1>3
<1>5. /\ IsTimed(t)
      /\ t.mappingOnTimer = 0 \/ t.mappingOffTimer = 0
      /\ t.isSectionOn = m.isSectionOn
      /\ t.sectionOnRequest = m.sectionOnRequest
      /\ t.sectionOffRequest = m.sectionOffRequest
      /\ t.sectionOffTimer = m.sectionOffTimer
      /\ m.sectionOnRequest /\ m.isMappingOn => t.isMappingOn
      /\ m.sectionOffRequest /\ t.isMappingOn => m.isMappingOn
  BY <1>3, <1>4, RunMapTimersFacts
<1> HIDE DEF t
<1>6. SectionStep(s, button, ground) = t
  BY DEF SectionStep, t, m, v, r
<1>7. IsCounting(t) /\ HasOneDirection(t)
  BY <1>2, <1>3, <1>4, <1>5 DEF IsCounting, HasOneDirection
<1>8. /\ t.sectionOnRequest => t.isSectionOn /\ (s.isMappingOn => t.isMappingOn)
      /\ ~t.sectionOnRequest =>
            /\ t.isSectionOn => s.isSectionOn
            /\ t.isMappingOn => s.isMappingOn
      /\ button = "Auto" /\ ground = "outside" => ~t.isSectionOn
  BY <1>1, <1>2, <1>3, <1>4, <1>5
<1> QED
  BY <1>5, <1>6, <1>7, <1>8

----------------------------------------------------------------------------
(* The invariant: the safety invariants of SectionControl in a form that    *)
(* speaks of one section at a time.                                         *)

SectionOK(s) == IsTimed(s) /\ IsCounting(s) /\ HasOneDirection(s)

SectionsOK ==
    /\ section \in [Sections -> CSection]
    /\ \A j \in Sections : SectionOK(section[j])

ControlsOK ==
    /\ isJobStarted \in BOOLEAN
    /\ autoBtnState \in {"Off", "Auto"}
    /\ manualBtnState \in {"Off", "On"}
    /\ sectionButtonState \in [Sections -> btnStates]
    /\ painting \in BOOLEAN
    /\ queued \in 0 .. MaxQueued
    /\ pgn \in SUBSET Sections
    /\ sent \in SUBSET Sections

IInv == ControlsOK /\ SectionsOK

(* The invariant, section by section, gives the invariants that are checked. *)
LEMMA IInvImplies == IInv => TypeOK /\ OpenValveIsCounting /\ OneDirectionAtATime
BY DEF IInv, ControlsOK, SectionsOK, SectionOK, IsTimed, IsCounting, HasOneDirection,
       TypeOK, OpenValveIsCounting, OneDirectionAtATime

(* All sections are off at first. *)
LEMMA InitIInv == Init => IInv
<1> SUFFICES ASSUME Init PROVE IInv
  OBVIOUS
<1>1. NewSection \in CSection /\ SectionOK(NewSection)
  BY DelayAssumption
  DEF NewSection, CSection, SectionOK, IsTimed, IsCounting, HasOneDirection
<1>2. SectionsOK
  BY <1>1 DEF Init, SectionsOK
<1>3. queued \in 0 .. MaxQueued
  BY QueueAssumption DEF Init
<1>4. ControlsOK
  BY <1>3 DEF Init, ControlsOK, btnStates
<1> QED
  BY <1>2, <1>4 DEF IInv

(* Whatever the buttons become, the command they give keeps every section   *)
(* in order.                                                                *)
LEMMA SetSectionButtonStateOK ==
    ASSUME SectionsOK, NEW buttons \in [Sections -> btnStates],
           SetSectionButtonState(buttons)
    PROVE  SectionsOK' /\ sectionButtonState' \in [Sections -> btnStates]
<1>1. ASSUME NEW j \in Sections
      PROVE  /\ CommandOf(section[j], buttons[j]) \in CSection
             /\ SectionOK(CommandOf(section[j], buttons[j]))
  <2>1. section[j] \in CSection /\ SectionOK(section[j]) /\ buttons[j] \in btnStates
    BY DEF SectionsOK
  <2> QED
    BY <2>1, CommandOfFacts DEF SectionOK, IsTimed
<1> QED
  BY <1>1 DEF SectionsOK, SetSectionButtonState

(* Closing a field leaves every section in order, whether a master button
   shuts it or only its off request is cleared. *)
LEMMA JobCloseOK ==
    ASSUME IInv, JobClose
    PROVE  SectionsOK' /\ sectionButtonState' \in [Sections -> btnStates]
<1>1. ASSUME NEW j \in Sections
      PROVE  AfterClose(section[j]) \in CSection /\ SectionOK(AfterClose(section[j]))
  <2>1. section[j] \in CSection /\ SectionOK(section[j])
    BY DEF IInv, SectionsOK
  <2>2. CASE autoBtnState = "Auto" \/ manualBtnState = "On"
    <3>1. AfterClose(section[j]) = CommandOf(section[j], "Off")
      BY <2>2 DEF AfterClose
    <3> QED
      BY <2>1, <3>1, CommandOfFacts DEF SectionOK, IsTimed, btnStates
  <2>3. CASE ~(autoBtnState = "Auto" \/ manualBtnState = "On")
    <3>1. AfterClose(section[j]) = [section[j] EXCEPT !.sectionOffRequest = FALSE]
      BY <2>3 DEF AfterClose
    <3> QED
      BY <2>1, <3>1 DEF SectionOK, IsTimed, IsCounting, HasOneDirection, CSection
  <2> QED
    BY <2>2, <2>3
<1>2. ButtonsAfterClose \in [Sections -> btnStates]
  BY DEF IInv, ControlsOK, ButtonsAfterClose, btnStates
<1> QED
  BY <1>1, <1>2 DEF SectionsOK, JobClose

(* A frame keeps every section in order, whatever the ground. *)
LEMMA ProcessFrameOK ==
    ASSUME IInv, NEW ground, ProcessFrame(ground)
    PROVE  IInv'
<1>1. ASSUME NEW j \in Sections
      PROVE  /\ section'[j] \in CSection
             /\ SectionOK(section'[j])
  <2>1. IsTimed(section[j])
    BY DEF IInv, SectionsOK, SectionOK
  <2>2. section'[j] = SectionStep(section[j], sectionButtonState[j], ground[j])
    BY DEF ProcessFrame
  <2>3. SectionOK(SectionStep(section[j], sectionButtonState[j], ground[j]))
    BY <2>1, SectionStepFacts DEF SectionOK
  <2> QED
    BY <2>2, <2>3 DEF SectionOK, IsTimed
<1>2. section' = [j \in Sections |-> section'[j]]
  BY DEF ProcessFrame
<1>3. SectionsOK'
  BY <1>1, <1>2 DEF SectionsOK
<1>4. pgn' \in SUBSET Sections /\ sent' \in SUBSET Sections
  BY DEF ProcessFrame, BuildMachineByte, IInv, ControlsOK
<1>5. queued' \in 0 .. MaxQueued
  BY QueueAssumption DEF ProcessFrame, IInv, ControlsOK
<1> QED
  BY <1>3, <1>4, <1>5 DEF IInv, ControlsOK, ProcessFrame, buttonVars

(* Every step keeps the invariant. *)
LEMMA NextIInv == IInv /\ [Next]_vars => IInv'
<1> SUFFICES ASSUME IInv, [Next]_vars PROVE IInv'
  OBVIOUS
<1> USE DEF btnStates, buttonVars, frameVars
<1>1. ASSUME NEW j \in Sections, ClickSection(j) PROVE IInv'
  <2>1. [sectionButtonState EXCEPT ![j] = NextState(@)] \in [Sections -> btnStates]
    BY DEF IInv, ControlsOK, NextState
  <2> QED
    BY <1>1, <2>1, SetSectionButtonStateOK DEF ClickSection, IInv, ControlsOK
<1>2. CASE ManualOn
  BY <1>2, SetSectionButtonStateOK
  DEF ManualOn, SetAllSectionsToState, IInv, ControlsOK
<1>3. CASE ManualOff
  BY <1>3, SetSectionButtonStateOK
  DEF ManualOff, SetAllSectionsToState, IInv, ControlsOK
<1>4. CASE AutoOn
  BY <1>4, SetSectionButtonStateOK
  DEF AutoOn, SetAllSectionsToState, IInv, ControlsOK
<1>5. CASE AutoOff
  BY <1>5, SetSectionButtonStateOK
  DEF AutoOff, SetAllSectionsToState, IInv, ControlsOK
<1>6. CASE OpenField
  BY <1>6 DEF OpenField, IInv, ControlsOK, SectionsOK
<1>7. CASE CloseField
  BY <1>7, JobCloseOK DEF CloseField, JobClose, IInv, ControlsOK
<1>8. CASE SwitchField
  BY <1>8, JobCloseOK DEF SwitchField, JobClose, IInv, ControlsOK
<1>9. CASE UpdateFixPosition
  BY <1>9 DEF UpdateFixPosition, IInv, ControlsOK, SectionsOK
<1>10. CASE PaintDone
  <2>1. queued' \in 0 .. MaxQueued
    BY <1>10, QueueAssumption DEF PaintDone, IInv, ControlsOK
  <2> QED
    BY <1>10, <2>1 DEF PaintDone, IInv, ControlsOK, SectionsOK
<1>11. CASE ProcessSectionLookahead
  BY <1>11, ProcessFrameOK DEF ProcessSectionLookahead
<1>12. CASE UNCHANGED vars
  BY <1>12 DEF vars, IInv, ControlsOK, SectionsOK
<1> QED
  BY <1>1, <1>2, <1>3, <1>4, <1>5, <1>6, <1>7, <1>8, <1>9, <1>10, <1>11, <1>12
  DEF Next, Operator, Frame

(* Section control keeps its invariant in every state. *)
THEOREM Invariant == Spec => []IInv
<1> QED
  BY InitIInv, NextIInv, PTL DEF Spec

(* Every variable stays in its range and no timer outgrows its setting, for *)
(* any number of sections and any delays.                                   *)
THEOREM TypeCorrect == Spec => []TypeOK
BY Invariant, IInvImplies, PTL

(* An open valve that is told to stop has its turn-off delay running.       *)
THEOREM ValvesAreCounting == Spec => []OpenValveIsCounting
BY Invariant, IInvImplies, PTL

(* A section is asked either to work or to stop, and only one of its two    *)
(* mapping timers runs.                                                     *)
THEOREM Directions == Spec => []OneDirectionAtATime
BY Invariant, IInvImplies, PTL

(* Both: what a section is asked to do, it is doing or on its way to.       *)
THEOREM Obeyed == Spec => []RequestsAreObeyed
<1>1. OpenValveIsCounting /\ OneDirectionAtATime => RequestsAreObeyed
  BY DEF RequestsAreObeyed
<1> QED
  BY ValvesAreCounting, Directions, <1>1, PTL

(* A section in Auto that leaves the boundary is shut by the next frame.    *)
THEOREM Outside == Spec => []OutsideStopsAtOnce
<1>1. IInv => OutsideStopsAtOnce
  <2> SUFFICES ASSUME IInv, NEW j \in Sections
               PROVE  ~SectionStep(section[j], "Auto", "outside").isSectionOn
    BY DEF OutsideStopsAtOnce
  <2>1. IsTimed(section[j])
    BY DEF IInv, SectionsOK, SectionOK
  <2> QED
    BY <2>1, SectionStepFacts
<1> QED
  BY <1>1, Invariant, PTL

----------------------------------------------------------------------------
(* Every section implements SectionSwitch.                                  *)

(* What a step does to section j, as a step of its switch: s becomes t.     *)
SwitchStep(s, t) ==
    \/ /\ t.sectionOnRequest
       /\ t.isSectionOn
       /\ s.isMappingOn => t.isMappingOn
    \/ /\ ~t.sectionOnRequest
       /\ t.isSectionOn => s.isSectionOn
       /\ t.isMappingOn => s.isMappingOn
    \/ /\ t.sectionOnRequest = s.sectionOnRequest
       /\ t.isSectionOn = s.isSectionOn
       /\ t.isMappingOn = s.isMappingOn

(* A command of a button is a step of the switch. *)
LEMMA CommandIsSwitchStep ==
    ASSUME NEW s \in CSection, NEW button \in btnStates
    PROVE  SwitchStep(s, CommandOf(s, button))
BY DEF SwitchStep, CommandOf, CSection, btnStates

(* So is what the closing of a field does to a section. *)
LEMMA CloseIsSwitchStep ==
    ASSUME NEW s \in CSection
    PROVE  SwitchStep(s, AfterClose(s))
<1>1. CASE autoBtnState = "Auto" \/ manualBtnState = "On"
  BY <1>1, CommandIsSwitchStep DEF AfterClose, btnStates
<1>2. CASE ~(autoBtnState = "Auto" \/ manualBtnState = "On")
  BY <1>2 DEF AfterClose, SwitchStep, CSection
<1> QED
  BY <1>1, <1>2

(* So is a frame. *)
LEMMA FrameIsSwitchStep ==
    ASSUME NEW s, IsTimed(s), NEW button, NEW ground
    PROVE  SwitchStep(s, SectionStep(s, button, ground))
BY SectionStepFacts DEF SwitchStep

(* Every step is for every section a step of its switch or a stutter. *)
LEMMA NextIsSwitchStep ==
    ASSUME IInv, [Next]_vars, NEW j \in Sections
    PROVE  SwitchStep(section[j], section'[j])
<1>1. section[j] \in CSection /\ IsTimed(section[j]) /\ sectionButtonState[j] \in btnStates
  BY DEF IInv, ControlsOK, SectionsOK, SectionOK
<1>2. ASSUME NEW buttons \in [Sections -> btnStates], SetSectionButtonState(buttons)
      PROVE  SwitchStep(section[j], section'[j])
  BY <1>1, <1>2, CommandIsSwitchStep DEF SetSectionButtonState
<1>3. ASSUME NEW k \in Sections, ClickSection(k)
      PROVE  SwitchStep(section[j], section'[j])
  <2>1. [sectionButtonState EXCEPT ![k] = NextState(@)] \in [Sections -> btnStates]
    BY DEF IInv, ControlsOK, NextState, btnStates
  <2> QED
    BY <1>2, <1>3, <2>1 DEF ClickSection
<1>4. CASE ManualOn \/ ManualOff \/ AutoOn \/ AutoOff
  BY <1>2, <1>4
  DEF ManualOn, ManualOff, AutoOn, AutoOff, SetAllSectionsToState, btnStates
<1>5. CASE CloseField \/ SwitchField
  BY <1>1, <1>5, CloseIsSwitchStep DEF CloseField, SwitchField, JobClose
<1>6. CASE ProcessSectionLookahead
  BY <1>1, <1>6, FrameIsSwitchStep DEF ProcessSectionLookahead, ProcessFrame
<1>7. CASE OpenField \/ UpdateFixPosition \/ PaintDone \/ UNCHANGED vars
  BY <1>7 DEF OpenField, UpdateFixPosition, PaintDone, vars, SwitchStep
<1> QED
  BY <1>3, <1>4, <1>5, <1>6, <1>7 DEF Next, Operator, Frame

(* Every section of the implement, with any number of sections and any      *)
(* delays, keeps the promise of SectionSwitch: its valve opens whenever     *)
(* work is asked for, and nothing starts while it is asked to stop.         *)
THEOREM Refinement == Spec => SectionsAreSwitches
<1>1. Init => \A j \in Sections : Switch(j)!Init
  BY DEF Init, NewSection, Switch!Init
<1>2. IInv /\ [Next]_vars =>
        [\A j \in Sections : [Switch(j)!Next]_(Switch(j)!vars)]_vars
  <2> SUFFICES ASSUME IInv, [Next]_vars, NEW j \in Sections
               PROVE  [Switch(j)!Next]_(Switch(j)!vars)
    OBVIOUS
  <2>1. SwitchStep(section[j], section'[j])
    BY NextIsSwitchStep
  <2>2. section'[j] \in CSection
    BY NextIInv DEF IInv, SectionsOK
  <2> QED
    BY <2>1, <2>2 DEF SwitchStep, CSection, Switch!Next, Switch!Work, Switch!Stop, Switch!vars
<1> QED
  BY <1>1, <1>2, Invariant, PTL DEF Spec, SectionsAreSwitches

----------------------------------------------------------------------------
(* 2. The zones *)

(* A set of natural numbers that is not empty has a least element. *)
LEMMA Least ==
    ASSUME NEW T, T \subseteq Nat, T # {}
    PROVE  \E m \in T : \A k \in T : m <= k
<1> DEFINE R == {ss \in Nat \X Nat : ss[1] < ss[2]}
<1>1. IsWellFoundedOn(R, Nat)
  BY NatLessThanWellFounded DEF OpToRel
<1> HIDE DEF R
<1>2. PICK m \in T : \A k \in T : <<k, m>> \notin R
  BY <1>1, WFMin
<1>3. \A k \in T : ~(k < m)
  BY <1>2 DEF R
<1> QED
  BY <1>3

Rank(j, number) == Cardinality({k \in ZoneStarts(number) : k < j})

LEMMA StartsAreFinite ==
    ASSUME NEW number \in SUBSET Sections
    PROVE  /\ ZoneStarts(number) \subseteq number
           /\ IsFiniteSet(ZoneStarts(number))
           /\ ZoneCount(number) \in Nat
<1>1. ZoneStarts(number) \subseteq number
  BY DEF ZoneStarts
<1>2. IsFiniteSet(Sections)
  BY FS_Interval, SectionsAssumption DEF Sections
<1>3. IsFiniteSet(ZoneStarts(number))
  BY <1>1, <1>2, FS_Subset
<1> QED
  BY <1>1, <1>3, FS_CardinalityType DEF ZoneCount

(* The starts have the ranks 0 to ZoneCount - 1, each one of them. *)
LEMMA Ranks ==
    ASSUME NEW number \in SUBSET Sections
    PROVE  /\ \A j \in ZoneStarts(number) : Rank(j, number) \in 0 .. ZoneCount(number) - 1
           /\ \A j, k \in ZoneStarts(number) : j < k => Rank(j, number) < Rank(k, number)
           /\ \A r \in 0 .. ZoneCount(number) - 1 :
                 \E j \in ZoneStarts(number) : Rank(j, number) = r
<1> DEFINE Z == ZoneStarts(number)
           n == ZoneCount(number)
           Below(j) == {x \in Z : x < j}
           rank == [j \in Z |-> Cardinality(Below(j))]
<1>1. /\ Z \subseteq Int
      /\ IsFiniteSet(Z)
      /\ n \in Nat
      /\ n = Cardinality(Z)
  <2>1. number \subseteq Int
    BY DEF Sections
  <2>2. n = Cardinality(Z)
    BY DEF ZoneCount
  <2> QED
    BY <2>1, <2>2, StartsAreFinite
<1>2. \A j \in Z : Rank(j, number) = Cardinality(Below(j))
  BY DEF Rank
<1> HIDE DEF Z, n
<1>3. \A T \in SUBSET Z : IsFiniteSet(T) /\ Cardinality(T) \in Nat
  BY <1>1, FS_Subset, FS_CardinalityType
\* A set with one more element is larger.
<1>4. ASSUME NEW T \in SUBSET Z, NEW U \in SUBSET Z, NEW x \in U, x \notin T, T \subseteq U
      PROVE  Cardinality(T) < Cardinality(U)
  <2>1. IsFiniteSet(U) /\ IsFiniteSet(T) /\ Cardinality(T) \in Nat /\ Cardinality(U) \in Nat
    BY <1>3
  <2>2. Cardinality(T) <= Cardinality(U)
    BY <1>4, <2>1, FS_Subset
  <2>3. Cardinality(T) # Cardinality(U)
    BY <1>4, <2>1, FS_Subset
  <2> QED
    BY <2>1, <2>2, <2>3
<1>5. \A j \in Z : Below(j) \in SUBSET Z /\ j \notin Below(j)
  BY <1>1
<1>6. ASSUME NEW j \in Z PROVE Cardinality(Below(j)) \in 0 .. n - 1
  <2>1. Cardinality(Below(j)) < Cardinality(Z)
    BY <1>4, <1>5
  <2> QED
    BY <1>1, <1>3, <1>5, <2>1
<1>7. ASSUME NEW j \in Z, NEW k \in Z, j < k PROVE Cardinality(Below(j)) < Cardinality(Below(k))
  <2>1. Below(j) \subseteq Below(k) /\ j \in Below(k)
    <3>1. j \in Int /\ k \in Int /\ \A x \in Z : x \in Int
      BY <1>1
    <3>2. ASSUME NEW x \in Z, x < j PROVE x < k
      BY <1>7, <3>1, <3>2
    <3>3. j \in Below(k)
      BY <1>7
    <3> QED
      BY <3>2, <3>3
  <2> HIDE DEF Below
  <2> QED
    BY <1>4, <1>5, <2>1
<1>8. ASSUME NEW r \in 0 .. n - 1 PROVE \E j \in Z : Cardinality(Below(j)) = r
  <2>1. rank \in [Z -> 0 .. n - 1]
    BY <1>6
  <2>2. ASSUME NEW j \in Z, NEW k \in Z, rank[j] = rank[k] PROVE j = k
    <3>1. Cardinality(Below(j)) = Cardinality(Below(k))
      BY <2>2
    <3> HIDE DEF Below
    <3>2. ~(j < k) /\ ~(k < j)
      BY <1>3, <1>5, <1>7, <3>1
    <3> QED
      BY <1>1, <3>2
  <2>3. rank \in Injection(Z, 0 .. n - 1)
    BY <2>1, <2>2 DEF Injection, IsInjective
  <2>4. IsFiniteSet(0 .. n - 1) /\ Cardinality(0 .. n - 1) = n
    BY <1>1, FS_Interval
  <2> HIDE DEF rank
  <2>5. rank \in Surjection(Z, 0 .. n - 1)
    BY <1>1, <2>3, <2>4, FS_Injection
  <2>6. PICK j \in Z : rank[j] = r
    BY <1>8, <2>5 DEF Surjection
  <2> QED
    BY <2>6 DEF rank
<1> QED
  BY <1>2, <1>6, <1>7, <1>8 DEF Z, n

(* The i-th start is the one with i - 1 starts before it. *)
LEMMA ZoneStartFacts ==
    ASSUME NEW number \in SUBSET Sections
    PROVE  /\ \A i \in 1 .. ZoneCount(number) :
                 /\ ZoneStart(i, number) \in ZoneStarts(number)
                 /\ Rank(ZoneStart(i, number), number) = i - 1
           /\ \A j \in ZoneStarts(number) :
                 \E i \in 1 .. ZoneCount(number) : j = ZoneStart(i, number)
<1> DEFINE Z == ZoneStarts(number)
           n == ZoneCount(number)
<1>0. n \in Nat
  BY StartsAreFinite
<1>1. ASSUME NEW i \in 1 .. n
      PROVE  ZoneStart(i, number) \in Z /\ Rank(ZoneStart(i, number), number) = i - 1
  <2>1. ZoneStart(i, number) = CHOOSE j \in Z : Rank(j, number) = i - 1
    BY DEF ZoneStart, Rank
  <2>2. i - 1 \in 0 .. n - 1
    BY <1>0
  <2>3. \E j \in Z : Rank(j, number) = i - 1
    BY <2>2, Ranks
  <2> QED
    BY <2>1, <2>3
<1>2. ASSUME NEW j \in Z
      PROVE  \E i \in 1 .. n : j = ZoneStart(i, number)
  <2> DEFINE i == Rank(j, number) + 1
  <2>1. Rank(j, number) \in 0 .. n - 1
    BY Ranks
  <2>2. i \in 1 .. n /\ i - 1 = Rank(j, number)
    BY <1>0, <2>1
  <2> HIDE DEF i
  <2> DEFINE m == ZoneStart(i, number)
  <2>3. m \in Z /\ Rank(m, number) = Rank(j, number)
    BY <1>1, <2>2
  <2> HIDE DEF m
  <2>4. j \in Int /\ m \in Int
    <3>1. Z \subseteq number /\ number \subseteq Int
      BY StartsAreFinite DEF Sections
    <3> QED
      BY <2>3, <3>1
  <2>5. ~(j < m) /\ ~(m < j)
    BY <2>1, <2>3, Ranks
  <2>6. j = m
    BY <2>4, <2>5
  <2> QED
    BY <2>2, <2>6 DEF m
<1> QED
  BY <1>1, <1>2

(* Where a zone starts it also ends. *)
LEMMA ZoneHasEnd ==
    ASSUME NEW number \in SUBSET Sections, NEW start \in number
    PROVE  \E j \in number : start .. j \subseteq number /\ start <= j /\ j + 1 \notin number
<1> DEFINE T == {j \in Nat : start <= j /\ j + 1 \notin number}
<1>1. /\ start \in Nat /\ start <= numOfSections - 1
      /\ number \subseteq 0 .. numOfSections - 1
      /\ numOfSections \in Nat
  BY SectionsAssumption DEF Sections
<1>2. numOfSections - 1 \in T
  BY <1>1
<1>3. PICK e \in T : \A j \in T : e <= j
  BY <1>2, Least
<1>4. start <= e /\ e \in Nat /\ e + 1 \notin number
  BY <1>3
<1>5. ASSUME NEW x \in start .. e PROVE x \in number
  <2>1. CASE x = start
    BY <2>1
  <2>2. CASE x # start
    <3>1. x - 1 \in Nat /\ start <= x - 1 /\ ~(e <= x - 1) /\ (x - 1) + 1 = x
      BY <1>1, <1>4, <2>2
    <3>2. x - 1 \notin T
      BY <1>3, <3>1
    <3> QED
      BY <3>1, <3>2
  <2> QED
    BY <2>1, <2>2
<1>6. e \in number /\ start .. e \subseteq number
  BY <1>1, <1>4, <1>5
<1> QED
  BY <1>4, <1>6

(* Every section of number lies in a run that has a start. *)
LEMMA ZoneHasStart ==
    ASSUME NEW number \in SUBSET Sections, NEW x \in number
    PROVE  \E j \in ZoneStarts(number) : j <= x /\ j .. x \subseteq number
<1> DEFINE T == {d \in Nat : x - d - 1 \notin number}
<1>1. x \in Nat /\ number \subseteq Nat
  BY DEF Sections
<1>2. x \in T
  BY <1>1
<1>3. PICK d \in T : \A k \in T : d <= k
  BY <1>2, Least
<1>4. ASSUME NEW y \in x - d .. x PROVE y \in number
  <2>1. CASE y = x
    BY <2>1
  <2>2. CASE y # x
    <3>1. y \in Int /\ x - d <= y /\ y <= x /\ d \in Nat
      BY <1>1, <1>3
    <3>2. x - y - 1 \in Nat /\ ~(d <= x - y - 1) /\ x - (x - y - 1) - 1 = y
      BY <1>1, <2>2, <3>1
    <3>3. x - y - 1 \notin T
      BY <1>3, <3>2
    <3> QED
      BY <3>2, <3>3
  <2> QED
    BY <2>1, <2>2
<1>5. d \in Nat /\ x - d - 1 \notin number
  BY <1>3
<1>6. x - d \in number
  BY <1>1, <1>4, <1>5
<1>7. x - d \in ZoneStarts(number)
  BY <1>5, <1>6 DEF ZoneStarts
<1>8. x - d <= x
  BY <1>1, <1>5
<1> QED
  BY <1>4, <1>7, <1>8

(* The zones are intervals of sections, together they are number, and no two *)
(* of them meet.                                                            *)
LEMMA Zones ==
    ASSUME NEW number \in SUBSET Sections
    PROVE  LET n == ZoneCount(number)
               start(i) == ZoneStart(i, number)
               end(i) == ZoneEnd(i, number)
           IN  /\ n \in Nat
               /\ \A i \in 1 .. n : start(i) \in number /\ end(i) \in number /\ start(i) <= end(i)
               /\ \A i \in 1 .. n : start(i) .. end(i) \subseteq number
               /\ \A x \in number : \E i \in 1 .. n : x \in start(i) .. end(i)
               /\ \A i, k \in 1 .. n :
                     i # k => (start(i) .. end(i)) \cap (start(k) .. end(k)) = {}
<1> DEFINE Z == ZoneStarts(number)
           n == ZoneCount(number)
           start(i) == ZoneStart(i, number)
           end(i) == ZoneEnd(i, number)
<1>1. n \in Nat /\ number \subseteq Nat /\ Z \subseteq number
  BY StartsAreFinite DEF Sections
<1>2. \A i \in 1 .. n : start(i) \in Z /\ Rank(start(i), number) = i - 1
  BY ZoneStartFacts
<1>3. \A j \in Z : j - 1 \notin number
  BY DEF ZoneStarts
<1>4. \A j \in Z : \E i \in 1 .. n : j = start(i)
  BY ZoneStartFacts
<1>5. ASSUME NEW i \in 1 .. n
      PROVE  /\ end(i) \in number /\ start(i) .. end(i) \subseteq number
             /\ start(i) <= end(i) /\ end(i) + 1 \notin number
  <2>1. start(i) \in number
    BY <1>1, <1>2
  <2>2. \E j \in number : start(i) .. j \subseteq number /\ start(i) <= j /\ j + 1 \notin number
    BY <2>1, ZoneHasEnd
  <2>3. end(i) = CHOOSE j \in number : /\ start(i) .. j \subseteq number
                                       /\ start(i) <= j
                                       /\ j + 1 \notin number
    BY DEF ZoneEnd
  <2> QED
    BY <2>2, <2>3
<1> HIDE DEF Z, n, start, end
<1>6. ASSUME NEW x \in number PROVE \E i \in 1 .. n : x \in start(i) .. end(i)
  <2>1. PICK j \in Z : j <= x /\ j .. x \subseteq number
    BY ZoneHasStart DEF Z
  <2>2. PICK i \in 1 .. n : j = start(i)
    BY <1>4
  <2>3. x \in Nat /\ j \in Nat /\ end(i) \in Nat /\ end(i) + 1 \notin number /\ j <= end(i)
    BY <1>1, <1>5, <2>2
  <2>4. ~(end(i) < x)
    <3> SUFFICES ASSUME end(i) < x PROVE FALSE
      OBVIOUS
    <3>1. end(i) + 1 \in j .. x
      BY <2>3
    <3> QED
      BY <2>1, <2>3, <3>1
  <2> QED
    BY <2>1, <2>2, <2>3, <2>4
<1>7. ASSUME NEW i \in 1 .. n, NEW k \in 1 .. n, NEW x \in start(i) .. end(i),
             x \in start(k) .. end(k), start(i) < start(k)
      PROVE  FALSE
  <2>1. /\ start(i) \in Nat /\ start(k) \in Nat /\ end(i) \in Nat /\ end(k) \in Nat
        /\ start(k) - 1 \notin number
    BY <1>1, <1>2, <1>3, <1>5
  <2>2. start(k) - 1 \in start(i) .. end(i)
    BY <1>7, <2>1
  <2> QED
    BY <1>5, <2>1, <2>2
<1>8. ASSUME NEW i \in 1 .. n, NEW k \in 1 .. n, i # k
      PROVE  (start(i) .. end(i)) \cap (start(k) .. end(k)) = {}
  <2>1. start(i) # start(k)
    <3>1. i - 1 # k - 1
      BY <1>1, <1>8
    <3> QED
      BY <1>2, <3>1
  <2>2. start(i) \in Nat /\ start(k) \in Nat
    BY <1>1, <1>2
  <2>3. start(i) < start(k) \/ start(k) < start(i)
    BY <2>1, <2>2
  <2> QED
    BY <1>7, <2>3
<1>9. \A i \in 1 .. n : start(i) \in number
  BY <1>1, <1>2
<1> QED
  BY <1>1, <1>5, <1>6, <1>8, <1>9 DEF n, start, end

----------------------------------------------------------------------------
(* 3. The strips *)

(* A strip that may go on draws on: where strips are drawn by zones, the     *)
(* strips that draw are the first ones, and where they are drawn by sections, *)
(* each draws its own section.                                               *)
StripsInOrder ==
    IF isMultiColoredSections
    THEN \A i \in Drawing : triStrip[i].start = i - 1 /\ triStrip[i].end = i - 1
    ELSE \E n \in Nat : Drawing = 1 .. n

(* Only strips that draw have edges in order. *)
EdgesInOrder == \A i \in Drawing : triStrip[i].start <= triStrip[i].end

StripInv ==
    /\ StripsTypeOK
    /\ EdgesInOrder
    /\ StripsInOrder
    /\ RecordsOnce

(* What a settled set of strips is: strips the first n of which draw the     *)
(* zones.                                                                    *)
LEMMA ExtendedFacts ==
    ASSUME StripsTypeOK, NEW n \in Nat
    PROVE  /\ \E m \in Nat : /\ n <= m /\ Len(triStrip) <= m
                             /\ DOMAIN Extended(n) = 1 .. m
           /\ \A i \in DOMAIN Extended(n) : Extended(n)[i] \in Strip
           /\ \A i \in DOMAIN triStrip : i \in DOMAIN Extended(n) /\ Extended(n)[i] = triStrip[i]
           /\ \A i \in DOMAIN Extended(n) :
                 i \notin DOMAIN triStrip => ~Extended(n)[i].isDrawing
<1> DEFINE m == IF n > Len(triStrip) THEN n ELSE Len(triStrip)
<1>1. /\ Len(triStrip) \in Nat /\ DOMAIN triStrip = 1 .. Len(triStrip)
      /\ \A i \in 1 .. Len(triStrip) : triStrip[i] \in Strip
  BY DEF StripsTypeOK
<1>2. IdleStrip \in Strip
  BY SectionsAssumption DEF IdleStrip, Strip, Sections
<1>3. m \in Nat /\ n <= m /\ Len(triStrip) <= m
  BY <1>1
<1>4. Extended(n) = [i \in 1 .. m |-> IF i <= Len(triStrip) THEN triStrip[i] ELSE IdleStrip]
  BY DEF Extended
<1> HIDE DEF m
<1>5. DOMAIN Extended(n) = 1 .. m
  BY <1>4
<1>6. ASSUME NEW i \in 1 .. m PROVE Extended(n)[i] \in Strip
  BY <1>1, <1>2, <1>4
<1>7. ASSUME NEW i \in DOMAIN triStrip PROVE i \in 1 .. m /\ Extended(n)[i] = triStrip[i]
  BY <1>1, <1>3, <1>4
<1>8. ASSUME NEW i \in 1 .. m, i \notin DOMAIN triStrip PROVE ~Extended(n)[i].isDrawing
  <2>1. ~(i <= Len(triStrip))
    BY <1>1, <1>8
  <2>2. Extended(n)[i] = IdleStrip
    BY <1>4, <2>1
  <2> QED
    BY <2>2 DEF IdleStrip
<1> QED
  BY <1>3, <1>5, <1>6, <1>7, <1>8

(* What happens to one strip. *)
LEMMA StartedFacts ==
    ASSUME NEW strip \in Strip, NEW start \in Sections, NEW end \in Sections
    PROVE  /\ Started(strip, start, end) \in Strip
           /\ Started(strip, start, end).isDrawing
           /\ Started(strip, start, end).start = start
           /\ Started(strip, start, end).end = end
           /\ Started(strip, start, end).isNewPatch = ~strip.isDrawing
BY DEF Strip, Sections, Started

LEMMA StripFacts ==
    ASSUME NEW strip \in Strip, NEW start \in Sections, NEW end \in Sections
    PROVE  /\ Stopped(strip) \in Strip
           /\ ~Stopped(strip).isDrawing
           /\ Moved(strip, start, end) \in Strip
           /\ Moved(strip, start, end).isDrawing = strip.isDrawing
           /\ Moved(strip, start, end).start = start
           /\ Moved(strip, start, end).end = end
BY DEF Strip, Sections, Stopped, Moved

(* One strip per zone, whether the strips go on or start anew.              *)
LEMMA ZoneStripsFacts ==
    ASSUME StripInv, ~isMultiColoredSections, NEW number \in SUBSET Sections
    PROVE  LET n == ZoneCount(number)
               strips == ZoneStrips(number)
           IN  /\ \E m \in Nat : n <= m /\ DOMAIN strips = 1 .. m
               /\ \A i \in DOMAIN strips : strips[i] \in Strip
               /\ \A i \in DOMAIN strips : strips[i].isDrawing <=> i <= n
               /\ \A i \in DOMAIN strips :
                     i <= n => /\ strips[i].start = ZoneStart(i, number)
                               /\ strips[i].end = ZoneEnd(i, number)
               /\ \A i \in DOMAIN strips \cap Drawing :
                     i <= n /\ ~strips[i].isNewPatch => CanContinue(number)
<1> DEFINE n == ZoneCount(number)
           strips == ZoneStrips(number)
           old == Extended(n)
           start(i) == ZoneStart(i, number)
           end(i) == ZoneEnd(i, number)
           goesOn == CanContinue(number)
<1>1. /\ n \in Nat
      /\ \A i \in 1 .. n : start(i) \in Sections /\ end(i) \in Sections
  BY Zones
<1>2. PICK m \in Nat : n <= m /\ DOMAIN old = 1 .. m
  BY <1>1, ExtendedFacts DEF StripInv
<1>3. \A i \in 1 .. m : /\ old[i] \in Strip
                        /\ i \in DOMAIN triStrip => old[i] = triStrip[i]
                        /\ i \notin DOMAIN triStrip => ~old[i].isDrawing
  BY <1>1, <1>2, ExtendedFacts DEF StripInv
<1>4. strips = [i \in 1 .. m |->
                  IF i > n THEN IF goesOn THEN old[i] ELSE Stopped(old[i])
                  ELSE IF goesOn THEN Moved(old[i], start(i), end(i))
                  ELSE Started(Stopped(old[i]), start(i), end(i))]
  BY <1>2 DEF ZoneStrips
<1>5. ASSUME goesOn, NEW i \in 1 .. m PROVE old[i].isDrawing <=> i <= n
  <2>1. PICK d \in Nat : Drawing = 1 .. d
    BY DEF StripInv, StripsInOrder
  <2>2. PatchingZones = Cardinality(Drawing)
    BY DEF PatchingZones, Drawing
  <2>3. d = n
    <3>1. Cardinality(1 .. d) = d
      BY FS_Interval
    <3>2. PatchingZones = n
      BY <1>5 DEF CanContinue
    <3> QED
      BY <2>1, <2>2, <3>1, <3>2
  <2>4. old[i].isDrawing <=> i \in Drawing
    BY <1>3 DEF Drawing
  <2> QED
    BY <2>1, <2>3, <2>4
<1> HIDE DEF n, strips, old, start, end, goesOn
<1>6. ASSUME NEW i \in 1 .. m, i <= n
      PROVE  /\ strips[i] \in Strip
             /\ strips[i].isDrawing
             /\ strips[i].start = start(i)
             /\ strips[i].end = end(i)
             /\ i \in Drawing /\ ~strips[i].isNewPatch => goesOn
  <2>1. /\ old[i] \in Strip /\ i \in 1 .. n /\ ~(i > n)
        /\ start(i) \in Sections /\ end(i) \in Sections
    BY <1>1, <1>3, <1>6
  <2>2. CASE goesOn
    <3>1. strips[i] = Moved(old[i], start(i), end(i))
      BY <1>4, <2>1, <2>2
    <3> QED
      BY <1>5, <1>6, <2>1, <2>2, <3>1, StripFacts
  <2>3. CASE ~goesOn
    <3> DEFINE idle == Stopped(old[i])
    <3>1. strips[i] = Started(idle, start(i), end(i))
      BY <1>4, <2>1, <2>3
    <3>2. idle \in Strip /\ ~idle.isDrawing
      BY <2>1, StripFacts
    <3> HIDE DEF idle
    <3>3. /\ Started(idle, start(i), end(i)) \in Strip
          /\ Started(idle, start(i), end(i)).isDrawing
          /\ Started(idle, start(i), end(i)).start = start(i)
          /\ Started(idle, start(i), end(i)).end = end(i)
          /\ Started(idle, start(i), end(i)).isNewPatch = ~idle.isDrawing
      BY <2>1, <3>2, StartedFacts
    <3>4. strips[i].isNewPatch
      BY <3>1, <3>2, <3>3
    <3> QED
      BY <3>1, <3>3, <3>4
  <2> QED
    BY <2>2, <2>3
<1>7. ASSUME NEW i \in 1 .. m, ~(i <= n)
      PROVE  strips[i] \in Strip /\ ~strips[i].isDrawing
  <2>1. old[i] \in Strip /\ i > n
    BY <1>1, <1>3, <1>7
  <2>2. strips[i] = IF goesOn THEN old[i] ELSE Stopped(old[i])
    BY <1>4, <2>1
  <2>3. 0 \in Sections
    BY SectionsAssumption DEF Sections
  <2> QED
    BY <1>5, <1>7, <2>1, <2>2, <2>3, StripFacts
<1>8. DOMAIN strips = 1 .. m
  BY <1>4
<1> QED
  BY <1>2, <1>6, <1>7, <1>8 DEF n, strips, start, end, goesOn

(* One strip per section, each on its own. *)
LEMMA SectionStripsFacts ==
    ASSUME StripInv, NEW number \in SUBSET Sections
    PROVE  LET strips == SectionStrips(number)
           IN  /\ \E m \in Nat : numOfSections <= m /\ DOMAIN strips = 1 .. m
               /\ \A i \in DOMAIN strips : strips[i] \in Strip
               /\ \A i \in DOMAIN strips : strips[i].isDrawing <=> i - 1 \in number
               /\ \A i \in DOMAIN strips :
                     i - 1 \in number => strips[i].start = i - 1 /\ strips[i].end = i - 1
               /\ \A i \in Drawing :
                     i - 1 \in number => ~strips[i].isNewPatch
<1> DEFINE strips == SectionStrips(number)
           old == Extended(numOfSections)
<1>0. numOfSections \in Nat /\ 0 \in Sections /\ StripsTypeOK
  BY SectionsAssumption DEF Sections, StripInv
<1>1. PICK m \in Nat : numOfSections <= m /\ DOMAIN old = 1 .. m
  BY <1>0, ExtendedFacts
<1>2. \A i \in 1 .. m : old[i] \in Strip
  BY <1>0, <1>1, ExtendedFacts
<1>3. \A i \in Drawing : i \in 1 .. m /\ old[i].isDrawing
  BY <1>0, <1>1, ExtendedFacts DEF Drawing
<1>4. strips = [i \in 1 .. m |-> IF i - 1 \in number THEN Started(old[i], i - 1, i - 1)
                                 ELSE Stopped(old[i])]
  BY <1>1 DEF SectionStrips
<1> HIDE DEF strips, old
<1>5. ASSUME NEW i \in 1 .. m, i - 1 \in number
      PROVE  /\ strips[i] \in Strip /\ strips[i].isDrawing
             /\ strips[i].start = i - 1 /\ strips[i].end = i - 1
             /\ strips[i].isNewPatch = ~old[i].isDrawing
  <2>1. strips[i] = Started(old[i], i - 1, i - 1)
    BY <1>4, <1>5
  <2>2. old[i] \in Strip /\ i - 1 \in Sections
    BY <1>2, <1>5
  <2> QED
    BY <2>1, <2>2, StartedFacts
<1>6. ASSUME NEW i \in 1 .. m, i - 1 \notin number
      PROVE  strips[i] \in Strip /\ ~strips[i].isDrawing
  BY <1>0, <1>2, <1>4, <1>6, StripFacts
<1>7. DOMAIN strips = 1 .. m
  BY <1>4
<1> QED
  BY <1>1, <1>3, <1>5, <1>6, <1>7 DEF strips

(* Strips that draw the sections of number, one strip each or one per zone.  *)
Draw(strips, number) ==
    LET drawing == {i \in DOMAIN strips : strips[i].isDrawing}
    IN  /\ strips \in Seq(Strip)
        /\ \A i \in drawing : strips[i].start <= strips[i].end
        /\ IF isMultiColoredSections
           THEN \A i \in drawing : strips[i].start = i - 1 /\ strips[i].end = i - 1
           ELSE \E n \in Nat : drawing = 1 .. n
        /\ UNION {strips[i].start .. strips[i].end : i \in drawing} = number
        /\ \A i, k \in drawing :
              i # k => (strips[i].start .. strips[i].end) \cap (strips[k].start .. strips[k].end) = {}

LEMMA DrawZones ==
    ASSUME StripInv, ~isMultiColoredSections, NEW number \in SUBSET Sections
    PROVE  Draw(ZoneStrips(number), number)
<1> DEFINE n == ZoneCount(number)
           strips == ZoneStrips(number)
           start(i) == ZoneStart(i, number)
           end(i) == ZoneEnd(i, number)
           drawing == {i \in DOMAIN strips : strips[i].isDrawing}
<1>1. PICK m \in Nat : n <= m /\ DOMAIN strips = 1 .. m
  BY ZoneStripsFacts
<1>2. /\ \A i \in 1 .. m : strips[i] \in Strip
      /\ \A i \in 1 .. m : strips[i].isDrawing <=> i <= n
      /\ \A i \in 1 .. m : i <= n => strips[i].start = start(i) /\ strips[i].end = end(i)
  BY <1>1, ZoneStripsFacts
<1>3. /\ n \in Nat
      /\ \A i \in 1 .. n : start(i) <= end(i) /\ start(i) .. end(i) \subseteq number
      /\ \A x \in number : \E i \in 1 .. n : x \in start(i) .. end(i)
      /\ \A i, k \in 1 .. n : i # k => (start(i) .. end(i)) \cap (start(k) .. end(k)) = {}
  BY Zones
<1>4. strips = [i \in 1 .. m |-> strips[i]]
  BY <1>1 DEF ZoneStrips
<1> HIDE DEF n, strips, start, end
<1>5. strips \in Seq(Strip)
  BY <1>2, <1>4
<1>6. drawing = 1 .. n
  BY <1>1, <1>2, <1>3
<1>7. \A i \in 1 .. n : strips[i].start = start(i) /\ strips[i].end = end(i)
  BY <1>1, <1>2, <1>3
<1> HIDE DEF drawing
<1>8. \A i \in drawing : strips[i].start <= strips[i].end
  BY <1>3, <1>6, <1>7
<1>9. UNION {strips[i].start .. strips[i].end : i \in drawing} = number
  <2>1. \A i \in drawing : strips[i].start .. strips[i].end \subseteq number
    BY <1>3, <1>6, <1>7
  <2>2. \A x \in number : \E i \in drawing : x \in strips[i].start .. strips[i].end
    BY <1>3, <1>6, <1>7
  <2> QED
    BY <2>1, <2>2
<1>10. \A i, k \in drawing :
          i # k => (strips[i].start .. strips[i].end) \cap (strips[k].start .. strips[k].end) = {}
  BY <1>3, <1>6, <1>7
<1> QED
  BY <1>3, <1>5, <1>6, <1>8, <1>9, <1>10 DEF Draw, drawing, strips

LEMMA DrawSections ==
    ASSUME StripInv, isMultiColoredSections, NEW number \in SUBSET Sections
    PROVE  Draw(SectionStrips(number), number)
<1> DEFINE strips == SectionStrips(number)
           drawing == {i \in DOMAIN strips : strips[i].isDrawing}
<1>1. PICK m \in Nat : numOfSections <= m /\ DOMAIN strips = 1 .. m
  BY SectionStripsFacts
<1>2. /\ \A i \in 1 .. m : strips[i] \in Strip
      /\ \A i \in 1 .. m : strips[i].isDrawing <=> i - 1 \in number
      /\ \A i \in 1 .. m : i - 1 \in number => strips[i].start = i - 1 /\ strips[i].end = i - 1
  BY <1>1, SectionStripsFacts
<1>3. strips = [i \in 1 .. m |-> strips[i]]
  BY <1>1 DEF SectionStrips
<1> HIDE DEF strips
<1>4. strips \in Seq(Strip)
  BY <1>2, <1>3
<1>5. \A i \in drawing : i \in Int /\ i - 1 \in number /\ strips[i].start = i - 1 /\ strips[i].end = i - 1
  BY <1>1, <1>2
<1>6. ASSUME NEW x \in number PROVE x + 1 \in drawing /\ x \in Int /\ (x + 1) - 1 = x
  <2>1. x \in 0 .. numOfSections - 1 /\ numOfSections \in Nat
    BY SectionsAssumption DEF Sections
  <2>2. x + 1 \in 1 .. m /\ (x + 1) - 1 = x
    BY <1>1, <2>1
  <2> QED
    BY <1>1, <1>2, <2>1, <2>2
<1> HIDE DEF drawing
<1>7. \A i \in drawing : strips[i].start .. strips[i].end = {i - 1}
  BY <1>5
<1>8. UNION {strips[i].start .. strips[i].end : i \in drawing} = number
  <2>1. \A i \in drawing : strips[i].start .. strips[i].end \subseteq number
    BY <1>5, <1>7
  <2>2. \A x \in number : x \in strips[x + 1].start .. strips[x + 1].end
    BY <1>6, <1>7
  <2> QED
    BY <1>6, <2>1, <2>2
<1>9. \A i, k \in drawing :
          i # k => (strips[i].start .. strips[i].end) \cap (strips[k].start .. strips[k].end) = {}
  BY <1>5, <1>7
<1>10. \A i \in drawing : strips[i].start <= strips[i].end
  BY <1>5
<1> QED
  BY <1>4, <1>5, <1>8, <1>9, <1>10 DEF Draw, drawing, strips

LEMMA DrawNothing ==
    ASSUME NEW strips \in Seq(Strip), \A i \in DOMAIN strips : ~strips[i].isDrawing
    PROVE  Draw(strips, {})
<1> DEFINE drawing == {i \in DOMAIN strips : strips[i].isDrawing}
<1>1. drawing = {}
  OBVIOUS
<1>2. drawing = 1 .. 0
  BY <1>1
<1>3. UNION {strips[i].start .. strips[i].end : i \in drawing} = {}
  BY <1>1
<1> QED
  BY <1>1, <1>2, <1>3 DEF Draw

----------------------------------------------------------------------------
(* The steps of the strips *)

LEMMA DrawIsInv ==
    ASSUME StripInv, UNCHANGED isMultiColoredSections, lastNumber' \in SUBSET Sections,
           NEW number \in {lastNumber', {}}, Draw(triStrip', number)
    PROVE  StripInv'
<1>1. Drawing' = {i \in DOMAIN triStrip' : triStrip'[i].isDrawing}
  BY DEF Drawing
<1>2. StripsTypeOK'
  BY DEF StripsTypeOK, StripInv, Draw, Sections, Strip
<1>3. EdgesInOrder' /\ StripsInOrder'
  BY <1>1 DEF EdgesInOrder, StripsInOrder, Draw
<1>4. RecordsOnce'
  BY <1>1 DEF RecordsOnce, Recorded, Extent, Draw
<1> QED
  BY <1>2, <1>3, <1>4 DEF StripInv

LEMMA StripInit == StripsInit => StripInv
<1> SUFFICES ASSUME StripsInit PROVE StripInv
  OBVIOUS
<1>1. IdleStrip \in Strip /\ ~IdleStrip.isDrawing
  BY SectionsAssumption DEF IdleStrip, Strip, Sections
<1>2. triStrip = <<IdleStrip>> /\ lastNumber = {} /\ isMultiColoredSections \in BOOLEAN
  BY DEF StripsInit
<1>3. triStrip \in Seq(Strip) /\ DOMAIN triStrip = 1 .. 1 /\ triStrip[1] = IdleStrip
  BY <1>1, <1>2
<1>4. Drawing = {}
  BY <1>1, <1>3 DEF Drawing
<1>5. StripsTypeOK
  BY <1>2, <1>3 DEF StripsTypeOK
<1>6. Drawing = 1 .. 0
  BY <1>4
<1>7. RecordsOnce
  BY <1>4 DEF RecordsOnce, Recorded
<1> QED
  BY <1>4, <1>5, <1>6, <1>7 DEF StripInv, EdgesInOrder, StripsInOrder

LEMMA AllStoppedDraws ==
    ASSUME StripInv
    PROVE  Draw(AllStopped, {})
<1> DEFINE strips == AllStopped
<1>1. triStrip \in Seq(Strip)
  BY DEF StripInv, StripsTypeOK
<1>2. \A i \in DOMAIN triStrip : /\ Stopped(triStrip[i]) \in Strip
                                /\ ~Stopped(triStrip[i]).isDrawing
  BY <1>1, StripFacts, SectionsAssumption DEF Sections
<1>3. strips = [i \in 1 .. Len(triStrip) |-> Stopped(triStrip[i])]
  BY <1>1 DEF AllStopped
<1>4. Len(triStrip) \in Nat /\ DOMAIN triStrip = 1 .. Len(triStrip)
  BY <1>1
<1> HIDE DEF strips
<1>5. strips \in Seq(Strip)
  BY <1>2, <1>3, <1>4
<1>6. \A i \in DOMAIN strips : ~strips[i].isDrawing
  BY <1>2, <1>3, <1>4
<1> QED
  BY <1>5, <1>6, DrawNothing DEF strips

LEMMA StatusChangeKeeps ==
    ASSUME StripInv, NEW number \in SUBSET Sections, StatusChange(number)
    PROVE  StripInv'
<1>1. lastNumber' = number /\ isMultiColoredSections' = isMultiColoredSections
  BY DEF StatusChange
<1>2. CASE number = lastNumber
  <2>1. triStrip' = triStrip /\ lastNumber' = lastNumber
    BY <1>1, <1>2 DEF StatusChange
  <2> QED
    BY <1>1, <2>1
    DEF StripInv, StripsTypeOK, EdgesInOrder, StripsInOrder, RecordsOnce,
        Drawing, Recorded
<1>3. CASE number # lastNumber /\ number = {}
  <2>1. triStrip' = AllStopped
    BY <1>3 DEF StatusChange
  <2> QED
    BY <1>1, <1>3, <2>1, AllStoppedDraws, DrawIsInv
<1>4. CASE number # lastNumber /\ number # {} /\ isMultiColoredSections
  <2>1. triStrip' = SectionStrips(number)
    BY <1>4 DEF StatusChange
  <2> QED
    BY <1>1, <1>4, <2>1, DrawSections, DrawIsInv
<1>5. CASE number # lastNumber /\ number # {} /\ ~isMultiColoredSections
  <2>1. triStrip' = ZoneStrips(number)
    BY <1>5 DEF StatusChange
  <2> QED
    BY <1>1, <1>5, <2>1, DrawZones, DrawIsInv
<1> QED
  BY <1>2, <1>3, <1>4, <1>5

LEMMA ClearStripsKeeps ==
    ASSUME StripInv, ClearStrips
    PROVE  StripInv'
<1>1. IdleStrip \in Strip /\ ~IdleStrip.isDrawing
  BY SectionsAssumption DEF IdleStrip, Strip, Sections
<1>2. triStrip' = <<IdleStrip>> /\ UNCHANGED <<isMultiColoredSections, lastNumber>>
  BY DEF ClearStrips
<1>3. Draw(<<IdleStrip>>, {})
  <2> DEFINE strips == <<IdleStrip>>
  <2>1. strips \in Seq(Strip) /\ \A i \in DOMAIN strips : strips[i] = IdleStrip
    BY <1>1
  <2> HIDE DEF strips
  <2>2. Draw(strips, {})
    BY <1>1, <2>1, DrawNothing
  <2> QED
    BY <2>2 DEF strips
<1>4. lastNumber' \in SUBSET Sections
  BY <1>2 DEF StripInv, StripsTypeOK, Sections
<1> QED
  BY <1>2, <1>3, <1>4, DrawIsInv

LEMMA StripStep == StripInv /\ [StripsNext]_stripVars => StripInv'
<1> SUFFICES ASSUME StripInv, [StripsNext]_stripVars PROVE StripInv'
  OBVIOUS
<1>1. ASSUME NEW number \in SUBSET Sections, StatusChange(number) PROVE StripInv'
  BY <1>1, StatusChangeKeeps DEF Sections
<1>2. CASE UNCHANGED stripVars
  BY <1>2
  DEF stripVars, StripInv, StripsTypeOK, EdgesInOrder, StripsInOrder, RecordsOnce,
      Drawing, Recorded
<1> QED
  BY <1>1, <1>2, ClearStripsKeeps DEF StripsNext

(* The strips record exactly the sections that were mapping at the last     *)
(* change, or nothing in a field just opened, and no ground twice           *)
(* (the settling of triStrip in processSectionLookahead), for any number of *)
(* sections and any sets of them in any order.                              *)
THEOREM StripsOnce == StripsSpec => []RecordsOnce
<1>1. StripInv => RecordsOnce
  BY DEF StripInv
<1> QED
  BY <1>1, StripInit, StripStep, PTL DEF StripsSpec

(* A strip that goes on with its patch overlaps its former self.            *)
LEMMA NoJump ==
    ASSUME StripInv, [StripsNext]_stripVars, NEW i \in Drawing,
           i \in DOMAIN triStrip', triStrip'[i].isDrawing, ~triStrip'[i].isNewPatch
    PROVE  Extent(triStrip[i]) \cap Extent(triStrip'[i]) # {}
<1> DEFINE old == triStrip[i]
           new == triStrip'[i]
<1>1. i \in DOMAIN triStrip /\ old.isDrawing /\ old \in Strip /\ old.start <= old.end
  BY DEF StripInv, EdgesInOrder, Drawing, StripsTypeOK
<1>2. old.start \in Nat /\ old.end \in Nat
  BY <1>1 DEF Strip, Sections
\* It stays where it was.
<1>3. ASSUME new.start = old.start, new.end = old.end
      PROVE  Extent(old) \cap Extent(new) # {}
  BY <1>1, <1>2, <1>3 DEF Extent
<1>4. CASE UNCHANGED triStrip
  BY <1>3, <1>4
<1>5. CASE ClearStrips
  <2>1. triStrip' = <<IdleStrip>>
    BY <1>5 DEF ClearStrips
  <2>2. new = IdleStrip
    BY <2>1
  <2> QED
    BY <2>2 DEF IdleStrip
<1>6. ASSUME NEW number \in SUBSET Sections, StatusChange(number)
      PROVE  Extent(old) \cap Extent(new) # {}
  <2>1. CASE number = lastNumber
    BY <1>4, <1>6, <2>1 DEF StatusChange
  <2>2. CASE number # lastNumber /\ number = {}
    <3>1. triStrip' = AllStopped
      BY <1>6, <2>2 DEF StatusChange
    <3>2. new = Stopped(old)
      BY <1>1, <3>1 DEF AllStopped
    <3> QED
      BY <1>1, <3>2, StripFacts, SectionsAssumption DEF Sections
  <2>3. CASE number # lastNumber /\ number # {} /\ isMultiColoredSections
    <3>1. triStrip' = SectionStrips(number)
      BY <1>6, <2>3 DEF StatusChange
    <3>2. new.start = i - 1 /\ new.end = i - 1
      BY <3>1, SectionStripsFacts
    <3>3. old.start = i - 1 /\ old.end = i - 1
      BY <2>3 DEF StripInv, StripsInOrder
    <3> QED
      BY <1>3, <3>2, <3>3
  <2>4. CASE number # lastNumber /\ number # {} /\ ~isMultiColoredSections
    <3> DEFINE n == ZoneCount(number)
               start == ZoneStart(i, number)
               end == ZoneEnd(i, number)
    <3>1. triStrip' = ZoneStrips(number)
      BY <1>6, <2>4 DEF StatusChange
    <3>2. i <= n /\ i \in 1 .. n /\ new.start = start /\ new.end = end /\ CanContinue(number)
      BY <1>1, <2>4, <3>1, ZoneStripsFacts DEF StripInv, StripsTypeOK
    <3>3. start <= old.end /\ end >= old.start
      BY <3>2 DEF CanContinue
    <3>4. start \in Nat /\ end \in Nat /\ start <= end
      <4>1. start \in number /\ end \in number /\ start <= end
        BY <3>2, Zones
      <4> HIDE DEF start, end
      <4>2. number \subseteq Nat
        BY DEF Sections
      <4> QED
        BY <4>1, <4>2
    <3> HIDE DEF start, end
    <3>5. CASE old.start <= start
      BY <1>1, <1>2, <3>2, <3>3, <3>4, <3>5 DEF Extent
    <3>6. CASE start <= old.start
      BY <1>1, <1>2, <3>2, <3>3, <3>4, <3>6 DEF Extent
    <3> QED
      BY <1>2, <3>4, <3>5, <3>6
  <2> QED
    BY <2>1, <2>2, <2>3, <2>4
<1>7. Sections = Sections
  BY DEF Sections
<1> QED
  BY <1>4, <1>5, <1>6, <1>7 DEF StripsNext, stripVars

(* No patch of a strip spans ground that the implement has never covered:   *)
(* a strip that goes on with its patch, between whatever sections, overlaps *)
(* what it recorded before (CPatches, processSectionLookahead).             *)
THEOREM StripsDoNotJump == StripsSpec => NoPatchJumps
<1>1. StripInv /\ [StripsNext]_stripVars
        => \A i \in Drawing :
             i \in DOMAIN triStrip' /\ triStrip'[i].isDrawing /\ ~triStrip'[i].isNewPatch
                => Extent(triStrip[i]) \cap Extent(triStrip'[i]) # {}
  BY NoJump
<1> QED
  BY <1>1, StripInit, StripStep, PTL DEF StripsSpec, NoPatchJumps

----------------------------------------------------------------------------
(* 4. The composition *)

(* A step of the composition is a step of section control or leaves it      *)
(* alone.                                                                   *)
LEMMA NextIsSectionControl == [FWNext]_fwVars => [Next]_vars
<1> SUFFICES ASSUME [FWNext]_fwVars PROVE [Next]_vars
  OBVIOUS
<1>1. CASE FWButtons
  BY <1>1 DEF FWButtons, Next, Operator
<1>2. CASE FWOpenField \/ FWCloseField \/ FWSwitchField
  BY <1>2 DEF FWOpenField, FWCloseField, FWSwitchField, Next, Operator
<1>3. CASE FWFix \/ FWPaint \/ FWProcessFrame
  BY <1>3 DEF FWFix, FWPaint, FWProcessFrame, Next, Frame
<1>4. CASE UNCHANGED fwVars
  BY <1>4 DEF fwVars
<1> QED
  BY <1>1, <1>2, <1>3, <1>4 DEF FWNext

(* Recording beside section control changes nothing of it.                  *)
THEOREM Implements == FWSpec => Spec
<1>1. FWInit => Init
  BY DEF FWInit
<1> QED
  BY <1>1, NextIsSectionControl, PTL DEF FWSpec, Spec

(* The variables of section control keep their types, with the strips       *)
(* beside them (CSection, the button states, PGN 254).                      *)
THEOREM FWTypeCorrect == FWSpec => []TypeOK
BY Implements, TypeCorrect, PTL

(* What a section is asked to do it is doing or on its way to, whatever     *)
(* fields are opened, closed and switched (processSectionLookahead).        *)
THEOREM FWObeyed == FWSpec => []RequestsAreObeyed
BY Implements, Obeyed, PTL

(* A section in Auto that leaves the boundary is shut by the next frame.    *)
THEOREM FWOutside == FWSpec => []OutsideStopsAtOnce
BY Implements, Outside, PTL

(* Every section keeps the promise of SectionSwitch.                        *)
THEOREM FWRefinement == FWSpec => SectionsAreSwitches
BY Implements, Refinement, PTL

----------------------------------------------------------------------------
(* lastNumber and the mapping flags *)

LEMMA ButtonsKeepMapping ==
    ASSUME NEW buttons, SetSectionButtonState(buttons), IInv
    PROVE  MappingSections(section') = MappingSections(section)
BY DEF SetSectionButtonState, CommandOf, MappingSections, IInv, SectionsOK, CSection

LEMMA CloseKeepsMapping ==
    ASSUME JobClose, IInv
    PROVE  MappingSections(section') = MappingSections(section)
<1>1. \A j \in Sections : section[j] \in CSection
  BY DEF IInv, SectionsOK
<1>2. \A j \in Sections : AfterClose(section[j]).isMappingOn = section[j].isMappingOn
  BY <1>1 DEF AfterClose, CommandOf, CSection
<1>3. section' = [j \in Sections |-> AfterClose(section[j])]
  BY DEF JobClose
<1> QED
  BY <1>2, <1>3 DEF MappingSections

(* The set the strips were last settled for is the set of sections that map *)
(* now, also in a field just opened, where neither was reset                *)
(* (processSectionLookahead, JobClose): no change of a flag escapes them.   *)
THEOREM StripsFollow == FWSpec => [](lastNumber = MappingSections(section))
<1> DEFINE Follows == lastNumber = MappingSections(section)
<1>1. FWInit => Follows
  BY DEF FWInit, Init, NewSection, MappingSections, StripsInit
<1>2. IInv /\ Follows /\ [FWNext]_fwVars => Follows'
  <2> SUFFICES ASSUME IInv, Follows, [FWNext]_fwVars PROVE Follows'
    OBVIOUS
  <2>1. CASE FWButtons
    BY <2>1, ButtonsKeepMapping
    DEF FWButtons, ClickSection, ManualOn, ManualOff, AutoOn, AutoOff,
        SetAllSectionsToState, stripVars
  <2>2. CASE FWCloseField \/ FWSwitchField
    BY <2>2, CloseKeepsMapping
    DEF FWCloseField, FWSwitchField, CloseField, SwitchField, ClearStrips
  <2>3. CASE FWProcessFrame
    BY <2>3 DEF FWProcessFrame, StatusChange
  <2>4. CASE FWOpenField \/ FWFix \/ FWPaint \/ UNCHANGED fwVars
    BY <2>4
    DEF FWOpenField, FWFix, FWPaint, fwVars, vars, stripVars, OpenField,
        UpdateFixPosition, PaintDone
  <2> QED
    BY <2>1, <2>2, <2>3, <2>4 DEF FWNext
<1> QED
  BY <1>1, <1>2, Implements, Invariant, PTL DEF FWSpec

(* A step of the composition is a step of the strips or leaves them alone.  *)
LEMMA NextIsStrips == [FWNext]_fwVars => [StripsNext]_stripVars
<1> SUFFICES ASSUME [FWNext]_fwVars PROVE [StripsNext]_stripVars
  OBVIOUS
<1>1. CASE FWButtons \/ FWOpenField \/ FWFix \/ FWPaint \/ UNCHANGED fwVars
  BY <1>1 DEF FWButtons, FWOpenField, FWFix, FWPaint, fwVars, stripVars, stripVars
<1>2. CASE FWCloseField \/ FWSwitchField
  BY <1>2 DEF FWCloseField, FWSwitchField, StripsNext
<1>3. CASE FWProcessFrame
  <2>1. MappingSections(section') \in SUBSET Sections
    BY DEF MappingSections, Sections
  <2> QED
    BY <1>3, <2>1 DEF FWProcessFrame, StripsNext
<1> QED
  BY <1>1, <1>2, <1>3 DEF FWNext

(* Section control drives the strips only in ways that PatchStrips allows.  *)
THEOREM StripsImplemented == FWSpec => StripsSpec
<1>1. FWInit => StripsInit
  BY DEF FWInit
<1> QED
  BY <1>1, NextIsStrips, PTL DEF FWSpec, StripsSpec

(* The strips record the sections that are mapping, all of them or, in a    *)
(* field just opened, none, and no section twice                            *)
(* (processSectionLookahead, JobClose).                                     *)
THEOREM Records == FWSpec => []RecordsMappingSections
<1>1. StripInv /\ lastNumber = MappingSections(section) => RecordsMappingSections
  BY DEF StripInv, RecordsMappingSections
<1> QED
  BY <1>1, StripInit, StripStep, StripsImplemented, StripsFollow, PTL DEF StripsSpec
=============================================================================
