----------------------------- MODULE FieldWork -----------------------------
(***************************************************************************)
(* Section control and the patch strips together.  A processed frame       *)
(* settles the mapping flags of the sections and then, in the same step,   *)
(* the strips that record them; closing a field stops and clears the       *)
(* strips and resets the master buttons, but neither the mapping flags nor *)
(* the memory of the last change.                                          *)
(***************************************************************************)
EXTENDS SectionControl, PatchStrips

fwVars == <<vars, stripVars>>

FWInit == Init /\ StripsInit

FWButtons ==
    /\ \/ \E j \in Sections : ClickSection(j)
       \/ ManualOn
       \/ ManualOff
       \/ AutoOn
       \/ AutoOff
    /\ UNCHANGED stripVars

FWOpenField == OpenField /\ UNCHANGED stripVars

FWCloseField == CloseField /\ ClearStrips

FWSwitchField == SwitchField /\ ClearStrips

FWFix == UpdateFixPosition /\ UNCHANGED stripVars

FWPaint == PaintDone /\ UNCHANGED stripVars

(* A slip: the strips look at the flags before the frame has settled them. *)
FWProcessFrameStale ==
    /\ ProcessSectionLookahead
    /\ StatusChange(MappingSections(section))

FWProcessFrame ==
    /\ ProcessSectionLookahead
    /\ StatusChange(MappingSections(section'))

FWNext ==
    \/ FWButtons
    \/ FWOpenField
    \/ FWCloseField
    \/ FWSwitchField
    \/ FWFix
    \/ FWPaint
    \/ FWProcessFrame

FWSpec == FWInit /\ [][FWNext]_fwVars

FWFairness ==
    /\ WF_fwVars(FWFix)
    /\ WF_fwVars(FWPaint)
    /\ WF_fwVars(FWProcessFrame)

FWFairSpec == FWSpec /\ FWFairness

----------------------------------------------------------------------------
(* The strips record mapping sections only, and those all or not at all, no *)
(* section twice.                                                           *)
RecordsMappingSections ==
    /\ StripsTypeOK
    /\ lastNumber = MappingSections(section)
    /\ RecordsOnce

(* A section whose button stays Off in an open field is in the end not      *)
(* recorded by any strip.                                                   *)
RecordingStopsWhenOff ==
    \A j \in Sections :
        <>[](isJobStarted /\ sectionButtonState[j] = "Off") => <>[](j \notin Recorded)

(* The buttons are followed to the end: a section left Off is in the end off *)
(* at the module, off the map and in no strip, and one left On is on at the  *)
(* module and on the map, whatever happens to the other buttons meanwhile.   *)
ButtonsAreFollowed == StopsWhenOff /\ WorksWhenOn /\ RecordingStopsWhenOff

(* Does not hold.                                                            *)
(* "//close the existing job and reset everything" (formgps_saveopen.cpp:    *)
(* 898): in a field just opened no section is marked as mapping that no      *)
(* strip records.  While the set of mapping sections does not change, such a *)
(* section works and leaves no trace on the map.                             *)
OpenFieldRecordsMapping ==
    isJobStarted => Recorded = MappingSections(section)
=============================================================================
