--------------------------- MODULE PatchRecording ---------------------------
(***************************************************************************)
(* The recorded area: the patches that the strips (CPatches) grow while    *)
(* sections map, the list of patches that wait to be written, and the      *)
(* Sections.txt file of every field.                                       *)
(*                                                                         *)
(* The area is counted in the pairs of triangles that AddMappingPoint adds; *)
(* where the ground lies is left out.  Every pair is tagged with the field *)
(* it was recorded in.                                                     *)
(***************************************************************************)
EXTENDS Integers, FiniteSets, Functions

CONSTANTS
    Strips,         \* the strips of triStrip
    Fields,
    None,           \* no field is open
    NoList,         \* a null triangleList
    MaxTriangles,   \* 61: pairs in a patch before it is cut off
    CloseMayFail,   \* whether Sections.txt may fail to open when a field is closed
    MaxPairs        \* bound: pairs recorded in one field

ASSUME StripsAssumption == IsFiniteSet(Strips) /\ Strips # {}
ASSUME FieldsAssumption == IsFiniteSet(Fields)
ASSUME NoneAssumption == None \notin Fields
ASSUME ListAssumption == NoList \notin Nat
ASSUME TrianglesAssumption == MaxTriangles \in Nat \ {0}
ASSUME CloseAssumption == CloseMayFail \in BOOLEAN

VARIABLES
    currentFieldDirectory,  \* the open field, or None if no job is started
    isStuck,                \* the main thread waits for a lock that it holds itself
    isMultiColoredSections,
    strip,                  \* [Strips -> CPatches]
    patchSaveList,          \* [Fields -> Nat]: pairs not yet written
    sectionsTxt             \* [Fields -> [Fields -> Nat]]: pairs in each file

vars == <<currentFieldDirectory, isStuck, isMultiColoredSections, strip, patchSaveList, sectionsTxt>>

(* triangleList is the patch being grown, and shown counts the pairs of the  *)
(* finished patches of patchList, which the map draws.                       *)
CPatches == [isDrawing : BOOLEAN,
             triangleList : Nat \cup {NoList},
             numTriangles : Nat,
             shown : Nat]

NewStrip == [isDrawing |-> FALSE, triangleList |-> 0, numTriangles |-> 0, shown |-> 0]

Nothing == [g \in Fields |-> 0]

Total(counts) == FoldFunction(+, 0, counts)

Drawing == {s \in Strips : strip[s].isDrawing}

Shown == Total([s \in Strips |-> strip[s].shown])

Growing == Total([s \in Strips |-> IF s \in Drawing THEN strip[s].triangleList ELSE 0])

ListMissing == \E s \in Drawing : strip[s].triangleList = NoList

(* The bound: room for as many more pairs, and one for every drawing strip   *)
(* when it stops.                                                            *)
Room(pairs) == Shown + Growing + pairs + Cardinality(Drawing) <= MaxPairs

Init ==
    /\ currentFieldDirectory = None
    /\ isStuck = FALSE
    /\ isMultiColoredSections \in BOOLEAN
    /\ strip = [s \in Strips |-> NewStrip]
    /\ patchSaveList = Nothing
    /\ sectionsTxt = [f \in Fields |-> Nothing]

----------------------------------------------------------------------------
(* CPatches *)

(* The pairs that a strip cuts off when it grows by one. *)
CutOff(p) == IF p.numTriangles + 1 > MaxTriangles THEN p.triangleList + 1 ELSE 0

(* AddMappingPoint: one more pair; a patch grown too long is set aside to be *)
(* saved and a new one starts at the same edge.                              *)
AddMappingPoint(p) ==
    IF CutOff(p) > 0
    THEN [p EXCEPT !.triangleList = 0, !.numTriangles = 0, !.shown = @ + CutOff(p)]
    ELSE [p EXCEPT !.triangleList = @ + 1, !.numTriangles = @ + 1]

(* TurnMappingOff: a last pair, and the patch is set aside unless the last   *)
(* pair has just cut it off, when what is left is too small to keep.         *)
TurnMappingOff(p) ==
    [isDrawing |-> FALSE, triangleList |-> 0, numTriangles |-> 0,
     shown |-> AddMappingPoint(p).shown + AddMappingPoint(p).triangleList]

SetAside(p) == CutOff(p) + AddMappingPoint(p).triangleList

(* TurnMappingOn starts a patch; on a strip that draws already it only       *)
(* resets the count of triangles.                                            *)
TurnMappingOn(p) ==
    IF p.isDrawing THEN [p EXCEPT !.numTriangles = 0]
    ELSE [p EXCEPT !.isDrawing = TRUE, !.triangleList = 0, !.numTriangles = 0]

Queue(pairs) == [patchSaveList EXCEPT ![currentFieldDirectory] = @ + pairs]

----------------------------------------------------------------------------
(* The strips at work.  Which strips start, move and stop is decided in     *)
(* PatchStrips; here any may.                                               *)

IsOpen == currentFieldDirectory # None

IsAtWork == IsOpen /\ ~isStuck

StartStrip(s) ==
    /\ IsAtWork
    /\ ~strip[s].isDrawing
    /\ ~ListMissing
    /\ Room(1)
    /\ strip' = [strip EXCEPT ![s] = TurnMappingOn(@)]
    /\ UNCHANGED <<currentFieldDirectory, isStuck, isMultiColoredSections, patchSaveList, sectionsTxt>>

(* With one strip per section, a change of another section turns this one on *)
(* again while it draws.                                                     *)
RestartStrip(s) ==
    /\ IsAtWork
    /\ isMultiColoredSections
    /\ strip[s].isDrawing
    /\ strip' = [strip EXCEPT ![s] = TurnMappingOn(@)]
    /\ UNCHANGED <<currentFieldDirectory, isStuck, isMultiColoredSections, patchSaveList, sectionsTxt>>

(* With one colour a strip that goes on between other sections grows by a    *)
(* pair at its old edges and a pair at its new ones.                         *)
MoveStrip(s) ==
    /\ IsAtWork
    /\ ~isMultiColoredSections
    /\ strip[s].isDrawing
    /\ strip[s].triangleList # NoList
    /\ Room(2)
    /\ patchSaveList' = Queue(CutOff(strip[s]) + CutOff(AddMappingPoint(strip[s])))
    /\ strip' = [strip EXCEPT ![s] = AddMappingPoint(AddMappingPoint(@))]
    /\ UNCHANGED <<currentFieldDirectory, isStuck, isMultiColoredSections, sectionsTxt>>

StopStrip(s) ==
    /\ IsAtWork
    /\ strip[s].isDrawing
    /\ strip[s].triangleList # NoList
    /\ patchSaveList' = Queue(SetAside(strip[s]))
    /\ strip' = [strip EXCEPT ![s] = TurnMappingOff(@)]
    /\ UNCHANGED <<currentFieldDirectory, isStuck, isMultiColoredSections, sectionsTxt>>

(* Every drawing strip grows by a pair after each step of ground. *)
AddSectionOrPathPoints ==
    /\ IsAtWork
    /\ Drawing # {}
    /\ ~ListMissing
    /\ Room(Cardinality(Drawing))
    /\ patchSaveList' =
          Queue(Total([s \in Strips |-> IF s \in Drawing THEN CutOff(strip[s]) ELSE 0]))
    /\ strip' = [s \in Strips |-> IF s \in Drawing THEN AddMappingPoint(strip[s]) ELSE strip[s]]
    /\ UNCHANGED <<currentFieldDirectory, isStuck, isMultiColoredSections, sectionsTxt>>

----------------------------------------------------------------------------
(* Files *)

(* FileSaveSections appends what waits to the file of field f. *)
Appended(files, f, pairs) ==
    [files EXCEPT ![f] = [g \in Fields |-> @[g] + pairs[g]]]

(* The save in the background.  A file that cannot be opened leaves the list *)
(* for the next time, which is no step at all.                               *)
AutoSave ==
    /\ IsAtWork
    /\ Total(patchSaveList) > 0
    /\ sectionsTxt' = Appended(sectionsTxt, currentFieldDirectory, patchSaveList)
    /\ patchSaveList' = Nothing
    /\ UNCHANGED <<currentFieldDirectory, isStuck, isMultiColoredSections, strip>>

(* The save list once the open field has stopped all its strips. *)
Stopped == Queue(Total([s \in Strips |-> IF s \in Drawing THEN SetAside(strip[s]) ELSE 0]))

(* A slip: the sections are saved before the strips are stopped. *)
AfterCloseSavingFirst(isSaved) ==
    IF ~IsOpen \/ ~isSaved
    THEN [list |-> IF IsOpen THEN Stopped ELSE patchSaveList, files |-> sectionsTxt]
    ELSE [list |-> [f \in Fields |-> Stopped[f] - patchSaveList[f]],
          files |-> Appended(sectionsTxt, currentFieldDirectory, patchSaveList)]

(* FileSaveEverythingBeforeClosingField does nothing if no field is open.    *)
(* Otherwise it stops all strips and saves; a save that fails leaves the     *)
(* list as it is.  JobClose then drops the strips.                           *)
AfterClose(isSaved) ==
    IF ~IsOpen \/ ~isSaved
    THEN [list |-> IF IsOpen THEN Stopped ELSE patchSaveList, files |-> sectionsTxt]
    ELSE [list |-> Nothing, files |-> Appended(sectionsTxt, currentFieldDirectory, Stopped)]

MayClose(isSaved) ==
    /\ ~isStuck
    /\ ~ListMissing
    /\ isSaved \/ (IsOpen /\ CloseMayFail)

NewStrips == [s \in Strips |-> NewStrip]

(* FileOpenField puts the patches of the file into the first strip. *)
Loaded(pairs) == [NewStrips EXCEPT ![CHOOSE s \in Strips : TRUE].shown = Total(pairs)]

(* field_close, and the way out of the program.  field_open of a field that  *)
(* is not there comes to the same.                                           *)
CloseField(isSaved) ==
    /\ IsOpen
    /\ MayClose(isSaved)
    /\ patchSaveList' = AfterClose(isSaved).list
    /\ sectionsTxt' = AfterClose(isSaved).files
    /\ strip' = NewStrips
    /\ currentFieldDirectory' = None
    /\ UNCHANGED <<isStuck, isMultiColoredSections>>

OpenField(f, isSaved) ==
    /\ MayClose(isSaved)
    /\ patchSaveList' = AfterClose(isSaved).list
    /\ sectionsTxt' = AfterClose(isSaved).files
    /\ strip' = Loaded(AfterClose(isSaved).files[f])
    /\ currentFieldDirectory' = f
    /\ UNCHANGED <<isStuck, isMultiColoredSections>>

(* field_new; FileCreateSections overwrites a file that is there. *)
CreateField(f, isSaved) ==
    /\ MayClose(isSaved)
    /\ patchSaveList' = AfterClose(isSaved).list
    /\ sectionsTxt' = [AfterClose(isSaved).files EXCEPT ![f] = Nothing]
    /\ strip' = NewStrips
    /\ currentFieldDirectory' = f
    /\ UNCHANGED <<isStuck, isMultiColoredSections>>

(* A slip: the patches of the existing field are not put on the save list. *)
CreateFieldFromUnsaved(g, f, isMapped, isSaved) ==
    /\ g # f
    /\ MayClose(isSaved)
    /\ patchSaveList' = AfterClose(isSaved).list
    /\ sectionsTxt' = [AfterClose(isSaved).files EXCEPT ![f] = Nothing]
    /\ strip' = IF isMapped THEN Loaded(AfterClose(isSaved).files[g]) ELSE NewStrips
    /\ currentFieldDirectory' = f
    /\ UNCHANGED <<isStuck, isMultiColoredSections>>

(* field_new_from opens the existing field g, with its patches if they are   *)
(* asked for, changes to the new name, puts the patches on the save list and *)
(* saves.  The copies are the new field's own.                               *)
CreateFieldFrom(g, f, isMapped, isSaved) ==
    /\ g # f
    /\ MayClose(isSaved)
    /\ LET closed == AfterClose(isSaved)
           copied == IF isMapped THEN Total(closed.files[g]) ELSE 0
       IN  /\ sectionsTxt' = Appended([closed.files EXCEPT ![f] = Nothing], f,
                                      [closed.list EXCEPT ![f] = @ + copied])
           /\ strip' = IF isMapped THEN Loaded(closed.files[g]) ELSE NewStrips
    /\ patchSaveList' = Nothing
    /\ currentFieldDirectory' = f
    /\ UNCHANGED <<isStuck, isMultiColoredSections>>

(* field_new_from_KML takes the write lock before it calls                   *)
(* FileSaveEverythingBeforeClosingField, which takes it again if a field is  *)
(* open; the lock is not recursive.                                          *)
CreateFieldFromKML(f) ==
    /\ ~isStuck
    /\ isStuck' = IsOpen
    /\ IF IsOpen
       THEN UNCHANGED <<currentFieldDirectory, strip, sectionsTxt>>
       ELSE /\ currentFieldDirectory' = f
            /\ strip' = NewStrips
            /\ sectionsTxt' = [sectionsTxt EXCEPT ![f] = Nothing]
    /\ UNCHANGED <<isMultiColoredSections, patchSaveList>>

(* field_delete.  It does not ask whether the field is open; the model       *)
(* deletes only the others.                                                  *)
DeleteField(f) ==
    /\ ~isStuck
    /\ f # currentFieldDirectory
    /\ sectionsTxt' = [sectionsTxt EXCEPT ![f] = Nothing]
    /\ UNCHANGED <<currentFieldDirectory, isStuck, isMultiColoredSections, strip, patchSaveList>>

(* A slip: the save list is dropped, not emptied. *)
DeleteAppliedAreaAndList ==
    /\ IsAtWork
    /\ strip' = [s \in Strips |-> [strip[s] EXCEPT !.triangleList = NoList, !.shown = 0]]
    /\ patchSaveList' = [g \in Fields |-> NoList]
    /\ sectionsTxt' = [sectionsTxt EXCEPT ![currentFieldDirectory] = Nothing]
    /\ UNCHANGED <<currentFieldDirectory, isStuck, isMultiColoredSections>>

(* onDeleteAppliedArea_clicked empties the strips' lists, the save list and  *)
(* the file.  It drops the patch being grown and does not stop the strip.    *)
DeleteAppliedArea ==
    /\ IsAtWork
    /\ strip' = [s \in Strips |-> [strip[s] EXCEPT !.triangleList = NoList, !.shown = 0]]
    /\ patchSaveList' = Nothing
    /\ sectionsTxt' = [sectionsTxt EXCEPT ![currentFieldDirectory] = Nothing]
    /\ UNCHANGED <<currentFieldDirectory, isStuck, isMultiColoredSections>>

(* The program ends without saving: the power goes, a drawing strip grows a  *)
(* list it does not have, or a program that hangs is ended.                  *)
Crash ==
    /\ currentFieldDirectory' = None
    /\ isStuck' = FALSE
    /\ strip' = NewStrips
    /\ patchSaveList' = Nothing
    /\ UNCHANGED <<isMultiColoredSections, sectionsTxt>>

Next ==
    \/ \E s \in Strips : StartStrip(s) \/ RestartStrip(s) \/ MoveStrip(s) \/ StopStrip(s)
    \/ AddSectionOrPathPoints
    \/ AutoSave
    \/ \E isSaved \in BOOLEAN :
          \/ CloseField(isSaved)
          \/ \E f \in Fields : OpenField(f, isSaved) \/ CreateField(f, isSaved)
          \/ \E f, g \in Fields, isMapped \in BOOLEAN : CreateFieldFrom(g, f, isMapped, isSaved)
    \/ \E f \in Fields : CreateFieldFromKML(f) \/ DeleteField(f)
    \/ DeleteAppliedArea
    \/ Crash

Spec == Init /\ [][Next]_vars

----------------------------------------------------------------------------
TypeOK ==
    /\ currentFieldDirectory \in Fields \cup {None}
    /\ isStuck \in BOOLEAN
    /\ isMultiColoredSections \in BOOLEAN
    /\ strip \in [Strips -> CPatches]
    /\ patchSaveList \in [Fields -> Nat]
    /\ sectionsTxt \in [Fields -> [Fields -> Nat]]

(* The finished patches on the map are those in the field's file and those   *)
(* that wait to be written: none is drawn that will not be saved, and none   *)
(* is saved twice or not drawn.                                              *)
MapMatchesFile ==
    IsOpen => Shown = Total(sectionsTxt[currentFieldDirectory]) + Total(patchSaveList)

(* A field's file holds only what was recorded in that field. *)
OwnPatchesOnly ==
    \A f, g \in Fields : f # g => sectionsTxt[f][g] = 0

(* Does not hold.                                                            *)
(* "//shouldn't we clean out triStrip too?" (formgps_ui.cpp:1539): a strip   *)
(* that draws has a list to grow.                                            *)
DrawingStripHasList == ~ListMissing

(* Does not hold.                                                            *)
(* "CRITICAL DEADLOCK FIX: Save current field AFTER releasing lock (same as  *)
(* field_close fix)" (formgps_ui_field.cpp:102): creating a field never      *)
(* leaves the main thread waiting for itself.                                *)
MainThreadGoesOn == ~isStuck
=============================================================================
