------------------------------ MODULE Headland ------------------------------
(***************************************************************************)
(* The headland of the outer boundary (CBoundaryList::hdLine): the two     *)
(* designers that make it (FormHeadland, FormHeadache), the headlines of   *)
(* the second (CHeadLine, whose index both designers set), the files they  *)
(* are kept in, and the hydraulic lift, which raises the tool in it        *)
(* (CBoundary::SetHydPosition).                                            *)
(*                                                                         *)
(* A headland is known by the boundary it was made for and by the click    *)
(* that made it; what the designers do to the spacing, headings and ends   *)
(* of a line is left out, and so are inner boundaries.                     *)
(***************************************************************************)
EXTENDS Naturals, Sequences, SequencesExt, FiniteSets

CONSTANTS
    Fields,
    Points,                 \* the points of a boundary that can be clicked, in their order
    MaxFences,              \* bound: outer boundaries made
    MaxLines,               \* bound: headlines
    MaxInputs               \* bound: clicks

ASSUME HeadlandAssumption ==
    /\ Points \subseteq Nat \ {0}
    /\ MaxFences \in Nat /\ MaxLines \in Nat /\ MaxInputs \in Nat

VARIABLES
    field, isJobStarted,
    outer, fences,          \* the outer boundary, 0 for none; how many were made
    hdLine,                 \* its headland
    files,                  \* of each field; the headlines are those of the file, if there is one
    open,                   \* the designer on the screen
    start,                  \* by designer: its A, and the boundary A is a point of
    slice, backupList,      \* FormHeadland: the line that cuts, and the headland before the cut
    counts,                 \* sliceCount and backupCount above zero: Slice and Undo are enabled
    tracksArr, idx,         \* the headlines, and the selected one; 0 is the code's -1
    isHeadlandOn, isHydLiftOn, hydLift, btnHydLift, isAuto, outerPointsIn,
    left,                   \* the file written as a designer was last closed, the boundary the same
    keeps,                  \* by field: the headland and headlines as designers left them, if known
    lifted,                 \* the user has switched the lift on in this field
    inputs

designVars == <<start, slice, backupList, counts>>
lineVars == <<tracksArr, idx>>
fieldVars == <<field, isJobStarted, outer, fences>>
liftVars == <<isHydLiftOn, hydLift, btnHydLift, isAuto, lifted>>
vars == <<fieldVars, hdLine, files, open, designVars, lineVars, isHeadlandOn, liftVars,
          outerPointsIn, left, keeps, inputs>>

None == "none"
Designers == {"headland", "headache"}
NoHeadland == [of |-> 0, click |-> 0]
Fence == [of |-> outer, click |-> 0]
\* A headland this click makes.
Made(of) == [of |-> of, click |-> inputs + 1]
NoA == [point |-> 0, of |-> 0]

Init ==
    /\ field \in Fields /\ isJobStarted = FALSE /\ outer = 0 /\ fences = 0
    /\ hdLine = NoHeadland
    /\ files = [f \in Fields |-> [outer |-> 0, hdLine |-> NoHeadland, headlines |-> {}]]
    /\ open = None
    /\ start = [d \in Designers |-> NoA]
    /\ slice = None /\ backupList = NoHeadland /\ counts = {}
    /\ tracksArr = <<>> /\ idx = 0
    /\ isHeadlandOn = FALSE /\ isHydLiftOn = FALSE /\ hydLift = 0 /\ btnHydLift = FALSE
    /\ isAuto = FALSE /\ outerPointsIn \in BOOLEAN
    /\ left = None /\ keeps = [f \in Fields |-> [hdLine |-> {}, headlines |-> {}]]
    /\ lifted = FALSE /\ inputs = 0

-----------------------------------------------------------------------------
\* Files.

\* A mutant: a headland is saved only where there is one.
FileSaveHeadlandOfSome(fs, line) ==
    IF line = NoHeadland THEN fs ELSE [fs EXCEPT ![field].hdLine = line]
FileSaveHeadland(fs, line) == [fs EXCEPT ![field].hdLine = line]
FileSaveBoundary(fs) == [fs EXCEPT ![field].outer = outer]
FileSaveHeadLines(fs, lines) == [fs EXCEPT ![field].headlines = {lines}]

\* Headlines of three points or fewer are not loaded.  Without a file those in memory stay.
Kept(lines) ==
    LET many == {i \in DOMAIN lines : lines[i].points = "many"}
        At(k) == CHOOSE i \in many : Cardinality({j \in many : j <= i}) = k
    IN  [k \in 1..Cardinality(many) |-> lines[At(k)]]
FileLoadHeadLines ==
    IF files[field].headlines = {} THEN tracksArr ELSE Kept(CHOOSE l \in files[field].headlines : TRUE)

\* The headland goes to the outer boundary, whichever it was made for.
LoadedHeadland(f) == IF files[f].outer = 0 THEN NoHeadland ELSE files[f].hdLine

-----------------------------------------------------------------------------
\* FormHeadland.  Without a boundary its handlers would leave the list of boundaries.

Click == inputs < MaxInputs /\ inputs' = inputs + 1
Designing(d) ==
    /\ Click /\ open = d /\ outer # 0
    /\ UNCHANGED <<fieldVars, outerPointsIn, keeps>>
HeadlandClick == Designing("headland") /\ UNCHANGED <<tracksArr, liftVars, isHeadlandOn>>
StaysOpen == UNCHANGED <<open, left, idx>>

\* A headland that is opened without a line starts with the fence.
load_headline ==
    /\ Click /\ open = None /\ outer # 0
    /\ open' = "headland"
    /\ idx' = 0
    /\ start' = [start EXCEPT !["headland"] = NoA]
    /\ slice' = None /\ backupList' = NoHeadland /\ counts' = {}
    /\ hdLine' = IF hdLine = NoHeadland THEN Fence ELSE hdLine
    /\ UNCHANGED <<fieldVars, files, tracksArr, isHeadlandOn, liftVars, outerPointsIn, left, keeps>>

\* The first click is A, the second B: a line between them that is moved inwards, past all
\* its points perhaps.  Both buttons are enabled by the line.
clickedA ==
    /\ HeadlandClick /\ StaysOpen
    /\ start["headland"] = NoA
    /\ \E p \in Points : start' = [start EXCEPT !["headland"] = [point |-> p, of |-> outer]]
    /\ slice' = None /\ counts' = {}
    /\ UNCHANGED <<hdLine, files, backupList>>
SetLineDistance == {None, "line"}
clickedB ==
    /\ HeadlandClick /\ StaysOpen
    /\ start["headland"] # NoA
    /\ start' = [start EXCEPT !["headland"] = NoA]
    /\ \E p \in Points, curveLine \in BOOLEAN, moved \in SetLineDistance :
          IF curveLine /\ p = start["headland"].point
          THEN slice' = "point" /\ UNCHANGED counts
          ELSE slice' = moved /\ counts' = IF moved = None THEN {} ELSE {"slice", "backup"}
    /\ UNCHANGED <<hdLine, files, backupList>>

btnSlice_Click ==
    /\ HeadlandClick /\ StaysOpen
    /\ "slice" \in counts /\ slice # None
    /\ backupList' = hdLine
    /\ \/ UNCHANGED <<hdLine, slice, counts>>       \* Crossings not Found
       \/ /\ slice = "line" /\ hdLine # NoHeadland
          /\ hdLine' = Made(outer)
          /\ slice' = None /\ counts' = {"backup"}
    /\ UNCHANGED <<files, start>>

\* Longer or shorter at an end.
sliceLength ==
    /\ HeadlandClick /\ StaysOpen
    /\ slice # None
    /\ slice' \in {slice, "line"} /\ counts' = counts \cup {"slice"}
    /\ UNCHANGED <<hdLine, files, start, backupList>>

\* The fence, moved inwards: all of it may be too close to itself, or all but three points.
btnBndLoop_Click ==
    /\ HeadlandClick /\ StaysOpen
    /\ \/ UNCHANGED <<hdLine, files>>
       \/ /\ hdLine' \in {Fence, Made(outer), hdLine}
          /\ files' = FileSaveHeadland(files, hdLine')
    /\ UNCHANGED designVars

btnDeletePoints_Click ==
    /\ HeadlandClick /\ StaysOpen
    /\ start' = [start EXCEPT !["headland"] = NoA]
    /\ slice' = None /\ backupList' = NoHeadland /\ counts' = {}
    /\ hdLine' = Fence
    /\ UNCHANGED files

btnUndo_Click ==
    /\ HeadlandClick /\ StaysOpen
    /\ "backup" \in counts
    /\ hdLine' = backupList /\ backupList' = NoHeadland /\ counts' = counts \ {"backup"}
    /\ UNCHANGED <<files, start, slice>>

\* The designer that closes leaves the index of the other one's headlines at the first, when
\* a slice is left.
FormClosing == open' = None /\ left' = "headland" /\ idx' = IF slice = None THEN 0 ELSE 1
btn_Exit_Click ==
    /\ Designing("headland") /\ FormClosing
    /\ files' = FileSaveHeadland(files, hdLine)
    /\ isHeadlandOn' = TRUE
    /\ UNCHANGED <<hdLine, designVars, tracksArr, liftVars>>
\* The byte that is sent stays what it was.
btnHeadlandOff_Click ==
    /\ Designing("headland") /\ FormClosing
    /\ hdLine' = NoHeadland
    /\ files' = FileSaveHeadland(files, NoHeadland)
    /\ isHeadlandOn' = FALSE /\ isHydLiftOn' = FALSE
    /\ UNCHANGED <<designVars, tracksArr, hydLift, btnHydLift, isAuto, lifted>>

-----------------------------------------------------------------------------
\* FormHeadache.  Nearly all it does empties the headland, and only building one saves it.

HeadacheClick ==
    Designing("headache") /\ UNCHANGED <<slice, backupList, counts, liftVars, isHeadlandOn>>
StaysOpenToo == UNCHANGED <<open, left>>

load_headache ==
    /\ Click /\ open = None /\ outer # 0
    /\ open' = "headache"
    /\ idx' = 0 /\ tracksArr' = FileLoadHeadLines
    /\ UNCHANGED <<fieldVars, hdLine, files, designVars, isHeadlandOn, liftVars, outerPointsIn, left,
                   keeps>>

\* Backward goes to the next headline, and forward to the one before.
NextLine == IF tracksArr = <<>> THEN 0 ELSE (idx % Len(tracksArr)) + 1
PreviousLine == IF idx <= 1 THEN Len(tracksArr) ELSE idx - 1
Cycle ==
    /\ HeadacheClick /\ StaysOpenToo
    /\ hdLine' = NoHeadland
    /\ idx' \in {NextLine, PreviousLine}
    /\ UNCHANGED <<files, start, tracksArr>>

headacheA ==
    /\ HeadacheClick /\ StaysOpenToo
    /\ start["headache"] = NoA
    /\ \E p \in Points : start' = [start EXCEPT !["headache"] = [point |-> p, of |-> outer]]
    /\ hdLine' = NoHeadland /\ idx' = 0
    /\ UNCHANGED <<files, tracksArr>>

\* A curve goes to the end of the list, a straight line to its front.  It is saved as drawn,
\* and then moved inwards, which may leave a few of its points or none.
Inserted(line, curveLine) ==
    IF curveLine \/ tracksArr = <<>> THEN <<Append(tracksArr, line), Len(tracksArr) + 1>>
                                     ELSE <<<<line>> \o tracksArr, 1>>
headacheB ==
    /\ HeadacheClick /\ StaysOpenToo
    /\ start["headache"] # NoA
    /\ start' = [start EXCEPT !["headache"] = NoA]
    /\ hdLine' = NoHeadland
    /\ \E p \in Points, curveLine \in BOOLEAN, points \in {"none", "few", "many"} :
          LET a == start["headache"].point
              drawn == Inserted([a |-> a, of |-> outer, points |-> "many"], curveLine)
          IN  IF p = a
              THEN idx' = 0 /\ UNCHANGED <<tracksArr, files>>   \* Start Point = End Point
              ELSE /\ Len(tracksArr) < MaxLines
                   /\ files' = FileSaveHeadLines(files, drawn[1])
                   /\ tracksArr' = [drawn[1] EXCEPT ![drawn[2]].points = points]
                   /\ idx' = drawn[2]

\* A mutant: the index stays with the last headline.
IdxAfterDeletingStale == idx
IdxAfterDeleting ==
    IF Len(tracksArr) <= 1 THEN 0 ELSE IF idx = 1 THEN 1 ELSE idx - 1
btnDeleteCurve_Click ==
    /\ HeadacheClick /\ StaysOpenToo
    /\ tracksArr # <<>>
    /\ IF idx > 0 THEN tracksArr' = RemoveAt(tracksArr, idx) /\ idx' = IdxAfterDeleting
                  ELSE idx' = 1 /\ UNCHANGED tracksArr
    /\ UNCHANGED <<hdLine, files, start>>

\* Nine points are added at an end; of more than eight, five can be taken away, which leaves
\* many.  On a line without points the program reads past its list and ends.
btnLength_Click ==
    /\ HeadacheClick /\ StaysOpenToo
    /\ idx > 0 /\ tracksArr[idx].points # "none"
    /\ tracksArr' = [tracksArr EXCEPT ![idx].points = "many"]
    /\ UNCHANGED <<hdLine, files, start, idx>>

\* The headlines in the order of their A, those with the same one in any, each crossing the
\* next: else there is no headland.
Sorted ==
    {[i \in DOMAIN tracksArr |-> tracksArr[p[i]]] :
        p \in {p \in [DOMAIN tracksArr -> DOMAIN tracksArr] :
                  /\ IsInjective(p)
                  /\ \A i, j \in DOMAIN tracksArr : i < j => tracksArr[p[i]].a <= tracksArr[p[j]].a}}
Source == IF \A i \in DOMAIN tracksArr : tracksArr[i].of = outer THEN outer ELSE 0
BtnBndLoop_Click ==
    /\ HeadacheClick /\ StaysOpenToo
    /\ tracksArr' \in Sorted /\ idx' = 0
    /\ LET saved == FileSaveHeadLines(files, tracksArr')
       IN  \/ hdLine' = NoHeadland /\ files' = saved
           \/ /\ Len(tracksArr) > 1 /\ \A i \in DOMAIN tracksArr : tracksArr[i].points # "none"
              /\ hdLine' = Made(Source) /\ files' = FileSaveHeadland(saved, hdLine')
    /\ UNCHANGED start

btnDeleteHeadland_Click ==
    /\ HeadacheClick /\ StaysOpenToo
    /\ start' = [start EXCEPT !["headache"] = NoA]
    /\ hdLine' = NoHeadland
    /\ UNCHANGED <<files, lineVars>>
btnCancelTouch_Click ==
    /\ HeadacheClick /\ StaysOpenToo
    /\ start' = [start EXCEPT !["headache"] = NoA]
    /\ UNCHANGED <<hdLine, files, lineVars>>

\* A mutant: the headlines are not saved as the designer closes.
LeavesUnsaved(fs) == fs
Leaves(fs) == FileSaveHeadLines(fs, tracksArr)
\* Nothing is connected to the signal of the window that closes: each button saves for itself,
\* OK the headlines and Off the headland.
HeadacheClosing == open' = None /\ UNCHANGED <<lineVars, designVars>>
btnExit_Click ==
    /\ Designing("headache") /\ HeadacheClosing
    /\ left' = "headlines"
    /\ files' = Leaves(files)
    /\ isHeadlandOn' = TRUE
    /\ UNCHANGED <<hdLine, liftVars>>
HeadacheOff ==
    /\ Designing("headache") /\ HeadacheClosing
    /\ left' = "headland"
    /\ hdLine' = NoHeadland
    /\ files' = FileSaveHeadland(files, NoHeadland)
    /\ isHeadlandOn' = FALSE /\ isHydLiftOn' = FALSE
    /\ UNCHANGED <<hydLift, btnHydLift, isAuto, lifted>>

-----------------------------------------------------------------------------
\* The hydraulic lift.

\* The button sets only whether the lift is on: not the byte that is sent.
BtnHydLift ==
    /\ Click /\ open = None
    /\ btnHydLift' = ~btnHydLift /\ isHydLiftOn' = ~btnHydLift
    /\ lifted' = (lifted \/ ~btnHydLift)
    /\ UNCHANGED <<fieldVars, hdLine, files, open, designVars, lineVars, isHeadlandOn, hydLift, isAuto,
                   outerPointsIn, left, keeps>>
onBtnHeadland_clicked ==
    /\ Click /\ open = None
    /\ isHeadlandOn' = ~isHeadlandOn
    /\ IF isHeadlandOn THEN isHydLiftOn' = FALSE /\ hydLift' = 0 ELSE UNCHANGED <<isHydLiftOn, hydLift>>
    /\ UNCHANGED <<fieldVars, hdLine, files, open, designVars, lineVars, btnHydLift, isAuto, lifted,
                   outerPointsIn, left, keeps>>
AutoBtn ==
    /\ Click /\ open = None /\ isJobStarted
    /\ isAuto' = ~isAuto
    /\ UNCHANGED <<fieldVars, hdLine, files, open, designVars, lineVars, isHeadlandOn, isHydLiftOn,
                   hydLift, btnHydLift, lifted, outerPointsIn, left, keeps>>

\* Where the ends of the tool are: as before, when there is no headland.
WhereAreToolCorners ==
    outerPointsIn' \in IF isHeadlandOn /\ outer # 0 /\ hdLine # NoHeadland THEN BOOLEAN ELSE {outerPointsIn}
\* 2 raises the tool and 1 lowers it.  isHeadlandClose: the line is seen ahead.
SetHydPosition(in, isMoving) ==
    hydLift' = IF isHydLiftOn /\ isMoving /\ isAuto THEN (IF in THEN 2 ELSE 1) ELSE hydLift
ProcessFrame ==
    /\ WhereAreToolCorners
    /\ \E isHeadlandClose, isMoving \in BOOLEAN :
          IF isHeadlandOn THEN SetHydPosition(outerPointsIn' /\ ~isHeadlandClose, isMoving)
                          ELSE UNCHANGED hydLift
    /\ UNCHANGED <<fieldVars, hdLine, files, open, designVars, lineVars, isHeadlandOn, isHydLiftOn,
                   btnHydLift, isAuto, lifted, left, keeps, inputs>>

-----------------------------------------------------------------------------
\* Boundaries and fields.

\* Deleted from the list, a boundary stays in its file until the field is closed; its
\* headland stays there for the next boundary.
DeleteBoundary(fs) ==
    /\ Click /\ open = None /\ isJobStarted /\ outer # 0
    /\ outer' = 0 /\ hdLine' = NoHeadland /\ files' = fs /\ left' = None
    /\ keeps' = IF left = None THEN keeps ELSE [keeps EXCEPT ![field].headlines = {}]
    /\ UNCHANGED <<field, isJobStarted, fences, open, designVars, lineVars, isHeadlandOn, liftVars,
                   outerPointsIn>>
boundary_delete == DeleteBoundary(files)
boundary_delete_all == DeleteBoundary([files EXCEPT ![field].outer = 0])
boundary_stop ==
    /\ Click /\ open = None /\ isJobStarted /\ outer = 0 /\ fences < MaxFences
    /\ fences' = fences + 1 /\ outer' = fences + 1
    /\ files' = [files EXCEPT ![field].outer = fences + 1]
    /\ UNCHANGED <<field, isJobStarted, hdLine, open, designVars, lineVars, isHeadlandOn, liftVars,
                   outerPointsIn, left, keeps>>

\* A mutant: the byte stays.
HydLiftAfterCloseKept == hydLift
HydLiftAfterClose == 0
\* FileSaveEverythingBeforeClosingField and JobClose.  The field is also closed by a jump of
\* the position, a designer open or not.
KeptNow ==
    [hdLine |-> IF left = "headland" /\ open = None THEN {hdLine} ELSE {},
     headlines |-> IF left = "headlines" /\ open = None THEN {Kept(tracksArr)} ELSE {}]
JobClose ==
    /\ Click /\ isJobStarted
    /\ isJobStarted' = FALSE
    /\ files' = FileSaveBoundary(files)
    /\ keeps' = [keeps EXCEPT ![field] = KeptNow]
    /\ outer' = 0 /\ hdLine' = NoHeadland
    /\ isHeadlandOn' = FALSE /\ isAuto' = FALSE
    /\ hydLift' = HydLiftAfterClose /\ isHydLiftOn' = FALSE /\ lifted' = FALSE
    /\ left' = None
    /\ UNCHANGED <<field, fences, open, designVars, lineVars, btnHydLift, outerPointsIn>>
FileOpenField ==
    /\ Click /\ open = None /\ ~isJobStarted
    /\ isJobStarted' = TRUE
    /\ \E f \in Fields :
          /\ field' = f /\ outer' = files[f].outer
          /\ hdLine' = LoadedHeadland(f)
          /\ isHeadlandOn' = (LoadedHeadland(f) # NoHeadland)
    /\ UNCHANGED <<fences, files, open, designVars, lineVars, liftVars, outerPointsIn, left, keeps>>

Next ==
    \/ load_headline \/ clickedA \/ clickedB \/ btnSlice_Click \/ sliceLength
    \/ btnBndLoop_Click \/ btnDeletePoints_Click \/ btnUndo_Click \/ btn_Exit_Click
    \/ btnHeadlandOff_Click
    \/ load_headache \/ Cycle \/ headacheA \/ headacheB \/ btnDeleteCurve_Click \/ btnLength_Click
    \/ BtnBndLoop_Click \/ btnDeleteHeadland_Click \/ btnCancelTouch_Click \/ btnExit_Click
    \/ HeadacheOff
    \/ BtnHydLift \/ onBtnHeadland_clicked \/ AutoBtn \/ ProcessFrame
    \/ boundary_delete \/ boundary_delete_all \/ boundary_stop \/ JobClose \/ FileOpenField

Spec == Init /\ [][Next]_vars

-----------------------------------------------------------------------------
(* Properties. *)

\* Types, and the index that both designers set: while the second is open, it is that of a
\* headline or none (CHeadLine::idx).
TypeOK ==
    /\ open = "headache" => idx \in 0..Len(tracksArr)
    /\ Len(tracksArr) <= MaxLines /\ slice \in {None, "point", "line"} /\ counts \subseteq {"slice", "backup"}
    /\ hdLine.of \in 0..MaxFences /\ backupList.of \in 0..MaxFences
    /\ outer \in 0..MaxFences /\ (~isJobStarted => outer = 0) /\ (outer = 0 => hdLine = NoHeadland)
    /\ hydLift \in 0..2
    /\ \A b \in {isJobStarted, isHeadlandOn, isHydLiftOn, btnHydLift, isAuto, outerPointsIn, lifted} :
          b \in BOOLEAN

\* What a designer was left with outlives the field: a field that is opened again has the
\* headland the first designer was closed with, or none after it was switched off in either,
\* and the second designer opens with the headlines it was closed with by OK that have more
\* than three points (FileSaveHeadland, FileSaveHeadLines and what loads them).
DesignsSurvive ==
    [][ /\ isJobStarted' /\ ~isJobStarted /\ keeps[field'].hdLine # {} =>
              {hdLine'} = keeps[field'].hdLine
        /\ open' = "headache" /\ open = None /\ left = None /\ keeps[field].headlines # {} =>
              {tracksArr'} = keeps[field].headlines ]_vars

\* The tool is only ever raised or lowered in a field in which the user has switched the lift
\* on: "make sure hydraulic lift is off" (formgps.cpp), whatever closes the field.
LiftIsOfThisField == hydLift # 0 \/ isHydLiftOn => lifted

\* Does not hold: the second designer's Off saves the headland and not the headlines, and those
\* deleted or made longer since they were last saved come back as they were in the file
\* (btnHeadlandOff_Click; FormHeadLine_FormClosing, which would save them, is not connected).
HeadlinesAreSaved ==
    [][open = "headache" /\ open' = None => FileLoadHeadLines' \in {tracksArr', Kept(tracksArr')}]_vars

\* Does not hold: Undo is enabled by the points of a line that is drawn, and without a cut to
\* take back it empties the headland (formheadland.cpp, HeadlandDesigner.qml).
UndoHasBackup == "backup" \in counts => backupList # NoHeadland

\* Does not hold: the lift's button and both designers' Off leave the byte, which is sent.
LiftOffIsSent == hydLift # 0 => isHydLiftOn

\* Does not hold: the headland of a boundary that was deleted is loaded for the next one, and
\* headlines of the field before are built into a headland where there is no file.
HeadlandFitsBoundary == hdLine # NoHeadland => hdLine.of = outer

\* Does not hold: a designer that is open when a jump of the position closes the field works
\* on the first of no boundaries.
DesignerHasBoundary == open # None => outer # 0

\* Does not hold: A, chosen in a designer that was closed, is drawn and used in another field.
AIsOfThisBoundary == open = "headache" /\ start["headache"] # NoA => start["headache"].of = outer

\* Does not hold: OK switches an empty headland on, and the tool counts as in it or outside
\* as it last was.
HeadlandOnHasLine == isHeadlandOn => hdLine # NoHeadland
=============================================================================
