----------------------------- MODULE GuidanceLines -----------------------------
(***************************************************************************)
(* The lines that are steered by (CABLine, CABCurve) and the tracks they   *)
(* are made from (CTrack): a line is a pass of one track, built again only *)
(* when something marks it invalid or the vehicle changes to another pass; *)
(* a boundary's curve is built by a job of the thread pool.  And how a new *)
(* track comes about: its points are recorded in a list that CABCurve and  *)
(* CTrack share, by flags that several dialogs set.                        *)
(*                                                                         *)
(* Geometry is abstracted: a track keeps its shape until it is nudged or   *)
(* turned round, and a line either is a pass of the track's present shape  *)
(* or not.  Water pivots are left out, and the curves of fewer than five   *)
(* points that no operation makes.                                         *)
(***************************************************************************)
EXTENDS Tracks

CONSTANTS
    LeastPoints,            \* a curve has more points than that, 3 in the code
    MaxPoints,              \* bound: points recorded for a track
    MaxInputs,              \* bound: clicks
    MaxJobs                 \* bound: jobs in the thread pool

ASSUME PointsAssumption == LeastPoints \in Nat /\ MaxPoints \in Nat
ASSUME BoundAssumption == MaxInputs \in Nat /\ MaxJobs \in Nat

VARIABLES
    line,                   \* by kind: is it valid, the track it was built for, its present shape?
    isReady, isBusyWorking, jobs,   \* BuildNewCurveAsync: its flags, the jobs and their tracks
    steers,                 \* what the last frame steered by, for which track
    unruly,                 \* what made the selected track another and left the lines: it was
                            \* cycled to, turned round, or the first of a field that was opened
    buttons,                \* autosteer, automatic track, contour
    isAutoSnapped,
    snappedBy,              \* what the distance was measured from that the last snap moved by
    new,                    \* the track being made: newTrack's mode and curve, isMakingABLine,
                            \* isMakingCurve, newMode
    desList,                \* the points recorded, numbered as they were driven; 0 an extension
    rec,                    \* the recording the user sees: on, its points, nothing interfered
    dialog,                 \* the buttons B, pause and the name's OK that can be pressed
    isJobStarted, inputs

lineVars == <<line, isReady, isBusyWorking, jobs>>
frameVars == <<steers, isAutoSnapped, snappedBy>>
recVars == <<new, desList, rec, dialog>>
vars == <<trackVars, lineVars, frameVars, unruly, buttons, recVars, isJobStarted, inputs>>

Kinds == {"AB", "curve"}
None == "none"
ASSUME NoneAssumption == None \notin AllTracks
NoLine == [valid |-> FALSE, of |-> None, current |-> FALSE]
NoTrack == [mode |-> None, newMode |-> None, curvePts |-> <<>>, isMakingABLine |-> FALSE,
            isMakingCurve |-> FALSE]

Init ==
    /\ TracksInit
    /\ line = [k \in Kinds |-> NoLine] /\ isReady = FALSE /\ isBusyWorking = FALSE /\ jobs = <<>>
    /\ steers = [by |-> None, of |-> None, selected |-> None, current |-> FALSE, unruly |-> None]
    /\ unruly = None
    /\ buttons = {} /\ isAutoSnapped = FALSE /\ snappedBy = None
    /\ new = NoTrack /\ desList = <<>>
    /\ rec = [on |-> FALSE, points |-> <<>>, undisturbed |-> FALSE]
    /\ dialog = {}
    /\ isJobStarted = TRUE /\ inputs = 0

-----------------------------------------------------------------------------
\* Building the lines, on l = line.

Invalid(l, kinds) == [k \in Kinds |-> IF k \in kinds THEN [l[k] EXCEPT !.valid = FALSE] ELSE l[k]]
\* A track's shape changes: lines built for it are no passes of it any more.
Outdated(l, t) == [k \in Kinds |-> IF l[k].of = t THEN [l[k] EXCEPT !.current = FALSE] ELSE l[k]]
Built(l, k, t) == [l EXCEPT ![k] = [valid |-> TRUE, of |-> t, current |-> TRUE]]
\* curList.clear().
Emptied(l) == [l EXCEPT !["curve"].of = None, !["curve"].current = FALSE]

\* A line is built when it is not valid, or for another pass: the vehicle may be on another.
BuildCurrentABLineList(l, t) == {Built(l, "AB", t)} \cup (IF l["AB"].valid THEN {l} ELSE {})
BuildCurve(l, t) == {Built(l, "curve", t)} \cup (IF l["curve"].valid THEN {l} ELSE {})

\* A boundary's curve: a job that is ready empties the list that is steered by, and nothing
\* ever fills it with what the job built; the next job is started unless one is running
\* already, one that has yet to start not counted.
StartJob == IF isBusyWorking THEN jobs ELSE Append(jobs, [running |-> FALSE, exists |-> TRUE])
BuildBoundaryCurve(l) ==
    LET emptied == IF isReady THEN Emptied(l) ELSE l
        validated == [emptied EXCEPT !["curve"].valid = TRUE]
    IN  {<<validated, StartJob, FALSE>>} \cup (IF l["curve"].valid THEN {<<emptied, jobs, FALSE>>} ELSE {})
BuildCurveCurrentList(l, t) ==
    IF t \in BoundaryTracks THEN BuildBoundaryCurve(l)
                              ELSE {<<b, jobs, isReady>> : b \in BuildCurve(l, t)}

\* The lines after a frame's BuildCurrentLine for track t, the jobs and isReady.
BuildCurrentLine(l, t) ==
    IF Mode(t) = "AB" THEN {<<b, jobs, isReady>> : b \in BuildCurrentABLineList(l, t)}
                      ELSE BuildCurveCurrentList(l, t)

\* What steers: the turn being driven, the line, or nothing along an empty list.
GetCurrentABLine(turning) == IF turning THEN "turn" ELSE "line"
GetCurrentCurveLine(l, turning) ==
    CASE l["curve"].of = None -> "nothing"
      [] l["curve"].of # None /\ turning -> "turn"
      [] OTHER -> "line"
GetCurrentLine(l, t, turning) ==
    IF Mode(t) = "AB" THEN GetCurrentABLine(turning) ELSE GetCurrentCurveLine(l, turning)
Steered(l, t, by, u) ==
    [by |-> by, of |-> l[Mode(t)].of, selected |-> t, current |-> l[Mode(t)].current, unruly |-> u]

-----------------------------------------------------------------------------
\* One frame: guidance, the snap when steering is engaged, the point recorded.

\* A mutant: the lines of the track before stay valid.
SwitchedKeepingLine(i) == line

\* SwitchToClosestRefTrack: with automatic track on, and not steering.
Switches == "auto" \in buttons /\ "steer" \notin buttons /\ "contour" \notin buttons
Switched(i) == IF i = idx THEN line ELSE Invalid(line, Kinds)

\* A track moves, and the line of its kind is to be built again.
NudgeTrack(l, i) == IF i = 0 THEN l ELSE Invalid(Outdated(l, gArr[i]), {Mode(gArr[i])})

\* Once each time steering is engaged the track is moved by the distance last measured: in
\* this frame, unless a contour is followed, and to whatever was steered by.
Measured(s) ==
    CASE "contour" \in buttons -> "earlier"
      [] "contour" \notin buttons /\ s.by = "line" ->
            IF s.of = s.selected /\ s.current THEN "pass" ELSE "other"
      [] "contour" \notin buttons /\ s.by # "line" -> s.by
AutoSnap(l, i, s) ==
    \E steerSwitchHigh \in BOOLEAN :
        LET engaged == ~steerSwitchHigh /\ "steer" \in buttons
            snaps == engaged /\ ~isAutoSnapped /\ i # 0
        IN  /\ isAutoSnapped' = engaged
            /\ line' = IF snaps THEN NudgeTrack(l, i) ELSE l
            /\ snappedBy' = IF snaps THEN Measured(s) ELSE snappedBy

\* A point every few metres, while a curve is made.
AddPathPoint ==
    \/ UNCHANGED <<desList, rec>>
    \/ LET point == Len(rec.points) + 1
       IN  /\ isJobStarted /\ Len(desList) < MaxPoints /\ Len(rec.points) < MaxPoints
           /\ desList' = IF new.isMakingCurve THEN Append(desList, point) ELSE desList
           /\ rec' = IF rec.on THEN [rec EXCEPT !.points = Append(@, point)] ELSE rec

\* Along a contour, or without a track, no line is touched.
FollowsNone ==
    LET s == [by |-> IF "contour" \in buttons THEN "contour" ELSE "nothing", of |-> None,
              selected |-> None, current |-> FALSE, unruly |-> None]
    IN  /\ "contour" \in buttons \/ idx = 0
        /\ AutoSnap(line, idx, s)
        /\ steers' = s
        /\ UNCHANGED <<trackVars, jobs, isReady, unruly>>
FollowsTrack ==
    \E i \in {idx} \cup (IF Switches THEN ClosestTracks ELSE {}), turning \in BOOLEAN :
        \E built \in BuildCurrentLine(Switched(i), gArr[i]) :
            LET u == IF i = idx /\ built[1] = line THEN unruly ELSE None
                s == Steered(built[1], gArr[i], GetCurrentLine(built[1], gArr[i], turning), u)
            IN  /\ Len(built[2]) <= MaxJobs
                /\ Selects(i)
                /\ AutoSnap(built[1], i, s)
                /\ steers' = s /\ jobs' = built[2] /\ isReady' = built[3] /\ unruly' = u

Frame ==
    /\ IF "contour" \in buttons \/ idx = 0 THEN FollowsNone ELSE FollowsTrack
    /\ AddPathPoint
    /\ UNCHANGED <<isBusyWorking, buttons, new, dialog, isJobStarted, inputs>>

\* The thread pool runs BuildNewCurveAsync: any number of jobs at once.
JobBegins ==
    /\ \E j \in DOMAIN jobs : ~jobs[j].running /\ jobs' = [jobs EXCEPT ![j].running = TRUE]
    /\ isBusyWorking' = TRUE /\ isReady' = FALSE
    /\ UNCHANGED <<trackVars, line, frameVars, unruly, buttons, recVars, isJobStarted, inputs>>
JobEnds ==
    /\ \E j \in DOMAIN jobs : jobs[j].running /\ jobs' = RemoveAt(jobs, j)
    /\ isBusyWorking' = FALSE /\ isReady' = TRUE
    /\ UNCHANGED <<trackVars, line, frameVars, unruly, buttons, recVars, isJobStarted, inputs>>

-----------------------------------------------------------------------------
\* Clicks on tracks.

Click ==
    /\ inputs < MaxInputs /\ inputs' = inputs + 1
    /\ UNCHANGED frameVars
\* The list is another one in memory: a job's reference to its track leads nowhere.
JobsLoseTracks == jobs' = [j \in DOMAIN jobs |-> [jobs[j] EXCEPT !.exists = FALSE]]
Interfered == rec' = [rec EXCEPT !.undisturbed = FALSE]

\* Marks both lines invalid, and empties the list a recording under way is kept in.
Selecting ==
    /\ line' = Invalid(line, Kinds) /\ desList' = <<>> /\ Interfered /\ unruly' = None
select ==
    /\ Click /\ isJobStarted
    /\ \E i \in Selectable : Selects(i)
    /\ Selecting
    /\ UNCHANGED <<isReady, isBusyWorking, jobs, buttons, new, dialog, isJobStarted>>

\* Neither marks a line invalid.
Cycling(way) ==
    /\ Click /\ Cycles(way)
    /\ unruly' = IF idx' = idx THEN unruly ELSE "cycled"
    /\ UNCHANGED <<lineVars, buttons, recVars, isJobStarted>>
next == Cycling("next")
prev == Cycling("prev")

delete_track ==
    /\ Click /\ isJobStarted
    /\ \E i \in DOMAIN gArr : Removes(i)
    /\ JobsLoseTracks
    /\ UNCHANGED <<line, isReady, isBusyWorking, unruly, buttons, recVars, isJobStarted>>

setVisible ==
    /\ Click /\ isJobStarted
    /\ \E t \in ToSet(gArr) : Hides(t)
    /\ UNCHANGED <<lineVars, unruly, buttons, recVars, isJobStarted>>

\* A mutant: the line stays valid.
NudgedKeepingLine == line' = Outdated(line, gArr[idx])
\* nudge, nudge_center, ref_nudge; nudge_zero when it was nudged.
Nudged == line' = NudgeTrack(line, idx)
nudge ==
    /\ Click /\ idx > 0
    /\ Nudged
    /\ UNCHANGED <<trackVars, isReady, isBusyWorking, jobs, unruly, buttons, recVars, isJobStarted>>

\* The track is turned round and the line is left as it is.
swapAB ==
    /\ Click /\ isJobStarted
    /\ \E t \in ToSet(gArr) :
          /\ line' = Outdated(line, t)
          /\ unruly' = IF idx > 0 /\ gArr[idx] = t THEN "turned" ELSE unruly
    /\ UNCHANGED <<trackVars, isReady, isBusyWorking, jobs, buttons, recVars, isJobStarted>>

\* Over to the next pass.
BuildManualYouLateral ==
    /\ Click /\ idx > 0
    /\ line' = Invalid(line, Kinds)
    /\ UNCHANGED <<trackVars, isReady, isBusyWorking, jobs, unruly, buttons, recVars, isJobStarted>>

\* Steering is engaged only along a track or contour.
Button ==
    /\ Click
    /\ \E b \in {"steer", "auto", "contour"} :
          /\ b = "steer" => isJobStarted /\ (idx > 0 \/ "contour" \in buttons)
          /\ buttons' = SymDiff(buttons, {b})
    /\ UNCHANGED <<trackVars, lineVars, unruly, recVars, isJobStarted>>

-----------------------------------------------------------------------------
\* Clicks in the dialogs of a new track.  They are not closed when another is opened,
\* and their buttons stay enabled from one track to the next.

Dialog ==
    /\ Click /\ isJobStarted
    /\ UNCHANGED <<isReady, isBusyWorking, buttons, isJobStarted>>

\* A mutant: the list is not emptied.
StartedListKept == desList
StartedList == <<>>

\* A: start_new and mark_start.  A recording of the other kind is not ended.
mark_start(mode) ==
    /\ Dialog
    /\ new' = [NoTrack EXCEPT !.mode = mode, !.newMode = mode,
                              !.isMakingABLine = (mode = "AB" \/ new.isMakingABLine),
                              !.isMakingCurve = (mode = "curve" \/ new.isMakingCurve)]
    /\ desList' = StartedList
    /\ rec' = [on |-> mode = "curve", points |-> <<>>, undisturbed |-> mode = "curve"]
    /\ dialog' = dialog \cup (IF mode = "AB" THEN {"btnB"} ELSE {"btnBCurve", "btnRecord"})
    /\ UNCHANGED <<trackVars, line, jobs, unruly>>

\* B on a curve: its points are those recorded, with an extension at both ends.  The
\* extensions are added to the list that is recorded in.  Beside its points the new curve may
\* be moved by half the tool's width, as if the one steered by had been.
Extended == <<0>> \o desList \o <<0>>
MarkedCurve ==
    IF Len(desList) > LeastPoints
    THEN /\ new' = [new EXCEPT !.curvePts = Extended]
         /\ desList' = Extended
         /\ rec' = [rec EXCEPT !.on = FALSE, !.undisturbed = @ /\ new.curvePts = <<>>]
         /\ line' \in {line, Invalid(line, {"curve"})}
    ELSE /\ new' = [new EXCEPT !.curvePts = <<>>, !.isMakingCurve = FALSE]
         /\ desList' = <<>>
         /\ rec' = [rec EXCEPT !.on = FALSE, !.undisturbed = FALSE]
         /\ UNCHANGED line
MarkedAB == new' = [new EXCEPT !.curvePts = <<0>>] /\ UNCHANGED <<desList, rec, line>>

\* The mode is that of the last A, in whichever dialog it was.
mark_end(button) ==
    /\ Dialog /\ button \in dialog
    /\ IF new.newMode = "AB" THEN MarkedAB ELSE MarkedCurve
    /\ dialog' = dialog \cup (IF button = "btnB" THEN {"btnABOk"} ELSE {"name"})
    /\ UNCHANGED <<trackVars, jobs, unruly>>

ABOk ==
    /\ Dialog /\ "btnABOk" \in dialog
    /\ dialog' = dialog \cup {"name"}
    /\ UNCHANGED <<trackVars, line, jobs, unruly, new, desList, rec>>

\* The name's OK adds the track, unless its making was ended; its Cancel ends nothing.
IsMaking == IF new.newMode = "AB" THEN new.isMakingABLine ELSE new.isMakingCurve
finish_new ==
    /\ Dialog /\ "name" \in dialog
    /\ dialog' = dialog \ {"name"}
    /\ IF IsMaking
       THEN /\ \E t \in AllTracks : Mode(t) = new.newMode /\ t \notin BoundaryTracks /\ Adds(t)
            /\ new' = IF new.newMode = "AB" THEN [new EXCEPT !.isMakingABLine = FALSE]
                                            ELSE [new EXCEPT !.isMakingCurve = FALSE]
            /\ Selecting /\ JobsLoseTracks
       ELSE UNCHANGED <<trackVars, new, line, jobs, unruly, desList, rec>>
CancelName ==
    /\ Dialog /\ "name" \in dialog
    /\ dialog' = dialog \ {"name"}
    /\ UNCHANGED <<trackVars, line, jobs, unruly, new, desList, rec>>

cancel_new ==
    /\ Dialog
    /\ new' = [new EXCEPT !.mode = None, !.isMakingABLine = FALSE, !.isMakingCurve = FALSE]
    /\ desList' = IF new.mode = "curve" THEN <<>> ELSE desList
    /\ rec' = [rec EXCEPT !.on = FALSE, !.undisturbed = FALSE]
    /\ UNCHANGED <<trackVars, line, jobs, unruly, dialog>>

\* Pause, and back: which also goes on with a curve that was finished.
pause(on) ==
    /\ Dialog /\ "btnRecord" \in dialog /\ (on <=> "paused" \notin dialog)
    /\ dialog' = IF on THEN (dialog \ {"btnBCurve"}) \cup {"paused"}
                       ELSE (dialog \ {"paused"}) \cup {"btnBCurve"}
    /\ new' = IF new.mode = "curve" THEN [new EXCEPT !.isMakingCurve = ~on] ELSE new
    /\ rec' = [rec EXCEPT !.on = ~on, !.undisturbed = @ /\ new.curvePts = <<>>]
    /\ UNCHANGED <<trackVars, line, jobs, unruly, desList>>

-----------------------------------------------------------------------------
\* Lines and recordings outlive their field.

\* A curve's list is emptied when the curve is selected; it stays valid.
ResetCurveLine == line' = IF idx > 0 /\ gArr[idx] \in CurveTracks THEN Emptied(line) ELSE line
JobClose ==
    /\ Click /\ isJobStarted
    /\ isJobStarted' = FALSE
    /\ ResetCurveLine
    /\ TracksClosed /\ JobsLoseTracks
    /\ buttons' = buttons \ {"steer", "contour"}
    /\ UNCHANGED <<isReady, isBusyWorking, unruly, recVars>>

\* Another field is opened: what was built before is no pass of a track of its, and no line
\* is marked invalid.
LeftFromBefore == [k \in Kinds |-> [line[k] EXCEPT !.current = FALSE]]
FileOpenField ==
    /\ Click /\ ~isJobStarted
    /\ isJobStarted' = TRUE
    /\ TracksLoaded
    /\ line' = LeftFromBefore /\ unruly' = "opened"
    /\ buttons' = buttons \ {"auto"}
    /\ UNCHANGED <<isReady, isBusyWorking, jobs, recVars>>

Next ==
    \/ Frame \/ JobBegins \/ JobEnds
    \/ select \/ next \/ prev \/ delete_track \/ setVisible \/ nudge \/ swapAB
    \/ BuildManualYouLateral \/ Button
    \/ \E mode \in Kinds : mark_start(mode)
    \/ \E button \in {"btnB", "btnBCurve"} : mark_end(button)
    \/ ABOk \/ finish_new \/ CancelName \/ cancel_new
    \/ \E on \in BOOLEAN : pause(on)
    \/ JobClose \/ FileOpenField

Spec == Init /\ [][Next]_vars

-----------------------------------------------------------------------------
(* Properties. *)

\* Types, and what several operations have to keep: the selected track is one of the list, a
\* line that is valid was built, and no line is ever built along a boundary (CTrack).
TypeOK ==
    /\ TracksTypeOK
    /\ line \in [Kinds -> [valid : BOOLEAN, of : AllTracks \cup {None}, current : BOOLEAN]]
    /\ line["AB"].valid => line["AB"].of \in ABTracks
    /\ line["curve"].of \notin ABTracks \cup BoundaryTracks
    /\ jobs \in Seq([running : BOOLEAN, exists : BOOLEAN]) /\ Len(jobs) <= MaxJobs
    /\ buttons \subseteq {"steer", "auto", "contour"}
    /\ Len(desList) <= MaxPoints + 2 * MaxInputs
    /\ \A b \in {isReady, isBusyWorking, isAutoSnapped, isJobStarted} : b \in BOOLEAN
    /\ unruly \in {None, "cycled", "turned", "opened"}

\* The line a frame steers by is a pass of the track that is selected, in the shape it has
\* then: whatever was selected, switched, nudged, deleted or added since it was built.  Not
\* until a line is built again after next, prev, swapAB and the opening of a field, none of
\* which marks one invalid, nor along a boundary (CTrack, CABLine, CABCurve).
SteersByTheTrack ==
    steers.by = "line" /\ steers.unruly = None /\ steers.selected \notin BoundaryTracks =>
        steers.of = steers.selected /\ steers.current

\* Does not hold.  The line a frame steers by, after a field was opened, is no line of the field
\* before: FileOpenField closes that one "and reset[s] everything" (formgps_saveopen.cpp:898),
\* but selects the first track with the line still marked valid.
OpeningResetsLines ==
    steers.by = "line" /\ steers.unruly = "opened" /\ steers.selected \notin BoundaryTracks =>
        steers.of = steers.selected /\ steers.current

\* A curve whose B was pressed has exactly the points driven since its A and not in a pause:
\* none of an earlier recording that was ended, given up or begun in another mode.  Not when
\* a track was selected meanwhile, which empties the list, nor at a second B, which takes
\* the extensions of the first for points that were driven.
RecordedCurveIsWhole ==
    rec.undisturbed /\ new.curvePts # <<>> => new.curvePts = <<0>> \o rec.points \o <<0>>

\* Does not hold.  A snap moves the selected track onto the vehicle: "automatically center
\* track to current tractor position" (formgps_position.cpp).  Along a contour it moves by
\* what was measured before the contour, in a turn by the distance to the turn, along a
\* boundary by the 32000 that stands for no distance.
SnapsOntoVehicle == snappedBy \in {None, "pass"}

\* Does not hold: isBusyWorking is set when a job begins, not when it is queued.
OneJobAtATime == Cardinality({j \in DOMAIN jobs : jobs[j].running}) <= 1

\* Does not hold: a job keeps a reference to an element of the list of tracks.
JobsReadTheirTrack == \A j \in DOMAIN jobs : jobs[j].running => jobs[j].exists

\* Does not hold: the name's OK stays enabled from the line before.
ABLineHasItsEnd == [][idx' > idx /\ Len(gArr') > Len(gArr) /\ new.newMode = "AB" => new.curvePts # <<>>]_vars
=============================================================================
