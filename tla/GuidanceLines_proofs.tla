------------------------ MODULE GuidanceLines_proofs ------------------------
(***************************************************************************)
(* The line that is steered by, for any tracks, numbers of points, clicks  *)
(* and jobs: it is a pass of the selected track in its present shape.      *)
(*                                                                         *)
(* What has to be kept is about the line that is there, not about the one  *)
(* the last frame used: while it is marked valid it fits the selected      *)
(* track, or something is known that spoilt it.                            *)
(*                                                                         *)
(* A recording that was left alone has every point driven since its A.     *)
(***************************************************************************)
EXTENDS GuidanceLines, Tracks_proofs, TLAPS

Lines == [Kinds -> [valid : BOOLEAN, of : AllTracks \cup {None}, current : BOOLEAN]]

(* A line of l that is valid is a pass of t; nothing is asked of boundaries. *)
Fits(l, t) ==
    t \notin BoundaryTracks /\ l[Mode(t)].valid => l[Mode(t)].of = t /\ l[Mode(t)].current

ListOk(list, i) == list \in Seq(AllTracks) /\ i \in 0..Len(list)
SelectedFits == idx # 0 /\ unruly = None => Fits(line, gArr[idx])

Reasons == {None, "cycled", "turned", "opened"}

IInv ==
    /\ ListOk(gArr, idx) /\ line \in Lines /\ unruly \in Reasons
    /\ SelectedFits
    /\ SteersByTheTrack

----------------------------------------------------------------------------
(* The selected track and the kind of its line. *)

LEMMA ModeIsKind == ASSUME NEW t PROVE Mode(t) \in Kinds
  BY DEF Mode, Kinds

LEMMA SelectedTrack ==
    ASSUME NEW list, NEW i, ListOk(list, i), i # 0
    PROVE  i \in DOMAIN list /\ list[i] \in AllTracks
<1>1. i \in 1..Len(list) /\ list \in Seq(AllTracks)
  BY DEF ListOk
<1> QED
  BY <1>1

----------------------------------------------------------------------------
(* What marks lines. *)

LEMMA InvalidFacts ==
    ASSUME NEW l \in Lines, NEW kinds
    PROVE  /\ Invalid(l, kinds) \in Lines
           /\ \A k \in Kinds : k \in kinds => ~Invalid(l, kinds)[k].valid
           /\ \A t : Fits(l, t) => Fits(Invalid(l, kinds), t)
           /\ \A t : Mode(t) \in kinds => Fits(Invalid(l, kinds), t)
<1>1. /\ Invalid(l, kinds) \in Lines
      /\ \A k \in Kinds : k \in kinds => ~Invalid(l, kinds)[k].valid
      /\ \A k \in Kinds : Invalid(l, kinds)[k].valid => Invalid(l, kinds)[k] = l[k]
  BY DEF Invalid, Lines
<1> QED
  BY <1>1, ModeIsKind DEF Fits

LEMMA OutdatedFacts ==
    ASSUME NEW l \in Lines, NEW t
    PROVE  /\ Outdated(l, t) \in Lines
           /\ \A u : u # t /\ Fits(l, u) => Fits(Outdated(l, t), u)
<1>1. /\ Outdated(l, t) \in Lines
      /\ \A k \in Kinds : /\ Outdated(l, t)[k].valid = l[k].valid
                          /\ Outdated(l, t)[k].of = l[k].of
                          /\ l[k].of # t => Outdated(l, t)[k].current = l[k].current
  BY DEF Outdated, Lines
<1> QED
  BY <1>1, ModeIsKind DEF Fits

(* The selected track is nudged: its line is invalid, so that it fits. *)
LEMMA NudgeFacts ==
    ASSUME NEW l \in Lines, NEW i
    PROVE  NudgeTrack(l, i) \in Lines /\ (i # 0 => Fits(NudgeTrack(l, i), gArr[i]))
<1>1. CASE i = 0
  BY <1>1 DEF NudgeTrack
<1>2. CASE i # 0
  <2>1. NudgeTrack(l, i) = Invalid(Outdated(l, gArr[i]), {Mode(gArr[i])})
    BY <1>2 DEF NudgeTrack
  <2>2. Outdated(l, gArr[i]) \in Lines
    BY OutdatedFacts
  <2> QED
    BY <2>1, <2>2, InvalidFacts
<1> QED
  BY <1>1, <1>2

LEMMA EmptiedFacts ==
    ASSUME NEW l \in Lines
    PROVE  /\ Emptied(l) \in Lines /\ Emptied(l)["AB"] = l["AB"]
           /\ Emptied(l)["curve"].of = None /\ Emptied(l)["curve"].valid = l["curve"].valid
  BY DEF Emptied, Lines, Kinds

LEMMA BuiltFacts ==
    ASSUME NEW l \in Lines, NEW k \in Kinds, NEW t \in AllTracks
    PROVE  /\ Built(l, k, t) \in Lines
           /\ Built(l, k, t)[k].valid /\ Built(l, k, t)[k].of = t /\ Built(l, k, t)[k].current
<1>1. Built(l, k, t) \in Lines /\ Built(l, k, t)[k] = [valid |-> TRUE, of |-> t, current |-> TRUE]
  BY DEF Built, Lines
<1> QED
  BY <1>1

LEMMA BuiltFits ==
    ASSUME NEW l \in Lines, NEW t \in AllTracks
    PROVE  Fits(Built(l, Mode(t), t), t)
  BY BuiltFacts, ModeIsKind DEF Fits

(* What a frame steers by along t: the line it found, when that was valid, or a new one. *)
LEMMA BuildFacts ==
    ASSUME NEW l \in Lines, NEW t \in AllTracks, NEW b \in BuildCurrentLine(l, t)
    PROVE  /\ b[1] \in Lines
           /\ t \notin BoundaryTracks =>
                 /\ b[1][Mode(t)].valid
                 /\ Fits(b[1], t) \/ b[1] = l
<1>1. CASE Mode(t) = "AB"
  <2>1. PICK c \in BuildCurrentABLineList(l, t) : b = <<c, jobs, isReady>>
    BY <1>1 DEF BuildCurrentLine
  <2>2. b[1] = Built(l, "AB", t) \/ (b[1] = l /\ l["AB"].valid)
    BY <2>1 DEF BuildCurrentABLineList
  <2>3. "AB" \in Kinds
    BY DEF Kinds
  <2>4. b[1] \in Lines /\ b[1]["AB"].valid
    BY <2>2, <2>3, BuiltFacts
  <2>5. Fits(b[1], t) \/ b[1] = l
    BY <1>1, <2>2, BuiltFits
  <2> QED
    BY <1>1, <2>4, <2>5
<1>2. CASE Mode(t) # "AB" /\ t \notin BoundaryTracks
  <2>1. PICK c \in BuildCurve(l, t) : b = <<c, jobs, isReady>>
    BY <1>2 DEF BuildCurrentLine, BuildCurveCurrentList
  <2>2. b[1] = Built(l, "curve", t) \/ (b[1] = l /\ l["curve"].valid)
    BY <2>1 DEF BuildCurve
  <2>3. Mode(t) = "curve" /\ "curve" \in Kinds
    BY <1>2 DEF Mode, Kinds
  <2>4. b[1] \in Lines /\ b[1]["curve"].valid
    BY <2>2, <2>3, BuiltFacts
  <2>5. Fits(b[1], t) \/ b[1] = l
    BY <2>2, <2>3, BuiltFits
  <2> QED
    BY <2>3, <2>4, <2>5
<1>3. CASE Mode(t) # "AB" /\ t \in BoundaryTracks
  <2> DEFINE emptied == IF isReady THEN Emptied(l) ELSE l
             validated == [emptied EXCEPT !["curve"].valid = TRUE]
  <2>1. b \in BuildBoundaryCurve(l)
    BY <1>3 DEF BuildCurrentLine, BuildCurveCurrentList
  <2>2. b \in {<<validated, StartJob, FALSE>>, <<emptied, jobs, FALSE>>}
    BY <2>1 DEF BuildBoundaryCurve
  <2>3. "curve" \in Kinds
    BY DEF Kinds
  <2>4. emptied \in Lines
    BY EmptiedFacts
  <2>5. validated \in Lines
    BY <2>3, <2>4 DEF Lines
  <2> HIDE DEF emptied, validated
  <2>6. \E c \in {validated, emptied} : \E js, ready : b = <<c, js, ready>>
    BY <2>2
  <2>7. b[1] \in {validated, emptied}
    BY <2>6
  <2> QED
    BY <1>3, <2>4, <2>5, <2>7
<1> QED
  BY <1>1, <1>2, <1>3

----------------------------------------------------------------------------
(* One frame. *)

LEMMA AutoSnapFacts ==
    ASSUME NEW l \in Lines, NEW i, NEW s, AutoSnap(l, i, s)
    PROVE  line' \in Lines /\ (i # 0 /\ Fits(l, gArr[i]) => Fits(line', gArr[i]))
<1>1. line' = l \/ line' = NudgeTrack(l, i)
  BY DEF AutoSnap
<1> QED
  BY <1>1, NudgeFacts

LEMMA FollowsNoneFacts == ASSUME IInv, FollowsNone PROVE IInv'
<1>1. PICK s : AutoSnap(line, idx, s) /\ steers' = s /\ s.by \in {"contour", "nothing"}
  BY DEF FollowsNone
<1>2. UNCHANGED <<gArr, idx, unruly>>
  BY DEF FollowsNone, trackVars
<1>3. line' \in Lines /\ SelectedFits'
  BY <1>1, <1>2, AutoSnapFacts DEF IInv, SelectedFits, Fits, Mode
<1>4. SteersByTheTrack'
  BY <1>1 DEF SteersByTheTrack
<1> QED
  BY <1>2, <1>3, <1>4 DEF IInv, ListOk

(* What is steered by is what was built, which fits; a snap that follows     *)
(* makes it invalid.                                                        *)
LEMMA FollowsTrackFacts ==
    ASSUME IInv, FollowsTrack, idx # 0 PROVE IInv'
<1>1. PICK i \in {idx} \cup (IF Switches THEN ClosestTracks ELSE {}), turning \in BOOLEAN :
        \E built \in BuildCurrentLine(Switched(i), gArr[i]) :
            LET u == IF i = idx /\ built[1] = line THEN unruly ELSE None
                s == Steered(built[1], gArr[i], GetCurrentLine(built[1], gArr[i], turning), u)
            IN  /\ Selects(i)
                /\ AutoSnap(built[1], i, s)
                /\ steers' = s /\ unruly' = u
  BY DEF FollowsTrack
<1>2. PICK built \in BuildCurrentLine(Switched(i), gArr[i]) :
            LET u == IF i = idx /\ built[1] = line THEN unruly ELSE None
                s == Steered(built[1], gArr[i], GetCurrentLine(built[1], gArr[i], turning), u)
            IN  /\ Selects(i)
                /\ AutoSnap(built[1], i, s)
                /\ steers' = s /\ unruly' = u
  BY <1>1
<1> DEFINE t == gArr[i]
           u == IF i = idx /\ built[1] = line THEN unruly ELSE None
           s == Steered(built[1], t, GetCurrentLine(built[1], t, turning), u)
<1>3. Selects(i) /\ AutoSnap(built[1], i, s) /\ steers' = s /\ unruly' = u
  BY <1>2
<1>4. ListOk(gArr, i) /\ i # 0
  BY DEF IInv, ListOk, ClosestTracks, Visible
<1>5. t \in AllTracks
  BY <1>4, SelectedTrack
<1>6. Switched(i) \in Lines /\ (i # idx => ~Switched(i)[Mode(t)].valid)
  BY InvalidFacts, ModeIsKind DEF Switched, IInv
<1>7. /\ built[1] \in Lines
      /\ t \notin BoundaryTracks =>
            built[1][Mode(t)].valid /\ (Fits(built[1], t) \/ built[1] = Switched(i))
  BY <1>5, <1>6, BuildFacts
<1>8. ASSUME u = None PROVE Fits(built[1], t)
  <2>1. CASE t \in BoundaryTracks
    BY <2>1 DEF Fits
  <2>2. CASE t \notin BoundaryTracks /\ i # idx
    BY <1>6, <1>7, <2>2
  <2>3. CASE t \notin BoundaryTracks /\ i = idx
    <3>1. Switched(i) = line
      BY <2>3 DEF Switched
    <3>2. unruly # None \/ Fits(line, t)
      BY <1>4, <2>3 DEF IInv, SelectedFits
    <3> QED
      BY <1>7, <1>8, <2>3, <3>1, <3>2
  <2> QED
    BY <2>1, <2>2, <2>3
<1>9. line' \in Lines /\ (u = None => Fits(line', t))
  BY <1>3, <1>4, <1>7, <1>8, AutoSnapFacts
<1>10. gArr' = gArr /\ idx' = i /\ u \in Reasons
  BY <1>3 DEF Selects, IInv, Reasons
<1>11. SelectedFits'
  BY <1>3, <1>9, <1>10 DEF SelectedFits, Fits, Mode
<1>12. SteersByTheTrack'
  <2>1. /\ steers'.unruly = u /\ steers'.selected = t
        /\ steers'.of = built[1][Mode(t)].of /\ steers'.current = built[1][Mode(t)].current
    BY <1>3 DEF Steered
  <2> QED
    BY <2>1, <1>7, <1>8 DEF SteersByTheTrack, Fits
<1>13. ListOk(gArr, idx)' /\ unruly' \in Reasons
  BY <1>3, <1>4, <1>10 DEF ListOk
<1> QED
  BY <1>9, <1>11, <1>12, <1>13 DEF IInv

----------------------------------------------------------------------------
(* The other actions, by what they do to the list, the line and the field. *)

LEMMA Still ==
    ASSUME IInv, UNCHANGED <<gArr, idx, line, unruly, steers>>
    PROVE  IInv'
  BY DEF IInv, ListOk, SelectedFits, Fits, Mode, SteersByTheTrack

(* The list stays, and the line is made invalid, or not. *)
LEMMA Marking ==
    ASSUME IInv, NEW kinds, line' \in {line, Invalid(line, kinds)},
           UNCHANGED <<gArr, idx, unruly, steers>>
    PROVE  IInv'
<1>1. line' \in Lines /\ \A t : Fits(line, t) => Fits(line', t)
  BY InvalidFacts DEF IInv
<1>2. SelectedFits'
  BY <1>1 DEF IInv, SelectedFits, Fits, Mode
<1> QED
  BY <1>1, <1>2 DEF IInv, ListOk, SteersByTheTrack

(* Whatever is selected, when both lines are made invalid. *)
LEMMA SelectingFacts ==
    ASSUME IInv, Selecting, ListOk(gArr, idx)', UNCHANGED steers
    PROVE  IInv'
<1>1. line' = Invalid(line, Kinds) /\ unruly' = None
  BY DEF Selecting
<1>2. line' \in Lines /\ \A t : Fits(line', t)
  BY <1>1, InvalidFacts, ModeIsKind DEF IInv
<1>3. SelectedFits'
  BY <1>2 DEF SelectedFits, Fits, Mode
<1> QED
  BY <1>1, <1>2, <1>3 DEF IInv, Reasons, SteersByTheTrack

(* The line stays, and is not asked to fit the track that is cycled to. *)
LEMMA CyclingFacts == ASSUME IInv, NEW way, Cycling(way) PROVE IInv'
<1>1. UNCHANGED <<line, steers>>
  BY DEF Cycling, Click, lineVars, frameVars
<1>2. PICK i \in Visible : Selects(i)
  BY DEF Cycling, Cycles
<1>3. unruly' = IF i = idx THEN unruly ELSE "cycled"
  BY <1>2 DEF Cycling, Selects
<1>4. ListOk(gArr, idx)'
  BY <1>2 DEF Visible, Selects, IInv, ListOk
<1>5. /\ unruly' \in Reasons
      /\ unruly' = None => unruly = None /\ UNCHANGED <<gArr, idx>>
  BY <1>2, <1>3 DEF Selects, IInv, Reasons, None
<1>6. SelectedFits'
  BY <1>1, <1>5 DEF IInv, SelectedFits, Fits, Mode
<1> QED
  BY <1>1, <1>4, <1>5, <1>6 DEF IInv, SteersByTheTrack

(* The selected track is still the same, or none is selected. *)
LEMMA RemovedFacts ==
    ASSUME IInv, NEW i \in DOMAIN gArr, Removes(i)
    PROVE  ListOk(gArr, idx)' /\ (idx' # 0 => idx # 0 /\ gArr'[idx'] = gArr[idx])
<1>1. gArr \in Seq(AllTracks) /\ idx \in 0..Len(gArr) /\ i \in 1..Len(gArr)
  BY DEF IInv, ListOk
<1>2. gArr' = RemoveAt(gArr, i) /\ idx' = IdxAfterDelete(i)
  BY DEF Removes
<1>3. /\ gArr' \in Seq(AllTracks) /\ Len(gArr') = Len(gArr) - 1
      /\ \A j \in 1..Len(gArr) - 1 : gArr'[j] = IF j < i THEN gArr[j] ELSE gArr[j + 1]
  BY <1>1, <1>2, RemoveAtFacts
<1>4. CASE idx = i
  BY <1>1, <1>2, <1>3, <1>4 DEF IdxAfterDelete, ListOk
<1>5. CASE idx > i
  <2>1. idx' = idx - 1
    BY <1>1, <1>2, <1>5 DEF IdxAfterDelete
  <2> QED
    BY <1>1, <1>3, <1>5, <2>1 DEF ListOk
<1>6. CASE idx < i
  <2>1. idx' = idx
    BY <1>1, <1>2, <1>6 DEF IdxAfterDelete
  <2> QED
    BY <1>1, <1>3, <1>6, <2>1 DEF ListOk
<1> QED
  BY <1>1, <1>4, <1>5, <1>6

LEMMA DeleteFacts == ASSUME IInv, delete_track PROVE IInv'
<1>1. PICK i \in DOMAIN gArr : Removes(i)
  BY DEF delete_track
<1>2. UNCHANGED <<line, unruly, steers>>
  BY DEF delete_track, Click, frameVars
<1>3. ListOk(gArr, idx)' /\ (idx' # 0 => idx # 0 /\ gArr'[idx'] = gArr[idx])
  BY <1>1, RemovedFacts
<1>4. SelectedFits'
  BY <1>2, <1>3 DEF IInv, SelectedFits, Fits, Mode
<1> QED
  BY <1>2, <1>3, <1>4 DEF IInv, SteersByTheTrack

LEMMA NudgedFacts == ASSUME IInv, nudge PROVE IInv'
<1>1. line' = NudgeTrack(line, idx) /\ UNCHANGED <<gArr, idx, unruly, steers>>
  BY DEF nudge, Nudged, Click, trackVars, frameVars
<1>2. line' \in Lines /\ (idx # 0 => Fits(line', gArr[idx]))
  BY <1>1, NudgeFacts DEF IInv
<1>3. SelectedFits'
  BY <1>1, <1>2 DEF SelectedFits, Fits, Mode
<1> QED
  BY <1>1, <1>2, <1>3 DEF IInv, ListOk, SteersByTheTrack

LEMMA SwapFacts == ASSUME IInv, swapAB PROVE IInv'
<1>1. PICK t : /\ line' = Outdated(line, t)
               /\ unruly' = IF idx > 0 /\ gArr[idx] = t THEN "turned" ELSE unruly
  BY DEF swapAB
<1>2. UNCHANGED <<gArr, idx, steers>>
  BY DEF swapAB, Click, trackVars, frameVars
<1>3. line' \in Lines /\ \A u : u # t /\ Fits(line, u) => Fits(line', u)
  BY <1>1, OutdatedFacts DEF IInv
<1>4. idx # 0 => idx > 0
  BY DEF IInv, ListOk
<1>5. /\ unruly' \in Reasons
      /\ idx # 0 /\ unruly' = None => unruly = None /\ gArr[idx] # t
  BY <1>1, <1>4 DEF IInv, Reasons, None
<1>6. SelectedFits'
  BY <1>2, <1>3, <1>5 DEF IInv, SelectedFits, Fits, Mode
<1> QED
  BY <1>2, <1>3, <1>5, <1>6 DEF IInv, ListOk, SteersByTheTrack

(* A new track, at the end of the list. *)
LEMMA FinishFacts == ASSUME IInv, finish_new PROVE IInv'
<1>1. UNCHANGED steers
  BY DEF finish_new, Dialog, Click, frameVars
<1>2. CASE IsMaking
  <2>1. PICK t \in AllTracks : Adds(t)
    BY <1>2 DEF finish_new
  <2>2. ListOk(gArr, idx)'
    BY <2>1 DEF Adds, ListOk, IInv
  <2>3. Selecting
    BY <1>2 DEF finish_new
  <2> QED
    BY <1>1, <2>2, <2>3, SelectingFacts
<1>3. CASE ~IsMaking
  BY <1>1, <1>3, Still DEF finish_new, trackVars
<1> QED
  BY <1>2, <1>3

LEMMA SelectFacts == ASSUME IInv, select PROVE IInv'
<1>1. PICK i \in Selectable : Selects(i)
  BY DEF select
<1>2. UNCHANGED steers /\ Selecting
  BY DEF select, Click, frameVars
<1>3. ListOk(gArr, idx)'
  BY <1>1 DEF Selectable, Visible, Selects, IInv, ListOk
<1> QED
  BY <1>2, <1>3, SelectingFacts

(* No track is selected when a field has been closed. *)
LEMMA CloseFacts == ASSUME IInv, JobClose PROVE IInv'
<1>1. /\ line' \in {line, Emptied(line)} /\ idx' = 0 /\ gArr' = <<>>
      /\ UNCHANGED <<unruly, steers>>
  BY DEF JobClose, ResetCurveLine, TracksClosed, Click, frameVars
<1>2. line' \in Lines
  BY <1>1, EmptiedFacts DEF IInv
<1>3. ListOk(gArr, idx)' /\ SelectedFits'
  BY <1>1 DEF ListOk, SelectedFits
<1> QED
  BY <1>1, <1>2, <1>3 DEF IInv, SteersByTheTrack

(* The first track of a field that was opened has the line of another. *)
LEMMA OpenFacts == ASSUME IInv, FileOpenField PROVE IInv'
<1>1. line' = LeftFromBefore /\ unruly' = "opened" /\ UNCHANGED steers
  BY DEF FileOpenField, Click, frameVars
<1>2. line' \in Lines
  BY <1>1 DEF IInv, LeftFromBefore, Lines
<1>3. SelectedFits' /\ unruly' \in Reasons
  BY <1>1 DEF SelectedFits, Reasons, None
<1>4. ListOk(gArr, idx)'
  BY LoadedFacts DEF FileOpenField, TracksTypeOK, ListOk
<1> QED
  BY <1>1, <1>2, <1>3, <1>4 DEF IInv, SteersByTheTrack

----------------------------------------------------------------------------

LEMMA InitIInv == Init => IInv
<1> SUFFICES ASSUME Init PROVE IInv
  OBVIOUS
<1>1. ListOk(gArr, idx)
  BY FieldListFacts DEF Init, TracksInit, ListOk
<1>2. line \in Lines /\ \A k \in Kinds : ~line[k].valid
  BY DEF Init, NoLine, Lines
<1>3. SelectedFits
  BY <1>2, ModeIsKind DEF SelectedFits, Fits
<1>4. unruly \in Reasons /\ steers.by = None
  BY DEF Init, Reasons
<1> QED
  BY <1>1, <1>2, <1>3, <1>4 DEF IInv, SteersByTheTrack, None

LEMMA NextIInv == IInv /\ [Next]_vars => IInv'
<1> SUFFICES ASSUME IInv, [Next]_vars PROVE IInv'
  OBVIOUS
<1> USE DEF Click, Dialog, trackVars, lineVars, frameVars, recVars
<1>1. CASE Frame
  <2>1. CASE "contour" \in buttons \/ idx = 0
    BY <1>1, <2>1, FollowsNoneFacts DEF Frame
  <2>2. CASE ~("contour" \in buttons \/ idx = 0)
    BY <1>1, <2>2, FollowsTrackFacts DEF Frame
  <2> QED
    BY <2>1, <2>2
<1>2. CASE JobBegins \/ JobEnds
  BY <1>2, Still DEF JobBegins, JobEnds
<1>3. CASE select
  BY <1>3, SelectFacts
<1>4. CASE next \/ prev
  BY <1>4, CyclingFacts DEF next, prev
<1>5. CASE delete_track
  BY <1>5, DeleteFacts
<1>6. CASE setVisible \/ Button
  BY <1>6, Still DEF setVisible, Hides, Button
<1>7. CASE nudge
  BY <1>7, NudgedFacts
<1>8. CASE swapAB
  BY <1>8, SwapFacts
<1>9. CASE BuildManualYouLateral
  BY <1>9, Marking DEF BuildManualYouLateral
<1>10. ASSUME NEW mode \in Kinds, mark_start(mode) PROVE IInv'
  BY <1>10, Still DEF mark_start
<1>11. ASSUME NEW button \in {"btnB", "btnBCurve"}, mark_end(button) PROVE IInv'
  <2>1. UNCHANGED <<gArr, idx, unruly, steers>>
    BY <1>11 DEF mark_end
  <2>2. line' \in {line, Invalid(line, {"curve"})}
    BY <1>11 DEF mark_end, MarkedAB, MarkedCurve
  <2> QED
    BY <2>1, <2>2, Marking
<1>12. CASE ABOk \/ CancelName \/ cancel_new
  BY <1>12, Still DEF ABOk, CancelName, cancel_new
<1>13. CASE finish_new
  BY <1>13, FinishFacts
<1>14. ASSUME NEW on \in BOOLEAN, pause(on) PROVE IInv'
  BY <1>14, Still DEF pause
<1>15. CASE JobClose
  BY <1>15, CloseFacts
<1>17. CASE FileOpenField
  BY <1>17, OpenFacts
<1>16. CASE UNCHANGED vars
  BY <1>16, Still DEF vars
<1> QED
  BY <1>1, <1>2, <1>3, <1>4, <1>5, <1>6, <1>7, <1>8, <1>9, <1>10, <1>11, <1>12, <1>13,
     <1>14, <1>15, <1>16, <1>17 DEF Next

(* For any tracks, points, clicks and jobs: whatever a frame steers by is a pass of the    *)
(* selected track in its present shape, unless no line was built since the track was       *)
(* cycled to, turned round, or selected as the first of a field that was opened, or it is  *)
(* a boundary (CTrack, CABLine::BuildCurrentABLineList, CABCurve::BuildCurveCurrentList).  *)
THEOREM ByTheTrack == Spec => []SteersByTheTrack
<1>1. Init => IInv
  BY InitIInv
<1>2. IInv /\ [Next]_vars => IInv'
  BY NextIInv
<1>3. IInv => SteersByTheTrack
  BY DEF IInv
<1> QED
  BY <1>1, <1>2, <1>3, PTL DEF Spec
----------------------------------------------------------------------------
(* The track that is recorded: while nothing interfered, the list that CABCurve and CTrack *)
(* share holds what was driven, and the flags that several dialogs set agree with what the *)
(* user sees.                                                                              *)

Recording == [on : BOOLEAN, points : Seq(Nat), undisturbed : BOOLEAN]
Making == [mode : Kinds \cup {None}, newMode : Kinds \cup {None}, curvePts : Seq(Nat),
           isMakingABLine : BOOLEAN, isMakingCurve : BOOLEAN]

RecTypes ==
    /\ rec \in Recording /\ new \in Making /\ desList \in Seq(Nat)
    /\ inputs \in 0..MaxInputs /\ Len(desList) <= MaxPoints + 2 * inputs

(* Before B, and after it. *)
Driven == desList = rec.points /\ new.isMakingCurve = rec.on
Marked == ~rec.on /\ new.curvePts = <<0>> \o rec.points \o <<0>>
Undisturbed ==
    rec.undisturbed =>
        /\ new.mode = "curve" /\ new.newMode = "curve"
        /\ IF new.curvePts = <<>> THEN Driven ELSE Marked

RecInv == RecTypes /\ Undisturbed

LEMMA ExtendedFacts ==
    ASSUME NEW s \in Seq(Nat)
    PROVE  LET e == <<0>> \o s \o <<0>> IN e \in Seq(Nat) /\ Len(e) = Len(s) + 2 /\ e # <<>>
<1> DEFINE one == <<0>>
           e == one \o s \o one
<1>1. one \in Seq(Nat) /\ Len(one) = 1
  OBVIOUS
<1> HIDE DEF one
<1>2. one \o s \in Seq(Nat) /\ Len(one \o s) = Len(one) + Len(s)
  BY <1>1, ConcatProperties, Zenon
<1>3. e \in Seq(Nat) /\ Len(e) = Len(one \o s) + Len(one)
  BY <1>1, <1>2, ConcatProperties, Zenon
<1> HIDE DEF e
<1>4. Len(e) = Len(s) + 2 /\ e # <<>>
  BY <1>1, <1>2, <1>3
<1> QED
  BY <1>3, <1>4 DEF one, e

(* A click, or a frame, that leaves the recording as it is. *)
LEMMA RecStill ==
    ASSUME RecInv, UNCHANGED <<new, desList, rec>>, UNCHANGED inputs \/ Click
    PROVE  RecInv'
<1>1. inputs' \in 0..MaxInputs /\ inputs' >= inputs /\ inputs \in Nat
  BY BoundAssumption DEF Click, RecInv, RecTypes
<1>2. Len(desList') <= MaxPoints + 2 * inputs'
  BY <1>1, PointsAssumption DEF RecInv, RecTypes
<1> QED
  BY <1>1, <1>2 DEF RecInv, RecTypes, Undisturbed, Driven, Marked

(* One that interferes. *)
LEMMA RecDisturbed ==
    ASSUME RecInv, Click, new' \in Making, rec' \in Recording, ~rec'.undisturbed,
           desList' \in {desList, <<>>}
    PROVE  RecInv'
<1>1. inputs' \in 0..MaxInputs /\ inputs' = inputs + 1 /\ inputs \in Nat
  BY BoundAssumption DEF Click, RecInv, RecTypes
<1>2. CASE desList' = desList
  BY <1>1, <1>2, PointsAssumption DEF RecInv, RecTypes, Undisturbed
<1>3. CASE desList' = <<>>
  <2>1. desList' \in Seq(Nat) /\ Len(desList') = 0
    BY <1>3
  <2>2. Len(desList') <= MaxPoints + 2 * inputs'
    BY <1>1, <2>1, PointsAssumption
  <2> QED
    BY <1>1, <2>1, <2>2 DEF RecInv, RecTypes, Undisturbed
<1> QED
  BY <1>2, <1>3

(* A point that is driven goes to both lists or to none, before B. *)
LEMMA PointFacts ==
    ASSUME RecInv, AddPathPoint, UNCHANGED <<new, inputs>>
    PROVE  RecInv'
<1>1. CASE UNCHANGED <<desList, rec>>
  BY <1>1, RecStill
<1>2. CASE ~UNCHANGED <<desList, rec>>
  <2> DEFINE point == Len(rec.points) + 1
  <2>0. rec \in Recording /\ new \in Making /\ desList \in Seq(Nat) /\ rec.points \in Seq(Nat)
    BY DEF RecInv, RecTypes, Recording
  <2>1. /\ Len(desList) < MaxPoints /\ point \in Nat
        /\ desList' = IF new.isMakingCurve THEN Append(desList, point) ELSE desList
        /\ rec' = IF rec.on THEN [rec EXCEPT !.points = Append(rec.points, point)] ELSE rec
    BY <1>2, <2>0 DEF AddPathPoint
  <2> HIDE DEF point
  <2>2. Append(desList, point) \in Seq(Nat) /\ Len(Append(desList, point)) = Len(desList) + 1
    BY <2>0, <2>1
  <2>3. desList' \in Seq(Nat) /\ Len(desList') <= MaxPoints + 2 * inputs'
    BY <2>0, <2>1, <2>2, PointsAssumption DEF RecInv, RecTypes
  <2>4. /\ rec' \in Recording /\ rec'.on = rec.on /\ rec'.undisturbed = rec.undisturbed
        /\ rec'.points = IF rec.on THEN Append(rec.points, point) ELSE rec.points
    <3>1. Append(rec.points, point) \in Seq(Nat)
      BY <2>0, <2>1
    <3> DEFINE longer == Append(rec.points, point)
    <3> HIDE DEF longer
    <3>2. rec' = IF rec.on THEN [rec EXCEPT !.points = longer] ELSE rec
      BY <2>1 DEF longer
    <3>3. longer \in Seq(Nat)
      BY <3>1 DEF longer
    <3>4. /\ rec' \in Recording /\ rec'.on = rec.on /\ rec'.undisturbed = rec.undisturbed
          /\ rec'.points = IF rec.on THEN longer ELSE rec.points
      BY <2>0, <3>2, <3>3 DEF Recording
    <3> QED
      BY <3>4 DEF longer
  <2>5. Undisturbed'
    BY <2>0, <2>1, <2>4 DEF RecInv, Undisturbed, Driven, Marked, Recording, Making
  <2> QED
    BY <2>3, <2>4, <2>5 DEF RecInv, RecTypes
<1> QED
  BY <1>1, <1>2

LEMMA StartFacts == ASSUME RecInv, NEW mode \in Kinds, mark_start(mode) PROVE RecInv'
<1>1. /\ rec' = [on |-> mode = "curve", points |-> <<>>, undisturbed |-> mode = "curve"]
      /\ new' = [NoTrack EXCEPT !.mode = mode, !.newMode = mode,
                              !.isMakingABLine = (mode = "AB" \/ new.isMakingABLine),
                              !.isMakingCurve = (mode = "curve" \/ new.isMakingCurve)]
      /\ desList' = <<>> /\ inputs' = inputs + 1 /\ inputs < MaxInputs
  BY DEF mark_start, StartedList, Dialog, Click
<1>2. new \in Making /\ <<>> \in Seq(Nat)
  BY DEF RecInv, RecTypes
<1>3. /\ new' \in Making /\ new'.curvePts = <<>> /\ new'.mode = mode /\ new'.newMode = mode
      /\ mode = "curve" => new'.isMakingCurve
  BY <1>1, <1>2 DEF NoTrack, Making, Kinds
<1>4. rec' \in Recording /\ rec'.undisturbed = (mode = "curve") /\ rec'.on = (mode = "curve")
      /\ rec'.points = <<>>
  BY <1>1, <1>2 DEF Recording
<1>5. inputs' \in 0..MaxInputs /\ Len(desList') <= MaxPoints + 2 * inputs'
  BY <1>1, PointsAssumption, BoundAssumption DEF RecInv, RecTypes
<1>6. Undisturbed'
  BY <1>1, <1>3, <1>4 DEF Undisturbed, Driven, Marked, Making
<1> QED
  BY <1>1, <1>2, <1>3, <1>4, <1>5, <1>6 DEF RecInv, RecTypes

(* B: the list is what was driven, when it is the first. *)
LEMMA EndFacts == ASSUME RecInv, NEW button, mark_end(button) PROVE RecInv'
<1>0. /\ rec \in Recording /\ new \in Making /\ desList \in Seq(Nat) /\ <<>> \in Seq(Nat)
      /\ rec.undisturbed \in BOOLEAN /\ Click
  BY DEF RecInv, RecTypes, Recording, mark_end, Dialog
<1>1. CASE new.newMode = "AB"
  <2>1. new' = [new EXCEPT !.curvePts = <<0>>] /\ UNCHANGED <<desList, rec>>
    BY <1>1 DEF mark_end, MarkedAB
  <2>2. ~rec'.undisturbed /\ rec' \in Recording
    BY <1>0, <1>1, <2>1 DEF RecInv, Undisturbed
  <2>3. new' \in Making
    <3>1. <<0>> \in Seq(Nat)
      OBVIOUS
    <3> DEFINE one == <<0>>
    <3> HIDE DEF one
    <3>2. one \in Seq(Nat) /\ new' = [new EXCEPT !.curvePts = one]
      BY <2>1, <3>1 DEF one
    <3> QED
      BY <1>0, <3>2 DEF Making
  <2> QED
    BY <1>0, <2>1, <2>2, <2>3, RecDisturbed
<1>2. CASE new.newMode # "AB" /\ Len(desList) > LeastPoints
  <2>1. /\ new' = [new EXCEPT !.curvePts = Extended] /\ desList' = Extended
        /\ rec' = [rec EXCEPT !.on = FALSE,
                              !.undisturbed = rec.undisturbed /\ new.curvePts = <<>>]
    BY <1>2 DEF mark_end, MarkedCurve
  <2>2. Extended \in Seq(Nat) /\ Len(Extended) = Len(desList) + 2 /\ Extended # <<>>
    BY <1>0, ExtendedFacts DEF Extended
  <2>3. /\ new' \in Making /\ new'.curvePts = Extended /\ new'.mode = new.mode
        /\ new'.newMode = new.newMode
    BY <1>0, <2>1, <2>2 DEF Making
  <2>4. /\ rec' \in Recording /\ rec'.on = FALSE /\ rec'.points = rec.points
        /\ rec'.undisturbed => rec.undisturbed /\ new.curvePts = <<>>
    BY <1>0, <2>1 DEF Recording
  <2>5. inputs' \in 0..MaxInputs /\ Len(desList') <= MaxPoints + 2 * inputs'
    BY <1>0, <2>1, <2>2, PointsAssumption, BoundAssumption DEF Click, RecInv, RecTypes
  <2>6. ASSUME rec'.undisturbed
        PROVE  /\ new'.mode = "curve" /\ new'.newMode = "curve" /\ new'.curvePts # <<>> /\ ~rec'.on
               /\ new'.curvePts = <<0>> \o rec'.points \o <<0>>
    <3>1. new.mode = "curve" /\ new.newMode = "curve" /\ desList = rec.points
      BY <2>4, <2>6 DEF RecInv, Undisturbed, Driven
    <3>2. Extended = <<0>> \o rec'.points \o <<0>>
      BY <2>4, <3>1 DEF Extended
    <3> QED
      BY <2>2, <2>3, <2>4, <3>1, <3>2
  <2>7. Undisturbed'
    BY <2>6 DEF Undisturbed, Marked
  <2> QED
    BY <2>1, <2>2, <2>3, <2>4, <2>5, <2>7 DEF RecInv, RecTypes
<1>3. CASE new.newMode # "AB" /\ ~(Len(desList) > LeastPoints)
  <2>1. /\ new' = [new EXCEPT !.curvePts = <<>>, !.isMakingCurve = FALSE] /\ desList' = <<>>
        /\ rec' = [rec EXCEPT !.on = FALSE, !.undisturbed = FALSE]
    BY <1>3 DEF mark_end, MarkedCurve
  <2>2. new' \in Making /\ rec' \in Recording /\ ~rec'.undisturbed
    BY <1>0, <2>1 DEF Making, Recording
  <2> QED
    BY <1>0, <2>1, <2>2, RecDisturbed
<1> QED
  BY <1>1, <1>2, <1>3

LEMMA SelectingDisturbs ==
    ASSUME RecInv, Click, Selecting, new' \in Making
    PROVE  RecInv'
<1>1. desList' = <<>> /\ rec' = [rec EXCEPT !.undisturbed = FALSE]
  BY DEF Selecting, Interfered
<1>2. rec' \in Recording /\ ~rec'.undisturbed
  BY <1>1 DEF RecInv, RecTypes, Recording
<1> QED
  BY <1>1, <1>2, RecDisturbed

LEMMA FinishRecFacts == ASSUME RecInv, finish_new PROVE RecInv'
<1>1. new \in Making /\ Click
  BY DEF RecInv, RecTypes, finish_new, Dialog
<1>2. CASE IsMaking
  <2>1. new' \in {[new EXCEPT !.isMakingABLine = FALSE], [new EXCEPT !.isMakingCurve = FALSE]}
        /\ Selecting
    BY <1>2 DEF finish_new
  <2>2. new' \in Making
    BY <1>1, <2>1 DEF Making
  <2> QED
    BY <1>1, <2>1, <2>2, SelectingDisturbs
<1>3. CASE ~IsMaking
  BY <1>1, <1>3, RecStill DEF finish_new
<1> QED
  BY <1>2, <1>3

LEMMA CancelFacts == ASSUME RecInv, cancel_new PROVE RecInv'
<1>1. /\ new' = [new EXCEPT !.mode = None, !.isMakingABLine = FALSE, !.isMakingCurve = FALSE]
      /\ desList' \in {desList, <<>>}
      /\ rec' = [rec EXCEPT !.on = FALSE, !.undisturbed = FALSE] /\ Click
  BY DEF cancel_new, Dialog
<1>2. new' \in Making /\ rec' \in Recording /\ ~rec'.undisturbed
  BY <1>1 DEF RecInv, RecTypes, Making, Recording
<1> QED
  BY <1>1, <1>2, RecDisturbed

(* Pause stops what the user sees and what is recorded, before B. *)
LEMMA PauseFacts == ASSUME RecInv, NEW on \in BOOLEAN, pause(on) PROVE RecInv'
<1>0. /\ rec \in Recording /\ new \in Making /\ desList \in Seq(Nat)
      /\ rec.undisturbed \in BOOLEAN /\ Click
  BY DEF RecInv, RecTypes, Recording, pause, Dialog
<1>1. /\ new' = IF new.mode = "curve" THEN [new EXCEPT !.isMakingCurve = ~on] ELSE new
      /\ rec' = [rec EXCEPT !.on = ~on, !.undisturbed = rec.undisturbed /\ new.curvePts = <<>>]
      /\ UNCHANGED desList
  BY DEF pause
<1>2. /\ rec' \in Recording /\ rec'.on = ~on /\ rec'.points = rec.points
      /\ rec'.undisturbed => rec.undisturbed /\ new.curvePts = <<>>
  BY <1>0, <1>1 DEF Recording
<1>3. /\ new' \in Making /\ new'.mode = new.mode /\ new'.newMode = new.newMode
      /\ new'.curvePts = new.curvePts
      /\ new.mode = "curve" => new'.isMakingCurve = ~on
  BY <1>0, <1>1 DEF Making
<1>4. Undisturbed'
  BY <1>1, <1>2, <1>3 DEF RecInv, Undisturbed, Driven
<1>5. inputs' \in 0..MaxInputs /\ Len(desList') <= MaxPoints + 2 * inputs'
  BY <1>0, <1>1, PointsAssumption, BoundAssumption DEF Click, RecInv, RecTypes
<1> QED
  BY <1>0, <1>1, <1>2, <1>3, <1>4, <1>5 DEF RecInv, RecTypes

LEMMA InitRecInv == Init => RecInv
<1> SUFFICES ASSUME Init PROVE RecInv
  OBVIOUS
<1>1. <<>> \in Seq(Nat)
  OBVIOUS
<1>2. rec \in Recording /\ ~rec.undisturbed /\ new \in Making
  BY <1>1 DEF Init, NoTrack, Recording, Making
<1>3. desList \in Seq(Nat) /\ inputs \in 0..MaxInputs /\ Len(desList) <= MaxPoints + 2 * inputs
  BY <1>1, PointsAssumption, BoundAssumption DEF Init
<1> QED
  BY <1>2, <1>3 DEF RecInv, RecTypes, Undisturbed

LEMMA NextRecInv == RecInv /\ [Next]_vars => RecInv'
<1> SUFFICES ASSUME RecInv, [Next]_vars PROVE RecInv'
  OBVIOUS
<1> USE DEF Dialog, recVars
<1>1. CASE Frame
  BY <1>1, PointFacts DEF Frame
<1>2. CASE JobBegins \/ JobEnds
  BY <1>2, RecStill DEF JobBegins, JobEnds
<1>3. CASE select
  <2>1. Click /\ Selecting /\ new' = new /\ new \in Making
    BY <1>3 DEF select, RecInv, RecTypes
  <2> QED
    BY <2>1, SelectingDisturbs
<1>4. CASE next \/ prev \/ delete_track \/ setVisible \/ nudge \/ swapAB
  BY <1>4, RecStill DEF next, prev, Cycling, delete_track, setVisible, nudge, swapAB
<1>5. CASE BuildManualYouLateral \/ Button \/ JobClose \/ FileOpenField
  BY <1>5, RecStill DEF BuildManualYouLateral, Button, JobClose, FileOpenField
<1>6. ASSUME NEW mode \in Kinds, mark_start(mode) PROVE RecInv'
  BY <1>6, StartFacts
<1>7. ASSUME NEW button \in {"btnB", "btnBCurve"}, mark_end(button) PROVE RecInv'
  BY <1>7, EndFacts
<1>8. CASE ABOk \/ CancelName
  BY <1>8, RecStill DEF ABOk, CancelName
<1>9. CASE finish_new
  BY <1>9, FinishRecFacts
<1>10. CASE cancel_new
  BY <1>10, CancelFacts
<1>11. ASSUME NEW on \in BOOLEAN, pause(on) PROVE RecInv'
  BY <1>11, PauseFacts
<1>12. CASE UNCHANGED vars
  BY <1>12, RecStill DEF vars
<1> QED
  BY <1>1, <1>2, <1>3, <1>4, <1>5, <1>6, <1>7, <1>8, <1>9, <1>10, <1>11, <1>12 DEF Next

(* For any number of points and clicks: a curve whose B was pressed once, with no track     *)
(* selected and no pause after B, has the points driven since its A, whatever dialogs were  *)
(* open before (CABCurve::desList, CTrack::mark_start, mark_end, pause).                    *)
THEOREM WholeCurves == Spec => []RecordedCurveIsWhole
<1>1. Init => RecInv
  BY InitRecInv
<1>2. RecInv /\ [Next]_vars => RecInv'
  BY NextRecInv
<1>3. RecInv => RecordedCurveIsWhole
  BY DEF RecInv, Undisturbed, Marked, RecordedCurveIsWhole
<1> QED
  BY <1>1, <1>2, <1>3, PTL DEF Spec
----------------------------------------------------------------------------
(* The types of the rest: every track is in the list once, a line is of a track of its     *)
(* kind, and what follows a track starts one job at most.                                  *)

Job == [running : BOOLEAN, exists : BOOLEAN]

LineOk(l) ==
    /\ l \in Lines
    /\ l["AB"].valid => l["AB"].of \in ABTracks
    /\ l["curve"].of \notin ABTracks \cup BoundaryTracks
JobsOk == jobs \in Seq(Job) /\ Len(jobs) <= MaxJobs
FlagsOk ==
    /\ buttons \subseteq {"steer", "auto", "contour"}
    /\ isReady \in BOOLEAN /\ isBusyWorking \in BOOLEAN
    /\ isAutoSnapped \in BOOLEAN /\ isJobStarted \in BOOLEAN

LEMMA NextTracks == ASSUME IInv, TracksTypeOK, [Next]_vars PROVE TracksTypeOK'
<1>1. CASE Frame
  <2>1. CASE "contour" \in buttons \/ idx = 0
    BY <1>1, <2>1, TracksStill DEF Frame, FollowsNone
  <2>2. CASE ~("contour" \in buttons \/ idx = 0)
    <3>1. PICK i \in {idx} \cup ClosestTracks : Selects(i)
      BY <1>1, <2>2 DEF Frame, FollowsTrack
    <3>2. CASE i = idx
      BY <3>1, <3>2, TracksStill DEF Selects, trackVars
    <3>3. CASE i # idx
      BY <3>1, <3>3, SelectsFacts DEF ClosestTracks, Selectable
    <3> QED
      BY <3>2, <3>3
  <2> QED
    BY <2>1, <2>2
<1>2. CASE select
  BY <1>2, SelectsFacts DEF select
<1>3. CASE next \/ prev
  BY <1>3, SelectsFacts DEF next, prev, Cycling, Cycles, Selectable
<1>4. CASE delete_track
  BY <1>4, RemovesFacts DEF delete_track
<1>5. CASE setVisible
  BY <1>5, HidesFacts DEF setVisible
<1>6. CASE finish_new
  <2>1. CASE IsMaking
    BY <1>6, <2>1, AddsFacts DEF finish_new
  <2>2. CASE ~IsMaking
    BY <1>6, <2>2, TracksStill DEF finish_new
  <2> QED
    BY <2>1, <2>2
<1>7. CASE JobClose \/ FileOpenField
  BY <1>7, LoadedFacts DEF JobClose, FileOpenField
<1>8. CASE JobBegins \/ JobEnds \/ nudge \/ swapAB \/ BuildManualYouLateral \/ Button
  BY <1>8, TracksStill DEF JobBegins, JobEnds, nudge, swapAB, BuildManualYouLateral, Button
<1>9. CASE \/ \E mode \in Kinds : mark_start(mode)
           \/ \E button \in {"btnB", "btnBCurve"} : mark_end(button)
           \/ ABOk \/ CancelName \/ cancel_new
           \/ \E on \in BOOLEAN : pause(on)
           \/ UNCHANGED vars
  BY <1>9, TracksStill DEF mark_start, mark_end, ABOk, CancelName, cancel_new, pause, vars
<1> QED
  BY <1>1, <1>2, <1>3, <1>4, <1>5, <1>6, <1>7, <1>8, <1>9 DEF Next

(* What marks a line leaves the track it is of. *)
LEMMA MarkedOk ==
    ASSUME NEW l, LineOk(l)
    PROVE  /\ \A kinds : LineOk(Invalid(l, kinds))
           /\ \A t : LineOk(Outdated(l, t))
           /\ \A i : LineOk(NudgeTrack(l, i))
<1>0. l \in Lines /\ "AB" \in Kinds /\ "curve" \in Kinds
  BY DEF LineOk, Kinds
<1>1. ASSUME NEW m, LineOk(m), NEW kinds PROVE LineOk(Invalid(m, kinds))
  <2>1. m \in Lines
    BY <1>1 DEF LineOk
  <2>2. /\ Invalid(m, kinds) \in Lines
        /\ \A k \in Kinds : /\ Invalid(m, kinds)[k].of = m[k].of
                            /\ Invalid(m, kinds)[k].valid => m[k].valid
    BY <2>1 DEF Invalid, Lines
  <2> QED
    BY <1>0, <1>1, <2>2 DEF LineOk
<1>2. ASSUME NEW t PROVE LineOk(Outdated(l, t))
  <2>1. /\ Outdated(l, t) \in Lines
        /\ \A k \in Kinds : Outdated(l, t)[k].of = l[k].of /\ Outdated(l, t)[k].valid = l[k].valid
    BY <1>0 DEF Outdated, Lines
  <2> QED
    BY <1>0, <2>1 DEF LineOk
<1>3. ASSUME NEW i PROVE LineOk(NudgeTrack(l, i))
  BY <1>1, <1>2 DEF NudgeTrack
<1> QED
  BY <1>1, <1>2, <1>3

LEMMA StartJobOk ==
    ASSUME JobsOk PROVE StartJob \in Seq(Job)
<1>1. [running |-> FALSE, exists |-> TRUE] \in Job /\ jobs \in Seq(Job)
  BY DEF Job, JobsOk
<1> QED
  BY <1>1 DEF StartJob

(* What is built: a line of its own kind, and none along a boundary. *)
LEMMA BuiltOk ==
    ASSUME NEW l, LineOk(l), NEW t \in AllTracks, JobsOk, isReady \in BOOLEAN,
           NEW b \in BuildCurrentLine(l, t)
    PROVE  LineOk(b[1]) /\ b[2] \in Seq(Job) /\ b[3] \in BOOLEAN
<1>0. l \in Lines /\ "AB" \in Kinds /\ "curve" \in Kinds /\ jobs \in Seq(Job)
  BY DEF LineOk, Kinds, JobsOk
<1>1. CASE Mode(t) = "AB"
  <2>1. PICK c \in BuildCurrentABLineList(l, t) : b = <<c, jobs, isReady>>
    BY <1>1 DEF BuildCurrentLine
  <2>2. t \in ABTracks
    BY <1>1 DEF Mode
  <2>3. LineOk(Built(l, "AB", t))
    <3>1. /\ Built(l, "AB", t) \in Lines /\ Built(l, "AB", t)["AB"].of = t
          /\ Built(l, "AB", t)["curve"] = l["curve"]
      BY <1>0, BuiltFacts DEF Built, Lines
    <3> QED
      BY <2>2, <3>1 DEF LineOk
  <2>4. c = Built(l, "AB", t) \/ c = l
    BY <2>1 DEF BuildCurrentABLineList
  <2> QED
    BY <1>0, <2>1, <2>3, <2>4
<1>2. CASE Mode(t) # "AB" /\ t \notin BoundaryTracks
  <2>1. PICK c \in BuildCurve(l, t) : b = <<c, jobs, isReady>>
    BY <1>2 DEF BuildCurrentLine, BuildCurveCurrentList
  <2>2. t \notin ABTracks \cup BoundaryTracks
    BY <1>2 DEF Mode
  <2>3. LineOk(Built(l, "curve", t))
    <3>1. /\ Built(l, "curve", t) \in Lines /\ Built(l, "curve", t)["curve"].of = t
          /\ Built(l, "curve", t)["AB"] = l["AB"]
      BY <1>0, BuiltFacts DEF Built, Lines
    <3> QED
      BY <2>2, <3>1 DEF LineOk
  <2>4. c = Built(l, "curve", t) \/ c = l
    BY <2>1 DEF BuildCurve
  <2> QED
    BY <1>0, <2>1, <2>3, <2>4
<1>3. CASE Mode(t) # "AB" /\ t \in BoundaryTracks
  <2> DEFINE emptied == IF isReady THEN Emptied(l) ELSE l
             validated == [emptied EXCEPT !["curve"].valid = TRUE]
  <2>1. b \in BuildBoundaryCurve(l)
    BY <1>3 DEF BuildCurrentLine, BuildCurveCurrentList
  <2>2. b \in {<<validated, StartJob, FALSE>>, <<emptied, jobs, FALSE>>}
    BY <2>1 DEF BuildBoundaryCurve
  <2>3. emptied \in Lines /\ emptied["AB"] = l["AB"] /\ emptied["curve"].of \in {None, l["curve"].of}
    BY <1>0, EmptiedFacts
  <2>4. LineOk(emptied)
    <3> HIDE DEF emptied
    <3> QED
      BY <2>3, NoneAssumption DEF LineOk, AllTracks
  <2> HIDE DEF emptied
  <2>5. /\ validated \in Lines /\ validated["AB"] = emptied["AB"]
        /\ validated["curve"].of = emptied["curve"].of
    BY <1>0, <2>3 DEF Lines
  <2> HIDE DEF validated
  <2>6. LineOk(validated)
    BY <2>4, <2>5 DEF LineOk
  <2>7. CASE b = <<validated, StartJob, FALSE>>
    BY <2>6, <2>7, StartJobOk
  <2>8. CASE b = <<emptied, jobs, FALSE>>
    BY <1>0, <2>4, <2>8
  <2> QED
    BY <2>2, <2>7, <2>8
<1> QED
  BY <1>1, <1>2, <1>3

LEMMA JobFacts ==
    ASSUME NEW q \in Job
    PROVE  [q EXCEPT !.running = TRUE] \in Job /\ [q EXCEPT !.exists = FALSE] \in Job
  BY DEF Job

(* The same jobs, whose tracks are gone. *)
LEMMA LosingOk == ASSUME JobsOk, JobsLoseTracks PROVE JobsOk'
<1>0. jobs \in Seq(Job) /\ \A j \in DOMAIN jobs : jobs[j] \in Job
  BY DEF JobsOk
<1>1. \A j \in DOMAIN jobs : [jobs[j] EXCEPT !.exists = FALSE] \in Job
  BY <1>0, JobFacts
<1>2. jobs' \in Seq(Job) /\ Len(jobs') = Len(jobs)
  BY <1>0, <1>1 DEF JobsLoseTracks
<1> QED
  BY <1>0, <1>2 DEF JobsOk

RestOk == LineOk(line) /\ JobsOk /\ FlagsOk

LEMMA FrameOk ==
    ASSUME IInv, RestOk, Frame
    PROVE  RestOk'
<1>0. UNCHANGED <<buttons, isBusyWorking, isJobStarted>>
  BY DEF Frame
<1>1. CASE "contour" \in buttons \/ idx = 0
  <2>1. PICK s : AutoSnap(line, idx, s)
    BY <1>1 DEF Frame, FollowsNone
  <2>2. UNCHANGED <<jobs, isReady>>
    BY <1>1 DEF Frame, FollowsNone
  <2>3. line' \in {line, NudgeTrack(line, idx)} /\ isAutoSnapped' \in BOOLEAN
    BY <2>1 DEF AutoSnap
  <2> QED
    BY <1>0, <2>2, <2>3, MarkedOk DEF RestOk, JobsOk, FlagsOk
<1>2. CASE ~("contour" \in buttons \/ idx = 0)
  <2>1. PICK i \in {idx} \cup (IF Switches THEN ClosestTracks ELSE {}), turning \in BOOLEAN :
          \E built \in BuildCurrentLine(Switched(i), gArr[i]) :
              /\ Len(built[2]) <= MaxJobs
              /\ \E s : AutoSnap(built[1], i, s)
              /\ jobs' = built[2] /\ isReady' = built[3]
    BY <1>2 DEF Frame, FollowsTrack
  <2>2. PICK built \in BuildCurrentLine(Switched(i), gArr[i]) :
              /\ Len(built[2]) <= MaxJobs
              /\ \E s : AutoSnap(built[1], i, s)
              /\ jobs' = built[2] /\ isReady' = built[3]
    BY <2>1
  <2>3. ListOk(gArr, i) /\ i # 0
    BY <1>2 DEF IInv, ListOk, ClosestTracks, Visible
  <2>4. LineOk(Switched(i))
    BY MarkedOk DEF Switched, RestOk
  <2>5. LineOk(built[1]) /\ built[2] \in Seq(Job) /\ built[3] \in BOOLEAN
    BY <2>3, <2>4, SelectedTrack, BuiltOk DEF RestOk, FlagsOk
  <2>6. line' \in {built[1], NudgeTrack(built[1], i)} /\ isAutoSnapped' \in BOOLEAN
    BY <2>2 DEF AutoSnap
  <2>7. LineOk(line')
    BY <2>5, <2>6, MarkedOk
  <2> QED
    BY <1>0, <2>2, <2>5, <2>6, <2>7 DEF RestOk, JobsOk, FlagsOk
<1> QED
  BY <1>1, <1>2

LEMMA JobsRunOk == ASSUME RestOk, JobBegins \/ JobEnds PROVE RestOk'
<1>0. UNCHANGED <<line, isAutoSnapped, buttons, isJobStarted>> /\ isBusyWorking' \in BOOLEAN
      /\ isReady' \in BOOLEAN
  BY DEF JobBegins, JobEnds, frameVars
<1>1. jobs \in Seq(Job) /\ Len(jobs) <= MaxJobs
  BY DEF RestOk, JobsOk
<1>2. CASE JobBegins
  <2>1. PICK j \in DOMAIN jobs : jobs' = [jobs EXCEPT ![j].running = TRUE]
    BY <1>2 DEF JobBegins
  <2>2. [jobs[j] EXCEPT !.running = TRUE] \in Job
    <3>1. jobs[j] \in Job
      BY <1>1
    <3> QED
      BY <3>1, JobFacts
  <2>3. jobs' \in Seq(Job) /\ Len(jobs') = Len(jobs)
    BY <1>1, <2>1, <2>2
  <2> QED
    BY <1>0, <1>1, <2>3 DEF RestOk, JobsOk, FlagsOk
<1>3. CASE JobEnds
  <2>1. PICK j \in DOMAIN jobs : jobs' = RemoveAt(jobs, j)
    BY <1>3 DEF JobEnds
  <2>2. jobs' \in Seq(Job) /\ Len(jobs') = Len(jobs) - 1
    BY <1>1, <2>1, RemoveAtFacts
  <2>3. Len(jobs') <= MaxJobs
    BY <1>1, <2>2, BoundAssumption
  <2> QED
    BY <1>0, <2>2, <2>3 DEF RestOk, JobsOk, FlagsOk
<1> QED
  BY <1>2, <1>3

(* A click marks the line, leaves the jobs or takes their tracks away, and may press a     *)
(* button.                                                                                 *)
LEMMA ClickOk ==
    ASSUME RestOk, UNCHANGED <<isReady, isBusyWorking, isAutoSnapped>>,
           \/ UNCHANGED line \/ \E kinds : line' = Invalid(line, kinds)
           \/ \E t : line' = Outdated(line, t) \/ \E i : line' = NudgeTrack(line, i),
           UNCHANGED jobs \/ JobsLoseTracks,
           buttons' \subseteq buttons \cup {"steer", "auto", "contour"}, isJobStarted' \in BOOLEAN
    PROVE  RestOk'
<1>1. LineOk(line')
  BY MarkedOk DEF RestOk
<1>2. JobsOk'
  BY LosingOk DEF RestOk, JobsOk
<1>3. FlagsOk'
  BY DEF RestOk, FlagsOk
<1> QED
  BY <1>1, <1>2, <1>3 DEF RestOk

(* What closing and opening a field makes of the lines. *)
LEMMA FieldLinesOk ==
    ASSUME LineOk(line)
    PROVE  LineOk(Emptied(line)) /\ LineOk(LeftFromBefore)
<1>0. line \in Lines /\ "AB" \in Kinds /\ "curve" \in Kinds
  BY DEF LineOk, Kinds
<1>1. LineOk(Emptied(line))
  BY <1>0, EmptiedFacts, NoneAssumption DEF LineOk, AllTracks
<1>2. LineOk(LeftFromBefore)
  <2>1. /\ LeftFromBefore \in Lines
        /\ \A k \in Kinds : /\ LeftFromBefore[k].of = line[k].of
                            /\ LeftFromBefore[k].valid = line[k].valid
    BY <1>0 DEF LeftFromBefore, Lines
  <2> QED
    BY <1>0, <2>1 DEF LineOk
<1> QED
  BY <1>1, <1>2

LEMMA NextRest == ASSUME IInv, RestOk, [Next]_vars PROVE RestOk'
<1> USE DEF Click, Dialog, lineVars, frameVars, recVars
<1>0. isJobStarted \in BOOLEAN /\ buttons \subseteq {"steer", "auto", "contour"}
  BY DEF RestOk, FlagsOk
<1>1. CASE Frame
  BY <1>1, FrameOk
<1>2. CASE JobBegins \/ JobEnds
  BY <1>2, JobsRunOk
<1>3. CASE select \/ BuildManualYouLateral
  BY <1>0, <1>3, ClickOk DEF select, Selecting, BuildManualYouLateral
<1>4. CASE next \/ prev \/ delete_track \/ setVisible
  BY <1>0, <1>4, ClickOk DEF next, prev, Cycling, delete_track, setVisible
<1>5. CASE nudge
  BY <1>0, <1>5, ClickOk DEF nudge, Nudged
<1>6. CASE swapAB
  BY <1>0, <1>6, ClickOk DEF swapAB
<1>7. CASE Button
  BY <1>0, <1>7, ClickOk DEF Button, SymDiff
<1>8. ASSUME NEW mode \in Kinds, mark_start(mode) PROVE RestOk'
  BY <1>0, <1>8, ClickOk DEF mark_start
<1>9. ASSUME NEW button \in {"btnB", "btnBCurve"}, mark_end(button) PROVE RestOk'
  <2>1. line' \in {line, Invalid(line, {"curve"})}
    BY <1>9 DEF mark_end, MarkedAB, MarkedCurve
  <2> QED
    BY <1>0, <1>9, <2>1, ClickOk DEF mark_end
<1>10. CASE ABOk \/ CancelName \/ cancel_new
  BY <1>0, <1>10, ClickOk DEF ABOk, CancelName, cancel_new
<1>11. CASE finish_new
  <2>1. (UNCHANGED line \/ line' = Invalid(line, Kinds)) /\ (UNCHANGED jobs \/ JobsLoseTracks)
    BY <1>11 DEF finish_new, Selecting
  <2>2. UNCHANGED <<isReady, isBusyWorking, isAutoSnapped, buttons, isJobStarted>>
    BY <1>11 DEF finish_new
  <2> QED
    BY <1>0, <2>1, <2>2, ClickOk
<1>12. ASSUME NEW on \in BOOLEAN, pause(on) PROVE RestOk'
  BY <1>0, <1>12, ClickOk DEF pause
<1>13. CASE JobClose \/ FileOpenField
  <2>1. LineOk(line')
    BY <1>13, FieldLinesOk DEF RestOk, JobClose, ResetCurveLine, FileOpenField
  <2>2. JobsOk' /\ FlagsOk'
    BY <1>0, <1>13, LosingOk DEF RestOk, JobsOk, FlagsOk, JobClose, FileOpenField
  <2> QED
    BY <2>1, <2>2 DEF RestOk
<1>14. CASE UNCHANGED vars
  BY <1>0, <1>14, ClickOk DEF vars
<1> QED
  BY <1>1, <1>2, <1>3, <1>4, <1>5, <1>6, <1>7, <1>8, <1>9, <1>10, <1>11, <1>12, <1>13,
     <1>14 DEF Next

LEMMA InitTypes == Init => TracksTypeOK /\ RestOk
<1> SUFFICES ASSUME Init PROVE TracksTypeOK /\ RestOk
  OBVIOUS
<1>1. TracksTypeOK
  BY FieldListFacts DEF Init, TracksInit, TracksTypeOK
<1>2. LineOk(line)
  BY NoneAssumption DEF Init, NoLine, Lines, LineOk, Kinds, AllTracks
<1>3. JobsOk
  BY BoundAssumption DEF Init, JobsOk
<1>4. FlagsOk
  BY DEF Init, FlagsOk
<1> QED
  BY <1>1, <1>2, <1>3, <1>4 DEF RestOk

(* For any tracks, points, clicks and jobs: the selected track is one of the list, which    *)
(* has every track once, a valid AB line is of an AB line's track, no curve is of a         *)
(* boundary or an AB line, and the lists stay within the bounds (CTrack, CABLine, CABCurve). *)
THEOREM TypeCorrect == Spec => []TypeOK
<1> DEFINE Inv == IInv /\ RecInv /\ TracksTypeOK /\ RestOk
<1>1. Init => Inv
  BY InitIInv, InitRecInv, InitTypes
<1>2. Inv /\ [Next]_vars => Inv'
  BY NextIInv, NextRecInv, NextTracks, NextRest
<1>3. Inv => TypeOK
  <2>1. RecInv => Len(desList) <= MaxPoints + 2 * MaxInputs
    BY PointsAssumption, BoundAssumption DEF RecInv, RecTypes
  <2> QED
    BY <2>1 DEF TypeOK, IInv, Reasons, RestOk, LineOk, JobsOk, FlagsOk, Lines, Job
<1> QED
  BY <1>1, <1>2, <1>3, PTL DEF Spec
=============================================================================
