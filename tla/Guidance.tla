------------------------------ MODULE Guidance ------------------------------
(***************************************************************************)
(* Turning at the end of a row: the U-turn (CYouTurn) with its row         *)
(* pattern, the selected track (Tracks), the switches on the screen and    *)
(* what the steering module is told every frame (PGN 254).  The lines that *)
(* are steered by are in GuidanceLines.                                    *)
(*                                                                         *)
(* Everything runs on the main thread.  A frame (UpdateFixPosition) reads  *)
(* what the user's clicks, the quarter-second timer and a queued signal    *)
(* have left, so what matters is which of them comes between two frames.   *)
(* Geometry is abstracted to the outcomes the control depends on: whether  *)
(* the vehicle is inside the turn area, off the track, near the turn, at   *)
(* its end; whether a path can be drawn.  Out-of-bounds and too-close      *)
(* warnings are display only and left out.  A boundary is there.           *)
(***************************************************************************)
EXTENDS SkipPattern, Tracks

CONSTANTS
    Modes, Widths,          \* alternateSkips at the start, youturn_skipWidth
    WideFrom,               \* the width from which a turn is wide
    UTurnWait,              \* ticks between attempts to draw a turn, 4 in the code
    Styles,                 \* uTurnStyle: 0 Dubins, 1 K
    MaxInputs,              \* bound: clicks
    MaxTurns                \* bound: automatic turns on end

ASSUME PatternAssumption == Modes \subseteq 0..3 /\ Widths \subseteq Nat \ {0}
ASSUME StyleAssumption == Styles \subseteq {0, 1} /\ WideFrom \in Nat /\ UTurnWait \in Nat
ASSUME BoundAssumption == MaxInputs \in Nat /\ MaxTurns \in Nat

VARIABLES
    yt,                     \* CYouTurn: phase, path (ytList), triggered, straight, counter,
                            \* style, and the crossing its turn starts at (closestTurnPt)
    skips,                  \* its row pattern
    isYouTurnBtnOn, isBtnAutoSteerOn, isContourBtnOn, isAutoTrack, isInFreeDriveMode,
    isJobStarted,
    resets,                 \* queued calls of ResetCreatedYouTurn
    p_254,                  \* its status, and whether its angle was computed in that frame
    rows,                   \* the rows visited by automatic turns alone, or Disturbed
    inputs, alive           \* alive: the program has not run past the end of a list

buttonVars == <<isYouTurnBtnOn, isBtnAutoSteerOn, isContourBtnOn, isAutoTrack, isInFreeDriveMode>>
vars == <<trackVars, yt, skips, buttonVars, isJobStarted, resets, p_254, rows, inputs, alive>>

NoPath == [by |-> "nobody", used |-> {}]
Path(by, used) == [by |-> by, used |-> used]
Disturbed == [row |-> 0, way |-> 1, done |-> {}, turns |-> 0]

\* Auto U-turn has just been switched on while steering along a track.  Nothing
\* initialises isYouTurnRight.
Init ==
    /\ TracksInit
    /\ \E s \in Styles :
          yt = [phase |-> 0, path |-> NoPath, triggered |-> FALSE, straight |-> FALSE,
                counter |-> 0, style |-> s, crossing |-> "none"]
    /\ \E m \in Modes, w \in Widths, r \in BOOLEAN :
          /\ m > 0 => w > 1
          /\ skips = Set_Alternate_skips(
                [alternateSkips |-> m, rowSkipsWidth |-> w, rowSkipsWidth2 |-> w, turnSkips |-> 0,
                 previousBigSkip |-> FALSE, isYouTurnRight |-> r])
    /\ isYouTurnBtnOn = TRUE /\ isBtnAutoSteerOn = TRUE /\ isContourBtnOn = FALSE
    /\ isAutoTrack = FALSE /\ isInFreeDriveMode = FALSE /\ isJobStarted = TRUE
    /\ resets = 0
    /\ p_254 = [status |-> FALSE, fresh |-> FALSE]
    /\ rows = [row |-> 0, way |-> 1, done |-> {0}, turns |-> 0]
    /\ inputs = 0 /\ alive = TRUE

-----------------------------------------------------------------------------
\* The U-turn's own operations, on y = yt.

ResetCreatedYouTurn(y) ==
    [y EXCEPT !.phase = 0, !.path = NoPath, !.counter = 0, !.straight = FALSE]
ResetYouTurn(y) == ResetCreatedYouTurn([y EXCEPT !.triggered = FALSE])
CompleteYouTurn(y) == ResetCreatedYouTurn([y EXCEPT !.triggered = FALSE])

\* The row a path drawn now leads to, and the path with a part for it added.
Aim == <<skips.rowSkipsWidth, skips.isYouTurnRight>>
Drawn(y) == [y EXCEPT !.path = Path("auto", {Aim})]
DrawnOn(y) == [y EXCEPT !.path = Path("auto", @.used \cup {Aim})]
Undrawn(y) == [y EXCEPT !.path = NoPath]
Phase(y, n) == [y EXCEPT !.phase = n]
FailCreate(y) == Phase(y, 11)

\* Where the line ahead leaves the turn area.  A search along a curve that finds nothing
\* leaves no crossing; one along an AB line leaves the crossing found before, on whatever
\* line that was.
FindCurveTurnPoint(y) == {[y EXCEPT !.crossing = c] : c \in {"none", "ahead"}}
FindCurveTurnPoints(y) == {[y EXCEPT !.crossing = c] : c \in {"none", "ahead"}}
FindABTurnPoint(y) ==
    {[y EXCEPT !.crossing = c] : c \in {"ahead", IF y.crossing = "none" THEN "none" ELSE "before"}}
FindClosestTurnPoint(y) == FindABTurnPoint(y)
Crossed(found) == {y \in found : y.crossing # "none"}
NotCrossed(found) == found \ Crossed(found)

\* A path is moved along the line until it is inside the turn area and touches its edge;
\* not when the vehicle is closer than three metres to it.
MoveTurnInsideTurnLine(y) == {y, Undrawn(y)}
MoveABTurnInsideTurnLine(y) == {y, Undrawn(y)}
\* ... and it fails, or goes on in phase n.
Moved(y, n) == {IF z.path = NoPath THEN FailCreate(z) ELSE Phase(z, n) : z \in MoveTurnInsideTurnLine(y)}

\* The lead in and out: along an AB line too close to the vehicle, along a curve over its ends.
AddABSequenceLines(y) == {y, FailCreate(y)}
AddCurveSequenceLines(y, n) == {Phase(y, n), FailCreate(y)}

\* The turn line crosses the line to come, this line further on, or neither.
FindCurveOutTurnPoint == {"next", "this", "none"}
FindABOutTurnPoint == {"next", "this", "none"}
\* The ends of the two half circles are on one turn line or on two.
FindInnerTurnPoints == {"same", "other"}

\* Small turns.  Phase 0: a Dubins path from the crossing, along a curve ever further
\* infield; phase 1: it is joined to the lines.
CurveOmegaDrawn(y) ==
    LET found == FindCurveTurnPoint(y)
    IN  {FailCreate(z) : z \in NotCrossed(found)} \cup
        UNION {{FailCreate(Undrawn(z)), FailCreate(Drawn(z))} \cup Moved(Drawn(z), 1)
                  : z \in Crossed(found)}
CurveOmegaJoined(y) == AddCurveSequenceLines(DrawnOn(y), 10)
CurveOmegaTurn(y) ==
    CASE y.phase = 0 -> CurveOmegaDrawn(y)
      [] y.phase = 1 -> CurveOmegaJoined(y)
      [] OTHER -> {y}

ABOmegaDrawn(y) ==
    LET found == FindABTurnPoint(y)
    IN  {FailCreate(z) : z \in NotCrossed(found)} \cup
        UNION {{FailCreate(Undrawn(z)), Phase(Drawn(z), 1)} : z \in Crossed(found)}
ABOmegaJoined(y) == UNION {IF z.phase = 10 THEN AddABSequenceLines(z) ELSE {z} : z \in Moved(y, 10)}
ABOmegaTurn(y) ==
    CASE y.phase = 0 -> ABOmegaDrawn(y)
      [] y.phase = 1 -> ABOmegaJoined(y)
      [] OTHER -> {y}

\* Wide turns.  Phase 0: a half circle off this line; phase 1: one onto the line to come, or
\* back onto this one; phase 2: both are joined along the turn line.
Straight(y) == {[y EXCEPT !.straight = s] : s \in BOOLEAN}
HalfCircle(y, crossings) ==
    UNION {IF out = "none" THEN {FailCreate(y)} ELSE {Phase(DrawnOn(y), 2), FailCreate(y)}
              : out \in crossings}

CurveWideOff(y) ==
    LET found == FindCurveTurnPoint(y)
    IN  {FailCreate(z) : z \in NotCrossed(found)} \cup
        UNION {{FailCreate(Drawn(z))} \cup Moved(Drawn(z), 1) : z \in Crossed(found)}
CurveWideOnto(y) == HalfCircle(y, FindCurveOutTurnPoint)
CurveWideJoined(y) ==
    UNION {IF ends = "other" THEN {FailCreate(y)} ELSE {FailCreate(y)} \cup Straight(Phase(y, 10))
              : ends \in FindInnerTurnPoints}
CurveWideTurn(y) ==
    CASE y.phase = 0 -> CurveWideOff(y)
      [] y.phase = 1 -> CurveWideOnto(y)
      [] y.phase = 2 -> CurveWideJoined(y)
      [] OTHER -> {y}

ABWideOff(y) ==
    LET found == FindABTurnPoint(y)
    IN  {FailCreate(z) : z \in NotCrossed(found)} \cup UNION {Moved(Drawn(z), 1) : z \in Crossed(found)}
ABWideOnto(y) == HalfCircle(y, FindABOutTurnPoint)
ABWideJoined(y) ==
    UNION {IF ends = "other" THEN {FailCreate(y)}
           ELSE {FailCreate(y)} \cup UNION {AddABSequenceLines(z) : z \in Straight(Phase(y, 10))}
              : ends \in FindInnerTurnPoints}
ABWideTurn(y) ==
    CASE y.phase = 0 -> ABWideOff(y)
      [] y.phase = 1 -> ABWideOnto(y)
      [] y.phase = 2 -> ABWideJoined(y)
      [] OTHER -> {y}

\* K turns, drawn at once: not in an inner turn area, and along an AB line only in phase 0.
\* An attempt may be left without a result.
KStyleTurnCurve(y) ==
    LET tried == [y EXCEPT !.counter = 0]
        found == FindCurveTurnPoints(tried)
    IN  {Phase(y, 0)} \cup {FailCreate(z) : z \in NotCrossed(found)} \cup
        UNION {{FailCreate(Undrawn(z)), Undrawn(z), Phase(Drawn(z), 10)} : z \in Crossed(found)}

KStyleTurnAB(y) ==
    LET tried == [y EXCEPT !.counter = 0]
        found == FindClosestTurnPoint(tried)
        drawn == UNION {MoveABTurnInsideTurnLine(Drawn(z)) : z \in Crossed(found)}
    IN  {Phase(y, 0)} \cup
        (IF y.phase # 0 THEN {tried}
         ELSE NotCrossed(found) \cup
              {IF z.path = NoPath THEN FailCreate(z) ELSE Phase(z, 10) : z \in drawn})

\* A new attempt at most every UTurnWait ticks of the watchdog, one phase a frame.
IsWide == skips.rowSkipsWidth >= WideFrom
BuildABLineDubinsYouTurn(y) ==
    CASE y.style = 1 -> KStyleTurnAB(y)
      [] y.style = 0 /\ IsWide -> ABWideTurn(y)
      [] y.style = 0 /\ ~IsWide -> ABOmegaTurn(y)
BuildCurveDubinsYouTurn(y) ==
    CASE y.style = 1 -> KStyleTurnCurve(y)
      [] y.style = 0 /\ IsWide -> CurveWideTurn(y)
      [] y.style = 0 /\ ~IsWide -> CurveOmegaTurn(y)
\* With no track selected the curve's turn is drawn.
IsABSelected(i) == i > 0 /\ Mode(gArr[i]) = "AB"
BuildDubinsYouTurn(y, i) ==
    IF y.counter < UTurnWait THEN {Phase(y, 0)}
    ELSE IF IsABSelected(i) THEN BuildABLineDubinsYouTurn(y) ELSE BuildCurveDubinsYouTurn(y)

\* A turn between curves reads the track while it is drawn, and a wide one reads
\* a list that is always empty (CreateCurveWideTurn's own nextCurve).
RunsPastTheEnd(y, i) ==
    /\ y.counter >= UTurnWait /\ y.style = 0 /\ ~IsABSelected(i)
    /\ (i = 0 /\ y.phase = 1) \/ (IsWide /\ y.phase = 2)

\* The rows a turn along the path moves over; a vehicle not going straight on
\* comes back the other way.
Visit(y) ==
    IF rows = Disturbed THEN rows
    ELSE LET aim == CHOOSE a \in y.path.used : TRUE
             to == rows.row + aim[1] * rows.way * (IF aim[2] THEN 1 ELSE -1)
         IN  [row |-> to, way |-> IF y.straight THEN rows.way ELSE -rows.way,
              done |-> rows.done \cup {to}, turns |-> rows.turns + 1]
MayTurn == rows # Disturbed => rows.turns < MaxTurns

-----------------------------------------------------------------------------
\* One frame of UpdateFixPosition: guidance, autosteer, then the U-turn.

\* With auto track on, and not steering, the closest visible track is selected.
SwitchToClosestRefTrack ==
    {idx} \cup (IF isAutoTrack /\ ~isBtnAutoSteerOn THEN ClosestTracks ELSE {})

\* A triggered turn is followed along its path until its end; a vehicle too far
\* from it ends it as well, and two points of it in one place leave a frame to the line.
\* What steers, and whether the turn was driven to its end.
DistanceFromYouTurnLine ==
    LET over == [yt |-> CompleteYouTurn(yt), by |-> "line", ended |-> TRUE]
    IN  CASE ~yt.triggered -> {[yt |-> yt, by |-> "line", ended |-> TRUE]}
          [] yt.triggered /\ yt.path = NoPath -> {[over EXCEPT !.ended = FALSE]}
          [] OTHER -> {over, [over EXCEPT !.ended = FALSE],
                       [yt |-> yt, by |-> "turn", ended |-> TRUE],
                       [yt |-> yt, by |-> "line", ended |-> TRUE]}

BuildCurrentLine(i) ==
    IF i = 0 THEN {[idx |-> i, yt |-> yt, by |-> "none", ended |-> TRUE]}
    ELSE {[idx |-> i, yt |-> f.yt, by |-> f.by, ended |-> f.ended] : f \in DistanceFromYouTurnLine}

Guided ==
    IF isContourBtnOn
    THEN {[idx |-> idx, yt |-> yt, by |-> b, ended |-> TRUE] : b \in {"contour", "none"}}
    ELSE UNION {BuildCurrentLine(i) : i \in SwitchToClosestRefTrack}

\* What the module is told; `back': reversing or changing direction.
AutoSteer(g) ==
    IF isInFreeDriveMode THEN {[status |-> TRUE, fresh |-> TRUE]}
    ELSE {[status |-> isBtnAutoSteerOn /\ ~back, fresh |-> g.by # "none"] : back \in BOOLEAN}

\* The U-turn region: outside the turn area, far off the track, a turn being drawn, and
\* one that is ready.  Each outcome is the turn and what happened to it.
YouTurn(g) ==
    LET y == g.yt
        Outcome(z, what) == [yt |-> z, what |-> what]
        stays == Outcome(y, "nothing")
        outside == IF y.triggered THEN {stays} ELSE {Outcome(ResetCreatedYouTurn(y), "left")}
        offTrack == IF g.by = "none" THEN {} ELSE {ResetCreatedYouTurn(y)}
        building == {Outcome(b, "nothing") : b \in offTrack \cup BuildDubinsYouTurn(y, g.idx)} \cup
                    (IF RunsPastTheEnd(y, g.idx) THEN {Outcome(y, "crash")} ELSE {})
        near == IF y.path # NoPath /\ ~y.triggered /\ MayTurn
                THEN {Outcome([y EXCEPT !.triggered = TRUE], "trigger")} ELSE {}
    IN  IF ~isYouTurnBtnOn THEN {stays}
        ELSE outside \cup (IF y.phase # 10 THEN building ELSE {stays} \cup near)

Frame ==
    /\ alive
    /\ \E g \in Guided :
          /\ Selects(g.idx)
          /\ p_254' \in AutoSteer(g)
          /\ \E t \in YouTurn(g) :
                /\ yt' = t.yt
                /\ skips' = IF t.what = "trigger" THEN AfterTrigger(skips, g.yt.straight) ELSE skips
                /\ rows' = IF ~g.ended \/ t.what = "left" THEN Disturbed
                           ELSE IF t.what = "trigger" THEN Visit(g.yt) ELSE rows
                /\ alive' = (t.what # "crash")
    /\ UNCHANGED <<buttonVars, isJobStarted, resets, inputs>>

\* tmrWatchdog_timeout, every quarter of a second.  Twice a second it calls
\* onStopAutoSteer when the autosteer is on without a track or contour: an empty function.
onStopAutoSteer == UNCHANGED isBtnAutoSteerOn
tmrWatchdog_timeout ==
    /\ alive
    /\ yt' = [yt EXCEPT !.counter = IF @ < UTurnWait THEN @ + 1 ELSE @]
    /\ onStopAutoSteer
    /\ UNCHANGED <<trackVars, skips, isYouTurnBtnOn, isContourBtnOn, isAutoTrack,
                   isInFreeDriveMode, isJobStarted, resets, p_254, rows, inputs, alive>>

\* The queued call of a selection arrives.
DeliverReset ==
    /\ alive /\ resets > 0
    /\ resets' = resets - 1
    /\ yt' = ResetCreatedYouTurn(yt)
    /\ UNCHANGED <<trackVars, skips, buttonVars, isJobStarted,
                   p_254, rows, inputs, alive>>

-----------------------------------------------------------------------------
\* Clicks.  Each counts, and each may take the vehicle off its rows.

Click ==
    /\ alive /\ inputs < MaxInputs
    /\ inputs' = inputs + 1
    /\ rows' = Disturbed
    /\ UNCHANGED <<p_254, alive>>

\* The turn drawn for the track before is reset when the queued call arrives.
select ==
    /\ Click /\ isJobStarted
    /\ \E i \in Selectable : Selects(i)
    /\ resets' = resets + 1
    /\ UNCHANGED <<yt, skips, buttonVars, isJobStarted>>

finish_new ==
    /\ Click /\ isJobStarted
    /\ \E t \in AllTracks : Adds(t)
    /\ resets' = resets + 1
    /\ UNCHANGED <<yt, skips, buttonVars, isJobStarted>>

next == Click /\ Cycles("next") /\ UNCHANGED <<yt, skips, buttonVars, isJobStarted, resets>>
prev == Click /\ Cycles("prev") /\ UNCHANGED <<yt, skips, buttonVars, isJobStarted, resets>>

delete_track ==
    /\ Click /\ isJobStarted
    /\ \E i \in DOMAIN gArr : Removes(i)
    /\ UNCHANGED <<yt, skips, buttonVars, isJobStarted, resets>>

setVisible ==
    /\ Click /\ isJobStarted
    /\ \E t \in ToSet(gArr) : Hides(t)
    /\ UNCHANGED <<yt, skips, buttonVars, isJobStarted, resets>>

\* The buttons of the automatic U-turn.  The width is the setting's of that moment (the
\* style is never changed here).
loadSettings(k, w) == Set_Alternate_skips([k EXCEPT !.rowSkipsWidth = w])

AutoYouTurn ==
    /\ Click /\ idx > 0
    /\ \E w \in Widths : skips' = loadSettings(skips, w)
    /\ yt' = IF isYouTurnBtnOn \/ isBtnAutoSteerOn THEN ResetYouTurn(yt)
                                                   ELSE ResetCreatedYouTurn(yt)
    /\ isYouTurnBtnOn' = (~isYouTurnBtnOn /\ isBtnAutoSteerOn)
    /\ UNCHANGED <<trackVars, isBtnAutoSteerOn, isContourBtnOn, isAutoTrack,
                   isInFreeDriveMode, isJobStarted, resets>>

\* A mutant: the turn drawn for the other side is kept.
SwapKeepsTurn ==
    /\ Click /\ ~yt.triggered
    /\ skips' = OtherSide(skips)
    /\ UNCHANGED <<trackVars, yt, buttonVars, isJobStarted, resets>>

\* The one button swaps the side or, in a turn, cancels it.
SwapAutoYouTurnDirection ==
    /\ Click /\ ~yt.triggered
    /\ skips' = OtherSide(skips)
    /\ yt' = ResetCreatedYouTurn(yt)
    /\ UNCHANGED <<trackVars, buttonVars, isJobStarted, resets>>
CancelYouTurn ==
    /\ Click /\ yt.triggered
    /\ yt' = ResetYouTurn(yt)
    /\ UNCHANGED <<trackVars, skips, buttonVars, isJobStarted, resets>>

YouSkip ==
    /\ Click
    /\ LET m == (skips.alternateSkips + 1) % 4
           k == [skips EXCEPT !.alternateSkips = m]
           atLeastTwo == [k EXCEPT !.rowSkipsWidth = IF @ < 2 THEN 2 ELSE @]
       IN  IF m = 0 THEN skips' = k /\ UNCHANGED yt
           ELSE skips' = Set_Alternate_skips(atLeastTwo) /\ yt' = ResetCreatedYouTurn(yt)
    /\ UNCHANGED <<trackVars, buttonVars, isJobStarted, resets>>

\* A manual turn, started or cancelled.  Without a track it is triggered all the same.
ManUTurn ==
    /\ Click
    /\ IF yt.triggered
       THEN yt' = ResetYouTurn(yt) /\ UNCHANGED skips
       ELSE /\ \E w \in Widths : skips' = loadSettings(skips, w)
            /\ yt' = [yt EXCEPT !.triggered = TRUE,
                                !.path = IF idx = 0 THEN @ ELSE Path("manual", {})]
    /\ UNCHANGED <<trackVars, buttonVars, isJobStarted, resets>>

\* Steering is engaged only along a track or contour; the speed leaving its limits ends it.
AutoSteerButton ==
    /\ Click /\ isJobStarted /\ (idx > 0 \/ isContourBtnOn)
    /\ isBtnAutoSteerOn' = ~isBtnAutoSteerOn
    /\ UNCHANGED <<trackVars, yt, skips, isYouTurnBtnOn, isContourBtnOn, isAutoTrack,
                   isInFreeDriveMode, isJobStarted, resets>>
setSpeedKph ==
    /\ Click /\ isBtnAutoSteerOn
    /\ isBtnAutoSteerOn' = FALSE
    /\ UNCHANGED <<trackVars, yt, skips, isYouTurnBtnOn, isContourBtnOn, isAutoTrack,
                   isInFreeDriveMode, isJobStarted, resets>>

OtherButton ==
    /\ Click
    /\ \/ isContourBtnOn' = ~isContourBtnOn /\ UNCHANGED <<isAutoTrack, isInFreeDriveMode>>
       \/ isAutoTrack' = ~isAutoTrack /\ UNCHANGED <<isContourBtnOn, isInFreeDriveMode>>
       \/ isInFreeDriveMode' = ~isInFreeDriveMode /\ UNCHANGED <<isContourBtnOn, isAutoTrack>>
    /\ UNCHANGED <<trackVars, yt, skips, isYouTurnBtnOn, isBtnAutoSteerOn,
                   isJobStarted, resets>>

JobClose ==
    /\ Click /\ isJobStarted
    /\ isJobStarted' = FALSE
    /\ TracksClosed
    /\ isBtnAutoSteerOn' = FALSE /\ isContourBtnOn' = FALSE /\ isYouTurnBtnOn' = FALSE
    /\ yt' = ResetYouTurn(yt)
    /\ UNCHANGED <<skips, isAutoTrack, isInFreeDriveMode, resets>>

FileOpenField ==
    /\ Click /\ ~isJobStarted
    /\ isJobStarted' = TRUE
    /\ isAutoTrack' = FALSE
    /\ TracksLoaded
    /\ UNCHANGED <<yt, skips, isYouTurnBtnOn, isBtnAutoSteerOn, isContourBtnOn,
                   isInFreeDriveMode, resets>>

Next ==
    \/ Frame \/ tmrWatchdog_timeout \/ DeliverReset
    \/ select \/ finish_new \/ next \/ prev \/ delete_track \/ setVisible
    \/ AutoYouTurn \/ SwapAutoYouTurnDirection \/ CancelYouTurn \/ YouSkip \/ ManUTurn
    \/ AutoSteerButton \/ setSpeedKph \/ OtherButton \/ JobClose \/ FileOpenField

Spec == Init /\ [][Next]_vars
\* Fixes and the watchdog's timer keep coming.
FairSpec == Spec /\ WF_vars(Frame) /\ WF_vars(tmrWatchdog_timeout)

-----------------------------------------------------------------------------
(* Properties. *)

\* Types: idx is a track of the list or none (CTrack indexes gArr with it every frame),
\* and a pattern always has a next turn to count down to.
TypeOK ==
    /\ TracksTypeOK
    /\ yt.phase \in {0, 1, 2, 10, 11} /\ yt.counter \in 0..UTurnWait /\ yt.style \in {0, 1}
    /\ yt.crossing \in {"none", "ahead", "before"}
    /\ \A b \in {yt.triggered, yt.straight, alive, isJobStarted,
                 isYouTurnBtnOn, isBtnAutoSteerOn, isContourBtnOn, isAutoTrack,
                 isInFreeDriveMode} : b \in BOOLEAN
    /\ skips \in Patterns(0..3, Nat \ {0}) /\ skips.turnSkips > 0
    /\ resets \in Nat /\ inputs \in 0..MaxInputs

\* The row patterns work (YouTurnTrigger, Set_Alternate_skips): left alone, the automatic
\* turns take the vehicle to a row it has not worked yet every time, and leave no row
\* unworked that is as far behind as the width the pattern was started with.  Not so for
\* pattern 3 with an even width, which comes back to rows already worked.
RowsOnce ==
    LET w == skips.rowSkipsWidth2
        worked == rows.done
        reached == Max({Max(worked), -Min(worked)})
        side == IF Max(worked) = reached THEN 1 ELSE -1
    IN  rows # Disturbed /\ (skips.alternateSkips = 3 => w % 2 = 1) =>
            /\ Cardinality(worked) = rows.turns + 1
            /\ skips.alternateSkips > 0 =>
                   \A r \in 0..reached : reached - r >= w => side * r \in worked

\* A turn that waits on the map to be driven leads to the row the pattern says it will:
\* whatever was clicked, skipped, loaded from the settings or delivered late since it
\* was drawn, all of it was drawn for the pattern's present skip and side.
WaitingTurnFollowsPattern ==
    yt.phase = 10 /\ ~yt.triggered => yt.path \in {NoPath, Path("auto", {Aim})}

\* Does not hold.  A turn that waits starts where the line being driven leaves the turn area:
\* "did we lose the turnLine - we are on the highway" (cyouturn.cpp).  Along an AB line the
\* crossing found before, on whatever line that was, is taken for it.
WaitingTurnStartsAhead == yt.phase = 10 /\ ~yt.triggered => yt.crossing = "ahead"

\* Does not hold.  The module is not told for ever to steer by an angle of earlier, with no
\* track left in the list and no contour to compute it from: "if we are using the track we
\* are deleting, cancel" (ctrack.cpp:1038), "Make sure it is off when it should"
\* (formgps.cpp:1074).
SteersByNothing == alive /\ gArr = <<>> /\ ~isContourBtnOn /\ p_254.status /\ ~p_254.fresh
SteeringStopsWithoutLine == SteersByNothing ~> ~SteersByNothing
=============================================================================
