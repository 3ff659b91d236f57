------------------------------- MODULE Tracks -------------------------------
(***************************************************************************)
(* The list of guidance tracks and the one that is selected (CTrack).  A   *)
(* track is an identity; what matters of it is its mode, and whether the   *)
(* user has hidden it.                                                     *)
(***************************************************************************)
EXTENDS Integers, Sequences, FiniteSets, SequencesExt, FiniteSetsExt

CONSTANTS
    ABTracks, CurveTracks, BoundaryTracks,  \* by mode, those of the field and those to come
    FieldTracks                             \* the tracks of the field

AllTracks == ABTracks \cup CurveTracks \cup BoundaryTracks
ASSUME TrackAssumption ==
    FieldTracks \subseteq AllTracks /\ IsFiniteSet(FieldTracks)
    /\ ABTracks \cap (CurveTracks \cup BoundaryTracks) = {} /\ CurveTracks \cap BoundaryTracks = {}

VARIABLES
    gArr,       \* the list
    visible,    \* the tracks of it that are not hidden
    idx         \* the selected one; 0 is the code's -1
trackVars == <<gArr, visible, idx>>

\* Everything but an AB line is guided along as a curve.
Mode(t) == IF t \in ABTracks THEN "AB" ELSE "curve"

TracksInit == gArr = SetToSeq(FieldTracks) /\ visible = FieldTracks /\ idx \in 1..Len(gArr)
TracksTypeOK ==
    /\ gArr \in Seq(AllTracks) /\ IsInjective(gArr) /\ visible \subseteq ToSet(gArr)
    /\ idx \in 0..Len(gArr)

\* The user is offered the visible tracks, and none.
Visible == {i \in DOMAIN gArr : gArr[i] \in visible}
Selectable == {0} \cup Visible
Selects(i) == idx' = i /\ UNCHANGED <<gArr, visible>>

\* finish_new: a new track goes to the end of the list and is selected.
Adds(t) ==
    /\ t \in AllTracks \ ToSet(gArr)
    /\ gArr' = Append(gArr, t) /\ visible' = visible \cup {t} /\ idx' = Len(gArr) + 1

\* next and prev: the visible track fewest steps after, or before, the selected one; itself is
\* the last.
Steps(way, i) ==
    (Len(gArr) - 1 + (IF way = "next" THEN i - idx ELSE idx - i)) % Len(gArr)
Cycles(way) ==
    /\ idx > 0
    /\ \E i \in Visible :
          /\ \A j \in Visible : Steps(way, i) <= Steps(way, j)
          /\ Selects(i)

\* A mutant: tracks before the selected one do not move it.
IdxAfterDeleteStale(i) == IF idx = i THEN 0 ELSE idx

\* Where idx points after track i has gone.
IdxAfterDelete(i) == CASE idx = i -> 0 [] idx > i -> idx - 1 [] OTHER -> idx
Removes(i) ==
    /\ idx' = IdxAfterDelete(i)
    /\ gArr' = RemoveAt(gArr, i) /\ visible' = visible \ {gArr[i]}

Hides(t) == visible' = SymDiff(visible, {t}) /\ UNCHANGED <<gArr, idx>>

\* FindClosestRefTrack: any of the visible tracks may be the closest.  The list is only
\* searched while a track is selected.
ClosestTracks == IF idx = 0 THEN {} ELSE Visible

\* JobClose, and the tracks that FileOpenField loads.  The first of them is selected, hidden
\* or not: the index read from Field.txt is refused, as it comes before there are tracks.
TracksClosed == gArr' = <<>> /\ visible' = {} /\ idx' = 0
TracksLoaded ==
    /\ gArr' = SetToSeq(FieldTracks) /\ visible' \in SUBSET FieldTracks
    /\ idx' = IF FieldTracks = {} THEN 0 ELSE 1
=============================================================================
