----------------------------- MODULE FieldFiles -----------------------------
(***************************************************************************)
(* The files of a field and what is in memory while the field is open:     *)
(* tracks, boundaries and their headlands, flags, contour strips, tram     *)
(* lines and the recorded path.  (The applied area, Sections.txt, is the   *)
(* subject of PatchRecording.)                                             *)
(*                                                                         *)
(* Some of it is written when it changes, some when the field is closed,   *)
(* some only when a field is created.  Everything a user makes is an edit  *)
(* with a number of its own; madeIn says which field it was made in.       *)
(***************************************************************************)
EXTENDS Naturals, Sequences, SequencesExt

CONSTANTS
    Fields,     \* names of fields
    Legacy,     \* the field that was made by AgOpenGPS and never opened here
    None,       \* no file, no field
    CopyFlags,  \* the choices of what a copied field takes over
    MaxEdits,   \* bound: edits, with the four of Legacy
    MaxVisits   \* bound: fields opened, created and deleted, and crashes

ASSUME LegacyAssumption == Legacy \in Fields
ASSUME BoundsAssumption == MaxEdits \in Nat /\ MaxEdits >= 4 /\ MaxVisits \in Nat

VARIABLES
    currentFieldDirectory,  \* it outlives the field
    isJobStarted,
    job,        \* what is in memory, see NoJob
    disk,       \* [Fields -> the files of the field, None where there is none]
    isStuck,    \* the main thread waits for a lock it holds itself
    madeIn,     \* the field each edit was made in, None when none was open
    origins,    \* [Fields -> the fields whose content it may hold]
    kept,       \* [Fields -> what the field held when it was last closed]
    visits      \* counts up to MaxVisits

fieldVars == <<currentFieldDirectory, isJobStarted, isStuck, origins>>
vars == <<fieldVars, job, disk, madeIn, kept, visits>>

Visit == visits < MaxVisits /\ visits' = visits + 1

----------------------------------------------------------------------------
(* Memory and files. *)

NoTram == [outer |-> FALSE, inner |-> FALSE, lines |-> FALSE]

(* A track; hasPoints: its points A and B are where they were set. *)
CTrk(id, mode) == [id |-> id, mode |-> mode, hasPoints |-> TRUE]

CTrks == [id : Nat, mode : {"AB", "Curve"}, hasPoints : BOOLEAN]

(* A missing file is not a file: None is no field, and none of the contents. *)
ASSUME NoneAssumption ==
    /\ None \notin Fields \cup {"Field"} \cup Seq(Nat) \cup Seq(CTrks)
    /\ None \notin [tracks : Seq(CTrks), isCut : BOOLEAN]

(* A fence and the fence its headland line was made for, or 0. *)
CBoundaryList(id) == [fenceLine |-> id, hdLine |-> 0]

(* Memory after JobClose, which leaves three lists alone.  idx is 0 when no *)
(* track is selected.                                                       *)
Cleared(contourSaveList, bndBeingMade, headLines) ==
    [gArr |-> <<>>, idx |-> 0, bndList |-> <<>>, isHeadlandOn |-> FALSE,
     flagPts |-> <<>>, stripList |-> <<>>, isContourOn |-> FALSE,
     contourSaveList |-> contourSaveList, bndBeingMade |-> bndBeingMade,
     headLines |-> headLines, tram |-> NoTram, recList |-> 0]

NoJob == Cleared(<<>>, 0, <<>>)

NoFiles ==
    [Field |-> None, TrackLines |-> None, ABLines |-> None, CurveLines |-> None,
     Contour |-> None, Flags |-> None, Boundary |-> None, Headland |-> None,
     HeadLines |-> None, Tram |-> None, RecPath |-> None]

Header == 0  \* the first line of Contour.txt, and a strip without points

(* Edits 1 to 4: an AB line, a curve, a fence with its headland and a       *)
(* recorded path.                                                           *)
LegacyFiles ==
    [NoFiles EXCEPT !.Field = "Field", !.ABLines = <<CTrk(1, "AB")>>,
                    !.CurveLines = <<CTrk(2, "Curve")>>, !.Contour = <<Header>>,
                    !.Flags = <<>>, !.Boundary = <<3>>, !.Headland = <<3>>,
                    !.Tram = [outer |-> TRUE, inner |-> TRUE, lines |-> TRUE],
                    !.RecPath = 4]

Init ==
    /\ currentFieldDirectory = None
    /\ isJobStarted = FALSE
    /\ job = NoJob
    /\ disk = [f \in Fields |-> IF f = Legacy THEN LegacyFiles ELSE NoFiles]
    /\ isStuck = FALSE
    /\ madeIn = <<Legacy, Legacy, Legacy, Legacy>>
    /\ origins = [f \in Fields |-> {f, None}]
    /\ kept = [f \in Fields |-> None]
    /\ visits = 0

Exists(files) == files # NoFiles

NewId == Len(madeIn) + 1

----------------------------------------------------------------------------
(* Saving: the files after j has been saved. *)

(* The members of s that are in keep, in their order. *)
Only(s, keep) ==
    LET only[n \in 0 .. Len(s)] ==
            IF n = 0 THEN <<>>
            ELSE IF s[n] \in keep THEN Append(only[n - 1], s[n]) ELSE only[n - 1]
    IN  only[Len(s)]

OfMode(tracks, mode) == Only(tracks, {t \in ToSet(tracks) : t.mode = mode})

FileSaveABLines(files, j) == [files EXCEPT !.ABLines = OfMode(j.gArr, "AB")]

FileSaveCurveLines(files, j) == [files EXCEPT !.CurveLines = OfMode(j.gArr, "Curve")]

FileSaveTracks(files, j) ==
    LET saved == FileSaveCurveLines(FileSaveABLines(files, j), j)
    IN  [saved EXCEPT !.TrackLines = [tracks |-> j.gArr, isCut |-> FALSE]]

FileSaveBoundary(files, j) ==
    [files EXCEPT !.Boundary = [i \in DOMAIN j.bndList |-> j.bndList[i].fenceLine]]

(* Nothing is written unless the outer fence has a headland. *)
FileSaveHeadland(files, j) ==
    [files EXCEPT !.Headland =
        IF j.bndList # <<>> /\ j.bndList[1].hdLine # 0
        THEN [i \in DOMAIN j.bndList |-> j.bndList[i].hdLine] ELSE <<>>]

FileSaveFlags(files, j) == [files EXCEPT !.Flags = j.flagPts]

FileSaveHeadLines(files, j) == [files EXCEPT !.HeadLines = j.headLines]

(* Appends, and creates the file if need be, but not the directory. *)
FileSaveContour(files, j) ==
    IF j.contourSaveList = <<>> \/ ~Exists(files) THEN files
    ELSE [files EXCEPT !.Contour = (IF @ = None THEN <<>> ELSE @) \o j.contourSaveList]

(* A slip: strips stay in the list after they have been saved. *)
ContourSavedAgain(files, j) == j

ContourSaved(files, j) ==
    IF Exists(files) THEN [j EXCEPT !.contourSaveList = <<>>] ELSE j

(* The counts of the inner track and of the lines end up on one line with   *)
(* what follows them when there is an outer track.                          *)
FileSaveTram(files, j) ==
    [files EXCEPT !.Tram =
        IF j.tram.outer THEN [outer |-> TRUE, inner |-> ~j.tram.inner /\ j.tram.lines,
                              lines |-> FALSE]
        ELSE [outer |-> FALSE, inner |-> FALSE, lines |-> j.tram.lines]]

FileSaveRecPath(files, j) == [files EXCEPT !.RecPath = j.recList]

FileCreateField(files, j) == [files EXCEPT !.Field = "Field"]

FileCreateContour(files) == [files EXCEPT !.Contour = <<Header>>]

FileCreateBoundary(files) == [files EXCEPT !.Boundary = <<>>]

FileCreateRecPath(files) == [files EXCEPT !.RecPath = 0]

----------------------------------------------------------------------------
(* Loading. *)

(* "northing," is not a number: every point A and B comes back with 0. *)
LoadedTracks(files) ==
    [i \in DOMAIN files.TrackLines.tracks |->
        [files.TrackLines.tracks[i] EXCEPT !.hasPoints = FALSE]]

(* The old file of AB lines: the northing of A is never set. *)
FileLoadABLines(files) ==
    IF files.ABLines = None THEN <<>>
    ELSE [i \in DOMAIN files.ABLines |-> [files.ABLines[i] EXCEPT !.hasPoints = FALSE]]

(* The old file of curves: a line too many is read for each, so that the    *)
(* first is lost; whether a later one is read depends on the number of      *)
(* points of the ones before it.                                            *)
FileLoadCurveLines(files) ==
    IF files.CurveLines \in {None, <<>>} THEN {<<>>}
    ELSE {Only(Tail(files.CurveLines), read) : read \in SUBSET ToSet(Tail(files.CurveLines))}

FileLoadTracks(files) ==
    IF files.TrackLines = None
    THEN {FileLoadABLines(files) \o curves : curves \in FileLoadCurveLines(files)}
    ELSE {LoadedTracks(files)}

(* The header line is skipped, whatever it is; the numbers of a strip taken *)
(* for it are read as strips without points.                                *)
LoadedContour(files) == IF files.Contour \in {None, <<>>} THEN <<>> ELSE Tail(files.Contour)

LoadedFlags(files) == IF files.Flags = None THEN <<>> ELSE files.Flags

LoadedBoundary(files) ==
    IF files.Boundary = None THEN <<>>
    ELSE [i \in DOMAIN files.Boundary |-> CBoundaryList(files.Boundary[i])]

(* The lines of Headland.txt go to the fences by their order. *)
WithHeadland(bndList, files) ==
    IF files.Headland = None THEN bndList
    ELSE [i \in DOMAIN bndList |->
            IF i \in DOMAIN files.Headland
            THEN [bndList[i] EXCEPT !.hdLine = files.Headland[i]] ELSE bndList[i]]

LoadedTram(files) == IF files.Tram = None THEN NoTram ELSE files.Tram

LoadFlags == {"Headland", "Lines", "Flags"}
ASSUME CopyFlagsAssumption == CopyFlags \subseteq SUBSET LoadFlags

(* What FileOpenField may leave in memory after j has been closed. *)
FileOpenField(files, j, flags) ==
    LET bndList == IF "Headland" \in flags
                   THEN WithHeadland(LoadedBoundary(files), files) ELSE LoadedBoundary(files)
    IN  {[j EXCEPT
            !.gArr = tracks,
            !.idx = IF tracks = <<>> THEN 0 ELSE 1,
            !.stripList = LoadedContour(files),
            !.flagPts = IF "Flags" \in flags THEN LoadedFlags(files) ELSE <<>>,
            !.bndList = bndList,
            !.isHeadlandOn = "Headland" \in flags /\ bndList # <<>> /\ bndList[1].hdLine # 0,
            !.tram = LoadedTram(files),
            !.recList = IF files.RecPath = None THEN 0 ELSE files.RecPath] :
         tracks \in IF "Lines" \in flags THEN FileLoadTracks(files) ELSE {<<>>}}

(* A TrackLines.txt that ends inside a track is left with the lock held. *)
LeavesLock(files, flags) ==
    "Lines" \in flags /\ files.TrackLines # None /\ files.TrackLines.isCut

(* An old field is written in the new form as soon as it is read. *)
AfterLoading(files, j, flags) ==
    IF "Lines" \in flags /\ files.TrackLines = None THEN FileSaveTracks(files, j) ELSE files
----------------------------------------------------------------------------
(* Opening and closing.  Only a thread that is not stuck does anything. *)

(* StopContourLine keeps a strip that is long enough and empties any other. *)
StoppedContour(j) ==
    IF ~j.isContourOn THEN {j}
    ELSE {[j EXCEPT !.isContourOn = FALSE, !.contourSaveList = Append(@, Last(j.stripList))],
          [j EXCEPT !.isContourOn = FALSE, !.stripList = Front(@)]}

(* A slip: flags are left to the handlers that change them. *)
WrittenNoFlags(files, j) ==
    LET boundary == FileSaveBoundary(files, j)
        contour == FileSaveContour(boundary, j)
        tracks == FileSaveTracks(contour, j)
    IN  <<boundary, contour, tracks, tracks>>

(* The files of the open field in the order they are written at its end. *)
Written(files, j) ==
    LET boundary == FileSaveBoundary(files, j)
        contour == FileSaveContour(boundary, j)
        tracks == FileSaveTracks(contour, j)
    IN  <<boundary, contour, tracks, FileSaveFlags(tracks, j)>>

(* A slip: the flags of the field are not cleared. *)
JobCloseKeepsFlags(j) ==
    [Cleared(j.contourSaveList, j.bndBeingMade, j.headLines) EXCEPT !.flagPts = j.flagPts]

JobClose(j) == Cleared(j.contourSaveList, j.bndBeingMade, j.headLines)

(* What is compared of a field that was closed: which tracks, fences and    *)
(* flags it has.  Where the points of a track are is not part of it.        *)
Kept(j) ==
    [tracks |-> [i \in DOMAIN j.gArr |-> j.gArr[i].id],
     fences |-> [i \in DOMAIN j.bndList |-> j.bndList[i].fenceLine],
     flagPts |-> j.flagPts]

(* What FileSaveEverythingBeforeClosingField may leave behind. *)
Closings ==
    IF ~isJobStarted THEN {[job |-> job, disk |-> disk, kept |-> kept]}
    ELSE {LET files == Last(Written(disk[currentFieldDirectory], j))
          IN  [job |-> JobClose([j EXCEPT !.contourSaveList = <<>>]),
               disk |-> [disk EXCEPT ![currentFieldDirectory] = files],
               kept |-> [kept EXCEPT ![currentFieldDirectory] = Kept(j)]] :
          j \in StoppedContour(job)}

(* field_close, and the closing that a GPS jump or the change to or from    *)
(* the simulator brings about.                                              *)
CloseField ==
    /\ ~isStuck
    /\ isJobStarted
    /\ \E c \in Closings : job' = c.job /\ disk' = c.disk /\ kept' = c.kept
    /\ isJobStarted' = FALSE
    /\ UNCHANGED <<currentFieldDirectory, isStuck, origins, madeIn, visits>>

(* field_open; a field that is not there leaves none open. *)
OpenField(f) ==
    /\ ~isStuck
    /\ Visit
    /\ \E c \in Closings :
          IF c.disk[f].Field = None
          THEN /\ job' = c.job /\ disk' = c.disk /\ kept' = c.kept
               /\ isJobStarted' = FALSE
               /\ UNCHANGED <<currentFieldDirectory, isStuck>>
          ELSE /\ job' \in FileOpenField(c.disk[f], JobClose(c.job), LoadFlags)
               /\ disk' = [c.disk EXCEPT ![f] = AfterLoading(@, job', LoadFlags)]
               /\ kept' = [c.kept EXCEPT ![f] = None]
               /\ isStuck' = LeavesLock(c.disk[f], LoadFlags)
               /\ isJobStarted' = TRUE
               /\ currentFieldDirectory' = f
    /\ UNCHANGED <<origins, madeIn>>

(* The files field_new makes; there is no TrackLines.txt among them. *)
NewFiles(files, j) ==
    LET created == FileCreateBoundary(FileCreateContour(FileCreateRecPath(
                      FileCreateField(files, j))))
    IN  FileSaveTram(FileSaveFlags(created, j), j)

(* A field that was deleted while it was open is written once more when it  *)
(* is closed, and what was written is found by the next field of that name. *)
LeftOver(f) ==
    IF Exists(disk[f]) \/ (isJobStarted /\ currentFieldDirectory = f) THEN origins[f] ELSE {}

(* field_new: with no field open nothing is cleared.  The screen asks for a *)
(* name that is not taken.                                                  *)
CreateField(f) ==
    /\ ~isStuck
    /\ Visit
    /\ disk[f].Field = None
    /\ \E c \in Closings :
          /\ job' = c.job
          /\ disk' = [c.disk EXCEPT ![f] = NewFiles(@, c.job)]
          /\ kept' = [c.kept EXCEPT ![f] = None]
    /\ isJobStarted' = TRUE
    /\ currentFieldDirectory' = f
    /\ origins' = [origins EXCEPT ![f] = LeftOver(f) \cup {f, None}]
    /\ UNCHANGED <<isStuck, madeIn>>

(* The files field_new_from makes of what has been loaded: of the contour   *)
(* the last strip, without a header; no boundary and no headland.           *)
CopiedFiles(files, j, isOpen) ==
    LET created == IF isOpen THEN FileCreateField(files, j) ELSE files
        lines == FileSaveCurveLines(FileSaveABLines(FileSaveFlags(created, j), j), j)
        strip == IF j.stripList = <<>> THEN <<Header>> ELSE <<Last(j.stripList)>>
    IN  FileSaveTram(FileSaveRecPath(FileSaveContour(lines,
                        [j EXCEPT !.contourSaveList = strip]), j), j)

(* field_new_from *)
CreateFieldFrom(existing, f, flags) ==
    /\ ~isStuck
    /\ Visit
    /\ existing # f
    /\ disk[f].Field = None
    /\ \E c \in Closings :
          LET isOpen == c.disk[existing].Field # None
          IN  /\ job' \in IF isOpen
                          THEN FileOpenField(c.disk[existing], JobClose(c.job), flags)
                          ELSE {c.job}
              /\ isStuck' = (isOpen /\ LeavesLock(c.disk[existing], flags))
              /\ disk' = [c.disk EXCEPT
                            ![existing] = IF isOpen THEN AfterLoading(@, job', flags) ELSE @,
                            ![f] = IF isStuck' THEN @ ELSE CopiedFiles(@, job', isOpen)]
              /\ kept' = [c.kept EXCEPT ![f] = None, ![existing] = IF isOpen THEN None ELSE @]
              /\ isJobStarted' = isOpen
    /\ currentFieldDirectory' = f
    /\ origins' = [origins EXCEPT ![f] = LeftOver(f) \cup {f, None} \cup origins[existing]]
    /\ UNCHANGED madeIn

(* field_new_from_KML locks before it saves, and saving locks again.  The   *)
(* name may be that of a field.                                             *)
CreateFieldFromKML(f) ==
    /\ ~isStuck
    /\ Visit
    /\ NewId <= MaxEdits
    /\ IF isJobStarted
       THEN /\ isStuck' = TRUE
            /\ UNCHANGED <<currentFieldDirectory, isJobStarted, origins, job, disk,
                           madeIn, kept>>
       ELSE /\ currentFieldDirectory' = f
            /\ isJobStarted' = TRUE
            /\ disk' = [disk EXCEPT ![f] = FileSaveHeadland(FileSaveCurveLines(
                            FileSaveABLines(NewFiles(@, job), job), job), job)]
            /\ job' = [job EXCEPT !.bndList = Append(@, CBoundaryList(NewId))]
            /\ madeIn' = Append(madeIn, f)
            /\ kept' = [kept EXCEPT ![f] = None]
            /\ origins' = [origins EXCEPT ![f] = @ \cup {f, None}]
            /\ UNCHANGED isStuck

(* field_delete, of the open field as well. *)
DeleteField(f) ==
    /\ ~isStuck
    /\ Visit
    /\ Exists(disk[f])
    /\ disk' = [disk EXCEPT ![f] = NoFiles]
    /\ kept' = [kept EXCEPT ![f] = None]
    /\ UNCHANGED <<fieldVars, job, madeIn>>

(* The program ends, in the middle of closing a field or at any other time, *)
(* and is started again.  Files are truncated before they are written.      *)
Crash ==
    /\ Visit
    /\ \/ UNCHANGED disk
       \/ /\ ~isStuck
          /\ isJobStarted
          /\ \E j \in StoppedContour(job), step \in 1 .. 3 :
                LET files == Written(disk[currentFieldDirectory], j)[step]
                IN  disk' = [disk EXCEPT ![currentFieldDirectory] =
                        IF step = 3 THEN [files EXCEPT !.TrackLines.isCut = TRUE] ELSE files]
    /\ isJobStarted' = FALSE
    /\ job' = NoJob
    /\ isStuck' = FALSE
    /\ UNCHANGED <<currentFieldDirectory, origins, madeIn, kept>>

----------------------------------------------------------------------------
(* Working in a field. *)

Edit(j) == job' = j /\ madeIn' = Append(madeIn, currentFieldDirectory)

MayEdit == ~isStuck /\ isJobStarted /\ NewId <= MaxEdits

SaveTo(files) == disk' = [disk EXCEPT ![currentFieldDirectory] = files]

Current == disk[currentFieldDirectory]

(* finish_new: the new track is selected, and select saves all tracks. *)
FinishTrack(mode) ==
    /\ MayEdit
    /\ Edit([job EXCEPT !.gArr = Append(@, CTrk(NewId, mode)), !.idx = Len(job.gArr) + 1])
    /\ SaveTo(FileSaveTracks(Current, job'))
    /\ UNCHANGED <<fieldVars, kept, visits>>

SelectTrack(index) ==
    /\ ~isStuck
    /\ isJobStarted
    /\ index \in 0 .. Len(job.gArr)
    /\ job' = [job EXCEPT !.idx = index]
    /\ SaveTo(FileSaveTracks(Current, job'))
    /\ UNCHANGED <<fieldVars, madeIn, kept, visits>>

(* A slip: the tracks after the deleted one keep their index. *)
IdxAfterDeleteStale(index) == IF job.idx = index THEN 0 ELSE job.idx

IdxAfterDelete(index) ==
    IF job.idx = index THEN 0 ELSE IF job.idx > index THEN job.idx - 1 ELSE job.idx

DeleteTrack(index) ==
    /\ ~isStuck
    /\ index \in DOMAIN job.gArr
    /\ job' = [job EXCEPT !.gArr = RemoveAt(@, index), !.idx = IdxAfterDelete(index)]
    /\ UNCHANGED <<fieldVars, disk, madeIn, kept, visits>>

(* A boundary is recorded while driving; the recording outlives the field. *)
BoundaryStart ==
    /\ MayEdit
    /\ job.bndBeingMade = 0
    /\ Edit([job EXCEPT !.bndBeingMade = NewId])
    /\ UNCHANGED <<fieldVars, disk, kept, visits>>

(* boundary_stop, whether a field is open or not: Boundary.txt is written,  *)
(* also that of a field closed before.                                      *)
BoundaryStop ==
    /\ ~isStuck
    /\ job.bndBeingMade # 0
    /\ job' = [job EXCEPT !.bndList = Append(@, CBoundaryList(job.bndBeingMade)),
                          !.bndBeingMade = 0]
    /\ SaveTo(FileSaveBoundary(Current, job'))
    /\ kept' = [kept EXCEPT ![currentFieldDirectory] = None]
    /\ UNCHANGED <<fieldVars, madeIn, visits>>

(* The outer fence goes last.  Nothing is written. *)
BoundaryDelete(which_boundary) ==
    /\ ~isStuck
    /\ isJobStarted
    /\ which_boundary \in DOMAIN job.bndList
    /\ which_boundary = 1 => Len(job.bndList) = 1
    /\ job' = [job EXCEPT !.bndList = RemoveAt(@, which_boundary)]
    /\ UNCHANGED <<fieldVars, disk, madeIn, kept, visits>>

BoundaryDeleteAll ==
    /\ ~isStuck
    /\ isJobStarted
    /\ job.bndList # <<>>
    /\ job' = [job EXCEPT !.bndList = <<>>]
    /\ SaveTo(FileSaveBoundary(Current, job'))
    /\ UNCHANGED <<fieldVars, madeIn, kept, visits>>

(* A flag at the current position is not saved, one at a given position is, *)
(* whether a field is open or not.                                          *)
AddFlag(isSaved) ==
    /\ ~isStuck
    /\ NewId <= MaxEdits
    /\ isSaved \/ isJobStarted
    /\ isSaved => currentFieldDirectory # None
    /\ job' = [job EXCEPT !.flagPts = Append(@, NewId)]
    /\ madeIn' = Append(madeIn, IF isJobStarted THEN currentFieldDirectory ELSE None)
    /\ IF isSaved
       THEN /\ SaveTo(FileSaveFlags(Current, job'))
            /\ kept' = [kept EXCEPT ![currentFieldDirectory] = None]
       ELSE UNCHANGED <<disk, kept>>
    /\ UNCHANGED <<fieldVars, visits>>

(* onBtnCancelFlag: the flags are saved, of a field closed before as well. *)
CancelFlag ==
    /\ ~isStuck
    /\ currentFieldDirectory # None
    /\ SaveTo(FileSaveFlags(Current, job))
    /\ kept' = [kept EXCEPT ![currentFieldDirectory] = None]
    /\ UNCHANGED <<fieldVars, job, madeIn, visits>>

(* Deleting flags is not saved. *)
DeleteFlag ==
    /\ ~isStuck
    /\ \/ \E i \in DOMAIN job.flagPts : job' = [job EXCEPT !.flagPts = RemoveAt(@, i)]
       \/ job.flagPts # <<>> /\ job' = [job EXCEPT !.flagPts = <<>>]
    /\ UNCHANGED <<fieldVars, disk, madeIn, kept, visits>>

(* AddContourPoints: a strip begins with the first section that records... *)
StartContourLine ==
    /\ MayEdit
    /\ ~job.isContourOn
    /\ Edit([job EXCEPT !.stripList = Append(@, NewId), !.isContourOn = TRUE])
    /\ UNCHANGED <<fieldVars, disk, kept, visits>>

(* ...and ends with the last. *)
StopContourLine ==
    /\ ~isStuck
    /\ job.isContourOn
    /\ job' \in StoppedContour(job)
    /\ UNCHANGED <<fieldVars, disk, madeIn, kept, visits>>

(* The save every half minute. *)
AutoSave ==
    /\ ~isStuck
    /\ isJobStarted
    /\ job.contourSaveList # <<>>
    /\ SaveTo(FileSaveContour(Current, job))
    /\ job' = ContourSaved(Current, job)
    /\ UNCHANGED <<fieldVars, madeIn, kept, visits>>

(* onDeleteAppliedArea: ResetContour empties the current strip, also in the *)
(* list to save, but not the strips that ended before it.                   *)
DeleteAppliedArea ==
    /\ ~isStuck
    /\ isJobStarted
    /\ Exists(Current)
    /\ job.stripList # <<>>
    /\ job' = [job EXCEPT !.stripList = <<>>, !.isContourOn = FALSE,
                          !.contourSaveList = Only(@, ToSet(@) \ {Last(job.stripList)})]
    /\ SaveTo(FileCreateContour(Current))
    /\ UNCHANGED <<fieldVars, madeIn, kept, visits>>

----------------------------------------------------------------------------
Next ==
    \/ CloseField
    \/ \E f \in Fields :
          \/ OpenField(f)
          \/ CreateField(f)
          \/ \E existing \in Fields, flags \in CopyFlags : CreateFieldFrom(existing, f, flags)
          \/ CreateFieldFromKML(f)
          \/ DeleteField(f)
    \/ Crash
    \/ \E mode \in {"AB", "Curve"} : FinishTrack(mode)
    \/ \E index \in 0 .. Len(job.gArr) : SelectTrack(index) \/ DeleteTrack(index)
    \/ BoundaryStart
    \/ BoundaryStop
    \/ \E which_boundary \in DOMAIN job.bndList : BoundaryDelete(which_boundary)
    \/ BoundaryDeleteAll
    \/ \E isSaved \in BOOLEAN : AddFlag(isSaved)
    \/ CancelFlag
    \/ DeleteFlag
    \/ StartContourLine
    \/ StopContourLine
    \/ AutoSave
    \/ DeleteAppliedArea

Spec == Init /\ [][Next]_vars

----------------------------------------------------------------------------
(* Properties. *)

Edits == 1 .. MaxEdits

Ids(s) == {t.id : t \in ToSet(s)}

(* The program knows no more edits than were made, a track is selected only *)
(* where there is one, and a field that is open has been named.             *)
TypeOK ==
    /\ currentFieldDirectory \in Fields \cup {None}
    /\ isJobStarted \in BOOLEAN /\ isStuck \in BOOLEAN
    /\ isJobStarted => currentFieldDirectory # None
    /\ madeIn \in Seq(Fields \cup {None}) /\ Len(madeIn) <= MaxEdits
    /\ Ids(job.gArr) \cup ToSet(job.flagPts) \cup ToSet(job.stripList)
            \cup ToSet(job.contourSaveList) \subseteq DOMAIN madeIn \cup {Header}
    /\ job.idx \in 0 .. Len(job.gArr)

(* A field that was closed comes back with the same tracks in their order,  *)
(* the same fences and the same flags, and reading it does not freeze the   *)
(* program.  Which they are, not all that belongs to them: the points A and *)
(* B of a track are not those that were set (TracksKeepTheirPoints).  What  *)
(* is saved where and when is spread over eleven files and twenty handlers  *)
(* (FileSaveEverythingBeforeClosingField and FileOpenField).                *)
ReopenRestores ==
    \A f \in Fields : kept[f] # None =>
        /\ ~LeavesLock(disk[f], LoadFlags)
        /\ \A j \in FileOpenField(disk[f], NoJob, LoadFlags) : Kept(j) = kept[f]

(* The tracks, the flags and the contour strips in the files of a field     *)
(* were made in it, or in a field it was copied from, however fields were   *)
(* closed and opened in between.                                            *)
OwnContent ==
    \A f \in Fields :
        LET files == disk[f]
            tracks == IF files.TrackLines = None THEN {} ELSE Ids(files.TrackLines.tracks)
            old == UNION {Ids(list) : list \in {files.ABLines, files.CurveLines} \ {None}}
            others == UNION {ToSet(list) : list \in {files.Flags, files.Contour} \ {None}}
        IN  \A id \in (tracks \cup old \cup others) \ {Header} : madeIn[id] \in origins[f]

(* A strip is appended to Contour.txt once, by the save every half minute   *)
(* or by the closing of the field, never by both.                           *)
StripsAreSavedOnce ==
    \A f \in Fields : disk[f].Contour # None =>
        \A p, q \in DOMAIN disk[f].Contour :
            p # q /\ disk[f].Contour[p] = disk[f].Contour[q] => disk[f].Contour[p] = Header

(* Does not hold.                                                           *)
(* A field that was closed comes back with the points A and B of its tracks *)
(* where they were.  FileSaveTracks ends each of these lines with a comma,  *)
(* and FileLoadTracks takes all behind the first comma for the northing:    *)
(* every A and B, of lines and of curves, comes back with northing 0.       *)
TracksKeepTheirPoints ==
    \A f \in Fields : kept[f] # None =>
        \A j \in FileOpenField(disk[f], NoJob, LoadFlags) :
            \A track \in ToSet(j.gArr) : track.hasPoints

(* Does not hold.                                                           *)
(* A damaged list of tracks is read as far as it goes.  Claimed by the      *)
(* message of FileLoadTracks.  (It returns with the lock held that          *)
(* FileOpenField takes next.)                                               *)
DamagedTracksAreRead == isStuck /\ isJobStarted => ~LeavesLock(Current, LoadFlags)
=============================================================================
