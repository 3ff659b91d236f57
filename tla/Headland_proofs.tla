--------------------------- MODULE Headland_proofs ---------------------------
(***************************************************************************)
(* The hydraulic lift and the designers, for any fields, boundaries, lines *)
(* and number of clicks.                                                   *)
(*                                                                         *)
(* The lift's state is spread over the button, whether the lift is on and  *)
(* the byte that is sent, and these are set in different places and do not *)
(* always agree; LiftIsOfThisField is inductive all the same, because      *)
(* whatever closes a field puts the byte and the lift off together.        *)
(*                                                                         *)
(* A design survives because every step that changes it either saves it or *)
(* is known to have left it unsaved, and opening a field reads what was    *)
(* saved.                                                                  *)
(*                                                                         *)
(* Types need no more than ranges, and that the lists in the files are as  *)
(* short as those in memory.                                               *)
(***************************************************************************)
EXTENDS Headland, FiniteSetTheorems, TLAPS

(* What the designers, the boundaries and the opening of a field do to the  *)
(* lift: nothing, but that switching a headland off takes the lift with it. *)
LiftIsLeft == lifted' = lifted /\ hydLift' = hydLift /\ isHydLiftOn' \in {isHydLiftOn, FALSE}

LEMMA DesignersLeaveLift ==
    ASSUME \/ load_headline \/ clickedA \/ clickedB \/ btnSlice_Click \/ sliceLength
           \/ btnBndLoop_Click \/ btnDeletePoints_Click \/ btnUndo_Click \/ btn_Exit_Click
           \/ btnHeadlandOff_Click
           \/ load_headache \/ Cycle \/ headacheA \/ headacheB \/ btnDeleteCurve_Click
           \/ btnLength_Click \/ BtnBndLoop_Click \/ btnDeleteHeadland_Click
           \/ btnCancelTouch_Click \/ btnExit_Click \/ HeadacheOff
    PROVE  LiftIsLeft
<1> USE DEF LiftIsLeft, liftVars
<1>1. CASE load_headline \/ load_headache
  BY <1>1 DEF load_headline, load_headache
<1>2. CASE \/ clickedA \/ clickedB \/ btnSlice_Click \/ sliceLength
           \/ btnBndLoop_Click \/ btnDeletePoints_Click \/ btnUndo_Click
  BY <1>2
  DEF clickedA, clickedB, btnSlice_Click, sliceLength, btnBndLoop_Click,
      btnDeletePoints_Click, btnUndo_Click, HeadlandClick
<1>3. CASE \/ Cycle \/ headacheA \/ headacheB \/ btnDeleteCurve_Click \/ btnLength_Click
           \/ BtnBndLoop_Click \/ btnDeleteHeadland_Click \/ btnCancelTouch_Click
  BY <1>3
  DEF Cycle, headacheA, headacheB, btnDeleteCurve_Click, btnLength_Click, BtnBndLoop_Click,
      btnDeleteHeadland_Click, btnCancelTouch_Click, HeadacheClick
<1>4. CASE btn_Exit_Click \/ btnExit_Click
  BY <1>4 DEF btn_Exit_Click, btnExit_Click
<1>5. CASE btnHeadlandOff_Click \/ HeadacheOff
  BY <1>5 DEF btnHeadlandOff_Click, HeadacheOff
<1> QED
  BY <1>1, <1>2, <1>3, <1>4, <1>5

LEMMA FieldsLeaveLift ==
    ASSUME boundary_delete \/ boundary_delete_all \/ boundary_stop \/ FileOpenField
    PROVE  LiftIsLeft
BY DEF boundary_delete, boundary_delete_all, DeleteBoundary, boundary_stop, FileOpenField,
       LiftIsLeft, liftVars

(* The tool is raised or lowered only in a field in which the user has      *)
(* switched the lift on (SetHydPosition, JobClose).                         *)
THEOREM Lifted == Spec => []LiftIsOfThisField
<1>1. Init => LiftIsOfThisField
  BY DEF Init, LiftIsOfThisField
<1>2. LiftIsOfThisField /\ [Next]_vars => LiftIsOfThisField'
  <2> SUFFICES ASSUME LiftIsOfThisField, [Next]_vars PROVE LiftIsOfThisField'
    OBVIOUS
  <2> USE DEF LiftIsOfThisField
  <2>1. ASSUME LiftIsLeft PROVE LiftIsOfThisField'
    BY <2>1 DEF LiftIsLeft
  <2>2. CASE BtnHydLift
    BY <2>2 DEF BtnHydLift
  <2>3. CASE onBtnHeadland_clicked
    BY <2>3 DEF onBtnHeadland_clicked
  <2>4. CASE AutoBtn
    BY <2>4 DEF AutoBtn
  <2>5. CASE ProcessFrame
    \* The byte is set only while the lift is on.
    <3>1. lifted' = lifted /\ isHydLiftOn' = isHydLiftOn
      BY <2>5 DEF ProcessFrame
    <3>2. hydLift' = hydLift \/ isHydLiftOn
      BY <2>5 DEF ProcessFrame, SetHydPosition
    <3> QED
      BY <3>1, <3>2
  <2>6. CASE JobClose
    BY <2>6 DEF JobClose, HydLiftAfterClose
  <2>7. CASE UNCHANGED vars
    BY <2>7 DEF vars, liftVars
  <2> QED
    BY <2>1, <2>2, <2>3, <2>4, <2>5, <2>6, <2>7, DesignersLeaveLift, FieldsLeaveLift DEF Next
<1> QED
  BY <1>1, <1>2, PTL DEF Spec
----------------------------------------------------------------------------
(* What the designers leave.  A field is kept as it was left: its headland  *)
(* while it is closed, its headlines until the second designer is opened in *)
(* it again.                                                                *)

Shaped(fs) ==
    /\ fs = [f \in Fields |-> fs[f]]
    /\ \A f \in Fields :
          fs[f] = [outer |-> fs[f].outer, hdLine |-> fs[f].hdLine, headlines |-> fs[f].headlines]
KeepsShaped ==
    /\ keeps = [f \in Fields |-> keeps[f]]
    /\ \A f \in Fields :
          keeps[f] = [hdLine |-> keeps[f].hdLine, headlines |-> keeps[f].headlines]

(* Without a field there is no boundary, and without a boundary no headland. *)
WithoutField ==
    /\ ~isJobStarted => left = None /\ outer = 0
    /\ outer = 0 => hdLine = NoHeadland

(* What was left is in the files. *)
LeftSaved ==
    open = None =>
        /\ left = "headland" => files[field].hdLine = hdLine
        /\ left = "headlines" => files[field].headlines = {tracksArr}

KeptHeadland(f) == keeps[f].hdLine # {} => keeps[f].hdLine = {LoadedHeadland(f)}
KeptHeadlines(f) ==
    keeps[f].headlines # {} =>
        \E l : files[f].headlines = {l} /\ keeps[f].headlines = {Kept(l)}

IsOpen(f) == isJobStarted /\ f = field
IsRedesigned(f) == IsOpen(f) /\ (left # None \/ open = "headache")

KInv ==
    /\ field \in Fields /\ Shaped(files) /\ KeepsShaped
    /\ WithoutField /\ LeftSaved
    /\ \A f \in Fields : ~IsOpen(f) => KeptHeadland(f)
    /\ \A f \in Fields : ~IsRedesigned(f) => KeptHeadlines(f)

(* A save writes one thing of one field. *)
OfFieldOnly(fs, r) == Shaped(r) /\ \A f \in Fields : f # field => r[f] = fs[f]

FieldFile(o, h, l) == [outer |-> o, hdLine |-> h, headlines |-> l]
Write(fs, file) == [fs EXCEPT ![field] = file]

LEMMA Written ==
    ASSUME NEW fs, Shaped(fs), field \in Fields, NEW o, NEW h, NEW l
    PROVE  LET r == Write(fs, FieldFile(o, h, l)) IN  /\ OfFieldOnly(fs, r)
           /\ r[field].outer = o /\ r[field].hdLine = h /\ r[field].headlines = l
<1> DEFINE new == FieldFile(o, h, l)
           r == Write(fs, new)
<1>1. /\ new = [outer |-> new.outer, hdLine |-> new.hdLine, headlines |-> new.headlines]
      /\ new.outer = o /\ new.hdLine = h /\ new.headlines = l
  BY DEF FieldFile
<1> HIDE DEF new
<1>2. r = [f \in Fields |-> r[f]] /\ r[field] = new /\ \A f \in Fields : f # field => r[f] = fs[f]
  BY DEF Shaped, Write
<1> HIDE DEF r
<1>3. ASSUME NEW f \in Fields
      PROVE  r[f] = [outer |-> r[f].outer, hdLine |-> r[f].hdLine, headlines |-> r[f].headlines]
  BY <1>1, <1>2, Zenon DEF Shaped
<1>4. OfFieldOnly(fs, r) /\ r[field].outer = o /\ r[field].hdLine = h /\ r[field].headlines = l
  BY <1>1, <1>2, <1>3 DEF Shaped, OfFieldOnly
<1> QED
  BY <1>4 DEF r, new

LEMMA SavedHeadland ==
    ASSUME NEW fs, Shaped(fs), field \in Fields, NEW x, NEW r, r = FileSaveHeadland(fs, x)
    PROVE  /\ OfFieldOnly(fs, r) /\ r[field].hdLine = x
           /\ r[field].outer = fs[field].outer /\ r[field].headlines = fs[field].headlines
<1> DEFINE old == fs[field]
<1>1. [old EXCEPT !.hdLine = x] = [outer |-> old.outer, hdLine |-> x, headlines |-> old.headlines]
  <2>1. old = [outer |-> old.outer, hdLine |-> old.hdLine, headlines |-> old.headlines]
    BY DEF Shaped
  <2> HIDE DEF old
  <2> QED
    BY <2>1
<1>2. r = Write(fs, FieldFile(old.outer, x, old.headlines))
  BY <1>1, Zenon DEF FileSaveHeadland, Write, FieldFile
<1> HIDE DEF old
<1> QED
  BY <1>2, Written DEF old

LEMMA SavedHeadLines ==
    ASSUME NEW fs, Shaped(fs), field \in Fields, NEW x, NEW r, r = FileSaveHeadLines(fs, x)
    PROVE  /\ OfFieldOnly(fs, r) /\ r[field].headlines = {x}
           /\ r[field].outer = fs[field].outer /\ r[field].hdLine = fs[field].hdLine
<1> DEFINE old == fs[field]
<1>1. [old EXCEPT !.headlines = {x}] = [outer |-> old.outer, hdLine |-> old.hdLine, headlines |-> {x}]
  <2>1. old = [outer |-> old.outer, hdLine |-> old.hdLine, headlines |-> old.headlines]
    BY DEF Shaped
  <2> HIDE DEF old
  <2> QED
    BY <2>1
<1>2. r = Write(fs, FieldFile(old.outer, old.hdLine, {x}))
  BY <1>1, Zenon DEF FileSaveHeadLines, Write, FieldFile
<1> HIDE DEF old
<1> QED
  BY <1>2, Written DEF old

SaveOuter(fs, x) == [fs EXCEPT ![field].outer = x]

LEMMA SavedBoundary ==
    ASSUME NEW fs, Shaped(fs), field \in Fields, NEW x, NEW r, r = SaveOuter(fs, x)
    PROVE  /\ OfFieldOnly(fs, r) /\ r[field].outer = x
           /\ r[field].hdLine = fs[field].hdLine /\ r[field].headlines = fs[field].headlines
<1> DEFINE old == fs[field]
<1>1. [old EXCEPT !.outer = x] = [outer |-> x, hdLine |-> old.hdLine, headlines |-> old.headlines]
  <2>1. old = [outer |-> old.outer, hdLine |-> old.hdLine, headlines |-> old.headlines]
    BY DEF Shaped
  <2> HIDE DEF old
  <2> QED
    BY <2>1
<1>2. r = Write(fs, FieldFile(x, old.hdLine, old.headlines))
  BY <1>1, Zenon DEF Write, FieldFile, SaveOuter
<1> HIDE DEF old
<1> QED
  BY <1>2, Written DEF old

LEMMA SameField ==
    ASSUME NEW f \in Fields, files'[f] = files[f], keeps'[f] = keeps[f]
    PROVE  /\ (KeptHeadland(f))' <=> KeptHeadland(f)
           /\ (KeptHeadlines(f))' <=> KeptHeadlines(f)
  BY DEF KeptHeadland, KeptHeadlines, LoadedHeadland

(* Nothing of it is touched. *)
LEMMA NoneDesigned ==
    ASSUME KInv, UNCHANGED <<field, isJobStarted, outer, hdLine, files, open, tracksArr, left, keeps>>
    PROVE  KInv'
<1>1. \A f \in Fields : /\ (KeptHeadland(f))' <=> KeptHeadland(f)
                        /\ (KeptHeadlines(f))' <=> KeptHeadlines(f)
  BY SameField
<1>2. Shaped(files)' /\ KeepsShaped' /\ WithoutField' /\ LeftSaved'
  BY DEF KInv, Shaped, KeepsShaped, WithoutField, LeftSaved
<1> QED
  BY <1>1, <1>2 DEF KInv, IsOpen, IsRedesigned

(* In a designer, which needs a boundary, and so a field: only the files of *)
(* that field are written, and what is written as it closes is what it has. *)
LEMMA Designed ==
    ASSUME KInv, open \in Designers, outer # 0, UNCHANGED <<field, isJobStarted, outer, keeps>>,
           OfFieldOnly(files, files'),
           open = "headland" => files'[field].headlines = files[field].headlines,
           \/ UNCHANGED <<open, left>>
           \/ open' = None /\ left' = "headland" /\ files'[field].hdLine = hdLine'
           \/ open' = None /\ left' = "headlines" /\ files'[field].headlines = {tracksArr'}
    PROVE  KInv'
<1>1. isJobStarted /\ open # None /\ "headland" # None /\ "headlines" # None
      /\ open \in {"headland", "headache"}
  BY DEF KInv, WithoutField, Designers, None
<1>2. \A f \in Fields : f # field => /\ (KeptHeadland(f))' <=> KeptHeadland(f)
                                     /\ (KeptHeadlines(f))' <=> KeptHeadlines(f)
  BY SameField DEF OfFieldOnly
<1>3. Shaped(files)' /\ KeepsShaped' /\ WithoutField'
  BY <1>1 DEF KInv, KeepsShaped, WithoutField, OfFieldOnly
<1>4. LeftSaved'
  BY <1>1 DEF LeftSaved
<1>5. \A f \in Fields : ~IsOpen(f)' => KeptHeadland(f)'
  BY <1>1, <1>2 DEF KInv, IsOpen
<1>6. ASSUME NEW f \in Fields, ~IsRedesigned(f)' PROVE KeptHeadlines(f)'
  <2>1. CASE f # field
    BY <1>2, <2>1 DEF KInv, IsRedesigned, IsOpen
  <2>2. CASE f = field
    <3>1. left' = None /\ UNCHANGED <<open, left>> /\ open = "headland"
      BY <1>1, <1>6, <2>2 DEF IsRedesigned, IsOpen
    <3>2. KeptHeadlines(f) /\ files'[f].headlines = files[f].headlines
      BY <1>1, <2>2, <3>1 DEF KInv, IsRedesigned, IsOpen
    <3> QED
      BY <3>2 DEF KeptHeadlines
  <2> QED
    BY <2>1, <2>2
<1> QED
  BY <1>3, <1>4, <1>5, <1>6 DEF KInv

LEMMA HeadlandDesigned ==
    ASSUME KInv, \/ clickedA \/ clickedB \/ btnSlice_Click \/ sliceLength \/ btnBndLoop_Click
                 \/ btnDeletePoints_Click \/ btnUndo_Click
    PROVE  KInv'
<1>1. /\ open = "headland" /\ outer # 0 /\ UNCHANGED <<field, isJobStarted, outer, keeps>>
      /\ UNCHANGED <<open, left>> /\ files' \in {files, FileSaveHeadland(files, hdLine')}
  BY DEF clickedA, clickedB, btnSlice_Click, sliceLength, btnBndLoop_Click, btnDeletePoints_Click,
         btnUndo_Click, HeadlandClick, Designing, StaysOpen, fieldVars
<1>2. OfFieldOnly(files, files') /\ files'[field].headlines = files[field].headlines
  <2>1. CASE files' = files
    BY <2>1 DEF KInv, OfFieldOnly
  <2>2. CASE files' = FileSaveHeadland(files, hdLine')
    BY <2>2, SavedHeadland DEF KInv
  <2> QED
    BY <1>1, <2>1, <2>2
<1> QED
  BY <1>1, <1>2, Designed DEF Designers

LEMMA HeadacheDesigned ==
    ASSUME KInv, \/ Cycle \/ headacheA \/ headacheB \/ btnDeleteCurve_Click \/ btnLength_Click
                 \/ BtnBndLoop_Click \/ btnDeleteHeadland_Click \/ btnCancelTouch_Click
    PROVE  KInv'
<1> DEFINE saved(l) == FileSaveHeadLines(files, l)
<1>1. /\ open = "headache" /\ outer # 0 /\ UNCHANGED <<field, isJobStarted, outer, keeps>>
      /\ UNCHANGED <<open, left>>
  BY DEF Cycle, headacheA, headacheB, btnDeleteCurve_Click, btnLength_Click, BtnBndLoop_Click,
         btnDeleteHeadland_Click, btnCancelTouch_Click, HeadacheClick, Designing, StaysOpenToo,
         fieldVars
<1>2. UNCHANGED files \/ \E l : files' = saved(l) \/ files' = FileSaveHeadland(saved(l), hdLine')
  BY DEF Cycle, headacheA, headacheB, btnDeleteCurve_Click, btnLength_Click, BtnBndLoop_Click,
         btnDeleteHeadland_Click, btnCancelTouch_Click
<1>3. Shaped(files) /\ field \in Fields
  BY DEF KInv
<1>4. OfFieldOnly(files, files')
  <2>1. CASE UNCHANGED files
    BY <1>3, <2>1 DEF OfFieldOnly
  <2>2. ASSUME NEW l PROVE OfFieldOnly(files, saved(l))
    BY <1>3, SavedHeadLines
  <2>3. ASSUME NEW l, files' = FileSaveHeadland(saved(l), hdLine') PROVE OfFieldOnly(files, files')
    <3> HIDE DEF saved
    <3>1. OfFieldOnly(saved(l), files')
      BY <1>3, <2>2, <2>3, SavedHeadland DEF OfFieldOnly
    <3> QED
      BY <2>2, <3>1 DEF OfFieldOnly
  <2> HIDE DEF saved
  <2> QED
    BY <1>2, <2>1, <2>2, <2>3
<1> QED
  BY <1>1, <1>4, Designed DEF Designers

LEMMA DesignerClosed ==
    ASSUME KInv, btn_Exit_Click \/ btnHeadlandOff_Click \/ btnExit_Click \/ HeadacheOff
    PROVE  KInv'
<1>0. field \in Fields /\ Shaped(files)
  BY DEF KInv
<1>1. CASE btn_Exit_Click \/ btnHeadlandOff_Click
  <2>1. /\ open = "headland" /\ outer # 0 /\ UNCHANGED <<field, isJobStarted, outer, keeps>>
        /\ open' = None /\ left' = "headland" /\ files' = FileSaveHeadland(files, hdLine')
    BY <1>1 DEF btn_Exit_Click, btnHeadlandOff_Click, Designing, FormClosing, fieldVars
  <2>2. /\ OfFieldOnly(files, files')
        /\ files'[field].headlines = files[field].headlines /\ files'[field].hdLine = hdLine'
    BY <1>0, <2>1, SavedHeadland
  <2> QED
    BY <2>1, <2>2, Designed DEF Designers
<1>2. CASE btnExit_Click
  <2>1. /\ open = "headache" /\ outer # 0 /\ UNCHANGED <<field, isJobStarted, outer, keeps>>
        /\ open' = None /\ left' = "headlines" /\ UNCHANGED tracksArr
        /\ files' = FileSaveHeadLines(files, tracksArr)
    BY <1>2 DEF btnExit_Click, Designing, HeadacheClosing, Leaves, fieldVars, lineVars
  <2>2. OfFieldOnly(files, files') /\ files'[field].headlines = {tracksArr'}
    BY <1>0, <2>1, SavedHeadLines
  <2> QED
    BY <2>1, <2>2, Designed DEF Designers
<1>3. CASE HeadacheOff
  <2>1. /\ open = "headache" /\ outer # 0 /\ UNCHANGED <<field, isJobStarted, outer, keeps>>
        /\ open' = None /\ left' = "headland" /\ files' = FileSaveHeadland(files, hdLine')
    BY <1>3 DEF HeadacheOff, Designing, HeadacheClosing, fieldVars
  <2>2. OfFieldOnly(files, files') /\ files'[field].hdLine = hdLine'
    BY <1>0, <2>1, SavedHeadland
  <2> QED
    BY <2>1, <2>2, Designed DEF Designers
<1> QED
  BY <1>1, <1>2, <1>3

(* A designer opens: what was left may be changed from now on. *)
LEMMA DesignerOpened ==
    ASSUME KInv, load_headline \/ load_headache
    PROVE  KInv'
<1>1. /\ outer # 0 /\ open = None /\ open' \in Designers
      /\ UNCHANGED <<field, isJobStarted, outer, files, left, keeps>>
  BY DEF load_headline, load_headache, Designers, fieldVars
<1>2. \A f \in Fields : /\ (KeptHeadland(f))' <=> KeptHeadland(f)
                        /\ (KeptHeadlines(f))' <=> KeptHeadlines(f)
  BY <1>1, SameField
<1>3. Shaped(files)' /\ KeepsShaped' /\ WithoutField' /\ LeftSaved'
  BY <1>1 DEF KInv, Shaped, KeepsShaped, WithoutField, LeftSaved, Designers, None
<1>4. \A f \in Fields : ~IsOpen(f)' => ~IsOpen(f)
  BY <1>1 DEF IsOpen
<1>5. \A f \in Fields : ~IsRedesigned(f)' => ~IsRedesigned(f)
  BY <1>1 DEF IsRedesigned, IsOpen, None
<1> QED
  BY <1>1, <1>2, <1>3, <1>4, <1>5 DEF KInv

(* The headlines outlive the boundary, the headland does not. *)
LEMMA BoundaryChanged ==
    ASSUME KInv, boundary_delete \/ boundary_delete_all \/ boundary_stop
    PROVE  KInv'
<1>0. field \in Fields /\ Shaped(files) /\ KeepsShaped /\ WithoutField
  BY DEF KInv
<1>1. CASE boundary_stop
  <2>1. /\ isJobStarted /\ outer = 0 /\ open = None /\ outer' = fences + 1
        /\ files' = SaveOuter(files, fences + 1)
        /\ UNCHANGED <<field, isJobStarted, hdLine, open, tracksArr, left, keeps>>
    BY <1>1 DEF boundary_stop, lineVars, SaveOuter
  <2>2. /\ Shaped(files') /\ \A f \in Fields : f # field => files'[f] = files[f]
        /\ files'[field].hdLine = files[field].hdLine
        /\ files'[field].headlines = files[field].headlines
    BY <1>0, <2>1, SavedBoundary DEF OfFieldOnly
  <2>3. \A f \in Fields : f # field => /\ (KeptHeadland(f))' <=> KeptHeadland(f)
                                       /\ (KeptHeadlines(f))' <=> KeptHeadlines(f)
    BY <2>1, <2>2, SameField
  <2>4. (KeptHeadlines(field))' <=> KeptHeadlines(field)
    BY <2>1, <2>2 DEF KeptHeadlines
  <2>5. KeepsShaped' /\ WithoutField' /\ LeftSaved'
    BY <1>0, <2>1, <2>2 DEF KInv, KeepsShaped, WithoutField, LeftSaved
  <2>6. \A f \in Fields : ~IsOpen(f)' => KeptHeadland(f)'
    BY <2>1, <2>3 DEF KInv, IsOpen
  <2>7. \A f \in Fields : ~IsRedesigned(f)' => KeptHeadlines(f)'
    BY <2>1, <2>3, <2>4 DEF KInv, IsRedesigned, IsOpen
  <2> QED
    BY <1>0, <2>1, <2>2, <2>5, <2>6, <2>7 DEF KInv
<1>2. ASSUME NEW fs \in {files, SaveOuter(files, 0)}, DeleteBoundary(fs)
      PROVE  KInv'
  <2>1. /\ isJobStarted /\ outer' = 0 /\ hdLine' = NoHeadland /\ open = None /\ files' = fs
        /\ left' = None /\ UNCHANGED <<field, isJobStarted, open, tracksArr>>
        /\ keeps' = IF left = None THEN keeps ELSE [keeps EXCEPT ![field].headlines = {}]
    BY <1>2 DEF DeleteBoundary, lineVars
  <2>2. /\ Shaped(files') /\ \A f \in Fields : f # field => files'[f] = files[f]
        /\ files'[field].headlines = files[field].headlines
    <3>1. CASE fs = files
      BY <1>0, <2>1, <3>1
    <3>2. CASE fs = SaveOuter(files, 0)
      BY <1>0, <2>1, <3>2, SavedBoundary DEF OfFieldOnly
    <3> QED
      BY <3>1, <3>2
  <2>3. /\ KeepsShaped' /\ \A f \in Fields : f # field => keeps'[f] = keeps[f]
        /\ keeps'[field].headlines = IF left = None THEN keeps[field].headlines ELSE {}
    <3>1. CASE left = None
      BY <1>0, <2>1, <3>1 DEF KeepsShaped
    <3>2. CASE left # None
      <4> DEFINE old == keeps[field]
                 new == [hdLine |-> old.hdLine, headlines |-> {}]
      <4>1. old = [hdLine |-> old.hdLine, headlines |-> old.headlines]
        BY <1>0 DEF KeepsShaped
      <4>2. [old EXCEPT !.headlines = {}] = new
        <5> HIDE DEF old
        <5> QED
          BY <4>1
      <4>3. keeps' = [keeps EXCEPT ![field] = new]
        BY <2>1, <3>2, <4>2, Zenon
      <4>4. new = [hdLine |-> new.hdLine, headlines |-> new.headlines] /\ new.headlines = {}
        OBVIOUS
      <4> HIDE DEF new
      <4>5. /\ keeps' = [f \in Fields |-> keeps'[f]] /\ keeps'[field] = new
            /\ \A f \in Fields : f # field => keeps'[f] = keeps[f]
        BY <1>0, <4>3 DEF KeepsShaped
      <4>6. ASSUME NEW f \in Fields
            PROVE  keeps'[f] = [hdLine |-> keeps'[f].hdLine, headlines |-> keeps'[f].headlines]
        BY <1>0, <4>4, <4>5, Zenon DEF KeepsShaped
      <4> QED
        BY <3>2, <4>4, <4>5, <4>6 DEF KeepsShaped
    <3> QED
      BY <3>1, <3>2
  <2>4. \A f \in Fields : f # field => /\ (KeptHeadland(f))' <=> KeptHeadland(f)
                                       /\ (KeptHeadlines(f))' <=> KeptHeadlines(f)
    BY <2>2, <2>3, SameField
  <2>5. KeptHeadlines(field)'
    BY <1>0, <2>1, <2>2, <2>3 DEF KInv, KeptHeadlines, IsRedesigned, None
  <2>6. WithoutField' /\ LeftSaved'
    BY <2>1 DEF WithoutField, LeftSaved, None
  <2>7. \A f \in Fields : ~IsOpen(f)' => KeptHeadland(f)'
    BY <2>1, <2>4 DEF KInv, IsOpen
  <2>8. \A f \in Fields : ~IsRedesigned(f)' => KeptHeadlines(f)'
    BY <2>1, <2>4, <2>5 DEF KInv, IsRedesigned, IsOpen
  <2> QED
    BY <1>0, <2>1, <2>2, <2>3, <2>6, <2>7, <2>8 DEF KInv
<1> QED
  BY <1>1, <1>2 DEF boundary_delete, boundary_delete_all, SaveOuter

(* The field is closed: what was left there is what the files have. *)
LEMMA FieldClosed == ASSUME KInv, JobClose PROVE KInv'
<1>0. field \in Fields /\ Shaped(files) /\ KeepsShaped /\ WithoutField /\ LeftSaved
  BY DEF KInv
<1>1. /\ isJobStarted' = FALSE /\ files' = SaveOuter(files, outer)
      /\ keeps' = [keeps EXCEPT ![field] = KeptNow] /\ outer' = 0 /\ hdLine' = NoHeadland
      /\ left' = None /\ UNCHANGED <<field, open, tracksArr>>
  BY DEF JobClose, FileSaveBoundary, SaveOuter, lineVars
<1>2. /\ Shaped(files') /\ \A f \in Fields : f # field => files'[f] = files[f]
      /\ files'[field].hdLine = files[field].hdLine /\ files'[field].outer = outer
      /\ files'[field].headlines = files[field].headlines
  BY <1>0, <1>1, SavedBoundary DEF OfFieldOnly
<1>3. KeptNow = [hdLine |-> KeptNow.hdLine, headlines |-> KeptNow.headlines]
  BY DEF KeptNow
<1>4. /\ keeps' = [f \in Fields |-> keeps'[f]] /\ keeps'[field] = KeptNow
      /\ \A f \in Fields : f # field => keeps'[f] = keeps[f]
  BY <1>0, <1>1 DEF KeepsShaped
<1>5. KeepsShaped'
  <2>1. ASSUME NEW f \in Fields
        PROVE  keeps'[f] = [hdLine |-> keeps'[f].hdLine, headlines |-> keeps'[f].headlines]
    BY <1>0, <1>3, <1>4, Zenon DEF KeepsShaped
  <2> QED
    BY <1>4, <2>1 DEF KeepsShaped
<1>6. \A f \in Fields : f # field => /\ (KeptHeadland(f))' <=> KeptHeadland(f)
                                     /\ (KeptHeadlines(f))' <=> KeptHeadlines(f)
  BY <1>2, <1>4, SameField
<1>7. KeptHeadland(field)'
  <2> SUFFICES ASSUME KeptNow.hdLine # {} PROVE KeptNow.hdLine = {LoadedHeadland(field)'}
    BY <1>1, <1>4 DEF KeptHeadland
  <2>1. left = "headland" /\ open = None /\ KeptNow.hdLine = {hdLine}
    BY DEF KeptNow
  <2>2. LoadedHeadland(field)' = IF outer = 0 THEN NoHeadland ELSE files[field].hdLine
    BY <1>1, <1>2 DEF LoadedHeadland
  <2>3. LoadedHeadland(field)' = hdLine
    BY <1>0, <2>1, <2>2 DEF WithoutField, LeftSaved
  <2> QED
    BY <2>1, <2>3
<1>8. KeptHeadlines(field)'
  <2> SUFFICES ASSUME KeptNow.headlines # {}
               PROVE  \E l : files[field].headlines = {l} /\ KeptNow.headlines = {Kept(l)}
    BY <1>1, <1>2, <1>4 DEF KeptHeadlines
  <2>1. left = "headlines" /\ open = None /\ KeptNow.headlines = {Kept(tracksArr)}
    BY DEF KeptNow
  <2> QED
    BY <1>0, <2>1 DEF LeftSaved
<1>9. WithoutField' /\ LeftSaved'
  BY <1>1 DEF WithoutField, LeftSaved, None
<1> QED
  BY <1>0, <1>1, <1>2, <1>5, <1>6, <1>7, <1>8, <1>9 DEF KInv, IsOpen, IsRedesigned

LEMMA FieldOpened == ASSUME KInv, FileOpenField PROVE KInv'
<1>1. PICK f \in Fields : field' = f /\ outer' = files[f].outer /\ hdLine' = LoadedHeadland(f)
  BY DEF FileOpenField
<1>2. ~isJobStarted /\ isJobStarted' = TRUE /\ UNCHANGED <<files, open, tracksArr, left, keeps>>
  BY DEF FileOpenField, lineVars
<1>3. left = None
  BY <1>2 DEF KInv, WithoutField
<1>4. \A g \in Fields : /\ (KeptHeadland(g))' <=> KeptHeadland(g)
                        /\ (KeptHeadlines(g))' <=> KeptHeadlines(g)
  BY <1>2, SameField
<1>5. Shaped(files)' /\ KeepsShaped' /\ LeftSaved'
  BY <1>2, <1>3 DEF KInv, Shaped, KeepsShaped, LeftSaved, None
<1>6. WithoutField'
  BY <1>1, <1>2, <1>3 DEF WithoutField, LoadedHeadland
<1>7. \A g \in Fields : KeptHeadland(g) /\ KeptHeadlines(g)
  BY <1>2 DEF KInv, IsOpen, IsRedesigned
<1> QED
  BY <1>1, <1>4, <1>5, <1>6, <1>7 DEF KInv

LEMMA InitKInv == Init => KInv
<1> SUFFICES ASSUME Init PROVE KInv
  OBVIOUS
<1>1. Shaped(files)
  BY DEF Init, Shaped
<1>2. KeepsShaped /\ \A f \in Fields : keeps[f].hdLine = {} /\ keeps[f].headlines = {}
  BY DEF Init, KeepsShaped
<1> QED
  BY <1>1, <1>2
  DEF Init, KInv, WithoutField, LeftSaved, KeptHeadland, KeptHeadlines, None

LEMMA NextKInv == KInv /\ [Next]_vars => KInv'
<1> SUFFICES ASSUME KInv, [Next]_vars PROVE KInv'
  OBVIOUS
<1>1. CASE BtnHydLift \/ onBtnHeadland_clicked \/ AutoBtn \/ ProcessFrame
  BY <1>1, NoneDesigned
  DEF BtnHydLift, onBtnHeadland_clicked, AutoBtn, ProcessFrame, fieldVars, lineVars
<1>2. CASE UNCHANGED vars
  BY <1>2, NoneDesigned DEF vars, fieldVars, lineVars
<1> QED
  BY <1>1, <1>2, HeadlandDesigned, HeadacheDesigned, DesignerClosed, DesignerOpened,
     BoundaryChanged, FieldClosed, FieldOpened DEF Next

(* Only opening a field starts one, and only load_headache opens the second *)
(* designer.                                                                *)
LEMMA Starts ==
    ASSUME [Next]_vars
    PROVE  /\ isJobStarted' /\ ~isJobStarted => FileOpenField
           /\ open' = "headache" /\ open = None => load_headache
<1> USE DEF fieldVars, None
<1>1. CASE \/ load_headline \/ BtnHydLift \/ onBtnHeadland_clicked \/ AutoBtn \/ ProcessFrame
           \/ boundary_stop \/ JobClose
  BY <1>1 DEF load_headline, BtnHydLift, onBtnHeadland_clicked, AutoBtn, ProcessFrame,
              boundary_stop, JobClose
<1>2. CASE \/ clickedA \/ clickedB \/ btnSlice_Click \/ sliceLength \/ btnBndLoop_Click
           \/ btnDeletePoints_Click \/ btnUndo_Click \/ btn_Exit_Click \/ btnHeadlandOff_Click
  BY <1>2 DEF clickedA, clickedB, btnSlice_Click, sliceLength, btnBndLoop_Click,
              btnDeletePoints_Click, btnUndo_Click, btn_Exit_Click, btnHeadlandOff_Click,
              HeadlandClick, Designing
<1>3. CASE \/ Cycle \/ headacheA \/ headacheB \/ btnDeleteCurve_Click \/ btnLength_Click
           \/ BtnBndLoop_Click \/ btnDeleteHeadland_Click \/ btnCancelTouch_Click
           \/ btnExit_Click \/ HeadacheOff
  <2>1. Designing("headache")
    BY <1>3 DEF Cycle, headacheA, headacheB, btnDeleteCurve_Click, btnLength_Click,
                BtnBndLoop_Click, btnDeleteHeadland_Click, btnCancelTouch_Click, btnExit_Click,
                HeadacheOff, HeadacheClick
  <2> QED
    BY <2>1 DEF Designing
<1>4. CASE boundary_delete \/ boundary_delete_all
  BY <1>4 DEF boundary_delete, boundary_delete_all, DeleteBoundary
<1>5. CASE load_headache
  BY <1>5 DEF load_headache
<1>6. CASE FileOpenField
  BY <1>6 DEF FileOpenField
<1>7. CASE UNCHANGED vars
  BY <1>7 DEF vars
<1> QED
  BY <1>1, <1>2, <1>3, <1>4, <1>5, <1>6, <1>7 DEF Next

(* For any fields, points, lines and number of clicks: a field that is opened again has the   *)
(* headland the first designer was closed with, or none after Off in either, and the second   *)
(* designer opens with the headlines it was closed with by OK (FileSaveHeadland,              *)
(* FileSaveHeadLines and what loads them).                                                    *)
THEOREM Designs == Spec => DesignsSurvive
<1>1. Init => KInv
  BY InitKInv
<1>2. KInv /\ [Next]_vars => KInv'
  BY NextKInv
<1>3. KInv /\ [Next]_vars =>
        [ /\ isJobStarted' /\ ~isJobStarted /\ keeps[field'].hdLine # {} =>
                {hdLine'} = keeps[field'].hdLine
          /\ open' = "headache" /\ open = None /\ left = None /\ keeps[field].headlines # {} =>
                {tracksArr'} = keeps[field].headlines ]_vars
  <2> SUFFICES ASSUME KInv, [Next]_vars
               PROVE  /\ isJobStarted' /\ ~isJobStarted /\ keeps[field'].hdLine # {} =>
                            {hdLine'} = keeps[field'].hdLine
                      /\ open' = "headache" /\ open = None /\ left = None
                            /\ keeps[field].headlines # {} =>
                            {tracksArr'} = keeps[field].headlines
    OBVIOUS
  <2>1. ASSUME isJobStarted', ~isJobStarted, keeps[field'].hdLine # {}
        PROVE  {hdLine'} = keeps[field'].hdLine
    <3>1. PICK f \in Fields : field' = f /\ hdLine' = LoadedHeadland(f)
      BY <2>1, Starts DEF FileOpenField
    <3> QED
      BY <2>1, <3>1 DEF KInv, IsOpen, KeptHeadland
  <2>2. ASSUME open' = "headache", open = None, left = None, keeps[field].headlines # {}
        PROVE  {tracksArr'} = keeps[field].headlines
    <3>1. tracksArr' = FileLoadHeadLines
      BY <2>2, Starts DEF load_headache
    <3>2. PICK l : files[field].headlines = {l} /\ keeps[field].headlines = {Kept(l)}
      BY <2>2 DEF KInv, IsRedesigned, KeptHeadlines, None
    <3>3. (CHOOSE m \in files[field].headlines : TRUE) = l
      BY <3>2
    <3> QED
      BY <3>1, <3>2, <3>3 DEF FileLoadHeadLines
  <2> QED
    BY <2>1, <2>2
<1> QED
  BY <1>1, <1>2, <1>3, PTL DEF Spec, DesignsSurvive
----------------------------------------------------------------------------
(* Types.  The index is that of a headline while the second designer is open *)
(* because each of its buttons that changes the list sets the index with it, *)
(* and the first designer, which does not look at the list, sets it only as  *)
(* it opens and closes.                                                      *)

Headlands == [of : 0 .. MaxFences, click : Nat]

IsList(s) == s \in Seq(ToSet(s)) /\ Len(s) <= MaxLines

LinesOK == IsList(tracksArr) /\ (open = "headache" => idx \in 0 .. Len(tracksArr))

FilesOK(fs) ==
    \A f \in Fields : /\ fs[f].outer \in 0 .. MaxFences /\ fs[f].hdLine \in Headlands
                      /\ \A l \in fs[f].headlines : IsList(l)

LandsOK ==
    /\ fences \in 0 .. MaxFences /\ outer \in 0 .. MaxFences /\ inputs \in Nat
    /\ hdLine \in Headlands /\ backupList \in Headlands

SwitchesOK ==
    /\ slice \in {None, "point", "line"} /\ counts \subseteq {"slice", "backup"}
    /\ hydLift \in 0 .. 2
    /\ isJobStarted \in BOOLEAN /\ isHeadlandOn \in BOOLEAN /\ isHydLiftOn \in BOOLEAN
    /\ btnHydLift \in BOOLEAN /\ isAuto \in BOOLEAN /\ outerPointsIn \in BOOLEAN
    /\ lifted \in BOOLEAN

TInv == KInv /\ LinesOK /\ FilesOK(files) /\ LandsOK /\ SwitchesOK

LEMMA ListType ==
    ASSUME NEW S, NEW s \in Seq(S)
    PROVE  s \in Seq(ToSet(s))
<1>1. Len(s) \in Nat /\ s = [i \in 1 .. Len(s) |-> s[i]]
  OBVIOUS
<1>2. \A i \in 1 .. Len(s) : s[i] \in ToSet(s)
  BY DEF ToSet
<1> QED
  BY <1>1, <1>2

(* The headlines that are loaded are no more than those in the file. *)
LEMMA KeptFacts ==
    ASSUME NEW s, IsList(s)
    PROVE  IsList(Kept(s))
<1> DEFINE many == {i \in DOMAIN s : s[i].points = "many"}
           At(k) == CHOOSE i \in many : Cardinality({j \in many : j <= i}) = k
           n == Cardinality(many)
           t == [k \in 1 .. n |-> s[At(k)]]
<1>1. Len(s) \in Nat /\ DOMAIN s = 1 .. Len(s)
  BY DEF IsList
<1>2. IsFiniteSet(1 .. Len(s)) /\ Cardinality(1 .. Len(s)) = Len(s)
  <2> DEFINE m == Len(s)
  <2>1. m \in Int /\ 1 \in Int /\ m \in Nat
    BY <1>1
  <2> HIDE DEF m
  <2>2. IsFiniteSet(1 .. m) /\ Cardinality(1 .. m) = IF 1 > m THEN 0 ELSE m - 1 + 1
    BY <2>1, FS_Interval
  <2> QED
    BY <2>1, <2>2 DEF m
<1>3. many \subseteq 1 .. Len(s)
  BY <1>1
<1>4. n \in Nat /\ n <= Len(s)
  <2> HIDE DEF many
  <2> QED
    BY <1>2, <1>3, FS_Subset, FS_CardinalityType
<1>5. Kept(s) = t
  BY DEF Kept
<1> HIDE DEF many, At, n
<1>6. t \in Seq({t[k] : k \in 1 .. n}) /\ Len(t) = n
  BY <1>4
<1> HIDE DEF t
<1>7. t \in Seq(ToSet(t)) /\ Len(t) <= MaxLines
  BY <1>1, <1>4, <1>6, ListType, HeadlandAssumption DEF IsList
<1> QED
  BY <1>5, <1>7 DEF IsList

(* A list that is built anew, or changed at one place. *)
LEMMA SortedFacts ==
    ASSUME NEW s, NEW p, IsList(s)
    PROVE  IsList([i \in DOMAIN s |-> s[p[i]]])
<1> DEFINE t == [i \in DOMAIN s |-> s[p[i]]]
<1>1. Len(s) \in Nat /\ DOMAIN s = 1 .. Len(s)
  BY DEF IsList
<1>2. t \in Seq({s[p[i]] : i \in DOMAIN s}) /\ Len(t) = Len(s)
  BY <1>1
<1> HIDE DEF t
<1>3. t \in Seq(ToSet(t)) /\ Len(t) <= MaxLines
  BY <1>2, ListType DEF IsList
<1> QED
  BY <1>3 DEF IsList, t

LEMMA ChangedFacts ==
    ASSUME NEW s, IsList(s), NEW i \in DOMAIN s, NEW x
    PROVE  IsList([s EXCEPT ![i] = x]) /\ Len([s EXCEPT ![i] = x]) = Len(s)
<1> DEFINE t == [s EXCEPT ![i] = x]
<1>1. Len(s) \in Nat /\ DOMAIN s = 1 .. Len(s) /\ s \in Seq(ToSet(s))
  BY DEF IsList
<1>s. \A j \in 1 .. Len(s) : s[j] \in ToSet(s)
  BY DEF ToSet, IsList
<1>2. t = [j \in 1 .. Len(s) |-> t[j]] /\ \A j \in 1 .. Len(s) : t[j] \in ToSet(s) \cup {x}
  BY <1>1, <1>s
<1> HIDE DEF t
<1>3. t \in Seq(ToSet(s) \cup {x}) /\ Len(t) = Len(s)
  BY <1>1, <1>2
<1>4. t \in Seq(ToSet(t)) /\ Len(t) <= MaxLines
  BY <1>3, ListType DEF IsList
<1> QED
  BY <1>3, <1>4 DEF IsList, t

LEMMA InsertedFacts ==
    ASSUME IsList(tracksArr), Len(tracksArr) < MaxLines, NEW line, NEW curveLine
    PROVE  /\ IsList(Inserted(line, curveLine)[1])
           /\ Inserted(line, curveLine)[2] \in 1 .. Len(Inserted(line, curveLine)[1])
<1> DEFINE S == ToSet(tracksArr) \cup {line}
           behind == Append(tracksArr, line)
           front == <<line>> \o tracksArr
<1>1. Len(tracksArr) \in Nat /\ tracksArr \in Seq(S) /\ line \in S
  <2>1. Seq(ToSet(tracksArr)) \subseteq Seq(S)
    <3> SUFFICES ASSUME NEW s \in Seq(ToSet(tracksArr)) PROVE s \in Seq(S)
      OBVIOUS
    <3> QED
      BY \A i \in 1 .. Len(s) : s[i] \in S
  <2> QED
    BY <2>1 DEF IsList
<1> HIDE DEF S
<1>2. behind \in Seq(S) /\ Len(behind) = Len(tracksArr) + 1
  BY <1>1
<1>3. front \in Seq(S) /\ Len(front) = Len(tracksArr) + 1
  BY <1>1
<1> HIDE DEF behind, front
<1>4. IsList(behind) /\ IsList(front)
  BY <1>1, <1>2, <1>3, ListType, HeadlandAssumption DEF IsList
<1>5. Inserted(line, curveLine) = <<behind, Len(tracksArr) + 1>>
      \/ Inserted(line, curveLine) = <<front, 1>>
  BY DEF Inserted, behind, front
<1> QED
  BY <1>1, <1>2, <1>3, <1>4, <1>5

LEMMA RemovedFacts ==
    ASSUME IsList(tracksArr), NEW i \in 1 .. Len(tracksArr)
    PROVE  /\ IsList(RemoveAt(tracksArr, i))
           /\ Len(RemoveAt(tracksArr, i)) = Len(tracksArr) - 1
<1> DEFINE S == ToSet(tracksArr)
           before == SubSeq(tracksArr, 1, i - 1)
           after == SubSeq(tracksArr, i + 1, Len(tracksArr))
<1>1. Len(tracksArr) \in Nat /\ tracksArr \in Seq(S)
  BY DEF IsList
<1> HIDE DEF S
<1>2. before \in Seq(S) /\ Len(before) = i - 1
  BY <1>1
<1>3. after \in Seq(S) /\ Len(after) = Len(tracksArr) - i
  BY <1>1
<1>4. RemoveAt(tracksArr, i) = before \o after
  BY DEF RemoveAt
<1> HIDE DEF before, after
<1>5. \A x, y \in Seq(S) : x \o y \in Seq(S) /\ Len(x \o y) = Len(x) + Len(y)
  OBVIOUS
<1>6. before \o after \in Seq(S) /\ Len(before \o after) = Len(tracksArr) - 1
  <2>1. before \o after \in Seq(S) /\ Len(before \o after) = Len(before) + Len(after)
    BY <1>2, <1>3, <1>5
  <2> QED
    BY <1>1, <1>2, <1>3, <2>1
<1>7. before \o after \in Seq(ToSet(before \o after))
  BY <1>6, ListType
<1> QED
  BY <1>1, <1>4, <1>6, <1>7, HeadlandAssumption DEF IsList

(* Whatever is not done in the second designer leaves the headlines alone.   *)
LEMMA LinesStay ==
    ASSUME \/ load_headline \/ clickedA \/ clickedB \/ btnSlice_Click \/ sliceLength
           \/ btnBndLoop_Click \/ btnDeletePoints_Click \/ btnUndo_Click \/ btn_Exit_Click
           \/ btnHeadlandOff_Click \/ btnDeleteHeadland_Click \/ btnCancelTouch_Click
           \/ btnExit_Click \/ HeadacheOff
           \/ BtnHydLift \/ onBtnHeadland_clicked \/ AutoBtn \/ ProcessFrame
           \/ boundary_delete \/ boundary_delete_all \/ boundary_stop \/ JobClose \/ FileOpenField
           \/ UNCHANGED vars
    PROVE  tracksArr' = tracksArr /\ (open' = "headache" => open = "headache" /\ idx' = idx)
<1> USE DEF lineVars, None
<1>1. CASE load_headline
  BY <1>1 DEF load_headline
<1>2. CASE \/ clickedA \/ clickedB \/ btnSlice_Click \/ sliceLength \/ btnBndLoop_Click
           \/ btnDeletePoints_Click \/ btnUndo_Click
  <2>1. HeadlandClick /\ StaysOpen
    BY <1>2 DEF clickedA, clickedB, btnSlice_Click, sliceLength, btnBndLoop_Click,
                btnDeletePoints_Click, btnUndo_Click
  <2> QED
    BY <2>1 DEF HeadlandClick, StaysOpen
<1>3. CASE btn_Exit_Click \/ btnHeadlandOff_Click
  BY <1>3 DEF btn_Exit_Click, btnHeadlandOff_Click, FormClosing
<1>4. CASE btnDeleteHeadland_Click \/ btnCancelTouch_Click
  BY <1>4 DEF btnDeleteHeadland_Click, btnCancelTouch_Click, StaysOpenToo
<1>5. CASE btnExit_Click \/ HeadacheOff
  BY <1>5 DEF btnExit_Click, HeadacheOff, HeadacheClosing
<1>6. CASE BtnHydLift \/ onBtnHeadland_clicked \/ AutoBtn \/ ProcessFrame
  BY <1>6 DEF BtnHydLift, onBtnHeadland_clicked, AutoBtn, ProcessFrame
<1>7. CASE \/ boundary_delete \/ boundary_delete_all \/ boundary_stop \/ JobClose \/ FileOpenField
  BY <1>7 DEF boundary_delete, boundary_delete_all, DeleteBoundary, boundary_stop, JobClose,
              FileOpenField
<1>8. CASE UNCHANGED vars
  BY <1>8 DEF vars
<1> QED
  BY <1>1, <1>2, <1>3, <1>4, <1>5, <1>6, <1>7, <1>8

(* The headlines that a click leaves, and those that it writes. *)
LEMMA LinesDrawn ==
    ASSUME TInv, headacheB
    PROVE  /\ IsList(tracksArr') /\ idx' \in 0 .. Len(tracksArr')
           /\ \/ files' = files
              \/ \E l : IsList(l) /\ files' = FileSaveHeadLines(files, l)
<1>1. PICK p \in Points, curveLine \in BOOLEAN, points \in {"none", "few", "many"} :
          LET a == start["headache"].point
              drawn == Inserted([a |-> a, of |-> outer, points |-> "many"], curveLine)
          IN  IF p = a
              THEN idx' = 0 /\ UNCHANGED <<tracksArr, files>>
              ELSE /\ Len(tracksArr) < MaxLines
                   /\ files' = FileSaveHeadLines(files, drawn[1])
                   /\ tracksArr' = [drawn[1] EXCEPT ![drawn[2]].points = points]
                   /\ idx' = drawn[2]
  BY DEF headacheB
<1> DEFINE line == [a |-> start["headache"].point, of |-> outer, points |-> "many"]
           lines == Inserted(line, curveLine)[1]
           at == Inserted(line, curveLine)[2]
           moved == [lines[at] EXCEPT !.points = points]
<1>2. IsList(tracksArr)
  BY DEF TInv, LinesOK
<1>3. CASE p = start["headache"].point
  <2>1. idx' = 0 /\ tracksArr' = tracksArr /\ files' = files
    BY <1>1, <1>3
  <2> QED
    BY <1>2, <2>1 DEF IsList
<1>4. CASE p # start["headache"].point
  <2>1. /\ Len(tracksArr) < MaxLines /\ files' = FileSaveHeadLines(files, lines)
        /\ tracksArr' = [lines EXCEPT ![at] = moved] /\ idx' = at
    BY <1>1, <1>4
  <2> HIDE DEF moved, line
  <2>2. IsList(lines) /\ at \in 1 .. Len(lines)
    BY <1>2, <2>1, InsertedFacts
  <2> HIDE DEF lines, at
  <2>3. at \in DOMAIN lines /\ Len(lines) \in Nat
    BY <2>2 DEF IsList
  <2>4. IsList([lines EXCEPT ![at] = moved]) /\ Len([lines EXCEPT ![at] = moved]) = Len(lines)
    BY <2>2, <2>3, ChangedFacts
  <2> QED
    BY <2>1, <2>2, <2>3, <2>4
<1> QED
  BY <1>3, <1>4

LEMMA LinesSorted ==
    ASSUME TInv, BtnBndLoop_Click
    PROVE  /\ IsList(tracksArr') /\ idx' = 0
           /\ \/ files' = FileSaveHeadLines(files, tracksArr')
              \/ files' = FileSaveHeadland(FileSaveHeadLines(files, tracksArr'), hdLine')
<1>1. PICK p \in [DOMAIN tracksArr -> DOMAIN tracksArr] :
          tracksArr' = [i \in DOMAIN tracksArr |-> tracksArr[p[i]]]
  BY DEF BtnBndLoop_Click, Sorted
<1>2. IsList(tracksArr')
  BY <1>1, SortedFacts DEF TInv, LinesOK
<1> QED
  BY <1>2 DEF BtnBndLoop_Click

LEMMA LinesDeleted ==
    ASSUME TInv, btnDeleteCurve_Click
    PROVE  IsList(tracksArr') /\ idx' \in 0 .. Len(tracksArr')
<1>1. open = "headache" /\ tracksArr # <<>>
  BY DEF btnDeleteCurve_Click, HeadacheClick, Designing
<1>2. IsList(tracksArr) /\ idx \in 0 .. Len(tracksArr)
  BY <1>1 DEF TInv, LinesOK
<1>3. Len(tracksArr) \in Nat /\ Len(tracksArr) # 0
  BY <1>1, <1>2 DEF IsList
<1>4. CASE idx > 0
  <2>1. tracksArr' = RemoveAt(tracksArr, idx) /\ idx' = IdxAfterDeleting
    BY <1>4 DEF btnDeleteCurve_Click
  <2>2. IsList(tracksArr') /\ Len(tracksArr') = Len(tracksArr) - 1
    BY <1>2, <1>4, <2>1, RemovedFacts
  <2>3. idx' \in 0 .. Len(tracksArr) - 1
    BY <1>2, <1>3, <1>4, <2>1 DEF IdxAfterDeleting
  <2> QED
    BY <2>2, <2>3
<1>5. CASE ~(idx > 0)
  BY <1>2, <1>3, <1>5 DEF btnDeleteCurve_Click
<1> QED
  BY <1>4, <1>5

LEMMA LinesStep == TInv /\ [Next]_vars => LinesOK'
<1> SUFFICES ASSUME TInv, [Next]_vars PROVE LinesOK'
  OBVIOUS
<1>0. IsList(tracksArr) /\ Len(tracksArr) \in Nat
      /\ (open = "headache" => idx \in 0 .. Len(tracksArr))
  BY DEF TInv, LinesOK, IsList
<1>1. ASSUME tracksArr' = tracksArr /\ (open' = "headache" => open = "headache" /\ idx' = idx)
      PROVE  LinesOK'
  BY <1>0, <1>1 DEF LinesOK
<1>2. CASE load_headache
  <2>1. idx' = 0 /\ tracksArr' = FileLoadHeadLines
    BY <1>2 DEF load_headache
  <2>2. IsList(FileLoadHeadLines)
    <3>1. CASE files[field].headlines = {}
      BY <1>0, <3>1 DEF FileLoadHeadLines
    <3>2. CASE files[field].headlines # {}
      <4> DEFINE l == CHOOSE l \in files[field].headlines : TRUE
      <4>1. l \in files[field].headlines
        BY <3>2
      <4> HIDE DEF l
      <4>2. IsList(l)
        BY <4>1 DEF TInv, KInv, FilesOK
      <4>3. FileLoadHeadLines = Kept(l)
        BY <3>2 DEF FileLoadHeadLines, l
      <4> QED
        BY <4>2, <4>3, KeptFacts
    <3> QED
      BY <3>1, <3>2
  <2> QED
    BY <2>1, <2>2 DEF LinesOK, IsList
<1>3. CASE Cycle
  <2>1. open = "headache" /\ tracksArr' = tracksArr /\ idx' \in {NextLine, PreviousLine}
    BY <1>3 DEF Cycle, HeadacheClick, Designing
  <2>2. NextLine \in 0 .. Len(tracksArr)
    <3>1. CASE tracksArr = <<>>
      BY <1>0, <3>1 DEF NextLine
    <3>2. CASE tracksArr # <<>>
      <4>1. Len(tracksArr) # 0
        BY <1>0, <3>2 DEF IsList
      <4>2. idx % Len(tracksArr) \in 0 .. Len(tracksArr) - 1
        BY <1>0, <2>1, <4>1
      <4> QED
        BY <1>0, <3>2, <4>2 DEF NextLine
    <3> QED
      BY <3>1, <3>2
  <2>3. PreviousLine \in 0 .. Len(tracksArr)
    BY <1>0, <2>1 DEF PreviousLine
  <2> QED
    BY <1>0, <2>1, <2>2, <2>3 DEF LinesOK
<1>4. CASE headacheA
  <2>1. tracksArr' = tracksArr /\ idx' = 0
    BY <1>4 DEF headacheA
  <2> QED
    BY <1>0, <2>1 DEF LinesOK
<1>5. CASE headacheB
  BY <1>5, LinesDrawn DEF LinesOK
<1>6. CASE btnDeleteCurve_Click
  BY <1>6, LinesDeleted DEF LinesOK
<1>7. CASE btnLength_Click
  <2> DEFINE longer == [tracksArr[idx] EXCEPT !.points = "many"]
  <2>1. /\ open = "headache" /\ idx > 0 /\ idx' = idx
        /\ tracksArr' = [tracksArr EXCEPT ![idx] = longer]
    BY <1>7 DEF btnLength_Click, HeadacheClick, Designing
  <2> HIDE DEF longer
  <2>2. idx \in DOMAIN tracksArr
    BY <1>0, <2>1 DEF IsList
  <2>3. IsList(tracksArr') /\ Len(tracksArr') = Len(tracksArr)
    BY <1>0, <2>1, <2>2, ChangedFacts
  <2> QED
    BY <1>0, <2>1, <2>3 DEF LinesOK
<1>8. CASE BtnBndLoop_Click
  BY <1>8, LinesSorted DEF LinesOK, IsList
<1> QED
  BY <1>1, <1>2, <1>3, <1>4, <1>5, <1>6, <1>7, <1>8, LinesStay DEF Next

(* Headlands and boundaries, in memory and in the files. *)
LEMMA FilesWritten ==
    ASSUME NEW fs, Shaped(fs), FilesOK(fs), field \in Fields, NEW x
    PROVE  /\ x \in Headlands => /\ Shaped(FileSaveHeadland(fs, x))
                                 /\ FilesOK(FileSaveHeadland(fs, x))
           /\ IsList(x) => /\ Shaped(FileSaveHeadLines(fs, x))
                           /\ FilesOK(FileSaveHeadLines(fs, x))
           /\ x \in 0 .. MaxFences => Shaped(SaveOuter(fs, x)) /\ FilesOK(SaveOuter(fs, x))
<1>1. ASSUME x \in Headlands
      PROVE  Shaped(FileSaveHeadland(fs, x)) /\ FilesOK(FileSaveHeadland(fs, x))
  <2> DEFINE r == FileSaveHeadland(fs, x)
  <2>1. /\ OfFieldOnly(fs, r) /\ r[field].hdLine = x
        /\ r[field].outer = fs[field].outer /\ r[field].headlines = fs[field].headlines
    BY SavedHeadland
  <2> HIDE DEF r
  <2> QED
    BY <1>1, <2>1 DEF OfFieldOnly, FilesOK, r
<1>2. ASSUME IsList(x)
      PROVE  Shaped(FileSaveHeadLines(fs, x)) /\ FilesOK(FileSaveHeadLines(fs, x))
  <2> DEFINE r == FileSaveHeadLines(fs, x)
  <2>1. /\ OfFieldOnly(fs, r) /\ r[field].headlines = {x}
        /\ r[field].outer = fs[field].outer /\ r[field].hdLine = fs[field].hdLine
    BY SavedHeadLines
  <2> HIDE DEF r
  <2> QED
    BY <1>2, <2>1 DEF OfFieldOnly, FilesOK, r
<1>3. ASSUME x \in 0 .. MaxFences
      PROVE  Shaped(SaveOuter(fs, x)) /\ FilesOK(SaveOuter(fs, x))
  <2> DEFINE r == SaveOuter(fs, x)
  <2>1. /\ OfFieldOnly(fs, r) /\ r[field].outer = x
        /\ r[field].hdLine = fs[field].hdLine /\ r[field].headlines = fs[field].headlines
    BY SavedBoundary
  <2> HIDE DEF r
  <2> QED
    BY <1>3, <2>1 DEF OfFieldOnly, FilesOK, r
<1> QED
  BY <1>1, <1>2, <1>3

LEMMA MadeTypes ==
    ASSUME LandsOK
    PROVE  /\ NoHeadland \in Headlands /\ Fence \in Headlands
           /\ Made(outer) \in Headlands /\ Made(Source) \in Headlands
<1>1. 0 \in 0 .. MaxFences /\ Source \in 0 .. MaxFences
  BY HeadlandAssumption DEF LandsOK, Source
<1> QED
  BY <1>1 DEF LandsOK, NoHeadland, Fence, Made, Headlands

(* A click in a designer: what its headland, its backup and its files are. *)
LEMMA DesignersLands ==
    ASSUME TInv,
           \/ load_headline \/ clickedA \/ clickedB \/ btnSlice_Click \/ sliceLength
           \/ btnBndLoop_Click \/ btnDeletePoints_Click \/ btnUndo_Click \/ btn_Exit_Click
           \/ btnHeadlandOff_Click
           \/ load_headache \/ Cycle \/ headacheA \/ headacheB \/ btnDeleteCurve_Click
           \/ btnLength_Click \/ BtnBndLoop_Click \/ btnDeleteHeadland_Click
           \/ btnCancelTouch_Click \/ btnExit_Click \/ HeadacheOff
    PROVE  /\ hdLine' \in {hdLine, backupList, NoHeadland, Fence, Made(outer), Made(Source)}
           /\ backupList' \in {backupList, hdLine, NoHeadland}
           /\ UNCHANGED <<outer, fences>> /\ inputs' = inputs + 1
<1> USE DEF Designing, Click, fieldVars, designVars
<1>1. CASE load_headline \/ load_headache
  BY <1>1 DEF load_headline, load_headache
<1>2. CASE clickedA \/ clickedB \/ btnSlice_Click \/ sliceLength
  BY <1>2 DEF clickedA, clickedB, btnSlice_Click, sliceLength, HeadlandClick
<1>3. CASE btnBndLoop_Click \/ btnDeletePoints_Click \/ btnUndo_Click
  BY <1>3 DEF btnBndLoop_Click, btnDeletePoints_Click, btnUndo_Click, HeadlandClick
<1>4. CASE btn_Exit_Click \/ btnHeadlandOff_Click
  BY <1>4 DEF btn_Exit_Click, btnHeadlandOff_Click
<1>5. CASE Cycle \/ headacheA \/ headacheB \/ btnDeleteCurve_Click \/ btnLength_Click
  BY <1>5 DEF Cycle, headacheA, headacheB, btnDeleteCurve_Click, btnLength_Click, HeadacheClick
<1>6. CASE BtnBndLoop_Click \/ btnDeleteHeadland_Click \/ btnCancelTouch_Click
  BY <1>6 DEF BtnBndLoop_Click, btnDeleteHeadland_Click, btnCancelTouch_Click, HeadacheClick
<1>7. CASE btnExit_Click \/ HeadacheOff
  BY <1>7 DEF btnExit_Click, HeadacheOff, HeadacheClosing
<1> QED
  BY <1>1, <1>2, <1>3, <1>4, <1>5, <1>6, <1>7

LEMMA DesignersFiles ==
    ASSUME TInv, LinesOK', hdLine' \in Headlands,
           \/ load_headline \/ clickedA \/ clickedB \/ btnSlice_Click \/ sliceLength
           \/ btnBndLoop_Click \/ btnDeletePoints_Click \/ btnUndo_Click \/ btn_Exit_Click
           \/ btnHeadlandOff_Click
           \/ load_headache \/ Cycle \/ headacheA \/ headacheB \/ btnDeleteCurve_Click
           \/ btnLength_Click \/ BtnBndLoop_Click \/ btnDeleteHeadland_Click
           \/ btnCancelTouch_Click \/ btnExit_Click \/ HeadacheOff
    PROVE  FilesOK(files)'
<1>0. /\ field \in Fields /\ Shaped(files) /\ FilesOK(files) /\ NoHeadland \in Headlands
      /\ IsList(tracksArr')
  BY MadeTypes DEF TInv, KInv, LinesOK
<1>1. CASE files' = files
  BY <1>0, <1>1 DEF FilesOK
<1>2. CASE files' = FileSaveHeadland(files, hdLine')
  <2>1. FilesOK(FileSaveHeadland(files, hdLine'))
    BY <1>0, FilesWritten
  <2> QED
    BY <1>2, <2>1 DEF FilesOK
<1>3. ASSUME NEW l, IsList(l), files' = FileSaveHeadLines(files, l)
      PROVE  FilesOK(files)'
  <2>1. FilesOK(FileSaveHeadLines(files, l))
    BY <1>0, <1>3, FilesWritten
  <2> QED
    BY <1>3, <2>1 DEF FilesOK
<1>4. ASSUME files' = FileSaveHeadland(FileSaveHeadLines(files, tracksArr'), hdLine')
      PROVE  FilesOK(files)'
  <2> DEFINE saved == FileSaveHeadLines(files, tracksArr')
  <2>1. Shaped(saved) /\ FilesOK(saved)
    BY <1>0, FilesWritten
  <2> HIDE DEF saved
  <2>2. FilesOK(FileSaveHeadland(saved, hdLine'))
    BY <1>0, <2>1, FilesWritten
  <2> QED
    BY <1>4, <2>2 DEF FilesOK, saved
<1>6. CASE \/ load_headline \/ clickedA \/ clickedB \/ btnSlice_Click \/ sliceLength
           \/ btnDeletePoints_Click \/ btnUndo_Click
  BY <1>1, <1>6 DEF load_headline, clickedA, clickedB, btnSlice_Click, sliceLength,
                    btnDeletePoints_Click, btnUndo_Click
<1>7. CASE btnBndLoop_Click
  BY <1>1, <1>2, <1>7 DEF btnBndLoop_Click
<1>8. CASE btn_Exit_Click \/ btnHeadlandOff_Click \/ HeadacheOff
  BY <1>2, <1>8 DEF btn_Exit_Click, btnHeadlandOff_Click, HeadacheOff
<1>9. CASE \/ load_headache \/ Cycle \/ headacheA \/ btnDeleteCurve_Click
           \/ btnLength_Click \/ btnDeleteHeadland_Click \/ btnCancelTouch_Click
  BY <1>1, <1>9 DEF load_headache, Cycle, headacheA, btnDeleteCurve_Click, btnLength_Click,
                    btnDeleteHeadland_Click, btnCancelTouch_Click
<1>10. CASE headacheB
  BY <1>1, <1>3, <1>10, LinesDrawn
<1>11. CASE BtnBndLoop_Click
  BY <1>0, <1>3, <1>4, <1>11, LinesSorted
<1>12. CASE btnExit_Click
  <2>1. tracksArr' = tracksArr
    BY <1>12 DEF btnExit_Click, HeadacheClosing, lineVars
  <2> QED
    BY <1>0, <1>3, <1>12, <2>1 DEF btnExit_Click, Leaves
<1> QED
  BY <1>6, <1>7, <1>8, <1>9, <1>10, <1>11, <1>12

LEMMA LandsStep == TInv /\ [Next]_vars /\ LinesOK' => LandsOK' /\ FilesOK(files)'
<1> SUFFICES ASSUME TInv, [Next]_vars, LinesOK' PROVE LandsOK' /\ FilesOK(files)'
  OBVIOUS
<1>0. /\ field \in Fields /\ Shaped(files) /\ FilesOK(files) /\ LandsOK
      /\ NoHeadland \in Headlands /\ 0 \in 0 .. MaxFences
  BY MadeTypes, HeadlandAssumption DEF TInv, KInv
<1>1. ASSUME UNCHANGED <<outer, fences, hdLine, backupList, files>>, inputs' \in {inputs, inputs + 1}
      PROVE  LandsOK' /\ FilesOK(files)'
  BY <1>0, <1>1 DEF LandsOK, FilesOK
<1>2. ASSUME /\ hdLine' \in {hdLine, backupList, NoHeadland, Fence, Made(outer), Made(Source)}
             /\ backupList' \in {backupList, hdLine, NoHeadland}
             /\ UNCHANGED <<outer, fences>> /\ inputs' = inputs + 1
      PROVE  LandsOK'
  BY <1>0, <1>2, MadeTypes DEF LandsOK
<1>3. CASE \/ load_headline \/ clickedA \/ clickedB \/ btnSlice_Click \/ sliceLength
           \/ btnBndLoop_Click \/ btnDeletePoints_Click \/ btnUndo_Click \/ btn_Exit_Click
           \/ btnHeadlandOff_Click
           \/ load_headache \/ Cycle \/ headacheA \/ headacheB \/ btnDeleteCurve_Click
           \/ btnLength_Click \/ BtnBndLoop_Click \/ btnDeleteHeadland_Click
           \/ btnCancelTouch_Click \/ btnExit_Click \/ HeadacheOff
  <2>1. LandsOK'
    BY <1>2, <1>3, DesignersLands
  <2> QED
    BY <1>3, <2>1, DesignersFiles DEF LandsOK
<1>4. CASE BtnHydLift \/ onBtnHeadland_clicked \/ AutoBtn \/ ProcessFrame \/ UNCHANGED vars
  BY <1>1, <1>4 DEF BtnHydLift, onBtnHeadland_clicked, AutoBtn, ProcessFrame, Click, vars,
                    fieldVars, designVars
<1>5. ASSUME NEW x \in 0 .. MaxFences, files' \in {files, SaveOuter(files, x)}
      PROVE  FilesOK(files)'
  <2>1. FilesOK(SaveOuter(files, x))
    BY <1>0, FilesWritten
  <2> QED
    BY <1>0, <1>5, <2>1 DEF FilesOK
<1>6. CASE boundary_delete \/ boundary_delete_all
  <2>1. /\ files' \in {files, SaveOuter(files, 0)} /\ outer' = 0 /\ hdLine' = NoHeadland
        /\ UNCHANGED <<fences, backupList>> /\ inputs' = inputs + 1
    BY <1>6 DEF boundary_delete, boundary_delete_all, DeleteBoundary, Click, designVars, SaveOuter
  <2> QED
    BY <1>0, <1>5, <2>1 DEF LandsOK
<1>7. CASE boundary_stop
  <2>1. /\ files' = SaveOuter(files, fences + 1) /\ outer' = fences + 1 /\ fences' = fences + 1
        /\ fences < MaxFences /\ UNCHANGED <<hdLine, backupList>> /\ inputs' = inputs + 1
    BY <1>7 DEF boundary_stop, Click, designVars, SaveOuter
  <2>2. fences + 1 \in 0 .. MaxFences
    BY <1>0, <2>1, HeadlandAssumption DEF LandsOK
  <2> QED
    BY <1>0, <1>5, <2>1, <2>2 DEF LandsOK
<1>8. CASE JobClose
  <2>1. /\ files' = SaveOuter(files, outer) /\ outer' = 0 /\ hdLine' = NoHeadland
        /\ UNCHANGED <<fences, backupList>> /\ inputs' = inputs + 1
    BY <1>8 DEF JobClose, FileSaveBoundary, Click, designVars, SaveOuter
  <2> QED
    BY <1>0, <1>5, <2>1 DEF LandsOK
<1>9. CASE FileOpenField
  <2>1. PICK f \in Fields : outer' = files[f].outer /\ hdLine' = LoadedHeadland(f)
    BY <1>9 DEF FileOpenField
  <2>2. UNCHANGED <<fences, backupList, files>> /\ inputs' = inputs + 1
    BY <1>9 DEF FileOpenField, Click, designVars
  <2>3. hdLine' \in Headlands /\ outer' \in 0 .. MaxFences
    BY <1>0, <2>1 DEF LoadedHeadland, FilesOK
  <2> QED
    BY <1>0, <2>2, <2>3 DEF LandsOK, FilesOK
<1> QED
  BY <1>3, <1>4, <1>6, <1>7, <1>8, <1>9 DEF Next

LEMMA SwitchesStep == TInv /\ [Next]_vars => SwitchesOK'
<1> SUFFICES ASSUME TInv, [Next]_vars PROVE SwitchesOK'
  OBVIOUS
<1>0. SwitchesOK
  BY DEF TInv
<1>1. ASSUME UNCHANGED <<slice, counts>>,
             UNCHANGED <<isJobStarted, isHeadlandOn, isHydLiftOn, hydLift, btnHydLift, isAuto,
                         outerPointsIn, lifted>>
      PROVE  SwitchesOK'
  BY <1>0, <1>1 DEF SwitchesOK
<1> USE DEF fieldVars, liftVars, designVars
<1>2. CASE load_headline \/ load_headache
  BY <1>0, <1>2 DEF load_headline, load_headache, SwitchesOK
<1>3. CASE \/ clickedA \/ clickedB \/ btnSlice_Click \/ sliceLength
           \/ btnBndLoop_Click \/ btnDeletePoints_Click \/ btnUndo_Click
  <2>1. UNCHANGED <<isJobStarted, isHeadlandOn, isHydLiftOn, hydLift, btnHydLift, isAuto,
                    outerPointsIn, lifted>>
    <3>1. HeadlandClick
      BY <1>3 DEF clickedA, clickedB, btnSlice_Click, sliceLength, btnBndLoop_Click,
                  btnDeletePoints_Click, btnUndo_Click
    <3> QED
      BY <3>1 DEF HeadlandClick, Designing
  <2>2. slice' \in {slice, None, "point", "line"} /\ counts' \subseteq counts \cup {"slice", "backup"}
    BY <1>3 DEF clickedA, clickedB, SetLineDistance, btnSlice_Click, sliceLength, btnBndLoop_Click,
                btnDeletePoints_Click, btnUndo_Click
  <2> QED
    BY <1>0, <2>1, <2>2 DEF SwitchesOK
<1>4. CASE btn_Exit_Click \/ btnHeadlandOff_Click
  BY <1>0, <1>4 DEF btn_Exit_Click, btnHeadlandOff_Click, Designing, SwitchesOK
<1>5. CASE \/ Cycle \/ headacheA \/ headacheB \/ btnDeleteCurve_Click \/ btnLength_Click
           \/ BtnBndLoop_Click \/ btnDeleteHeadland_Click \/ btnCancelTouch_Click
  <2>1. HeadacheClick
    BY <1>5 DEF Cycle, headacheA, headacheB, btnDeleteCurve_Click, btnLength_Click,
                BtnBndLoop_Click, btnDeleteHeadland_Click, btnCancelTouch_Click
  <2> QED
    BY <1>1, <2>1 DEF HeadacheClick, Designing
<1>6. CASE btnExit_Click \/ HeadacheOff
  BY <1>0, <1>6 DEF btnExit_Click, HeadacheOff, HeadacheClosing, Designing, SwitchesOK
<1>7. CASE BtnHydLift \/ onBtnHeadland_clicked \/ AutoBtn
  <2>1. UNCHANGED <<slice, counts, isJobStarted, outerPointsIn>> /\ hydLift' \in {hydLift, 0}
    BY <1>7 DEF BtnHydLift, onBtnHeadland_clicked, AutoBtn
  <2>2. /\ isHeadlandOn' \in BOOLEAN /\ isHydLiftOn' \in BOOLEAN /\ btnHydLift' \in BOOLEAN
        /\ isAuto' \in BOOLEAN /\ lifted' \in BOOLEAN
    BY <1>0, <1>7, Zenon DEF BtnHydLift, onBtnHeadland_clicked, AutoBtn, SwitchesOK
  <2> QED
    BY <1>0, <2>1, <2>2 DEF SwitchesOK
<1>8. CASE ProcessFrame
  <2>1. UNCHANGED <<slice, counts, isJobStarted, isHeadlandOn, isHydLiftOn, btnHydLift, isAuto,
                    lifted>>
    BY <1>8 DEF ProcessFrame
  <2>2. outerPointsIn' \in BOOLEAN
    BY <1>0, <1>8 DEF ProcessFrame, WhereAreToolCorners, SwitchesOK
  <2>3. hydLift' \in {hydLift, 1, 2}
    BY <1>8 DEF ProcessFrame, SetHydPosition
  <2> QED
    BY <1>0, <2>1, <2>2, <2>3 DEF SwitchesOK
<1>9. CASE boundary_delete \/ boundary_delete_all \/ boundary_stop
  BY <1>1, <1>9 DEF boundary_delete, boundary_delete_all, DeleteBoundary, boundary_stop
<1>10. CASE JobClose
  <2>1. /\ UNCHANGED <<slice, counts, btnHydLift, outerPointsIn>> /\ hydLift' = 0
        /\ isJobStarted' = FALSE /\ isHeadlandOn' = FALSE /\ isHydLiftOn' = FALSE
        /\ isAuto' = FALSE /\ lifted' = FALSE
    BY <1>10 DEF JobClose, HydLiftAfterClose
  <2>2. FALSE \in BOOLEAN /\ hydLift' \in 0 .. 2
    BY <2>1
  <2> QED
    BY <1>0, <2>1, <2>2, Zenon DEF SwitchesOK
<1>11. CASE FileOpenField
  BY <1>0, <1>11 DEF FileOpenField, SwitchesOK
<1>12. CASE UNCHANGED vars
  BY <1>1, <1>12 DEF vars
<1> QED
  BY <1>2, <1>3, <1>4, <1>5, <1>6, <1>7, <1>8, <1>9, <1>10, <1>11, <1>12 DEF Next

(* For any fields, boundaries, lines and clicks: every variable stays in its range, and the   *)
(* index of the second designer is that of a headline or none, although both designers set it *)
(* (FormHeadland, FormHeadache, CHeadLine::idx).                                              *)
THEOREM TypeCorrect == Spec => []TypeOK
<1>1. Init => TInv
  <2> SUFFICES ASSUME Init PROVE TInv
    OBVIOUS
  <2>0. LinesOK
    <3>1. <<>> \in Seq(ToSet(<<>>)) /\ Len(<<>>) = 0
      OBVIOUS
    <3> QED
      BY <3>1, HeadlandAssumption DEF Init, LinesOK, IsList, None
  <2>1. SwitchesOK
    <3>1. FALSE \in BOOLEAN /\ 0 \in 0 .. 2 /\ {} \subseteq {"slice", "backup"}
      OBVIOUS
    <3> QED
      BY <3>1, Zenon DEF Init, SwitchesOK
  <2>2. LandsOK
    BY HeadlandAssumption DEF Init, LandsOK, NoHeadland, Headlands
  <2>3. FilesOK(files)
    <3>1. \A f \in Fields : files[f] = [outer |-> 0, hdLine |-> NoHeadland, headlines |-> {}]
      BY DEF Init
    <3>2. NoHeadland \in Headlands /\ 0 \in 0 .. MaxFences
      BY <2>2, MadeTypes, HeadlandAssumption
    <3> QED
      BY <3>1, <3>2 DEF FilesOK
  <2> QED
    BY <2>0, <2>1, <2>2, <2>3, InitKInv DEF TInv
<1>2. TInv /\ [Next]_vars => TInv'
  BY NextKInv, LinesStep, LandsStep, SwitchesStep DEF TInv
<1>3. TInv => TypeOK
  BY DEF TInv, KInv, WithoutField, LinesOK, IsList, LandsOK, Headlands, SwitchesOK, TypeOK
<1> QED
  BY <1>1, <1>2, <1>3, PTL DEF Spec
=============================================================================
