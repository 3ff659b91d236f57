---------------------------- MODULE PatchStrips ----------------------------
(***************************************************************************)
(* Which sections each patch strip records.  A strip (CPatches) records    *)
(* the ground between the left edge of its start section and the right     *)
(* edge of its end section.  When the set of mapping sections changes, a   *)
(* frame decides which strips go on with new edges, which stop and which   *)
(* start.                                                                  *)
(***************************************************************************)
EXTENDS Tool, Sequences, FiniteSets

VARIABLES
    isMultiColoredSections,  \* one strip per section, each in its own colour
    triStrip,                \* Seq(Strip): the strips, it only grows
    lastNumber               \* the mapping sections of the last change

stripVars == <<isMultiColoredSections, triStrip, lastNumber>>

(* isNewPatch tells a strip that started a new patch in the last change from *)
(* one that went on with the patch it had.                                   *)
Strip == [isDrawing : BOOLEAN, start : Sections, end : Sections, isNewPatch : BOOLEAN]

IdleStrip == [isDrawing |-> FALSE, start |-> 0, end |-> 0, isNewPatch |-> FALSE]

StripsInit ==
    /\ isMultiColoredSections \in BOOLEAN
    /\ triStrip = <<IdleStrip>>
    /\ lastNumber = {}

----------------------------------------------------------------------------
(* The zones: the maximal runs of adjacent mapping sections, left to right. *)

ZoneStarts(number) == {j \in number : j - 1 \notin number}

ZoneCount(number) == Cardinality(ZoneStarts(number))

ZoneStart(i, number) ==
    CHOOSE j \in ZoneStarts(number) :
        Cardinality({k \in ZoneStarts(number) : k < j}) = i - 1

ZoneEnd(i, number) ==
    CHOOSE j \in number :
        /\ ZoneStart(i, number) .. j \subseteq number
        /\ ZoneStart(i, number) <= j
        /\ j + 1 \notin number

(* triStrip with idle strips appended until there are n. *)
Extended(n) ==
    [i \in 1 .. (IF n > Len(triStrip) THEN n ELSE Len(triStrip)) |->
        IF i <= Len(triStrip) THEN triStrip[i] ELSE IdleStrip]

Stopped(strip) == [strip EXCEPT !.isDrawing = FALSE, !.isNewPatch = FALSE]

(* TurnMappingOn starts a patch unless the strip is drawing one already. *)
Started(strip, start, end) ==
    [isDrawing |-> TRUE, start |-> start, end |-> end,
     isNewPatch |-> ~strip.isDrawing]

(* A slip: a strip that goes on keeps its left edge. *)
MovedRightEdge(strip, start, end) ==
    [strip EXCEPT !.end = end, !.isNewPatch = FALSE]

(* A strip goes on between other sections. *)
Moved(strip, start, end) ==
    [strip EXCEPT !.start = start, !.end = end, !.isNewPatch = FALSE]

PatchingZones == Cardinality({i \in DOMAIN triStrip : triStrip[i].isDrawing})

(* A slip: a strip goes on whether it overlaps its zone or not. *)
CanContinueAnywhere(number) ==
    PatchingZones = ZoneCount(number) /\ ZoneCount(number) < 3

(* A slip: strips left over do not stand in the way of going on. *)
CanContinueWithFewer(number) ==
    /\ PatchingZones >= ZoneCount(number)
    /\ ZoneCount(number) < 3
    /\ \A i \in 1 .. ZoneCount(number) :
          /\ ZoneStart(i, number) <= triStrip[i].end
          /\ ZoneEnd(i, number) >= triStrip[i].start

(* Every strip goes on with the zone of its own index: as many strips draw  *)
(* as there are zones, fewer than three, and each overlaps its zone.        *)
CanContinue(number) ==
    /\ PatchingZones = ZoneCount(number)
    /\ ZoneCount(number) < 3
    /\ \A i \in 1 .. ZoneCount(number) :
          /\ ZoneStart(i, number) <= triStrip[i].end
          /\ ZoneEnd(i, number) >= triStrip[i].start

(* One strip per zone: go on with all of them, or stop all and start anew. *)
ZoneStrips(number) ==
    LET strips == Extended(ZoneCount(number))
        goesOn == CanContinue(number)
        ForZone(i) ==
            IF goesOn THEN Moved(strips[i], ZoneStart(i, number), ZoneEnd(i, number))
            ELSE Started(Stopped(strips[i]), ZoneStart(i, number), ZoneEnd(i, number))
        LeftOver(i) == IF goesOn THEN strips[i] ELSE Stopped(strips[i])
    IN  [i \in DOMAIN strips |-> IF i > ZoneCount(number) THEN LeftOver(i) ELSE ForZone(i)]

(* One strip per section. *)
SectionStrips(number) ==
    LET strips == Extended(numOfSections)
    IN  [i \in DOMAIN strips |->
            IF i - 1 \in number THEN Started(strips[i], i - 1, i - 1)
            ELSE Stopped(strips[i])]

(* No section maps: every strip stops. *)
AllStopped == [i \in DOMAIN triStrip |-> Stopped(triStrip[i])]

(* A frame has found that the sections in number are mapping. *)
StatusChange(number) ==
    /\ lastNumber' = number
    /\ triStrip' = IF number = lastNumber THEN triStrip
                   ELSE IF number = {} THEN AllStopped
                   ELSE IF isMultiColoredSections THEN SectionStrips(number)
                   ELSE ZoneStrips(number)
    /\ UNCHANGED isMultiColoredSections

(* FileSaveEverythingBeforeClosingField stops the strips, and JobClose      *)
(* replaces them by one idle strip; neither looks at lastNumber.            *)
ClearStrips ==
    /\ triStrip' = <<IdleStrip>>
    /\ UNCHANGED <<isMultiColoredSections, lastNumber>>

StripsNext ==
    \/ \E number \in SUBSET Sections : StatusChange(number)
    \/ ClearStrips

StripsSpec == StripsInit /\ [][StripsNext]_stripVars

----------------------------------------------------------------------------
Drawing == {i \in DOMAIN triStrip : triStrip[i].isDrawing}

Extent(strip) == strip.start .. strip.end

(* The sections whose ground is being recorded. *)
Recorded == UNION {Extent(triStrip[i]) : i \in Drawing}

StripsTypeOK ==
    /\ isMultiColoredSections \in BOOLEAN
    /\ triStrip \in Seq(Strip)
    /\ lastNumber \in SUBSET Sections

(* The strips record exactly the sections that were mapping at the last     *)
(* change, or, from the closing of a field to the next change, nothing; and *)
(* no ground is recorded by two strips, which would count it twice in the   *)
(* worked area.                                                             *)
RecordsOnce ==
    /\ Recorded \in {lastNumber, {}}
    /\ \A i, k \in Drawing : i # k => Extent(triStrip[i]) \cap Extent(triStrip[k]) = {}

(* A strip that goes on with its patch overlaps its former self, so that no *)
(* triangle spans ground the implement has never covered.                   *)
NoPatchJumps ==
    [][\A i \in Drawing :
          i \in DOMAIN triStrip' /\ triStrip'[i].isDrawing /\ ~triStrip'[i].isNewPatch
              => Extent(triStrip[i]) \cap Extent(triStrip'[i]) # {}]_stripVars
=============================================================================
