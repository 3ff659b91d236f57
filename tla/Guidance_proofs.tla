-------------------------- MODULE Guidance_proofs --------------------------
(***************************************************************************)
(* Turning at the end of a row, for any tracks, modes, widths and bounds.  *)
(*                                                                         *)
(* Two things are kept from step to step.                                  *)
(*                                                                         *)
(* Fine(yt): a turn that can still be drawn on or be triggered has no path *)
(* or one for the pattern's present skip and side.  Everything that gives  *)
(* the pattern another skip takes the turn away, or is under way in one.   *)
(*                                                                         *)
(* RowsInv: while only automatic turns have moved the vehicle, the rows it *)
(* has worked are one or two stretches without a gap, whose ends follow    *)
(* from the pattern, the round it is in and the turns left of that round.  *)
(* That a turn leads to a new row, and that no row is left behind, is read *)
(* off these stretches; neither is inductive as it stands.                 *)
(***************************************************************************)
EXTENDS Guidance, Tracks_proofs, TLAPS

Pats == Patterns(0..3, Nat \ {0})

(* Spiralling inwards, the next skip is as long as there are turns left. *)
PatternOK(k) ==
    /\ k \in Pats /\ k.turnSkips > 0
    /\ k.alternateSkips = 2 /\ k.rowSkipsWidth2 > 1 =>
          IF k.previousBigSkip THEN k.turnSkips = k.rowSkipsWidth2
                               ELSE k.rowSkipsWidth = k.turnSkips

----------------------------------------------------------------------------
(* The row pattern. *)

With(k, n, width, big, right) ==
    [k EXCEPT !.turnSkips = n, !.rowSkipsWidth = width, !.previousBigSkip = big,
              !.isYouTurnRight = right]

LEMMA WithFacts ==
    ASSUME NEW k \in Pats, NEW n \in Int, NEW width \in Nat \ {0}, NEW big \in BOOLEAN,
           NEW right \in BOOLEAN
    PROVE  LET r == With(k, n, width, big, right)
           IN  /\ r \in Pats /\ r.turnSkips = n /\ r.rowSkipsWidth = width
               /\ r.previousBigSkip = big /\ r.isYouTurnRight = right
               /\ r.alternateSkips = k.alternateSkips /\ r.rowSkipsWidth2 = k.rowSkipsWidth2
  BY DEF With, Pats, Patterns

LEMMA PatternFields ==
    ASSUME NEW k \in Pats
    PROVE  /\ k.alternateSkips \in 0..3 /\ k.rowSkipsWidth \in Nat \ {0}
           /\ k.rowSkipsWidth2 \in Nat \ {0} /\ k.turnSkips \in Int
           /\ k.previousBigSkip \in BOOLEAN /\ k.isYouTurnRight \in BOOLEAN
  BY DEF Pats, Patterns

LEMMA WithOK ==
    ASSUME NEW k \in Pats, NEW n \in Int, n > 0, NEW width \in Nat \ {0}, NEW big \in BOOLEAN,
           NEW right \in BOOLEAN,
           k.alternateSkips = 2 /\ k.rowSkipsWidth2 > 1 =>
              IF big THEN n = k.rowSkipsWidth2 ELSE width = n
    PROVE  PatternOK(With(k, n, width, big, right))
<1> DEFINE r == With(k, n, width, big, right)
<1>1. /\ r \in Pats /\ r.turnSkips = n /\ r.rowSkipsWidth = width /\ r.previousBigSkip = big
      /\ r.alternateSkips = k.alternateSkips /\ r.rowSkipsWidth2 = k.rowSkipsWidth2
  BY WithFacts
<1> HIDE DEF r
<1>2. PatternOK(r)
  BY <1>1 DEF PatternOK
<1> QED
  BY <1>2 DEF r

LEMMA OtherSideFacts ==
    ASSUME NEW k \in Pats
    PROVE  OtherSide(k) = With(k, k.turnSkips, k.rowSkipsWidth, k.previousBigSkip, ~k.isYouTurnRight)
  BY DEF OtherSide, With, Pats, Patterns

LEMMA BigSmallFacts ==
    ASSUME NEW k \in Pats
    PROVE  BigSmall(k) =
             LET w == k.rowSkipsWidth2
             IN  IF k.turnSkips = 1
                 THEN With(k, 2 * w - 1, k.rowSkipsWidth, k.previousBigSkip, ~k.isYouTurnRight)
                 ELSE With(k, k.turnSkips - 1, IF k.previousBigSkip THEN w ELSE w - 1,
                           ~k.previousBigSkip, k.isYouTurnRight)
  BY DEF BigSmall, OtherSide, With, Pats, Patterns

LEMMA InwardsFacts ==
    ASSUME NEW k \in Pats
    PROVE  Inwards(k) =
             LET w == k.rowSkipsWidth2
             IN  IF k.turnSkips = 1
                 THEN With(k, w, (3 * w) \div 2, ~k.previousBigSkip,
                           IF w % 2 # 0 THEN ~k.isYouTurnRight ELSE k.isYouTurnRight)
                 ELSE With(k, k.turnSkips - 1,
                           IF k.previousBigSkip THEN w - 1 ELSE k.rowSkipsWidth - 1,
                           FALSE, k.isYouTurnRight)
  BY DEF Inwards, OtherSide, With, Pats, Patterns

LEMMA OutwardsFacts ==
    ASSUME NEW k \in Pats
    PROVE  Outwards(k) =
             LET w == k.rowSkipsWidth2
             IN  IF k.turnSkips = 1
                 THEN IF w % 2 # 0
                      THEN With(k, w, w - w \div 2, ~k.previousBigSkip, ~k.isYouTurnRight)
                      ELSE With(k, w, w - w \div 2 + 1, ~k.previousBigSkip,
                                IF k.previousBigSkip THEN k.isYouTurnRight ELSE ~k.isYouTurnRight)
                 ELSE With(k, k.turnSkips - 1,
                           IF k.previousBigSkip THEN 1 ELSE k.rowSkipsWidth + 1,
                           FALSE, k.isYouTurnRight)
<1> DEFINE w == k.rowSkipsWidth2
<1>1. CASE k.turnSkips # 1
  BY <1>1 DEF Outwards, With, Pats, Patterns
<1>2. CASE k.turnSkips = 1 /\ w % 2 # 0
  BY <1>2 DEF Outwards, OtherSide, With, Pats, Patterns
<1>3. CASE k.turnSkips = 1 /\ w % 2 = 0 /\ k.previousBigSkip
  BY <1>3 DEF Outwards, OtherSide, With, Pats, Patterns
<1>4. CASE k.turnSkips = 1 /\ w % 2 = 0 /\ ~k.previousBigSkip
  BY <1>4 DEF Outwards, OtherSide, With, Pats, Patterns
<1> QED
  BY <1>1, <1>2, <1>3, <1>4

LEMMA RestartFacts ==
    ASSUME NEW k \in Pats
    PROVE  LET w == k.rowSkipsWidth
               r == Set_Alternate_skips(k)
           IN  /\ PatternOK(r) /\ r.alternateSkips = k.alternateSkips /\ r.rowSkipsWidth2 = w
               /\ r.turnSkips = IF k.alternateSkips \in {2, 3} THEN w ELSE 2 * w - 1
               /\ r.rowSkipsWidth = IF k.alternateSkips = 3 THEN 1 ELSE w
               /\ r.previousBigSkip = FALSE /\ r.isYouTurnRight = k.isYouTurnRight
<1> DEFINE w == k.rowSkipsWidth
           n == IF k.alternateSkips \in {2, 3} THEN w ELSE 2 * w - 1
           v == IF k.alternateSkips = 3 THEN 1 ELSE w
           r == Set_Alternate_skips(k)
<1>1. w \in Nat \ {0} /\ v \in Nat \ {0} /\ n \in Int /\ n > 0
  BY PatternFields
<1>2. r = [k EXCEPT !.rowSkipsWidth2 = w, !.turnSkips = n, !.previousBigSkip = FALSE,
                    !.rowSkipsWidth = v]
  BY DEF Set_Alternate_skips
<1>3. k.alternateSkips = 2 => n = w /\ v = w
  OBVIOUS
<1> HIDE DEF w, n, v, r
<1>4. /\ r \in Pats /\ r.turnSkips = n /\ r.rowSkipsWidth = v /\ r.rowSkipsWidth2 = w
      /\ r.alternateSkips = k.alternateSkips /\ r.previousBigSkip = FALSE
      /\ r.isYouTurnRight = k.isYouTurnRight
  BY <1>1, <1>2 DEF Pats, Patterns
<1>5. PatternOK(r)
  BY <1>1, <1>3, <1>4 DEF PatternOK
<1> QED
  BY <1>4, <1>5 DEF r, n, v, w

LEMMA SettingsFacts ==
    ASSUME NEW k \in Pats, NEW w \in Widths
    PROVE  PatternOK(loadSettings(k, w))
<1>1. [k EXCEPT !.rowSkipsWidth = w] \in Pats
  BY PatternAssumption DEF Pats, Patterns
<1> QED
  BY <1>1, RestartFacts DEF loadSettings

LEMMA TurnedRoundFacts == ASSUME NEW k, PatternOK(k) PROVE PatternOK(OtherSide(k))
<1> DEFINE right == ~k.isYouTurnRight
<1>1. k \in Pats /\ k.turnSkips > 0
  BY DEF PatternOK
<1>2. k.rowSkipsWidth \in Nat \ {0} /\ k.turnSkips \in Int /\ k.previousBigSkip \in BOOLEAN
  BY <1>1, PatternFields
<1>3. right \in BOOLEAN
  OBVIOUS
<1>4. OtherSide(k) = With(k, k.turnSkips, k.rowSkipsWidth, k.previousBigSkip, right)
  BY <1>1, OtherSideFacts
<1>5. k.alternateSkips = 2 /\ k.rowSkipsWidth2 > 1 =>
         IF k.previousBigSkip THEN k.turnSkips = k.rowSkipsWidth2 ELSE k.rowSkipsWidth = k.turnSkips
  BY DEF PatternOK
<1> HIDE DEF right
<1> QED
  BY <1>1, <1>2, <1>3, <1>4, <1>5, WithOK

(* The member that is not 1 any more is the one that is counted down. *)
LEMMA TriggerFacts ==
    ASSUME NEW k, PatternOK(k), NEW straight
    PROVE  PatternOK(AfterTrigger(k, straight))
<1> DEFINE s == IF straight THEN OtherSide(k) ELSE k
           w == s.rowSkipsWidth2
           r == AfterTrigger(k, straight)
<1> SUFFICES PatternOK(r)
  OBVIOUS
<1>1. PatternOK(s)
  BY TurnedRoundFacts
<1>2. r = CASE w <= 1 \/ s.alternateSkips = 0 -> OtherSide(s)
            [] w > 1 /\ s.alternateSkips = 1 -> BigSmall(s)
            [] w > 1 /\ s.alternateSkips = 2 -> Inwards(s)
            [] w > 1 /\ s.alternateSkips = 3 -> Outwards(s)
  BY DEF AfterTrigger
<1> HIDE DEF s, r
<1>3. s \in Pats /\ s.turnSkips > 0
  BY <1>1 DEF PatternOK
<1>4. /\ s.alternateSkips \in 0..3 /\ s.rowSkipsWidth \in Nat \ {0} /\ w \in Nat \ {0}
      /\ s.turnSkips \in Int /\ s.previousBigSkip \in BOOLEAN /\ s.isYouTurnRight \in BOOLEAN
  BY <1>3, PatternFields
<1>5. CASE w <= 1 \/ s.alternateSkips = 0
  <2>1. r = OtherSide(s)
    BY <1>2, <1>4, <1>5
  <2> QED
    BY <1>1, <2>1, TurnedRoundFacts
<1>6. CASE w > 1 /\ s.alternateSkips = 1
  <2>1. r = BigSmall(s)
    BY <1>2, <1>6
  <2>2. CASE s.turnSkips = 1
    <3> DEFINE right == ~s.isYouTurnRight
    <3>1. r = With(s, 2 * w - 1, s.rowSkipsWidth, s.previousBigSkip, right)
      BY <1>3, <2>1, <2>2, BigSmallFacts
    <3>2. right \in BOOLEAN /\ 2 * w - 1 \in Int /\ 2 * w - 1 > 0
      BY <1>4
    <3> HIDE DEF right
    <3> QED
      BY <1>3, <1>4, <1>6, <3>1, <3>2, WithOK
  <2>3. CASE s.turnSkips # 1
    <3> DEFINE v == IF s.previousBigSkip THEN w ELSE w - 1
               big == ~s.previousBigSkip
    <3>1. r = With(s, s.turnSkips - 1, v, big, s.isYouTurnRight)
      BY <1>3, <2>1, <2>3, BigSmallFacts
    <3>2. v \in Nat \ {0} /\ s.turnSkips - 1 \in Int /\ s.turnSkips - 1 > 0
      BY <1>3, <1>4, <1>6, <2>3
    <3>3. big \in BOOLEAN
      OBVIOUS
    <3> HIDE DEF v, big
    <3> QED
      BY <1>3, <1>4, <1>6, <3>1, <3>2, <3>3, WithOK
  <2> QED
    BY <2>2, <2>3
<1>7. CASE w > 1 /\ s.alternateSkips = 2
  <2>1. r = Inwards(s)
    BY <1>2, <1>7
  <2>2. IF s.previousBigSkip THEN s.turnSkips = w ELSE s.rowSkipsWidth = s.turnSkips
    BY <1>1, <1>7 DEF PatternOK
  <2>3. CASE s.turnSkips = 1
    <3> DEFINE right == IF w % 2 # 0 THEN ~s.isYouTurnRight ELSE s.isYouTurnRight
               v == (3 * w) \div 2
               big == TRUE
    <3>1. v \in Nat \ {0} /\ w \in Int /\ w > 0 /\ s.previousBigSkip = FALSE
      BY <1>4, <1>7, <2>2, <2>3
    <3>2. r = With(s, w, v, big, right) /\ right \in BOOLEAN
      BY <1>3, <1>4, <2>1, <2>3, <3>1, InwardsFacts
    <3>3. big \in BOOLEAN /\ big
      OBVIOUS
    <3> HIDE DEF v, right, big
    <3> QED
      BY <1>3, <1>4, <1>7, <3>1, <3>2, <3>3, WithOK
  <2>4. CASE s.turnSkips # 1
    <3> DEFINE v == IF s.previousBigSkip THEN w - 1 ELSE s.rowSkipsWidth - 1
               big == FALSE
    <3>1. r = With(s, s.turnSkips - 1, v, big, s.isYouTurnRight)
      BY <1>3, <2>1, <2>4, InwardsFacts
    <3>2. v = s.turnSkips - 1 /\ v \in Nat \ {0} /\ v \in Int /\ v > 0
      BY <1>3, <1>4, <1>7, <2>2, <2>4
    <3>3. big \in BOOLEAN /\ ~big
      OBVIOUS
    <3> HIDE DEF v, big
    <3> QED
      BY <1>3, <1>4, <1>7, <3>1, <3>2, <3>3, WithOK
  <2> QED
    BY <2>3, <2>4
<1>8. CASE w > 1 /\ s.alternateSkips = 3
  <2>1. r = Outwards(s)
    BY <1>2, <1>8
  <2>2. CASE s.turnSkips = 1
    <3>1. w - w \div 2 \in Nat \ {0} /\ w - w \div 2 + 1 \in Nat \ {0}
      BY <1>4
    <3> DEFINE v == IF w % 2 # 0 THEN w - w \div 2 ELSE w - w \div 2 + 1
               right == IF w % 2 # 0 \/ ~s.previousBigSkip THEN ~s.isYouTurnRight
                                                          ELSE s.isYouTurnRight
               big == ~s.previousBigSkip
    <3>2. r = With(s, w, v, big, right)
      BY <1>3, <1>4, <2>1, <2>2, OutwardsFacts
    <3>3. v \in Nat \ {0}
      BY <3>1
    <3>4. big \in BOOLEAN /\ right \in BOOLEAN
      BY <1>4
    <3> HIDE DEF v, big, right
    <3> QED
      BY <1>3, <1>4, <1>8, <3>2, <3>3, <3>4, WithOK
  <2>3. CASE s.turnSkips # 1
    <3> DEFINE v == IF s.previousBigSkip THEN 1 ELSE s.rowSkipsWidth + 1
               big == FALSE
    <3>1. r = With(s, s.turnSkips - 1, v, big, s.isYouTurnRight)
      BY <1>3, <2>1, <2>3, OutwardsFacts
    <3>2. v \in Nat \ {0} /\ s.turnSkips - 1 \in Int /\ s.turnSkips - 1 > 0
      BY <1>3, <1>4, <2>3
    <3>3. big \in BOOLEAN /\ ~big
      OBVIOUS
    <3> HIDE DEF v, big
    <3> QED
      BY <1>3, <1>4, <1>8, <3>1, <3>2, <3>3, WithOK
  <2> QED
    BY <2>2, <2>3
<1> QED
  BY <1>4, <1>5, <1>6, <1>7, <1>8

(* A path leads a number of rows away, to one side or the other. *)
Aims == (Nat \ {0}) \X BOOLEAN
Phases == {0, 1, 2, 10, 11}
Turns ==
    [phase : Phases, path : [by : {"nobody", "auto", "manual"}, used : SUBSET Aims],
     triggered : BOOLEAN, straight : BOOLEAN, counter : 0..UTurnWait, style : {0, 1},
     crossing : {"none", "ahead", "before"}]

(* What can be drawn on, and be followed once it is ready: a turn that is   *)
(* not being driven has no path, or one for the row the pattern says.       *)
Drawable(y) == y \in Turns /\ (~y.triggered => y.path \in {NoPath, Path("auto", {Aim})})
Fine(y) == y \in Turns /\ (y.phase \in {1, 2, 10} => Drawable(y))

----------------------------------------------------------------------------
(* Drawing a turn. *)

LEMMA AimFacts == PatternOK(skips) => Aim \in Aims
  BY PatternFields DEF PatternOK, Aim, Aims

LEMMA FineFacts ==
    ASSUME NEW y
    PROVE  /\ Fine(y) => y \in Turns
           /\ Drawable(y) => Fine(y)
           /\ Fine(y) /\ y.phase \in {1, 2, 10} => Drawable(y)
  BY DEF Fine, Drawable

LEMMA PhaseFacts ==
    ASSUME NEW y \in Turns
    PROVE  /\ \A n \in Phases : Phase(y, n) \in Turns /\ Phase(y, n).phase = n
           /\ \A n \in {0, 11} : Fine(Phase(y, n))
           /\ Fine(FailCreate(y))
           /\ \A n \in Phases : Drawable(y) => Drawable(Phase(y, n))
<1>1. \A n \in Phases : /\ Phase(y, n) \in Turns /\ Phase(y, n).phase = n
                        /\ Phase(y, n).triggered = y.triggered /\ Phase(y, n).path = y.path
  BY DEF Phase, Turns
<1>2. 0 \in Phases /\ 11 \in Phases /\ FailCreate(y) = Phase(y, 11)
  BY DEF Phases, FailCreate
<1> QED
  BY <1>1, <1>2 DEF Fine, Drawable

LEMMA DrawnFacts ==
    ASSUME NEW y \in Turns, Aim \in Aims
    PROVE  /\ Drawable(Drawn(y)) /\ Drawable(Undrawn(y))
           /\ Drawable(y) => Drawable(DrawnOn(y))
<1> DEFINE Paths == [by : {"nobody", "auto", "manual"}, used : SUBSET Aims]
<1>1. /\ NoPath \in Paths /\ NoPath.used = {} /\ Path("auto", {Aim}) \in Paths
      /\ Path("auto", {Aim}).used = {Aim}
      /\ \A used \in SUBSET Aims : Path("auto", used \cup {Aim}) \in Paths
  BY DEF NoPath, Path
<1>2. y.path \in Paths /\ y.path.used \in SUBSET Aims
  BY DEF Turns
<1> HIDE DEF Paths
<1>3. ASSUME NEW p \in Paths
      PROVE  /\ [y EXCEPT !.path = p] \in Turns
             /\ [y EXCEPT !.path = p].path = p /\ [y EXCEPT !.path = p].triggered = y.triggered
  BY <1>3 DEF Turns, Paths
<1>4. Drawable(Drawn(y))
  BY <1>1, <1>3 DEF Drawn, Drawable
<1>5. Drawable(Undrawn(y))
  BY <1>1, <1>3 DEF Undrawn, Drawable
<1>6. ASSUME Drawable(y) PROVE Drawable(DrawnOn(y))
  <2> DEFINE p == Path("auto", y.path.used \cup {Aim})
  <2>1. p \in Paths /\ DrawnOn(y) = [y EXCEPT !.path = p]
    BY <1>1, <1>2 DEF DrawnOn
  <2>2. y.path \in {NoPath, Path("auto", {Aim})} => p = Path("auto", {Aim})
    <3>1. {} \cup {Aim} = {Aim} /\ {Aim} \cup {Aim} = {Aim}
      OBVIOUS
    <3> QED
      BY <1>1, <3>1
  <2> HIDE DEF p
  <2> QED
    BY <1>3, <1>6, <2>1, <2>2 DEF Drawable
<1> QED
  BY <1>4, <1>5, <1>6

(* Members that say nothing of the path. *)
LEMMA OtherFacts ==
    ASSUME NEW y \in Turns
    PROVE  /\ \A c \in {"none", "ahead", "before"} :
                 /\ [y EXCEPT !.crossing = c] \in Turns
                 /\ Drawable(y) => Drawable([y EXCEPT !.crossing = c])
                 /\ Fine(y) => Fine([y EXCEPT !.crossing = c])
           /\ \A s \in BOOLEAN : Drawable(y) => Drawable([y EXCEPT !.straight = s])
           /\ \A n \in 0..UTurnWait : /\ [y EXCEPT !.counter = n] \in Turns
                                      /\ Fine(y) => Fine([y EXCEPT !.counter = n])
                                      /\ [y EXCEPT !.counter = n].phase = y.phase
<1>1. \A c \in {"none", "ahead", "before"} :
         LET z == [y EXCEPT !.crossing = c]
         IN  z \in Turns /\ z.triggered = y.triggered /\ z.path = y.path /\ z.phase = y.phase
  BY DEF Turns
<1>2. \A s \in BOOLEAN :
         LET z == [y EXCEPT !.straight = s]
         IN  z \in Turns /\ z.triggered = y.triggered /\ z.path = y.path
  BY DEF Turns
<1>3. \A n \in 0..UTurnWait :
         LET z == [y EXCEPT !.counter = n]
         IN  z \in Turns /\ z.triggered = y.triggered /\ z.path = y.path /\ z.phase = y.phase
  BY DEF Turns
<1> QED
  BY <1>1, <1>2, <1>3 DEF Fine, Drawable

LEMMA FoundFacts ==
    ASSUME NEW y \in Turns
    PROVE  /\ FindCurveTurnPoint(y) \subseteq Turns /\ FindABTurnPoint(y) \subseteq Turns
           /\ FindCurveTurnPoints(y) \subseteq Turns /\ FindClosestTurnPoint(y) \subseteq Turns
           /\ \A found : Crossed(found) \subseteq found /\ NotCrossed(found) \subseteq found
           /\ Fine(y) => \A z \in FindClosestTurnPoint(y) : Fine(z)
  BY OtherFacts DEF FindCurveTurnPoint, FindABTurnPoint, FindCurveTurnPoints, FindClosestTurnPoint,
                    Crossed, NotCrossed

LEMMA MovedFacts ==
    ASSUME NEW y, Drawable(y), Aim \in Aims, NEW n \in Phases, NEW z \in Moved(y, n)
    PROVE  Fine(z) /\ (z.phase = n => Drawable(z))
<1>1. y \in Turns
  BY DEF Drawable
<1>2. PICK m \in {y, Undrawn(y)} : z = IF m.path = NoPath THEN FailCreate(m) ELSE Phase(m, n)
  BY DEF Moved, MoveTurnInsideTurnLine
<1>3. Drawable(m)
  BY <1>1, DrawnFacts
<1>4. m \in Turns
  BY <1>3 DEF Drawable
<1>5. 11 \in Phases /\ FailCreate(m) = Phase(m, 11)
  BY DEF Phases, FailCreate
<1>6. Drawable(z)
  BY <1>2, <1>3, <1>4, <1>5, PhaseFacts
<1> QED
  BY <1>6, FineFacts

----------------------------------------------------------------------------
(* What each kind of turn comes to when it is drawn for a frame. *)

(* A path drawn off this line, at its crossing. *)
LEMMA OffFacts ==
    ASSUME NEW y \in Turns, Aim \in Aims, NEW found \in SUBSET Turns, NEW z \in Crossed(found)
    PROVE  /\ z \in Turns /\ Fine(FailCreate(z)) /\ Fine(FailCreate(Undrawn(z)))
           /\ Fine(FailCreate(Drawn(z)))
           /\ \A n \in Phases : Fine(Phase(Drawn(z), n))
           /\ \A m \in Moved(Drawn(z), 1) : Fine(m)
           /\ Fine(Undrawn(z))
<1>1. z \in Turns
  BY DEF Crossed
<1>2. Drawable(Drawn(z)) /\ Drawable(Undrawn(z))
  BY <1>1, DrawnFacts
<1>3. Drawn(z) \in Turns /\ Undrawn(z) \in Turns
  BY <1>2 DEF Drawable
<1>4. \A n \in Phases : Fine(Phase(Drawn(z), n))
  BY <1>2, <1>3, PhaseFacts, FineFacts
<1>5. 1 \in Phases
  BY DEF Phases
<1> QED
  BY <1>1, <1>2, <1>3, <1>4, <1>5, PhaseFacts, MovedFacts, FineFacts

LEMMA NotFoundFacts ==
    ASSUME NEW found \in SUBSET Turns, NEW z \in NotCrossed(found)
    PROVE  z \in Turns /\ Fine(FailCreate(z))
  BY PhaseFacts DEF NotCrossed, Crossed

LEMMA OmegaDrawnFacts ==
    ASSUME NEW y \in Turns, Aim \in Aims, NEW z \in CurveOmegaDrawn(y) \cup ABOmegaDrawn(y)
    PROVE  Fine(z)
<1>1. 1 \in Phases
  BY DEF Phases
<1>2. ASSUME NEW found \in SUBSET Turns,
             z \in {FailCreate(c) : c \in NotCrossed(found)} \cup
                   UNION {{FailCreate(Undrawn(c)), FailCreate(Drawn(c)), Phase(Drawn(c), 1)}
                             \cup Moved(Drawn(c), 1) : c \in Crossed(found)}
      PROVE  Fine(z)
  <2>1. CASE \E c \in NotCrossed(found) : z = FailCreate(c)
    BY <2>1, NotFoundFacts
  <2>2. CASE \E c \in Crossed(found) :
                z \in {FailCreate(Undrawn(c)), FailCreate(Drawn(c)), Phase(Drawn(c), 1)}
                         \cup Moved(Drawn(c), 1)
    BY <1>1, <2>2, OffFacts
  <2> QED
    BY <1>2, <2>1, <2>2
<1>3. CASE z \in CurveOmegaDrawn(y)
  <2> DEFINE found == FindCurveTurnPoint(y)
  <2>1. found \in SUBSET Turns
    BY FoundFacts
  <2>2. z \in {FailCreate(c) : c \in NotCrossed(found)} \cup
              UNION {{FailCreate(Undrawn(c)), FailCreate(Drawn(c)), Phase(Drawn(c), 1)}
                        \cup Moved(Drawn(c), 1) : c \in Crossed(found)}
    BY <1>3 DEF CurveOmegaDrawn
  <2> HIDE DEF found
  <2> QED
    BY <1>2, <2>1, <2>2
<1>4. CASE z \in ABOmegaDrawn(y)
  <2> DEFINE found == FindABTurnPoint(y)
  <2>1. found \in SUBSET Turns
    BY FoundFacts
  <2>2. z \in {FailCreate(c) : c \in NotCrossed(found)} \cup
              UNION {{FailCreate(Undrawn(c)), FailCreate(Drawn(c)), Phase(Drawn(c), 1)}
                        \cup Moved(Drawn(c), 1) : c \in Crossed(found)}
    BY <1>4 DEF ABOmegaDrawn
  <2> HIDE DEF found
  <2> QED
    BY <1>2, <2>1, <2>2
<1> QED
  BY <1>3, <1>4

LEMMA OmegaJoinedFacts ==
    ASSUME NEW y, Drawable(y), Aim \in Aims, NEW z \in CurveOmegaJoined(y) \cup ABOmegaJoined(y)
    PROVE  Fine(z)
<1>0. y \in Turns /\ 10 \in Phases
  BY DEF Drawable, Phases
<1>1. CASE z \in CurveOmegaJoined(y)
  <2>1. Drawable(DrawnOn(y)) /\ DrawnOn(y) \in Turns
    BY <1>0, DrawnFacts DEF Drawable
  <2> QED
    BY <1>0, <1>1, <2>1, PhaseFacts, FineFacts DEF CurveOmegaJoined, AddCurveSequenceLines
<1>2. CASE z \in ABOmegaJoined(y)
  <2>1. PICK m \in Moved(y, 10) : z \in IF m.phase = 10 THEN AddABSequenceLines(m) ELSE {m}
    BY <1>2 DEF ABOmegaJoined
  <2>2. Fine(m) /\ m \in Turns
    BY <1>0, MovedFacts, FineFacts
  <2> QED
    BY <2>1, <2>2, PhaseFacts DEF AddABSequenceLines
<1> QED
  BY <1>1, <1>2

LEMMA OmegaFacts ==
    ASSUME NEW y, Fine(y), Aim \in Aims, NEW z \in CurveOmegaTurn(y) \cup ABOmegaTurn(y)
    PROVE  Fine(z)
<1>1. y \in Turns
  BY FineFacts
<1>2. CASE y.phase = 0
  BY <1>1, <1>2, OmegaDrawnFacts DEF CurveOmegaTurn, ABOmegaTurn
<1>3. CASE y.phase = 1
  BY <1>3, OmegaJoinedFacts, FineFacts DEF CurveOmegaTurn, ABOmegaTurn
<1>4. CASE y.phase # 0 /\ y.phase # 1
  BY <1>4 DEF CurveOmegaTurn, ABOmegaTurn
<1> QED
  BY <1>2, <1>3, <1>4

LEMMA WideOffFacts ==
    ASSUME NEW y \in Turns, Aim \in Aims, NEW z \in CurveWideOff(y) \cup ABWideOff(y)
    PROVE  Fine(z)
<1>1. ASSUME NEW found \in SUBSET Turns,
             z \in {FailCreate(c) : c \in NotCrossed(found)} \cup
                   UNION {{FailCreate(Drawn(c))} \cup Moved(Drawn(c), 1) : c \in Crossed(found)}
      PROVE  Fine(z)
  <2>1. CASE \E c \in NotCrossed(found) : z = FailCreate(c)
    BY <2>1, NotFoundFacts
  <2>2. CASE \E c \in Crossed(found) : z \in {FailCreate(Drawn(c))} \cup Moved(Drawn(c), 1)
    BY <2>2, OffFacts
  <2> QED
    BY <1>1, <2>1, <2>2
<1>2. CASE z \in CurveWideOff(y)
  <2> DEFINE found == FindCurveTurnPoint(y)
  <2>1. found \in SUBSET Turns
    BY FoundFacts
  <2>2. z \in {FailCreate(c) : c \in NotCrossed(found)} \cup
              UNION {{FailCreate(Drawn(c))} \cup Moved(Drawn(c), 1) : c \in Crossed(found)}
    BY <1>2 DEF CurveWideOff
  <2> HIDE DEF found
  <2> QED
    BY <1>1, <2>1, <2>2
<1>3. CASE z \in ABWideOff(y)
  <2> DEFINE found == FindABTurnPoint(y)
  <2>1. found \in SUBSET Turns
    BY FoundFacts
  <2>2. z \in {FailCreate(c) : c \in NotCrossed(found)} \cup
              UNION {{FailCreate(Drawn(c))} \cup Moved(Drawn(c), 1) : c \in Crossed(found)}
    BY <1>3 DEF ABWideOff
  <2> HIDE DEF found
  <2> QED
    BY <1>1, <2>1, <2>2
<1> QED
  BY <1>2, <1>3

LEMMA WideOntoFacts ==
    ASSUME NEW y, Drawable(y), Aim \in Aims, NEW z \in CurveWideOnto(y) \cup ABWideOnto(y)
    PROVE  Fine(z)
<1>1. y \in Turns /\ 2 \in Phases
  BY DEF Drawable, Phases
<1>2. Drawable(DrawnOn(y)) /\ DrawnOn(y) \in Turns
  BY <1>1, DrawnFacts DEF Drawable
<1>3. z \in {FailCreate(y), Phase(DrawnOn(y), 2)}
  BY DEF CurveWideOnto, ABWideOnto, HalfCircle
<1> QED
  BY <1>1, <1>2, <1>3, PhaseFacts, FineFacts

LEMMA WideJoinedFacts ==
    ASSUME NEW y, Drawable(y), Aim \in Aims, NEW z \in CurveWideJoined(y) \cup ABWideJoined(y)
    PROVE  Fine(z)
<1>1. y \in Turns /\ 10 \in Phases
  BY DEF Drawable, Phases
<1>2. Drawable(Phase(y, 10)) /\ Phase(y, 10) \in Turns
  BY <1>1, PhaseFacts
<1>3. \A m \in Straight(Phase(y, 10)) : Fine(m) /\ m \in Turns
  BY <1>2, OtherFacts, FineFacts DEF Straight
<1>4. \/ z = FailCreate(y)
      \/ \E m \in Straight(Phase(y, 10)) : z = m \/ z = FailCreate(m)
  BY DEF CurveWideJoined, ABWideJoined, AddABSequenceLines
<1> QED
  BY <1>1, <1>3, <1>4, PhaseFacts

LEMMA WideFacts ==
    ASSUME NEW y, Fine(y), Aim \in Aims, NEW z \in CurveWideTurn(y) \cup ABWideTurn(y)
    PROVE  Fine(z)
<1>1. y \in Turns
  BY FineFacts
<1>2. CASE y.phase = 0
  BY <1>1, <1>2, WideOffFacts DEF CurveWideTurn, ABWideTurn
<1>3. CASE y.phase = 1
  BY <1>3, WideOntoFacts, FineFacts DEF CurveWideTurn, ABWideTurn
<1>4. CASE y.phase = 2
  BY <1>4, WideJoinedFacts, FineFacts DEF CurveWideTurn, ABWideTurn
<1>5. CASE y.phase \notin {0, 1, 2}
  BY <1>5 DEF CurveWideTurn, ABWideTurn
<1> QED
  BY <1>2, <1>3, <1>4, <1>5

LEMMA KStyleFacts ==
    ASSUME NEW y, Fine(y), Aim \in Aims, NEW z \in KStyleTurnCurve(y) \cup KStyleTurnAB(y)
    PROVE  Fine(z)
<1> DEFINE tried == [y EXCEPT !.counter = 0]
           ahead == FindCurveTurnPoints(tried)
           closest == FindClosestTurnPoint(tried)
<1>1. y \in Turns /\ 10 \in Phases /\ 0 \in 0..UTurnWait
  BY FineFacts, StyleAssumption DEF Phases
<1>2. tried \in Turns /\ Fine(tried)
  BY <1>1, OtherFacts
<1>3. /\ ahead \in SUBSET Turns /\ closest \in SUBSET Turns
      /\ \A c \in closest : Fine(c)
  BY <1>2, FoundFacts
<1>4. Fine(Phase(y, 0))
  BY <1>1, PhaseFacts
<1>5. CASE z \in KStyleTurnCurve(y)
  <2>1. \/ z = Phase(y, 0)
        \/ \E c \in NotCrossed(ahead) : z = FailCreate(c)
        \/ \E c \in Crossed(ahead) : z \in {FailCreate(Undrawn(c)), Undrawn(c), Phase(Drawn(c), 10)}
    BY <1>5 DEF KStyleTurnCurve
  <2> HIDE DEF ahead, closest, tried
  <2> QED
    BY <1>1, <1>2, <1>3, <1>4, <2>1, NotFoundFacts, OffFacts
<1>6. CASE z \in KStyleTurnAB(y)
  <2>1. \/ z = Phase(y, 0) \/ z = tried
        \/ z \in NotCrossed(closest)
        \/ \E c \in Crossed(closest) : \E m \in MoveABTurnInsideTurnLine(Drawn(c)) :
              z = IF m.path = NoPath THEN FailCreate(m) ELSE Phase(m, 10)
    BY <1>6 DEF KStyleTurnAB
  <2> HIDE DEF ahead, closest, tried
  <2>2. ASSUME NEW c \in Crossed(closest), NEW m \in MoveABTurnInsideTurnLine(Drawn(c))
        PROVE  Fine(FailCreate(m)) /\ Fine(Phase(m, 10))
    <3>1. c \in Turns
      BY <1>3 DEF Crossed
    <3>2. Drawable(Drawn(c)) /\ Drawn(c) \in Turns
      BY <3>1, DrawnFacts DEF Drawable
    <3>3. Drawable(m) /\ m \in Turns
      BY <3>2, DrawnFacts DEF MoveABTurnInsideTurnLine, Drawable
    <3> QED
      BY <1>1, <3>3, PhaseFacts, FineFacts
  <2> QED
    BY <1>2, <1>3, <1>4, <2>1, <2>2 DEF NotCrossed
<1> QED
  BY <1>5, <1>6

LEMMA BuildFacts ==
    ASSUME NEW y, Fine(y), PatternOK(skips), NEW i, NEW z \in BuildDubinsYouTurn(y, i)
    PROVE  Fine(z)
<1>1. y \in Turns /\ Aim \in Aims
  BY FineFacts, AimFacts
<1>2. y.style \in {0, 1}
  BY <1>1 DEF Turns
<1>3. CASE y.counter < UTurnWait
  BY <1>1, <1>3, PhaseFacts DEF BuildDubinsYouTurn
<1>4. CASE ~(y.counter < UTurnWait) /\ y.style = 1
  <2>1. z \in KStyleTurnCurve(y) \cup KStyleTurnAB(y)
    BY <1>4 DEF BuildDubinsYouTurn, BuildABLineDubinsYouTurn, BuildCurveDubinsYouTurn
  <2> QED
    BY <1>1, <2>1, KStyleFacts
<1>5. CASE ~(y.counter < UTurnWait) /\ y.style = 0
  <2>1. \/ z \in CurveWideTurn(y) \cup ABWideTurn(y)
        \/ z \in CurveOmegaTurn(y) \cup ABOmegaTurn(y)
    BY <1>5 DEF BuildDubinsYouTurn, BuildABLineDubinsYouTurn, BuildCurveDubinsYouTurn
  <2> QED
    BY <1>1, <2>1, WideFacts, OmegaFacts
<1> QED
  BY <1>2, <1>3, <1>4, <1>5

----------------------------------------------------------------------------
(* Rows and turns. *)

Rows == [row : Int, way : {1, -1}, done : SUBSET Int, turns : Nat]

(* Rows are counted along the direction s in which the first turn went. *)
Along(s, x) == IF s = 1 THEN x ELSE -x
Ahead(r, k, s) == (r.way = s) <=> k.isYouTurnRight
At(r, s, p, worked) ==
    Along(s, r.row) = p /\ \A x \in Int : x \in r.done <=> Along(s, x) \in worked
Due(k, n, width) == k.turnSkips = n /\ k.rowSkipsWidth = width

(* A turn of pattern k moves the vehicle to the next row. *)
Visited(r, k, straight) ==
    LET to == r.row + k.rowSkipsWidth * r.way * (IF k.isYouTurnRight THEN 1 ELSE -1)
    IN  [row |-> to, way |-> IF straight THEN r.way ELSE -r.way,
         done |-> r.done \cup {to}, turns |-> r.turns + 1]

SameSide(k, k2, straight) == (k2.isYouTurnRight <=> k.isYouTurnRight) <=> ~straight

----------------------------------------------------------------------------
LEMMA VisitedFacts ==
    ASSUME NEW r \in Rows, NEW k \in Pats, NEW k2 \in Pats, NEW straight \in BOOLEAN,
           NEW s \in {1, -1}
    PROVE  LET t == Visited(r, k, straight)
           IN  /\ t \in Rows /\ t.done = r.done \cup {t.row} /\ t.turns = r.turns + 1
               /\ Along(s, t.row) = IF Ahead(r, k, s) THEN Along(s, r.row) + k.rowSkipsWidth
                                                      ELSE Along(s, r.row) - k.rowSkipsWidth
               /\ \A x \in Int : Along(s, x) = Along(s, t.row) <=> x = t.row
               /\ IF SameSide(k, k2, straight) THEN Ahead(t, k2, s) <=> ~Ahead(r, k, s)
                                               ELSE Ahead(t, k2, s) <=> Ahead(r, k, s)
<1> DEFINE to == r.row + k.rowSkipsWidth * r.way * (IF k.isYouTurnRight THEN 1 ELSE -1)
           way == IF straight THEN r.way ELSE -r.way
           t == Visited(r, k, straight)
<1>1. /\ r.row \in Int /\ r.way \in {1, -1} /\ r.done \in SUBSET Int /\ r.turns \in Nat
      /\ k.rowSkipsWidth \in Nat /\ k.isYouTurnRight \in BOOLEAN /\ k2.isYouTurnRight \in BOOLEAN
  BY PatternFields DEF Rows
<1>2. to = IF (r.way = 1) <=> k.isYouTurnRight THEN r.row + k.rowSkipsWidth
                                               ELSE r.row - k.rowSkipsWidth
  <2>1. CASE r.way = 1 /\ k.isYouTurnRight
    BY <1>1, <2>1
  <2>2. CASE r.way = 1 /\ ~k.isYouTurnRight
    BY <1>1, <2>2
  <2>3. CASE r.way = -1 /\ k.isYouTurnRight
    BY <1>1, <2>3
  <2>4. CASE r.way = -1 /\ ~k.isYouTurnRight
    BY <1>1, <2>4
  <2> QED
    BY <1>1, <2>1, <2>2, <2>3, <2>4
<1>3. t.row = to /\ t.way = way /\ t.done = r.done \cup {to} /\ t.turns = r.turns + 1
  BY DEF Visited
<1>4. to \in Int /\ way \in {1, -1}
  BY <1>1, <1>2
<1>5. t \in Rows
  BY <1>1, <1>4 DEF Visited, Rows
<1> HIDE DEF to, t
<1>6. Along(s, to) = IF Ahead(r, k, s) THEN Along(s, r.row) + k.rowSkipsWidth
                                       ELSE Along(s, r.row) - k.rowSkipsWidth
  BY <1>1, <1>2 DEF Along, Ahead
<1>7. \A x \in Int : Along(s, x) = Along(s, to) <=> x = to
  BY <1>4 DEF Along
<1>8. IF SameSide(k, k2, straight) THEN Ahead(t, k2, s) <=> ~Ahead(r, k, s)
                                   ELSE Ahead(t, k2, s) <=> Ahead(r, k, s)
  BY <1>1, <1>3 DEF SameSide, Ahead
<1> QED
  BY <1>3, <1>5, <1>6, <1>7, <1>8 DEF t

(* A row that was not among those worked is added to them. *)
Goes(r, k, s, p, q) == q = IF Ahead(r, k, s) THEN p + k.rowSkipsWidth ELSE p - k.rowSkipsWidth
Grows(worked, q, more) == q \notin worked /\ \A x \in Int : x \in more <=> x \in worked \/ x = q

LEMMA AtFacts ==
    ASSUME NEW r \in Rows, NEW k \in Pats, NEW straight \in BOOLEAN, NEW s \in {1, -1},
           NEW p \in Int, NEW q \in Int, NEW worked \in SUBSET Int, NEW more \in SUBSET Int,
           At(r, s, p, worked), Goes(r, k, s, p, q), Grows(worked, q, more)
    PROVE  At(Visited(r, k, straight), s, q, more) /\ Visited(r, k, straight).row \notin r.done
<1> DEFINE t == Visited(r, k, straight)
<1>1. /\ t \in Rows /\ t.done = r.done \cup {t.row} /\ Along(s, t.row) = q
      /\ \A x \in Int : Along(s, x) = q <=> x = t.row
  BY VisitedFacts DEF At, Goes
<1>2. t.row \in Int /\ \A x \in Int : Along(s, x) \in Int
  BY <1>1 DEF Rows, Along
<1> HIDE DEF t
<1>3. \A x \in Int : x \in r.done <=> Along(s, x) \in worked
  BY DEF At
<1>4. t.row \notin r.done
  BY <1>1, <1>2, <1>3 DEF Grows
<1>5. \A x \in Int : x \in t.done <=> Along(s, x) \in more
  BY <1>1, <1>2, <1>3 DEF Grows
<1> QED
  BY <1>1, <1>4, <1>5 DEF At, t

----------------------------------------------------------------------------
(* What a turn makes of the pattern, member by member. *)

LEMMA SameWayFacts ==
    ASSUME NEW k \in Pats, NEW straight \in BOOLEAN
    PROVE  LET s == IF straight THEN OtherSide(k) ELSE k
           IN  /\ s \in Pats /\ SameSide(k, s, straight)
               /\ s.alternateSkips = k.alternateSkips /\ s.rowSkipsWidth2 = k.rowSkipsWidth2
               /\ s.turnSkips = k.turnSkips /\ s.rowSkipsWidth = k.rowSkipsWidth
               /\ s.previousBigSkip = k.previousBigSkip
  BY DEF OtherSide, SameSide, Pats, Patterns

Counts(k, k2, n, width) ==
    /\ k2 \in Pats /\ k2.turnSkips = n /\ k2.rowSkipsWidth = width
    /\ k2.alternateSkips = k.alternateSkips /\ k2.rowSkipsWidth2 = k.rowSkipsWidth2

LEMMA WithFields ==
    ASSUME NEW k \in Pats, NEW n, NEW width, NEW big, NEW right
    PROVE  LET r == With(k, n, width, big, right)
           IN  /\ r.turnSkips = n /\ r.rowSkipsWidth = width
               /\ r.previousBigSkip = big /\ r.isYouTurnRight = right
               /\ r.alternateSkips = k.alternateSkips /\ r.rowSkipsWidth2 = k.rowSkipsWidth2
  BY DEF With, Pats, Patterns

LEMMA AlwaysTurn ==
    ASSUME NEW k, PatternOK(k), NEW straight \in BOOLEAN, k.alternateSkips = 0
    PROVE  LET k2 == AfterTrigger(k, straight)
           IN  Counts(k, k2, k.turnSkips, k.rowSkipsWidth) /\ ~SameSide(k, k2, straight)
<1> DEFINE s == IF straight THEN OtherSide(k) ELSE k
           k2 == AfterTrigger(k, straight)
<1>1. k2 \in Pats /\ k \in Pats
  BY TriggerFacts DEF PatternOK
<1>2. /\ s \in Pats /\ SameSide(k, s, straight)
      /\ s.alternateSkips = k.alternateSkips /\ s.rowSkipsWidth2 = k.rowSkipsWidth2
      /\ s.turnSkips = k.turnSkips /\ s.rowSkipsWidth = k.rowSkipsWidth
  BY <1>1, SameWayFacts
<1>3. k2 = OtherSide(s)
  BY <1>2 DEF AfterTrigger
<1> HIDE DEF s, k2
<1>4. /\ k2.turnSkips = s.turnSkips /\ k2.rowSkipsWidth = s.rowSkipsWidth
      /\ k2.isYouTurnRight = ~s.isYouTurnRight
      /\ k2.alternateSkips = s.alternateSkips /\ k2.rowSkipsWidth2 = s.rowSkipsWidth2
  BY <1>2, <1>3 DEF OtherSide, Pats, Patterns
<1>5. k2.isYouTurnRight \in BOOLEAN /\ s.isYouTurnRight \in BOOLEAN /\ k.isYouTurnRight \in BOOLEAN
  BY <1>1, <1>2, PatternFields
<1> QED
  BY <1>1, <1>2, <1>4, <1>5 DEF Counts, SameSide, k2

LEMMA BigSmallTurn ==
    ASSUME NEW k, PatternOK(k), NEW straight \in BOOLEAN, k.alternateSkips = 1,
           k.rowSkipsWidth2 > 1
    PROVE  LET k2 == AfterTrigger(k, straight)
               w == k.rowSkipsWidth2
           IN  IF k.turnSkips = 1
               THEN /\ Counts(k, k2, 2 * w - 1, k.rowSkipsWidth)
                    /\ (k2.previousBigSkip <=> k.previousBigSkip) /\ ~SameSide(k, k2, straight)
               ELSE /\ Counts(k, k2, k.turnSkips - 1, IF k.previousBigSkip THEN w ELSE w - 1)
                    /\ (k2.previousBigSkip <=> ~k.previousBigSkip) /\ SameSide(k, k2, straight)
<1> DEFINE s == IF straight THEN OtherSide(k) ELSE k
           k2 == AfterTrigger(k, straight)
           w == k.rowSkipsWidth2
<1>1. k2 \in Pats /\ k \in Pats
  BY TriggerFacts DEF PatternOK
<1>2. /\ s \in Pats /\ SameSide(k, s, straight)
      /\ s.alternateSkips = k.alternateSkips /\ s.rowSkipsWidth2 = w
      /\ s.turnSkips = k.turnSkips /\ s.rowSkipsWidth = k.rowSkipsWidth
      /\ s.previousBigSkip = k.previousBigSkip
  BY <1>1, SameWayFacts
<1>3. k2 = BigSmall(s)
  <2>1. w \in Nat
    BY <1>1, PatternFields
  <2> QED
    BY <1>2, <2>1 DEF AfterTrigger
<1> HIDE DEF s, k2
<1>4. CASE k.turnSkips = 1
  <2>1. k2 = With(s, 2 * w - 1, s.rowSkipsWidth, s.previousBigSkip, ~s.isYouTurnRight)
    BY <1>2, <1>3, <1>4, BigSmallFacts
  <2> QED
    BY <1>1, <1>2, <1>4, <2>1, WithFields, PatternFields DEF Counts, SameSide, k2
<1>5. CASE k.turnSkips # 1
  <2>1. k2 = With(s, s.turnSkips - 1, IF s.previousBigSkip THEN w ELSE w - 1,
                  ~s.previousBigSkip, s.isYouTurnRight)
    BY <1>2, <1>3, <1>5, BigSmallFacts
  <2> QED
    BY <1>1, <1>2, <1>5, <2>1, WithFields, PatternFields DEF Counts, SameSide, k2
<1> QED
  BY <1>4, <1>5

LEMMA InwardsTurn ==
    ASSUME NEW k, PatternOK(k), NEW straight \in BOOLEAN, k.alternateSkips = 2,
           k.rowSkipsWidth2 > 1
    PROVE  LET k2 == AfterTrigger(k, straight)
               w == k.rowSkipsWidth2
           IN  IF k.turnSkips = 1
               THEN /\ Counts(k, k2, w, (3 * w) \div 2)
                    /\ k2.previousBigSkip <=> ~k.previousBigSkip
                    /\ SameSide(k, k2, straight) <=> w % 2 = 0
               ELSE /\ Counts(k, k2, k.turnSkips - 1,
                              IF k.previousBigSkip THEN w - 1 ELSE k.rowSkipsWidth - 1)
                    /\ ~k2.previousBigSkip /\ SameSide(k, k2, straight)
<1> DEFINE s == IF straight THEN OtherSide(k) ELSE k
           k2 == AfterTrigger(k, straight)
           w == k.rowSkipsWidth2
<1>1. k2 \in Pats /\ k \in Pats
  BY TriggerFacts DEF PatternOK
<1>2. /\ s \in Pats /\ SameSide(k, s, straight)
      /\ s.alternateSkips = k.alternateSkips /\ s.rowSkipsWidth2 = w
      /\ s.turnSkips = k.turnSkips /\ s.rowSkipsWidth = k.rowSkipsWidth
      /\ s.previousBigSkip = k.previousBigSkip
  BY <1>1, SameWayFacts
<1>3. k2 = Inwards(s)
  <2>1. w \in Nat
    BY <1>1, PatternFields
  <2> QED
    BY <1>2, <2>1 DEF AfterTrigger
<1> HIDE DEF s, k2
<1>4. CASE k.turnSkips = 1
  <2> DEFINE right == IF w % 2 # 0 THEN ~s.isYouTurnRight ELSE s.isYouTurnRight
             v == (3 * w) \div 2
  <2>1. k2 = With(s, w, v, ~s.previousBigSkip, right)
    BY <1>2, <1>3, <1>4, InwardsFacts
  <2>2. right <=> (w % 2 # 0 <=> ~s.isYouTurnRight)
    BY <1>2, PatternFields
  <2>3. /\ k2.turnSkips = w /\ k2.rowSkipsWidth = v /\ k2.previousBigSkip = ~s.previousBigSkip
        /\ k2.isYouTurnRight = right /\ k2.alternateSkips = k.alternateSkips
        /\ k2.rowSkipsWidth2 = w
    BY <1>2, <2>1, WithFields
  <2>4. Counts(k, k2, w, v) /\ (k2.previousBigSkip <=> ~k.previousBigSkip)
    BY <1>1, <1>2, <2>3 DEF Counts
  <2> HIDE DEF v, right
  <2>5. SameSide(k, k2, straight) <=> w % 2 = 0
    BY <1>1, <1>2, <2>2, <2>3, PatternFields DEF SameSide
  <2> QED
    BY <1>4, <2>4, <2>5 DEF k2, v
<1>5. CASE k.turnSkips # 1
  <2> DEFINE big == FALSE
  <2>1. k2 = With(s, s.turnSkips - 1, IF s.previousBigSkip THEN w - 1 ELSE s.rowSkipsWidth - 1,
                  big, s.isYouTurnRight)
    BY <1>2, <1>3, <1>5, InwardsFacts
  <2>2. ~big
    OBVIOUS
  <2> HIDE DEF big
  <2> QED
    BY <1>1, <1>2, <1>5, <2>1, <2>2, WithFields, PatternFields DEF Counts, SameSide, k2
<1> QED
  BY <1>4, <1>5

LEMMA OutwardsTurn ==
    ASSUME NEW k, PatternOK(k), NEW straight \in BOOLEAN, k.alternateSkips = 3,
           k.rowSkipsWidth2 > 1, k.rowSkipsWidth2 % 2 # 0
    PROVE  LET k2 == AfterTrigger(k, straight)
               w == k.rowSkipsWidth2
           IN  IF k.turnSkips = 1
               THEN /\ Counts(k, k2, w, w - w \div 2)
                    /\ (k2.previousBigSkip <=> ~k.previousBigSkip) /\ ~SameSide(k, k2, straight)
               ELSE /\ Counts(k, k2, k.turnSkips - 1,
                              IF k.previousBigSkip THEN 1 ELSE k.rowSkipsWidth + 1)
                    /\ ~k2.previousBigSkip /\ SameSide(k, k2, straight)
<1> DEFINE s == IF straight THEN OtherSide(k) ELSE k
           k2 == AfterTrigger(k, straight)
           w == k.rowSkipsWidth2
<1>1. k2 \in Pats /\ k \in Pats
  BY TriggerFacts DEF PatternOK
<1>2. /\ s \in Pats /\ SameSide(k, s, straight)
      /\ s.alternateSkips = k.alternateSkips /\ s.rowSkipsWidth2 = w
      /\ s.turnSkips = k.turnSkips /\ s.rowSkipsWidth = k.rowSkipsWidth
      /\ s.previousBigSkip = k.previousBigSkip
  BY <1>1, SameWayFacts
<1>3. k2 = Outwards(s)
  <2>1. w \in Nat
    BY <1>1, PatternFields
  <2> QED
    BY <1>2, <2>1 DEF AfterTrigger
<1> HIDE DEF s, k2
<1>4. CASE k.turnSkips = 1
  <2>1. k2 = With(s, w, w - w \div 2, ~s.previousBigSkip, ~s.isYouTurnRight)
    BY <1>2, <1>3, <1>4, OutwardsFacts
  <2> QED
    BY <1>1, <1>2, <1>4, <2>1, WithFields, PatternFields DEF Counts, SameSide, k2
<1>5. CASE k.turnSkips # 1
  <2> DEFINE big == FALSE
  <2>1. k2 = With(s, s.turnSkips - 1, IF s.previousBigSkip THEN 1 ELSE s.rowSkipsWidth + 1,
                  big, s.isYouTurnRight)
    BY <1>2, <1>3, <1>5, OutwardsFacts
  <2>2. ~big
    OBVIOUS
  <2> HIDE DEF big
  <2> QED
    BY <1>1, <1>2, <1>5, <2>1, <2>2, WithFields, PatternFields DEF Counts, SameSide, k2
<1> QED
  BY <1>4, <1>5

----------------------------------------------------------------------------
(* The rows worked so far, pattern by pattern. *)

Stretch(l, a, c, d) == (l..a) \cup (c..d)

(* Pattern 1, in its i-th pair of a round that began at row b: about to     *)
(* leave the worked rows by the big skip, or to come back by the small one. *)
BigNext(r, k, s, b, i) ==
    LET w == k.rowSkipsWidth2
    IN  /\ Due(k, 2 * w - 1 - 2 * i, w) /\ ~k.previousBigSkip /\ i <= w - 1 /\ Ahead(r, k, s)
        /\ At(r, s, b + i, Stretch(0, b + i, b + w, b + w + i - 1))
SmallNext(r, k, s, b, i) ==
    LET w == k.rowSkipsWidth2
    IN  /\ Due(k, 2 * w - 2 - 2 * i, w - 1) /\ k.previousBigSkip /\ i <= w - 2 /\ ~Ahead(r, k, s)
        /\ At(r, s, b + w + i, Stretch(0, b + i, b + w, b + w + i))

(* Pattern 2, spiralling inwards between rows b and b + w. *)
FarNext(r, k, s, b, i) ==
    LET w == k.rowSkipsWidth2
    IN  /\ Due(k, w - 2 * i, w - 2 * i) /\ ~k.previousBigSkip /\ 2 * i < w /\ Ahead(r, k, s)
        /\ At(r, s, b + i, Stretch(0, b + i, b + w - i + 1, b + w))
NearNext(r, k, s, b, i) ==
    LET w == k.rowSkipsWidth2
    IN  /\ Due(k, w - 2 * i - 1, w - 2 * i - 1) /\ ~k.previousBigSkip /\ 2 * i + 1 < w
        /\ ~Ahead(r, k, s)
        /\ At(r, s, b + w - i, Stretch(0, b + i, b + w - i, b + w))
LeavesInside(r, k, s, b) ==
    LET w == k.rowSkipsWidth2
    IN  /\ Due(k, w, (3 * w) \div 2) /\ k.previousBigSkip /\ Ahead(r, k, s)
        /\ At(r, s, b + (w + 1) \div 2, 0..b + w)

----------------------------------------------------------------------------
LEMMA BigSmallRows ==
    ASSUME NEW r \in Rows, NEW k, PatternOK(k), NEW straight \in BOOLEAN, k.alternateSkips = 1,
           k.rowSkipsWidth2 > 1, NEW s \in {1, -1}, NEW b \in Nat, NEW i \in Nat,
           BigNext(r, k, s, b, i) \/ SmallNext(r, k, s, b, i)
    PROVE  LET t == Visited(r, k, straight)
               k2 == AfterTrigger(k, straight)
           IN  /\ t.row \notin r.done
               /\ \E b2, i2 \in Nat : BigNext(t, k2, s, b2, i2) \/ SmallNext(t, k2, s, b2, i2)
<1> DEFINE w == k.rowSkipsWidth2
           t == Visited(r, k, straight)
           k2 == AfterTrigger(k, straight)
<1>1. k \in Pats /\ w \in Nat /\ w > 1
  BY PatternFields DEF PatternOK
<1>2. k2 \in Pats
  BY TriggerFacts DEF PatternOK
<1>3. IF SameSide(k, k2, straight) THEN Ahead(t, k2, s) <=> ~Ahead(r, k, s)
                                   ELSE Ahead(t, k2, s) <=> Ahead(r, k, s)
  BY <1>1, <1>2, VisitedFacts
<1>4. IF k.turnSkips = 1
      THEN /\ Counts(k, k2, 2 * w - 1, k.rowSkipsWidth)
           /\ (k2.previousBigSkip <=> k.previousBigSkip) /\ ~SameSide(k, k2, straight)
      ELSE /\ Counts(k, k2, k.turnSkips - 1, IF k.previousBigSkip THEN w ELSE w - 1)
           /\ (k2.previousBigSkip <=> ~k.previousBigSkip) /\ SameSide(k, k2, straight)
  BY BigSmallTurn
<1> HIDE DEF k2
<1>5. \A x, y, z, u \in Int : Stretch(x, y, z, u) \in SUBSET Int
  BY DEF Stretch
<1>6. ASSUME SmallNext(r, k, s, b, i)
      PROVE  t.row \notin r.done /\ BigNext(t, k2, s, b, i + 1)
  <2> DEFINE worked == Stretch(0, b + i, b + w, b + w + i)
             more == Stretch(0, b + (i + 1), b + w, b + w + (i + 1) - 1)
             p == b + w + i
             q == b + (i + 1)
  <2>1. /\ k.turnSkips = 2 * w - 2 - 2 * i /\ k.rowSkipsWidth = w - 1 /\ k.previousBigSkip
        /\ i <= w - 2 /\ ~Ahead(r, k, s) /\ At(r, s, p, worked)
    BY <1>6 DEF SmallNext, Due
  <2>2. Grows(worked, q, more)
    BY <1>1, <2>1 DEF Stretch, Grows
  <2>3. p \in Int /\ q \in Int /\ Goes(r, k, s, p, q)
    BY <1>1, <2>1 DEF Goes
  <2>4. worked \in SUBSET Int /\ more \in SUBSET Int
    BY <1>1, <1>5
  <2>0. k \in Pats /\ At(r, s, p, worked)
    BY <1>1, <2>1
  <2> HIDE DEF worked, more, p, q
  <2>5. At(t, s, q, more) /\ t.row \notin r.done
    BY <2>0, <2>2, <2>3, <2>4, AtFacts
  <2>6. k.turnSkips # 1 /\ k.turnSkips - 1 = 2 * w - 1 - 2 * (i + 1) /\ i + 1 <= w - 1
    BY <1>1, <2>1
  <2>7. Counts(k, k2, 2 * w - 1 - 2 * (i + 1), w) /\ ~k2.previousBigSkip /\ Ahead(t, k2, s)
    BY <1>3, <1>4, <2>1, <2>6
  <2> QED
    BY <2>5, <2>6, <2>7 DEF BigNext, Counts, Due, more, q
<1>7. ASSUME BigNext(r, k, s, b, i)
      PROVE  /\ t.row \notin r.done
             /\ SmallNext(t, k2, s, b, i) \/ BigNext(t, k2, s, b + 2 * w - 1, 0)
  <2> DEFINE worked == Stretch(0, b + i, b + w, b + w + i - 1)
             more == Stretch(0, b + i, b + w, b + w + i)
             p == b + i
             q == b + w + i
  <2>1. /\ k.turnSkips = 2 * w - 1 - 2 * i /\ k.rowSkipsWidth = w /\ ~k.previousBigSkip
        /\ i <= w - 1 /\ Ahead(r, k, s) /\ At(r, s, p, worked)
    BY <1>7 DEF BigNext, Due
  <2>2. Grows(worked, q, more)
    BY <1>1, <2>1 DEF Stretch, Grows
  <2>3. p \in Int /\ q \in Int /\ Goes(r, k, s, p, q)
    BY <1>1, <2>1 DEF Goes
  <2>4. worked \in SUBSET Int /\ more \in SUBSET Int
    BY <1>1, <1>5
  <2>0. k \in Pats /\ At(r, s, p, worked)
    BY <1>1, <2>1
  <2> HIDE DEF worked, more, p, q
  <2>5. At(t, s, q, more) /\ t.row \notin r.done
    BY <2>0, <2>2, <2>3, <2>4, AtFacts
  <2>6. CASE k.turnSkips = 1
    <3>1. i = w - 1
      BY <1>1, <2>1, <2>6
    <3> DEFINE all == Stretch(0, b + 2 * w - 1 + 0, b + 2 * w - 1 + w, b + 2 * w - 1 + w + 0 - 1)
    <3>2. \A x \in Int : x \in more <=> x \in all
      BY <1>1, <3>1 DEF Stretch, more
    <3>3. q = b + 2 * w - 1 + 0
      BY <1>1, <3>1 DEF q
    <3> HIDE DEF all
    <3>4. At(t, s, b + 2 * w - 1 + 0, all)
      <4>1. \A x \in Int : Along(s, x) \in Int
        BY DEF Along
      <4> QED
        BY <2>5, <3>2, <3>3, <4>1 DEF At
    <3>5. Counts(k, k2, 2 * w - 1, w) /\ ~k2.previousBigSkip /\ Ahead(t, k2, s)
      BY <1>3, <1>4, <2>1, <2>6
    <3>6. 2 * w - 1 - 2 * 0 = 2 * w - 1 /\ 0 <= w - 1
      BY <1>1
    <3>7. BigNext(t, k2, s, b + 2 * w - 1, 0)
      BY <3>4, <3>5, <3>6 DEF BigNext, Counts, Due, all
    <3> QED
      BY <2>5, <3>7
  <2>7. CASE k.turnSkips # 1
    <3>1. k.turnSkips - 1 = 2 * w - 2 - 2 * i /\ i <= w - 2
      BY <1>1, <2>1, <2>7
    <3>2. Counts(k, k2, 2 * w - 2 - 2 * i, w - 1) /\ k2.previousBigSkip /\ ~Ahead(t, k2, s)
      BY <1>3, <1>4, <2>1, <2>7, <3>1
    <3>3. SmallNext(t, k2, s, b, i)
      BY <2>5, <3>1, <3>2 DEF SmallNext, Counts, Due, more, q
    <3> QED
      BY <2>5, <3>3
  <2> QED
    BY <2>6, <2>7
<1>8. i + 1 \in Nat /\ b + 2 * w - 1 \in Nat /\ 0 \in Nat
  BY <1>1
<1> HIDE DEF t, w
<1> QED
  BY <1>6, <1>7, <1>8 DEF t, k2

----------------------------------------------------------------------------

(* Pattern 3 with an odd width 2 h + 1, spiralling outwards: about to go on *)
(* to the far side or back to the near one, first around row 0 and in later *)
(* rounds around row b, the rows up to b - h - 1 being worked.              *)
FirstOn(r, k, s, i) ==
    LET w == k.rowSkipsWidth2
    IN  /\ Due(k, w - 2 * i, 2 * i + 1) /\ ~k.previousBigSkip /\ 2 * i < w /\ Ahead(r, k, s)
        /\ At(r, s, -i, -i..i)
FirstBack(r, k, s, i) ==
    LET w == k.rowSkipsWidth2
    IN  /\ Due(k, w - 2 * i - 1, 2 * i + 2) /\ ~k.previousBigSkip /\ 2 * i + 1 < w
        /\ ~Ahead(r, k, s)
        /\ At(r, s, i + 1, -i..i + 1)
LeavesOutside(r, k, s, h, b) ==
    /\ b >= 1 /\ Due(k, k.rowSkipsWidth2, h + 1) /\ k.previousBigSkip /\ Ahead(r, k, s)
    /\ At(r, s, b + h, -h..b + h)
LaterBack(r, k, s, h, b, i) ==
    LET w == k.rowSkipsWidth2
    IN  /\ b > w /\ Due(k, w - 1 - 2 * i, 2 * i + 1) /\ ~k.previousBigSkip /\ 2 * i < w - 1
        /\ ~Ahead(r, k, s)
        /\ At(r, s, b + i, Stretch(-h, b - h - 1, b - i, b + i))
LaterOn(r, k, s, h, b, i) ==
    LET w == k.rowSkipsWidth2
    IN  /\ b > w /\ Due(k, w - 2 - 2 * i, 2 * i + 2) /\ ~k.previousBigSkip /\ 2 * i < w - 2
        /\ Ahead(r, k, s)
        /\ At(r, s, b - i - 1, Stretch(-h, b - h - 1, b - i - 1, b + i))

Outside(r, k, s, h, b, i) ==
    \/ FirstOn(r, k, s, i) \/ FirstBack(r, k, s, i) \/ LeavesOutside(r, k, s, h, b)
    \/ LaterBack(r, k, s, h, b, i) \/ LaterOn(r, k, s, h, b, i)

(* The rows may be written down in another way. *)
LEMMA SameRows ==
    ASSUME NEW r, NEW s, NEW p, NEW worked, NEW again, At(r, s, p, worked),
           \A x \in Int : x \in worked <=> x \in again
    PROVE  At(r, s, p, again)
<1>1. \A x \in Int : Along(s, x) \in Int
  BY DEF Along
<1> QED
  BY <1>1 DEF At

LEMMA InwardsRows ==
    ASSUME NEW r \in Rows, NEW k, PatternOK(k), NEW straight \in BOOLEAN, k.alternateSkips = 2,
           k.rowSkipsWidth2 > 1, NEW s \in {1, -1}, NEW b \in Nat, NEW i \in Nat,
           FarNext(r, k, s, b, i) \/ NearNext(r, k, s, b, i) \/ LeavesInside(r, k, s, b)
    PROVE  LET t == Visited(r, k, straight)
               k2 == AfterTrigger(k, straight)
           IN  /\ t.row \notin r.done
               /\ \E b2, i2 \in Nat : \/ FarNext(t, k2, s, b2, i2) \/ NearNext(t, k2, s, b2, i2)
                                       \/ LeavesInside(t, k2, s, b2)
<1> DEFINE w == k.rowSkipsWidth2
           t == Visited(r, k, straight)
           k2 == AfterTrigger(k, straight)
<1>1. k \in Pats /\ w \in Nat /\ w > 1
  BY PatternFields DEF PatternOK
<1>2. k2 \in Pats
  BY TriggerFacts DEF PatternOK
<1>3. IF SameSide(k, k2, straight) THEN Ahead(t, k2, s) <=> ~Ahead(r, k, s)
                                   ELSE Ahead(t, k2, s) <=> Ahead(r, k, s)
  BY <1>1, <1>2, VisitedFacts
<1>4. IF k.turnSkips = 1
      THEN /\ Counts(k, k2, w, (3 * w) \div 2)
           /\ k2.previousBigSkip <=> ~k.previousBigSkip
           /\ SameSide(k, k2, straight) <=> w % 2 = 0
      ELSE /\ Counts(k, k2, k.turnSkips - 1, IF k.previousBigSkip THEN w - 1 ELSE k.rowSkipsWidth - 1)
           /\ ~k2.previousBigSkip /\ SameSide(k, k2, straight)
  BY InwardsTurn
<1> HIDE DEF k2
<1>5. ASSUME FarNext(r, k, s, b, i)
      PROVE  t.row \notin r.done /\ (NearNext(t, k2, s, b, i) \/ LeavesInside(t, k2, s, b))
  <2> DEFINE worked == Stretch(0, b + i, b + w - i + 1, b + w)
             more == Stretch(0, b + i, b + w - i, b + w)
             p == b + i
             q == b + w - i
  <2>1. /\ k.turnSkips = w - 2 * i /\ k.rowSkipsWidth = w - 2 * i /\ ~k.previousBigSkip
        /\ 2 * i < w /\ Ahead(r, k, s) /\ At(r, s, p, worked)
    BY <1>5 DEF FarNext, Due
  <2>2. Grows(worked, q, more)
    BY <1>1, <2>1 DEF Stretch, Grows
  <2>3. p \in Int /\ q \in Int /\ Goes(r, k, s, p, q)
    BY <1>1, <2>1 DEF Goes
  <2>4. worked \in SUBSET Int /\ more \in SUBSET Int
    BY <1>1 DEF Stretch
  <2>5. k \in Pats /\ At(r, s, p, worked)
    BY <1>1, <2>1
  <2> HIDE DEF worked, more, p, q
  <2>6. At(t, s, q, more) /\ t.row \notin r.done
    BY <2>2, <2>3, <2>4, <2>5, AtFacts
  <2>7. CASE k.turnSkips = 1
    <3>1. w = 2 * i + 1 /\ w % 2 # 0
      BY <1>1, <2>1, <2>7
    <3> DEFINE all == 0..b + w
    <3>2. (\A x \in Int : x \in more <=> x \in all) /\ q = b + (w + 1) \div 2
      BY <1>1, <3>1 DEF Stretch, more, q
    <3> HIDE DEF all
    <3>3. At(t, s, b + (w + 1) \div 2, all)
      BY <2>6, <3>2, SameRows
    <3>4. Counts(k, k2, w, (3 * w) \div 2) /\ k2.previousBigSkip /\ Ahead(t, k2, s)
      BY <1>3, <1>4, <2>1, <2>7, <3>1
    <3>5. LeavesInside(t, k2, s, b)
      BY <3>3, <3>4 DEF LeavesInside, Counts, Due, all
    <3> QED
      BY <2>6, <3>5
  <2>8. CASE k.turnSkips # 1
    <3>1. k.turnSkips - 1 = w - 2 * i - 1 /\ 2 * i + 1 < w
      BY <1>1, <2>1, <2>8
    <3>2. Counts(k, k2, w - 2 * i - 1, w - 2 * i - 1) /\ ~k2.previousBigSkip /\ ~Ahead(t, k2, s)
      BY <1>3, <1>4, <2>1, <2>8, <3>1
    <3>3. NearNext(t, k2, s, b, i)
      BY <2>6, <3>1, <3>2 DEF NearNext, Counts, Due, more, q
    <3> QED
      BY <2>6, <3>3
  <2> QED
    BY <2>7, <2>8
<1>6. ASSUME NearNext(r, k, s, b, i)
      PROVE  t.row \notin r.done /\ (FarNext(t, k2, s, b, i + 1) \/ LeavesInside(t, k2, s, b))
  <2> DEFINE worked == Stretch(0, b + i, b + w - i, b + w)
             more == Stretch(0, b + (i + 1), b + w - (i + 1) + 1, b + w)
             p == b + w - i
             q == b + (i + 1)
  <2>1. /\ k.turnSkips = w - 2 * i - 1 /\ k.rowSkipsWidth = w - 2 * i - 1 /\ ~k.previousBigSkip
        /\ 2 * i + 1 < w /\ ~Ahead(r, k, s) /\ At(r, s, p, worked)
    BY <1>6 DEF NearNext, Due
  <2>2. Grows(worked, q, more)
    BY <1>1, <2>1 DEF Stretch, Grows
  <2>3. p \in Int /\ q \in Int /\ Goes(r, k, s, p, q)
    BY <1>1, <2>1 DEF Goes
  <2>4. worked \in SUBSET Int /\ more \in SUBSET Int
    BY <1>1 DEF Stretch
  <2>5. k \in Pats /\ At(r, s, p, worked)
    BY <1>1, <2>1
  <2> HIDE DEF worked, more, p, q
  <2>6. At(t, s, q, more) /\ t.row \notin r.done
    BY <2>2, <2>3, <2>4, <2>5, AtFacts
  <2>7. CASE k.turnSkips = 1
    <3>1. w = 2 * i + 2 /\ w % 2 = 0
      BY <1>1, <2>1, <2>7
    <3> DEFINE all == 0..b + w
    <3>2. (\A x \in Int : x \in more <=> x \in all) /\ q = b + (w + 1) \div 2
      BY <1>1, <3>1 DEF Stretch, more, q
    <3> HIDE DEF all
    <3>3. At(t, s, b + (w + 1) \div 2, all)
      BY <2>6, <3>2, SameRows
    <3>4. Counts(k, k2, w, (3 * w) \div 2) /\ k2.previousBigSkip /\ Ahead(t, k2, s)
      BY <1>3, <1>4, <2>1, <2>7, <3>1
    <3>5. LeavesInside(t, k2, s, b)
      BY <3>3, <3>4 DEF LeavesInside, Counts, Due, all
    <3> QED
      BY <2>6, <3>5
  <2>8. CASE k.turnSkips # 1
    <3>1. k.turnSkips - 1 = w - 2 * (i + 1) /\ 2 * (i + 1) < w
      BY <1>1, <2>1, <2>8
    <3>2. Counts(k, k2, w - 2 * (i + 1), w - 2 * (i + 1)) /\ ~k2.previousBigSkip /\ Ahead(t, k2, s)
      BY <1>3, <1>4, <2>1, <2>8, <3>1
    <3>3. FarNext(t, k2, s, b, i + 1)
      BY <2>6, <3>1, <3>2 DEF FarNext, Counts, Due, more, q
    <3> QED
      BY <2>6, <3>3
  <2> QED
    BY <2>7, <2>8
<1>7. ASSUME LeavesInside(r, k, s, b)
      PROVE  t.row \notin r.done /\ NearNext(t, k2, s, b + w, 0)
  <2> DEFINE worked == 0..b + w
             more == Stretch(0, b + w + 0, b + w + w - 0, b + w + w)
             p == b + (w + 1) \div 2
             q == b + w + w - 0
  <2>1. /\ k.turnSkips = w /\ k.rowSkipsWidth = (3 * w) \div 2 /\ k.previousBigSkip
        /\ Ahead(r, k, s) /\ At(r, s, p, worked)
    BY <1>7 DEF LeavesInside, Due
  <2>2. Grows(worked, q, more)
    BY <1>1 DEF Stretch, Grows
  <2>3. p \in Int /\ q \in Int /\ Goes(r, k, s, p, q)
    <3>1. PICK m \in Nat : w = 2 * m \/ w = 2 * m + 1
      <4>1. w \div 2 \in Nat /\ (w = 2 * (w \div 2) \/ w = 2 * (w \div 2) + 1)
        BY <1>1
      <4> QED
        BY <4>1
    <3>2. (w + 1) \div 2 + (3 * w) \div 2 = 2 * w
      <4>1. CASE w = 2 * m
        <5>1. (2 * m + 1) \div 2 = m /\ (3 * (2 * m)) \div 2 = 3 * m
          BY <3>1
        <5> QED
          BY <3>1, <4>1, <5>1
      <4>2. CASE w = 2 * m + 1
        <5>1. (2 * m + 1 + 1) \div 2 = m + 1 /\ (3 * (2 * m + 1)) \div 2 = 3 * m + 1
          BY <3>1
        <5> QED
          BY <3>1, <4>2, <5>1
      <4> QED
        BY <3>1, <4>1, <4>2
    <3>3. (w + 1) \div 2 \in Int /\ (3 * w) \div 2 \in Int
      BY <1>1
    <3> DEFINE u == (w + 1) \div 2
               v == (3 * w) \div 2
    <3>4. w \in Int /\ b \in Int /\ u \in Int /\ v \in Int /\ u + v = 2 * w
      BY <1>1, <3>2, <3>3
    <3> HIDE DEF u, v, w
    <3>5. b + w + w - 0 = b + u + v /\ b + u \in Int /\ b + w + w - 0 \in Int
      BY <3>4
    <3>6. k.rowSkipsWidth = v /\ Ahead(r, k, s)
      BY <2>1 DEF u, v
    <3> QED
      BY <3>5, <3>6 DEF u, Goes
  <2>4. worked \in SUBSET Int /\ more \in SUBSET Int
    BY <1>1 DEF Stretch
  <2>5. k \in Pats /\ At(r, s, p, worked)
    BY <1>1, <2>1
  <2> HIDE DEF worked, more, p, q
  <2>6. At(t, s, q, more) /\ t.row \notin r.done
    BY <2>2, <2>3, <2>4, <2>5, AtFacts
  <2>7. k.turnSkips # 1 /\ k.turnSkips - 1 = w - 2 * 0 - 1 /\ w - 1 = w - 2 * 0 - 1 /\ 2 * 0 + 1 < w
    BY <1>1, <2>1
  <2>8. Counts(k, k2, w - 2 * 0 - 1, w - 2 * 0 - 1) /\ ~k2.previousBigSkip /\ ~Ahead(t, k2, s)
    BY <1>3, <1>4, <2>1, <2>7
  <2> QED
    BY <2>6, <2>7, <2>8 DEF NearNext, Counts, Due, more, q
<1>8. i + 1 \in Nat /\ b + w \in Nat /\ 0 \in Nat
  BY <1>1
<1> HIDE DEF t, w
<1> QED
  BY <1>5, <1>6, <1>7, <1>8 DEF t, k2

OddWidth(k, h) == h >= 1 /\ k.rowSkipsWidth2 = 2 * h + 1

LEMMA OutwardsRows ==
    ASSUME NEW r \in Rows, NEW k, PatternOK(k), NEW straight \in BOOLEAN, k.alternateSkips = 3,
           NEW h \in Nat, OddWidth(k, h),
           NEW s \in {1, -1}, NEW b \in Nat, NEW i \in Nat,
           Outside(r, k, s, h, b, i)
    PROVE  LET t == Visited(r, k, straight)
               k2 == AfterTrigger(k, straight)
           IN  /\ t.row \notin r.done
               /\ \E b2, i2 \in Nat : Outside(t, k2, s, h, b2, i2)
<1> DEFINE w == k.rowSkipsWidth2
           t == Visited(r, k, straight)
           k2 == AfterTrigger(k, straight)
<1>1. k \in Pats /\ w \in Nat /\ w = 2 * h + 1 /\ h >= 1
  BY PatternFields DEF PatternOK, OddWidth
<1>2. k2 \in Pats
  BY TriggerFacts DEF PatternOK
<1>3. IF SameSide(k, k2, straight) THEN Ahead(t, k2, s) <=> ~Ahead(r, k, s)
                                   ELSE Ahead(t, k2, s) <=> Ahead(r, k, s)
  BY <1>1, <1>2, VisitedFacts
<1>4. IF k.turnSkips = 1
      THEN /\ Counts(k, k2, w, h + 1)
           /\ (k2.previousBigSkip <=> ~k.previousBigSkip) /\ ~SameSide(k, k2, straight)
      ELSE /\ Counts(k, k2, k.turnSkips - 1, IF k.previousBigSkip THEN 1 ELSE k.rowSkipsWidth + 1)
           /\ ~k2.previousBigSkip /\ SameSide(k, k2, straight)
  <2>1. w % 2 # 0 /\ w > 1 /\ w - w \div 2 = h + 1
    BY <1>1
  <2> QED
    BY <2>1, OutwardsTurn
<1> HIDE DEF k2
<1>5. ASSUME FirstOn(r, k, s, i)
      PROVE  t.row \notin r.done /\ (FirstBack(t, k2, s, i) \/ LeavesOutside(t, k2, s, h, 1))
  <2> DEFINE worked == -i..i
             more == -i..i + 1
             p == -i
             q == i + 1
  <2>1. /\ k.turnSkips = w - 2 * i /\ k.rowSkipsWidth = 2 * i + 1 /\ ~k.previousBigSkip
        /\ 2 * i < w /\ Ahead(r, k, s) /\ At(r, s, p, worked)
    BY <1>5 DEF FirstOn, Due
  <2>2. Grows(worked, q, more)
    BY <1>1, <2>1 DEF Stretch, Grows
  <2>3. p \in Int /\ q \in Int /\ Goes(r, k, s, p, q)
    BY <1>1, <2>1 DEF Goes
  <2>4. worked \in SUBSET Int /\ more \in SUBSET Int
    BY <1>1 DEF Stretch
  <2>5. k \in Pats /\ At(r, s, p, worked)
    BY <1>1, <2>1
  <2> HIDE DEF worked, more, p, q
  <2>6. At(t, s, q, more) /\ t.row \notin r.done
    BY <2>2, <2>3, <2>4, <2>5, AtFacts
  <2>7. CASE k.turnSkips = 1
    <3>1. i = h
      BY <1>1, <2>1, <2>7
    <3> DEFINE all == -h..1 + h
    <3>2. (\A x \in Int : x \in more <=> x \in all) /\ q = 1 + h
      BY <1>1, <2>1, <3>1 DEF Stretch, more, q
    <3> HIDE DEF all
    <3>3. At(t, s, 1 + h, all)
      BY <2>6, <3>2, SameRows
    <3>4. Counts(k, k2, w, h + 1) /\ k2.previousBigSkip /\ Ahead(t, k2, s)
      BY <1>3, <1>4, <2>1, <2>7
    <3>5. 1 >= 1
      BY <1>1, <2>1
    <3>6. LeavesOutside(t, k2, s, h, 1)
      BY <3>3, <3>4, <3>5 DEF LeavesOutside, Counts, Due, all
    <3> QED
      BY <2>6, <3>6
  <2>8. CASE k.turnSkips # 1
    <3>1. k.turnSkips - 1 = w - 2 * i - 1 /\ k.rowSkipsWidth + 1 = 2 * i + 2 /\ 2 * i + 1 < w
      BY <1>1, <2>1, <2>8
    <3>2. Counts(k, k2, w - 2 * i - 1, 2 * i + 2) /\ ~k2.previousBigSkip /\ ~Ahead(t, k2, s)
      BY <1>3, <1>4, <2>1, <2>8, <3>1
    <3>3. FirstBack(t, k2, s, i)
      BY <2>1, <2>6, <3>1, <3>2 DEF FirstBack, Counts, Due, more, q
    <3> QED
      BY <2>6, <3>3
  <2> QED
    BY <2>7, <2>8
<1>6. ASSUME FirstBack(r, k, s, i)
      PROVE  t.row \notin r.done /\ FirstOn(t, k2, s, i + 1)
  <2> DEFINE worked == -i..i + 1
             more == -(i + 1)..i + 1
             p == i + 1
             q == -(i + 1)
  <2>1. /\ k.turnSkips = w - 2 * i - 1 /\ k.rowSkipsWidth = 2 * i + 2 /\ ~k.previousBigSkip
        /\ 2 * i + 1 < w /\ ~Ahead(r, k, s) /\ At(r, s, p, worked)
    BY <1>6 DEF FirstBack, Due
  <2>2. Grows(worked, q, more)
    BY <1>1, <2>1 DEF Stretch, Grows
  <2>3. p \in Int /\ q \in Int /\ Goes(r, k, s, p, q)
    BY <1>1, <2>1 DEF Goes
  <2>4. worked \in SUBSET Int /\ more \in SUBSET Int
    BY <1>1 DEF Stretch
  <2>5. k \in Pats /\ At(r, s, p, worked)
    BY <1>1, <2>1
  <2> HIDE DEF worked, more, p, q
  <2>6. At(t, s, q, more) /\ t.row \notin r.done
    BY <2>2, <2>3, <2>4, <2>5, AtFacts
  <2>7. /\ k.turnSkips # 1 /\ k.turnSkips - 1 = w - 2 * (i + 1) /\ k.rowSkipsWidth + 1 = 2 * (i + 1) + 1
        /\ 2 * (i + 1) < w
    BY <1>1, <2>1
  <2>8. Counts(k, k2, w - 2 * (i + 1), 2 * (i + 1) + 1) /\ ~k2.previousBigSkip /\ Ahead(t, k2, s)
    BY <1>3, <1>4, <2>1, <2>7
  <2> QED
    BY <2>1, <2>6, <2>7, <2>8 DEF FirstOn, Counts, Due, more, q
<1>7. ASSUME LeavesOutside(r, k, s, h, b)
      PROVE  t.row \notin r.done /\ LaterBack(t, k2, s, h, b + w, 0)
  <2> DEFINE c == b + w
             z == 0
             worked == -h..b + h
             more == Stretch(-h, c - h - 1, c - z, c + z)
             p == b + h
             q == c + z
  <2>1. /\ b >= 1 /\ k.turnSkips = w /\ k.rowSkipsWidth = h + 1 /\ k.previousBigSkip
        /\ Ahead(r, k, s) /\ At(r, s, p, worked)
    BY <1>7 DEF LeavesOutside, Due
  <2>2. Grows(worked, q, more)
    BY <1>1, <2>1 DEF Stretch, Grows
  <2>3. p \in Int /\ q \in Int /\ Goes(r, k, s, p, q)
    BY <1>1, <2>1 DEF Goes
  <2>4. worked \in SUBSET Int /\ more \in SUBSET Int
    BY <1>1 DEF Stretch
  <2>5. k \in Pats /\ At(r, s, p, worked)
    BY <1>1, <2>1
  <2>6. /\ k.turnSkips # 1 /\ k.turnSkips - 1 = w - 1 - 2 * z /\ 1 = 2 * z + 1
        /\ 2 * z < w - 1 /\ c > w
    BY <1>1, <2>1
  <2> HIDE DEF worked, more, p, q, c, z
  <2>7. At(t, s, q, more) /\ t.row \notin r.done
    BY <2>2, <2>3, <2>4, <2>5, AtFacts
  <2>8. Counts(k, k2, w - 1 - 2 * z, 2 * z + 1) /\ ~k2.previousBigSkip /\ ~Ahead(t, k2, s)
    BY <1>3, <1>4, <2>1, <2>6
  <2>9. LaterBack(t, k2, s, h, c, z)
    BY <2>6, <2>7, <2>8 DEF LaterBack, Counts, Due, more, q
  <2> QED
    BY <2>7, <2>9 DEF c, z
<1>8. ASSUME LaterBack(r, k, s, h, b, i)
      PROVE  t.row \notin r.done /\ LaterOn(t, k2, s, h, b, i)
  <2> DEFINE worked == Stretch(-h, b - h - 1, b - i, b + i)
             more == Stretch(-h, b - h - 1, b - i - 1, b + i)
             p == b + i
             q == b - i - 1
  <2>1. /\ b > w /\ k.turnSkips = w - 1 - 2 * i /\ k.rowSkipsWidth = 2 * i + 1
        /\ ~k.previousBigSkip /\ 2 * i < w - 1 /\ ~Ahead(r, k, s) /\ At(r, s, p, worked)
    BY <1>8 DEF LaterBack, Due
  <2>2. Grows(worked, q, more)
    BY <1>1, <2>1 DEF Stretch, Grows
  <2>3. p \in Int /\ q \in Int /\ Goes(r, k, s, p, q)
    BY <1>1, <2>1 DEF Goes
  <2>4. worked \in SUBSET Int /\ more \in SUBSET Int
    BY <1>1 DEF Stretch
  <2>5. k \in Pats /\ At(r, s, p, worked)
    BY <1>1, <2>1
  <2> HIDE DEF worked, more, p, q
  <2>6. At(t, s, q, more) /\ t.row \notin r.done
    BY <2>2, <2>3, <2>4, <2>5, AtFacts
  <2>7. /\ k.turnSkips # 1 /\ k.turnSkips - 1 = w - 2 - 2 * i /\ k.rowSkipsWidth + 1 = 2 * i + 2
        /\ 2 * i < w - 2
    BY <1>1, <2>1
  <2>8. Counts(k, k2, w - 2 - 2 * i, 2 * i + 2) /\ ~k2.previousBigSkip /\ Ahead(t, k2, s)
    BY <1>3, <1>4, <2>1, <2>7
  <2> QED
    BY <2>1, <2>6, <2>7, <2>8 DEF LaterOn, Counts, Due, more, q
<1>9. ASSUME LaterOn(r, k, s, h, b, i)
      PROVE  t.row \notin r.done /\ (LaterBack(t, k2, s, h, b, i + 1) \/ LeavesOutside(t, k2, s, h, b))
  <2> DEFINE worked == Stretch(-h, b - h - 1, b - i - 1, b + i)
             more == Stretch(-h, b - h - 1, b - (i + 1), b + (i + 1))
             p == b - i - 1
             q == b + (i + 1)
  <2>1. /\ b > w /\ k.turnSkips = w - 2 - 2 * i /\ k.rowSkipsWidth = 2 * i + 2
        /\ ~k.previousBigSkip /\ 2 * i < w - 2 /\ Ahead(r, k, s) /\ At(r, s, p, worked)
    BY <1>9 DEF LaterOn, Due
  <2>2. Grows(worked, q, more)
    BY <1>1, <2>1 DEF Stretch, Grows
  <2>3. p \in Int /\ q \in Int /\ Goes(r, k, s, p, q)
    BY <1>1, <2>1 DEF Goes
  <2>4. worked \in SUBSET Int /\ more \in SUBSET Int
    BY <1>1 DEF Stretch
  <2>5. k \in Pats /\ At(r, s, p, worked)
    BY <1>1, <2>1
  <2> HIDE DEF worked, more, p, q
  <2>6. At(t, s, q, more) /\ t.row \notin r.done
    BY <2>2, <2>3, <2>4, <2>5, AtFacts
  <2>7. CASE k.turnSkips = 1
    <3>1. i + 1 = h
      BY <1>1, <2>1, <2>7
    <3> DEFINE all == -h..b + h
    <3>2. (\A x \in Int : x \in more <=> x \in all) /\ q = b + h
      BY <1>1, <2>1, <3>1 DEF Stretch, more, q
    <3> HIDE DEF all
    <3>3. At(t, s, b + h, all)
      BY <2>6, <3>2, SameRows
    <3>4. Counts(k, k2, w, h + 1) /\ k2.previousBigSkip /\ Ahead(t, k2, s)
      BY <1>3, <1>4, <2>1, <2>7
    <3>5. b >= 1
      BY <1>1, <2>1
    <3>6. LeavesOutside(t, k2, s, h, b)
      BY <3>3, <3>4, <3>5 DEF LeavesOutside, Counts, Due, all
    <3> QED
      BY <2>6, <3>6
  <2>8. CASE k.turnSkips # 1
    <3>1. /\ k.turnSkips - 1 = w - 1 - 2 * (i + 1) /\ k.rowSkipsWidth + 1 = 2 * (i + 1) + 1
          /\ 2 * (i + 1) < w - 1
      BY <1>1, <2>1, <2>8
    <3>2. Counts(k, k2, w - 1 - 2 * (i + 1), 2 * (i + 1) + 1) /\ ~k2.previousBigSkip /\ ~Ahead(t, k2, s)
      BY <1>3, <1>4, <2>1, <2>8, <3>1
    <3>3. LaterBack(t, k2, s, h, b, i + 1)
      BY <2>1, <2>6, <3>1, <3>2 DEF LaterBack, Counts, Due, more, q
    <3> QED
      BY <2>6, <3>3
  <2> QED
    BY <2>7, <2>8
<1>10. i + 1 \in Nat /\ b + w \in Nat /\ 0 \in Nat /\ 1 \in Nat
  BY <1>1
<1> HIDE DEF t, w
<1> QED
  BY <1>5, <1>6, <1>7, <1>8, <1>9, <1>10 DEF t, k2, Outside

----------------------------------------------------------------------------
(* The plan, for all patterns. *)

(* Pattern 0 always goes on in one direction.                               *)
Beyond(r, k, s) == Ahead(r, k, s) /\ \A x \in r.done : Along(s, x) <= Along(s, r.row)

(* Pattern 3 with an even width comes back to rows already worked.          *)
Regular(k) == k.alternateSkips = 3 => k.rowSkipsWidth2 % 2 = 1

(* Where the vehicle is, what it has worked and what the pattern will do    *)
(* next: the closed form of the rows, for each pattern.                     *)
Plan(r, k) ==
    /\ k.alternateSkips > 0 => k.rowSkipsWidth2 > 1
    /\ IsFiniteSet(r.done)
    /\ Regular(k) => Cardinality(r.done) = r.turns + 1
    /\ k.alternateSkips = 0 => \E s \in {1, -1} : Beyond(r, k, s)
    /\ k.alternateSkips = 1 => \E s \in {1, -1}, b, i \in Nat :
                                  BigNext(r, k, s, b, i) \/ SmallNext(r, k, s, b, i)
    /\ k.alternateSkips = 2 => \E s \in {1, -1}, b, i \in Nat :
                                  \/ FarNext(r, k, s, b, i) \/ NearNext(r, k, s, b, i)
                                  \/ LeavesInside(r, k, s, b)
    /\ k.alternateSkips = 3 => \A h \in Nat : k.rowSkipsWidth2 = 2 * h + 1 =>
                                  \E s \in {1, -1}, b, i \in Nat : Outside(r, k, s, h, b, i)

----------------------------------------------------------------------------
LEMMA AlwaysRows ==
    ASSUME NEW r \in Rows, NEW k, PatternOK(k), NEW straight \in BOOLEAN, k.alternateSkips = 0,
           NEW s \in {1, -1}, Beyond(r, k, s)
    PROVE  LET t == Visited(r, k, straight)
           IN  t.row \notin r.done /\ Beyond(t, AfterTrigger(k, straight), s)
<1> DEFINE t == Visited(r, k, straight)
           k2 == AfterTrigger(k, straight)
<1>1. k \in Pats /\ k2 \in Pats /\ ~SameSide(k, k2, straight)
  BY AlwaysTurn DEF PatternOK, Counts
<1> HIDE DEF k2
<1>2. /\ t \in Rows /\ t.done = r.done \cup {t.row}
      /\ Along(s, t.row) = IF Ahead(r, k, s) THEN Along(s, r.row) + k.rowSkipsWidth
                                             ELSE Along(s, r.row) - k.rowSkipsWidth
      /\ Ahead(t, k2, s) <=> Ahead(r, k, s)
  BY <1>1, VisitedFacts
<1>3. \A x \in Int : Along(s, x) \in Int
  BY DEF Along
<1>4. r.row \in Int /\ t.row \in Int /\ r.done \subseteq Int /\ k.rowSkipsWidth \in Nat \ {0}
  BY <1>1, <1>2, PatternFields DEF Rows
<1> HIDE DEF t
<1>5. Along(s, t.row) > Along(s, r.row)
  BY <1>2, <1>3, <1>4 DEF Beyond
<1>6. \A x \in r.done : Along(s, x) < Along(s, t.row)
  BY <1>3, <1>4, <1>5 DEF Beyond
<1>7. t.row \notin r.done
  BY <1>3, <1>4, <1>6
<1>8. \A x \in t.done : Along(s, x) <= Along(s, t.row)
  BY <1>2, <1>3, <1>4, <1>6
<1> QED
  BY <1>2, <1>7, <1>8 DEF Beyond, t, k2

(* A turn changes neither the pattern nor the width it was started with.    *)
LEMMA KeptFacts ==
    ASSUME NEW k, PatternOK(k), NEW straight \in BOOLEAN,
           k.alternateSkips > 0 => k.rowSkipsWidth2 > 1
    PROVE  LET k2 == AfterTrigger(k, straight)
           IN  k2.alternateSkips = k.alternateSkips /\ k2.rowSkipsWidth2 = k.rowSkipsWidth2
<1> DEFINE k2 == AfterTrigger(k, straight)
           w == k.rowSkipsWidth2
<1>1. k \in Pats /\ k.alternateSkips \in 0..3 /\ w \in Nat
  BY PatternFields DEF PatternOK
<1>2. CASE k.alternateSkips = 0
  BY <1>2, AlwaysTurn DEF Counts
<1>3. CASE k.alternateSkips = 1
  <2>1. w > 1
    BY <1>3
  <2> QED
    BY <1>3, <2>1, BigSmallTurn DEF Counts
<1>4. CASE k.alternateSkips = 2
  <2>1. w > 1
    BY <1>4
  <2> QED
    BY <1>4, <2>1, InwardsTurn DEF Counts
<1>5. CASE k.alternateSkips = 3
  <2> DEFINE s == IF straight THEN OtherSide(k) ELSE k
  <2>1. s \in Pats /\ s.alternateSkips = k.alternateSkips /\ s.rowSkipsWidth2 = w
    BY <1>1, SameWayFacts
  <2>2. k2 = Outwards(s)
    BY <1>1, <1>5, <2>1 DEF AfterTrigger
  <2> HIDE DEF s, k2
  <2>3. PICK n, width, big, right : k2 = With(s, n, width, big, right)
    BY <2>1, <2>2, OutwardsFacts
  <2> QED
    BY <2>1, <2>3, WithFields DEF k2
<1> QED
  BY <1>1, <1>2, <1>3, <1>4, <1>5

LEMMA CountedFacts ==
    ASSUME NEW r \in Rows, NEW k \in Pats, NEW straight \in BOOLEAN, IsFiniteSet(r.done)
    PROVE  LET t == Visited(r, k, straight)
           IN  /\ IsFiniteSet(t.done)
               /\ Cardinality(r.done) = r.turns + 1 /\ t.row \notin r.done =>
                     Cardinality(t.done) = t.turns + 1
<1>1. /\ Visited(r, k, straight).done = r.done \cup {Visited(r, k, straight).row}
      /\ Visited(r, k, straight).turns = r.turns + 1
  BY DEF Visited
<1> QED
  BY <1>1, FS_AddElement DEF Rows

(* Whatever the width, a turn keeps to the plan.                            *)
LEMMA PlanFacts ==
    ASSUME NEW r \in Rows, NEW k, PatternOK(k), NEW straight \in BOOLEAN, Plan(r, k)
    PROVE  Plan(Visited(r, k, straight), AfterTrigger(k, straight))
<1> DEFINE t == Visited(r, k, straight)
           k2 == AfterTrigger(k, straight)
           w == k.rowSkipsWidth2
<1>1. k \in Pats /\ k.alternateSkips \in 0..3 /\ w \in Nat
  BY PatternFields DEF PatternOK
<1>2. k2.alternateSkips = k.alternateSkips /\ k2.rowSkipsWidth2 = w /\ (k.alternateSkips > 0 => w > 1)
  BY KeptFacts DEF Plan
<1>3. /\ IsFiniteSet(t.done)
      /\ Regular(k) /\ t.row \notin r.done => Cardinality(t.done) = t.turns + 1
  BY <1>1, CountedFacts DEF Plan
<1> SUFFICES Plan(t, k2)
  OBVIOUS
<1>4. CASE k.alternateSkips = 0
  <2>1. PICK s \in {1, -1} : Beyond(r, k, s)
    BY <1>4 DEF Plan
  <2>2. t.row \notin r.done /\ Beyond(t, k2, s)
    BY <1>4, <2>1, AlwaysRows
  <2> HIDE DEF t, k2
  <2> QED
    BY <1>2, <1>3, <1>4, <2>2 DEF Plan, Regular
<1>5. CASE k.alternateSkips = 1
  <2>1. PICK s \in {1, -1}, b \in Nat, i \in Nat : BigNext(r, k, s, b, i) \/ SmallNext(r, k, s, b, i)
    BY <1>5 DEF Plan
  <2>2. w > 1
    BY <1>2, <1>5
  <2>3. t.row \notin r.done /\ \E b2, i2 \in Nat : BigNext(t, k2, s, b2, i2) \/ SmallNext(t, k2, s, b2, i2)
    BY <1>5, <2>1, <2>2, BigSmallRows
  <2> HIDE DEF t, k2
  <2> QED
    BY <1>2, <1>3, <1>5, <2>3 DEF Plan, Regular
<1>6. CASE k.alternateSkips = 2
  <2>1. PICK s \in {1, -1}, b \in Nat, i \in Nat :
           FarNext(r, k, s, b, i) \/ NearNext(r, k, s, b, i) \/ LeavesInside(r, k, s, b)
    BY <1>6 DEF Plan
  <2>2. w > 1
    BY <1>2, <1>6
  <2>3. t.row \notin r.done /\ \E b2, i2 \in Nat : \/ FarNext(t, k2, s, b2, i2) \/ NearNext(t, k2, s, b2, i2)
                                                    \/ LeavesInside(t, k2, s, b2)
    BY <1>6, <2>1, <2>2, InwardsRows
  <2> HIDE DEF t, k2
  <2> QED
    BY <1>2, <1>3, <1>6, <2>3 DEF Plan, Regular
<1>7. CASE k.alternateSkips = 3
  <2>1. ASSUME NEW h \in Nat, w = 2 * h + 1
        PROVE  t.row \notin r.done /\ \E s \in {1, -1}, b, i \in Nat : Outside(t, k2, s, h, b, i)
    <3>1. PICK s \in {1, -1}, b \in Nat, i \in Nat : Outside(r, k, s, h, b, i)
      BY <1>7, <2>1 DEF Plan
    <3>2. OddWidth(k, h)
      BY <1>1, <1>2, <1>7, <2>1 DEF OddWidth
    <3>3. t.row \notin r.done /\ \E b2, i2 \in Nat : Outside(t, k2, s, h, b2, i2)
      BY <1>7, <3>1, <3>2, OutwardsRows
    <3> QED
      BY <3>3
  <2>2. Regular(k) => t.row \notin r.done
    <3>1. ASSUME Regular(k) PROVE w = 2 * (w \div 2) + 1 /\ w \div 2 \in Nat
      BY <1>1, <1>7, <3>1 DEF Regular
    <3> HIDE DEF t, w
    <3> QED
      BY <2>1, <3>1
  <2> HIDE DEF t, k2
  <2>3. \A h \in Nat : k2.rowSkipsWidth2 = 2 * h + 1 =>
           \E s \in {1, -1}, b, i \in Nat : Outside(t, k2, s, h, b, i)
    BY <1>2, <2>1
  <2> QED
    BY <1>2, <1>3, <1>7, <2>2, <2>3 DEF Plan, Regular
<1> QED
  BY <1>1, <1>4, <1>5, <1>6, <1>7

----------------------------------------------------------------------------
(* The invariant. *)

RowsInv == rows \in Rows /\ (rows # Disturbed => Plan(rows, skips))

Flags ==
    /\ alive \in BOOLEAN /\ isJobStarted \in BOOLEAN /\ isYouTurnBtnOn \in BOOLEAN
    /\ isBtnAutoSteerOn \in BOOLEAN /\ isContourBtnOn \in BOOLEAN /\ isAutoTrack \in BOOLEAN
    /\ isInFreeDriveMode \in BOOLEAN
Counters == resets \in Nat /\ inputs \in 0..MaxInputs

(* Without a job no track is selected, so that none is when a field is opened. *)
JobInv == ~isJobStarted => idx = 0

IInv == TracksTypeOK /\ Flags /\ Counters /\ Fine(yt) /\ PatternOK(skips) /\ JobInv /\ RowsInv

----------------------------------------------------------------------------
(* The turn, from step to step. *)

LEMMA FineNext == ASSUME Fine(yt'), UNCHANGED skips PROVE Fine(yt)'
  BY DEF Fine, Drawable, Aim

LEMMA FreeNext == ASSUME yt' \in Turns, yt'.triggered \/ yt'.path = NoPath PROVE Fine(yt)'
  BY DEF Fine, Drawable

LEMMA ResetFacts ==
    ASSUME NEW y \in Turns
    PROVE  /\ ResetCreatedYouTurn(y) \in Turns /\ ResetCreatedYouTurn(y).path = NoPath
           /\ ResetYouTurn(y) \in Turns /\ ResetYouTurn(y).path = NoPath
           /\ CompleteYouTurn(y) \in Turns /\ CompleteYouTurn(y).path = NoPath
<1>1. NoPath \in [by : {"nobody", "auto", "manual"}, used : SUBSET Aims] /\ 0 \in Phases
  BY DEF NoPath, Phases
<1>2. 0 \in 0..UTurnWait
  BY StyleAssumption
<1>3. ASSUME NEW z \in Turns
      PROVE  ResetCreatedYouTurn(z) \in Turns /\ ResetCreatedYouTurn(z).path = NoPath
  BY <1>1, <1>2 DEF ResetCreatedYouTurn, Turns
<1>4. [y EXCEPT !.triggered = FALSE] \in Turns
  BY DEF Turns
<1> QED
  BY <1>3, <1>4 DEF ResetYouTurn, CompleteYouTurn

LEMMA NoPathFacts == ASSUME NEW y \in Turns, y.path = NoPath PROVE Fine(y)
  BY DEF Fine, Drawable

----------------------------------------------------------------------------
(* The first plan. *)

LEMMA StartFacts ==
    ASSUME NEW k0 \in Pats, k0.alternateSkips > 0 => k0.rowSkipsWidth > 1
    PROVE  Plan([row |-> 0, way |-> 1, done |-> {0}, turns |-> 0], Set_Alternate_skips(k0))
<1> DEFINE r == [row |-> 0, way |-> 1, done |-> {0}, turns |-> 0]
           k == Set_Alternate_skips(k0)
           w == k0.rowSkipsWidth
           s == IF k.isYouTurnRight THEN 1 ELSE -1
<1>0. r.row = 0 /\ r.way = 1 /\ r.done = {0} /\ r.turns = 0
  OBVIOUS
<1>1. /\ k \in Pats /\ k.alternateSkips = k0.alternateSkips /\ k.rowSkipsWidth2 = w
      /\ k.turnSkips = IF k0.alternateSkips \in {2, 3} THEN w ELSE 2 * w - 1
      /\ k.rowSkipsWidth = IF k0.alternateSkips = 3 THEN 1 ELSE w
      /\ ~k.previousBigSkip
  BY RestartFacts DEF PatternOK
<1>2. w \in Nat \ {0} /\ k.isYouTurnRight \in BOOLEAN
  BY <1>1, PatternFields
<1> HIDE DEF k, r
<1>3. s \in {1, -1} /\ Ahead(r, k, s)
  BY <1>0, <1>2 DEF Ahead
<1> HIDE DEF s
<1>4. IsFiniteSet(r.done) /\ Cardinality(r.done) = r.turns + 1
  <2>1. IsFiniteSet({0}) /\ Cardinality({0}) = 1
    BY FS_Singleton, Zenon
  <2>2. 0 + 1 = 1
    OBVIOUS
  <2> QED
    BY <1>0, <2>1, <2>2
<1>5. ASSUME NEW worked, \A x \in Int : x \in worked <=> x = 0
      PROVE  At(r, s, 0, worked)
  <2>1. \A x \in Int : Along(s, x) \in Int /\ (Along(s, x) = 0 <=> x = 0)
    BY <1>3 DEF Along
  <2> QED
    BY <1>0, <1>5, <2>1 DEF At
<1>6. Beyond(r, k, s)
  BY <1>0, <1>3 DEF Beyond, Along
<1>7. ASSUME k0.alternateSkips = 1 PROVE BigNext(r, k, s, 0, 0)
  <2>1. At(r, s, 0 + 0, Stretch(0, 0 + 0, 0 + w, 0 + w + 0 - 1))
    <3>1. \A x \in Int : x \in Stretch(0, 0 + 0, 0 + w, 0 + w + 0 - 1) <=> x = 0
      BY <1>2 DEF Stretch
    <3> QED
      BY <1>5, <3>1
  <2>2. Due(k, 2 * w - 1 - 2 * 0, w) /\ 0 <= w - 1
    BY <1>1, <1>2, <1>7 DEF Due
  <2> QED
    BY <1>1, <1>3, <2>1, <2>2 DEF BigNext
<1>8. ASSUME k0.alternateSkips = 2 PROVE FarNext(r, k, s, 0, 0)
  <2>1. At(r, s, 0 + 0, Stretch(0, 0 + 0, 0 + w - 0 + 1, 0 + w))
    <3>1. \A x \in Int : x \in Stretch(0, 0 + 0, 0 + w - 0 + 1, 0 + w) <=> x = 0
      BY <1>2 DEF Stretch
    <3> QED
      BY <1>5, <3>1
  <2>2. Due(k, w - 2 * 0, w - 2 * 0) /\ 2 * 0 < w
    BY <1>1, <1>2, <1>8 DEF Due
  <2> QED
    BY <1>1, <1>3, <2>1, <2>2 DEF FarNext
<1>9. ASSUME k0.alternateSkips = 3 PROVE FirstOn(r, k, s, 0)
  <2>1. At(r, s, -0, -0..0)
    BY <1>5
  <2>2. Due(k, w - 2 * 0, 2 * 0 + 1) /\ 2 * 0 < w
    BY <1>1, <1>2, <1>9 DEF Due
  <2> QED
    BY <1>1, <1>3, <2>1, <2>2 DEF FirstOn
<1>10. \A h \in Nat : k0.alternateSkips = 3 => Outside(r, k, s, h, 0, 0)
  BY <1>9 DEF Outside
<1>11. 0 \in Nat
  OBVIOUS
<1> HIDE DEF w
<1> QED
  BY <1>1, <1>3, <1>4, <1>6, <1>7, <1>8, <1>10, <1>11 DEF Plan, r, k, w

----------------------------------------------------------------------------

LEMMA InvType == IInv => TypeOK
<1> SUFFICES ASSUME IInv PROVE TypeOK
  OBVIOUS
<1>1. yt \in Turns
  BY FineFacts DEF IInv
<1>2. /\ yt.phase \in {0, 1, 2, 10, 11} /\ yt.counter \in 0..UTurnWait /\ yt.style \in {0, 1}
      /\ yt.crossing \in {"none", "ahead", "before"}
      /\ yt.triggered \in BOOLEAN /\ yt.straight \in BOOLEAN
  BY <1>1 DEF Turns, Phases
<1>3. \A b \in {yt.triggered, yt.straight, alive, isJobStarted,
                isYouTurnBtnOn, isBtnAutoSteerOn, isContourBtnOn, isAutoTrack,
                isInFreeDriveMode} : b \in BOOLEAN
  BY <1>2 DEF IInv, Flags
<1>4. skips \in Patterns(0..3, Nat \ {0}) /\ skips.turnSkips > 0
  BY DEF IInv, PatternOK, Pats
<1>5. TracksTypeOK /\ resets \in Nat /\ inputs \in 0..MaxInputs
  BY DEF IInv, Counters
<1> QED
  BY <1>2, <1>3, <1>4, <1>5 DEF TypeOK

LEMMA DisturbedFacts == Disturbed \in Rows /\ Disturbed.done = {}
  BY DEF Disturbed, Rows

LEMMA InitInv == Init => IInv
<1> SUFFICES ASSUME Init PROVE IInv
  OBVIOUS
<1>1. TracksTypeOK
  BY TracksInitFacts DEF Init
<1>2. Flags
  BY DEF Init, Flags
<1>3. Counters /\ JobInv
  BY BoundAssumption DEF Init, Counters, JobInv
<1>4. Fine(yt)
  <2>1. PICK style \in Styles :
           yt = [phase |-> 0, path |-> NoPath, triggered |-> FALSE, straight |-> FALSE,
                 counter |-> 0, style |-> style, crossing |-> "none"]
    BY DEF Init
  <2>2. style \in {0, 1} /\ 0 \in 0..UTurnWait /\ 0 \in Phases
    BY StyleAssumption DEF Phases
  <2>3. NoPath \in [by : {"nobody", "auto", "manual"}, used : SUBSET Aims]
    BY DEF NoPath
  <2>4. yt \in Turns
    BY <2>1, <2>2, <2>3 DEF Turns
  <2>5. yt.phase = 0
    BY <2>1
  <2> QED
    BY <2>4, <2>5 DEF Fine
<1>5. PICK k0 \in Pats : /\ skips = Set_Alternate_skips(k0)
                         /\ k0.alternateSkips > 0 => k0.rowSkipsWidth > 1
  <2>1. PICK m \in Modes, w \in Widths, right \in BOOLEAN :
           /\ m > 0 => w > 1
           /\ skips = Set_Alternate_skips(
                 [alternateSkips |-> m, rowSkipsWidth |-> w, rowSkipsWidth2 |-> w, turnSkips |-> 0,
                  previousBigSkip |-> FALSE, isYouTurnRight |-> right])
    BY DEF Init
  <2> DEFINE k0 == [alternateSkips |-> m, rowSkipsWidth |-> w, rowSkipsWidth2 |-> w, turnSkips |-> 0,
                    previousBigSkip |-> FALSE, isYouTurnRight |-> right]
  <2>2. m \in 0..3 /\ w \in Nat \ {0}
    BY PatternAssumption
  <2>3. k0 \in Pats
    BY <2>2 DEF Pats, Patterns
  <2>4. k0.alternateSkips = m /\ k0.rowSkipsWidth = w
    OBVIOUS
  <2> HIDE DEF k0
  <2>5. skips = Set_Alternate_skips(k0)
    BY <2>1 DEF k0
  <2> QED
    BY <2>1, <2>3, <2>4, <2>5
<1>6. PatternOK(skips)
  BY <1>5, RestartFacts
<1>7. rows = [row |-> 0, way |-> 1, done |-> {0}, turns |-> 0]
  BY DEF Init
<1>8. RowsInv
  <2>1. rows \in Rows
    BY <1>7 DEF Rows
  <2>2. Plan(rows, skips)
    BY <1>5, <1>7, StartFacts
  <2> QED
    BY <2>1, <2>2 DEF RowsInv
<1> QED
  BY <1>1, <1>2, <1>3, <1>4, <1>6, <1>8 DEF IInv

----------------------------------------------------------------------------
(* A frame. *)

LEMMA GuidedFacts ==
    ASSUME NEW g \in Guided
    PROVE  g.yt \in {yt, CompleteYouTurn(yt)} /\ (g.idx = idx \/ g.idx \in ClosestTracks)
<1>1. CASE isContourBtnOn
  BY <1>1 DEF Guided
<1>2. CASE ~isContourBtnOn
  <2>1. PICK i \in SwitchToClosestRefTrack : g \in BuildCurrentLine(i)
    BY <1>2 DEF Guided
  <2>2. i = idx \/ i \in ClosestTracks
    BY <2>1 DEF SwitchToClosestRefTrack
  <2>3. \A f \in DistanceFromYouTurnLine : f.yt \in {yt, CompleteYouTurn(yt)}
    <3>1. CASE ~yt.triggered
      BY <3>1 DEF DistanceFromYouTurnLine
    <3>2. CASE yt.triggered /\ yt.path = NoPath
      BY <3>2 DEF DistanceFromYouTurnLine
    <3>3. CASE yt.triggered /\ yt.path # NoPath
      BY <3>3 DEF DistanceFromYouTurnLine
    <3> QED
      BY <3>1, <3>2, <3>3
  <2>4. g.idx = i /\ g.yt \in {yt, CompleteYouTurn(yt)}
    BY <2>1, <2>3 DEF BuildCurrentLine
  <2> QED
    BY <2>2, <2>4
<1> QED
  BY <1>1, <1>2

(* Only a turn that waits is triggered.                                     *)
LEMMA YouTurnFacts ==
    ASSUME PatternOK(skips), NEW g, Fine(g.yt), NEW t \in YouTurn(g)
    PROVE  /\ t.what = "trigger" => /\ g.yt.phase = 10 /\ g.yt.path # NoPath /\ ~g.yt.triggered
                                    /\ t.yt = [g.yt EXCEPT !.triggered = TRUE]
           /\ t.what # "trigger" => Fine(t.yt)
<1> DEFINE y == g.yt
           Outcome(z, what) == [yt |-> z, what |-> what]
           stays == Outcome(y, "nothing")
           outside == IF y.triggered THEN {stays} ELSE {Outcome(ResetCreatedYouTurn(y), "left")}
           offTrack == IF g.by = "none" THEN {} ELSE {ResetCreatedYouTurn(y)}
           building == {Outcome(b, "nothing") : b \in offTrack \cup BuildDubinsYouTurn(y, g.idx)} \cup
                       (IF RunsPastTheEnd(y, g.idx) THEN {Outcome(y, "crash")} ELSE {})
           near == IF y.path # NoPath /\ ~y.triggered /\ MayTurn
                   THEN {Outcome([y EXCEPT !.triggered = TRUE], "trigger")} ELSE {}
<1>1. t \in {stays} \/ t \in outside \/ (y.phase # 10 /\ t \in building)
      \/ (y.phase = 10 /\ t \in near)
  BY DEF YouTurn
<1>2. y \in Turns /\ Fine(y)
  BY FineFacts
<1>3. Fine(ResetCreatedYouTurn(y))
  BY <1>2, ResetFacts, NoPathFacts
<1>4. CASE t \in {stays}
  BY <1>2, <1>4
<1>5. CASE t \in outside
  BY <1>2, <1>3, <1>5
<1>6. CASE t \in building
  <2>1. \A b \in BuildDubinsYouTurn(y, g.idx) : Fine(b)
    BY <1>2, BuildFacts
  <2>2. \A b \in offTrack : Fine(b)
    BY <1>3
  <2> HIDE DEF y
  <2> QED
    BY <1>2, <1>6, <2>1, <2>2
<1>7. CASE y.phase = 10 /\ t \in near
  <2>1. y.path # NoPath /\ ~y.triggered
    BY <1>7
  <2>2. t = Outcome([y EXCEPT !.triggered = TRUE], "trigger")
    BY <1>7
  <2>3. t.what = "trigger" /\ t.yt = [y EXCEPT !.triggered = TRUE]
    BY <2>2
  <2> QED
    BY <1>7, <2>1, <2>3
<1> QED
  BY <1>1, <1>4, <1>5, <1>6, <1>7

LEMMA TriggeredFacts ==
    ASSUME IInv, rows # Disturbed, NEW y, Fine(y), y.phase = 10, y.path # NoPath, ~y.triggered
    PROVE  /\ Visit(y) = Visited(rows, skips, y.straight)
           /\ Visit(y) \in Rows /\ Plan(Visit(y), AfterTrigger(skips, y.straight))
<1>1. y \in Turns /\ y.path = Path("auto", {Aim})
  BY FineFacts DEF Drawable
<1>2. y.straight \in BOOLEAN /\ y.path.used = {Aim}
  BY <1>1 DEF Turns, Path
<1>3. (CHOOSE a \in y.path.used : TRUE) = Aim
  BY <1>2
<1>4. Aim[1] = skips.rowSkipsWidth /\ Aim[2] = skips.isYouTurnRight
  BY DEF Aim
<1>5. Visit(y) = Visited(rows, skips, y.straight)
  BY <1>3, <1>4 DEF Visit, Visited
<1>6. rows \in Rows /\ Plan(rows, skips) /\ PatternOK(skips) /\ skips \in Pats
  BY DEF IInv, RowsInv, PatternOK
<1>7. Plan(Visited(rows, skips, y.straight), AfterTrigger(skips, y.straight))
  BY <1>2, <1>6, PlanFacts
<1>8. Visited(rows, skips, y.straight) \in Rows
  BY <1>2, <1>6, VisitedFacts
<1> QED
  BY <1>5, <1>7, <1>8

----------------------------------------------------------------------------

LEMMA FrameInv == ASSUME IInv, Frame PROVE IInv'
<1>0. PICK g \in Guided : \E t \in YouTurn(g) :
         /\ Selects(g.idx) /\ yt' = t.yt
         /\ skips' = IF t.what = "trigger" THEN AfterTrigger(skips, g.yt.straight) ELSE skips
         /\ rows' = IF ~g.ended \/ t.what = "left" THEN Disturbed
                    ELSE IF t.what = "trigger" THEN Visit(g.yt) ELSE rows
         /\ alive' = (t.what # "crash")
  BY DEF Frame
<1>1. PICK t \in YouTurn(g) :
         /\ Selects(g.idx) /\ yt' = t.yt
         /\ skips' = IF t.what = "trigger" THEN AfterTrigger(skips, g.yt.straight) ELSE skips
         /\ rows' = IF ~g.ended \/ t.what = "left" THEN Disturbed
                    ELSE IF t.what = "trigger" THEN Visit(g.yt) ELSE rows
         /\ alive' = (t.what # "crash")
  BY <1>0
<1>2. UNCHANGED <<buttonVars, isJobStarted, resets, inputs>>
  BY DEF Frame
<1>3. yt \in Turns /\ Fine(yt) /\ PatternOK(skips)
  BY FineFacts DEF IInv
<1>4. g.yt \in {yt, CompleteYouTurn(yt)} /\ (g.idx = idx \/ g.idx \in ClosestTracks)
  BY GuidedFacts
<1>5. Fine(g.yt) /\ g.yt \in Turns
  BY <1>3, <1>4, ResetFacts, NoPathFacts
<1>6. TracksTypeOK' /\ JobInv'
  <2>1. CASE g.idx = idx
    <3>1. UNCHANGED trackVars
      BY <1>1, <2>1 DEF Selects, trackVars
    <3> QED
      BY <1>2, <3>1, TracksStill DEF IInv, JobInv, trackVars
  <2>2. CASE g.idx \in ClosestTracks
    <3>1. idx # 0 /\ g.idx \in Selectable
      BY <2>2 DEF ClosestTracks, Selectable
    <3> QED
      BY <1>1, <1>2, <3>1, SelectsFacts DEF IInv, JobInv
  <2> QED
    BY <1>4, <2>1, <2>2
<1>7. Flags' /\ Counters'
  BY <1>1, <1>2 DEF IInv, Flags, Counters, buttonVars
<1>8. /\ t.what = "trigger" => /\ g.yt.phase = 10 /\ g.yt.path # NoPath /\ ~g.yt.triggered
                               /\ t.yt = [g.yt EXCEPT !.triggered = TRUE]
      /\ t.what # "trigger" => Fine(t.yt)
  BY <1>3, <1>5, YouTurnFacts
<1>9. CASE t.what = "trigger"
  <2>1. PatternOK(skips')
    BY <1>1, <1>3, <1>9, TriggerFacts
  <2>2. yt' \in Turns /\ yt'.triggered
    BY <1>1, <1>5, <1>8, <1>9 DEF Turns
  <2>3. Fine(yt)'
    BY <2>2, FreeNext
  <2>4. RowsInv'
    <3>1. rows' = Disturbed \/ (rows = Disturbed /\ rows' = rows) \/ (rows # Disturbed /\ rows' = Visit(g.yt))
      BY <1>1, <1>9 DEF Visit
    <3>2. ASSUME rows # Disturbed, rows' = Visit(g.yt)
          PROVE  rows' \in Rows /\ Plan(rows', skips')
      BY <1>1, <1>5, <1>8, <1>9, <3>2, TriggeredFacts
    <3> QED
      BY <3>1, <3>2, DisturbedFacts DEF RowsInv
  <2> QED
    BY <1>6, <1>7, <2>1, <2>3, <2>4 DEF IInv
<1>10. CASE t.what # "trigger"
  <2>1. UNCHANGED skips /\ Fine(yt')
    BY <1>1, <1>8, <1>10
  <2>2. Fine(yt)' /\ PatternOK(skips)'
    BY <1>3, <2>1, FineNext
  <2>3. RowsInv'
    <3>1. rows' = Disturbed \/ rows' = rows
      BY <1>1, <1>10
    <3> QED
      BY <2>1, <3>1, DisturbedFacts DEF IInv, RowsInv
  <2> QED
    BY <1>6, <1>7, <2>2, <2>3 DEF IInv
<1> QED
  BY <1>9, <1>10

----------------------------------------------------------------------------
(* Clicks. *)

LEMMA ClickFacts ==
    ASSUME IInv, Click
    PROVE  inputs' \in 0..MaxInputs /\ RowsInv' /\ alive' \in BOOLEAN
<1>1. inputs' \in 0..MaxInputs
  BY BoundAssumption DEF Click, IInv, Counters
<1>2. RowsInv'
  BY DisturbedFacts DEF Click, RowsInv
<1> QED
  BY <1>1, <1>2 DEF Click, IInv, Flags

(* A click on a list of tracks leaves the turn alone. *)
LEMMA ListInv ==
    ASSUME IInv, Click, TracksTypeOK', JobInv', resets' \in Nat,
           UNCHANGED <<yt, skips, buttonVars, isJobStarted>>
    PROVE  IInv'
<1>1. Fine(yt') /\ UNCHANGED skips
  BY DEF IInv
<1>2. Fine(yt)' /\ PatternOK(skips)'
  BY <1>1, FineNext DEF IInv
<1>3. Flags' /\ Counters' /\ RowsInv'
  BY ClickFacts DEF IInv, Flags, Counters, buttonVars
<1> QED
  BY <1>2, <1>3 DEF IInv

(* A click that leaves the tracks alone. *)
LEMMA ButtonInv ==
    ASSUME IInv, Click, UNCHANGED <<trackVars, isJobStarted, resets>>, Flags',
           Fine(yt)', PatternOK(skips')
    PROVE  IInv'
<1>1. TracksTypeOK' /\ JobInv'
  BY TracksStill DEF IInv, JobInv, trackVars
<1>2. Counters' /\ RowsInv'
  BY ClickFacts DEF IInv, Counters
<1> QED
  BY <1>1, <1>2 DEF IInv

LEMMA NextInv == ASSUME IInv, [Next]_vars PROVE IInv'
<1> USE DEF buttonVars
<1>1. yt \in Turns /\ Fine(yt) /\ PatternOK(skips) /\ skips \in Pats
  BY FineFacts DEF IInv, PatternOK
<1>2. Flags /\ TracksTypeOK /\ JobInv
  BY DEF IInv
<1>3. CASE Frame
  BY <1>3, FrameInv
<1>4. CASE tmrWatchdog_timeout
  <2>1. (IF yt.counter < UTurnWait THEN yt.counter + 1 ELSE yt.counter) \in 0..UTurnWait
    <3>1. yt.counter \in 0..UTurnWait
      BY <1>1 DEF Turns
    <3> QED
      BY <3>1, StyleAssumption
  <2>2. Fine(yt') /\ UNCHANGED skips
    BY <1>1, <1>4, <2>1, OtherFacts DEF tmrWatchdog_timeout
  <2>3. Fine(yt)' /\ PatternOK(skips)'
    BY <1>1, <2>2, FineNext
  <2>4. TracksTypeOK'
    BY <1>2, <1>4, TracksStill DEF tmrWatchdog_timeout
  <2>5. Flags' /\ Counters' /\ JobInv' /\ RowsInv'
    BY <1>4 DEF tmrWatchdog_timeout, onStopAutoSteer, IInv, Flags, Counters, JobInv, RowsInv, trackVars
  <2> QED
    BY <2>3, <2>4, <2>5 DEF IInv
<1>5. CASE DeliverReset
  <2>1. yt' \in Turns /\ yt'.path = NoPath
    BY <1>1, <1>5, ResetFacts DEF DeliverReset
  <2>2. Fine(yt)' /\ PatternOK(skips)'
    BY <1>1, <1>5, <2>1, FreeNext DEF DeliverReset
  <2>3. TracksTypeOK'
    BY <1>2, <1>5, TracksStill DEF DeliverReset
  <2>4. Flags' /\ Counters' /\ JobInv' /\ RowsInv'
    BY <1>5 DEF DeliverReset, IInv, Flags, Counters, JobInv, RowsInv, trackVars
  <2> QED
    BY <2>2, <2>3, <2>4 DEF IInv
<1>6. CASE select
  <2>1. PICK i \in Selectable : Selects(i)
    BY <1>6 DEF select
  <2>2. TracksTypeOK'
    BY <1>2, <2>1, SelectsFacts
  <2> QED
    BY <1>6, <2>2, ListInv DEF select, IInv, Counters, JobInv
<1>7. CASE finish_new
  <2>1. PICK t \in AllTracks : Adds(t)
    BY <1>7 DEF finish_new
  <2>2. TracksTypeOK'
    BY <1>2, <2>1, AddsFacts
  <2> QED
    BY <1>7, <2>2, ListInv DEF finish_new, IInv, Counters, JobInv
<1>8. ASSUME Click, NEW way, Cycles(way),
             UNCHANGED <<yt, skips, buttonVars, isJobStarted, resets>>
      PROVE  IInv'
  <2>1. PICK i \in Selectable : idx > 0 /\ Selects(i)
    BY <1>8 DEF Cycles, Selectable
  <2>2. TracksTypeOK' /\ isJobStarted
    BY <1>2, <2>1, SelectsFacts DEF JobInv
  <2> QED
    BY <1>8, <2>2, ListInv DEF IInv, Counters, JobInv
<1>9. CASE next
  BY <1>8, <1>9 DEF next
<1>10. CASE prev
  BY <1>8, <1>10 DEF prev
<1>11. CASE delete_track
  <2>1. PICK i \in DOMAIN gArr : Removes(i)
    BY <1>11 DEF delete_track
  <2>2. TracksTypeOK'
    BY <1>2, <2>1, RemovesFacts
  <2> QED
    BY <1>11, <2>2, ListInv DEF delete_track, IInv, Counters, JobInv
<1>12. CASE setVisible
  <2>1. PICK t \in ToSet(gArr) : Hides(t)
    BY <1>12 DEF setVisible
  <2>2. TracksTypeOK'
    BY <1>2, <2>1, HidesFacts
  <2> QED
    BY <1>12, <2>2, ListInv DEF setVisible, IInv, Counters, JobInv
<1>13. CASE AutoYouTurn
  <2>1. PatternOK(skips')
    BY <1>1, <1>13, SettingsFacts DEF AutoYouTurn
  <2>2. yt' \in Turns /\ yt'.path = NoPath
    BY <1>1, <1>13, ResetFacts DEF AutoYouTurn
  <2>3. Fine(yt)'
    BY <2>2, FreeNext
  <2>4. Click /\ UNCHANGED <<trackVars, isJobStarted, resets>>
    BY <1>13 DEF AutoYouTurn
  <2>5. Flags'
    BY <1>2, <1>13, ClickFacts DEF AutoYouTurn, Flags
  <2> QED
    BY <2>1, <2>3, <2>4, <2>5, ButtonInv
<1>14. CASE SwapAutoYouTurnDirection
  <2>1. PatternOK(skips')
    BY <1>1, <1>14, TurnedRoundFacts DEF SwapAutoYouTurnDirection
  <2>2. yt' \in Turns /\ yt'.path = NoPath
    BY <1>1, <1>14, ResetFacts DEF SwapAutoYouTurnDirection
  <2>3. Fine(yt)'
    BY <2>2, FreeNext
  <2>4. Flags'
    BY <1>2, <1>14, ClickFacts DEF SwapAutoYouTurnDirection, Flags
  <2> QED
    BY <1>14, <2>1, <2>3, <2>4, ButtonInv DEF SwapAutoYouTurnDirection
<1>15. CASE CancelYouTurn
  <2>1. yt' \in Turns /\ yt'.path = NoPath
    BY <1>1, <1>15, ResetFacts DEF CancelYouTurn
  <2>2. Fine(yt)' /\ PatternOK(skips')
    BY <1>1, <1>15, <2>1, FreeNext DEF CancelYouTurn
  <2>3. Flags'
    BY <1>2, <1>15, ClickFacts DEF CancelYouTurn, Flags
  <2> QED
    BY <1>15, <2>2, <2>3, ButtonInv DEF CancelYouTurn
<1>16. CASE YouSkip
  <2> DEFINE m == (skips.alternateSkips + 1) % 4
             k == [skips EXCEPT !.alternateSkips = m]
             atLeastTwo == [k EXCEPT !.rowSkipsWidth = IF @ < 2 THEN 2 ELSE @]
  <2>1. /\ Click /\ UNCHANGED <<trackVars, buttonVars, isJobStarted, resets>>
        /\ IF m = 0 THEN skips' = k /\ UNCHANGED yt
           ELSE skips' = Set_Alternate_skips(atLeastTwo) /\ yt' = ResetCreatedYouTurn(yt)
    BY <1>16 DEF YouSkip
  <2>2. m \in 0..3
    BY <1>1, PatternFields
  <2> HIDE DEF m
  <2>3. /\ k \in Pats /\ k.alternateSkips = m /\ k.turnSkips = skips.turnSkips
        /\ k.rowSkipsWidth = skips.rowSkipsWidth /\ k.isYouTurnRight = skips.isYouTurnRight
    BY <1>1, <2>2 DEF Pats, Patterns
  <2> HIDE DEF k
  <2>4. Flags'
    BY <1>2, <2>1, ClickFacts DEF Flags
  <2>5. CASE m = 0
    <3>1. PatternOK(skips')
      BY <1>1, <2>1, <2>3, <2>5 DEF PatternOK
    <3>2. Fine(yt)'
      BY <1>1, <2>1, <2>3, <2>5 DEF Fine, Drawable, Aim
    <3> QED
      BY <2>1, <2>4, <3>1, <3>2, ButtonInv
  <2>6. CASE m # 0
    <3>1. atLeastTwo \in Pats
      <4>1. (IF k.rowSkipsWidth < 2 THEN 2 ELSE k.rowSkipsWidth) \in Nat \ {0}
        BY <2>3, PatternFields
      <4> QED
        BY <2>3, <4>1 DEF Pats, Patterns
    <3>2. PatternOK(skips')
      BY <2>1, <2>6, <3>1, RestartFacts
    <3>3. yt' \in Turns /\ yt'.path = NoPath
      BY <1>1, <2>1, <2>6, ResetFacts
    <3>4. Fine(yt)'
      BY <3>3, FreeNext
    <3> QED
      BY <2>1, <2>4, <3>2, <3>4, ButtonInv
  <2> QED
    BY <2>5, <2>6
<1>17. CASE ManUTurn
  <2>1. Flags' /\ Click /\ UNCHANGED <<trackVars, isJobStarted, resets>>
    BY <1>2, <1>17, ClickFacts DEF ManUTurn, Flags
  <2>2. CASE yt.triggered
    <3>1. yt' \in Turns /\ yt'.path = NoPath /\ UNCHANGED skips
      BY <1>1, <1>17, <2>2, ResetFacts DEF ManUTurn
    <3>2. Fine(yt)' /\ PatternOK(skips')
      BY <1>1, <3>1, FreeNext
    <3> QED
      BY <2>1, <3>2, ButtonInv
  <2>3. CASE ~yt.triggered
    <3>1. PatternOK(skips')
      BY <1>1, <1>17, <2>3, SettingsFacts DEF ManUTurn
    <3>2. yt' \in Turns /\ yt'.triggered
      <4> DEFINE p == IF idx = 0 THEN yt.path ELSE Path("manual", {})
      <4>1. p \in [by : {"nobody", "auto", "manual"}, used : SUBSET Aims]
        BY <1>1 DEF Turns, Path
      <4> HIDE DEF p
      <4>2. yt' = [yt EXCEPT !.triggered = TRUE, !.path = p]
        BY <1>17, <2>3 DEF ManUTurn, p
      <4> QED
        BY <1>1, <4>1, <4>2 DEF Turns
    <3>3. Fine(yt)'
      BY <3>2, FreeNext
    <3> QED
      BY <2>1, <3>1, <3>3, ButtonInv
  <2> QED
    BY <2>2, <2>3
<1>18. ASSUME Click, UNCHANGED <<trackVars, yt, skips, isJobStarted, resets>>, Flags'
       PROVE  IInv'
  <2>1. Fine(yt') /\ UNCHANGED skips
    BY <1>1, <1>18
  <2>2. Fine(yt)' /\ PatternOK(skips')
    BY <1>1, <2>1, FineNext
  <2> QED
    BY <1>18, <2>2, ButtonInv
<1>19. CASE AutoSteerButton
  <2>1. Flags'
    BY <1>2, <1>19, ClickFacts DEF AutoSteerButton, Flags
  <2> QED
    BY <1>18, <1>19, <2>1 DEF AutoSteerButton
<1>20. CASE setSpeedKph
  <2>1. Flags'
    BY <1>2, <1>20, ClickFacts DEF setSpeedKph, Flags
  <2> QED
    BY <1>18, <1>20, <2>1 DEF setSpeedKph
<1>21. CASE OtherButton
  <2>1. Flags'
    BY <1>2, <1>21, ClickFacts DEF OtherButton, Flags
  <2> QED
    BY <1>18, <1>21, <2>1 DEF OtherButton
<1>22. CASE JobClose
  <2>1. TracksTypeOK' /\ idx' = 0
    BY <1>2, <1>22, LoadedFacts DEF JobClose, TracksClosed
  <2>2. yt' \in Turns /\ yt'.path = NoPath
    BY <1>1, <1>22, ResetFacts DEF JobClose
  <2>3. Fine(yt)' /\ PatternOK(skips)'
    BY <1>1, <1>22, <2>2, FreeNext DEF JobClose
  <2>4. Flags' /\ Counters' /\ JobInv' /\ RowsInv'
    BY <1>2, <1>22, <2>1, ClickFacts DEF JobClose, Flags, IInv, Counters, JobInv
  <2> QED
    BY <2>1, <2>3, <2>4 DEF IInv
<1>23. CASE FileOpenField
  <2>1. TracksTypeOK'
    BY <1>2, <1>23, LoadedFacts DEF FileOpenField, JobInv
  <2>2. Fine(yt') /\ UNCHANGED skips
    BY <1>1, <1>23 DEF FileOpenField
  <2>3. Fine(yt)' /\ PatternOK(skips)'
    BY <1>1, <2>2, FineNext
  <2>4. Flags' /\ Counters' /\ JobInv' /\ RowsInv'
    BY <1>2, <1>23, ClickFacts DEF FileOpenField, Flags, IInv, Counters, JobInv
  <2> QED
    BY <2>1, <2>3, <2>4 DEF IInv
<1>24. CASE UNCHANGED vars
  <2>1. Fine(yt') /\ UNCHANGED <<skips, trackVars>>
    BY <1>1, <1>24 DEF vars
  <2>2. Fine(yt)' /\ PatternOK(skips)' /\ TracksTypeOK'
    BY <1>1, <1>2, <2>1, FineNext, TracksStill
  <2>3. Flags' /\ Counters' /\ JobInv' /\ RowsInv'
    BY <1>24 DEF vars, trackVars, IInv, Flags, Counters, JobInv, RowsInv
  <2> QED
    BY <2>2, <2>3 DEF IInv
<1> QED
  BY <1>3, <1>4, <1>5, <1>6, <1>7, <1>9, <1>10, <1>11, <1>12, <1>13, <1>14, <1>15, <1>16,
     <1>17, <1>19, <1>20, <1>21, <1>22, <1>23, <1>24 DEF Next

LEMMA InvAlways == Spec => []IInv
  BY InitInv, NextInv, PTL DEF Spec

(* For any tracks, modes, widths and bounds: the selected track is one of the list (CTrack   *)
(* indexes gArr with it every frame), and a pattern has a next turn to count down to.        *)
THEOREM TypeCorrect == Spec => []TypeOK
  BY InvAlways, InvType, PTL

(* For any tracks, modes, widths and bounds: a turn that waits to be driven was drawn for    *)
(* the pattern's present skip and side, whatever was clicked, skipped, loaded from the       *)
(* settings or delivered late since (CYouTurn::BuildABLineDubinsYouTurn, YouTurnTrigger).     *)
THEOREM FollowsPattern == Spec => []WaitingTurnFollowsPattern
<1>1. IInv => WaitingTurnFollowsPattern
  BY FineFacts DEF IInv, WaitingTurnFollowsPattern, Drawable
<1> QED
  BY <1>1, InvAlways, PTL

----------------------------------------------------------------------------
(* No row is left behind. *)

(* No row is left that is as far behind the furthest as w.                  *)
Behind(worked, w) ==
    LET reached == Max({Max(worked), -Min(worked)})
        side == IF Max(worked) = reached THEN 1 ELSE -1
    IN  \A r \in 0..reached : reached - r >= w => side * r \in worked

LEMMA MaxMinFacts ==
    ASSUME NEW S \in SUBSET Int, NEW m \in S
    PROVE  /\ (\A y \in S : m >= y) => Max(S) = m
           /\ (\A y \in S : m <= y) => Min(S) = m
<1>1. ASSUME \A y \in S : m >= y PROVE Max(S) = m
  <2>1. Max(S) \in S /\ \A y \in S : Max(S) >= y
    BY <1>1 DEF Max
  <2>2. Max(S) \in Int /\ m \in Int /\ Max(S) >= m /\ m >= Max(S)
    BY <1>1, <2>1
  <2> QED
    BY <2>2
<1>2. ASSUME \A y \in S : m <= y PROVE Min(S) = m
  <2>1. Min(S) \in S /\ \A y \in S : Min(S) <= y
    BY <1>2 DEF Min
  <2>2. Min(S) \in Int /\ m \in Int /\ Min(S) <= m /\ m <= Min(S)
    BY <1>2, <2>1
  <2> QED
    BY <2>2
<1> QED
  BY <1>1, <1>2

LEMMA BehindFacts ==
    ASSUME NEW worked \in SUBSET Int, NEW s \in {1, -1}, NEW all \in SUBSET Int,
           \A x \in Int : x \in worked <=> Along(s, x) \in all,
           NEW low \in all, NEW top \in all, \A x \in all : low <= x /\ x <= top,
           -low <= top, top >= 0, NEW w \in Int,
           \A x \in 0..top : top - x >= w => x \in all,
           -low = top => \A x \in 0..top : top - x >= w => -x \in all
    PROVE  Behind(worked, w)
<1> DEFINE reached == Max({Max(worked), -Min(worked)})
           side == IF Max(worked) = reached THEN 1 ELSE -1
<1>1. low \in Int /\ top \in Int
  OBVIOUS
<1>2. ASSUME NEW a \in Int, NEW z \in Int, a <= z PROVE Max({a, z}) = z /\ Max({z, a}) = z
  <2>1. {a, z} \in SUBSET Int /\ {z, a} \in SUBSET Int /\ z \in {a, z} /\ z \in {z, a}
    OBVIOUS
  <2>2. (\A y \in {a, z} : z >= y) /\ (\A y \in {z, a} : z >= y)
    BY <1>2
  <2> QED
    BY <2>1, <2>2, MaxMinFacts
<1>3. CASE s = 1
  <2>1. \A x \in Int : x \in worked <=> x \in all
    BY <1>3 DEF Along
  <2>2. top \in worked /\ low \in worked /\ \A x \in worked : low <= x /\ x <= top
    BY <1>1, <2>1
  <2>3. Max(worked) = top /\ Min(worked) = low
    BY <1>1, <2>2, MaxMinFacts
  <2>4. reached = top /\ side = 1
    BY <1>1, <1>2, <2>3
  <2> QED
    BY <1>1, <2>1, <2>4 DEF Behind
<1>4. CASE s = -1
  <2>1. \A x \in Int : x \in worked <=> -x \in all
    BY <1>4 DEF Along
  <2>2. -top \in worked /\ -low \in worked /\ \A x \in worked : -top <= x /\ x <= -low
    BY <1>1, <2>1
  <2>3. Max(worked) = -low /\ Min(worked) = -top
    BY <1>1, <2>2, MaxMinFacts
  <2>4. reached = top /\ side = IF -low = top THEN 1 ELSE -1
    BY <1>1, <1>2, <2>3
  <2> HIDE DEF reached, side
  <2>5. ASSUME NEW x \in 0..reached, reached - x >= w PROVE side * x \in worked
    <3>1. x \in Int /\ x \in 0..top /\ top - x >= w
      BY <2>4, <2>5
    <3>2. CASE -low = top
      BY <1>1, <2>1, <2>4, <3>1, <3>2
    <3>3. CASE -low # top
      <4>1. side * x = -x /\ x \in all
        BY <1>1, <2>4, <3>1, <3>3
      <4> QED
        BY <2>1, <3>1, <4>1
    <3> QED
      BY <3>2, <3>3
  <2> QED
    BY <2>5 DEF Behind, reached, side
<1> QED
  BY <1>3, <1>4

(* The same of rows that are laid out along s.                              *)
LEMMA LaidOutFacts ==
    ASSUME NEW r \in Rows, NEW s \in {1, -1}, NEW p, NEW all \in SUBSET Int, At(r, s, p, all),
           NEW low \in Int, NEW top \in Int, NEW w \in Int, w > 0,
           low \in all, top \in all, \A x \in all : low <= x /\ x <= top, -low <= top, low <= 0,
           \A x \in 0..top : top - x >= w => x \in all,
           low = 0 \/ -low < top \/ \A x \in -top..0 : x \in all
    PROVE  Behind(r.done, w)
<1>1. r.done \in SUBSET Int /\ \A x \in Int : x \in r.done <=> Along(s, x) \in all
  BY DEF At, Rows
<1>2. top >= 0
  OBVIOUS
<1>3. ASSUME -low = top, NEW x \in 0..top, top - x >= w PROVE -x \in all
  <2>1. CASE low = 0
    BY <1>3, <2>1
  <2>2. CASE \A y \in -top..0 : y \in all
    BY <1>3, <2>2
  <2> QED
    BY <1>3, <2>1, <2>2
<1> QED
  BY <1>1, <1>2, <1>3, BehindFacts

LEMMA PlanBehind ==
    ASSUME NEW r \in Rows, NEW k, PatternOK(k), Plan(r, k), k.alternateSkips > 0, Regular(k)
    PROVE  Behind(r.done, k.rowSkipsWidth2)
<1> DEFINE w == k.rowSkipsWidth2
<1>1. w \in Nat /\ w > 1 /\ k.alternateSkips \in 0..3
  BY PatternFields DEF PatternOK, Plan
<1>2. \A x, y, z, u \in Int : Stretch(x, y, z, u) \in SUBSET Int
  BY DEF Stretch
<1>3. CASE k.alternateSkips = 1
  <2>1. PICK s \in {1, -1}, b \in Nat, i \in Nat : BigNext(r, k, s, b, i) \/ SmallNext(r, k, s, b, i)
    BY <1>3 DEF Plan
  <2>2. CASE BigNext(r, k, s, b, i)
    <3> DEFINE all == Stretch(0, b + i, b + w, b + w + i - 1)
               top == IF i = 0 THEN b ELSE b + w + i - 1
               p == b + i
    <3>1. At(r, s, p, all) /\ i <= w - 1
      BY <2>2 DEF BigNext
    <3>2. /\ all \in SUBSET Int /\ top \in Int /\ 0 \in all /\ top \in all
          /\ \A x \in all : 0 <= x /\ x <= top
          /\ \A x \in 0..top : top - x >= w => x \in all
          /\ -0 <= top /\ 0 <= 0 /\ w \in Int /\ w > 0 /\ 0 \in Int
      BY <1>1, <3>1 DEF Stretch
    <3> HIDE DEF all, top, p, w
    <3> QED
      BY <3>1, <3>2, LaidOutFacts DEF w
  <2>3. CASE SmallNext(r, k, s, b, i)
    <3> DEFINE all == Stretch(0, b + i, b + w, b + w + i)
               top == b + w + i
               p == b + w + i
    <3>1. At(r, s, p, all) /\ i <= w - 2
      BY <2>3 DEF SmallNext
    <3>2. /\ all \in SUBSET Int /\ top \in Int /\ 0 \in all /\ top \in all
          /\ \A x \in all : 0 <= x /\ x <= top
          /\ \A x \in 0..top : top - x >= w => x \in all
          /\ -0 <= top /\ 0 <= 0 /\ w \in Int /\ w > 0 /\ 0 \in Int
      BY <1>1, <3>1 DEF Stretch
    <3> HIDE DEF all, top, p, w
    <3> QED
      BY <3>1, <3>2, LaidOutFacts DEF w
  <2> QED
    BY <2>1, <2>2, <2>3
<1>4. CASE k.alternateSkips = 2
  <2>1. PICK s \in {1, -1}, b \in Nat, i \in Nat :
           FarNext(r, k, s, b, i) \/ NearNext(r, k, s, b, i) \/ LeavesInside(r, k, s, b)
    BY <1>4 DEF Plan
  <2>2. CASE FarNext(r, k, s, b, i)
    <3> DEFINE all == Stretch(0, b + i, b + w - i + 1, b + w)
               top == IF i = 0 THEN b ELSE b + w
               p == b + i
    <3>1. At(r, s, p, all) /\ 2 * i < w
      BY <2>2 DEF FarNext
    <3>2. /\ all \in SUBSET Int /\ top \in Int /\ 0 \in all /\ top \in all
          /\ \A x \in all : 0 <= x /\ x <= top
          /\ \A x \in 0..top : top - x >= w => x \in all
          /\ -0 <= top /\ 0 <= 0 /\ w \in Int /\ w > 0 /\ 0 \in Int
      BY <1>1, <3>1 DEF Stretch
    <3> HIDE DEF all, top, p, w
    <3> QED
      BY <3>1, <3>2, LaidOutFacts DEF w
  <2>3. CASE NearNext(r, k, s, b, i)
    <3> DEFINE all == Stretch(0, b + i, b + w - i, b + w)
               top == b + w
               p == b + w - i
    <3>1. At(r, s, p, all) /\ 2 * i + 1 < w
      BY <2>3 DEF NearNext
    <3>2. /\ all \in SUBSET Int /\ top \in Int /\ 0 \in all /\ top \in all
          /\ \A x \in all : 0 <= x /\ x <= top
          /\ \A x \in 0..top : top - x >= w => x \in all
          /\ -0 <= top /\ 0 <= 0 /\ w \in Int /\ w > 0 /\ 0 \in Int
      BY <1>1, <3>1 DEF Stretch
    <3> HIDE DEF all, top, p, w
    <3> QED
      BY <3>1, <3>2, LaidOutFacts DEF w
  <2>4. CASE LeavesInside(r, k, s, b)
    <3> DEFINE all == 0..b + w
               top == b + w
               p == b + (w + 1) \div 2
    <3>1. At(r, s, p, all)
      BY <2>4 DEF LeavesInside
    <3> HIDE DEF p
    <3>2. /\ all \in SUBSET Int /\ top \in Int /\ 0 \in all /\ top \in all
          /\ \A x \in all : 0 <= x /\ x <= top
          /\ \A x \in 0..top : top - x >= w => x \in all
          /\ -0 <= top /\ 0 <= 0 /\ w \in Int /\ w > 0 /\ 0 \in Int
      BY <1>1, <3>1
    <3> HIDE DEF all, top, w
    <3> QED
      BY <3>1, <3>2, LaidOutFacts DEF w
  <2> QED
    BY <2>1, <2>2, <2>3, <2>4
<1>5. CASE k.alternateSkips = 3
  <2> DEFINE h == w \div 2
  <2>1. h \in Nat /\ w = 2 * h + 1 /\ h >= 1
    BY <1>1, <1>5 DEF Regular
  <2> HIDE DEF h
  <2>2. PICK s \in {1, -1}, b \in Nat, i \in Nat : Outside(r, k, s, h, b, i)
    BY <1>5, <2>1 DEF Plan
  <2>3. CASE FirstOn(r, k, s, i)
    <3> DEFINE all == -i..i
               p == -i
    <3>1. At(r, s, p, all)
      BY <2>3 DEF FirstOn
    <3>2. /\ all \in SUBSET Int /\ i \in Int /\ -i \in Int /\ -i \in all /\ i \in all
          /\ \A x \in all : -i <= x /\ x <= i
          /\ \A x \in 0..i : i - x >= w => x \in all
          /\ -(-i) <= i /\ -i <= 0 /\ w \in Int /\ w > 0 /\ \A x \in -i..0 : x \in all
      BY <1>1
    <3> DEFINE low == -i
    <3> HIDE DEF all, p, w, low
    <3> QED
      BY <3>1, <3>2, LaidOutFacts DEF w, low
  <2>4. CASE FirstBack(r, k, s, i)
    <3> DEFINE all == -i..i + 1
               p == i + 1
               low == -i
               top == i + 1
    <3>1. At(r, s, p, all)
      BY <2>4 DEF FirstBack
    <3>2. /\ all \in SUBSET Int /\ top \in Int /\ low \in Int /\ low \in all /\ top \in all
          /\ \A x \in all : low <= x /\ x <= top
          /\ \A x \in 0..top : top - x >= w => x \in all
          /\ -low <= top /\ low <= 0 /\ w \in Int /\ w > 0 /\ -low < top
      BY <1>1
    <3> HIDE DEF all, p, w, low, top
    <3> QED
      BY <3>1, <3>2, LaidOutFacts DEF w
  <2>5. CASE LeavesOutside(r, k, s, h, b)
    <3> DEFINE all == -h..b + h
               p == b + h
               low == -h
               top == b + h
    <3>1. At(r, s, p, all) /\ b >= 1
      BY <2>5 DEF LeavesOutside
    <3>2. /\ all \in SUBSET Int /\ top \in Int /\ low \in Int /\ low \in all /\ top \in all
          /\ \A x \in all : low <= x /\ x <= top
          /\ \A x \in 0..top : top - x >= w => x \in all
          /\ -low <= top /\ low <= 0 /\ w \in Int /\ w > 0 /\ -low < top
      BY <1>1, <2>1, <3>1
    <3> HIDE DEF all, p, w, low, top
    <3> QED
      BY <3>1, <3>2, LaidOutFacts DEF w
  <2>6. CASE LaterBack(r, k, s, h, b, i)
    <3> DEFINE all == Stretch(-h, b - h - 1, b - i, b + i)
               p == b + i
               low == -h
               top == b + i
    <3>1. At(r, s, p, all) /\ b > w /\ 2 * i < w - 1
      BY <2>6 DEF LaterBack
    <3>2. /\ all \in SUBSET Int /\ top \in Int /\ low \in Int /\ low \in all /\ top \in all
          /\ \A x \in all : low <= x /\ x <= top
          /\ \A x \in 0..top : top - x >= w => x \in all
          /\ -low <= top /\ low <= 0 /\ w \in Int /\ w > 0 /\ -low < top
      BY <1>1, <2>1, <3>1 DEF Stretch
    <3> HIDE DEF all, p, w, low, top
    <3> QED
      BY <3>1, <3>2, LaidOutFacts DEF w
  <2>7. CASE LaterOn(r, k, s, h, b, i)
    <3> DEFINE all == Stretch(-h, b - h - 1, b - i - 1, b + i)
               p == b - i - 1
               low == -h
               top == b + i
    <3>1. At(r, s, p, all) /\ b > w /\ 2 * i < w - 2
      BY <2>7 DEF LaterOn
    <3>2. /\ all \in SUBSET Int /\ top \in Int /\ low \in Int /\ low \in all /\ top \in all
          /\ \A x \in all : low <= x /\ x <= top
          /\ \A x \in 0..top : top - x >= w => x \in all
          /\ -low <= top /\ low <= 0 /\ w \in Int /\ w > 0 /\ -low < top
      BY <1>1, <2>1, <3>1 DEF Stretch
    <3> HIDE DEF all, p, w, low, top
    <3> QED
      BY <3>1, <3>2, LaidOutFacts DEF w
  <2> QED
    BY <2>2, <2>3, <2>4, <2>5, <2>6, <2>7 DEF Outside
<1> QED
  BY <1>1, <1>3, <1>4, <1>5

(* For any width, and any number of turns and rounds: left alone, the automatic turns take   *)
(* the vehicle to a row it has not worked every time, and leave no row as far behind as the  *)
(* width the pattern was started with (CYouTurn::YouTurnTrigger, Set_Alternate_skips).       *)
THEOREM WorksOnce == Spec => []RowsOnce
<1>1. IInv => RowsOnce
  <2> SUFFICES ASSUME IInv, rows # Disturbed, skips.alternateSkips = 3 => skips.rowSkipsWidth2 % 2 = 1
               PROVE  /\ Cardinality(rows.done) = rows.turns + 1
                      /\ skips.alternateSkips > 0 => Behind(rows.done, skips.rowSkipsWidth2)
    BY DEF RowsOnce, Behind
  <2>1. rows \in Rows /\ PatternOK(skips) /\ Plan(rows, skips) /\ Regular(skips)
    BY DEF IInv, RowsInv, Regular
  <2>2. Cardinality(rows.done) = rows.turns + 1
    BY <2>1 DEF Plan
  <2> QED
    BY <2>1, <2>2, PlanBehind
<1> QED
  BY <1>1, InvAlways, PTL
============================================================================
