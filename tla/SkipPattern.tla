----------------------------- MODULE SkipPattern -----------------------------
(***************************************************************************)
(* The row pattern of the automatic U-turn (CYouTurn): how many rows the   *)
(* next turn skips and to which side it goes.  A pattern `k' is a record   *)
(* of the members YouTurnTrigger counts with:                              *)
(*   alternateSkips  0 always the same skip; 1, 2, 3 the three patterns    *)
(*   rowSkipsWidth   rows the next turn moves over                         *)
(*   rowSkipsWidth2  the width the pattern was started with                *)
(*   turnSkips       turns left in this round of it                        *)
(*   previousBigSkip, isYouTurnRight                                       *)
(***************************************************************************)
EXTENDS Integers

Patterns(modes, widths) ==
    [alternateSkips : modes, rowSkipsWidth : widths, rowSkipsWidth2 : widths,
     turnSkips : Int, previousBigSkip : BOOLEAN, isYouTurnRight : BOOLEAN]

\* Starts the pattern of the current mode over, from the current width.
Set_Alternate_skips(k) ==
    LET w == k.rowSkipsWidth
    IN  [k EXCEPT !.rowSkipsWidth2 = w,
                  !.turnSkips = IF k.alternateSkips \in {2, 3} THEN w ELSE 2 * w - 1,
                  !.previousBigSkip = FALSE,
                  !.rowSkipsWidth = IF k.alternateSkips = 3 THEN 1 ELSE w]

OtherSide(k) == [k EXCEPT !.isYouTurnRight = ~@]

\* A mutant: the big and the small skip are swapped.
BigSmallSwapped(k) ==
    LET w == k.rowSkipsWidth2
    IN  IF k.turnSkips = 1
        THEN OtherSide([k EXCEPT !.turnSkips = 2 * w - 1])
        ELSE [k EXCEPT !.turnSkips = @ - 1,
                       !.previousBigSkip = ~@,
                       !.rowSkipsWidth = IF k.previousBigSkip THEN w - 1 ELSE w]

\* Mode 1: w, w-1, w, ... to the same side, then one turn of the round to the other.
BigSmall(k) ==
    LET w == k.rowSkipsWidth2
    IN  IF k.turnSkips = 1
        THEN OtherSide([k EXCEPT !.turnSkips = 2 * w - 1])
        ELSE [k EXCEPT !.turnSkips = @ - 1,
                       !.previousBigSkip = ~@,
                       !.rowSkipsWidth = IF k.previousBigSkip THEN w ELSE w - 1]

\* Mode 2: spirals inwards, w-1, w-2, ..., and leaves with a skip of 1.5 w.
Inwards(k) ==
    LET w == k.rowSkipsWidth2
        leaving == [k EXCEPT !.turnSkips = w,
                             !.rowSkipsWidth = (3 * w) \div 2,
                             !.previousBigSkip = ~@]
    IN  IF k.turnSkips = 1
        THEN IF w % 2 # 0 THEN OtherSide(leaving) ELSE leaving
        ELSE [k EXCEPT !.turnSkips = @ - 1,
                       !.rowSkipsWidth = IF k.previousBigSkip THEN w - 1 ELSE @ - 1,
                       !.previousBigSkip = FALSE]

\* Mode 3: spirals outwards, 1, 2, 3, ..., and leaves with a skip of about w / 2.
Outwards(k) ==
    LET w == k.rowSkipsWidth2
        leaving == OtherSide([k EXCEPT !.turnSkips = w,
                                       !.rowSkipsWidth = w - w \div 2,
                                       !.previousBigSkip = ~@])
        even == [leaving EXCEPT !.rowSkipsWidth = @ + 1]
    IN  IF k.turnSkips = 1
        THEN IF w % 2 # 0 THEN leaving
             ELSE IF even.previousBigSkip THEN even ELSE OtherSide(even)
        ELSE [k EXCEPT !.turnSkips = @ - 1,
                       !.rowSkipsWidth = IF k.previousBigSkip THEN 1 ELSE @ + 1,
                       !.previousBigSkip = FALSE]

\* What YouTurnTrigger makes of the pattern; `straight' is isGoingStraightThrough.
AfterTrigger(k, straight) ==
    LET s == IF straight THEN OtherSide(k) ELSE k
    IN  CASE s.rowSkipsWidth2 <= 1 \/ s.alternateSkips = 0 -> OtherSide(s)
          [] s.rowSkipsWidth2 > 1 /\ s.alternateSkips = 1 -> BigSmall(s)
          [] s.rowSkipsWidth2 > 1 /\ s.alternateSkips = 2 -> Inwards(s)
          [] s.rowSkipsWidth2 > 1 /\ s.alternateSkips = 3 -> Outwards(s)
=============================================================================
