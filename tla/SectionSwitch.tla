--------------------------- MODULE SectionSwitch ---------------------------
(***************************************************************************)
(* What section control promises about one section of the implement, seen  *)
(* from the outside: whether the section is asked to work, whether its     *)
(* valve is open and whether the area it covers is being recorded.         *)
(*                                                                         *)
(* An order to work opens the valve at once and recording may start now or *)
(* later; an order to stop lets the valve stay open and the recording run  *)
(* on for a while, and starts neither.                                     *)
(***************************************************************************)
VARIABLES wanted, valve, recording

vars == <<wanted, valve, recording>>

Init == ~wanted /\ ~valve /\ ~recording

Work ==
    /\ wanted'
    /\ valve'
    /\ recording' \in BOOLEAN
    /\ recording => recording'

Stop ==
    /\ ~wanted'
    /\ valve' \in BOOLEAN
    /\ recording' \in BOOLEAN
    /\ valve' => valve
    /\ recording' => recording

Next == Work \/ Stop

Spec == Init /\ [][Next]_vars
=============================================================================
