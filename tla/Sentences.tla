----------------------------- MODULE Sentences -----------------------------
(***************************************************************************)
(* The receiver's sentences and what PGNParser makes of them: a position,  *)
(* its quality, and a speed.  What a sentence does not have is 0 in what   *)
(* is made of it, as if it were reported.  Headings and the data of an     *)
(* inertial unit are left out.                                             *)
(***************************************************************************)
EXTENDS Naturals

Kinds == {"GGA", "RMC", "VTG", "PANDA", "PAOGI", "GSA", "GSV", "HDT", "AVR", "KSXT", "other"}

(* A sentence as the receiver sent it: whether the checksum is right and    *)
(* there are words enough, and what those say.  A position is one of        *)
(* places, or 0 where the receiver has none; speed is that of more than 1.5 *)
(* km/h.                                                                    *)
SentencesFrom(places) ==
    [kind : Kinds, intact : BOOLEAN, long : BOOLEAN, km : places \cup {0},
     quality : BOOLEAN, satellites : BOOLEAN, speed : BOOLEAN, decimal : BOOLEAN]

ParsedData == [isValid |-> FALSE, km |-> 0, quality |-> FALSE, satellites |-> FALSE, speed |-> FALSE]
Valid == [ParsedData EXCEPT !.isValid = TRUE]
Position(s) == [Valid EXCEPT !.km = s.km, !.quality = s.quality, !.satellites = s.satellites]

(* The words of a position must not be empty. *)
parseGGA(s) == IF s.km = 0 THEN ParsedData ELSE Position(s)

(* The position comes without a quality. *)
parseRMC(s) == [Valid EXCEPT !.km = s.km, !.speed = s.speed]
parseVTG(s) == [Valid EXCEPT !.speed = s.speed]

(* Of its two forms only one is looked at for empty words. *)
parsePANDA(s) ==
    IF s.km = 0 /\ ~s.decimal THEN ParsedData ELSE [Position(s) EXCEPT !.speed = s.speed]

parseGSA(s) == Valid
parseGSV(s) == [Valid EXCEPT !.satellites = s.satellites]
parseHDT(s) == Valid
parseAVR(s) == [Valid EXCEPT !.quality = s.quality, !.satellites = s.satellites]

(* Refused are those that have neither a quality nor a position. *)
parseKSXT(s) ==
    IF ~s.quality /\ s.km = 0 THEN ParsedData ELSE [Position(s) EXCEPT !.speed = s.speed]
parsePAOGI(s) ==
    IF ~s.quality /\ s.km = 0 THEN ParsedData ELSE [Position(s) EXCEPT !.speed = s.speed]

parseNMEA(s) ==
    CASE s.kind = "GGA" -> parseGGA(s)
      [] s.kind = "RMC" -> parseRMC(s)
      [] s.kind = "VTG" -> parseVTG(s)
      [] s.kind = "PANDA" -> parsePANDA(s)
      [] s.kind = "PAOGI" -> parsePAOGI(s)
      [] s.kind = "GSA" -> parseGSA(s)
      [] s.kind = "GSV" -> parseGSV(s)
      [] s.kind = "HDT" -> parseHDT(s)
      [] s.kind = "AVR" -> parseAVR(s)
      [] s.kind = "KSXT" -> parseKSXT(s)
      [] OTHER -> ParsedData

isValidNMEA(s) == s.intact
parse(s) == IF isValidNMEA(s) /\ s.long THEN parseNMEA(s) ELSE ParsedData

(* All that can come of what the receiver sends. *)
AllParsed(places) == {parse(s) : s \in SentencesFrom(places)}
=============================================================================
