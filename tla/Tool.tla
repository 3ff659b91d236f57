-------------------------------- MODULE Tool --------------------------------
(***************************************************************************)
(* The implement behind the tractor (CTool): its sections, from the left.  *)
(***************************************************************************)
EXTENDS Integers

CONSTANT numOfSections

ASSUME SectionsAssumption == numOfSections \in Nat \ {0}

Sections == 0 .. numOfSections - 1
=============================================================================
