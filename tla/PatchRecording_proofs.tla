------------------------ MODULE PatchRecording_proofs ------------------------
(***************************************************************************)
(* A field's file holds only what was recorded in that field, and together *)
(* with the save list exactly what the map shows, for any strips, fields   *)
(* and length of patches, if the last save of a field does not fail.       *)
(*                                                                         *)
(* There is one save list for all fields.  The invariant says that it      *)
(* never holds anything but the open field's: whoever closes a field must  *)
(* have stopped its strips, which puts their last patches on the list, and *)
(* have saved, which empties it, before another field is opened.  For that *)
(* it does not matter how many pairs there are.                            *)
(*                                                                         *)
(* That the map matches the file is about how many.  The section on totals *)
(* shows what Total, a fold over a function, does when one entry changes   *)
(* or two tables are added, by induction over the subsets of its domain;   *)
(* the proof of a step then compares what it shows more with what it       *)
(* queues.                                                                 *)
(***************************************************************************)
EXTENDS PatchRecording, FiniteSetTheorems, WellFoundedInduction, TLAPS

(* A table of counts by field. *)
IsCounts(counts) == counts = [g \in Fields |-> counts[g]]

(* The save list is that of the open field. *)
ListIsOwn ==
    /\ IsCounts(patchSaveList)
    /\ \A g \in Fields : g # currentFieldDirectory => patchSaveList[g] = 0

IsOwn(files) ==
    /\ files = [f \in Fields |-> files[f]]
    /\ \A f \in Fields : IsCounts(files[f])
    /\ \A f, g \in Fields : f # g => files[f][g] = 0

IInv ==
    /\ currentFieldDirectory \in Fields \cup {None}
    /\ ListIsOwn
    /\ IsOwn(sectionsTxt)

LEMMA InitIInv == Init => IInv
BY DEF Init, IInv, ListIsOwn, IsOwn, IsCounts, Nothing

----------------------------------------------------------------------------
(* The list and the files. *)

LEMMA NothingFacts == IsCounts(Nothing) /\ \A g \in Fields : Nothing[g] = 0
BY DEF IsCounts, Nothing

(* What is queued goes to the open field's share of the list. *)
LEMMA QueueKeepsOwn ==
    ASSUME IInv, IsOpen, NEW pairs, patchSaveList' = Queue(pairs),
           currentFieldDirectory' = currentFieldDirectory
    PROVE  ListIsOwn'
BY DEF IInv, ListIsOwn, IsCounts, IsOpen, Queue

(* Appending a list that is zero for every other field keeps a file its     *)
(* field's own.                                                             *)
LEMMA AppendedKeepsOwn ==
    ASSUME NEW files, IsOwn(files), NEW f \in Fields, NEW list,
           \A g \in Fields : g # f => list[g] = 0
    PROVE  IsOwn(Appended(files, f, list))
<1> DEFINE after == Appended(files, f, list)
<1>1. after = [files EXCEPT ![f] = [g \in Fields |-> files[f][g] + list[g]]]
  BY DEF Appended
<1>2. after[f] = [g \in Fields |-> files[f][g] + list[g]]
  BY <1>1 DEF IsOwn
<1>3. \A h \in Fields : h # f => after[h] = files[h]
  BY <1>1 DEF IsOwn
<1>4. after = [h \in Fields |-> after[h]]
  BY <1>1 DEF IsOwn
<1>5. ASSUME NEW h \in Fields, NEW g \in Fields, h # g PROVE after[h][g] = 0
  <2>1. CASE h = f
    <3>1. files[f][g] = 0 /\ list[g] = 0
      BY <1>5, <2>1 DEF IsOwn
    <3> QED
      BY <1>2, <2>1, <3>1
  <2>2. CASE h # f
    BY <1>3, <1>5, <2>2 DEF IsOwn
  <2> QED
    BY <2>1, <2>2
<1>6. ASSUME NEW h \in Fields PROVE IsCounts(after[h])
  <2>1. IsCounts(after[f])
    BY <1>2 DEF IsCounts
  <2> QED
    BY <1>3, <2>1 DEF IsOwn
<1> QED
  BY <1>4, <1>5, <1>6 DEF IsOwn

(* An empty file is its field's own. *)
LEMMA EmptiedKeepsOwn ==
    ASSUME NEW files, IsOwn(files), NEW f \in Fields
    PROVE  IsOwn([files EXCEPT ![f] = Nothing])
BY NothingFacts DEF IsOwn

(* Closing a field whose save succeeds leaves no list behind, and saves it  *)
(* where it belongs.                                                        *)
LEMMA CloseKeepsOwn ==
    ASSUME IInv
    PROVE  /\ IsOwn(AfterClose(TRUE).files)
           /\ IsCounts(AfterClose(TRUE).list)
           /\ \A g \in Fields : AfterClose(TRUE).list[g] = 0
<1>1. CASE ~IsOpen
  <2>1. AfterClose(TRUE).list = patchSaveList /\ AfterClose(TRUE).files = sectionsTxt
    BY <1>1 DEF AfterClose
  <2>2. \A g \in Fields : g # currentFieldDirectory
    BY <1>1, NoneAssumption DEF IsOpen
  <2>3. \A g \in Fields : patchSaveList[g] = 0
    BY <2>2 DEF IInv, ListIsOwn
  <2> QED
    BY <2>1, <2>3 DEF IInv, ListIsOwn
<1>2. CASE IsOpen
  <2>1. /\ AfterClose(TRUE).list = Nothing
        /\ AfterClose(TRUE).files = Appended(sectionsTxt, currentFieldDirectory, Stopped)
    BY <1>2 DEF AfterClose
  <2>2. currentFieldDirectory \in Fields
    BY <1>2 DEF IInv, IsOpen
  <2>3. \A g \in Fields : g # currentFieldDirectory => Stopped[g] = 0
    BY <2>2 DEF Stopped, Queue, IInv, ListIsOwn, IsCounts
  <2>4. IsOwn(Appended(sectionsTxt, currentFieldDirectory, Stopped))
    BY <2>2, <2>3, AppendedKeepsOwn DEF IInv
  <2> QED
    BY <2>1, <2>4, NothingFacts
<1> QED
  BY <1>1, <1>2

----------------------------------------------------------------------------
(* Every step keeps the invariant if the last save of a field succeeds. *)
LEMMA NextIInv ==
    ASSUME CloseMayFail = FALSE, IInv, [Next]_vars
    PROVE  IInv'
<1> DEFINE closed == AfterClose(TRUE)
<1>0. /\ IsOwn(closed.files)
      /\ IsCounts(closed.list) /\ \A g \in Fields : closed.list[g] = 0
  BY CloseKeepsOwn
<1>1. ASSUME NEW isSaved \in BOOLEAN, MayClose(isSaved) PROVE isSaved = TRUE
  BY <1>1 DEF MayClose
\* Steps that save nothing and queue for the open field.
<1>2. ASSUME IsOpen, NEW pairs, patchSaveList' = Queue(pairs), sectionsTxt' = sectionsTxt,
             currentFieldDirectory' = currentFieldDirectory
      PROVE  IInv'
  BY <1>2, QueueKeepsOwn DEF IInv
\* Steps that touch neither the list nor the files.
<1>3. ASSUME UNCHANGED <<currentFieldDirectory, patchSaveList, sectionsTxt>> PROVE IInv'
  BY <1>3 DEF IInv, ListIsOwn
<1>4. ASSUME NEW s \in Strips, StartStrip(s) \/ RestartStrip(s) PROVE IInv'
  BY <1>3, <1>4 DEF StartStrip, RestartStrip
<1>5. ASSUME NEW s \in Strips, MoveStrip(s) \/ StopStrip(s) PROVE IInv'
  BY <1>2, <1>5 DEF MoveStrip, StopStrip, IsAtWork
<1>6. CASE AddSectionOrPathPoints
  BY <1>2, <1>6 DEF AddSectionOrPathPoints, IsAtWork
<1>7. CASE AutoSave
  <2>1. currentFieldDirectory \in Fields
    BY <1>7 DEF AutoSave, IsAtWork, IsOpen, IInv
  <2>2. IsOwn(sectionsTxt')
    BY <1>7, <2>1, AppendedKeepsOwn DEF AutoSave, IInv, ListIsOwn
  <2> QED
    BY <1>7, <2>1, <2>2, NothingFacts DEF AutoSave, IInv, ListIsOwn
<1>8. ASSUME NEW isSaved \in BOOLEAN, CloseField(isSaved) PROVE IInv'
  <2>1. sectionsTxt' = closed.files /\ patchSaveList' = closed.list /\ currentFieldDirectory' = None
    BY <1>1, <1>8 DEF CloseField
  <2> QED
    BY <1>0, <2>1 DEF IInv, ListIsOwn
<1>9. ASSUME NEW isSaved \in BOOLEAN, NEW f \in Fields, OpenField(f, isSaved) PROVE IInv'
  <2>1. sectionsTxt' = closed.files /\ patchSaveList' = closed.list /\ currentFieldDirectory' = f
    BY <1>1, <1>9 DEF OpenField
  <2> QED
    BY <1>0, <2>1 DEF IInv, ListIsOwn
<1>10. ASSUME NEW isSaved \in BOOLEAN, NEW f \in Fields, CreateField(f, isSaved) PROVE IInv'
  <2>1. /\ sectionsTxt' = [closed.files EXCEPT ![f] = Nothing]
        /\ patchSaveList' = closed.list /\ currentFieldDirectory' = f
    BY <1>1, <1>10 DEF CreateField
  <2>2. IsOwn(sectionsTxt')
    BY <1>0, <2>1, EmptiedKeepsOwn
  <2> QED
    BY <1>0, <2>1, <2>2 DEF IInv, ListIsOwn
<1>11. ASSUME NEW isSaved \in BOOLEAN, NEW f \in Fields, NEW g \in Fields,
              NEW isMapped \in BOOLEAN, CreateFieldFrom(g, f, isMapped, isSaved)
       PROVE  IInv'
  <2> DEFINE copied == IF isMapped THEN Total(closed.files[g]) ELSE 0
             list == [closed.list EXCEPT ![f] = @ + copied]
  <2>1. /\ sectionsTxt' = Appended([closed.files EXCEPT ![f] = Nothing], f, list)
        /\ patchSaveList' = Nothing /\ currentFieldDirectory' = f
    BY <1>1, <1>11 DEF CreateFieldFrom
  <2>2. \A h \in Fields : h # f => list[h] = 0
    BY <1>0 DEF IsCounts
  <2>3. IsOwn(sectionsTxt')
    BY <1>0, <2>1, <2>2, EmptiedKeepsOwn, AppendedKeepsOwn
  <2> QED
    BY <2>1, <2>3, NothingFacts DEF IInv, ListIsOwn
<1>12. ASSUME NEW f \in Fields, CreateFieldFromKML(f) PROVE IInv'
  <2>1. CASE IsOpen
    BY <1>3, <1>12, <2>1 DEF CreateFieldFromKML
  <2>2. CASE ~IsOpen
    <3>1. IsOwn(sectionsTxt')
      BY <1>12, <2>2, EmptiedKeepsOwn DEF CreateFieldFromKML, IInv
    <3>2. \A g \in Fields : patchSaveList[g] = 0
      BY <2>2, NoneAssumption DEF IsOpen, IInv, ListIsOwn
    <3> QED
      BY <1>12, <2>2, <3>1, <3>2 DEF CreateFieldFromKML, IInv, ListIsOwn
  <2> QED
    BY <2>1, <2>2
<1>13. ASSUME NEW f \in Fields, DeleteField(f) PROVE IInv'
  BY <1>13, EmptiedKeepsOwn DEF DeleteField, IInv, ListIsOwn
<1>14. CASE DeleteAppliedArea
  <2>1. currentFieldDirectory \in Fields
    BY <1>14 DEF DeleteAppliedArea, IsAtWork, IsOpen, IInv
  <2>2. IsOwn(sectionsTxt')
    BY <1>14, <2>1, EmptiedKeepsOwn DEF DeleteAppliedArea, IInv
  <2> QED
    BY <1>14, <2>1, <2>2, NothingFacts DEF DeleteAppliedArea, IInv, ListIsOwn
<1>15. CASE Crash
  BY <1>15, NothingFacts DEF Crash, IInv, ListIsOwn
<1>16. CASE UNCHANGED vars
  BY <1>3, <1>16 DEF vars
<1> QED
  BY <1>4, <1>5, <1>6, <1>7, <1>8, <1>9, <1>10, <1>11, <1>12, <1>13, <1>14, <1>15, <1>16
  DEF Next

(* A field's Sections.txt holds only what was recorded in it, through every *)
(* way a field is created, copied, opened, closed, deleted or lost, if the  *)
(* save that closes a field does not fail                                   *)
(* (FileSaveEverythingBeforeClosingField, FileSaveSections).                *)
THEOREM OwnPatches ==
    ASSUME CloseMayFail = FALSE
    PROVE  Spec => []OwnPatchesOnly
<1>1. IInv /\ [Next]_vars => IInv'
  BY NextIInv
<1>2. IInv => OwnPatchesOnly
  BY DEF IInv, IsOwn, OwnPatchesOnly
<1> QED
  BY InitIInv, <1>1, <1>2, PTL DEF Spec

----------------------------------------------------------------------------
(* The total of a table of numbers *)

Picked(s) == CHOOSE x \in s : TRUE

(* The equation that defines the sums over the subsets of D. *)
IsSums(g, c, D) ==
    g = [s \in SUBSET D |-> IF s = {} THEN 0 ELSE c[Picked(s)] + g[s \ {Picked(s)}]]

Sums(c, D) == CHOOSE g : IsSums(g, c, D)

LEMMA TotalIsSum ==
    ASSUME NEW c
    PROVE  Total(c) = Sums(c, DOMAIN c)[DOMAIN c]
BY DEF Total, FoldFunction, FoldFunctionOnSet, MapThenFoldSet, Sums, IsSums, Picked

(* A set of natural numbers that is not empty has a least element. *)
LEMMA Least ==
    ASSUME NEW T, T \subseteq Nat, T # {}
    PROVE  \E m \in T : \A k \in T : m <= k
<1> DEFINE R == {ss \in Nat \X Nat : ss[1] < ss[2]}
<1>1. IsWellFoundedOn(R, Nat)
  BY NatLessThanWellFounded DEF OpToRel
<1> HIDE DEF R
<1>2. PICK m \in T : \A k \in T : <<k, m>> \notin R
  BY <1>1, WFMin
<1>3. \A k \in T : ~(k < m)
  BY <1>2 DEF R
<1> QED
  BY <1>3

(* Induction over the natural numbers, and over the subsets of a finite set  *)
(* by their size.                                                            *)
LEMMA Step ==
    ASSUME NEW T, 0 \in T, \A n \in Nat : n \in T => n + 1 \in T
    PROVE  Nat \subseteq T
<1> SUFFICES ASSUME NEW n0 \in Nat, n0 \notin T PROVE FALSE
  OBVIOUS
<1> DEFINE Out == {n \in Nat : n \notin T}
<1>1. PICK m \in Out : \A k \in Out : m <= k
  <2>1. Out \subseteq Nat /\ Out # {}
    OBVIOUS
  <2> HIDE DEF Out
  <2> QED
    BY <2>1, Least
<1>2. m # 0
  OBVIOUS
<1>3. m - 1 \in Nat /\ m - 1 \notin Out
  BY <1>1, <1>2
<1>4. m - 1 \in T
  BY <1>3
<1> QED
  BY <1>3, <1>4

LEMMA Smaller ==
    ASSUME NEW D, IsFiniteSet(D), NEW s \in SUBSET D, NEW x \in s
    PROVE  /\ s \ {x} \in SUBSET D
           /\ Cardinality(s) \in Nat /\ Cardinality(s \ {x}) \in Nat
           /\ Cardinality(s) = Cardinality(s \ {x}) + 1
<1>1. IsFiniteSet(s)
  BY FS_Subset
<1>2. Cardinality(s) \in Nat /\ Cardinality(s \ {x}) \in Nat
  BY <1>1, FS_RemoveElement, FS_CardinalityType
<1>3. Cardinality(s \ {x}) = Cardinality(s) - 1
  BY <1>1, FS_RemoveElement
<1> QED
  BY <1>2, <1>3

LEMMA BySize ==
    ASSUME NEW D, IsFiniteSet(D), NEW G, {} \in G,
           \A s \in SUBSET D : s # {} /\ (\A x \in s : s \ {x} \in G) => s \in G
    PROVE  SUBSET D \subseteq G
<1> DEFINE T == {n \in Nat : \A s \in SUBSET D : Cardinality(s) = n => s \in G}
<1>1. \A s \in SUBSET D : IsFiniteSet(s) /\ Cardinality(s) \in Nat /\ (Cardinality(s) = 0 => s = {})
  BY FS_Subset, FS_CardinalityType, FS_EmptySet
<1>2. 0 \in T
  BY <1>1
<1>3. ASSUME NEW n \in Nat, n \in T PROVE n + 1 \in T
  <2> SUFFICES ASSUME NEW s \in SUBSET D, Cardinality(s) = n + 1 PROVE s \in G
    OBVIOUS
  <2>1. s # {}
    <3>1. Cardinality({}) = 0 /\ Cardinality(s) # 0
      BY FS_EmptySet
    <3> QED
      BY <3>1
  <2>2. ASSUME NEW x \in s PROVE s \ {x} \in G
    <3>1. s \ {x} \in SUBSET D /\ Cardinality(s \ {x}) = n
      BY Smaller
    <3> QED
      BY <1>3, <3>1
  <2> QED
    BY <2>1, <2>2
<1> HIDE DEF T
<1>4. Nat \subseteq T
  BY <1>2, <1>3, Step
<1> QED
  BY <1>1, <1>4 DEF T

(* The sums exist. *)
LEMMA SumsExist ==
    ASSUME NEW D, IsFiniteSet(D), NEW c
    PROVE  IsSums(Sums(c, D), c, D)
<1> DEFINE Value(g, s) == IF s = {} THEN 0 ELSE c[Picked(s)] + g[s \ {Picked(s)}]
           IsUpTo(g, n) == /\ g = [s \in SUBSET D |-> g[s]]
                           /\ \A s \in SUBSET D : Cardinality(s) <= n => g[s] = Value(g, s)
           T == {n \in Nat : \E g : IsUpTo(g, n)}
<1>0. \A s \in SUBSET D : s # {} => Picked(s) \in s
  BY DEF Picked
<1>1. \A s \in SUBSET D : IsFiniteSet(s) /\ Cardinality(s) \in Nat /\ (Cardinality(s) = 0 => s = {})
  BY FS_Subset, FS_CardinalityType, FS_EmptySet
<1>2. 0 \in T
  <2> DEFINE g == [s \in SUBSET D |-> 0]
  <2>1. \A s \in SUBSET D : Cardinality(s) <= 0 => s = {}
    BY <1>1
  <2>2. IsUpTo(g, 0)
    BY <2>1
  <2> QED
    BY <2>2
<1>3. ASSUME NEW n \in Nat, n \in T PROVE n + 1 \in T
  <2>1. PICK g : IsUpTo(g, n)
    BY <1>3
  <2> DEFINE h == [s \in SUBSET D |-> IF Cardinality(s) = n + 1 THEN Value(g, s) ELSE g[s]]
  <2>2. ASSUME NEW s \in SUBSET D, s # {}, Cardinality(s) <= n + 1
        PROVE  h[s \ {Picked(s)}] = g[s \ {Picked(s)}]
    <3>1. s \ {Picked(s)} \in SUBSET D /\ Cardinality(s \ {Picked(s)}) # n + 1
      BY <1>0, <2>2, Smaller
    <3> QED
      BY <3>1
  <2>3. ASSUME NEW s \in SUBSET D, Cardinality(s) <= n + 1 PROVE h[s] = Value(h, s)
    <3>1. Value(h, s) = Value(g, s)
      BY <2>2, <2>3
    <3>2. CASE Cardinality(s) = n + 1
      BY <3>1, <3>2
    <3>3. CASE Cardinality(s) # n + 1
      <4>1. Cardinality(s) <= n
        BY <1>1, <2>3, <3>3
      <4>2. h[s] = g[s]
        BY <3>3
      <4> HIDE DEF Value, h
      <4> QED
        BY <2>1, <3>1, <4>1, <4>2
    <3> QED
      BY <3>2, <3>3
  <2>4. h = [s \in SUBSET D |-> h[s]]
    OBVIOUS
  <2> HIDE DEF Value, h
  <2>5. IsUpTo(h, n + 1)
    BY <2>3, <2>4
  <2> HIDE DEF IsUpTo
  <2> QED
    BY <2>5
<1> HIDE DEF T
<1>4. Nat \subseteq T
  BY <1>2, <1>3, Step
<1>5. PICK g : IsUpTo(g, Cardinality(D))
  <2>1. Cardinality(D) \in T
    BY <1>4, FS_CardinalityType
  <2> QED
    BY <2>1 DEF T
<1>6. \A s \in SUBSET D : Cardinality(s) <= Cardinality(D)
  BY FS_Subset
<1>7. \A s \in SUBSET D : g[s] = Value(g, s)
  BY <1>5, <1>6
<1>8. g = [s \in SUBSET D |-> Value(g, s)]
  BY <1>5, <1>7
<1>9. IsSums(g, c, D)
  BY <1>8 DEF IsSums
<1> QED
  BY <1>9 DEF Sums

(* The sums of numbers over the subsets of D, one element at a time. *)
LEMMA SumsFacts ==
    ASSUME NEW D, IsFiniteSet(D), NEW c, \A x \in D : c[x] \in Nat
    PROVE  /\ Sums(c, D)[{}] = 0
           /\ \A s \in SUBSET D : s # {} => /\ Picked(s) \in s
                                            /\ Sums(c, D)[s] = c[Picked(s)] + Sums(c, D)[s \ {Picked(s)}]
           /\ \A s \in SUBSET D : Sums(c, D)[s] \in Nat
<1> DEFINE g == Sums(c, D)
           G == {s \in SUBSET D : g[s] \in Nat}
<1>1. IsSums(g, c, D)
  BY SumsExist
<1> HIDE DEF g
<1>2. g[{}] = 0
  BY <1>1 DEF IsSums
<1>3. ASSUME NEW s \in SUBSET D, s # {}
      PROVE  Picked(s) \in s /\ g[s] = c[Picked(s)] + g[s \ {Picked(s)}]
  BY <1>1, <1>3 DEF IsSums, Picked
<1>4. ASSUME NEW s \in SUBSET D, s # {}, \A x \in s : s \ {x} \in G PROVE s \in G
  <2> DEFINE p == Picked(s)
             rest == g[s \ {p}]
  <2>1. p \in s /\ c[p] \in Nat /\ rest \in Nat
    BY <1>3, <1>4
  <2>2. g[s] = c[p] + rest
    BY <1>3, <1>4
  <2> HIDE DEF p, rest
  <2>3. g[s] \in Nat
    BY <2>1, <2>2
  <2> QED
    BY <2>3
<1>5. {} \in G
  BY <1>2
<1> HIDE DEF G
<1>6. SUBSET D \subseteq G
  BY <1>4, <1>5, BySize
<1> QED
  BY <1>2, <1>3, <1>6 DEF g, G

(* Any element may be taken out first. *)
LEMMA PullOut ==
    ASSUME NEW D, IsFiniteSet(D), NEW c, \A x \in D : c[x] \in Nat,
           NEW s \in SUBSET D, NEW x \in s
    PROVE  Sums(c, D)[s] = c[x] + Sums(c, D)[s \ {x}]
<1> DEFINE g == Sums(c, D)
           G == {t \in SUBSET D : \A y \in t : g[t] = c[y] + g[t \ {y}]}
<1>1. /\ \A t \in SUBSET D : g[t] \in Nat
      /\ \A t \in SUBSET D : t # {} => Picked(t) \in t /\ g[t] = c[Picked(t)] + g[t \ {Picked(t)}]
  BY SumsFacts
<1> HIDE DEF g
<1>2. ASSUME NEW t \in SUBSET D, t # {}, \A y \in t : t \ {y} \in G PROVE t \in G
  <2> SUFFICES ASSUME NEW y \in t PROVE g[t] = c[y] + g[t \ {y}]
    OBVIOUS
  <2> DEFINE p == Picked(t)
  <2>1. p \in t /\ g[t] = c[p] + g[t \ {p}]
    BY <1>1, <1>2
  <2> HIDE DEF p
  <2>2. CASE y = p
    BY <2>1, <2>2
  <2>3. CASE y # p
    <3>1. y \in t \ {p} /\ p \in t \ {y} /\ (t \ {p}) \ {y} = (t \ {y}) \ {p}
      BY <2>1, <2>3
    <3>2. g[t \ {p}] = c[y] + g[(t \ {p}) \ {y}] /\ g[t \ {y}] = c[p] + g[(t \ {y}) \ {p}]
      BY <1>2, <2>1, <3>1
    <3> DEFINE rest == g[(t \ {y}) \ {p}]
    <3>3. c[y] \in Nat /\ c[p] \in Nat /\ rest \in Nat
      BY <1>1, <2>1
    <3>4. g[t \ {p}] = c[y] + rest /\ g[t \ {y}] = c[p] + rest
      BY <3>1, <3>2
    <3> HIDE DEF rest
    <3> QED
      BY <2>1, <3>3, <3>4
  <2> QED
    BY <2>2, <2>3
<1>3. {} \in G
  OBVIOUS
<1> HIDE DEF G
<1>4. SUBSET D \subseteq G
  BY <1>2, <1>3, BySize
<1> QED
  BY <1>4 DEF g, G

(* Sums of what is the same are the same. *)
LEMMA SameSums ==
    ASSUME NEW D, IsFiniteSet(D), NEW c, NEW d, \A x \in D : c[x] \in Nat /\ d[x] \in Nat,
           NEW s \in SUBSET D, \A x \in s : c[x] = d[x]
    PROVE  Sums(c, D)[s] = Sums(d, D)[s]
<1> DEFINE g == Sums(c, D)
           h == Sums(d, D)
           G == {t \in SUBSET D : t \subseteq s => g[t] = h[t]}
<1>1. /\ g[{}] = 0 /\ h[{}] = 0
      /\ \A t \in SUBSET D : t # {} => Picked(t) \in t /\ g[t] = c[Picked(t)] + g[t \ {Picked(t)}]
      /\ \A t \in SUBSET D : t # {} => Picked(t) \in t /\ h[t] = d[Picked(t)] + h[t \ {Picked(t)}]
  BY SumsFacts
<1> HIDE DEF g, h
<1>2. ASSUME NEW t \in SUBSET D, t # {}, \A x \in t : t \ {x} \in G PROVE t \in G
  <2>1. Picked(t) \in t /\ g[t] = c[Picked(t)] + g[t \ {Picked(t)}] /\ h[t] = d[Picked(t)] + h[t \ {Picked(t)}]
    BY <1>1, <1>2
  <2> QED
    BY <1>2, <2>1
<1>3. {} \in G
  BY <1>1
<1> HIDE DEF G
<1>4. SUBSET D \subseteq G
  BY <1>2, <1>3, BySize
<1> QED
  BY <1>4 DEF g, h, G

(* The sum of sums. *)
LEMMA AddedSums ==
    ASSUME NEW D, IsFiniteSet(D), NEW c, NEW d, NEW e,
           \A x \in D : c[x] \in Nat /\ d[x] \in Nat /\ e[x] = c[x] + d[x],
           NEW s \in SUBSET D
    PROVE  Sums(e, D)[s] = Sums(c, D)[s] + Sums(d, D)[s]
<1> DEFINE g == Sums(c, D)
           h == Sums(d, D)
           k == Sums(e, D)
           G == {t \in SUBSET D : k[t] = g[t] + h[t]}
<1>0. \A x \in D : c[x] \in Nat /\ d[x] \in Nat /\ e[x] \in Nat
  OBVIOUS
<1>1. /\ g[{}] = 0 /\ h[{}] = 0 /\ k[{}] = 0
      /\ \A t \in SUBSET D : g[t] \in Nat
      /\ \A t \in SUBSET D : h[t] \in Nat
      /\ \A t \in SUBSET D : t # {} => Picked(t) \in t /\ g[t] = c[Picked(t)] + g[t \ {Picked(t)}]
      /\ \A t \in SUBSET D : t # {} => Picked(t) \in t /\ h[t] = d[Picked(t)] + h[t \ {Picked(t)}]
      /\ \A t \in SUBSET D : t # {} => Picked(t) \in t /\ k[t] = e[Picked(t)] + k[t \ {Picked(t)}]
  BY <1>0, SumsFacts
<1> HIDE DEF g, h, k
<1>2. ASSUME NEW t \in SUBSET D, t # {}, \A x \in t : t \ {x} \in G PROVE t \in G
  <2> DEFINE p == Picked(t)
             r == t \ {p}
  <2>1. p \in t /\ g[t] = c[p] + g[r] /\ h[t] = d[p] + h[r] /\ k[t] = e[p] + k[r]
    BY <1>1, <1>2
  <2>2. r \in SUBSET D /\ r \in G
    BY <1>2, <2>1
  <2> HIDE DEF p, r
  <2>3. k[r] = g[r] + h[r] /\ g[r] \in Nat /\ h[r] \in Nat
    BY <1>1, <2>2
  <2>4. c[p] \in Nat /\ d[p] \in Nat /\ e[p] = c[p] + d[p]
    BY <1>2, <2>1
  <2>5. k[t] = g[t] + h[t]
    BY <2>1, <2>3, <2>4
  <2> QED
    BY <2>5
<1>3. {} \in G
  BY <1>1
<1> HIDE DEF G
<1>4. SUBSET D \subseteq G
  BY <1>2, <1>3, BySize
<1> QED
  BY <1>4 DEF g, h, k, G

(* The total of a table of numbers. *)
LEMMA TotalIsNat ==
    ASSUME NEW D, IsFiniteSet(D), NEW c \in [D -> Nat]
    PROVE  Total(c) \in Nat
BY TotalIsSum, SumsFacts

LEMMA TotalOfNothing ==
    ASSUME NEW D, IsFiniteSet(D), NEW c \in [D -> Nat], \A x \in D : c[x] = 0
    PROVE  Total(c) = 0
<1> DEFINE G == {t \in SUBSET D : Sums(c, D)[t] = 0}
<1>1. /\ Sums(c, D)[{}] = 0
      /\ \A t \in SUBSET D : t # {} => /\ Picked(t) \in t
                                       /\ Sums(c, D)[t] = c[Picked(t)] + Sums(c, D)[t \ {Picked(t)}]
  BY SumsFacts
<1>2. ASSUME NEW t \in SUBSET D, t # {}, \A x \in t : t \ {x} \in G PROVE t \in G
  <2>1. Picked(t) \in t /\ Sums(c, D)[t] = c[Picked(t)] + Sums(c, D)[t \ {Picked(t)}]
    BY <1>1, <1>2
  <2>2. c[Picked(t)] = 0 /\ Sums(c, D)[t \ {Picked(t)}] = 0
    BY <1>2, <2>1
  <2> QED
    BY <2>1, <2>2
<1>3. {} \in G
  BY <1>1
<1> HIDE DEF G
<1>4. D \in G
  BY <1>2, <1>3, BySize
<1> QED
  BY <1>4, TotalIsSum DEF G

LEMMA TotalOfUpdated ==
    ASSUME NEW D, IsFiniteSet(D), NEW c \in [D -> Nat], NEW d \in [D -> Nat], NEW x \in D,
           \A y \in D : y # x => d[y] = c[y]
    PROVE  Total(d) + c[x] = Total(c) + d[x]
<1>1. \A y \in D : c[y] \in Nat /\ d[y] \in Nat
  OBVIOUS
<1>2. D \in SUBSET D /\ D \ {x} \in SUBSET D
  OBVIOUS
<1>3. Total(c) = c[x] + Sums(c, D)[D \ {x}]
  <2>1. Sums(c, D)[D] = c[x] + Sums(c, D)[D \ {x}]
    BY <1>1, <1>2, PullOut
  <2> QED
    BY <2>1, TotalIsSum
<1>4. Total(d) = d[x] + Sums(d, D)[D \ {x}]
  <2>1. Sums(d, D)[D] = d[x] + Sums(d, D)[D \ {x}]
    BY <1>1, <1>2, PullOut
  <2> QED
    BY <2>1, TotalIsSum
<1>5. Sums(d, D)[D \ {x}] = Sums(c, D)[D \ {x}]
  BY <1>1, <1>2, SameSums
<1>6. Sums(c, D)[D \ {x}] \in Nat
  BY <1>1, <1>2, SumsFacts
<1> QED
  BY <1>1, <1>3, <1>4, <1>5, <1>6

LEMMA TotalOfSum ==
    ASSUME NEW D, IsFiniteSet(D), NEW c \in [D -> Nat], NEW d \in [D -> Nat], NEW e,
           e = [x \in D |-> c[x] + d[x]]
    PROVE  Total(e) = Total(c) + Total(d)
<1>1. \A x \in D : c[x] \in Nat /\ d[x] \in Nat /\ e[x] = c[x] + d[x]
  OBVIOUS
<1>2. Sums(e, D)[D] = Sums(c, D)[D] + Sums(d, D)[D]
  BY <1>1, AddedSums
<1> QED
  BY <1>2, TotalIsSum

----------------------------------------------------------------------------
(* The types.  No save has to succeed for them. *)

Counts == [Fields -> Nat]

LEMMA AddMappingPointFacts ==
    ASSUME NEW p \in CPatches, p.triangleList # NoList
    PROVE  /\ CutOff(p) \in Nat
           /\ AddMappingPoint(p) \in CPatches
           /\ AddMappingPoint(p).triangleList \in Nat
           /\ AddMappingPoint(p).shown = p.shown + CutOff(p)
<1>1. p.triangleList \in Nat /\ p.numTriangles \in Nat /\ p.shown \in Nat
  BY DEF CPatches
<1>2. CutOff(p) \in Nat
  BY <1>1 DEF CutOff
<1>3. CASE CutOff(p) > 0
  <2> DEFINE shown == p.shown + CutOff(p)
  <2>1. AddMappingPoint(p) = [isDrawing |-> p.isDrawing, triangleList |-> 0,
                              numTriangles |-> 0, shown |-> shown]
    BY <1>3 DEF AddMappingPoint, CPatches
  <2>2. shown \in Nat /\ p.isDrawing \in BOOLEAN
    BY <1>1, <1>2 DEF CPatches
  <2> HIDE DEF shown
  <2>3. AddMappingPoint(p) \in CPatches
    BY <2>1, <2>2 DEF CPatches
  <2> QED
    BY <1>2, <2>1, <2>3 DEF shown
<1>4. CASE ~(CutOff(p) > 0)
  <2> DEFINE list == p.triangleList + 1
             number == p.numTriangles + 1
  <2>1. AddMappingPoint(p) = [isDrawing |-> p.isDrawing, triangleList |-> list,
                              numTriangles |-> number, shown |-> p.shown]
    BY <1>4 DEF AddMappingPoint, CPatches
  <2>2. list \in Nat /\ number \in Nat /\ p.isDrawing \in BOOLEAN
    BY <1>1 DEF CPatches
  <2>3. p.shown = p.shown + CutOff(p)
    BY <1>1, <1>2, <1>4
  <2> HIDE DEF list, number
  <2>4. AddMappingPoint(p) \in CPatches
    BY <1>1, <2>1, <2>2 DEF CPatches
  <2>5. AddMappingPoint(p).triangleList \in Nat /\ AddMappingPoint(p).shown = p.shown
    BY <2>1, <2>2
  <2> QED
    BY <1>2, <2>3, <2>4, <2>5
<1> QED
  BY <1>3, <1>4

LEMMA TurnMappingFacts ==
    ASSUME NEW p \in CPatches
    PROVE  /\ TurnMappingOn(p) \in CPatches
           /\ TurnMappingOn(p).shown = p.shown
           /\ p.triangleList # NoList =>
                 /\ SetAside(p) \in Nat
                 /\ TurnMappingOff(p) \in CPatches
                 /\ TurnMappingOff(p).shown = p.shown + SetAside(p)
<1>1. TurnMappingOn(p) \in CPatches /\ TurnMappingOn(p).shown = p.shown
  BY DEF CPatches, TurnMappingOn
<1>2. ASSUME p.triangleList # NoList
      PROVE  /\ SetAside(p) \in Nat
             /\ TurnMappingOff(p) \in CPatches
             /\ TurnMappingOff(p).shown = p.shown + SetAside(p)
  <2> DEFINE q == AddMappingPoint(p)
  <2>1. /\ CutOff(p) \in Nat /\ q.triangleList \in Nat
        /\ q.shown = p.shown + CutOff(p) /\ p.shown \in Nat
    BY <1>2, AddMappingPointFacts DEF CPatches
  <2>2. SetAside(p) = CutOff(p) + q.triangleList
    BY DEF SetAside
  <2>3. TurnMappingOff(p) = [isDrawing |-> FALSE, triangleList |-> 0, numTriangles |-> 0,
                            shown |-> q.shown + q.triangleList]
    BY DEF TurnMappingOff
  <2> HIDE DEF q
  <2>4. q.shown + q.triangleList \in Nat /\ q.shown + q.triangleList = p.shown + SetAside(p)
    BY <2>1, <2>2
  <2>5. SetAside(p) \in Nat
    BY <2>1, <2>2
  <2> QED
    BY <2>3, <2>4, <2>5 DEF CPatches
<1> QED
  BY <1>1, <1>2

LEMMA QueueFacts ==
    ASSUME TypeOK, IsOpen, NEW pairs \in Nat
    PROVE  /\ Queue(pairs) \in Counts
           /\ Total(Queue(pairs)) = Total(patchSaveList) + pairs
<1> DEFINE f == currentFieldDirectory
           list == Queue(pairs)
<1>1. f \in Fields /\ patchSaveList \in Counts
  BY DEF TypeOK, IsOpen, Counts
<1>2. list = [patchSaveList EXCEPT ![f] = patchSaveList[f] + pairs]
  BY DEF Queue
<1>3. patchSaveList[f] \in Nat /\ patchSaveList[f] + pairs \in Nat
  BY <1>1 DEF Counts
<1> HIDE DEF list, f
<1>4. list \in Counts /\ list[f] = patchSaveList[f] + pairs /\ \A g \in Fields : g # f => list[g] = patchSaveList[g]
  BY <1>1, <1>2, <1>3 DEF Counts
<1>5. Total(list) + patchSaveList[f] = Total(patchSaveList) + list[f]
  BY <1>1, <1>4, FieldsAssumption, TotalOfUpdated DEF Counts
<1>6. Total(list) \in Nat /\ Total(patchSaveList) \in Nat
  BY <1>1, <1>4, FieldsAssumption, TotalIsNat DEF Counts
<1>7. Total(list) = Total(patchSaveList) + pairs
  BY <1>3, <1>4, <1>5, <1>6
<1> QED
  BY <1>4, <1>7 DEF list

(* What an operation on the strips that draw sets aside. *)
LEMMA CutOffs ==
    ASSUME TypeOK, ~ListMissing
    PROVE  /\ [s \in Strips |-> IF s \in Drawing THEN CutOff(strip[s]) ELSE 0] \in [Strips -> Nat]
           /\ [s \in Strips |-> IF s \in Drawing THEN SetAside(strip[s]) ELSE 0] \in [Strips -> Nat]
<1>1. \A s \in Drawing : s \in Strips /\ strip[s] \in CPatches /\ strip[s].triangleList # NoList
  BY DEF TypeOK, ListMissing, Drawing
<1>2. \A s \in Drawing : CutOff(strip[s]) \in Nat /\ SetAside(strip[s]) \in Nat
  BY <1>1, AddMappingPointFacts, TurnMappingFacts
<1> QED
  BY <1>2

LEMMA StoppedFacts ==
    ASSUME TypeOK, IsOpen, ~ListMissing
    PROVE  Stopped \in Counts
BY CutOffs, StripsAssumption, TotalIsNat, QueueFacts DEF Stopped

(* Appending adds up. *)
LEMMA AppendedFacts ==
    ASSUME NEW files \in [Fields -> Counts], NEW f \in Fields, NEW list \in Counts
    PROVE  /\ Appended(files, f, list) \in [Fields -> Counts]
           /\ Total(Appended(files, f, list)[f]) = Total(files[f]) + Total(list)
<1> DEFINE sum == [g \in Fields |-> files[f][g] + list[g]]
<1>1. Appended(files, f, list) = [files EXCEPT ![f] = sum]
  BY DEF Appended
<1>2. sum \in Counts
  BY DEF Counts
<1>3. Total(sum) = Total(files[f]) + Total(list)
  BY FieldsAssumption, TotalOfSum DEF Counts
<1> HIDE DEF sum
<1> QED
  BY <1>1, <1>2, <1>3

LEMMA NothingIsCounts == Nothing \in Counts /\ Total(Nothing) = 0
<1>1. Nothing \in [Fields -> Nat] /\ \A g \in Fields : Nothing[g] = 0
  BY DEF Nothing
<1>2. Total(Nothing) = 0
  BY <1>1, FieldsAssumption, TotalOfNothing
<1> QED
  BY <1>1, <1>2 DEF Counts

LEMMA AfterCloseFacts ==
    ASSUME TypeOK, NEW isSaved \in BOOLEAN, MayClose(isSaved)
    PROVE  /\ AfterClose(isSaved).list \in Counts
           /\ AfterClose(isSaved).files \in [Fields -> Counts]
<1>1. patchSaveList \in Counts /\ sectionsTxt \in [Fields -> Counts]
  BY DEF TypeOK, Counts
<1>2. IsOpen => Stopped \in Counts
  BY StoppedFacts DEF MayClose
<1>3. CASE ~IsOpen \/ ~isSaved
  BY <1>1, <1>2, <1>3 DEF AfterClose
<1>4. CASE IsOpen /\ isSaved
  <2>1. AfterClose(isSaved) =
          [list |-> Nothing, files |-> Appended(sectionsTxt, currentFieldDirectory, Stopped)]
    BY <1>4 DEF AfterClose
  <2>2. currentFieldDirectory \in Fields
    BY <1>4 DEF IsOpen, TypeOK
  <2>3. Appended(sectionsTxt, currentFieldDirectory, Stopped) \in [Fields -> Counts]
    BY <1>1, <1>2, <1>4, <2>2, AppendedFacts
  <2> QED
    BY <2>1, <2>3, NothingIsCounts
<1> QED
  BY <1>3, <1>4

(* What opening a field shows is what its file holds. *)
LEMMA LoadedFacts ==
    ASSUME NEW pairs \in Counts
    PROVE  /\ Loaded(pairs) \in [Strips -> CPatches]
           /\ Total([s \in Strips |-> Loaded(pairs)[s].shown]) = Total(pairs)
           /\ NewStrips \in [Strips -> CPatches]
           /\ Total([s \in Strips |-> NewStrips[s].shown]) = 0
<1> DEFINE first == CHOOSE s \in Strips : TRUE
           before == [s \in Strips |-> NewStrips[s].shown]
           after == [s \in Strips |-> Loaded(pairs)[s].shown]
<1>1. first \in Strips
  BY StripsAssumption
<1>2. Total(pairs) \in Nat
  BY FieldsAssumption, TotalIsNat DEF Counts
<1>3. NewStrip \in CPatches /\ NewStrip.shown = 0
  BY DEF NewStrip, CPatches
<1>4. NewStrips \in [Strips -> CPatches] /\ \A s \in Strips : NewStrips[s] = NewStrip
  BY <1>3 DEF NewStrips
<1>5. Loaded(pairs) = [NewStrips EXCEPT ![first] = [NewStrips[first] EXCEPT !.shown = Total(pairs)]]
  BY DEF Loaded
<1> HIDE DEF first
<1>6. [NewStrip EXCEPT !.shown = Total(pairs)] \in CPatches /\ [NewStrip EXCEPT !.shown = Total(pairs)].shown = Total(pairs)
  BY <1>2, <1>3 DEF CPatches
<1>7. /\ Loaded(pairs) \in [Strips -> CPatches]
      /\ Loaded(pairs)[first].shown = Total(pairs)
      /\ \A s \in Strips : s # first => Loaded(pairs)[s] = NewStrip
  BY <1>1, <1>4, <1>5, <1>6
<1>8. before \in [Strips -> Nat] /\ \A s \in Strips : before[s] = 0
  BY <1>3, <1>4
<1>9. Total(before) = 0
  BY <1>8, StripsAssumption, TotalOfNothing
<1>10. /\ after \in [Strips -> Nat] /\ after[first] = Total(pairs)
       /\ \A s \in Strips : s # first => after[s] = before[s]
  BY <1>1, <1>2, <1>3, <1>7, <1>8
<1> HIDE DEF before, after
<1>11. Total(after) + before[first] = Total(before) + after[first]
  BY <1>1, <1>8, <1>10, StripsAssumption, TotalOfUpdated
<1>12. Total(after) = Total(pairs)
  <2>1. Total(after) \in Nat
    BY <1>10, StripsAssumption, TotalIsNat
  <2> QED
    BY <1>1, <1>2, <1>8, <1>9, <1>10, <1>11, <2>1
<1> QED
  BY <1>4, <1>7, <1>9, <1>12 DEF before, after

(* One strip changes. *)
LEMMA StripChanged ==
    ASSUME TypeOK, NEW s \in Strips, NEW p \in CPatches, strip' = [strip EXCEPT ![s] = p]
    PROVE  /\ strip' \in [Strips -> CPatches]
           /\ Shown' + strip[s].shown = Shown + p.shown
           /\ Shown \in Nat /\ Shown' \in Nat
<1> DEFINE before == [r \in Strips |-> strip[r].shown]
           after == [r \in Strips |-> strip'[r].shown]
<1>1. strip \in [Strips -> CPatches] /\ \A r \in Strips : strip[r].shown \in Nat
  BY DEF TypeOK, CPatches
<1>2. /\ strip' \in [Strips -> CPatches] /\ strip'[s] = p
      /\ \A r \in Strips : r # s => strip'[r] = strip[r]
  BY <1>1
<1>3. p.shown \in Nat
  BY DEF CPatches
<1>4. before \in [Strips -> Nat] /\ after \in [Strips -> Nat]
  BY <1>1, <1>2, <1>3
<1>5. /\ before[s] = strip[s].shown /\ after[s] = p.shown
      /\ \A r \in Strips : r # s => after[r] = before[r]
  BY <1>2
<1>6. Shown = Total(before) /\ Shown' = Total(after)
  BY DEF Shown
<1> HIDE DEF before, after
<1>7. Total(after) + before[s] = Total(before) + after[s]
  BY <1>4, <1>5, StripsAssumption, TotalOfUpdated
<1>8. Total(before) \in Nat /\ Total(after) \in Nat
  BY <1>4, StripsAssumption, TotalIsNat
<1> QED
  BY <1>2, <1>5, <1>6, <1>7, <1>8

(* Every strip that draws grows. *)
LEMMA StripsGrown ==
    ASSUME TypeOK, ~ListMissing,
           strip' = [s \in Strips |-> IF s \in Drawing THEN AddMappingPoint(strip[s]) ELSE strip[s]]
    PROVE  /\ strip' \in [Strips -> CPatches]
           /\ Shown' = Shown + Total([s \in Strips |-> IF s \in Drawing THEN CutOff(strip[s]) ELSE 0])
<1> DEFINE before == [r \in Strips |-> strip[r].shown]
           after == [r \in Strips |-> strip'[r].shown]
           more == [s \in Strips |-> IF s \in Drawing THEN CutOff(strip[s]) ELSE 0]
<1>1. /\ strip \in [Strips -> CPatches] /\ \A r \in Strips : strip[r].shown \in Nat
      /\ Drawing \subseteq Strips
  BY DEF TypeOK, CPatches, Drawing
<1>2. \A s \in Drawing : /\ AddMappingPoint(strip[s]) \in CPatches
                         /\ AddMappingPoint(strip[s]).shown = strip[s].shown + CutOff(strip[s])
  BY <1>1, AddMappingPointFacts DEF ListMissing
<1>3. strip' \in [Strips -> CPatches]
  BY <1>1, <1>2
<1>4. \A s \in Strips : strip'[s].shown = strip[s].shown + more[s]
  <2> TAKE s \in Strips
  <2>1. CASE s \in Drawing
    BY <1>2, <2>1
  <2>2. CASE s \notin Drawing
    BY <1>1, <2>2
  <2> QED
    BY <2>1, <2>2
<1>5. before \in [Strips -> Nat] /\ more \in [Strips -> Nat]
  BY <1>1, CutOffs
<1>6. after = [s \in Strips |-> before[s] + more[s]]
  BY <1>4
<1>7. Shown = Total(before) /\ Shown' = Total(after)
  BY DEF Shown
<1> HIDE DEF before, after, more
<1>8. Total(after) = Total(before) + Total(more)
  BY <1>5, <1>6, StripsAssumption, TotalOfSum
<1> QED
  BY <1>3, <1>7, <1>8 DEF more

(* What is shown more waits to be written. *)
LEMMA Grown ==
    ASSUME TypeOK, MapMatchesFile, IsOpen, NEW pairs \in Nat, patchSaveList' = Queue(pairs),
           UNCHANGED <<currentFieldDirectory, sectionsTxt>>, Shown' = Shown + pairs
    PROVE  MapMatchesFile'
<1>1. Shown = Total(sectionsTxt[currentFieldDirectory]) + Total(patchSaveList)
  BY DEF MapMatchesFile
<1>2. Total(patchSaveList') = Total(patchSaveList) + pairs
  BY QueueFacts
<1>3. Total(patchSaveList) \in Nat
  BY FieldsAssumption, TotalIsNat DEF TypeOK
<1>4. Total(sectionsTxt[currentFieldDirectory]) \in Nat
  <2>1. sectionsTxt[currentFieldDirectory] \in [Fields -> Nat]
    BY DEF TypeOK, IsOpen
  <2> QED
    BY <2>1, FieldsAssumption, TotalIsNat
<1>5. Shown' = Total(sectionsTxt[currentFieldDirectory]) + Total(patchSaveList')
  BY <1>1, <1>2, <1>3, <1>4
<1> QED
  BY <1>5 DEF MapMatchesFile

(* The steps of the strips keep the types and what is shown matched.        *)
LEMMA OneStripSteps ==
    ASSUME TypeOK, NEW s \in Strips, StartStrip(s) \/ RestartStrip(s) \/ MoveStrip(s) \/ StopStrip(s)
    PROVE  TypeOK' /\ (MapMatchesFile => MapMatchesFile')
<1> DEFINE p == strip[s]
<1>1. p \in CPatches /\ p.shown \in Nat
  BY DEF TypeOK, CPatches
<1>2. UNCHANGED <<currentFieldDirectory, isStuck, isMultiColoredSections, sectionsTxt>> /\ IsOpen
  BY DEF StartStrip, RestartStrip, MoveStrip, StopStrip, IsAtWork
<1>3. ASSUME strip' \in [Strips -> CPatches], patchSaveList' \in Counts PROVE TypeOK'
  BY <1>2, <1>3 DEF TypeOK, Counts
<1>4. CASE StartStrip(s) \/ RestartStrip(s)
  <2>1. strip' = [strip EXCEPT ![s] = TurnMappingOn(p)] /\ patchSaveList' = patchSaveList
    BY <1>4 DEF StartStrip, RestartStrip
  <2>2. TurnMappingOn(p) \in CPatches /\ TurnMappingOn(p).shown = p.shown
    BY <1>1, TurnMappingFacts
  <2> HIDE DEF p
  <2>3. /\ strip' \in [Strips -> CPatches] /\ Shown \in Nat /\ Shown' \in Nat
        /\ Shown' + p.shown = Shown + p.shown
    BY <2>1, <2>2, StripChanged DEF p
  <2>4. Shown' = Shown
    BY <1>1, <2>3
  <2>5. TypeOK'
    BY <1>3, <2>1, <2>3 DEF TypeOK, Counts
  <2> QED
    BY <1>2, <2>1, <2>4, <2>5 DEF MapMatchesFile, IsOpen
<1>5. CASE MoveStrip(s)
  <2> DEFINE q == AddMappingPoint(p)
             r == AddMappingPoint(q)
             pairs == CutOff(p) + CutOff(q)
  <2>1. strip' = [strip EXCEPT ![s] = r] /\ patchSaveList' = Queue(pairs) /\ p.triangleList # NoList
    BY <1>5 DEF MoveStrip
  <2>2. /\ CutOff(p) \in Nat /\ q \in CPatches /\ q.triangleList \in Nat
        /\ q.shown = p.shown + CutOff(p)
    BY <1>1, <2>1, AddMappingPointFacts
  <2> HIDE DEF p, q
  <2>3. q.triangleList # NoList
    BY <2>2, ListAssumption
  <2>4. CutOff(q) \in Nat /\ r \in CPatches /\ r.shown = q.shown + CutOff(q)
    BY <2>2, <2>3, AddMappingPointFacts
  <2>5. pairs \in Nat /\ r.shown = p.shown + pairs
    BY <1>1, <2>2, <2>4
  <2> HIDE DEF r, pairs
  <2>6. /\ strip' \in [Strips -> CPatches] /\ Shown \in Nat /\ Shown' \in Nat
        /\ Shown' + p.shown = Shown + r.shown
    BY <2>1, <2>4, StripChanged DEF p
  <2>7. Shown' = Shown + pairs
    BY <1>1, <2>5, <2>6
  <2>8. TypeOK'
    BY <1>2, <1>3, <2>1, <2>5, <2>6, QueueFacts
  <2> QED
    BY <1>2, <2>1, <2>5, <2>7, <2>8, Grown
<1>6. CASE StopStrip(s)
  <2> DEFINE q == TurnMappingOff(p)
             pairs == SetAside(p)
  <2>1. strip' = [strip EXCEPT ![s] = q] /\ patchSaveList' = Queue(pairs) /\ p.triangleList # NoList
    BY <1>6 DEF StopStrip
  <2>2. pairs \in Nat /\ q \in CPatches /\ q.shown = p.shown + pairs
    BY <1>1, <2>1, TurnMappingFacts
  <2> HIDE DEF p, q, pairs
  <2>3. /\ strip' \in [Strips -> CPatches] /\ Shown \in Nat /\ Shown' \in Nat
        /\ Shown' + p.shown = Shown + q.shown
    BY <2>1, <2>2, StripChanged DEF p
  <2>4. Shown' = Shown + pairs
    BY <1>1, <2>2, <2>3
  <2>5. TypeOK'
    BY <1>2, <1>3, <2>1, <2>2, <2>3, QueueFacts
  <2> QED
    BY <1>2, <2>1, <2>2, <2>4, <2>5, Grown
<1> QED
  BY <1>4, <1>5, <1>6

LEMMA AllStripsStep ==
    ASSUME TypeOK, AddSectionOrPathPoints
    PROVE  TypeOK' /\ (MapMatchesFile => MapMatchesFile')
<1> DEFINE more == [s \in Strips |-> IF s \in Drawing THEN CutOff(strip[s]) ELSE 0]
<1>1. /\ ~ListMissing /\ IsOpen /\ patchSaveList' = Queue(Total(more))
      /\ strip' = [s \in Strips |-> IF s \in Drawing THEN AddMappingPoint(strip[s]) ELSE strip[s]]
      /\ UNCHANGED <<currentFieldDirectory, isStuck, isMultiColoredSections, sectionsTxt>>
  BY DEF AddSectionOrPathPoints, IsAtWork
<1>2. more \in [Strips -> Nat] /\ strip' \in [Strips -> CPatches] /\ Shown' = Shown + Total(more)
  BY <1>1, CutOffs, StripsGrown
<1> HIDE DEF more
<1>3. Total(more) \in Nat
  BY <1>2, StripsAssumption, TotalIsNat
<1>4. patchSaveList' \in Counts
  BY <1>1, <1>3, QueueFacts
<1> QED
  BY <1>1, <1>2, <1>3, <1>4, Grown DEF TypeOK, Counts

LEMMA TypeInit == Init => TypeOK
<1> SUFFICES ASSUME Init PROVE TypeOK
  OBVIOUS
<1>1. NewStrip \in CPatches
  BY DEF NewStrip, CPatches
<1> QED
  BY <1>1, NothingIsCounts DEF Init, TypeOK, Counts

(* Every step keeps the types, whether the saves succeed or not.            *)
LEMMA TypeStep ==
    ASSUME TypeOK, [Next]_vars
    PROVE  TypeOK'
<1>0. /\ currentFieldDirectory \in Fields \cup {None} /\ isStuck \in BOOLEAN
      /\ isMultiColoredSections \in BOOLEAN /\ strip \in [Strips -> CPatches]
      /\ patchSaveList \in Counts /\ sectionsTxt \in [Fields -> Counts]
  BY DEF TypeOK, Counts
<1>1. ASSUME currentFieldDirectory' \in Fields \cup {None}, isStuck' \in BOOLEAN,
             isMultiColoredSections' = isMultiColoredSections, strip' \in [Strips -> CPatches],
             patchSaveList' \in Counts, sectionsTxt' \in [Fields -> Counts]
      PROVE  TypeOK'
  BY <1>0, <1>1 DEF TypeOK, Counts
<1>2. NewStrips \in [Strips -> CPatches] /\ \A pairs \in Counts : Loaded(pairs) \in [Strips -> CPatches]
  BY LoadedFacts, NothingIsCounts
<1>3. \A files \in [Fields -> Counts], f \in Fields : [files EXCEPT ![f] = Nothing] \in [Fields -> Counts]
  BY NothingIsCounts
<1>4. ASSUME NEW isSaved \in BOOLEAN, MayClose(isSaved)
      PROVE  AfterClose(isSaved).list \in Counts /\ AfterClose(isSaved).files \in [Fields -> Counts]
  BY <1>4, AfterCloseFacts
<1>5. CASE AutoSave
  <2>1. currentFieldDirectory \in Fields
    BY <1>0, <1>5 DEF AutoSave, IsAtWork, IsOpen
  <2>2. sectionsTxt' \in [Fields -> Counts] /\ patchSaveList' \in Counts
    BY <1>0, <1>5, <2>1, AppendedFacts, NothingIsCounts DEF AutoSave
  <2> QED
    BY <1>0, <1>1, <1>5, <2>2 DEF AutoSave
<1>6. ASSUME NEW isSaved \in BOOLEAN, CloseField(isSaved) PROVE TypeOK'
  BY <1>0, <1>1, <1>2, <1>4, <1>6 DEF CloseField
<1>7. ASSUME NEW isSaved \in BOOLEAN, NEW f \in Fields, OpenField(f, isSaved) PROVE TypeOK'
  <2>1. /\ AfterClose(isSaved).list \in Counts /\ AfterClose(isSaved).files \in [Fields -> Counts]
        /\ AfterClose(isSaved).files[f] \in Counts
    BY <1>4, <1>7 DEF OpenField
  <2>2. strip' \in [Strips -> CPatches]
    BY <1>2, <1>7, <2>1 DEF OpenField
  <2> QED
    BY <1>0, <1>1, <1>7, <2>1, <2>2 DEF OpenField
<1>8. ASSUME NEW isSaved \in BOOLEAN, NEW f \in Fields, CreateField(f, isSaved) PROVE TypeOK'
  <2>1. AfterClose(isSaved).list \in Counts /\ AfterClose(isSaved).files \in [Fields -> Counts]
    BY <1>4, <1>8 DEF CreateField
  <2>2. sectionsTxt' \in [Fields -> Counts]
    BY <1>3, <1>8, <2>1 DEF CreateField
  <2> QED
    BY <1>0, <1>1, <1>2, <1>8, <2>1, <2>2 DEF CreateField
<1>9. ASSUME NEW isSaved \in BOOLEAN, NEW f \in Fields, NEW g \in Fields, NEW isMapped \in BOOLEAN,
             CreateFieldFrom(g, f, isMapped, isSaved)
      PROVE  TypeOK'
  <2> DEFINE closed == AfterClose(isSaved)
             copied == IF isMapped THEN Total(closed.files[g]) ELSE 0
             list == [closed.list EXCEPT ![f] = @ + copied]
             files == [closed.files EXCEPT ![f] = Nothing]
  <2>1. closed.list \in Counts /\ closed.files \in [Fields -> Counts] /\ closed.files[g] \in Counts
    BY <1>4, <1>9 DEF CreateFieldFrom
  <2>2. /\ sectionsTxt' = Appended(files, f, list)
        /\ strip' = IF isMapped THEN Loaded(closed.files[g]) ELSE NewStrips
        /\ patchSaveList' = Nothing /\ currentFieldDirectory' = f
        /\ UNCHANGED <<isStuck, isMultiColoredSections>>
    BY <1>9 DEF CreateFieldFrom
  <2> HIDE DEF closed
  <2>3. copied \in Nat
    BY <2>1, FieldsAssumption, TotalIsNat DEF Counts
  <2> HIDE DEF copied
  <2>4. list \in Counts
    BY <2>1, <2>3 DEF Counts
  <2>5. files \in [Fields -> Counts]
    BY <1>3, <2>1
  <2> HIDE DEF list, files
  <2>6. sectionsTxt' \in [Fields -> Counts]
    BY <2>2, <2>4, <2>5, AppendedFacts
  <2>7. strip' \in [Strips -> CPatches]
    BY <1>2, <2>1, <2>2
  <2> QED
    BY <1>0, <1>1, <2>2, <2>6, <2>7, NothingIsCounts
<1>10. ASSUME NEW f \in Fields, CreateFieldFromKML(f) PROVE TypeOK'
  <2>1. isStuck' \in BOOLEAN
    BY <1>10 DEF CreateFieldFromKML, IsOpen
  <2>2. sectionsTxt' \in [Fields -> Counts] /\ strip' \in [Strips -> CPatches]
        /\ currentFieldDirectory' \in Fields \cup {None}
    BY <1>0, <1>2, <1>3, <1>10 DEF CreateFieldFromKML
  <2> QED
    BY <1>0, <1>1, <1>10, <2>1, <2>2 DEF CreateFieldFromKML
<1>11. ASSUME NEW f \in Fields, DeleteField(f) PROVE TypeOK'
  <2>1. sectionsTxt' \in [Fields -> Counts]
    BY <1>0, <1>3, <1>11 DEF DeleteField
  <2> QED
    BY <1>0, <1>1, <1>11, <2>1 DEF DeleteField
<1>12. CASE DeleteAppliedArea
  <2>1. \A s \in Strips : [strip[s] EXCEPT !.triangleList = NoList, !.shown = 0] \in CPatches
    BY <1>0 DEF CPatches
  <2>2. strip' \in [Strips -> CPatches]
    BY <1>12, <2>1 DEF DeleteAppliedArea
  <2>3. currentFieldDirectory \in Fields
    BY <1>0, <1>12 DEF DeleteAppliedArea, IsAtWork, IsOpen
  <2>4. sectionsTxt' \in [Fields -> Counts]
    BY <1>0, <1>3, <1>12, <2>3 DEF DeleteAppliedArea
  <2> QED
    BY <1>0, <1>1, <1>12, <2>2, <2>4, NothingIsCounts DEF DeleteAppliedArea
<1>13. CASE Crash
  BY <1>0, <1>1, <1>2, <1>13, NothingIsCounts DEF Crash
<1>14. CASE UNCHANGED vars
  BY <1>0, <1>1, <1>14 DEF vars
<1> QED
  BY <1>5, <1>6, <1>7, <1>8, <1>9, <1>10, <1>11, <1>12, <1>13, <1>14, OneStripSteps, AllStripsStep
  DEF Next

(* The variables keep their types, a strip that lost its list included,     *)
(* whether the saves succeed or not (CPatches, patchSaveList).              *)
THEOREM TypeCorrect == Spec => []TypeOK
BY TypeInit, TypeStep, PTL DEF Spec

----------------------------------------------------------------------------
(* What is shown and what is saved. *)

(* No list waits while no field is open, and none after a close that saves.  *)
LEMMA ClosedListIsEmpty ==
    ASSUME TypeOK, IInv
    PROVE  /\ ~IsOpen => Total(patchSaveList) = 0
           /\ MayClose(TRUE) => Total(AfterClose(TRUE).list) = 0
<1>1. ASSUME NEW list \in Counts, \A g \in Fields : list[g] = 0 PROVE Total(list) = 0
  BY <1>1, FieldsAssumption, TotalOfNothing DEF Counts
<1>2. ASSUME ~IsOpen PROVE Total(patchSaveList) = 0
  <2>1. \A g \in Fields : patchSaveList[g] = 0
    BY <1>2, NoneAssumption DEF IsOpen, IInv, ListIsOwn
  <2>2. patchSaveList \in Counts
    BY DEF TypeOK, Counts
  <2> QED
    BY <1>1, <2>1, <2>2
<1>3. ASSUME MayClose(TRUE) PROVE Total(AfterClose(TRUE).list) = 0
  <2>1. AfterClose(TRUE).list \in Counts
    BY <1>3, AfterCloseFacts
  <2> QED
    BY <1>1, <2>1, CloseKeepsOwn
<1> QED
  BY <1>2, <1>3

(* Every step keeps the map and the file matched if the last save of a      *)
(* field succeeds.                                                          *)
LEMMA MatchStep ==
    ASSUME CloseMayFail = FALSE, TypeOK, IInv, MapMatchesFile, [Next]_vars
    PROVE  MapMatchesFile'
<1> DEFINE closed == AfterClose(TRUE)
<1>0. Shown' = Total([s \in Strips |-> strip'[s].shown])
  BY DEF Shown
<1>1. ASSUME NEW isSaved \in BOOLEAN, MayClose(isSaved)
      PROVE  isSaved = TRUE /\ closed.list \in Counts /\ closed.files \in [Fields -> Counts] /\ Total(closed.list) = 0
  <2>1. isSaved = TRUE
    BY <1>1 DEF MayClose
  <2> QED
    BY <1>1, <2>1, AfterCloseFacts, ClosedListIsEmpty
<1>2. patchSaveList \in Counts /\ sectionsTxt \in [Fields -> Counts]
  BY DEF TypeOK, Counts
<1>3. \A pairs \in Counts : Total(pairs) \in Nat
  BY FieldsAssumption, TotalIsNat DEF Counts
<1>4. ASSUME currentFieldDirectory' = None PROVE MapMatchesFile'
  BY <1>4 DEF MapMatchesFile, IsOpen
\* A field is open in which nothing waits.
<1>5. ASSUME NEW f \in Fields, NEW n \in Nat, currentFieldDirectory' = f, Shown' = n,
             Total(sectionsTxt'[f]) = n, Total(patchSaveList') = 0
      PROVE  MapMatchesFile'
  <2>1. n = n + 0
    OBVIOUS
  <2>2. Shown' = Total(sectionsTxt'[currentFieldDirectory']) + Total(patchSaveList')
    BY <1>5, <2>1
  <2> QED
    BY <2>2 DEF MapMatchesFile
<1>6. CASE AutoSave
  <2>1. /\ currentFieldDirectory \in Fields /\ currentFieldDirectory' = currentFieldDirectory
        /\ Shown' = Shown
        /\ Shown = Total(sectionsTxt[currentFieldDirectory]) + Total(patchSaveList)
    BY <1>6 DEF AutoSave, IsAtWork, IsOpen, TypeOK, MapMatchesFile, Shown
  <2>2. Total(sectionsTxt'[currentFieldDirectory]) = Total(sectionsTxt[currentFieldDirectory]) + Total(patchSaveList)
    BY <1>2, <1>6, <2>1, AppendedFacts DEF AutoSave
  <2>3. Total(patchSaveList') = 0
    BY <1>6, NothingIsCounts DEF AutoSave
  <2>4. sectionsTxt[currentFieldDirectory] \in Counts
    BY <1>2, <2>1
  <2>5. Shown \in Nat
    BY <1>2, <1>3, <2>1, <2>4
  <2> QED
    BY <1>5, <2>1, <2>2, <2>3, <2>5
<1>7. ASSUME NEW isSaved \in BOOLEAN, CloseField(isSaved) PROVE MapMatchesFile'
  BY <1>4, <1>7 DEF CloseField
<1>8. ASSUME NEW isSaved \in BOOLEAN, NEW f \in Fields, OpenField(f, isSaved) PROVE MapMatchesFile'
  <2>1. isSaved = TRUE /\ closed.files \in [Fields -> Counts] /\ Total(closed.list) = 0
    BY <1>1, <1>8 DEF OpenField
  <2>2. /\ currentFieldDirectory' = f /\ patchSaveList' = closed.list /\ sectionsTxt' = closed.files
        /\ strip' = Loaded(closed.files[f])
    BY <1>8, <2>1 DEF OpenField
  <2> HIDE DEF closed
  <2>3. closed.files[f] \in Counts
    BY <2>1
  <2>4. Shown' = Total(closed.files[f])
    BY <1>0, <2>2, <2>3, LoadedFacts
  <2> QED
    BY <1>3, <1>5, <2>1, <2>2, <2>3, <2>4
<1>9. ASSUME NEW isSaved \in BOOLEAN, NEW f \in Fields, CreateField(f, isSaved) PROVE MapMatchesFile'
  <2>1. isSaved = TRUE /\ closed.files \in [Fields -> Counts] /\ Total(closed.list) = 0
    BY <1>1, <1>9 DEF CreateField
  <2>2. /\ currentFieldDirectory' = f /\ patchSaveList' = closed.list
        /\ sectionsTxt' = [closed.files EXCEPT ![f] = Nothing] /\ strip' = NewStrips
    BY <1>9, <2>1 DEF CreateField
  <2> HIDE DEF closed
  <2>3. Shown' = 0
    BY <1>0, <2>2, LoadedFacts, NothingIsCounts
  <2>4. Total(sectionsTxt'[f]) = 0
    BY <2>1, <2>2, NothingIsCounts
  <2> QED
    BY <1>5, <2>1, <2>2, <2>3, <2>4
<1>10. ASSUME NEW isSaved \in BOOLEAN, NEW f \in Fields, NEW g \in Fields, NEW isMapped \in BOOLEAN,
              CreateFieldFrom(g, f, isMapped, isSaved)
       PROVE  MapMatchesFile'
  <2> DEFINE copied == IF isMapped THEN Total(closed.files[g]) ELSE 0
             list == [closed.list EXCEPT ![f] = @ + copied]
             files == [closed.files EXCEPT ![f] = Nothing]
  <2>1. /\ isSaved = TRUE /\ closed.list \in Counts /\ closed.files \in [Fields -> Counts]
        /\ \A h \in Fields : closed.list[h] = 0
    BY <1>1, <1>10, CloseKeepsOwn DEF CreateFieldFrom
  <2>2. /\ sectionsTxt' = Appended(files, f, list)
        /\ strip' = IF isMapped THEN Loaded(closed.files[g]) ELSE NewStrips
        /\ patchSaveList' = Nothing /\ currentFieldDirectory' = f
    BY <1>10, <2>1 DEF CreateFieldFrom
  <2> HIDE DEF closed
  <2>3. closed.files[g] \in Counts
    BY <2>1
  <2>4. copied \in Nat
    BY <1>3, <2>3
  <2>5. Shown' = copied
    BY <1>0, <2>2, <2>3, LoadedFacts
  <2> HIDE DEF copied
  <2>6. list \in Counts /\ list[f] = copied /\ \A h \in Fields : h # f => list[h] = 0
    BY <2>1, <2>4 DEF Counts
  <2>7. files \in [Fields -> Counts] /\ files[f] = Nothing
    BY <2>1, NothingIsCounts
  <2> HIDE DEF list, files
  <2>8. Total(list) = copied
    <3>1. Total(list) + closed.list[f] = Total(closed.list) + list[f]
      BY <2>1, <2>6, FieldsAssumption, TotalOfUpdated DEF Counts
    <3>2. Total(closed.list) = 0
      BY <2>1, FieldsAssumption, TotalOfNothing DEF Counts
    <3>3. Total(list) \in Nat
      BY <1>3, <2>6
    <3> QED
      BY <2>1, <2>4, <2>6, <3>1, <3>2, <3>3
  <2>9. Total(sectionsTxt'[f]) = copied
    <3>1. Total(sectionsTxt'[f]) = Total(files[f]) + Total(list)
      BY <2>2, <2>6, <2>7, AppendedFacts
    <3> QED
      BY <2>4, <2>7, <2>8, <3>1, NothingIsCounts
  <2> QED
    BY <1>5, <2>2, <2>4, <2>5, <2>9, NothingIsCounts
<1>11. ASSUME NEW f \in Fields, CreateFieldFromKML(f) PROVE MapMatchesFile'
  <2>1. CASE IsOpen
    BY <1>11, <2>1 DEF CreateFieldFromKML, MapMatchesFile, IsOpen, Shown
  <2>2. CASE ~IsOpen
    <3>1. /\ currentFieldDirectory' = f /\ strip' = NewStrips /\ patchSaveList' = patchSaveList
          /\ sectionsTxt' = [sectionsTxt EXCEPT ![f] = Nothing]
      BY <1>11, <2>2 DEF CreateFieldFromKML
    <3>2. Shown' = 0
      BY <1>0, <3>1, LoadedFacts, NothingIsCounts
    <3>3. Total(sectionsTxt'[f]) = 0
      BY <1>2, <3>1, NothingIsCounts
    <3>4. Total(patchSaveList') = 0
      BY <2>2, <3>1, ClosedListIsEmpty
    <3> QED
      BY <1>5, <3>1, <3>2, <3>3, <3>4
  <2> QED
    BY <2>1, <2>2
<1>12. ASSUME NEW f \in Fields, DeleteField(f) PROVE MapMatchesFile'
  <2>1. /\ f # currentFieldDirectory /\ sectionsTxt' = [sectionsTxt EXCEPT ![f] = Nothing]
        /\ UNCHANGED <<currentFieldDirectory, strip, patchSaveList>>
    BY <1>12 DEF DeleteField
  <2>2. currentFieldDirectory \in Fields => sectionsTxt'[currentFieldDirectory] = sectionsTxt[currentFieldDirectory]
    BY <1>2, <2>1
  <2> QED
    BY <2>1, <2>2 DEF MapMatchesFile, IsOpen, Shown, TypeOK
<1>13. CASE DeleteAppliedArea
  <2> DEFINE after == [s \in Strips |-> strip'[s].shown]
  <2>1. currentFieldDirectory \in Fields /\ currentFieldDirectory' = currentFieldDirectory
    BY <1>13 DEF DeleteAppliedArea, IsAtWork, IsOpen, TypeOK
  <2>2. \A s \in Strips : strip'[s].shown = 0
    BY <1>13 DEF DeleteAppliedArea, TypeOK, CPatches
  <2>3. after \in [Strips -> Nat] /\ \A s \in Strips : after[s] = 0
    BY <2>2
  <2>4. Total(after) = 0
    BY <2>3, StripsAssumption, TotalOfNothing
  <2>5. Total(sectionsTxt'[currentFieldDirectory]) = 0 /\ Total(patchSaveList') = 0
    BY <1>2, <1>13, <2>1, NothingIsCounts DEF DeleteAppliedArea
  <2> QED
    BY <1>0, <1>5, <2>1, <2>4, <2>5
<1>14. CASE Crash
  BY <1>4, <1>14 DEF Crash
<1>15. CASE UNCHANGED vars
  BY <1>15 DEF vars, MapMatchesFile, IsOpen, Shown
<1> QED
  BY <1>6, <1>7, <1>8, <1>9, <1>10, <1>11, <1>12, <1>13, <1>14, <1>15, OneStripSteps, AllStripsStep
  DEF Next

(* What the map shows of the worked area is what the field's file holds and *)
(* what waits to be written, through every way a field is worked, saved,    *)
(* created, copied, opened, closed or deleted, if the save that closes a    *)
(* field does not fail (CPatches, FileSaveSections, FileOpenField).         *)
THEOREM Matches ==
    ASSUME CloseMayFail = FALSE
    PROVE  Spec => []MapMatchesFile
<1>1. Init => MapMatchesFile
  BY DEF Init, MapMatchesFile, IsOpen
<1>2. TypeOK /\ IInv /\ MapMatchesFile /\ [Next]_vars => TypeOK' /\ IInv' /\ MapMatchesFile'
  BY TypeStep, NextIInv, MatchStep
<1> QED
  BY InitIInv, TypeInit, <1>1, <1>2, PTL DEF Spec
=============================================================================
