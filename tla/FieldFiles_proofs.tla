-------------------------- MODULE FieldFiles_proofs --------------------------
(***************************************************************************)
(* What is written into the files of a field is the field's own, once, and *)
(* what a closed field comes back with, for any fields, edits and crashes. *)
(*                                                                         *)
(* Whose an edit is goes into the types: Files(K) are the files that hold  *)
(* no edits but those of K, and Jobs(K) the memory that does.  Loading and *)
(* saving keep K, so that the owner of what is in memory and of what is in *)
(* each file is an invariant of one line each.  Contour strips need more:  *)
(* a strip in the list to save is in no file, and a field that lost its    *)
(* Field.txt, when it was deleted while it was open, shares no strip with  *)
(* another.  A field can be opened as it was closed because nothing writes *)
(* its files while it is closed and still counted as kept.                 *)
(***************************************************************************)
EXTENDS FieldFiles, WellFoundedInduction, TLAPS

OrNone(S) == S \cup {None}

(* The edits that were made in one of the fields fs. *)
Known(made, fs) == {Header} \cup {id \in DOMAIN made : made[id] \in fs}

Trams == [outer : BOOLEAN, inner : BOOLEAN, lines : BOOLEAN]

Fences == [fenceLine : Nat, hdLine : Nat]

Tracks(K) == [id : K, mode : {"AB", "Curve"}, hasPoints : BOOLEAN]

TrackFiles(K) == [tracks : Seq(Tracks(K)), isCut : BOOLEAN]

Files(K) ==
    [Field : OrNone({"Field"}), TrackLines : OrNone(TrackFiles(K)),
     ABLines : OrNone(Seq(Tracks(K))), CurveLines : OrNone(Seq(Tracks(K))),
     Contour : OrNone(Seq(K)), Flags : OrNone(Seq(K)), Boundary : OrNone(Seq(Nat)),
     Headland : OrNone(Seq(Nat)), HeadLines : OrNone({<<>>}), Tram : OrNone(Trams),
     RecPath : OrNone(Nat)]

Jobs(K) ==
    [gArr : Seq(Tracks(K)), idx : Nat, bndList : Seq(Fences), isHeadlandOn : BOOLEAN,
     flagPts : Seq(K), stripList : Seq(K), isContourOn : BOOLEAN,
     contourSaveList : Seq(K), bndBeingMade : Nat, headLines : {<<>>}, tram : Trams,
     recList : Nat]

(* The fields whose edits may be in memory. *)
Origins == IF isJobStarted THEN origins[currentFieldDirectory] ELSE {None}

(* What is in memory is the open field's... *)
JobIsOwn == job \in Jobs(Known(madeIn, Origins))

(* ...and what is in the files of each field is its own. *)
FilesAreOwn(d, made, o) ==
    /\ d = [f \in Fields |-> d[f]]
    /\ \A f \in Fields : d[f] \in Files(Known(made, o[f]))

Named ==
    /\ currentFieldDirectory \in Fields \cup {None}
    /\ isJobStarted \in BOOLEAN /\ isStuck \in BOOLEAN
    /\ isJobStarted => currentFieldDirectory # None
    /\ madeIn \in Seq(Fields \cup {None}) /\ Len(madeIn) <= MaxEdits
    /\ origins = [f \in Fields |-> origins[f]]
    /\ \A f \in Fields : {f, None} \subseteq origins[f]

(* A track is selected only where there is one, and a boundary is only      *)
(* recorded when a field has been open.                                     *)
IsSound(j, directory) ==
    /\ j.idx \in 0 .. Len(j.gArr)
    /\ j.bndBeingMade # 0 => directory # None

(* With no field open there is nothing in memory but boundaries and flags. *)
IsEmptied(j) ==
    j.gArr = <<>> /\ j.stripList = <<>> /\ j.contourSaveList = <<>> /\ ~j.isContourOn

ClosedIsEmpty == ~isJobStarted => IsEmptied(job)

IsKept(files, k) ==
    /\ files.TrackLines # None /\ ~files.TrackLines.isCut
    /\ files.Boundary # None /\ files.Flags # None
    /\ k = [tracks |-> [i \in DOMAIN files.TrackLines.tracks |-> files.TrackLines.tracks[i].id],
            fences |-> files.Boundary, flagPts |-> files.Flags]

(* A closed field is as it was closed. *)
KeptOn(d, k) ==
    /\ k = [f \in Fields |-> k[f]]
    /\ \A f \in Fields : k[f] # None => IsKept(d[f], k[f])

OpenIsNotKept == isJobStarted => kept[currentFieldDirectory] = None

Lines(files) == IF files.Contour = None THEN <<>> ELSE files.Contour

Strips(files) == ToSet(Lines(files)) \ {Header}

(* No strip twice. *)
Once(s) == \A p, q \in DOMAIN s : p # q /\ s[p] = s[q] => s[p] = Header

OnceOn(d) == \A f \in Fields : Once(Lines(d[f]))

(* The strips of a field without Field.txt, which none can be copied from. *)
AloneOn(d) ==
    \A f, g \in Fields : f # g /\ d[f].Field = None => Strips(d[f]) \cap Strips(d[g]) = {}

DiskOK(d, made, o) == FilesAreOwn(d, made, o) /\ OnceOn(d) /\ AloneOn(d)

(* Neither what is to be saved nor the strip that is drawn is in a file. *)
ListIsNew(d, j) ==
    /\ Once(j.contourSaveList)
    /\ \A f \in Fields : ToSet(j.contourSaveList) \cap Strips(d[f]) = {}
    /\ j.isContourOn =>
          /\ j.stripList # <<>>
          /\ Last(j.stripList) \notin ToSet(j.contourSaveList)
          /\ \A f \in Fields : Last(j.stripList) \notin Strips(d[f])

IInv ==
    /\ JobIsOwn
    /\ DiskOK(disk, madeIn, origins)
    /\ Named
    /\ IsSound(job, currentFieldDirectory)
    /\ ClosedIsEmpty
    /\ KeptOn(disk, kept)
    /\ OpenIsNotKept
    /\ ListIsNew(disk, job)

----------------------------------------------------------------------------
(* The members of a sequence that are in a set *)

(* The equation that defines them for the first n. *)
IsOnly(g, s, keep) ==
    g = [n \in 0 .. Len(s) |->
            IF n = 0 THEN <<>>
            ELSE IF s[n] \in keep THEN Append(g[n - 1], s[n]) ELSE g[n - 1]]

Onlys(s, keep) == CHOOSE g : IsOnly(g, s, keep)

LEMMA OnlyIsLast ==
    ASSUME NEW s, NEW keep
    PROVE  Only(s, keep) = Onlys(s, keep)[Len(s)]
BY DEF Only, Onlys, IsOnly

(* A set of natural numbers that is not empty has a least element. *)
LEMMA Least ==
    ASSUME NEW T, T \subseteq Nat, T # {}
    PROVE  \E m \in T : \A k \in T : m <= k
<1> DEFINE R == {ss \in Nat \X Nat : ss[1] < ss[2]}
<1>1. IsWellFoundedOn(R, Nat)
  BY NatLessThanWellFounded DEF OpToRel
<1> HIDE DEF R
<1>2. PICK m \in T : \A k \in T : <<k, m>> \notin R
  BY <1>1, WFMin
<1>3. \A k \in T : ~(k < m)
  BY <1>2 DEF R
<1> QED
  BY <1>3

(* Induction over the natural numbers. *)
LEMMA Step ==
    ASSUME NEW T, 0 \in T, \A n \in Nat : n \in T => n + 1 \in T
    PROVE  Nat \subseteq T
<1> SUFFICES ASSUME NEW n0 \in Nat, n0 \notin T PROVE FALSE
  OBVIOUS
<1> DEFINE Out == {n \in Nat : n \notin T}
<1>1. PICK m \in Out : \A k \in Out : m <= k
  <2>1. Out \subseteq Nat /\ Out # {}
    OBVIOUS
  <2> HIDE DEF Out
  <2> QED
    BY <2>1, Least
<1>2. m # 0
  OBVIOUS
<1>3. m - 1 \in Nat /\ m - 1 \notin Out
  BY <1>1, <1>2
<1>4. m - 1 \in T
  BY <1>3
<1> QED
  BY <1>3, <1>4

LEMMA OnlysExist ==
    ASSUME NEW S, NEW s \in Seq(S), NEW keep
    PROVE  IsOnly(Onlys(s, keep), s, keep)
<1> DEFINE Value(g, n) == IF n = 0 THEN <<>>
                          ELSE IF s[n] \in keep THEN Append(g[n - 1], s[n]) ELSE g[n - 1]
           IsUpTo(g, n) == /\ g = [m \in 0 .. Len(s) |-> g[m]]
                           /\ \A m \in 0 .. Len(s) : m <= n => g[m] = Value(g, m)
           T == {n \in Nat : \E g : IsUpTo(g, n)}
<1>1. Len(s) \in Nat
  OBVIOUS
<1>2. 0 \in T
  <2> DEFINE g == [m \in 0 .. Len(s) |-> <<>>]
  <2>1. IsUpTo(g, 0)
    BY <1>1
  <2> QED
    BY <2>1
<1>3. ASSUME NEW n \in Nat, n \in T PROVE n + 1 \in T
  <2>1. PICK g : IsUpTo(g, n)
    BY <1>3
  <2> DEFINE h == [m \in 0 .. Len(s) |-> IF m = n + 1 THEN Value(g, m) ELSE g[m]]
  <2>2. ASSUME NEW m \in 0 .. Len(s), m <= n + 1 PROVE h[m] = Value(h, m)
    <3>1. m # 0 => h[m - 1] = g[m - 1]
      BY <1>1, <2>2
    <3>2. Value(h, m) = Value(g, m)
      BY <3>1
    <3>3. CASE m = n + 1
      BY <3>2, <3>3
    <3>4. CASE m # n + 1
      <4>1. m <= n
        BY <1>1, <2>2, <3>4
      <4>2. h[m] = g[m]
        BY <3>4
      <4> HIDE DEF Value, h
      <4> QED
        BY <2>1, <3>2, <4>1, <4>2
    <3> QED
      BY <3>3, <3>4
  <2>3. h = [m \in 0 .. Len(s) |-> h[m]]
    OBVIOUS
  <2> HIDE DEF Value, h
  <2>4. IsUpTo(h, n + 1)
    BY <2>2, <2>3
  <2> HIDE DEF IsUpTo
  <2> QED
    BY <2>4
<1> HIDE DEF T
<1>4. Nat \subseteq T
  BY <1>2, <1>3, Step
<1>5. PICK g : IsUpTo(g, Len(s))
  <2>1. Len(s) \in T
    BY <1>1, <1>4
  <2> QED
    BY <2>1 DEF T
<1>6. \A m \in 0 .. Len(s) : g[m] = Value(g, m)
  BY <1>1, <1>5
<1>7. g = [m \in 0 .. Len(s) |-> Value(g, m)]
  BY <1>5, <1>6
<1>8. IsOnly(g, s, keep)
  BY <1>7 DEF IsOnly
<1> QED
  BY <1>8 DEF Onlys

(* Only is made of members of s, and of each of them at most as often. *)
LEMMA OnlyFacts ==
    ASSUME NEW S, NEW s \in Seq(S), NEW keep
    PROVE  /\ Only(s, keep) \in Seq(S)
           /\ ToSet(Only(s, keep)) \subseteq ToSet(s) \cap keep
           /\ Once(s) => Once(Only(s, keep))
<1> DEFINE g == Onlys(s, keep)
           IsGood(t, n) ==
               /\ t \in Seq(S)
               /\ \A p \in DOMAIN t : \E k \in 1 .. n : t[p] = s[k] /\ s[k] \in keep
               /\ Once(s) => Once(t)
           T == {n \in Nat : n <= Len(s) => IsGood(g[n], n)}
<1>1. Len(s) \in Nat /\ DOMAIN s = 1 .. Len(s)
  OBVIOUS
<1>2. IsOnly(g, s, keep)
  BY OnlysExist
<1> HIDE DEF g
<1>3. g[0] = <<>>
  BY <1>1, <1>2 DEF IsOnly
<1>4. \A n \in Nat : n + 1 <= Len(s) =>
          g[n + 1] = IF s[n + 1] \in keep THEN Append(g[n], s[n + 1]) ELSE g[n]
  <2> SUFFICES ASSUME NEW n \in Nat, n + 1 <= Len(s)
               PROVE  g[n + 1] = IF s[n + 1] \in keep THEN Append(g[n], s[n + 1]) ELSE g[n]
    OBVIOUS
  <2>1. n + 1 \in 0 .. Len(s) /\ n + 1 # 0 /\ (n + 1) - 1 = n
    BY <1>1
  <2> QED
    BY <1>2, <2>1 DEF IsOnly
<1>5. 0 \in T
  <2>1. IsGood(<<>>, 0)
    BY DEF Once
  <2> HIDE DEF IsGood
  <2> QED
    BY <1>3, <2>1
<1>6. ASSUME NEW n \in Nat, n \in T PROVE n + 1 \in T
  <2> SUFFICES ASSUME n + 1 <= Len(s) PROVE IsGood(g[n + 1], n + 1)
    OBVIOUS
  <2> DEFINE t == g[n]
             u == g[n + 1]
  <2>1. IsGood(t, n)
    BY <1>1, <1>6
  <2> HIDE DEF t
  <2>2. s[n + 1] \in S /\ n + 1 \in DOMAIN s
    BY <1>1
  <2>3. CASE s[n + 1] \notin keep
    <3>1. u = t
      BY <1>4, <2>3 DEF t
    <3>2. IsGood(t, n + 1)
      BY <2>1
    <3> QED
      BY <3>1, <3>2
  <2>4. CASE s[n + 1] \in keep
    <3>1. u = Append(t, s[n + 1])
      BY <1>4, <2>4 DEF t
    <3> HIDE DEF u
    <3>2. u \in Seq(S) /\ Len(t) \in Nat /\ DOMAIN t = 1 .. Len(t) /\ DOMAIN u = 1 .. Len(t) + 1
      BY <2>1, <2>2, <3>1
    <3>3. \A p \in DOMAIN t : u[p] = t[p]
      BY <2>1, <2>2, <3>1
    <3>4. u[Len(t) + 1] = s[n + 1]
      BY <2>1, <2>2, <3>1
    <3>5. \A p \in DOMAIN u : \E k \in 1 .. n + 1 : u[p] = s[k] /\ s[k] \in keep
      BY <2>1, <2>4, <3>2, <3>3, <3>4
    <3>6. ASSUME Once(s) PROVE Once(u)
      <4>1. Once(t)
        BY <2>1, <3>6
      <4>2. \A p \in DOMAIN t : t[p] = s[n + 1] => s[n + 1] = Header
        <5> SUFFICES ASSUME NEW p \in DOMAIN t, t[p] = s[n + 1] PROVE s[n + 1] = Header
          OBVIOUS
        <5>1. PICK k \in 1 .. n : t[p] = s[k]
          BY <2>1
        <5>2. k \in DOMAIN s /\ k # n + 1
          BY <1>1, <5>1
        <5> QED
          BY <2>2, <3>6, <5>1, <5>2 DEF Once
      <4>3. \A p \in DOMAIN u : p \in DOMAIN t \/ p = Len(t) + 1
        BY <3>2
      <4> QED
        BY <3>3, <3>4, <4>1, <4>2, <4>3 DEF Once
    <3>7. IsGood(u, n + 1)
      BY <3>2, <3>5, <3>6
    <3> QED
      BY <3>7 DEF u
  <2> QED
    BY <2>3, <2>4
<1> HIDE DEF T
<1>7. Nat \subseteq T
  BY <1>5, <1>6, Step
<1>8. IsGood(g[Len(s)], Len(s))
  BY <1>1, <1>7 DEF T
<1>9. Only(s, keep) = g[Len(s)]
  BY OnlyIsLast DEF g
<1> QED
  BY <1>1, <1>8, <1>9 DEF ToSet

----------------------------------------------------------------------------
(* Sequences, and the edits that are known. *)

LEMMA SeqMono ==
    ASSUME NEW S, NEW T, S \subseteq T
    PROVE  Seq(S) \subseteq Seq(T)
<1> SUFFICES ASSUME NEW s \in Seq(S) PROVE s \in Seq(T)
  OBVIOUS
<1>1. Len(s) \in Nat /\ s = [i \in 1 .. Len(s) |-> s[i]] /\ \A i \in 1 .. Len(s) : s[i] \in S
  OBVIOUS
<1>2. \A i \in 1 .. Len(s) : s[i] \in T
  BY <1>1
<1> QED
  BY <1>1, <1>2

LEMMA RemoveAtType ==
    ASSUME NEW S, NEW s \in Seq(S), NEW i \in DOMAIN s
    PROVE  /\ RemoveAt(s, i) \in Seq(S)
           /\ Len(s) \in Nat /\ i \in 1 .. Len(s) /\ Len(RemoveAt(s, i)) = Len(s) - 1
<1>1. Len(s) \in Nat /\ i \in 1 .. Len(s)
  OBVIOUS
<1> DEFINE before == SubSeq(s, 1, i - 1)
           after == SubSeq(s, i + 1, Len(s))
<1>2. before \in Seq(S) /\ Len(before) = i - 1
  BY <1>1
<1>3. after \in Seq(S) /\ Len(after) = Len(s) - i
  BY <1>1
<1>4. RemoveAt(s, i) = before \o after
  BY DEF RemoveAt
<1> HIDE DEF before, after
<1>5. \A x, y \in Seq(S) : x \o y \in Seq(S) /\ Len(x \o y) = Len(x) + Len(y)
  OBVIOUS
<1>6. before \o after \in Seq(S) /\ Len(before \o after) = Len(s) - 1
  <2>1. before \o after \in Seq(S) /\ Len(before \o after) = Len(before) + Len(after)
    BY <1>2, <1>3, <1>5
  <2> QED
    BY <1>1, <1>2, <1>3, <2>1
<1> QED
  BY <1>1, <1>4, <1>6

LEMMA LastType ==
    ASSUME NEW S, NEW s \in Seq(S), s # <<>>
    PROVE  Last(s) \in S /\ Last(s) \in ToSet(s) /\ Front(s) \in Seq(S)
BY DEF Last, Front, ToSet

LEMMA TailType ==
    ASSUME NEW S, NEW s \in Seq(S), s # <<>>
    PROVE  Tail(s) \in Seq(S) /\ ToSet(Tail(s)) \subseteq ToSet(s)
BY DEF ToSet

LEMMA ToSetType ==
    ASSUME NEW S, NEW s \in Seq(S)
    PROVE  ToSet(s) \subseteq S
BY DEF ToSet

(* Two lists without a strip in common. *)
LEMMA AppendedOnce ==
    ASSUME NEW S, NEW s \in Seq(S), NEW t \in Seq(S),
           ToSet(s) \cap ToSet(t) \subseteq {Header}
    PROVE  /\ ToSet(s \o t) = ToSet(s) \cup ToSet(t)
           /\ Once(s) /\ Once(t) => Once(s \o t)
<1> DEFINE u == s \o t
<1>1. Len(s) \in Nat /\ Len(t) \in Nat /\ Len(u) = Len(s) + Len(t) /\ u \in Seq(S)
  OBVIOUS
<1>2. DOMAIN s = 1 .. Len(s) /\ DOMAIN t = 1 .. Len(t) /\ DOMAIN u = 1 .. Len(s) + Len(t)
  BY <1>1
<1>3. \A p \in DOMAIN u : \/ p \in DOMAIN s /\ u[p] = s[p]
                          \/ p \notin DOMAIN s /\ p - Len(s) \in DOMAIN t /\ u[p] = t[p - Len(s)]
  BY <1>1, <1>2
<1>4. /\ \A p \in DOMAIN s : p \in DOMAIN u /\ u[p] = s[p]
      /\ \A p \in DOMAIN t : Len(s) + p \in DOMAIN u /\ u[Len(s) + p] = t[p]
  BY <1>1, <1>2
<1> HIDE DEF u
<1>5. ToSet(u) = ToSet(s) \cup ToSet(t)
  BY <1>3, <1>4 DEF ToSet
<1>6. ASSUME Once(s), Once(t) PROVE Once(u)
  <2> SUFFICES ASSUME NEW p \in DOMAIN u, NEW q \in DOMAIN u, p # q, u[p] = u[q]
               PROVE  u[p] = Header
    BY DEF Once
  <2>1. CASE p \in DOMAIN s /\ q \in DOMAIN s
    BY <1>3, <1>6, <2>1 DEF Once
  <2>2. CASE p \notin DOMAIN s /\ q \notin DOMAIN s
    <3>1. p - Len(s) # q - Len(s)
      BY <1>1, <1>2
    <3> QED
      BY <1>3, <1>6, <2>2, <3>1 DEF Once
  <2>3. CASE p \in DOMAIN s /\ q \notin DOMAIN s
    BY <1>3, <2>3 DEF ToSet
  <2>4. CASE p \notin DOMAIN s /\ q \in DOMAIN s
    BY <1>3, <2>4 DEF ToSet
  <2> QED
    BY <2>1, <2>2, <2>3, <2>4
<1> QED
  BY <1>5, <1>6 DEF u

LEMMA KnownFacts ==
    ASSUME NEW made \in Seq(Fields \cup {None}), NEW fs, NEW x
    PROVE  /\ Header \in Known(made, fs) /\ Known(made, fs) \subseteq Nat
           /\ Known(made, fs) \subseteq DOMAIN made \cup {Header}
           /\ \A gs : fs \subseteq gs => Known(made, fs) \subseteq Known(made, gs)
           /\ Known(made, fs) \subseteq Known(Append(made, x), fs)
           /\ x \in fs => Len(made) + 1 \in Known(Append(made, x), fs)
<1>1. DOMAIN made = 1 .. Len(made) /\ Len(made) \in Nat
  OBVIOUS
<1>2. DOMAIN Append(made, x) = 1 .. Len(made) + 1 /\ Append(made, x)[Len(made) + 1] = x
      /\ \A i \in DOMAIN made : Append(made, x)[i] = made[i]
  OBVIOUS
<1> QED
  BY <1>1, <1>2 DEF Known, Header

LEMMA FilesMono ==
    ASSUME NEW K, NEW L, K \subseteq L
    PROVE  Files(K) \subseteq Files(L) /\ Jobs(K) \subseteq Jobs(L)
<1>1. Tracks(K) \subseteq Tracks(L)
  BY DEF Tracks
<1>2. Seq(Tracks(K)) \subseteq Seq(Tracks(L)) /\ Seq(K) \subseteq Seq(L)
  BY <1>1, SeqMono
<1>3. TrackFiles(K) \subseteq TrackFiles(L)
  BY <1>2 DEF TrackFiles
<1> QED
  BY <1>2, <1>3 DEF Files, Jobs, OrNone

----------------------------------------------------------------------------
(* Saving *)

(* The parts of files that a save of anything but the strips leaves alone. *)
SameStrips(a, b) == a.Field = b.Field /\ a.Contour = b.Contour

LEMMA OfModeType ==
    ASSUME NEW K, NEW tracks \in Seq(Tracks(K)), NEW mode
    PROVE  OfMode(tracks, mode) \in Seq(Tracks(K))
BY OnlyFacts DEF OfMode

LEMMA NothingIsOwn ==
    ASSUME NEW K
    PROVE  NoFiles \in Files(K) /\ NoJob \in Jobs(K)
BY DEF NoFiles, NoJob, Cleared, NoTram, Files, Jobs, OrNone, Trams

(* One file at a time. *)
LEMMA FilesExcept ==
    ASSUME NEW K, NEW files \in Files(K)
    PROVE  /\ \A x \in OrNone({"Field"}) : [files EXCEPT !.Field = x] \in Files(K)
           /\ \A x \in OrNone(TrackFiles(K)) : [files EXCEPT !.TrackLines = x] \in Files(K)
           /\ \A x \in OrNone(Seq(Tracks(K))) : [files EXCEPT !.ABLines = x] \in Files(K)
           /\ \A x \in OrNone(Seq(Tracks(K))) : [files EXCEPT !.CurveLines = x] \in Files(K)
           /\ \A x \in OrNone(Seq(K)) : [files EXCEPT !.Contour = x] \in Files(K)
           /\ \A x \in OrNone(Seq(K)) : [files EXCEPT !.Flags = x] \in Files(K)
           /\ \A x \in OrNone(Seq(Nat)) : [files EXCEPT !.Boundary = x] \in Files(K)
           /\ \A x \in OrNone(Seq(Nat)) : [files EXCEPT !.Headland = x] \in Files(K)
           /\ \A x \in OrNone(Trams) : [files EXCEPT !.Tram = x] \in Files(K)
           /\ \A x \in OrNone(Nat) : [files EXCEPT !.RecPath = x] \in Files(K)
BY DEF Files

LEMMA SaveABFacts ==
    ASSUME NEW K, NEW files \in Files(K), NEW j \in Jobs(K)
    PROVE  /\ FileSaveABLines(files, j) \in Files(K)
           /\ SameStrips(FileSaveABLines(files, j), files)
<1>1. OfMode(j.gArr, "AB") \in Seq(Tracks(K))
  BY OfModeType DEF Jobs
<1>2. FileSaveABLines(files, j) \in Files(K)
  BY <1>1, FilesExcept DEF FileSaveABLines, OrNone
<1> QED
  BY <1>2 DEF FileSaveABLines, Files, SameStrips

LEMMA SaveCurveFacts ==
    ASSUME NEW K, NEW files \in Files(K), NEW j \in Jobs(K)
    PROVE  /\ FileSaveCurveLines(files, j) \in Files(K)
           /\ SameStrips(FileSaveCurveLines(files, j), files)
<1>1. OfMode(j.gArr, "Curve") \in Seq(Tracks(K))
  BY OfModeType DEF Jobs
<1>2. FileSaveCurveLines(files, j) \in Files(K)
  BY <1>1, FilesExcept DEF FileSaveCurveLines, OrNone
<1> QED
  BY <1>2 DEF FileSaveCurveLines, Files, SameStrips

LEMMA SaveTracksFacts ==
    ASSUME NEW K, NEW files \in Files(K), NEW j \in Jobs(K)
    PROVE  /\ FileSaveTracks(files, j) \in Files(K)
           /\ SameStrips(FileSaveTracks(files, j), files)
           /\ FileSaveTracks(files, j).TrackLines = [tracks |-> j.gArr, isCut |-> FALSE]
           /\ FileSaveTracks(files, j).TrackLines \in TrackFiles(K)
           /\ FileSaveTracks(files, j).Boundary = files.Boundary
<1> DEFINE ab == FileSaveABLines(files, j)
           saved == FileSaveCurveLines(ab, j)
           new == [tracks |-> j.gArr, isCut |-> FALSE]
<1>1. ab \in Files(K) /\ SameStrips(ab, files) /\ ab.Boundary = files.Boundary
  BY SaveABFacts DEF FileSaveABLines, Files
<1>2. saved \in Files(K) /\ SameStrips(saved, ab) /\ saved.Boundary = ab.Boundary
  <2> HIDE DEF ab
  <2> QED
    BY <1>1, SaveCurveFacts DEF FileSaveCurveLines, Files
<1>3. new \in TrackFiles(K)
  BY DEF TrackFiles, Jobs
<1>4. FileSaveTracks(files, j) = [saved EXCEPT !.TrackLines = new]
  BY DEF FileSaveTracks
<1> HIDE DEF ab, saved, new
<1>5. [saved EXCEPT !.TrackLines = new] \in Files(K)
  BY <1>2, <1>3, FilesExcept DEF OrNone
<1>6. SameStrips([saved EXCEPT !.TrackLines = new], saved)
      /\ [saved EXCEPT !.TrackLines = new].TrackLines = new
      /\ [saved EXCEPT !.TrackLines = new].Boundary = saved.Boundary
  BY <1>2 DEF Files, SameStrips
<1> QED
  BY <1>1, <1>2, <1>3, <1>4, <1>5, <1>6 DEF SameStrips, new

LEMMA SaveBoundaryFacts ==
    ASSUME NEW K, NEW files \in Files(K), NEW j \in Jobs(K)
    PROVE  /\ FileSaveBoundary(files, j) \in Files(K)
           /\ SameStrips(FileSaveBoundary(files, j), files)
           /\ FileSaveBoundary(files, j).Boundary
                = [i \in DOMAIN j.bndList |-> j.bndList[i].fenceLine]
           /\ FileSaveBoundary(files, j).Boundary \in Seq(Nat)
<1> DEFINE fences == [i \in DOMAIN j.bndList |-> j.bndList[i].fenceLine]
<1>1. fences \in Seq(Nat)
  <2>1. j.bndList \in Seq(Fences)
    BY DEF Jobs
  <2>2. DOMAIN j.bndList = 1 .. Len(j.bndList) /\ Len(j.bndList) \in Nat
    BY <2>1
  <2>3. ASSUME NEW i \in DOMAIN j.bndList PROVE j.bndList[i].fenceLine \in Nat
    <3>1. j.bndList[i] \in Fences
      BY <2>1
    <3> QED
      BY <3>1 DEF Fences
  <2> QED
    BY <2>2, <2>3
<1> HIDE DEF fences
<1>2. FileSaveBoundary(files, j) = [files EXCEPT !.Boundary = fences]
  BY DEF FileSaveBoundary, fences
<1>3. fences \in OrNone(Seq(Nat))
  BY <1>1 DEF OrNone
<1>4. FileSaveBoundary(files, j) \in Files(K)
  BY <1>2, <1>3, FilesExcept
<1>5. SameStrips(FileSaveBoundary(files, j), files)
      /\ FileSaveBoundary(files, j).Boundary = fences
  BY <1>2 DEF Files, SameStrips
<1> QED
  BY <1>1, <1>4, <1>5 DEF fences

LEMMA SaveHeadlandFacts ==
    ASSUME NEW K, NEW files \in Files(K), NEW j \in Jobs(K)
    PROVE  /\ FileSaveHeadland(files, j) \in Files(K)
           /\ SameStrips(FileSaveHeadland(files, j), files)
<1> DEFINE new == FileSaveHeadland(files, j).Headland
<1>1. [i \in DOMAIN j.bndList |-> j.bndList[i].hdLine] \in Seq(Nat)
  <2>1. j.bndList \in Seq(Fences)
    BY DEF Jobs
  <2>2. DOMAIN j.bndList = 1 .. Len(j.bndList) /\ Len(j.bndList) \in Nat
    BY <2>1
  <2>3. ASSUME NEW i \in DOMAIN j.bndList PROVE j.bndList[i].hdLine \in Nat
    <3>1. j.bndList[i] \in Fences
      BY <2>1
    <3> QED
      BY <3>1 DEF Fences
  <2> QED
    BY <2>2, <2>3
<1>2. new \in Seq(Nat)
  BY <1>1 DEF FileSaveHeadland, Files
<1>3. FileSaveHeadland(files, j) = [files EXCEPT !.Headland = new]
  BY DEF FileSaveHeadland, Files
<1> HIDE DEF new
<1>4. new \in OrNone(Seq(Nat))
  BY <1>2 DEF OrNone
<1>5. FileSaveHeadland(files, j) \in Files(K)
  BY <1>3, <1>4, FilesExcept
<1>6. SameStrips(FileSaveHeadland(files, j), files)
  BY <1>3 DEF Files, SameStrips
<1> QED
  BY <1>5, <1>6

LEMMA SaveFlagsFacts ==
    ASSUME NEW K, NEW files \in Files(K), NEW j \in Jobs(K)
    PROVE  /\ FileSaveFlags(files, j) \in Files(K)
           /\ SameStrips(FileSaveFlags(files, j), files)
           /\ FileSaveFlags(files, j).Flags = j.flagPts
           /\ FileSaveFlags(files, j).Boundary = files.Boundary
           /\ FileSaveFlags(files, j).TrackLines = files.TrackLines
<1>1. j.flagPts \in Seq(K)
  BY DEF Jobs
<1>2. FileSaveFlags(files, j) \in Files(K)
  BY <1>1, FilesExcept DEF FileSaveFlags, OrNone
<1> QED
  BY <1>2 DEF FileSaveFlags, Files, SameStrips

LEMMA SaveTramFacts ==
    ASSUME NEW K, NEW files \in Files(K), NEW j \in Jobs(K)
    PROVE  /\ FileSaveTram(files, j) \in Files(K)
           /\ SameStrips(FileSaveTram(files, j), files)
<1> DEFINE new == FileSaveTram(files, j).Tram
<1>1. j.tram.inner \in BOOLEAN /\ j.tram.lines \in BOOLEAN
  BY DEF Jobs, Trams
<1>2. new \in Trams
  BY <1>1 DEF FileSaveTram, Files, Trams
<1>3. FileSaveTram(files, j) = [files EXCEPT !.Tram = new]
  BY DEF FileSaveTram, Files
<1> HIDE DEF new
<1>4. FileSaveTram(files, j) \in Files(K)
  <2>1. new \in OrNone(Trams)
    BY <1>2 DEF OrNone
  <2> QED
    BY <1>3, <2>1, FilesExcept
<1> QED
  BY <1>3, <1>4 DEF Files, SameStrips

LEMMA SaveRecPathFacts ==
    ASSUME NEW K, NEW files \in Files(K), NEW j \in Jobs(K)
    PROVE  /\ FileSaveRecPath(files, j) \in Files(K)
           /\ SameStrips(FileSaveRecPath(files, j), files)
<1>1. j.recList \in Nat
  BY DEF Jobs
<1>2. FileSaveRecPath(files, j) \in Files(K)
  BY <1>1, FilesExcept DEF FileSaveRecPath, OrNone
<1> QED
  BY <1>2 DEF FileSaveRecPath, Files, SameStrips

LEMMA LinesType ==
    ASSUME NEW K, NEW files \in Files(K)
    PROVE  Lines(files) \in Seq(K)
BY DEF Lines, Files, OrNone

LEMMA SaveContourFacts ==
    ASSUME NEW K, K \subseteq Nat, NEW files \in Files(K), NEW j \in Jobs(K)
    PROVE  /\ FileSaveContour(files, j) \in Files(K)
           /\ FileSaveContour(files, j).Field = files.Field
           /\ FileSaveContour(files, j).Boundary = files.Boundary
           /\ \/ Lines(FileSaveContour(files, j)) = Lines(files)
              \/ Lines(FileSaveContour(files, j)) = Lines(files) \o j.contourSaveList
<1> DEFINE list == Lines(files) \o j.contourSaveList
           saved == [files EXCEPT !.Contour = list]
<1>1. list \in Seq(K)
  BY LinesType DEF Jobs
<1>2. list # None
  <2>1. list \in Seq(Nat)
    BY <1>1, SeqMono
  <2> HIDE DEF list
  <2> QED
    BY <2>1, NoneAssumption
<1>3. FileSaveContour(files, j) = files \/ FileSaveContour(files, j) = saved
  BY DEF FileSaveContour, Lines, Files
<1>4. saved \in Files(K)
  <2> HIDE DEF list
  <2> QED
    BY <1>1, FilesExcept DEF OrNone
<1> HIDE DEF list
<1>5. saved.Field = files.Field /\ saved.Boundary = files.Boundary /\ saved.Contour = list
  BY DEF Files
<1>6. Lines(saved) = list
  BY <1>2, <1>5 DEF Lines
<1> HIDE DEF saved
<1> QED
  BY <1>3, <1>4, <1>5, <1>6 DEF list

LEMMA JobsExcept ==
    ASSUME NEW K, NEW j \in Jobs(K)
    PROVE  /\ \A x \in Seq(Tracks(K)) : [j EXCEPT !.gArr = x] \in Jobs(K)
           /\ \A x \in Nat : [j EXCEPT !.idx = x] \in Jobs(K)
           /\ \A x \in Seq(Fences) : [j EXCEPT !.bndList = x] \in Jobs(K)
           /\ \A x \in Seq(K) : [j EXCEPT !.flagPts = x] \in Jobs(K)
           /\ \A x \in Seq(K) : [j EXCEPT !.stripList = x] \in Jobs(K)
           /\ \A x \in BOOLEAN : [j EXCEPT !.isContourOn = x] \in Jobs(K)
           /\ \A x \in Seq(K) : [j EXCEPT !.contourSaveList = x] \in Jobs(K)
           /\ \A x \in Nat : [j EXCEPT !.bndBeingMade = x] \in Jobs(K)
BY DEF Jobs

(* A new field, whatever was found under its name. *)
LEMMA NewFilesFacts ==
    ASSUME NEW K, K \subseteq Nat, Header \in K, NEW files \in Files(K), NEW j \in Jobs(K)
    PROVE  /\ NewFiles(files, j) \in Files(K)
           /\ NewFiles(files, j).Field = "Field"
           /\ Lines(NewFiles(files, j)) = <<Header>>
<1> DEFINE field == FileCreateField(files, j)
           path == FileCreateRecPath(field)
           contour == FileCreateContour(path)
           created == FileCreateBoundary(contour)
           flags == FileSaveFlags(created, j)
<1>1. field \in Files(K) /\ field.Field = "Field"
  <2>1. "Field" \in OrNone({"Field"})
    BY DEF OrNone
  <2> QED
    BY <2>1, FilesExcept DEF FileCreateField, Files
<1> HIDE DEF field
<1>2. path \in Files(K) /\ path.Field = "Field"
  <2>1. 0 \in OrNone(Nat)
    BY DEF OrNone
  <2> QED
    BY <1>1, <2>1, FilesExcept DEF FileCreateRecPath, Files
<1> HIDE DEF path
<1>3. contour \in Files(K) /\ contour.Field = "Field" /\ contour.Contour = <<Header>>
  <2>1. <<Header>> \in OrNone(Seq(K))
    BY DEF OrNone
  <2> QED
    BY <1>2, <2>1, FilesExcept DEF FileCreateContour, Files
<1> HIDE DEF contour
<1>4. created \in Files(K) /\ created.Field = "Field" /\ created.Contour = <<Header>>
  <2>1. <<>> \in OrNone(Seq(Nat))
    BY DEF OrNone
  <2> QED
    BY <1>3, <2>1, FilesExcept DEF FileCreateBoundary, Files
<1> HIDE DEF created
<1>5. flags \in Files(K) /\ SameStrips(flags, created)
  BY <1>4, SaveFlagsFacts
<1>6. NewFiles(files, j) = FileSaveTram(flags, j)
  BY DEF NewFiles, field, path, contour, created
<1> HIDE DEF flags
<1>7. NewFiles(files, j) \in Files(K) /\ SameStrips(NewFiles(files, j), flags)
  BY <1>5, <1>6, SaveTramFacts
<1>8. <<Header>> # None
  <2>1. <<Header>> \in Seq(Nat)
    BY DEF Header
  <2> QED
    BY <2>1, NoneAssumption
<1> QED
  BY <1>4, <1>5, <1>7, <1>8 DEF SameStrips, Lines

(* What field_new_from appends to the strips. *)
CopiedStrip(j) == IF j.stripList = <<>> THEN <<Header>> ELSE <<Last(j.stripList)>>

LEMMA CopiedFilesFacts ==
    ASSUME NEW K, K \subseteq Nat, Header \in K, NEW files \in Files(K), NEW j \in Jobs(K),
           NEW isOpen \in BOOLEAN
    PROVE  /\ CopiedFiles(files, j, isOpen) \in Files(K)
           /\ CopiedFiles(files, j, isOpen).Field = IF isOpen THEN "Field" ELSE files.Field
           /\ \/ Lines(CopiedFiles(files, j, isOpen)) = Lines(files)
              \/ Lines(CopiedFiles(files, j, isOpen)) = Lines(files) \o CopiedStrip(j)
<1> DEFINE created == IF isOpen THEN FileCreateField(files, j) ELSE files
           flags == FileSaveFlags(created, j)
           ab == FileSaveABLines(flags, j)
           lines == FileSaveCurveLines(ab, j)
           withStrip == [j EXCEPT !.contourSaveList = CopiedStrip(j)]
           contour == FileSaveContour(lines, withStrip)
           path == FileSaveRecPath(contour, j)
<1>1. created \in Files(K) /\ created.Field = (IF isOpen THEN "Field" ELSE files.Field)
      /\ created.Contour = files.Contour
  <2>1. "Field" \in OrNone({"Field"})
    BY DEF OrNone
  <2> QED
    BY <2>1, FilesExcept DEF FileCreateField, Files
<1> HIDE DEF created
<1>2. flags \in Files(K) /\ SameStrips(flags, created)
  BY <1>1, SaveFlagsFacts
<1> HIDE DEF flags
<1>3. ab \in Files(K) /\ SameStrips(ab, flags)
  BY <1>2, SaveABFacts
<1> HIDE DEF ab
<1>4. lines \in Files(K) /\ SameStrips(lines, ab)
  BY <1>3, SaveCurveFacts
<1> HIDE DEF lines
<1>5. CopiedStrip(j) \in Seq(K)
  BY LastType DEF CopiedStrip, Jobs
<1>6. withStrip \in Jobs(K) /\ withStrip.contourSaveList = CopiedStrip(j)
  BY <1>5, JobsExcept DEF Jobs
<1> HIDE DEF withStrip
<1>7. /\ contour \in Files(K) /\ contour.Field = lines.Field
      /\ Lines(contour) = Lines(lines) \/ Lines(contour) = Lines(lines) \o CopiedStrip(j)
  BY <1>4, <1>6, SaveContourFacts
<1> HIDE DEF contour
<1>8. path \in Files(K) /\ SameStrips(path, contour)
  BY <1>7, SaveRecPathFacts
<1>9. CopiedFiles(files, j, isOpen) = FileSaveTram(path, j)
  BY DEF CopiedFiles, CopiedStrip, created, flags, ab, lines, withStrip, contour
<1> HIDE DEF path
<1>10. CopiedFiles(files, j, isOpen) \in Files(K) /\ SameStrips(CopiedFiles(files, j, isOpen), path)
  BY <1>8, <1>9, SaveTramFacts
<1>11. Lines(lines) = Lines(files) /\ lines.Field = created.Field
  BY <1>1, <1>2, <1>3, <1>4 DEF SameStrips, Lines
<1>12. Lines(CopiedFiles(files, j, isOpen)) = Lines(contour)
       /\ CopiedFiles(files, j, isOpen).Field = contour.Field
  BY <1>8, <1>10 DEF SameStrips, Lines
<1> QED
  BY <1>1, <1>7, <1>10, <1>11, <1>12

(* The files of the open field while it is closed.  When all are written,   *)
(* they are what the field should come back with.                           *)
LEMMA WrittenFacts ==
    ASSUME NEW K, K \subseteq Nat, NEW files \in Files(K), NEW j \in Jobs(K)
    PROVE  /\ Written(files, j) = <<Written(files, j)[1], Written(files, j)[2],
                                    Written(files, j)[3], Written(files, j)[4]>>
           /\ \A n \in 1 .. 4 :
                 /\ Written(files, j)[n] \in Files(K)
                 /\ Written(files, j)[n].Field = files.Field
                 /\ \/ Lines(Written(files, j)[n]) = Lines(files)
                    \/ Lines(Written(files, j)[n]) = Lines(files) \o j.contourSaveList
           /\ Written(files, j)[3].TrackLines \in TrackFiles(K)
           /\ IsKept(Written(files, j)[4], Kept(j))
<1> DEFINE boundary == FileSaveBoundary(files, j)
           contour == FileSaveContour(boundary, j)
           tracks == FileSaveTracks(contour, j)
           flags == FileSaveFlags(tracks, j)
           fences == [i \in DOMAIN j.bndList |-> j.bndList[i].fenceLine]
           track == [tracks |-> j.gArr, isCut |-> FALSE]
<1>1. boundary \in Files(K) /\ SameStrips(boundary, files) /\ boundary.Boundary = fences
      /\ fences \in Seq(Nat)
  BY SaveBoundaryFacts
<1>2. Written(files, j) = <<boundary, contour, tracks, flags>>
  BY DEF Written
<1> HIDE DEF boundary
<1>3. /\ contour \in Files(K) /\ contour.Field = boundary.Field
      /\ contour.Boundary = boundary.Boundary
      /\ \/ Lines(contour) = Lines(boundary)
         \/ Lines(contour) = Lines(boundary) \o j.contourSaveList
  BY <1>1, SaveContourFacts
<1> HIDE DEF contour
<1>4. /\ tracks \in Files(K) /\ SameStrips(tracks, contour)
      /\ tracks.TrackLines = track /\ track \in TrackFiles(K)
      /\ tracks.Boundary = contour.Boundary
  BY <1>3, SaveTracksFacts
<1> HIDE DEF tracks
<1>5. /\ flags \in Files(K) /\ SameStrips(flags, tracks)
      /\ flags.Flags = j.flagPts /\ flags.Boundary = tracks.Boundary
      /\ flags.TrackLines = tracks.TrackLines
  BY <1>4, SaveFlagsFacts
<1> HIDE DEF flags
<1>6. Lines(boundary) = Lines(files) /\ boundary.Field = files.Field
  BY <1>1 DEF SameStrips, Lines
<1>7. Lines(tracks) = Lines(contour) /\ Lines(flags) = Lines(contour)
      /\ tracks.Field = contour.Field /\ flags.Field = contour.Field
  BY <1>4, <1>5 DEF SameStrips, Lines
<1>8. /\ Written(files, j)[1] = boundary /\ Written(files, j)[2] = contour
      /\ Written(files, j)[3] = tracks /\ Written(files, j)[4] = flags
  BY <1>2
<1>9. \A n \in 1 .. 4 : n = 1 \/ n = 2 \/ n = 3 \/ n = 4
  OBVIOUS
<1>10. IsKept(flags, Kept(j))
  <2>1. fences # None
    <3> HIDE DEF fences
    <3> QED
      BY <1>1, NoneAssumption
  <2>2. j.flagPts # None
    <3>1. j.flagPts \in Seq(Nat)
      BY SeqMono DEF Jobs
    <3> QED
      BY <3>1, NoneAssumption
  <2>3. track # None
    <3>1. Tracks(K) \subseteq CTrks
      BY DEF Tracks, CTrks
    <3>2. j.gArr \in Seq(CTrks)
      BY <3>1, SeqMono DEF Jobs
    <3>3. track \in [tracks : Seq(CTrks), isCut : BOOLEAN]
      BY <3>2
    <3> HIDE DEF track
    <3> QED
      BY <3>3, NoneAssumption
  <2>4. flags.TrackLines = track /\ flags.Boundary = fences /\ flags.Flags = j.flagPts
    BY <1>1, <1>3, <1>4, <1>5
  <2>5. track.tracks = j.gArr /\ track.isCut = FALSE
    OBVIOUS
  <2> HIDE DEF track
  <2> QED
    BY <2>1, <2>2, <2>3, <2>4, <2>5 DEF IsKept, Kept
<1>11. \A n \in 1 .. 4 :
          /\ Written(files, j)[n] \in Files(K)
          /\ Written(files, j)[n].Field = files.Field
          /\ \/ Lines(Written(files, j)[n]) = Lines(files)
             \/ Lines(Written(files, j)[n]) = Lines(files) \o j.contourSaveList
  BY <1>1, <1>3, <1>4, <1>5, <1>6, <1>7, <1>8, <1>9
<1>12. Written(files, j)[3].TrackLines \in TrackFiles(K)
  BY <1>4, <1>8
<1> HIDE DEF track, fences
<1> QED
  BY <1>2, <1>8, <1>10, <1>11, <1>12

----------------------------------------------------------------------------
(* Loading *)

LEMMA LoadedTracksType ==
    ASSUME NEW K, NEW files \in Files(K), files.TrackLines # None
    PROVE  /\ LoadedTracks(files) \in Seq(Tracks(K))
           /\ DOMAIN LoadedTracks(files) = DOMAIN files.TrackLines.tracks
           /\ \A i \in DOMAIN files.TrackLines.tracks :
                 LoadedTracks(files)[i].id = files.TrackLines.tracks[i].id
<1> DEFINE t == files.TrackLines.tracks
           Loaded(i) == [t[i] EXCEPT !.hasPoints = FALSE]
<1>1. t \in Seq(Tracks(K))
  <2>1. files.TrackLines \in TrackFiles(K)
    BY DEF Files, OrNone
  <2> QED
    BY <2>1 DEF TrackFiles
<1>2. LoadedTracks(files) = [i \in DOMAIN t |-> Loaded(i)]
  BY DEF LoadedTracks
<1> HIDE DEF t
<1>3. DOMAIN t = 1 .. Len(t) /\ Len(t) \in Nat
  BY <1>1
<1>4. ASSUME NEW i \in DOMAIN t PROVE Loaded(i) \in Tracks(K) /\ Loaded(i).id = t[i].id
  <2>1. t[i] \in Tracks(K)
    BY <1>1, <1>4
  <2> QED
    BY <2>1 DEF Tracks
<1> HIDE DEF Loaded
<1>5. LoadedTracks(files) \in Seq(Tracks(K)) /\ DOMAIN LoadedTracks(files) = DOMAIN t
      /\ \A i \in DOMAIN t : LoadedTracks(files)[i].id = t[i].id
  BY <1>2, <1>3, <1>4
<1> QED
  BY <1>5 DEF t

LEMMA LoadABType ==
    ASSUME NEW K, NEW files \in Files(K)
    PROVE  FileLoadABLines(files) \in Seq(Tracks(K))
<1> DEFINE t == files.ABLines
           Loaded(i) == [t[i] EXCEPT !.hasPoints = FALSE]
<1>1. CASE t = None
  BY <1>1 DEF FileLoadABLines
<1>2. CASE t # None
  <2>1. t \in Seq(Tracks(K))
    BY <1>2 DEF Files, OrNone
  <2>2. FileLoadABLines(files) = [i \in DOMAIN t |-> Loaded(i)]
    BY <1>2 DEF FileLoadABLines
  <2> HIDE DEF t
  <2>3. DOMAIN t = 1 .. Len(t) /\ Len(t) \in Nat
    BY <2>1
  <2>4. ASSUME NEW i \in DOMAIN t PROVE Loaded(i) \in Tracks(K)
    <3>1. t[i] \in Tracks(K)
      BY <2>1, <2>4
    <3> QED
      BY <3>1 DEF Tracks
  <2> HIDE DEF Loaded
  <2> QED
    BY <2>2, <2>3, <2>4
<1> QED
  BY <1>1, <1>2

LEMMA LoadTracksType ==
    ASSUME NEW K, NEW files \in Files(K), NEW tracks \in FileLoadTracks(files)
    PROVE  tracks \in Seq(Tracks(K))
<1>1. CASE files.TrackLines # None
  BY <1>1, LoadedTracksType DEF FileLoadTracks
<1>2. CASE files.TrackLines = None
  <2>1. PICK curves \in FileLoadCurveLines(files) : tracks = FileLoadABLines(files) \o curves
    BY <1>2 DEF FileLoadTracks
  <2>2. curves \in Seq(Tracks(K))
    <3>1. CASE files.CurveLines \in {None, <<>>}
      BY <2>1, <3>1 DEF FileLoadCurveLines
    <3>2. CASE files.CurveLines \notin {None, <<>>}
      <4> DEFINE t == Tail(files.CurveLines)
      <4>1. t \in Seq(Tracks(K))
        BY <3>2, TailType DEF Files, OrNone
      <4>2. PICK read : curves = Only(t, read)
        BY <2>1, <3>2 DEF FileLoadCurveLines
      <4> HIDE DEF t
      <4> QED
        BY <4>1, <4>2, OnlyFacts
    <3> QED
      BY <3>1, <3>2
  <2>3. FileLoadABLines(files) \in Seq(Tracks(K))
    BY LoadABType
  <2> QED
    BY <2>1, <2>2, <2>3
<1> QED
  BY <1>1, <1>2

LEMMA LoadedContourType ==
    ASSUME NEW K, NEW files \in Files(K)
    PROVE  /\ LoadedContour(files) \in Seq(K)
           /\ ToSet(LoadedContour(files)) \subseteq ToSet(Lines(files))
<1>1. CASE files.Contour \in {None, <<>>}
  BY <1>1 DEF LoadedContour, ToSet
<1>2. CASE files.Contour \notin {None, <<>>}
  <2>1. files.Contour \in Seq(K)
    BY <1>2 DEF Files, OrNone
  <2> QED
    BY <1>2, <2>1, TailType DEF LoadedContour, Lines
<1> QED
  BY <1>1, <1>2

LEMMA LoadedBoundaryType ==
    ASSUME NEW K, NEW files \in Files(K)
    PROVE  /\ LoadedBoundary(files) \in Seq(Fences)
           /\ files.Boundary # None =>
                 /\ DOMAIN LoadedBoundary(files) = DOMAIN files.Boundary
                 /\ \A i \in DOMAIN files.Boundary :
                       LoadedBoundary(files)[i].fenceLine = files.Boundary[i]
<1> DEFINE t == files.Boundary
<1>1. CASE t = None
  BY <1>1 DEF LoadedBoundary
<1>2. CASE t # None
  <2>1. t \in Seq(Nat)
    BY <1>2 DEF Files, OrNone
  <2>2. LoadedBoundary(files) = [i \in DOMAIN t |-> CBoundaryList(t[i])]
    BY <1>2 DEF LoadedBoundary
  <2>3. DOMAIN t = 1 .. Len(t) /\ Len(t) \in Nat
    BY <2>1
  <2>4. ASSUME NEW i \in DOMAIN t
        PROVE  CBoundaryList(t[i]) \in Fences /\ CBoundaryList(t[i]).fenceLine = t[i]
    BY <2>1, <2>4 DEF CBoundaryList, Fences
  <2> HIDE DEF t
  <2>5. LoadedBoundary(files) \in Seq(Fences) /\ DOMAIN LoadedBoundary(files) = DOMAIN t
        /\ \A i \in DOMAIN t : LoadedBoundary(files)[i].fenceLine = t[i]
    BY <2>2, <2>3, <2>4
  <2> QED
    BY <2>5 DEF t
<1> QED
  BY <1>1, <1>2

LEMMA WithHeadlandType ==
    ASSUME NEW K, NEW files \in Files(K), NEW b \in Seq(Fences)
    PROVE  /\ WithHeadland(b, files) \in Seq(Fences)
           /\ DOMAIN WithHeadland(b, files) = DOMAIN b
           /\ \A i \in DOMAIN b : WithHeadland(b, files)[i].fenceLine = b[i].fenceLine
<1> DEFINE h == files.Headland
           Loaded(i) == IF i \in DOMAIN h THEN [b[i] EXCEPT !.hdLine = h[i]] ELSE b[i]
<1>1. CASE h = None
  BY <1>1 DEF WithHeadland
<1>2. CASE h # None
  <2>1. h \in Seq(Nat)
    BY <1>2 DEF Files, OrNone
  <2>2. WithHeadland(b, files) = [i \in DOMAIN b |-> Loaded(i)]
    BY <1>2 DEF WithHeadland
  <2> HIDE DEF h
  <2>3. DOMAIN b = 1 .. Len(b) /\ Len(b) \in Nat
    OBVIOUS
  <2>4. ASSUME NEW i \in DOMAIN b PROVE Loaded(i) \in Fences /\ Loaded(i).fenceLine = b[i].fenceLine
    <3>1. b[i] \in Fences
      BY <2>4
    <3>2. i \in DOMAIN h => h[i] \in Nat
      BY <2>1
    <3> QED
      BY <3>1, <3>2 DEF Fences
  <2> HIDE DEF Loaded
  <2> QED
    BY <2>2, <2>3, <2>4
<1> QED
  BY <1>1, <1>2

(* What may be in memory once files have been loaded. *)
LEMMA OpenFieldFacts ==
    ASSUME NEW K, NEW files \in Files(K), NEW j \in Jobs(K), NEW flags,
           NEW r \in FileOpenField(files, j, flags)
    PROVE  /\ r \in Jobs(K)
           /\ r.idx \in 0 .. Len(r.gArr)
           /\ r.stripList = LoadedContour(files)
           /\ r.contourSaveList = j.contourSaveList
           /\ r.isContourOn = j.isContourOn
           /\ r.bndBeingMade = j.bndBeingMade
           /\ "Lines" \in flags => r.gArr \in FileLoadTracks(files)
           /\ r.flagPts = IF "Flags" \in flags THEN LoadedFlags(files) ELSE <<>>
           /\ r.bndList = IF "Headland" \in flags
                          THEN WithHeadland(LoadedBoundary(files), files)
                          ELSE LoadedBoundary(files)
<1> DEFINE b == IF "Headland" \in flags
                THEN WithHeadland(LoadedBoundary(files), files) ELSE LoadedBoundary(files)
           c == LoadedContour(files)
           p == IF "Flags" \in flags THEN LoadedFlags(files) ELSE <<>>
           on == "Headland" \in flags /\ b # <<>> /\ b[1].hdLine # 0
           m == LoadedTram(files)
           rec == IF files.RecPath = None THEN 0 ELSE files.RecPath
<1>1. b \in Seq(Fences)
  BY LoadedBoundaryType, WithHeadlandType
<1>2. c \in Seq(K)
  BY LoadedContourType
<1>3. p \in Seq(K)
  BY DEF LoadedFlags, Files, OrNone
<1>4. m \in Trams
  BY DEF LoadedTram, NoTram, Trams, Files, OrNone
<1>5. rec \in Nat
  BY DEF Files, OrNone
<1>6. on \in BOOLEAN
  OBVIOUS
<1>7. PICK tracks \in IF "Lines" \in flags THEN FileLoadTracks(files) ELSE {<<>>} :
        r = [j EXCEPT !.gArr = tracks, !.idx = IF tracks = <<>> THEN 0 ELSE 1,
                      !.stripList = c, !.flagPts = p, !.bndList = b, !.isHeadlandOn = on,
                      !.tram = m, !.recList = rec]
  BY DEF FileOpenField
<1>8. tracks \in Seq(Tracks(K))
  <2>1. CASE "Lines" \in flags
    <3>1. tracks \in FileLoadTracks(files)
      BY <2>1
    <3> QED
      BY <3>1, LoadTracksType
  <2>2. CASE "Lines" \notin flags
    <3>1. tracks = <<>>
      BY <2>2
    <3> QED
      BY <3>1
  <2> QED
    BY <2>1, <2>2
<1> HIDE DEF b, c, p, on, m, rec
<1>9. (IF tracks = <<>> THEN 0 ELSE 1) \in 0 .. Len(tracks)
  BY <1>8
<1>10. r \in Jobs(K)
  BY <1>1, <1>2, <1>3, <1>4, <1>5, <1>6, <1>7, <1>8 DEF Jobs
<1>11. /\ r.gArr = tracks /\ r.idx = (IF tracks = <<>> THEN 0 ELSE 1) /\ r.stripList = c
       /\ r.flagPts = p /\ r.bndList = b /\ r.contourSaveList = j.contourSaveList
       /\ r.isContourOn = j.isContourOn /\ r.bndBeingMade = j.bndBeingMade
  BY <1>7 DEF Jobs
<1> QED
  BY <1>7, <1>9, <1>10, <1>11 DEF b, c, p

LEMMA AfterLoadingFacts ==
    ASSUME NEW K, NEW files \in Files(K), NEW j \in Jobs(K), NEW flags
    PROVE  /\ AfterLoading(files, j, flags) \in Files(K)
           /\ SameStrips(AfterLoading(files, j, flags), files)
BY SaveTracksFacts DEF AfterLoading, SameStrips

(* A field that is kept comes back with the tracks, fences and flags it had. *)
LEMMA KeptComesBack ==
    ASSUME NEW K, NEW files \in Files(K), NEW k, IsKept(files, k)
    PROVE  /\ ~LeavesLock(files, LoadFlags)
           /\ \A j \in FileOpenField(files, NoJob, LoadFlags) : Kept(j) = k
<1>1. ~LeavesLock(files, LoadFlags)
  BY DEF LeavesLock, IsKept
<1>2. ASSUME NEW j \in FileOpenField(files, NoJob, LoadFlags) PROVE Kept(j) = k
  <2> DEFINE t == files.TrackLines.tracks
  <2>1. "Lines" \in LoadFlags /\ "Flags" \in LoadFlags /\ "Headland" \in LoadFlags
    BY DEF LoadFlags
  <2>2. /\ j.gArr \in FileLoadTracks(files)
        /\ j.flagPts = LoadedFlags(files)
        /\ j.bndList = WithHeadland(LoadedBoundary(files), files)
    BY <2>1, NothingIsOwn, OpenFieldFacts
  <2>3. j.gArr = LoadedTracks(files)
    BY <2>2 DEF FileLoadTracks, IsKept
  <2>4. [i \in DOMAIN j.gArr |-> j.gArr[i].id] = [i \in DOMAIN t |-> t[i].id]
    BY <2>3, LoadedTracksType DEF IsKept
  <2>5. j.flagPts = files.Flags
    BY <2>2 DEF LoadedFlags, IsKept
  <2>6. [i \in DOMAIN j.bndList |-> j.bndList[i].fenceLine] = files.Boundary
    <3>1. /\ LoadedBoundary(files) \in Seq(Fences)
          /\ DOMAIN LoadedBoundary(files) = DOMAIN files.Boundary
          /\ \A i \in DOMAIN files.Boundary :
                LoadedBoundary(files)[i].fenceLine = files.Boundary[i]
      BY LoadedBoundaryType DEF IsKept
    <3>2. /\ DOMAIN j.bndList = DOMAIN files.Boundary
          /\ \A i \in DOMAIN files.Boundary : j.bndList[i].fenceLine = files.Boundary[i]
      BY <2>2, <3>1, WithHeadlandType
    <3>3. files.Boundary = [i \in DOMAIN files.Boundary |-> files.Boundary[i]]
      BY DEF IsKept, Files, OrNone
    <3> QED
      BY <3>2, <3>3
  <2> QED
    BY <2>4, <2>5, <2>6 DEF Kept, IsKept
<1> QED
  BY <1>1, <1>2

----------------------------------------------------------------------------
(* The strips in the files when those of one field change. *)

LEMMA OneFile ==
    ASSUME NEW d, d = [g \in Fields |-> d[g]], OnceOn(d), AloneOn(d),
           NEW f \in Fields, NEW files, Once(Lines(files)),
           \A g \in Fields : g # f /\ (files.Field = None \/ d[g].Field = None) =>
                Strips(files) \cap Strips(d[g]) = {}
    PROVE  OnceOn([d EXCEPT ![f] = files]) /\ AloneOn([d EXCEPT ![f] = files])
<1> DEFINE e == [d EXCEPT ![f] = files]
<1>1. e[f] = files /\ \A g \in Fields : g # f => e[g] = d[g]
  OBVIOUS
<1> HIDE DEF e
<1>2. OnceOn(e)
  BY <1>1 DEF OnceOn
<1>3. ASSUME NEW g \in Fields, NEW h \in Fields, g # h, e[g].Field = None
      PROVE  Strips(e[g]) \cap Strips(e[h]) = {}
  <2>1. CASE g # f /\ h # f
    BY <1>1, <1>3, <2>1 DEF AloneOn
  <2>2. CASE g = f
    BY <1>1, <1>3, <2>2
  <2>3. CASE h = f
    BY <1>1, <1>3, <2>3
  <2> QED
    BY <2>1, <2>2, <2>3
<1> QED
  BY <1>2, <1>3 DEF AloneOn, e

LEMMA SameStripsKeep ==
    ASSUME NEW d, d = [g \in Fields |-> d[g]], OnceOn(d), AloneOn(d),
           NEW f \in Fields, NEW files, SameStrips(files, d[f])
    PROVE  /\ OnceOn([d EXCEPT ![f] = files]) /\ AloneOn([d EXCEPT ![f] = files])
           /\ \A g \in Fields : Strips([d EXCEPT ![f] = files][g]) = Strips(d[g])
<1>1. Lines(files) = Lines(d[f]) /\ Strips(files) = Strips(d[f]) /\ files.Field = d[f].Field
  BY DEF SameStrips, Lines, Strips
<1>2. Once(Lines(files))
  BY <1>1 DEF OnceOn
<1>3. \A g \in Fields : g # f /\ (files.Field = None \/ d[g].Field = None) =>
          Strips(files) \cap Strips(d[g]) = {}
  BY <1>1 DEF AloneOn
<1>4. \A g \in Fields : [d EXCEPT ![f] = files][g] = IF g = f THEN files ELSE d[g]
  OBVIOUS
<1> QED
  BY <1>1, <1>2, <1>3, <1>4, OneFile

LEMMA NoStripsKeep ==
    ASSUME NEW d, d = [g \in Fields |-> d[g]], OnceOn(d), AloneOn(d),
           NEW f \in Fields, NEW files, Lines(files) \in {<<>>, <<Header>>}
    PROVE  /\ OnceOn([d EXCEPT ![f] = files]) /\ AloneOn([d EXCEPT ![f] = files])
           /\ \A g \in Fields : Strips([d EXCEPT ![f] = files][g]) \subseteq Strips(d[g])
<1>1. Strips(files) = {} /\ Once(Lines(files))
  BY DEF Strips, Once, ToSet
<1>2. \A g \in Fields : [d EXCEPT ![f] = files][g] = IF g = f THEN files ELSE d[g]
  OBVIOUS
<1> QED
  BY <1>1, <1>2, OneFile

(* A list of strips, each of them once and none of them in a file. *)
IsNewOn(d, list) ==
    /\ list \in Seq(Nat) /\ Once(list)
    /\ \A g \in Fields : ToSet(list) \cap Strips(d[g]) = {}

(* A file that is an older one, or the older one with a list of strips behind its own. *)
Extends(files, old, list) ==
    /\ files.Field = old.Field
    /\ Lines(old) \in Seq(Nat)
    /\ Lines(files) = Lines(old) \/ Lines(files) = Lines(old) \o list

(* The disk d with the files of one field written. *)
Rewritten(d, f, files) == [d EXCEPT ![f] = files]

(* A list of strips that are in no file is appended to the strips of f. *)
LEMMA AppendedKeep ==
    ASSUME NEW d, d = [g \in Fields |-> d[g]], OnceOn(d), AloneOn(d),
           NEW f \in Fields, NEW list, IsNewOn(d, list),
           NEW files, Extends(files, d[f], list)
    PROVE  /\ OnceOn(Rewritten(d, f, files)) /\ AloneOn(Rewritten(d, f, files))
           /\ \A g \in Fields :
                 Strips(Rewritten(d, f, files)[g]) \subseteq Strips(d[g]) \cup ToSet(list)
<1>a. /\ files.Field = d[f].Field /\ Lines(d[f]) \in Seq(Nat) /\ list \in Seq(Nat)
      /\ Once(list) /\ \A g \in Fields : ToSet(list) \cap Strips(d[g]) = {}
      /\ Lines(files) = Lines(d[f]) \/ Lines(files) = Lines(d[f]) \o list
  BY DEF IsNewOn, Extends
<1>1. ToSet(Lines(d[f])) \cap ToSet(list) \subseteq {Header}
  BY <1>a DEF Strips
<1>2. /\ ToSet(Lines(d[f]) \o list) = ToSet(Lines(d[f])) \cup ToSet(list)
      /\ Once(Lines(d[f]) \o list)
  BY <1>1, <1>a, AppendedOnce DEF OnceOn
<1>3. Once(Lines(files)) /\ Strips(files) \subseteq Strips(d[f]) \cup ToSet(list)
  BY <1>2, <1>a DEF OnceOn, Strips
<1>4. \A g \in Fields : g # f /\ (files.Field = None \/ d[g].Field = None) =>
          Strips(files) \cap Strips(d[g]) = {}
  BY <1>3, <1>a DEF AloneOn
<1>5. \A g \in Fields : Rewritten(d, f, files)[g] = IF g = f THEN files ELSE d[g]
  BY DEF Rewritten
<1>6. OnceOn(Rewritten(d, f, files)) /\ AloneOn(Rewritten(d, f, files))
  BY <1>3, <1>4, <1>a, OneFile DEF Rewritten
<1> QED
  BY <1>3, <1>5, <1>6

LEMMA OneFileOwn ==
    ASSUME NEW d, NEW made, NEW o, FilesAreOwn(d, made, o),
           NEW made2, NEW o2, NEW f \in Fields,
           \A g \in Fields \ {f} : Known(made, o[g]) \subseteq Known(made2, o2[g]),
           NEW files \in Files(Known(made2, o2[f]))
    PROVE  FilesAreOwn([d EXCEPT ![f] = files], made2, o2)
<1> DEFINE e == [d EXCEPT ![f] = files]
<1>1. d = [g \in Fields |-> d[g]]
  BY DEF FilesAreOwn
<1>2. e = [g \in Fields |-> e[g]] /\ e[f] = files /\ \A g \in Fields : g # f => e[g] = d[g]
  BY <1>1
<1> HIDE DEF e
<1>3. ASSUME NEW g \in Fields PROVE e[g] \in Files(Known(made2, o2[g]))
  <2>1. CASE g = f
    BY <1>2, <2>1
  <2>2. CASE g # f
    <3>1. e[g] \in Files(Known(made, o[g]))
      BY <1>2, <2>2 DEF FilesAreOwn
    <3>2. Known(made, o[g]) \subseteq Known(made2, o2[g])
      BY <2>2
    <3> QED
      BY <3>1, <3>2, FilesMono
  <2> QED
    BY <2>1, <2>2
<1>4. FilesAreOwn(e, made2, o2)
  BY <1>2, <1>3 DEF FilesAreOwn
<1> QED
  BY <1>4 DEF e

LEMMA OneFileKept ==
    ASSUME NEW d, d = [g \in Fields |-> d[g]], NEW k, KeptOn(d, k),
           NEW f \in Fields, NEW files
    PROVE  /\ KeptOn([d EXCEPT ![f] = files], [k EXCEPT ![f] = None])
           /\ k[f] = None => KeptOn([d EXCEPT ![f] = files], k)
           /\ \A new : IsKept(files, new) =>
                 KeptOn([d EXCEPT ![f] = files], [k EXCEPT ![f] = new])
<1> DEFINE e == [d EXCEPT ![f] = files]
<1>1. e[f] = files /\ \A g \in Fields : g # f => e[g] = d[g]
  OBVIOUS
<1>2. k = [g \in Fields |-> k[g]]
  BY DEF KeptOn
<1>3. ASSUME NEW new
      PROVE  /\ [k EXCEPT ![f] = new] = [g \in Fields |-> [k EXCEPT ![f] = new][g]]
             /\ [k EXCEPT ![f] = new][f] = new
             /\ \A g \in Fields : g # f => [k EXCEPT ![f] = new][g] = k[g]
  BY <1>2
<1> HIDE DEF e
<1>4. ASSUME NEW new, new = None \/ IsKept(files, new) PROVE KeptOn(e, [k EXCEPT ![f] = new])
  <2> DEFINE l == [k EXCEPT ![f] = new]
  <2>1. l = [g \in Fields |-> l[g]] /\ l[f] = new /\ \A g \in Fields : g # f => l[g] = k[g]
    BY <1>3
  <2> HIDE DEF l
  <2>2. KeptOn(e, l)
    BY <1>1, <1>4, <2>1 DEF KeptOn
  <2> QED
    BY <2>2 DEF l
<1>5. k[f] = None => KeptOn(e, k)
  BY <1>1 DEF KeptOn
<1> QED
  BY <1>4, <1>5 DEF e

LEMMA NothingNew ==
    ASSUME NEW d, NEW j, j.contourSaveList = <<>>, ~j.isContourOn
    PROVE  ListIsNew(d, j)
BY DEF ListIsNew, Once, ToSet

(* Fewer strips in the files. *)
LEMMA StaysNew ==
    ASSUME NEW d, NEW e, NEW j, ListIsNew(d, j),
           \A g \in Fields : Strips(e[g]) \subseteq Strips(d[g])
    PROVE  ListIsNew(e, j)
BY DEF ListIsNew

----------------------------------------------------------------------------
(* Closing *)

LEMMA AppendOnce ==
    ASSUME NEW S, NEW s \in Seq(S), NEW x \in S
    PROVE  /\ Append(s, x) \in Seq(S) /\ ToSet(Append(s, x)) = ToSet(s) \cup {x}
           /\ Once(s) /\ x \notin ToSet(s) => Once(Append(s, x))
<1> DEFINE u == Append(s, x)
<1>1. Len(s) \in Nat /\ DOMAIN s = 1 .. Len(s) /\ DOMAIN u = 1 .. Len(s) + 1 /\ u \in Seq(S)
  OBVIOUS
<1>2. u[Len(s) + 1] = x /\ \A p \in DOMAIN s : u[p] = s[p]
  OBVIOUS
<1> HIDE DEF u
<1>3. \A p \in DOMAIN u : p \in DOMAIN s \/ p = Len(s) + 1
  BY <1>1
<1>4. Len(s) + 1 \in DOMAIN u /\ DOMAIN s \subseteq DOMAIN u
  BY <1>1
<1>5. ToSet(u) = ToSet(s) \cup {x}
  BY <1>2, <1>3, <1>4 DEF ToSet
<1>6. Once(s) /\ x \notin ToSet(s) => Once(u)
  BY <1>2, <1>3 DEF Once, ToSet
<1> QED
  BY <1>1, <1>5, <1>6 DEF u

(* The strip that is drawn joins the list, or is forgotten. *)
LEMMA StoppedFacts ==
    ASSUME NEW K, NEW j \in Jobs(K), NEW d, ListIsNew(d, j), NEW r \in StoppedContour(j)
    PROVE  /\ r \in Jobs(K) /\ ListIsNew(d, r) /\ ~r.isContourOn
           /\ r.gArr = j.gArr /\ r.idx = j.idx /\ r.bndBeingMade = j.bndBeingMade
<1>1. CASE ~j.isContourOn
  BY <1>1 DEF StoppedContour
<1>2. CASE j.isContourOn
  <2> DEFINE x == Last(j.stripList)
             list == Append(j.contourSaveList, x)
             a == [j EXCEPT !.isContourOn = FALSE, !.contourSaveList = list]
             b == [j EXCEPT !.isContourOn = FALSE, !.stripList = Front(j.stripList)]
  <2>1. j.stripList \in Seq(K) /\ j.contourSaveList \in Seq(K) /\ j.stripList # <<>>
    BY <1>2 DEF Jobs, ListIsNew
  <2>2. x \in K /\ Front(j.stripList) \in Seq(K)
    BY <2>1, LastType
  <2>3. x \notin ToSet(j.contourSaveList) /\ \A f \in Fields : x \notin Strips(d[f])
    BY <1>2 DEF ListIsNew
  <2>4. r = a \/ r = b
    BY <1>2 DEF StoppedContour
  <2> HIDE DEF x
  <2>5. list \in Seq(K) /\ ToSet(list) = ToSet(j.contourSaveList) \cup {x} /\ Once(list)
    BY <2>1, <2>2, <2>3, AppendOnce DEF ListIsNew
  <2> HIDE DEF list
  <2>6. CASE r = a
    <3>1. /\ r \in Jobs(K) /\ ~r.isContourOn /\ r.contourSaveList = list
          /\ r.gArr = j.gArr /\ r.idx = j.idx /\ r.bndBeingMade = j.bndBeingMade
      BY <2>5, <2>6 DEF Jobs
    <3>2. ListIsNew(d, r)
      BY <2>3, <2>5, <3>1 DEF ListIsNew
    <3> QED
      BY <3>1, <3>2
  <2>7. CASE r = b
    <3>1. /\ r \in Jobs(K) /\ ~r.isContourOn /\ r.contourSaveList = j.contourSaveList
          /\ r.gArr = j.gArr /\ r.idx = j.idx /\ r.bndBeingMade = j.bndBeingMade
      BY <2>2, <2>7 DEF Jobs
    <3>2. ListIsNew(d, r)
      BY <3>1 DEF ListIsNew
    <3> QED
      BY <3>1, <3>2
  <2> QED
    BY <2>4, <2>6, <2>7
<1> QED
  BY <1>1, <1>2

(* What is left in memory of a field that has been closed. *)
LEMMA JobCloseFacts ==
    ASSUME NEW K, NEW L, NEW j \in Jobs(K), j.contourSaveList = <<>>
    PROVE  /\ JobClose(j) \in Jobs(L) /\ IsEmptied(JobClose(j))
           /\ JobClose(j).idx = 0 /\ JobClose(j).bndBeingMade = j.bndBeingMade
           /\ JobClose(j).contourSaveList = <<>> /\ JobClose(j).isContourOn = FALSE
BY DEF JobClose, Cleared, Jobs, NoTram, Trams, IsEmptied

(* The files of the open field, while they are written or when all are. *)
LEMMA WrittenKeeps ==
    ASSUME NEW K, K \subseteq Nat, NEW d, NEW f \in Fields, d[f] \in Files(K),
           d = [g \in Fields |-> d[g]], OnceOn(d), AloneOn(d),
           NEW j \in Jobs(K), ListIsNew(d, j),
           NEW files, files.Field = d[f].Field,
           Lines(files) = Lines(d[f]) \/ Lines(files) = Lines(d[f]) \o j.contourSaveList
    PROVE  OnceOn([d EXCEPT ![f] = files]) /\ AloneOn([d EXCEPT ![f] = files])
<1>1. Lines(d[f]) \in Seq(Nat) /\ j.contourSaveList \in Seq(Nat)
  BY LinesType, SeqMono DEF Jobs
<1>2. IsNewOn(d, j.contourSaveList)
  BY <1>1 DEF ListIsNew, IsNewOn
<1>3. Extends(files, d[f], j.contourSaveList)
  BY <1>1 DEF Extends
<1>4. OnceOn(Rewritten(d, f, files)) /\ AloneOn(Rewritten(d, f, files))
  BY <1>2, <1>3, AppendedKeep
<1> QED
  BY <1>4 DEF Rewritten

(* The open field, and whose its content is. *)
Mine == Known(madeIn, origins[currentFieldDirectory])

LEMMA OpenFacts ==
    ASSUME IInv, isJobStarted
    PROVE  /\ currentFieldDirectory \in Fields
           /\ job \in Jobs(Mine) /\ Mine \subseteq Nat /\ Header \in Mine
           /\ disk[currentFieldDirectory] \in Files(Mine)
           /\ disk = [g \in Fields |-> disk[g]]
<1>1. currentFieldDirectory \in Fields
  BY DEF IInv, Named
<1>2. madeIn \in Seq(Fields \cup {None})
  BY DEF IInv, Named
<1>3. job \in Jobs(Mine)
  BY DEF IInv, JobIsOwn, Origins, Mine
<1> QED
  BY <1>1, <1>2, <1>3, KnownFacts DEF Mine, IInv, DiskOK, FilesAreOwn

(* A field is closed as it was saved, and leaves nothing in memory. *)
ClosedFacts(c) ==
    /\ c.job \in Jobs(Known(madeIn, {None})) /\ IsEmptied(c.job)
    /\ IsSound(c.job, currentFieldDirectory)
    /\ DiskOK(c.disk, madeIn, origins)
    /\ KeptOn(c.disk, c.kept)
    /\ \A g \in Fields : c.disk[g].Field = disk[g].Field
    /\ \A g \in Fields : c.disk[g] = disk[g] \/ (isJobStarted /\ g = currentFieldDirectory)

LEMMA ClosingsFacts ==
    ASSUME IInv, NEW c \in Closings
    PROVE  ClosedFacts(c)
<1>1. CASE ~isJobStarted
  <2>1. c.job = job /\ c.disk = disk /\ c.kept = kept
    BY <1>1 DEF Closings
  <2>2. job \in Jobs(Known(madeIn, {None})) /\ IsEmptied(job)
    BY <1>1 DEF IInv, JobIsOwn, Origins, ClosedIsEmpty
  <2> QED
    BY <2>1, <2>2 DEF IInv, ClosedFacts
<1>2. CASE isJobStarted
  <2> DEFINE f == currentFieldDirectory
  <2>1. PICK j \in StoppedContour(job) :
          c = LET files == Last(Written(disk[f], j))
              IN  [job |-> JobClose([j EXCEPT !.contourSaveList = <<>>]),
                   disk |-> [disk EXCEPT ![f] = files],
                   kept |-> [kept EXCEPT ![f] = Kept(j)]]
    BY <1>2 DEF Closings
  <2> DEFINE files == Written(disk[f], j)[4]
             e == [disk EXCEPT ![f] = files]
             saved == [j EXCEPT !.contourSaveList = <<>>]
  <2>2. /\ f \in Fields /\ disk[f] \in Files(Mine) /\ job \in Jobs(Mine) /\ Mine \subseteq Nat
        /\ disk = [g \in Fields |-> disk[g]]
    BY <1>2, OpenFacts
  <2>3. j \in Jobs(Mine) /\ ListIsNew(disk, j) /\ j.bndBeingMade = job.bndBeingMade
    BY <2>1, <2>2, StoppedFacts DEF IInv
  <2>4. /\ files \in Files(Mine) /\ files.Field = disk[f].Field
        /\ Lines(files) = Lines(disk[f]) \/ Lines(files) = Lines(disk[f]) \o j.contourSaveList
        /\ IsKept(files, Kept(j))
    <3>1. \A n \in 1 .. 4 :
             /\ Written(disk[f], j)[n] \in Files(Mine)
             /\ Written(disk[f], j)[n].Field = disk[f].Field
             /\ \/ Lines(Written(disk[f], j)[n]) = Lines(disk[f])
                \/ Lines(Written(disk[f], j)[n]) = Lines(disk[f]) \o j.contourSaveList
      BY <2>2, <2>3, WrittenFacts
    <3>2. IsKept(files, Kept(j))
      BY <2>2, <2>3, WrittenFacts
    <3>3. 4 \in 1 .. 4
      OBVIOUS
    <3> QED
      BY <3>1, <3>2, <3>3
  <2>5. Last(Written(disk[f], j)) = files
    <3>1. Written(disk[f], j) = <<Written(disk[f], j)[1], Written(disk[f], j)[2],
                                  Written(disk[f], j)[3], files>>
      BY <2>2, <2>3, WrittenFacts
    <3>2. \A w, x, y, z : Last(<<w, x, y, z>>) = z
      BY DEF Last
    <3> QED
      BY <3>1, <3>2
  <2>6. c.job = JobClose(saved) /\ c.disk = e /\ c.kept = [kept EXCEPT ![f] = Kept(j)]
    BY <2>1, <2>5
  <2> HIDE DEF files
  <2>7. saved \in Jobs(Mine) /\ saved.contourSaveList = <<>> /\ saved.bndBeingMade = job.bndBeingMade
    <3>1. <<>> \in Seq(Mine)
      OBVIOUS
    <3> QED
      BY <2>3, <3>1, JobsExcept DEF Jobs
  <2> HIDE DEF saved
  <2>8. /\ c.job \in Jobs(Known(madeIn, {None})) /\ IsEmptied(c.job)
        /\ IsSound(c.job, currentFieldDirectory)
    <3> DEFINE r == JobClose(saved)
    <3>1. /\ r \in Jobs(Known(madeIn, {None})) /\ IsEmptied(r)
          /\ r.idx = 0 /\ r.bndBeingMade = job.bndBeingMade
      BY <2>7, JobCloseFacts
    <3> HIDE DEF r
    <3>2. Len(r.gArr) = 0
      BY <3>1 DEF IsEmptied
    <3>3. IsSound(r, currentFieldDirectory)
      BY <3>1, <3>2 DEF IsSound, IInv
    <3> QED
      BY <2>6, <3>1, <3>3 DEF r
  <2>9. FilesAreOwn(e, madeIn, origins)
    BY <2>2, <2>4, OneFileOwn DEF Mine, IInv, DiskOK
  <2>10. OnceOn(e) /\ AloneOn(e)
    BY <2>2, <2>3, <2>4, WrittenKeeps DEF IInv, DiskOK
  <2>11. KeptOn(e, [kept EXCEPT ![f] = Kept(j)])
    BY <2>2, <2>4, OneFileKept DEF IInv
  <2>12. e[f] = files /\ \A g \in Fields : g # f => e[g] = disk[g]
    BY <2>2
  <2> HIDE DEF e
  <2>13. \A g \in Fields : c.disk[g].Field = disk[g].Field
    BY <2>4, <2>6, <2>12
  <2> QED
    BY <1>2, <2>6, <2>8, <2>9, <2>10, <2>11, <2>12, <2>13 DEF ClosedFacts, DiskOK
<1> QED
  BY <1>1, <1>2 DEF IInv, Named

----------------------------------------------------------------------------
(* The steps that open, close and create fields *)

LEMMA InitIInv == Init => IInv
<1> SUFFICES ASSUME Init PROVE IInv
  OBVIOUS
<1> DEFINE K == Known(madeIn, {Legacy, None})
<1>1. madeIn = <<Legacy, Legacy, Legacy, Legacy>> /\ madeIn \in Seq(Fields \cup {None})
      /\ Len(madeIn) = 4
  BY LegacyAssumption DEF Init
<1>2. Header \in K /\ 1 \in K /\ 2 \in K /\ 3 \in K /\ 4 \in K
  BY <1>1 DEF Known
<1>3. LegacyFiles \in Files(K)
  <2>1. CTrk(1, "AB") \in Tracks(K) /\ CTrk(2, "Curve") \in Tracks(K)
    BY <1>2 DEF CTrk, Tracks
  <2> HIDE DEF K
  <2>2. <<CTrk(1, "AB")>> \in OrNone(Seq(Tracks(K))) /\ <<CTrk(2, "Curve")>> \in OrNone(Seq(Tracks(K)))
    BY <2>1 DEF OrNone
  <2>3. <<Header>> \in OrNone(Seq(K)) /\ <<>> \in OrNone(Seq(K)) /\ <<3>> \in OrNone(Seq(Nat))
    BY <1>2 DEF OrNone
  <2>4. [outer |-> TRUE, inner |-> TRUE, lines |-> TRUE] \in OrNone(Trams)
    BY DEF OrNone, Trams
  <2>5. "Field" \in OrNone({"Field"}) /\ 4 \in OrNone(Nat)
    BY DEF OrNone
  <2> QED
    BY <2>2, <2>3, <2>4, <2>5, NothingIsOwn DEF LegacyFiles, Files
<1>4. LegacyFiles.Contour = <<Header>> /\ NoFiles.Contour = None
  BY DEF LegacyFiles, NoFiles
<1> HIDE DEF K
<1>5. /\ disk = [f \in Fields |-> disk[f]]
      /\ \A f \in Fields : disk[f] = IF f = Legacy THEN LegacyFiles ELSE NoFiles
      /\ origins = [f \in Fields |-> origins[f]]
      /\ \A f \in Fields : origins[f] = {f, None}
  BY DEF Init
<1>6. FilesAreOwn(disk, madeIn, origins)
  <2> SUFFICES ASSUME NEW f \in Fields PROVE disk[f] \in Files(Known(madeIn, origins[f]))
    BY <1>5 DEF FilesAreOwn
  <2>1. CASE f = Legacy
    BY <1>3, <1>5, <2>1 DEF K
  <2>2. CASE f # Legacy
    BY <1>5, <2>2, NothingIsOwn
  <2> QED
    BY <2>1, <2>2
<1>7. \A f \in Fields : Lines(disk[f]) = <<>> \/ Lines(disk[f]) = <<Header>>
  BY <1>4, <1>5 DEF Lines
<1>8. OnceOn(disk)
  BY <1>7 DEF OnceOn, Once
<1>9. AloneOn(disk)
  <2>1. \A f \in Fields : Strips(disk[f]) = {}
    BY <1>7 DEF Strips, ToSet
  <2> QED
    BY <2>1 DEF AloneOn
<1>10. /\ job = NoJob /\ job.gArr = <<>> /\ job.idx = 0 /\ job.stripList = <<>>
       /\ job.contourSaveList = <<>> /\ job.isContourOn = FALSE /\ job.bndBeingMade = 0
  BY DEF Init, NoJob, Cleared
<1>11. JobIsOwn
  BY <1>10, NothingIsOwn DEF JobIsOwn
<1>12. IsSound(job, currentFieldDirectory)
  BY <1>10 DEF IsSound
<1>13. ClosedIsEmpty
  BY <1>10 DEF ClosedIsEmpty, IsEmptied
<1>14. KeptOn(disk, kept) /\ OpenIsNotKept
  BY DEF Init, KeptOn, OpenIsNotKept
<1>15. ListIsNew(disk, job)
  BY <1>10, NothingNew
<1>16. Named
  BY <1>1, <1>5, BoundsAssumption DEF Init, Named
<1> QED
  BY <1>6, <1>8, <1>9, <1>11, <1>12, <1>13, <1>14, <1>15, <1>16 DEF IInv, DiskOK

(* A field has been closed and no other is opened. *)
LEMMA Closed ==
    ASSUME IInv, NEW c \in Closings, job' = c.job, disk' = c.disk, kept' = c.kept,
           isJobStarted' = FALSE,
           UNCHANGED <<currentFieldDirectory, isStuck, origins, madeIn>>
    PROVE  IInv'
<1>1. ClosedFacts(c)
  BY ClosingsFacts
<1>2. JobIsOwn' /\ ClosedIsEmpty' /\ OpenIsNotKept'
  BY <1>1 DEF ClosedFacts, JobIsOwn, Origins, ClosedIsEmpty, OpenIsNotKept
<1>3. Named'
  BY DEF IInv, Named
<1>4. DiskOK(disk, madeIn, origins)' /\ KeptOn(disk, kept)' /\ IsSound(job, currentFieldDirectory)'
  BY <1>1 DEF ClosedFacts
<1>5. ListIsNew(disk, job)'
  BY <1>1, NothingNew DEF ClosedFacts, IsEmptied
<1> QED
  BY <1>2, <1>3, <1>4, <1>5 DEF IInv

LEMMA OpenFieldStep ==
    ASSUME IInv, NEW f \in Fields, OpenField(f)
    PROVE  IInv'
<1>1. PICK c \in Closings :
          IF c.disk[f].Field = None
          THEN /\ job' = c.job /\ disk' = c.disk /\ kept' = c.kept
               /\ isJobStarted' = FALSE
               /\ UNCHANGED <<currentFieldDirectory, isStuck>>
          ELSE /\ job' \in FileOpenField(c.disk[f], JobClose(c.job), LoadFlags)
               /\ disk' = [c.disk EXCEPT ![f] = AfterLoading(@, job', LoadFlags)]
               /\ kept' = [c.kept EXCEPT ![f] = None]
               /\ isStuck' = LeavesLock(c.disk[f], LoadFlags)
               /\ isJobStarted' = TRUE
               /\ currentFieldDirectory' = f
  BY DEF OpenField
<1>2. UNCHANGED <<origins, madeIn>>
  BY DEF OpenField
<1>3. CASE c.disk[f].Field = None
  BY <1>1, <1>2, <1>3, Closed
<1>4. CASE c.disk[f].Field # None
  <2> DEFINE K == Known(madeIn, origins[f])
             files == AfterLoading(c.disk[f], job', LoadFlags)
  <2>1. /\ job' \in FileOpenField(c.disk[f], JobClose(c.job), LoadFlags)
        /\ disk' = [c.disk EXCEPT ![f] = files]
        /\ kept' = [c.kept EXCEPT ![f] = None]
        /\ isStuck' = LeavesLock(c.disk[f], LoadFlags)
        /\ isJobStarted' = TRUE /\ currentFieldDirectory' = f
    BY <1>1, <1>4
  <2>2. ClosedFacts(c)
    BY ClosingsFacts
  <2>3. /\ c.disk[f] \in Files(K) /\ c.disk = [g \in Fields |-> c.disk[g]]
        /\ OnceOn(c.disk) /\ AloneOn(c.disk) /\ KeptOn(c.disk, c.kept)
    BY <2>2 DEF ClosedFacts, DiskOK, FilesAreOwn
  <2>4. JobClose(c.job) \in Jobs(K) /\ JobClose(c.job).contourSaveList = <<>>
        /\ JobClose(c.job).isContourOn = FALSE
    BY <2>2, JobCloseFacts DEF ClosedFacts, IsEmptied
  <2>5. /\ job' \in Jobs(K) /\ job'.idx \in 0 .. Len(job'.gArr)
        /\ job'.contourSaveList = <<>> /\ job'.isContourOn = FALSE
    BY <2>1, <2>3, <2>4, OpenFieldFacts
  <2>6. files \in Files(K) /\ SameStrips(files, c.disk[f])
    BY <2>3, <2>5, AfterLoadingFacts
  <2> HIDE DEF files
  <2>7. JobIsOwn' /\ ClosedIsEmpty'
    BY <1>2, <2>1, <2>5 DEF JobIsOwn, Origins, ClosedIsEmpty
  <2>8. Named'
    BY <1>2, <2>1, NoneAssumption DEF IInv, Named, LeavesLock
  <2>9. IsSound(job, currentFieldDirectory)'
    BY <2>1, <2>5, NoneAssumption DEF IsSound
  <2>10. FilesAreOwn(disk, madeIn, origins)'
    BY <1>2, <2>1, <2>2, <2>6, OneFileOwn DEF ClosedFacts, DiskOK
  <2>11. OnceOn(disk)' /\ AloneOn(disk)'
    BY <2>1, <2>3, <2>6, SameStripsKeep
  <2>12. KeptOn(disk, kept)'
    BY <2>1, <2>3, OneFileKept
  <2>13. OpenIsNotKept'
    BY <2>1, <2>3 DEF OpenIsNotKept, KeptOn
  <2>14. ListIsNew(disk, job)'
    BY <2>5, NothingNew
  <2> QED
    BY <2>7, <2>8, <2>9, <2>10, <2>11, <2>12, <2>13, <2>14 DEF IInv, DiskOK
<1> QED
  BY <1>3, <1>4

(* What is found under the name of a new field is what LeftOver says. *)
LEMMA LeftOverFacts ==
    ASSUME IInv, NEW c, ClosedFacts(c), NEW f \in Fields, NEW fs, LeftOver(f) \subseteq fs
    PROVE  c.disk[f] \in Files(Known(madeIn, fs))
<1>1. madeIn \in Seq(Fields \cup {None})
  BY DEF IInv, Named
<1>2. CASE Exists(disk[f]) \/ (isJobStarted /\ currentFieldDirectory = f)
  <2>1. LeftOver(f) = origins[f]
    BY <1>2 DEF LeftOver
  <2>2. c.disk[f] \in Files(Known(madeIn, origins[f]))
    BY DEF ClosedFacts, DiskOK, FilesAreOwn
  <2>3. Known(madeIn, origins[f]) \subseteq Known(madeIn, fs)
    BY <1>1, <2>1, KnownFacts
  <2> QED
    BY <2>2, <2>3, FilesMono
<1>3. CASE ~(Exists(disk[f]) \/ (isJobStarted /\ currentFieldDirectory = f))
  <2>1. c.disk[f] = NoFiles
    BY <1>3 DEF Exists, ClosedFacts
  <2> QED
    BY <2>1, NothingIsOwn
<1> QED
  BY <1>2, <1>3

LEMMA CreateFieldStep ==
    ASSUME IInv, NEW f \in Fields, CreateField(f)
    PROVE  IInv'
<1>1. PICK c \in Closings :
          /\ job' = c.job
          /\ disk' = [c.disk EXCEPT ![f] = NewFiles(@, c.job)]
          /\ kept' = [c.kept EXCEPT ![f] = None]
  BY DEF CreateField
<1> DEFINE fs == LeftOver(f) \cup {f, None}
           K == Known(madeIn, fs)
           files == NewFiles(c.disk[f], c.job)
<1>2. /\ isJobStarted' = TRUE /\ currentFieldDirectory' = f
      /\ origins' = [origins EXCEPT ![f] = fs] /\ UNCHANGED <<isStuck, madeIn>>
  BY DEF CreateField
<1>3. ClosedFacts(c)
  BY ClosingsFacts
<1>4. madeIn \in Seq(Fields \cup {None}) /\ origins = [g \in Fields |-> origins[g]]
  BY DEF IInv, Named
<1>5. origins'[f] = fs /\ \A g \in Fields : g # f => origins'[g] = origins[g]
  BY <1>2, <1>4
<1>6. c.disk[f] \in Files(K)
  BY <1>3, LeftOverFacts
<1>7. K \subseteq Nat /\ Header \in K /\ Known(madeIn, {None}) \subseteq K
  BY <1>4, KnownFacts
<1>8. c.job \in Jobs(K)
  BY <1>3, <1>7, FilesMono DEF ClosedFacts
<1>9. files \in Files(K) /\ Lines(files) = <<Header>>
  BY <1>6, <1>7, <1>8, NewFilesFacts
<1>10. disk' = [c.disk EXCEPT ![f] = files]
  BY <1>1
<1> HIDE DEF files, fs
<1>11. JobIsOwn' /\ ClosedIsEmpty'
  BY <1>1, <1>2, <1>5, <1>8 DEF JobIsOwn, Origins, ClosedIsEmpty
<1>12. Named'
  BY <1>2, <1>4, <1>5, NoneAssumption DEF IInv, Named, fs
<1>13. IsSound(job, currentFieldDirectory)'
  BY <1>1, <1>2, <1>3, NoneAssumption DEF ClosedFacts, IsSound
<1>14. FilesAreOwn(disk, madeIn, origins)'
  <2>1. \A g \in Fields \ {f} : Known(madeIn, origins[g]) \subseteq Known(madeIn', origins'[g])
    BY <1>2, <1>5
  <2>2. files \in Files(Known(madeIn', origins'[f]))
    BY <1>2, <1>5, <1>9
  <2> QED
    BY <1>3, <1>10, <2>1, <2>2, OneFileOwn DEF ClosedFacts, DiskOK
<1>15. OnceOn(disk)' /\ AloneOn(disk)'
  BY <1>3, <1>9, <1>10, NoStripsKeep DEF ClosedFacts, DiskOK, FilesAreOwn
<1>16. KeptOn(disk, kept)'
  <2>1. c.disk = [g \in Fields |-> c.disk[g]] /\ KeptOn(c.disk, c.kept)
    BY <1>3 DEF ClosedFacts, DiskOK, FilesAreOwn
  <2>2. KeptOn([c.disk EXCEPT ![f] = files], [c.kept EXCEPT ![f] = None])
    BY <2>1, OneFileKept
  <2> QED
    BY <1>1, <1>10, <2>2
<1>17. OpenIsNotKept'
  BY <1>1, <1>2, <1>3 DEF OpenIsNotKept, KeptOn, ClosedFacts
<1>18. ListIsNew(disk, job)'
  BY <1>1, <1>3, NothingNew DEF ClosedFacts, IsEmptied
<1> QED
  BY <1>11, <1>12, <1>13, <1>14, <1>15, <1>16, <1>17, <1>18 DEF IInv, DiskOK

(* The strip that is copied is in no file of f, if f has no Field.txt. *)
LEMMA CopiedKeep ==
    ASSUME NEW d, d = [g \in Fields |-> d[g]], OnceOn(d), AloneOn(d),
           NEW f \in Fields, NEW existing \in Fields, existing # f,
           d[f].Field = None, d[existing].Field # None,
           Lines(d[f]) \in Seq(Nat), NEW x \in Nat, x = Header \/ x \in Strips(d[existing]),
           NEW files, files.Field # None,
           Lines(files) = Lines(d[f]) \/ Lines(files) = Lines(d[f]) \o <<x>>
    PROVE  OnceOn([d EXCEPT ![f] = files]) /\ AloneOn([d EXCEPT ![f] = files])
<1>1. <<x>> \in Seq(Nat) /\ ToSet(<<x>>) = {x} /\ Once(<<x>>)
  BY DEF ToSet, Once
<1>2. ToSet(Lines(d[f])) \cap ToSet(<<x>>) \subseteq {Header}
  BY <1>1 DEF AloneOn, Strips
<1>3. /\ ToSet(Lines(d[f]) \o <<x>>) = ToSet(Lines(d[f])) \cup {x}
      /\ Once(Lines(d[f]) \o <<x>>)
  <2>1. Once(Lines(d[f]))
    BY DEF OnceOn
  <2> DEFINE s == Lines(d[f])
             t == <<x>>
  <2>2. s \in Seq(Nat) /\ t \in Seq(Nat) /\ ToSet(s) \cap ToSet(t) \subseteq {Header}
        /\ Once(s) /\ Once(t) /\ ToSet(t) = {x}
    BY <1>1, <1>2, <2>1
  <2> HIDE DEF s, t
  <2>3. ToSet(s \o t) = ToSet(s) \cup {x} /\ Once(s \o t)
    BY <2>2, AppendedOnce
  <2> QED
    BY <2>3 DEF s, t
<1>4. Once(Lines(files)) /\ Strips(files) \subseteq Strips(d[f]) \cup Strips(d[existing])
  <2>1. CASE Lines(files) = Lines(d[f])
    BY <2>1 DEF OnceOn, Strips
  <2>2. CASE Lines(files) = Lines(d[f]) \o <<x>>
    <3>1. Once(Lines(files)) /\ ToSet(Lines(files)) = ToSet(Lines(d[f])) \cup {x}
      BY <1>3, <2>2
    <3> QED
      BY <3>1 DEF Strips
  <2> QED
    BY <2>1, <2>2
<1>5. \A g \in Fields : g # f /\ (files.Field = None \/ d[g].Field = None) =>
          Strips(files) \cap Strips(d[g]) = {}
  <2> SUFFICES ASSUME NEW g \in Fields, g # f, d[g].Field = None
               PROVE  Strips(files) \cap Strips(d[g]) = {}
    OBVIOUS
  <2>1. g # existing
    OBVIOUS
  <2>2. Strips(d[g]) \cap Strips(d[f]) = {} /\ Strips(d[g]) \cap Strips(d[existing]) = {}
    BY <2>1 DEF AloneOn
  <2> QED
    BY <1>4, <2>2
<1> QED
  BY <1>4, <1>5, OneFile

LEMMA CopiedStripFacts ==
    ASSUME NEW K, NEW files \in Files(K), NEW j \in Jobs(K), j.stripList = LoadedContour(files)
    PROVE  \E x \in K \cup {Header} :
              /\ CopiedStrip(j) = <<x>>
              /\ x = Header \/ x \in Strips(files)
<1>1. CASE j.stripList = <<>>
  BY <1>1 DEF CopiedStrip
<1>2. CASE j.stripList # <<>>
  <2>1. j.stripList \in Seq(K)
    BY DEF Jobs
  <2>2. Last(j.stripList) \in K /\ Last(j.stripList) \in ToSet(j.stripList)
    BY <1>2, <2>1, LastType
  <2>3. ToSet(j.stripList) \subseteq ToSet(Lines(files))
    BY LoadedContourType
  <2>4. CopiedStrip(j) = <<Last(j.stripList)>>
    BY <1>2 DEF CopiedStrip
  <2> QED
    BY <2>2, <2>3, <2>4 DEF Strips
<1> QED
  BY <1>1, <1>2

LEMMA CreateFieldFromStep ==
    ASSUME IInv, NEW existing \in Fields, NEW f \in Fields, NEW flags,
           CreateFieldFrom(existing, f, flags)
    PROVE  IInv'
<1> DEFINE fs == LeftOver(f) \cup {f, None} \cup origins[existing]
           K == Known(madeIn, fs)
           L == Known(madeIn, origins[existing])
<1>1. PICK c \in Closings :
          LET isOpen == c.disk[existing].Field # None
          IN  /\ job' \in IF isOpen
                          THEN FileOpenField(c.disk[existing], JobClose(c.job), flags)
                          ELSE {c.job}
              /\ isStuck' = (isOpen /\ LeavesLock(c.disk[existing], flags))
              /\ disk' = [c.disk EXCEPT
                            ![existing] = IF isOpen THEN AfterLoading(@, job', flags) ELSE @,
                            ![f] = IF isStuck' THEN @ ELSE CopiedFiles(@, job', isOpen)]
              /\ kept' = [c.kept EXCEPT ![f] = None, ![existing] = IF isOpen THEN None ELSE @]
              /\ isJobStarted' = isOpen
  BY DEF CreateFieldFrom
<1> DEFINE isOpen == c.disk[existing].Field # None
           loaded == IF isOpen THEN AfterLoading(c.disk[existing], job', flags)
                     ELSE c.disk[existing]
           d == [c.disk EXCEPT ![existing] = loaded]
           k == [c.kept EXCEPT ![existing] = IF isOpen THEN None ELSE c.kept[existing]]
           files == IF isStuck' THEN d[f] ELSE CopiedFiles(d[f], job', isOpen)
<1>2. /\ existing # f /\ disk[f].Field = None
      /\ currentFieldDirectory' = f /\ origins' = [origins EXCEPT ![f] = fs]
      /\ UNCHANGED madeIn
  BY DEF CreateFieldFrom
<1>3. ClosedFacts(c)
  BY ClosingsFacts
<1>4. madeIn \in Seq(Fields \cup {None}) /\ origins = [g \in Fields |-> origins[g]]
      /\ {existing, None} \subseteq origins[existing]
  BY DEF IInv, Named
<1>5. origins'[f] = fs /\ \A g \in Fields : g # f => origins'[g] = origins[g]
  BY <1>2, <1>4
<1>6. /\ c.disk = [g \in Fields |-> c.disk[g]] /\ OnceOn(c.disk) /\ AloneOn(c.disk)
      /\ FilesAreOwn(c.disk, madeIn, origins) /\ KeptOn(c.disk, c.kept)
  BY <1>3 DEF ClosedFacts, DiskOK, FilesAreOwn
<1>7. c.disk[existing] \in Files(L) /\ c.disk[f].Field = None
  BY <1>2, <1>3, <1>6 DEF FilesAreOwn, ClosedFacts
<1>8. c.disk[f] \in Files(K)
  BY <1>3, LeftOverFacts
<1>9. /\ K \subseteq Nat /\ Header \in K /\ L \subseteq K /\ Header \in L
      /\ Known(madeIn, {None}) \subseteq L
  <2>1. K \subseteq Nat /\ Header \in K /\ Header \in L
    BY <1>4, KnownFacts
  <2>2. origins[existing] \subseteq fs /\ {None} \subseteq origins[existing]
    BY <1>4
  <2>3. L \subseteq K
    BY <1>4, <2>2, KnownFacts
  <2>4. Known(madeIn, {None}) \subseteq L
    BY <1>4, <2>2, KnownFacts
  <2> QED
    BY <2>1, <2>3, <2>4
<1>10. /\ c.job \in Jobs(Known(madeIn, {None})) /\ IsEmptied(c.job)
       /\ IsSound(c.job, currentFieldDirectory)
  BY <1>3 DEF ClosedFacts
<1>11. /\ job' \in Jobs(IF isOpen THEN L ELSE Known(madeIn, {None}))
       /\ job' \in Jobs(L) /\ job'.idx \in 0 .. Len(job'.gArr)
       /\ job'.contourSaveList = <<>> /\ job'.isContourOn = FALSE
       /\ isOpen => job'.stripList = LoadedContour(c.disk[existing])
       /\ ~isOpen => IsEmptied(job')
  <2>1. CASE isOpen
    <3>1. JobClose(c.job) \in Jobs(L) /\ JobClose(c.job).contourSaveList = <<>>
          /\ JobClose(c.job).isContourOn = FALSE
      BY <1>10, JobCloseFacts DEF IsEmptied
    <3>2. job' \in FileOpenField(c.disk[existing], JobClose(c.job), flags)
      BY <1>1, <2>1
    <3>3. /\ job' \in Jobs(L) /\ job'.idx \in 0 .. Len(job'.gArr)
          /\ job'.contourSaveList = <<>> /\ job'.isContourOn = FALSE
          /\ job'.stripList = LoadedContour(c.disk[existing])
      BY <1>7, <3>1, <3>2, OpenFieldFacts
    <3> QED
      BY <2>1, <3>3
  <2>2. CASE ~isOpen
    <3>1. job' = c.job
      BY <1>1, <2>2
    <3>2. c.job \in Jobs(L)
      BY <1>9, <1>10, FilesMono
    <3>3. c.job.isContourOn = FALSE
      BY <1>10 DEF IsEmptied, Jobs
    <3> QED
      BY <1>10, <2>2, <3>1, <3>2, <3>3 DEF IsEmptied, IsSound
  <2> QED
    BY <2>1, <2>2
<1>12. loaded \in Files(L) /\ SameStrips(loaded, c.disk[existing])
  BY <1>7, <1>11, AfterLoadingFacts DEF SameStrips
<1>13. disk' = [d EXCEPT ![f] = files] /\ d[f] = c.disk[f] /\ d[existing] = loaded
       /\ d = [g \in Fields |-> d[g]]
  <2>1. isStuck' \in BOOLEAN
    BY <1>1 DEF LeavesLock
  <2> QED
    BY <1>1, <1>2, <1>6, <2>1
<1>14. FilesAreOwn(d, madeIn, origins)
  <2> HIDE DEF loaded
  <2> QED
    BY <1>6, <1>12, OneFileOwn
<1>15. /\ OnceOn(d) /\ AloneOn(d)
       /\ \A g \in Fields : Strips(d[g]) = Strips(c.disk[g])
  <2> HIDE DEF loaded
  <2> QED
    BY <1>6, <1>12, SameStripsKeep
<1>16. /\ files \in Files(K)
       /\ OnceOn([d EXCEPT ![f] = files]) /\ AloneOn([d EXCEPT ![f] = files])
  <2>1. CASE isStuck'
    <3>1. files = d[f] /\ [d EXCEPT ![f] = files] = d
      BY <1>13, <2>1
    <3> QED
      BY <1>8, <1>13, <1>15, <3>1
  <2>2. CASE ~isStuck'
    <3> DEFINE new == CopiedFiles(d[f], job', isOpen)
    <3>1. job' \in Jobs(K) /\ d[f] \in Files(K) /\ isOpen \in BOOLEAN
      BY <1>8, <1>9, <1>11, <1>13, FilesMono
    <3>2. files = new
      BY <2>2
    <3> HIDE DEF d, isOpen
    <3>3. /\ new \in Files(K) /\ new.Field = IF isOpen THEN "Field" ELSE d[f].Field
          /\ Lines(new) = Lines(d[f]) \/ Lines(new) = Lines(d[f]) \o CopiedStrip(job')
      <4> HIDE DEF K, L
      <4> QED
        BY <1>9, <3>1, CopiedFilesFacts
    <3> HIDE DEF new, files
    <3>4. Lines(d[f]) \in Seq(Nat)
      BY <1>9, <3>1, LinesType, SeqMono
    <3>5. CASE isOpen
      <4>1. PICK x \in L \cup {Header} :
                CopiedStrip(job') = <<x>> /\ (x = Header \/ x \in Strips(c.disk[existing]))
        BY <1>7, <1>11, <3>5, CopiedStripFacts
      <4>2. x \in Nat /\ (x = Header \/ x \in Strips(d[existing]))
        BY <1>9, <1>15, <4>1
      <4>3. d[existing].Field # None /\ d[f].Field = None
        BY <1>7, <1>12, <1>13, <3>5 DEF SameStrips, isOpen
      <4>4. new.Field # None
        BY <3>3, <3>5, NoneAssumption
      <4>5. OnceOn([d EXCEPT ![f] = new]) /\ AloneOn([d EXCEPT ![f] = new])
        BY <1>2, <1>13, <1>15, <3>3, <3>4, <4>1, <4>2, <4>3, <4>4, CopiedKeep
      <4> QED
        BY <3>2, <3>3, <4>5
    <3>6. CASE ~isOpen
      <4>1. CopiedStrip(job') = <<Header>>
        BY <1>11, <3>6 DEF IsEmptied, CopiedStrip
      <4>2. <<Header>> \in Seq(Nat) /\ Once(<<Header>>) /\ ToSet(<<Header>>) = {Header}
        BY <1>9 DEF Once, ToSet
      <4>3. IsNewOn(d, <<Header>>)
        BY <4>2 DEF Strips, IsNewOn
      <4>4. Extends(new, d[f], <<Header>>)
        BY <3>3, <3>4, <3>6, <4>1 DEF Extends
      <4>5. OnceOn(Rewritten(d, f, new)) /\ AloneOn(Rewritten(d, f, new))
        BY <1>2, <1>13, <1>15, <4>3, <4>4, AppendedKeep
      <4> QED
        BY <3>2, <3>3, <4>5 DEF Rewritten
    <3> QED
      BY <3>5, <3>6
  <2> QED
    BY <2>1, <2>2
<1>17. kept' = [k EXCEPT ![f] = None] /\ KeptOn(d, k)
  <2>1. c.kept = [g \in Fields |-> c.kept[g]]
    BY <1>6 DEF KeptOn
  <2>2. kept' = [k EXCEPT ![f] = None]
    BY <1>1, <1>2, <2>1
  <2>3. CASE isOpen
    <3>1. k = [c.kept EXCEPT ![existing] = None]
      BY <2>3
    <3>2. KeptOn(d, [c.kept EXCEPT ![existing] = None])
      BY <1>6, OneFileKept
    <3> QED
      BY <2>2, <3>1, <3>2
  <2>4. CASE ~isOpen
    <3>1. d = c.disk /\ k = c.kept
      BY <1>6, <2>1, <2>4
    <3> QED
      BY <1>6, <2>2, <3>1
  <2> QED
    BY <2>3, <2>4
<1>18. isJobStarted' = isOpen /\ isStuck' \in BOOLEAN /\ isOpen \in BOOLEAN
  BY <1>1 DEF LeavesLock
<1>19. JobIsOwn' /\ ClosedIsEmpty'
  <2>1. job' \in Jobs(Known(madeIn, IF isOpen THEN fs ELSE {None}))
    <3>1. Jobs(L) \subseteq Jobs(K)
      BY <1>9, FilesMono
    <3> QED
      BY <1>11, <3>1
  <2>2. Origins' = IF isOpen THEN fs ELSE {None}
    BY <1>2, <1>5, <1>18 DEF Origins
  <2> QED
    BY <1>2, <1>11, <1>18, <2>1, <2>2 DEF JobIsOwn, ClosedIsEmpty
<1> HIDE DEF d, k, files, isOpen, fs
<1>20. Named'
  BY <1>2, <1>4, <1>5, <1>18, NoneAssumption DEF IInv, Named, fs
<1>21. IsSound(job, currentFieldDirectory)'
  BY <1>2, <1>11, NoneAssumption DEF IsSound
<1>22. FilesAreOwn(disk, madeIn, origins)'
  <2>1. \A g \in Fields \ {f} : Known(madeIn, origins[g]) \subseteq Known(madeIn', origins'[g])
    BY <1>2, <1>5
  <2>2. files \in Files(Known(madeIn', origins'[f]))
    BY <1>2, <1>5, <1>16
  <2> QED
    BY <1>13, <1>14, <2>1, <2>2, OneFileOwn
<1>23. OnceOn(disk)' /\ AloneOn(disk)'
  BY <1>13, <1>16
<1>24. KeptOn(disk, kept)'
  <2>1. KeptOn([d EXCEPT ![f] = files], [k EXCEPT ![f] = None])
    BY <1>13, <1>17, OneFileKept
  <2> QED
    BY <1>13, <1>17, <2>1
<1>25. OpenIsNotKept'
  BY <1>2, <1>17 DEF OpenIsNotKept, KeptOn
<1>26. ListIsNew(disk, job)'
  BY <1>11, NothingNew
<1> QED
  BY <1>19, <1>20, <1>21, <1>22, <1>23, <1>24, <1>25, <1>26 DEF IInv, DiskOK

LEMMA CreateFieldFromKMLStep ==
    ASSUME IInv, NEW f \in Fields, CreateFieldFromKML(f)
    PROVE  IInv'
<1>1. CASE isJobStarted
  <2>1. /\ isStuck' = TRUE
        /\ UNCHANGED <<currentFieldDirectory, isJobStarted, origins, job, disk, madeIn, kept>>
    BY <1>1 DEF CreateFieldFromKML
  <2>2. Named'
    BY <2>1 DEF IInv, Named
  <2>3. JobIsOwn' /\ ClosedIsEmpty' /\ OpenIsNotKept'
    BY <2>1 DEF IInv, JobIsOwn, Origins, ClosedIsEmpty, OpenIsNotKept
  <2> QED
    BY <2>1, <2>2, <2>3 DEF IInv
<1>2. CASE ~isJobStarted
  <2> DEFINE K == Known(madeIn', origins[f])
             new == NewFiles(disk[f], job)
             ab == FileSaveABLines(new, job)
             curves == FileSaveCurveLines(ab, job)
             files == FileSaveHeadland(curves, job)
  <2>1. /\ currentFieldDirectory' = f /\ isJobStarted' = TRUE
        /\ disk' = [disk EXCEPT ![f] = FileSaveHeadland(FileSaveCurveLines(
                        FileSaveABLines(NewFiles(@, job), job), job), job)]
        /\ job' = [job EXCEPT !.bndList = Append(@, CBoundaryList(NewId))]
        /\ madeIn' = Append(madeIn, f) /\ NewId <= MaxEdits
        /\ kept' = [kept EXCEPT ![f] = None]
        /\ origins' = [origins EXCEPT ![f] = @ \cup {f, None}]
        /\ isStuck' = isStuck
    BY <1>2 DEF CreateFieldFromKML
  <2>2. /\ madeIn \in Seq(Fields \cup {None}) /\ origins = [g \in Fields |-> origins[g]]
        /\ \A g \in Fields : {g, None} \subseteq origins[g]
    BY DEF IInv, Named
  <2>3. origins' = origins
    BY <2>1, <2>2
  <2>4. /\ K \subseteq Nat /\ Header \in K /\ Known(madeIn, {None}) \subseteq K
        /\ \A g \in Fields : Known(madeIn, origins[g]) \subseteq Known(madeIn', origins[g])
    <3>1. madeIn' \in Seq(Fields \cup {None})
      BY <2>1, <2>2
    <3>2. Known(madeIn, {None}) \subseteq Known(madeIn, origins[f])
      BY <2>2, KnownFacts
    <3> QED
      BY <2>1, <2>2, <3>1, <3>2, KnownFacts
  <2>5. /\ disk = [g \in Fields |-> disk[g]] /\ OnceOn(disk) /\ AloneOn(disk)
        /\ disk[f] \in Files(Known(madeIn, origins[f])) /\ FilesAreOwn(disk, madeIn, origins)
    BY DEF IInv, DiskOK, FilesAreOwn
  <2>6. disk[f] \in Files(K)
    BY <2>4, <2>5, FilesMono
  <2>7. job \in Jobs(Known(madeIn, {None})) /\ IsEmptied(job)
    BY <1>2 DEF IInv, JobIsOwn, Origins, ClosedIsEmpty
  <2>8. job \in Jobs(K)
    BY <2>4, <2>7, FilesMono
  <2>9. files \in Files(K) /\ Lines(files) = <<Header>>
    <3>1. new \in Files(K) /\ Lines(new) = <<Header>>
      BY <2>4, <2>6, <2>8, NewFilesFacts
    <3> HIDE DEF new
    <3>2. ab \in Files(K) /\ SameStrips(ab, new)
      BY <2>8, <3>1, SaveABFacts
    <3> HIDE DEF ab
    <3>3. curves \in Files(K) /\ SameStrips(curves, ab)
      BY <2>8, <3>2, SaveCurveFacts
    <3> HIDE DEF curves
    <3>4. files \in Files(K) /\ SameStrips(files, curves)
      BY <2>8, <3>3, SaveHeadlandFacts
    <3> QED
      BY <3>1, <3>2, <3>3, <3>4 DEF SameStrips, Lines
  <2>10. disk' = [disk EXCEPT ![f] = files]
    BY <2>1
  <2> HIDE DEF files
  <2>11. /\ job' \in Jobs(K) /\ job'.idx = job.idx /\ job'.gArr = job.gArr
         /\ job'.contourSaveList = <<>> /\ ~job'.isContourOn
    <3>1. NewId \in Nat
      BY <2>2 DEF NewId
    <3>2. CBoundaryList(NewId) \in Fences
      BY <3>1 DEF CBoundaryList, Fences
    <3>3. Append(job.bndList, CBoundaryList(NewId)) \in Seq(Fences)
      BY <2>8, <3>2 DEF Jobs
    <3>4. job' \in Jobs(K)
      BY <2>1, <2>8, <3>3, JobsExcept
    <3> QED
      BY <2>1, <2>7, <2>8, <3>4 DEF Jobs, IsEmptied
  <2>12. JobIsOwn' /\ ClosedIsEmpty'
    BY <2>1, <2>3, <2>11 DEF JobIsOwn, Origins, ClosedIsEmpty
  <2>13. Named'
    <3>1. madeIn' \in Seq(Fields \cup {None}) /\ Len(madeIn') = NewId
      BY <2>1, <2>2 DEF NewId
    <3> QED
      BY <2>1, <2>2, <2>3, <3>1, NoneAssumption DEF IInv, Named
  <2>14. IsSound(job, currentFieldDirectory)'
    BY <2>1, <2>11, NoneAssumption DEF IsSound, IInv
  <2>15. FilesAreOwn(disk, madeIn, origins)'
    BY <2>3, <2>4, <2>5, <2>9, <2>10, OneFileOwn
  <2>16. OnceOn(disk)' /\ AloneOn(disk)'
    BY <2>5, <2>9, <2>10, NoStripsKeep
  <2>17. KeptOn(disk, kept)'
    <3>1. KeptOn(disk, kept)
      BY DEF IInv
    <3>2. KeptOn([disk EXCEPT ![f] = files], [kept EXCEPT ![f] = None])
      BY <2>5, <3>1, OneFileKept
    <3> QED
      BY <2>1, <2>10, <3>2
  <2>18. OpenIsNotKept'
    BY <2>1 DEF OpenIsNotKept, KeptOn, IInv
  <2>19. ListIsNew(disk, job)'
    BY <2>11, NothingNew
  <2> QED
    BY <2>12, <2>13, <2>14, <2>15, <2>16, <2>17, <2>18, <2>19 DEF IInv, DiskOK
<1> QED
  BY <1>1, <1>2

LEMMA DeleteFieldStep ==
    ASSUME IInv, NEW f \in Fields, DeleteField(f)
    PROVE  IInv'
<1>1. /\ disk' = [disk EXCEPT ![f] = NoFiles] /\ kept' = [kept EXCEPT ![f] = None]
      /\ UNCHANGED <<fieldVars, job, madeIn>>
  BY DEF DeleteField
<1>2. /\ disk = [g \in Fields |-> disk[g]] /\ OnceOn(disk) /\ AloneOn(disk)
      /\ FilesAreOwn(disk, madeIn, origins) /\ KeptOn(disk, kept)
  BY DEF IInv, DiskOK, FilesAreOwn
<1>3. Lines(NoFiles) = <<>>
  BY DEF Lines, NoFiles
<1>4. FilesAreOwn(disk, madeIn, origins)'
  BY <1>1, <1>2, NothingIsOwn, OneFileOwn DEF fieldVars
<1>5. /\ OnceOn(disk)' /\ AloneOn(disk)'
      /\ \A g \in Fields : Strips(disk'[g]) \subseteq Strips(disk[g])
  <2>1. Lines(NoFiles) \in {<<>>, <<Header>>}
    BY <1>3
  <2>2. /\ OnceOn([disk EXCEPT ![f] = NoFiles]) /\ AloneOn([disk EXCEPT ![f] = NoFiles])
        /\ \A g \in Fields : Strips([disk EXCEPT ![f] = NoFiles][g]) \subseteq Strips(disk[g])
    BY <1>2, <2>1, NoStripsKeep
  <2> QED
    BY <1>1, <2>2
<1>6. ListIsNew(disk, job)'
  BY <1>1, <1>5, StaysNew DEF IInv
<1>7. KeptOn(disk, kept)'
  BY <1>1, <1>2, OneFileKept
<1>8. OpenIsNotKept'
  BY <1>1, <1>2 DEF OpenIsNotKept, KeptOn, IInv, fieldVars
<1>9. JobIsOwn' /\ Named' /\ IsSound(job, currentFieldDirectory)' /\ ClosedIsEmpty'
  BY <1>1 DEF IInv, fieldVars, JobIsOwn, Origins, Named, IsSound, ClosedIsEmpty
<1> QED
  BY <1>4, <1>5, <1>6, <1>7, <1>8, <1>9 DEF IInv, DiskOK

(* The files of the open field when the program ends while they are written. *)
Cut(files, j, step) ==
    LET written == Written(files, j)[step]
    IN  IF step = 3 THEN [written EXCEPT !.TrackLines.isCut = TRUE] ELSE written

LEMMA CutFacts ==
    ASSUME NEW K, K \subseteq Nat, NEW files \in Files(K), NEW j \in Jobs(K), NEW step \in 1 .. 3
    PROVE  /\ Cut(files, j, step) \in Files(K) /\ Cut(files, j, step).Field = files.Field
           /\ \/ Lines(Cut(files, j, step)) = Lines(files)
              \/ Lines(Cut(files, j, step)) = Lines(files) \o j.contourSaveList
<1> DEFINE written == Written(files, j)[step]
           cut == Cut(files, j, step)
<1>1. step \in 1 .. 4
  OBVIOUS
<1>2. /\ written \in Files(K) /\ written.Field = files.Field
      /\ Lines(written) = Lines(files) \/ Lines(written) = Lines(files) \o j.contourSaveList
  BY <1>1, WrittenFacts
<1>3. step = 3 => written.TrackLines \in TrackFiles(K)
  BY WrittenFacts
<1>4. cut = IF step = 3 THEN [written EXCEPT !.TrackLines.isCut = TRUE] ELSE written
  BY DEF Cut
<1> SUFFICES /\ cut \in Files(K) /\ cut.Field = files.Field
             /\ Lines(cut) = Lines(files) \/ Lines(cut) = Lines(files) \o j.contourSaveList
  OBVIOUS
<1> HIDE DEF written, cut
<1>5. CASE step = 3
  <2> DEFINE t == [written.TrackLines EXCEPT !.isCut = TRUE]
  <2>1. t \in TrackFiles(K)
    BY <1>3, <1>5 DEF TrackFiles
  <2>2. cut = [written EXCEPT !.TrackLines = t]
    BY <1>4, <1>5
  <2> HIDE DEF t
  <2>3. t \in OrNone(TrackFiles(K))
    BY <2>1 DEF OrNone
  <2>4. cut \in Files(K)
    <3>1. written \in Files(K)
      BY <1>2
    <3>2. [written EXCEPT !.TrackLines = t] \in Files(K)
      BY <2>3, <3>1, FilesExcept
    <3> QED
      BY <2>2, <3>2
  <2>5. cut.Field = written.Field /\ cut.Contour = written.Contour
    BY <1>2, <2>2 DEF Files
  <2> QED
    BY <1>2, <2>4, <2>5 DEF Lines
<1>6. CASE step # 3
  BY <1>2, <1>4, <1>6
<1> QED
  BY <1>5, <1>6

LEMMA CrashStep ==
    ASSUME IInv, Crash
    PROVE  IInv'
<1>1. /\ isJobStarted' = FALSE /\ job' = NoJob /\ isStuck' = FALSE
      /\ UNCHANGED <<currentFieldDirectory, origins, madeIn, kept>>
  BY DEF Crash
<1>2. /\ job'.gArr = <<>> /\ job'.idx = 0 /\ job'.stripList = <<>>
      /\ job'.contourSaveList = <<>> /\ job'.isContourOn = FALSE /\ job'.bndBeingMade = 0
  BY <1>1 DEF NoJob, Cleared
<1>3. JobIsOwn' /\ ClosedIsEmpty' /\ OpenIsNotKept'
  BY <1>1, <1>2, NothingIsOwn DEF JobIsOwn, ClosedIsEmpty, IsEmptied, OpenIsNotKept
<1>4. Named'
  BY <1>1 DEF IInv, Named
<1>5. IsSound(job, currentFieldDirectory)'
  BY <1>2 DEF IsSound
<1>6. ListIsNew(disk, job)'
  BY <1>2, NothingNew
<1>7. DiskOK(disk, madeIn, origins)' /\ KeptOn(disk, kept)'
  <2>1. CASE UNCHANGED disk
    BY <1>1, <2>1 DEF IInv
  <2>2. CASE /\ isJobStarted
             /\ \E j \in StoppedContour(job), step \in 1 .. 3 :
                   LET files == Written(disk[currentFieldDirectory], j)[step]
                   IN  disk' = [disk EXCEPT ![currentFieldDirectory] =
                           IF step = 3 THEN [files EXCEPT !.TrackLines.isCut = TRUE] ELSE files]
    <3> DEFINE f == currentFieldDirectory
    <3>1. PICK j \in StoppedContour(job), step \in 1 .. 3 :
            LET files == Written(disk[f], j)[step]
            IN  disk' = [disk EXCEPT ![f] =
                    IF step = 3 THEN [files EXCEPT !.TrackLines.isCut = TRUE] ELSE files]
      BY <2>2
    <3> DEFINE cut == Cut(disk[f], j, step)
    <3>2. disk' = [disk EXCEPT ![f] = cut]
      BY <3>1 DEF Cut
    <3>3. /\ f \in Fields /\ disk[f] \in Files(Mine) /\ job \in Jobs(Mine) /\ Mine \subseteq Nat
          /\ disk = [g \in Fields |-> disk[g]]
      BY <2>2, OpenFacts
    <3>4. j \in Jobs(Mine) /\ ListIsNew(disk, j)
      BY <3>3, StoppedFacts DEF IInv
    <3>5. /\ cut \in Files(Mine) /\ cut.Field = disk[f].Field
          /\ Lines(cut) = Lines(disk[f]) \/ Lines(cut) = Lines(disk[f]) \o j.contourSaveList
      BY <3>3, <3>4, CutFacts
    <3> HIDE DEF cut
    <3>6. OnceOn(disk) /\ AloneOn(disk) /\ FilesAreOwn(disk, madeIn, origins) /\ KeptOn(disk, kept)
      BY DEF IInv, DiskOK
    <3>7. OnceOn(disk)' /\ AloneOn(disk)'
      BY <3>2, <3>3, <3>4, <3>5, <3>6, WrittenKeeps
    <3>8. FilesAreOwn(disk, madeIn, origins)'
      BY <1>1, <3>2, <3>3, <3>5, <3>6, OneFileOwn DEF Mine
    <3>9. kept[f] = None
      BY <2>2 DEF IInv, OpenIsNotKept
    <3>10. KeptOn(disk, kept)'
      BY <1>1, <3>2, <3>3, <3>6, <3>9, OneFileKept
    <3> QED
      BY <3>7, <3>8, <3>10 DEF DiskOK
  <2> QED
    BY <2>1, <2>2 DEF Crash
<1> QED
  BY <1>3, <1>4, <1>5, <1>6, <1>7 DEF IInv

----------------------------------------------------------------------------
(* The steps of working in a field *)

(* No edit is made, or one where the work is done. *)
Grows ==
    \/ madeIn' = madeIn
    \/ /\ madeIn' = Append(madeIn, IF isJobStarted THEN currentFieldDirectory ELSE None)
       /\ NewId <= MaxEdits

(* The edits that may be in memory after the step, and in the files of the  *)
(* field it saves to.                                                       *)
Here == Known(madeIn', Origins)

There == Known(madeIn', origins[currentFieldDirectory])

LEMMA WorkFacts ==
    ASSUME IInv, UNCHANGED fieldVars, Grows
    PROVE  /\ Named' /\ Origins' = Origins
           /\ Here \subseteq Nat /\ Header \in Here /\ job \in Jobs(Here)
           /\ madeIn' # madeIn => NewId \in Here
           /\ FilesAreOwn(disk, madeIn', origins)
           /\ currentFieldDirectory \in Fields => /\ Here \subseteq There /\ There \subseteq Nat
                                                 /\ Header \in There
                                                 /\ disk[currentFieldDirectory] \in Files(There)
<1> DEFINE x == IF isJobStarted THEN currentFieldDirectory ELSE None
<1>1. /\ madeIn \in Seq(Fields \cup {None}) /\ \A g \in Fields : {g, None} \subseteq origins[g]
      /\ x \in Fields \cup {None}
      /\ isJobStarted => currentFieldDirectory \in Fields
  BY DEF IInv, Named
<1>2. x \in Origins /\ \A g \in Fields : g = currentFieldDirectory => Origins \subseteq origins[g]
  BY <1>1 DEF Origins
<1>3. madeIn' \in Seq(Fields \cup {None}) /\ Len(madeIn') <= MaxEdits
  BY <1>1 DEF Grows, NewId, IInv, Named
<1>4. Named' /\ Origins' = Origins
  BY <1>3 DEF fieldVars, IInv, Named, Origins
<1>5. \A fs : Known(madeIn, fs) \subseteq Known(madeIn', fs)
  BY <1>1, KnownFacts DEF Grows
<1>6. Here \subseteq Nat /\ Header \in Here
  BY <1>3, KnownFacts DEF Here
<1>7. job \in Jobs(Here)
  BY <1>5, FilesMono DEF IInv, JobIsOwn, Here
<1>8. madeIn' # madeIn => NewId \in Here
  BY <1>1, <1>2, KnownFacts DEF Grows, NewId, Here
<1>9. FilesAreOwn(disk, madeIn', origins)
  <2>1. ASSUME NEW g \in Fields PROVE disk[g] \in Files(Known(madeIn', origins[g]))
    <3>1. disk[g] \in Files(Known(madeIn, origins[g]))
      BY DEF IInv, DiskOK, FilesAreOwn
    <3> QED
      BY <1>5, <3>1, FilesMono
  <2> QED
    BY <2>1 DEF IInv, DiskOK, FilesAreOwn
<1>10. ASSUME currentFieldDirectory \in Fields
       PROVE  /\ Here \subseteq There /\ There \subseteq Nat /\ Header \in There
              /\ disk[currentFieldDirectory] \in Files(There)
  BY <1>2, <1>3, <1>9, <1>10, KnownFacts DEF Here, There, FilesAreOwn
<1> QED
  BY <1>4, <1>6, <1>7, <1>8, <1>9, <1>10

(* Nothing is saved, or files that differ in anything but the strips. *)
Saves ==
    \/ disk' = disk
    \/ /\ currentFieldDirectory \in Fields
       /\ \E files \in Files(There) :
             /\ SameStrips(files, disk[currentFieldDirectory])
             /\ disk' = [disk EXCEPT ![currentFieldDirectory] = files]
       /\ \/ isJobStarted /\ kept' = kept
          \/ kept' = [kept EXCEPT ![currentFieldDirectory] = None]

LEMMA WorkStep ==
    ASSUME IInv, UNCHANGED fieldVars, Grows, Saves,
           kept' = kept \/ kept' = [kept EXCEPT ![currentFieldDirectory] = None],
           job' \in Jobs(Here), isJobStarted \/ IsEmptied(job'),
           IsSound(job', currentFieldDirectory), ListIsNew(disk, job')
    PROVE  IInv'
<1> DEFINE f == currentFieldDirectory
<1>1. JobIsOwn' /\ Named' /\ FilesAreOwn(disk, madeIn', origins)
  BY WorkFacts DEF JobIsOwn, Here
<1>2. IsSound(job, currentFieldDirectory)' /\ ClosedIsEmpty'
  BY DEF fieldVars, ClosedIsEmpty
<1>3. /\ disk = [g \in Fields |-> disk[g]] /\ OnceOn(disk) /\ AloneOn(disk) /\ KeptOn(disk, kept)
  BY DEF IInv, DiskOK, FilesAreOwn
<1>4. kept = [g \in Fields |-> kept[g]] /\ (isJobStarted => f \in Fields /\ kept[f] = None)
  BY DEF IInv, KeptOn, OpenIsNotKept, Named
<1>5. OpenIsNotKept'
  BY <1>4 DEF OpenIsNotKept, fieldVars
<1>6. CASE disk' = disk
  <2>1. KeptOn(disk, kept)'
    <3>1. CASE kept' = kept
      BY <1>3, <1>6, <3>1
    <3>2. CASE kept' = [kept EXCEPT ![f] = None]
      <4>1. kept' = [g \in Fields |-> kept'[g]]
            /\ \A g \in Fields : kept'[g] = None \/ kept'[g] = kept[g]
        BY <1>4, <3>2
      <4> QED
        BY <1>3, <1>6, <4>1 DEF KeptOn
    <3> QED
      BY <3>1, <3>2
  <2>2. DiskOK(disk, madeIn, origins)' /\ ListIsNew(disk, job)'
    BY <1>1, <1>3, <1>6 DEF DiskOK, fieldVars
  <2> QED
    BY <1>1, <1>2, <1>5, <2>1, <2>2 DEF IInv
<1>7. CASE disk' # disk
  <2>1. f \in Fields /\ ((isJobStarted /\ kept' = kept) \/ kept' = [kept EXCEPT ![f] = None])
    BY <1>7 DEF Saves
  <2>2. PICK files \in Files(There) :
            SameStrips(files, disk[f]) /\ disk' = [disk EXCEPT ![f] = files]
    BY <1>7 DEF Saves
  <2>3. /\ OnceOn(disk)' /\ AloneOn(disk)'
        /\ \A g \in Fields : Strips(disk'[g]) \subseteq Strips(disk[g])
    BY <1>3, <2>1, <2>2, SameStripsKeep
  <2>4. FilesAreOwn(disk, madeIn, origins)'
    <3>1. FilesAreOwn([disk EXCEPT ![f] = files], madeIn', origins)
      BY <1>1, <2>1, <2>2, OneFileOwn DEF There
    <3> QED
      BY <2>2, <3>1 DEF fieldVars
  <2>5. KeptOn(disk, kept)'
    <3>1. /\ KeptOn([disk EXCEPT ![f] = files], [kept EXCEPT ![f] = None])
          /\ kept[f] = None => KeptOn([disk EXCEPT ![f] = files], kept)
      BY <1>3, <2>1, OneFileKept
    <3> QED
      BY <1>4, <2>1, <2>2, <3>1
  <2>6. ListIsNew(disk, job)'
    BY <2>3, StaysNew
  <2> QED
    BY <1>1, <1>2, <1>5, <2>3, <2>4, <2>5, <2>6 DEF IInv, DiskOK
<1> QED
  BY <1>6, <1>7

(* Memory that differs in anything but the strips. *)
LEMMA SameList ==
    ASSUME NEW d, NEW j, NEW r, ListIsNew(d, j), r.contourSaveList = j.contourSaveList,
           r.isContourOn = j.isContourOn, r.stripList = j.stripList
    PROVE  ListIsNew(d, r)
BY DEF ListIsNew

LEMMA TracksSaved ==
    ASSUME IInv, UNCHANGED fieldVars, Grows, isJobStarted, job' \in Jobs(Here),
           SaveTo(FileSaveTracks(Current, job')), kept' = kept
    PROVE  Saves
<1>1. currentFieldDirectory \in Fields
  BY DEF IInv, Named
<1>2. disk[currentFieldDirectory] \in Files(There) /\ job' \in Jobs(There)
  BY <1>1, WorkFacts, FilesMono
<1> QED
  BY <1>1, <1>2, SaveTracksFacts DEF SaveTo, Current, Saves

LEMMA FinishTrackStep ==
    ASSUME IInv, NEW mode \in {"AB", "Curve"}, FinishTrack(mode)
    PROVE  IInv'
<1> DEFINE tracks == Append(job.gArr, CTrk(NewId, mode))
<1>1. /\ job' = [job EXCEPT !.gArr = tracks, !.idx = Len(job.gArr) + 1]
      /\ madeIn' = Append(madeIn, currentFieldDirectory) /\ NewId <= MaxEdits
      /\ isJobStarted /\ SaveTo(FileSaveTracks(Current, job'))
      /\ UNCHANGED <<fieldVars, kept, visits>>
  BY DEF FinishTrack, Edit, MayEdit
<1>2. Grows /\ UNCHANGED fieldVars
  BY <1>1 DEF Grows
<1>3. madeIn' # madeIn
  BY <1>1 DEF IInv, Named
<1>4. job \in Jobs(Here) /\ NewId \in Here
  BY <1>2, <1>3, WorkFacts
<1>5. CTrk(NewId, mode) \in Tracks(Here)
  BY <1>4 DEF CTrk, Tracks
<1>6. tracks \in Seq(Tracks(Here)) /\ Len(tracks) = Len(job.gArr) + 1 /\ Len(tracks) \in Nat
  BY <1>4, <1>5 DEF Jobs
<1> HIDE DEF tracks
<1>j. [job EXCEPT !.gArr = tracks] \in Jobs(Here)
  BY <1>4, <1>6, JobsExcept
<1>k. job' = [[job EXCEPT !.gArr = tracks] EXCEPT !.idx = Len(job.gArr) + 1]
  BY <1>1
<1>l. job' \in Jobs(Here)
  BY <1>6, <1>j, <1>k, JobsExcept
<1>7. /\ job' \in Jobs(Here) /\ job'.idx \in 0 .. Len(job'.gArr)
      /\ job'.bndBeingMade = job.bndBeingMade
      /\ job'.contourSaveList = job.contourSaveList
      /\ job'.isContourOn = job.isContourOn /\ job'.stripList = job.stripList
  BY <1>1, <1>4, <1>6, <1>l DEF Jobs
<1>8. ListIsNew(disk, job') /\ IsSound(job', currentFieldDirectory)
  BY <1>7, SameList DEF IInv, IsSound
<1>9. Saves
  BY <1>1, <1>2, <1>7, TracksSaved
<1> QED
  BY <1>1, <1>2, <1>7, <1>8, <1>9, WorkStep

LEMMA SelectTrackStep ==
    ASSUME IInv, NEW index, SelectTrack(index)
    PROVE  IInv'
<1>1. /\ isJobStarted /\ index \in 0 .. Len(job.gArr)
      /\ job' = [job EXCEPT !.idx = index] /\ SaveTo(FileSaveTracks(Current, job'))
      /\ UNCHANGED <<fieldVars, madeIn, kept, visits>>
  BY DEF SelectTrack
<1>2. Grows /\ UNCHANGED fieldVars
  BY <1>1 DEF Grows
<1>3. job \in Jobs(Here)
  BY <1>2, WorkFacts
<1>s. index \in Nat
  <2>1. Len(job.gArr) \in Nat
    BY <1>3 DEF Jobs
  <2> QED
    BY <1>1, <2>1
<1>j. job' \in Jobs(Here)
  BY <1>1, <1>3, <1>s, JobsExcept
<1>4. /\ job' \in Jobs(Here) /\ job'.idx \in 0 .. Len(job'.gArr)
      /\ job'.bndBeingMade = job.bndBeingMade
      /\ job'.contourSaveList = job.contourSaveList
      /\ job'.isContourOn = job.isContourOn /\ job'.stripList = job.stripList
  BY <1>1, <1>3, <1>j DEF Jobs
<1>5. ListIsNew(disk, job') /\ IsSound(job', currentFieldDirectory)
  BY <1>4, SameList DEF IInv, IsSound
<1>6. Saves
  BY <1>1, <1>2, <1>4, TracksSaved
<1> QED
  BY <1>1, <1>2, <1>4, <1>5, <1>6, WorkStep

LEMMA DeleteTrackStep ==
    ASSUME IInv, NEW index, DeleteTrack(index)
    PROVE  IInv'
<1> DEFINE tracks == RemoveAt(job.gArr, index)
           idx == IdxAfterDelete(index)
<1>1. /\ index \in DOMAIN job.gArr
      /\ job' = [job EXCEPT !.gArr = tracks, !.idx = idx]
      /\ UNCHANGED <<fieldVars, disk, madeIn, kept, visits>>
  BY DEF DeleteTrack
<1>2. Grows /\ Saves /\ UNCHANGED fieldVars /\ kept' = kept
  BY <1>1 DEF Grows, Saves
<1>3. job \in Jobs(Here)
  BY <1>2, WorkFacts
<1>4. /\ tracks \in Seq(Tracks(Here)) /\ Len(tracks) = Len(job.gArr) - 1
      /\ Len(job.gArr) \in Nat /\ index \in 1 .. Len(job.gArr)
  BY <1>1, <1>3, RemoveAtType DEF Jobs
<1>5. job.idx \in 0 .. Len(job.gArr) /\ (job.bndBeingMade # 0 => currentFieldDirectory # None)
  BY DEF IInv, IsSound
<1>6. idx \in Nat /\ idx \in 0 .. Len(job.gArr) - 1
  BY <1>4, <1>5 DEF IdxAfterDelete
<1> HIDE DEF tracks, idx
<1>j. [job EXCEPT !.gArr = tracks] \in Jobs(Here)
  BY <1>3, <1>4, JobsExcept
<1>k. job' = [[job EXCEPT !.gArr = tracks] EXCEPT !.idx = idx]
  BY <1>1
<1>l. job' \in Jobs(Here)
  BY <1>6, <1>j, <1>k, JobsExcept
<1>7. /\ job' \in Jobs(Here) /\ job'.idx \in 0 .. Len(job'.gArr)
      /\ job'.bndBeingMade = job.bndBeingMade
      /\ job'.contourSaveList = job.contourSaveList
      /\ job'.isContourOn = job.isContourOn /\ job'.stripList = job.stripList
  BY <1>1, <1>3, <1>4, <1>6, <1>l DEF Jobs
<1>8. ListIsNew(disk, job') /\ IsSound(job', currentFieldDirectory)
  BY <1>5, <1>7, SameList DEF IInv, IsSound
<1>9. isJobStarted
  BY <1>1 DEF IInv, ClosedIsEmpty, IsEmptied
<1> QED
  BY <1>2, <1>7, <1>8, <1>9, WorkStep

LEMMA BoundaryStartStep ==
    ASSUME IInv, BoundaryStart
    PROVE  IInv'
<1>1. /\ job' = [job EXCEPT !.bndBeingMade = NewId]
      /\ madeIn' = Append(madeIn, currentFieldDirectory) /\ NewId <= MaxEdits /\ isJobStarted
      /\ UNCHANGED <<fieldVars, disk, kept, visits>>
  BY DEF BoundaryStart, Edit, MayEdit
<1>2. Grows /\ Saves /\ UNCHANGED fieldVars /\ kept' = kept
  BY <1>1 DEF Grows, Saves
<1>3. job \in Jobs(Here) /\ NewId \in Nat
  BY <1>2, WorkFacts DEF NewId, IInv, Named
<1>4. /\ job' \in Jobs(Here) /\ job'.idx = job.idx /\ job'.gArr = job.gArr
      /\ job'.contourSaveList = job.contourSaveList
      /\ job'.isContourOn = job.isContourOn /\ job'.stripList = job.stripList
  BY <1>1, <1>3 DEF Jobs
<1>5. ListIsNew(disk, job') /\ IsSound(job', currentFieldDirectory)
  BY <1>1, <1>4, SameList DEF IInv, IsSound, Named
<1> QED
  BY <1>1, <1>2, <1>4, <1>5, WorkStep

(* Memory in which only the list of boundaries, or of flags, is another. *)
LEMMA OtherList ==
    ASSUME IInv, job \in Jobs(Here),
           \/ \E x \in Seq(Fences), y \in {0, job.bndBeingMade} :
                 job' = [job EXCEPT !.bndList = x, !.bndBeingMade = y]
           \/ \E x \in Seq(Here) : job' = [job EXCEPT !.flagPts = x]
    PROVE  /\ job' \in Jobs(Here) /\ IsSound(job', currentFieldDirectory)
           /\ ListIsNew(disk, job') /\ (isJobStarted \/ IsEmptied(job'))
<1>1. /\ job' \in Jobs(Here) /\ job'.idx = job.idx /\ job'.gArr = job.gArr
      /\ job'.bndBeingMade \in {0, job.bndBeingMade}
      /\ job'.contourSaveList = job.contourSaveList
      /\ job'.isContourOn = job.isContourOn /\ job'.stripList = job.stripList
  <2>1. CASE \E x \in Seq(Fences), y \in {0, job.bndBeingMade} :
                job' = [job EXCEPT !.bndList = x, !.bndBeingMade = y]
    <3>1. PICK x \in Seq(Fences), y \in {0, job.bndBeingMade} :
              job' = [job EXCEPT !.bndList = x, !.bndBeingMade = y]
      BY <2>1
    <3>2. y \in Nat
      <4>1. job.bndBeingMade \in Nat
        BY DEF Jobs
      <4>2. y = 0 \/ y = job.bndBeingMade
        OBVIOUS
      <4>3. CASE y = 0
        BY <4>3
      <4>4. CASE y = job.bndBeingMade
        BY <4>1, <4>4
      <4> QED
        BY <4>2, <4>3, <4>4
    <3> QED
      BY <3>1, <3>2 DEF Jobs
  <2>2. CASE \E x \in Seq(Here) : job' = [job EXCEPT !.flagPts = x]
    BY <2>2 DEF Jobs
  <2> QED
    BY <2>1, <2>2
<1> QED
  BY <1>1, SameList DEF IInv, IsSound, ClosedIsEmpty, IsEmptied

LEMMA BoundarySaved ==
    ASSUME IInv, UNCHANGED fieldVars, Grows, currentFieldDirectory \in Fields,
           job' \in Jobs(Here), SaveTo(FileSaveBoundary(Current, job')),
           \/ isJobStarted /\ kept' = kept
           \/ kept' = [kept EXCEPT ![currentFieldDirectory] = None]
    PROVE  Saves
<1>1. disk[currentFieldDirectory] \in Files(There) /\ job' \in Jobs(There)
  BY WorkFacts, FilesMono
<1> QED
  BY <1>1, SaveBoundaryFacts DEF SaveTo, Current, Saves

LEMMA BoundarySteps ==
    ASSUME IInv, BoundaryStop \/ BoundaryDeleteAll
                 \/ \E which_boundary \in DOMAIN job.bndList : BoundaryDelete(which_boundary)
    PROVE  IInv'
<1>1. Grows /\ UNCHANGED fieldVars
  BY DEF BoundaryStop, BoundaryDeleteAll, BoundaryDelete, Grows
<1>2. job \in Jobs(Here) /\ job.bndList \in Seq(Fences) /\ job.bndBeingMade \in Nat
  BY <1>1, WorkFacts DEF Jobs
<1>3. CASE BoundaryStop
  <2>1. /\ job' = [job EXCEPT !.bndList = Append(@, CBoundaryList(job.bndBeingMade)),
                              !.bndBeingMade = 0]
        /\ job.bndBeingMade # 0 /\ SaveTo(FileSaveBoundary(Current, job'))
        /\ kept' = [kept EXCEPT ![currentFieldDirectory] = None]
    BY <1>3 DEF BoundaryStop
  <2>2. CBoundaryList(job.bndBeingMade) \in Fences
    BY <1>2 DEF CBoundaryList, Fences
  <2>3. Append(job.bndList, CBoundaryList(job.bndBeingMade)) \in Seq(Fences)
    BY <1>2, <2>2
  <2>4. /\ job' \in Jobs(Here) /\ IsSound(job', currentFieldDirectory)
        /\ ListIsNew(disk, job') /\ (isJobStarted \/ IsEmptied(job'))
    BY <1>2, <2>1, <2>3, OtherList
  <2>5. currentFieldDirectory \in Fields
    BY <2>1 DEF IInv, IsSound, Named
  <2>6. Saves
    BY <1>1, <2>1, <2>4, <2>5, BoundarySaved
  <2> QED
    BY <1>1, <2>1, <2>4, <2>6, WorkStep
<1>4. CASE BoundaryDeleteAll
  <2>1. /\ job' = [job EXCEPT !.bndList = <<>>] /\ isJobStarted
        /\ SaveTo(FileSaveBoundary(Current, job')) /\ kept' = kept
    BY <1>4 DEF BoundaryDeleteAll
  <2>2. job' = [job EXCEPT !.bndList = <<>>, !.bndBeingMade = job.bndBeingMade]
    BY <1>2, <2>1 DEF Jobs
  <2>3. <<>> \in Seq(Fences)
    OBVIOUS
  <2>4. /\ job' \in Jobs(Here) /\ IsSound(job', currentFieldDirectory)
        /\ ListIsNew(disk, job')
    BY <1>2, <2>2, <2>3, OtherList
  <2>5. currentFieldDirectory \in Fields
    BY <2>1 DEF IInv, Named
  <2>6. Saves
    BY <1>1, <2>1, <2>4, <2>5, BoundarySaved
  <2> QED
    BY <1>1, <2>1, <2>4, <2>6, WorkStep
<1>5. ASSUME NEW i \in DOMAIN job.bndList, BoundaryDelete(i) PROVE IInv'
  <2> DEFINE rest == RemoveAt(job.bndList, i)
  <2>1. /\ job' = [job EXCEPT !.bndList = rest] /\ isJobStarted
        /\ UNCHANGED <<fieldVars, disk, madeIn, kept, visits>>
    BY <1>5 DEF BoundaryDelete
  <2>2. rest \in Seq(Fences)
    BY <1>2, RemoveAtType
  <2> HIDE DEF rest
  <2>3. job' = [job EXCEPT !.bndList = rest, !.bndBeingMade = job.bndBeingMade]
    BY <1>2, <2>1 DEF Jobs
  <2>4. /\ job' \in Jobs(Here) /\ IsSound(job', currentFieldDirectory)
        /\ ListIsNew(disk, job')
    BY <1>2, <2>2, <2>3, OtherList
  <2>5. Saves /\ kept' = kept
    BY <2>1 DEF Saves
  <2> QED
    BY <1>1, <2>1, <2>4, <2>5, WorkStep
<1> QED
  BY <1>3, <1>4, <1>5

LEMMA FlagsSaved ==
    ASSUME IInv, UNCHANGED fieldVars, Grows, currentFieldDirectory # None,
           job' \in Jobs(Here), SaveTo(FileSaveFlags(Current, job')),
           kept' = [kept EXCEPT ![currentFieldDirectory] = None]
    PROVE  Saves
<1>1. currentFieldDirectory \in Fields
  BY DEF IInv, Named
<1>2. disk[currentFieldDirectory] \in Files(There) /\ job' \in Jobs(There)
  BY <1>1, WorkFacts, FilesMono
<1> QED
  BY <1>1, <1>2, SaveFlagsFacts DEF SaveTo, Current, Saves

LEMMA FlagSteps ==
    ASSUME IInv, CancelFlag \/ DeleteFlag \/ \E isSaved \in BOOLEAN : AddFlag(isSaved)
    PROVE  IInv'
<1>1. Grows /\ UNCHANGED fieldVars
  BY DEF CancelFlag, DeleteFlag, AddFlag, Grows
<1>2. job \in Jobs(Here) /\ job.flagPts \in Seq(Here)
  BY <1>1, WorkFacts DEF Jobs
<1>3. CASE CancelFlag
  <2>1. /\ currentFieldDirectory # None /\ job' = job /\ SaveTo(FileSaveFlags(Current, job))
        /\ kept' = [kept EXCEPT ![currentFieldDirectory] = None]
    BY <1>3 DEF CancelFlag
  <2>2. Saves
    BY <1>1, <1>2, <2>1, FlagsSaved
  <2> QED
    BY <1>1, <1>2, <2>1, <2>2, WorkStep DEF IInv, ClosedIsEmpty
<1>4. CASE DeleteFlag
  <2>1. UNCHANGED <<fieldVars, disk, madeIn, kept, visits>>
    BY <1>4 DEF DeleteFlag
  <2>2. \E x \in Seq(Here) : job' = [job EXCEPT !.flagPts = x]
    <3>1. CASE \E i \in DOMAIN job.flagPts : job' = [job EXCEPT !.flagPts = RemoveAt(@, i)]
      <4>1. PICK i \in DOMAIN job.flagPts :
                job' = [job EXCEPT !.flagPts = RemoveAt(job.flagPts, i)]
        BY <3>1
      <4>2. RemoveAt(job.flagPts, i) \in Seq(Here)
        BY <1>2, <4>1, RemoveAtType
      <4> QED
        BY <4>1, <4>2
    <3>2. CASE job' = [job EXCEPT !.flagPts = <<>>]
      <4>1. <<>> \in Seq(Here)
        OBVIOUS
      <4> QED
        BY <3>2, <4>1
    <3> QED
      BY <1>4, <3>1, <3>2 DEF DeleteFlag
  <2>3. /\ job' \in Jobs(Here) /\ IsSound(job', currentFieldDirectory)
        /\ ListIsNew(disk, job') /\ (isJobStarted \/ IsEmptied(job'))
    BY <1>2, <2>2, OtherList
  <2> QED
    BY <1>1, <2>1, <2>3, WorkStep DEF Saves
<1>5. ASSUME NEW isSaved \in BOOLEAN, AddFlag(isSaved) PROVE IInv'
  <2>1. /\ isSaved => currentFieldDirectory # None
        /\ job' = [job EXCEPT !.flagPts = Append(job.flagPts, NewId)]
        /\ madeIn' = Append(madeIn, IF isJobStarted THEN currentFieldDirectory ELSE None)
        /\ IF isSaved
           THEN /\ SaveTo(FileSaveFlags(Current, job'))
                /\ kept' = [kept EXCEPT ![currentFieldDirectory] = None]
           ELSE UNCHANGED <<disk, kept>>
    BY <1>5 DEF AddFlag
  <2>2. NewId \in Here
    <3>1. madeIn' # madeIn
      BY <2>1 DEF IInv, Named
    <3> QED
      BY <1>1, <3>1, WorkFacts
  <2>3. Append(job.flagPts, NewId) \in Seq(Here)
    BY <1>2, <2>2
  <2>4. /\ job' \in Jobs(Here) /\ IsSound(job', currentFieldDirectory)
        /\ ListIsNew(disk, job') /\ (isJobStarted \/ IsEmptied(job'))
    BY <1>2, <2>1, <2>3, OtherList
  <2>5. CASE isSaved
    <3>1. Saves
      BY <1>1, <2>1, <2>4, <2>5, FlagsSaved
    <3> QED
      BY <1>1, <2>1, <2>4, <2>5, <3>1, WorkStep
  <2>6. CASE ~isSaved
    <3>1. Saves /\ kept' = kept
      BY <2>1, <2>6 DEF Saves
    <3> QED
      BY <1>1, <2>4, <3>1, WorkStep
  <2> QED
    BY <2>5, <2>6
<1> QED
  BY <1>3, <1>4, <1>5

(* An edit that is being made is in memory and in files nowhere yet. *)
LEMMA NewIsNew ==
    ASSUME IInv
    PROVE  /\ NewId \in Nat /\ NewId # Header
           /\ NewId \notin ToSet(job.contourSaveList)
           /\ \A f \in Fields : NewId \notin Strips(disk[f])
<1>1. madeIn \in Seq(Fields \cup {None})
  BY DEF IInv, Named
<1>2. NewId \in Nat /\ NewId # Header /\ NewId \notin DOMAIN madeIn
  BY <1>1 DEF NewId, Header
<1>3. \A fs : NewId \notin Known(madeIn, fs)
  BY <1>2 DEF Known
<1>4. job.contourSaveList \in Seq(Known(madeIn, Origins))
  BY DEF IInv, JobIsOwn, Jobs
<1>5. NewId \notin ToSet(job.contourSaveList)
  BY <1>3, <1>4, ToSetType
<1>6. ASSUME NEW f \in Fields PROVE NewId \notin Strips(disk[f])
  <2>1. disk[f] \in Files(Known(madeIn, origins[f]))
    BY DEF IInv, DiskOK, FilesAreOwn
  <2>2. Lines(disk[f]) \in Seq(Known(madeIn, origins[f]))
    BY <2>1, LinesType
  <2> QED
    BY <1>3, <2>2, ToSetType DEF Strips
<1> QED
  BY <1>2, <1>5, <1>6

LEMMA StartContourStep ==
    ASSUME IInv, StartContourLine
    PROVE  IInv'
<1> DEFINE strips == Append(job.stripList, NewId)
<1>1. /\ job' = [job EXCEPT !.stripList = strips, !.isContourOn = TRUE]
      /\ madeIn' = Append(madeIn, currentFieldDirectory) /\ NewId <= MaxEdits /\ isJobStarted
      /\ UNCHANGED <<fieldVars, disk, kept, visits>>
  BY DEF StartContourLine, Edit, MayEdit
<1>2. Grows /\ Saves /\ UNCHANGED fieldVars /\ kept' = kept
  BY <1>1 DEF Grows, Saves
<1>3. job \in Jobs(Here) /\ NewId \in Here
  <2>1. madeIn' # madeIn
    BY <1>1 DEF IInv, Named
  <2> QED
    BY <1>2, <2>1, WorkFacts
<1>4. strips \in Seq(Here) /\ strips # <<>> /\ Last(strips) = NewId
  BY <1>3 DEF Jobs, Last
<1> HIDE DEF strips
<1>5. /\ job' \in Jobs(Here) /\ job'.idx = job.idx /\ job'.gArr = job.gArr
      /\ job'.bndBeingMade = job.bndBeingMade
      /\ job'.contourSaveList = job.contourSaveList /\ job'.stripList = strips
  BY <1>1, <1>3, <1>4 DEF Jobs
<1>6. ListIsNew(disk, job')
  BY <1>4, <1>5, NewIsNew DEF IInv, ListIsNew
<1>7. IsSound(job', currentFieldDirectory)
  BY <1>5 DEF IInv, IsSound
<1> QED
  BY <1>1, <1>2, <1>5, <1>6, <1>7, WorkStep

LEMMA StopContourStep ==
    ASSUME IInv, StopContourLine
    PROVE  IInv'
<1>1. /\ job.isContourOn /\ job' \in StoppedContour(job)
      /\ UNCHANGED <<fieldVars, disk, madeIn, kept, visits>>
  BY DEF StopContourLine
<1>2. Grows /\ Saves /\ UNCHANGED fieldVars /\ kept' = kept
  BY <1>1 DEF Grows, Saves
<1>3. job \in Jobs(Here)
  BY <1>2, WorkFacts
<1>4. isJobStarted
  BY <1>1 DEF IInv, ClosedIsEmpty, IsEmptied
<1>5. /\ job' \in Jobs(Here) /\ ListIsNew(disk, job') /\ job'.idx = job.idx
      /\ job'.gArr = job.gArr /\ job'.bndBeingMade = job.bndBeingMade
  BY <1>1, <1>3, StoppedFacts DEF IInv
<1>6. IsSound(job', currentFieldDirectory)
  BY <1>5 DEF IInv, IsSound
<1> QED
  BY <1>2, <1>4, <1>5, <1>6, WorkStep

(* What the steps that change the strips in the files have to show. *)
LEMMA StripStep ==
    ASSUME IInv, isJobStarted, UNCHANGED <<fieldVars, madeIn, kept>>, job' \in Jobs(Mine),
           job'.idx = job.idx, job'.gArr = job.gArr, job'.bndBeingMade = job.bndBeingMade,
           NEW files \in Files(Mine), disk' = [disk EXCEPT ![currentFieldDirectory] = files],
           OnceOn(disk'), AloneOn(disk'), ListIsNew(disk', job')
    PROVE  IInv'
<1>1. currentFieldDirectory \in Fields /\ disk = [g \in Fields |-> disk[g]]
  BY OpenFacts
<1>2. FilesAreOwn(disk, madeIn, origins) /\ KeptOn(disk, kept)
      /\ kept[currentFieldDirectory] = None
  BY DEF IInv, DiskOK, OpenIsNotKept
<1>3. FilesAreOwn(disk, madeIn, origins)'
  <2>1. FilesAreOwn([disk EXCEPT ![currentFieldDirectory] = files], madeIn, origins)
    BY <1>1, <1>2, OneFileOwn DEF Mine
  <2> QED
    BY <2>1 DEF fieldVars
<1>4. KeptOn(disk, kept)'
  <2>1. KeptOn([disk EXCEPT ![currentFieldDirectory] = files], kept)
    BY <1>1, <1>2, OneFileKept
  <2> QED
    BY <2>1
<1>5. JobIsOwn' /\ ClosedIsEmpty' /\ OpenIsNotKept'
  BY <1>2 DEF fieldVars, JobIsOwn, Origins, Mine, ClosedIsEmpty, OpenIsNotKept
<1>6. Named' /\ IsSound(job, currentFieldDirectory)'
  BY DEF IInv, fieldVars, Named, IsSound
<1> QED
  BY <1>3, <1>4, <1>5, <1>6 DEF IInv, DiskOK

LEMMA AutoSaveStep ==
    ASSUME IInv, AutoSave
    PROVE  IInv'
<1> DEFINE f == currentFieldDirectory
           files == FileSaveContour(disk[f], job)
<1>1. /\ isJobStarted /\ disk' = [disk EXCEPT ![f] = files]
      /\ job' = ContourSaved(disk[f], job) /\ UNCHANGED <<fieldVars, madeIn, kept>>
  BY DEF AutoSave, SaveTo, Current
<1>2. /\ f \in Fields /\ disk[f] \in Files(Mine) /\ job \in Jobs(Mine) /\ Mine \subseteq Nat
      /\ disk = [g \in Fields |-> disk[g]]
  BY <1>1, OpenFacts
<1>3. OnceOn(disk) /\ AloneOn(disk) /\ ListIsNew(disk, job)
  BY DEF IInv, DiskOK
<1>4. /\ files \in Files(Mine) /\ files.Field = disk[f].Field
      /\ Lines(files) = Lines(disk[f]) \/ Lines(files) = Lines(disk[f]) \o job.contourSaveList
  BY <1>2, SaveContourFacts
<1>5. CASE ~Exists(disk[f])
  <2>1. job' = job /\ files = disk[f]
    BY <1>1, <1>5 DEF ContourSaved, FileSaveContour
  <2>2. disk' = disk
    BY <1>1, <1>2, <2>1
  <2> HIDE DEF files
  <2> QED
    BY <1>1, <1>2, <1>3, <1>4, <2>1, <2>2, StripStep
<1>6. CASE Exists(disk[f])
  <2> DEFINE list == job.contourSaveList
  <2>1. job' = [job EXCEPT !.contourSaveList = <<>>]
    BY <1>1, <1>6 DEF ContourSaved
  <2>2. /\ job' \in Jobs(Mine) /\ job'.contourSaveList = <<>> /\ job'.idx = job.idx
        /\ job'.gArr = job.gArr /\ job'.bndBeingMade = job.bndBeingMade
        /\ job'.stripList = job.stripList /\ job'.isContourOn = job.isContourOn
    <3>1. <<>> \in Seq(Mine)
      OBVIOUS
    <3>2. job' \in Jobs(Mine)
      BY <1>2, <2>1, <3>1, JobsExcept
    <3> QED
      BY <1>2, <2>1, <3>2 DEF Jobs
  <2>3. Lines(disk[f]) \in Seq(Nat) /\ list \in Seq(Nat)
    BY <1>2, LinesType, SeqMono DEF Jobs
  <2>4. IsNewOn(disk, list)
    BY <1>3, <2>3 DEF ListIsNew, IsNewOn
  <2> HIDE DEF files, f
  <2>5. /\ OnceOn(disk') /\ AloneOn(disk')
        /\ \A g \in Fields : Strips(disk'[g]) \subseteq Strips(disk[g]) \cup ToSet(list)
    <3>1. Extends(files, disk[f], list)
      BY <1>4, <2>3 DEF Extends
    <3>2. disk' = Rewritten(disk, f, files)
      BY <1>1 DEF Rewritten
    <3> HIDE DEF list
    <3>3. /\ OnceOn(Rewritten(disk, f, files)) /\ AloneOn(Rewritten(disk, f, files))
          /\ \A g \in Fields :
                Strips(Rewritten(disk, f, files)[g]) \subseteq Strips(disk[g]) \cup ToSet(list)
      BY <1>2, <1>3, <2>4, <3>1, AppendedKeep
    <3> QED
      BY <3>2, <3>3
  <2>6. ListIsNew(disk', job')
    BY <1>3, <2>2, <2>5 DEF ListIsNew, Once, ToSet
  <2> QED
    BY <1>1, <1>4, <2>2, <2>5, <2>6, StripStep DEF f
<1> QED
  BY <1>5, <1>6

LEMMA DeleteAppliedAreaStep ==
    ASSUME IInv, DeleteAppliedArea
    PROVE  IInv'
<1> DEFINE f == currentFieldDirectory
           files == FileCreateContour(disk[f])
           list == Only(job.contourSaveList,
                        ToSet(job.contourSaveList) \ {Last(job.stripList)})
<1>1. /\ isJobStarted /\ disk' = [disk EXCEPT ![f] = files]
      /\ job' = [job EXCEPT !.stripList = <<>>, !.isContourOn = FALSE,
                            !.contourSaveList = list]
      /\ UNCHANGED <<fieldVars, madeIn, kept>>
  BY DEF DeleteAppliedArea, SaveTo, Current
<1>2. /\ f \in Fields /\ disk[f] \in Files(Mine) /\ job \in Jobs(Mine) /\ Mine \subseteq Nat
      /\ Header \in Mine /\ disk = [g \in Fields |-> disk[g]]
  BY <1>1, OpenFacts
<1>3. OnceOn(disk) /\ AloneOn(disk) /\ ListIsNew(disk, job)
  BY DEF IInv, DiskOK
<1>4. files \in Files(Mine) /\ Lines(files) \in {<<>>, <<Header>>}
  <2>1. <<Header>> \in OrNone(Seq(Mine))
    BY <1>2 DEF OrNone
  <2>2. files \in Files(Mine) /\ files.Contour = <<Header>>
    BY <1>2, <2>1, FilesExcept DEF FileCreateContour, Files
  <2> QED
    BY <2>2 DEF Lines
<1>5. /\ list \in Seq(Mine) /\ ToSet(list) \subseteq ToSet(job.contourSaveList) /\ Once(list)
  BY <1>2, <1>3, OnlyFacts DEF Jobs, ListIsNew
<1> HIDE DEF files, list
<1>6. /\ job' \in Jobs(Mine) /\ job'.contourSaveList = list /\ job'.idx = job.idx
      /\ job'.gArr = job.gArr /\ job'.bndBeingMade = job.bndBeingMade /\ ~job'.isContourOn
  <2> DEFINE j == [job EXCEPT !.stripList = <<>>]
             k == [j EXCEPT !.isContourOn = FALSE]
  <2>1. <<>> \in Seq(Mine)
    OBVIOUS
  <2>2. j \in Jobs(Mine)
    BY <1>2, <2>1, JobsExcept
  <2>3. k \in Jobs(Mine)
    <3> HIDE DEF j
    <3> QED
      BY <2>2, JobsExcept
  <2>4. job' = [k EXCEPT !.contourSaveList = list]
    BY <1>1
  <2>5. [k EXCEPT !.contourSaveList = list] \in Jobs(Mine)
    <3> HIDE DEF k
    <3> QED
      BY <1>5, <2>3, JobsExcept
  <2> QED
    BY <1>1, <1>2, <2>4, <2>5 DEF Jobs
<1>7. /\ OnceOn(disk') /\ AloneOn(disk')
      /\ \A g \in Fields : Strips(disk'[g]) \subseteq Strips(disk[g])
  BY <1>1, <1>2, <1>3, <1>4, NoStripsKeep
<1>8. ListIsNew(disk', job')
  BY <1>3, <1>5, <1>6, <1>7 DEF ListIsNew
<1> QED
  BY <1>1, <1>4, <1>6, <1>7, <1>8, StripStep

LEMMA NextIInv == IInv /\ [Next]_vars => IInv'
<1> SUFFICES ASSUME IInv, [Next]_vars PROVE IInv'
  OBVIOUS
<1>1. CASE CloseField
  <2>1. PICK c \in Closings : job' = c.job /\ disk' = c.disk /\ kept' = c.kept
    BY <1>1 DEF CloseField
  <2> QED
    BY <1>1, <2>1, Closed DEF CloseField
<1>2. ASSUME NEW f \in Fields,
             \/ OpenField(f)
             \/ CreateField(f)
             \/ \E existing \in Fields, flags \in CopyFlags : CreateFieldFrom(existing, f, flags)
             \/ CreateFieldFromKML(f)
             \/ DeleteField(f)
      PROVE  IInv'
  BY <1>2, OpenFieldStep, CreateFieldStep, CreateFieldFromStep, CreateFieldFromKMLStep,
     DeleteFieldStep
<1>3. CASE Crash
  BY <1>3, CrashStep
<1>4. ASSUME NEW mode \in {"AB", "Curve"}, FinishTrack(mode) PROVE IInv'
  BY <1>4, FinishTrackStep
<1>5. ASSUME NEW index \in 0 .. Len(job.gArr), SelectTrack(index) \/ DeleteTrack(index) PROVE IInv'
  BY <1>5, SelectTrackStep, DeleteTrackStep
<1>6. CASE BoundaryStart
  BY <1>6, BoundaryStartStep
<1>7. CASE BoundaryStop \/ BoundaryDeleteAll
           \/ \E which_boundary \in DOMAIN job.bndList : BoundaryDelete(which_boundary)
  BY <1>7, BoundarySteps
<1>8. CASE CancelFlag \/ DeleteFlag \/ \E isSaved \in BOOLEAN : AddFlag(isSaved)
  BY <1>8, FlagSteps
<1>9. CASE StartContourLine \/ StopContourLine \/ AutoSave \/ DeleteAppliedArea
  BY <1>9, StartContourStep, StopContourStep, AutoSaveStep, DeleteAppliedAreaStep
<1>10. CASE UNCHANGED vars
  <2>1. UNCHANGED <<currentFieldDirectory, isJobStarted, isStuck, origins, job, disk, madeIn, kept>>
    BY <1>10 DEF vars, fieldVars
  <2> QED
    BY <2>1 DEF IInv, JobIsOwn, Origins, Named, ClosedIsEmpty, OpenIsNotKept
<1> QED
  BY <1>1, <1>2, <1>3, <1>4, <1>5, <1>6, <1>7, <1>8, <1>9, <1>10 DEF Next

----------------------------------------------------------------------------
(* The theorems *)

LEMMA Invariant == Spec => []IInv
BY InitIInv, NextIInv, PTL DEF Spec

(* No more edits are known to the program than were made, whatever is       *)
(* opened, copied, deleted or lost, and a track is selected only where      *)
(* there is one (the handlers of tracks in formgps_ui_tracks, JobClose,     *)
(* FileOpenField).                                                          *)
THEOREM TypeCorrect == Spec => []TypeOK
<1>1. IInv => TypeOK
  <2> SUFFICES ASSUME IInv PROVE TypeOK
    OBVIOUS
  <2> DEFINE K == Known(madeIn, Origins)
  <2>1. job \in Jobs(K)
    BY DEF IInv, JobIsOwn
  <2>2. K \subseteq DOMAIN madeIn \cup {Header}
    BY KnownFacts DEF IInv, Named
  <2> HIDE DEF K
  <2>3. ToSet(job.flagPts) \subseteq K /\ ToSet(job.stripList) \subseteq K
        /\ ToSet(job.contourSaveList) \subseteq K
    BY <2>1, ToSetType DEF Jobs
  <2>4. Ids(job.gArr) \subseteq K
    <3>1. ToSet(job.gArr) \subseteq Tracks(K)
      BY <2>1, ToSetType DEF Jobs
    <3> QED
      BY <3>1 DEF Ids, Tracks
  <2>5. Ids(job.gArr) \cup ToSet(job.flagPts) \cup ToSet(job.stripList)
            \cup ToSet(job.contourSaveList) \subseteq DOMAIN madeIn \cup {Header}
    BY <2>2, <2>3, <2>4
  <2> QED
    BY <2>5 DEF TypeOK, IInv, Named, IsSound
<1> QED
  BY <1>1, Invariant, PTL

(* The tracks, flags and contour strips in the files of a field were made   *)
(* in it or in a field it was copied from, through every way a field is     *)
(* opened, created, copied, closed, deleted or lost (FileOpenField,         *)
(* FileSaveEverythingBeforeClosingField, JobClose, field_new_from).         *)
THEOREM Own == Spec => []OwnContent
<1>1. IInv => OwnContent
  <2> SUFFICES ASSUME IInv, NEW f \in Fields
               PROVE  LET files == disk[f]
                          tracks == IF files.TrackLines = None THEN {} ELSE Ids(files.TrackLines.tracks)
                          old == UNION {Ids(list) : list \in {files.ABLines, files.CurveLines} \ {None}}
                          others == UNION {ToSet(list) : list \in {files.Flags, files.Contour} \ {None}}
                      IN  \A id \in (tracks \cup old \cup others) \ {Header} : madeIn[id] \in origins[f]
    BY DEF OwnContent
  <2> DEFINE K == Known(madeIn, origins[f])
             files == disk[f]
             tracks == IF files.TrackLines = None THEN {} ELSE Ids(files.TrackLines.tracks)
             old == UNION {Ids(list) : list \in {files.ABLines, files.CurveLines} \ {None}}
             others == UNION {ToSet(list) : list \in {files.Flags, files.Contour} \ {None}}
  <2>1. files \in Files(K)
    BY DEF IInv, DiskOK, FilesAreOwn
  <2>2. \A id \in K \ {Header} : madeIn[id] \in origins[f]
    BY DEF Known
  <2> HIDE DEF K, files
  <2>3. ASSUME NEW list \in Seq(Tracks(K)) PROVE Ids(list) \subseteq K
    <3>1. ToSet(list) \subseteq Tracks(K)
      BY ToSetType
    <3> QED
      BY <3>1 DEF Ids, Tracks
  <2>4. tracks \subseteq K
    <3>1. files.TrackLines # None => files.TrackLines.tracks \in Seq(Tracks(K))
      BY <2>1 DEF Files, OrNone, TrackFiles
    <3> QED
      BY <2>3, <3>1
  <2>5. old \subseteq K
    <3>1. \A list \in {files.ABLines, files.CurveLines} \ {None} : list \in Seq(Tracks(K))
      BY <2>1 DEF Files, OrNone
    <3> QED
      BY <2>3, <3>1
  <2>6. others \subseteq K
    <3>1. \A list \in {files.Flags, files.Contour} \ {None} : list \in Seq(K)
      BY <2>1 DEF Files, OrNone
    <3> QED
      BY <3>1, ToSetType
  <2>7. \A id \in (tracks \cup old \cup others) \ {Header} : madeIn[id] \in origins[f]
    <3> HIDE DEF tracks, old, others
    <3> QED
      BY <2>2, <2>4, <2>5, <2>6
  <2> QED
    BY <2>7 DEF files
<1> QED
  BY <1>1, Invariant, PTL

(* A strip is appended to Contour.txt once, by the save every half minute   *)
(* or by the closing of the field, never by both, and the strip that        *)
(* field_new_from copies is none that is there already (FileSaveContour).   *)
THEOREM SavedOnce == Spec => []StripsAreSavedOnce
<1>1. IInv => StripsAreSavedOnce
  BY DEF IInv, DiskOK, OnceOn, Lines, Once, StripsAreSavedOnce
<1> QED
  BY <1>1, Invariant, PTL

(* For any fields, edits, crashes and deletions: a field that was closed    *)
(* comes back with the same tracks in their order, the same fences and the  *)
(* same flags, and reading it does not freeze the program                   *)
(* (FileSaveEverythingBeforeClosingField and FileOpenField).  Nothing is    *)
(* said of the points of a track: A and B are lost (TracksKeepTheirPoints). *)
THEOREM ComesBack == Spec => []ReopenRestores
<1>1. IInv => ReopenRestores
  <2> SUFFICES ASSUME IInv, NEW f \in Fields, kept[f] # None
               PROVE  /\ ~LeavesLock(disk[f], LoadFlags)
                      /\ \A j \in FileOpenField(disk[f], NoJob, LoadFlags) : Kept(j) = kept[f]
    BY DEF ReopenRestores
  <2>1. IsKept(disk[f], kept[f])
    BY DEF IInv, KeptOn
  <2>2. disk[f] \in Files(Known(madeIn, origins[f]))
    BY DEF IInv, DiskOK, FilesAreOwn
  <2> QED
    BY <2>1, <2>2, KeptComesBack
<1> QED
  BY <1>1, Invariant, PTL
=============================================================================
