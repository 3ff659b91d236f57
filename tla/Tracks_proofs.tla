---------------------------- MODULE Tracks_proofs ----------------------------
(***************************************************************************)
(* The list of guidance tracks, for any tracks: what the operations on it  *)
(* keep of its type.  A track is in the list once, the visible tracks are  *)
(* of the list, and the selected one is a track of it or none.  Used by    *)
(* the proofs about the lines that are steered by (GuidanceLines) and      *)
(* about the turns at their ends (Guidance).                               *)
(***************************************************************************)
EXTENDS Tracks, FiniteSetTheorems, SequenceTheorems, TLAPS

(* Every track of the field is loaded, and once. *)
LEMMA FieldListFacts ==
    /\ SetToSeq(FieldTracks) \in Seq(AllTracks) /\ IsInjective(SetToSeq(FieldTracks))
    /\ FieldTracks \subseteq ToSet(SetToSeq(FieldTracks))
<1> DEFINE n == Cardinality(FieldTracks)
           s == SetToSeq(FieldTracks)
<1>1. n \in Nat /\ \E f : ExistsBijection(1..n, FieldTracks)
  BY FS_CardinalityType, TrackAssumption
<1>2. PICK f \in Bijection(1..n, FieldTracks) : TRUE
  BY <1>1 DEF ExistsBijection
<1>3. f \in [1..n -> FieldTracks] /\ IsInjective(f)
  BY <1>2 DEF Bijection, Injection, Surjection, IsInjective
<1>4. s \in [1..n -> FieldTracks] /\ IsInjective(s)
  BY <1>3 DEF SetToSeq
<1>9. s \in Seq(AllTracks)
  BY <1>1, <1>4, TrackAssumption
<1> HIDE DEF s
<1>5. s \in Injection(1..n, FieldTracks)
  BY <1>4 DEF Injection, IsInjective
<1>6. Cardinality(1..n) = n
  BY <1>1, FS_Interval
<1>7. s \in Surjection(1..n, FieldTracks)
  BY <1>5, <1>6, FS_Injection, TrackAssumption
<1>8. FieldTracks \subseteq ToSet(s)
  BY <1>4, <1>7 DEF Surjection, ToSet
<1> QED
  BY <1>4, <1>8, <1>9 DEF s

LEMMA TracksInitFacts == TracksInit => TracksTypeOK
  BY FieldListFacts DEF TracksInit, TracksTypeOK

(* Those before the one that is removed stay where they were, the others move up. *)
LEMMA RemoveAtFacts ==
    ASSUME NEW S, NEW s \in Seq(S), NEW i \in 1..Len(s)
    PROVE  /\ RemoveAt(s, i) \in Seq(S) /\ Len(RemoveAt(s, i)) = Len(s) - 1
           /\ \A j \in 1..Len(s) - 1 : RemoveAt(s, i)[j] = IF j < i THEN s[j] ELSE s[j + 1]
<1> DEFINE n == Len(s)
           before == SubSeq(s, 1, i - 1)
           after == SubSeq(s, i + 1, n)
           rest == before \o after
<1>1. n \in Nat /\ i \in 1..n
  OBVIOUS
<1>2. before \in Seq(S) /\ Len(before) = i - 1 /\ \A j \in 1..i - 1 : before[j] = s[j]
  OBVIOUS
<1>3. after \in Seq(S) /\ Len(after) = n - i /\ \A j \in 1..n - i : after[j] = s[i + j]
  OBVIOUS
<1>4. RemoveAt(s, i) = rest
  BY DEF RemoveAt
<1> HIDE DEF n, before, after
<1>5. /\ rest \in Seq(S) /\ Len(rest) = (i - 1) + (n - i)
      /\ \A j \in 1..(i - 1) + (n - i) :
            rest[j] = IF j <= i - 1 THEN before[j] ELSE after[j - (i - 1)]
  <2>1. /\ rest \in Seq(S) /\ Len(rest) = Len(before) + Len(after)
        /\ \A j \in 1..Len(before) + Len(after) :
              rest[j] = IF j <= Len(before) THEN before[j] ELSE after[j - Len(before)]
    BY <1>2, <1>3, ConcatProperties, Zenon
  <2> HIDE DEF rest
  <2> QED
    BY <1>2, <1>3, <2>1, Zenon
<1>6. (i - 1) + (n - i) = n - 1
  BY <1>1
<1> HIDE DEF rest
<1>7. ASSUME NEW j \in 1..n - 1
      PROVE  rest[j] = IF j < i THEN s[j] ELSE s[j + 1]
  <2>1. CASE j < i
    BY <1>1, <1>2, <1>5, <1>6, <2>1
  <2>2. CASE j >= i
    <3> DEFINE k == j - (i - 1)
    <3>1. k \in 1..n - i /\ i + k = j + 1 /\ ~(j <= i - 1)
      BY <1>1, <2>2
    <3>2. rest[j] = after[k]
      BY <1>5, <1>6, <3>1
    <3> QED
      BY <1>3, <2>2, <3>1, <3>2
  <2> QED
    BY <1>1, <2>1, <2>2
<1> QED
  BY <1>4, <1>5, <1>6, <1>7 DEF n

LEMMA TracksStill ==
    ASSUME TracksTypeOK, UNCHANGED trackVars
    PROVE  TracksTypeOK'
  BY DEF TracksTypeOK, trackVars, IsInjective, ToSet

LEMMA SelectsFacts ==
    ASSUME TracksTypeOK, NEW i \in Selectable, Selects(i)
    PROVE  TracksTypeOK'
<1>1. i \in 0..Len(gArr) /\ UNCHANGED <<gArr, visible>> /\ idx' = i
  BY DEF Selectable, Visible, Selects, TracksTypeOK
<1> QED
  BY <1>1 DEF TracksTypeOK, IsInjective, ToSet

LEMMA AddsFacts ==
    ASSUME TracksTypeOK, NEW t, Adds(t)
    PROVE  TracksTypeOK'
<1>1. /\ t \in AllTracks /\ \A j \in DOMAIN gArr : gArr[j] # t
      /\ gArr' = Append(gArr, t) /\ visible' = visible \cup {t} /\ idx' = Len(gArr) + 1
      /\ gArr \in Seq(AllTracks)
  BY DEF Adds, ToSet, TracksTypeOK
<1>2. /\ gArr' \in Seq(AllTracks) /\ Len(gArr') = Len(gArr) + 1
      /\ gArr'[Len(gArr) + 1] = t /\ \A j \in 1..Len(gArr) : gArr'[j] = gArr[j]
  BY <1>1
<1>3. DOMAIN gArr = 1..Len(gArr) /\ DOMAIN gArr' = 1..Len(gArr) + 1 /\ Len(gArr) \in Nat
  BY <1>1, <1>2
<1>4. IsInjective(gArr')
  <2> SUFFICES ASSUME NEW a \in 1..Len(gArr) + 1, NEW b \in 1..Len(gArr) + 1, gArr'[a] = gArr'[b]
               PROVE  a = b
    BY <1>3 DEF IsInjective
  <2>1. CASE a \in 1..Len(gArr) /\ b \in 1..Len(gArr)
    BY <1>2, <1>3, <2>1 DEF TracksTypeOK, IsInjective
  <2>2. CASE a = Len(gArr) + 1 /\ b \in 1..Len(gArr)
    BY <1>1, <1>2, <1>3, <2>2
  <2>3. CASE a \in 1..Len(gArr) /\ b = Len(gArr) + 1
    BY <1>1, <1>2, <1>3, <2>3
  <2>4. CASE a = Len(gArr) + 1 /\ b = Len(gArr) + 1
    BY <2>4
  <2> QED
    BY <1>3, <2>1, <2>2, <2>3, <2>4
<1>5. visible' \subseteq ToSet(gArr')
  <2> SUFFICES ASSUME NEW u \in visible' PROVE \E j \in DOMAIN gArr' : gArr'[j] = u
    BY DEF ToSet
  <2>1. CASE u = t
    BY <1>2, <1>3, <2>1
  <2>2. CASE u \in visible
    <3>1. PICK j \in DOMAIN gArr : gArr[j] = u
      BY <2>2 DEF TracksTypeOK, ToSet
    <3> QED
      BY <1>2, <1>3, <3>1
  <2> QED
    BY <1>1, <2>1, <2>2
<1> QED
  BY <1>1, <1>2, <1>3, <1>4, <1>5 DEF TracksTypeOK

(* Those that stay visible are still in the list: the one that goes is in it once. *)
LEMMA RemovesFacts ==
    ASSUME TracksTypeOK, NEW i \in DOMAIN gArr, Removes(i)
    PROVE  TracksTypeOK'
<1> DEFINE n == Len(gArr)
<1>1. gArr \in Seq(AllTracks) /\ n \in Nat /\ i \in 1..n /\ DOMAIN gArr = 1..n
  BY DEF TracksTypeOK
<1>2. gArr' = RemoveAt(gArr, i) /\ visible' = visible \ {gArr[i]}
  BY DEF Removes
<1>3. /\ gArr' \in Seq(AllTracks) /\ Len(gArr') = n - 1
      /\ \A j \in 1..n - 1 : gArr'[j] = IF j < i THEN gArr[j] ELSE gArr[j + 1]
  BY <1>1, <1>2, RemoveAtFacts
<1>4. DOMAIN gArr' = 1..n - 1
  BY <1>3
<1>5. idx' \in 0..n - 1
  BY <1>1 DEF Removes, IdxAfterDelete, TracksTypeOK
<1>6. IsInjective(gArr')
  <2> SUFFICES ASSUME NEW a \in 1..n - 1, NEW b \in 1..n - 1, gArr'[a] = gArr'[b]
               PROVE  a = b
    BY <1>4 DEF IsInjective
  <2> DEFINE from(j) == IF j < i THEN j ELSE j + 1
  <2>1. from(a) \in 1..n /\ from(b) \in 1..n /\ (from(a) = from(b) => a = b)
    BY <1>1
  <2>2. gArr'[a] = gArr[from(a)] /\ gArr'[b] = gArr[from(b)]
    BY <1>3
  <2> HIDE DEF from
  <2> QED
    BY <1>1, <2>1, <2>2 DEF TracksTypeOK, IsInjective
<1>7. visible' \subseteq ToSet(gArr')
  <2> SUFFICES ASSUME NEW u \in visible, u # gArr[i] PROVE \E j \in 1..n - 1 : gArr'[j] = u
    BY <1>2, <1>4 DEF ToSet
  <2>1. PICK k \in 1..n : gArr[k] = u
    BY <1>1 DEF TracksTypeOK, ToSet
  <2>2. CASE k < i
    BY <1>1, <1>3, <2>1, <2>2
  <2>3. CASE k > i
    <3>1. k - 1 \in 1..n - 1 /\ ~(k - 1 < i) /\ (k - 1) + 1 = k
      BY <1>1, <2>3
    <3> QED
      BY <1>3, <2>1, <3>1
  <2> QED
    BY <1>1, <2>1, <2>2, <2>3
<1> QED
  BY <1>3, <1>5, <1>6, <1>7 DEF TracksTypeOK

LEMMA HidesFacts ==
    ASSUME TracksTypeOK, NEW t \in ToSet(gArr), Hides(t)
    PROVE  TracksTypeOK'
  BY DEF Hides, SymDiff, TracksTypeOK, IsInjective, ToSet

(* A field without tracks has none to select. *)
LEMMA LoadedFacts ==
    ASSUME TracksClosed \/ TracksLoaded
    PROVE  TracksTypeOK'
<1>1. CASE TracksClosed
  BY <1>1 DEF TracksClosed, TracksTypeOK, IsInjective
<1>2. CASE TracksLoaded
  <2> DEFINE s == SetToSeq(FieldTracks)
  <2>1. /\ gArr' = s /\ visible' \subseteq FieldTracks
        /\ idx' = IF FieldTracks = {} THEN 0 ELSE 1
    BY <1>2 DEF TracksLoaded
  <2>2. s \in Seq(AllTracks) /\ IsInjective(s) /\ FieldTracks \subseteq ToSet(s)
    BY FieldListFacts
  <2> HIDE DEF s
  <2>3. Len(s) \in Nat /\ (FieldTracks # {} => Len(s) > 0)
    BY <2>2 DEF ToSet
  <2>4. idx' \in 0..Len(s)
    BY <2>1, <2>3
  <2> QED
    BY <2>1, <2>2, <2>4 DEF TracksTypeOK
<1> QED
  BY <1>1, <1>2
=============================================================================
