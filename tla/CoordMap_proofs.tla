--------------------------- MODULE CoordMap_proofs ---------------------------
(***************************************************************************)
(* Proofs about map_coordinates_to_jnumbers(): the loop keeps an           *)
(* invariant about the scanned prefix of the coordinates string (IInv of   *)
(* CoordMap), from which MapCorrect follows: a mapping that returns 0 was  *)
(* given a string the spec accepts and filled in exactly the spec's table. *)
(* The counting is done with the cardinality facts of FiniteSetTheorems;   *)
(* no induction over the string is needed because each step of the loop   *)
(* adds one position to the prefix.                                        *)
(***************************************************************************)
EXTENDS CoordMap, FiniteSetTheorems, TLAPS

\* The non-whitespace positions among the first i characters of s.
PrefixLetters(s, i) == {k \in 1 .. i : s[k] \notin Whitespace}

LEMMA PrefixFinite ==
    ASSUME NEW s \in Seq(STRING), NEW i \in Int
    PROVE  /\ IsFiniteSet(PrefixLetters(s, i))
           /\ Rank(s, i) = Cardinality(PrefixLetters(s, i))
           /\ Rank(s, i) \in Nat
<1>1. IsFiniteSet(1 .. i)
  BY FS_Interval
<1>2. IsFiniteSet(PrefixLetters(s, i))
  BY <1>1, FS_Subset DEF PrefixLetters
<1>. QED
  BY <1>2, FS_CardinalityType DEF Rank, PrefixLetters

\* No letter before the string starts.
LEMMA RankZero ==
    ASSUME NEW s \in Seq(STRING)
    PROVE  Rank(s, 0) = 0
<1>1. PrefixLetters(s, 0) = {}
  BY DEF PrefixLetters
<1>. QED
  BY <1>1, FS_EmptySet, PrefixFinite

\* One more character adds one letter, unless it is whitespace.
LEMMA RankStep ==
    ASSUME NEW s \in Seq(STRING), NEW i \in 0 .. Len(s) - 1
    PROVE  Rank(s, i + 1) = IF s[i + 1] \in Whitespace THEN Rank(s, i)
                                                     ELSE Rank(s, i) + 1
<1>1. CASE s[i + 1] \in Whitespace
  <2>1. PrefixLetters(s, i + 1) = PrefixLetters(s, i)
    BY <1>1 DEF PrefixLetters
  <2>. QED
    BY <1>1, <2>1, PrefixFinite
<1>2. CASE s[i + 1] \notin Whitespace
  <2>1. PrefixLetters(s, i + 1) = PrefixLetters(s, i) \cup {i + 1}
    BY <1>2 DEF PrefixLetters
  <2>2. i + 1 \notin PrefixLetters(s, i)
    BY DEF PrefixLetters
  <2>3. IsFiniteSet(PrefixLetters(s, i))
    BY PrefixFinite
  <2>4. Cardinality(PrefixLetters(s, i) \cup {i + 1}) = Cardinality(PrefixLetters(s, i)) + 1
    BY <2>2, <2>3, FS_AddElement
  <2>5. Cardinality(PrefixLetters(s, i + 1)) = Cardinality(PrefixLetters(s, i)) + 1
    BY <2>1, <2>4
  <2>. QED
    BY <1>2, <2>5, PrefixFinite
<1>. QED
  BY <1>1, <1>2

\* A longer prefix has at least as many letters.
LEMMA RankMono ==
    ASSUME NEW s \in Seq(STRING), NEW i \in Int, NEW k \in Int, i <= k
    PROVE  Rank(s, i) <= Rank(s, k)
<1>1. PrefixLetters(s, i) \subseteq PrefixLetters(s, k)
  BY DEF PrefixLetters
<1>. QED
  BY <1>1, PrefixFinite, FS_Subset

\* A letter's rank counts itself.
LEMMA RankOfLetter ==
    ASSUME NEW s \in Seq(STRING), NEW i \in 1 .. Len(s), s[i] \notin Whitespace
    PROVE  Rank(s, i) = Rank(s, i - 1) + 1 /\ Rank(s, i) >= 1
<1>1. Rank(s, i) = Rank(s, i - 1) + 1
  BY RankStep
<1>. QED
  BY <1>1, PrefixFinite

\* The switch on *coords: an axis letter is not whitespace and names an axis.
LEMMA AxisLetterFacts ==
    ASSUME NEW c, IsAxisLetter(c)
    PROVE  c \notin Whitespace /\ AxisOf(c) \in Axes
<1>1. AxisOf(c) \in Axes
  BY Zenon DEF IsAxisLetter, AxisOf
<1>2. PICK a \in Axes : c \in {Upper[a + 1], Lower[a + 1]}
  BY DEF IsAxisLetter
<1>3. a \in {0, 1, 2, 3, 4, 5, 6, 7, 8}
  BY DEF Axes, EMCMOT_MAX_AXIS
<1>4. \A b \in {0, 1, 2, 3, 4, 5, 6, 7, 8} :
         {Upper[b + 1], Lower[b + 1]} \cap Whitespace = {}
  BY DEF Upper, Lower, Whitespace
<1>5. c \notin Whitespace
  BY <1>2, <1>3, <1>4
<1>. QED
  BY <1>1, <1>5

\* The scanned set and the axis positions are the prefix's letters.
LEMMA ScannedFacts ==
    ASSUME TypeOK
    PROVE  /\ coordinates \in Seq(STRING)
           /\ Scanned = PrefixLetters(coordinates, idx - 1)
           /\ Rank(coordinates, idx - 1) = Cardinality(Scanned)
           /\ \A a \in Axes : IsFiniteSet(AxisPos(a)) /\ AxisPos(a) \subseteq Scanned
<1>1. coordinates \in Seq(STRING)
  BY InputsAssumption DEF TypeOK
<1>2. Scanned = PrefixLetters(coordinates, idx - 1)
  BY DEF Scanned, PrefixLetters
<1>3. IsFiniteSet(Scanned) /\ Rank(coordinates, idx - 1) = Cardinality(Scanned)
  BY <1>1, <1>2, PrefixFinite DEF TypeOK
<1>4. ASSUME NEW a \in Axes PROVE AxisPos(a) \subseteq Scanned
  BY DEF AxisPos, Scanned
<1>. QED
  BY <1>1, <1>2, <1>3, <1>4, FS_Subset

LEMMA IInvInit == Init => IInv
<1> SUFFICES ASSUME Init PROVE IInv
  OBVIOUS
<1>1. coordinates \in Seq(STRING)
  BY InputsAssumption DEF Init
<1>2. TypeOK
  <2>1. Len(coordinates) \in Nat
    BY <1>1
  <2>2. idx \in 1 .. Len(coordinates) + 1 /\ jno \in 0 .. idx - 1
    BY <2>1 DEF Init
  <2>3. dups \in [Axes -> Nat]
    BY DEF Init
  <2>4. axis_idx_for_jno \in [Joints -> {Unassigned} \cup Axes]
    BY DEF Init, Axes, EMCMOT_MAX_AXIS
  <2>. QED
    BY <2>2, <2>3, <2>4 DEF Init, TypeOK
<1>3. \A a \in Axes : AxisPos(a) = {}
  BY DEF Init, AxisPos
<1>4. \A a \in Axes : dups[a] = Cardinality(AxisPos(a))
  BY <1>3, FS_EmptySet DEF Init
<1>. QED
  BY <1>2, <1>4 DEF Init, IInv, Alive

-----------------------------------------------------------------------------
\* One lemma per action of the loop: each keeps IInv.

LEMMA BogusStep ==
    ASSUME IInv, BogusMaxJoints PROVE IInv'
<1>1. TypeOK'
  BY DEF IInv, TypeOK, BogusMaxJoints, Return
<1>2. \A a \in Axes : AxisPos(a)' = AxisPos(a)
  BY DEF BogusMaxJoints, AxisPos
<1>. QED
  BY <1>1, <1>2 DEF IInv, BogusMaxJoints, Return, Alive

LEMMA InitTableStep ==
    ASSUME IInv, InitTable PROVE IInv'
<1>1. idx = 1 /\ jno = 0 /\ found = 0 /\ coordinates \in Seq(STRING)
  BY ScannedFacts DEF IInv, InitTable
<1>2. TypeOK'
  BY <1>1 DEF IInv, TypeOK, InitTable, Axes, EMCMOT_MAX_AXIS
<1>3. \A a \in Axes : AxisPos(a)' = AxisPos(a)
  BY DEF InitTable, AxisPos
<1>4. Rank(coordinates', idx' - 1) = 0
  <2>1. coordinates' = coordinates /\ idx' = 1
    BY <1>1 DEF InitTable
  <2>. QED
    BY <1>1, <2>1, RankZero
<1>5. Scanned' = {}
  BY <1>1 DEF InitTable, Scanned
<1>6. \A a \in Axes : dups'[a] = Cardinality(AxisPos(a)')
  BY <1>3 DEF IInv, InitTable
<1>7. /\ 0 < max_joints' /\ max_joints' <= EMCMOT_MAX_JOINTS
      /\ jno' = Rank(coordinates', idx' - 1) /\ jno' <= max_joints'
  <2>1. max_joints' = max_joints /\ jno' = 0
    BY <1>1 DEF InitTable
  <2>2. 0 < max_joints /\ max_joints <= EMCMOT_MAX_JOINTS /\ max_joints \in Int
    BY MaxJointsArgsAssumption DEF InitTable, IInv, TypeOK
  <2>3. jno' = Rank(coordinates', idx' - 1)
    BY <1>4, <2>1
  <2>4. 0 < max_joints' /\ max_joints' <= EMCMOT_MAX_JOINTS /\ jno' <= max_joints'
    BY <2>1, <2>2
  <2>. QED
    BY <2>3, <2>4
<1>8. \A j \in Joints : j >= jno' => axis_idx_for_jno'[j] = Unassigned
  BY DEF InitTable
<1>9. /\ found' = 0 /\ pc' = "loop" /\ jno' = 0
  BY <1>1 DEF InitTable
<1>. QED
  BY <1>2, <1>5, <1>6, <1>7, <1>8, <1>9 DEF IInv, Alive
\* A letter: it is stored at its rank, dups of its axis grows by one, and
\* the scan ends with -1 if it was one letter too many.
LEMMA ScanLetterStep ==
    ASSUME IInv, ScanLetter PROVE IInv'
<1> DEFINE a == AxisOf(coordinates[idx])
<1>1. /\ coordinates \in Seq(STRING) /\ idx \in 1 .. Len(coordinates)
      /\ IsAxisLetter(coordinates[idx]) /\ coordinates[idx] \notin Whitespace
      /\ a \in Axes /\ pc = "loop" /\ jno \in Nat /\ max_joints \in Int
      /\ 0 < max_joints /\ max_joints <= EMCMOT_MAX_JOINTS
      /\ jno = Rank(coordinates, idx - 1) /\ jno <= max_joints
      /\ EMCMOT_MAX_JOINTS \in Nat
  <2>1. TypeOK /\ pc = "loop" /\ idx <= Len(coordinates) /\ IsAxisLetter(coordinates[idx])
    BY DEF IInv, ScanLetter
  <2>2. coordinates \in Seq(STRING) /\ max_joints \in Int
    BY <2>1, ScannedFacts, MaxJointsArgsAssumption DEF TypeOK
  <2>3. coordinates[idx] \notin Whitespace /\ a \in Axes
    BY <2>1, AxisLetterFacts
  <2>. QED
    BY <2>1, <2>2, <2>3, MaxJointsAssumption DEF IInv, Alive, TypeOK
<1>2. Rank(coordinates, idx) = jno + 1
  BY <1>1, RankOfLetter
<1>3. /\ coordinates' = coordinates /\ idx' = idx + 1 /\ jno' = jno + 1
      /\ found' = 1 /\ dups' = [dups EXCEPT ![a] = @ + 1]
      /\ max_joints' = max_joints /\ allow_duplicates' = allow_duplicates
  BY DEF ScanLetter, NextChar
<1>4. Scanned' = Scanned \cup {idx}
  BY <1>1, <1>3 DEF Scanned
<1>5. \A b \in Axes : dups'[b] = Cardinality(AxisPos(b)')
  <2>1. SUFFICES ASSUME NEW b \in Axes PROVE dups'[b] = Cardinality(AxisPos(b)')
    OBVIOUS
  <2>2. IsFiniteSet(AxisPos(b)) /\ dups[b] = Cardinality(AxisPos(b))
        /\ dups \in [Axes -> Nat]
    BY ScannedFacts DEF IInv, TypeOK
  <2>3. CASE b = a
    <3>1. AxisPos(b)' = AxisPos(b) \cup {idx}
      BY <1>1, <1>3, <2>3 DEF AxisPos
    <3>2. idx \notin AxisPos(b)
      BY DEF AxisPos
    <3>3. Cardinality(AxisPos(b) \cup {idx}) = Cardinality(AxisPos(b)) + 1
      BY <2>2, <3>2, FS_AddElement
    <3>. QED
      BY <1>1, <1>3, <2>2, <2>3, <3>1, <3>3
  <2>4. CASE b # a
    <3>1. AxisPos(b)' = AxisPos(b)
      BY <1>1, <1>3, <2>4 DEF AxisPos
    <3>. QED
      BY <1>3, <2>2, <2>4, <3>1
  <2>. QED
    BY <2>3, <2>4
<1>6. /\ jno \in Joints => axis_idx_for_jno' = [axis_idx_for_jno EXCEPT ![jno] = a]
      /\ jno \notin Joints => axis_idx_for_jno' = axis_idx_for_jno
  BY DEF ScanLetter
<1>7. /\ jno + 1 > max_joints => pc' = "done" /\ ret' = -1
      /\ jno + 1 <= max_joints => pc' = pc /\ ret' = ret
  BY <1>1 DEF ScanLetter, Return
<1>8. TypeOK'
  <2>1. idx' \in 1 .. Len(coordinates') + 1 /\ jno' \in 0 .. idx' - 1
    BY <1>1, <1>3 DEF IInv, TypeOK
  <2>2. dups' \in [Axes -> Nat]
    BY <1>1, <1>3 DEF IInv, TypeOK
  <2>3. axis_idx_for_jno' \in [Joints -> {Unassigned} \cup Axes]
    BY <1>1, <1>6 DEF IInv, TypeOK
  <2>4. pc' \in {"start", "loop", "check", "done"} /\ ret' \in {0, -1}
    BY <1>1, <1>7 DEF IInv, TypeOK
  <2>5. oob' \in BOOLEAN
    BY DEF ScanLetter, IInv, TypeOK
  <2>. QED
    BY <1>3, <2>1, <2>2, <2>3, <2>4, <2>5 DEF IInv, TypeOK
<1>9. CASE jno + 1 > max_joints
  BY <1>1, <1>5, <1>7, <1>8, <1>9 DEF IInv, Alive
<1>10. CASE jno + 1 <= max_joints
  <2>1. jno \in Joints /\ pc' = "loop"
    BY <1>1, <1>7, <1>10 DEF Joints
  <2>2. axis_idx_for_jno' = [axis_idx_for_jno EXCEPT ![jno] = a]
    BY <1>6, <2>1
  <2>3. jno' = Rank(coordinates', idx' - 1) /\ jno' <= max_joints'
    BY <1>1, <1>2, <1>3, <1>10
  <2>4. \A i \in Scanned' :
           /\ IsAxisLetter(coordinates'[i])
           /\ axis_idx_for_jno'[Rank(coordinates', i) - 1] = AxisOf(coordinates'[i])
    <3>1. SUFFICES ASSUME NEW i \in Scanned'
                   PROVE  /\ IsAxisLetter(coordinates[i])
                          /\ axis_idx_for_jno'[Rank(coordinates, i) - 1] = AxisOf(coordinates[i])
      BY <1>3
    <3>2. CASE i = idx
      BY <1>1, <1>2, <2>1, <2>2, <3>2 DEF IInv, TypeOK
    <3>3. CASE i \in Scanned
      <4>1. i \in 1 .. idx - 1 /\ coordinates[i] \notin Whitespace
        BY <3>3 DEF Scanned
      <4>2. /\ Rank(coordinates, i) >= 1 /\ Rank(coordinates, i) <= jno
            /\ Rank(coordinates, i) \in Nat
        <5>1. i \in 1 .. Len(coordinates) /\ i \in Int /\ idx - 1 \in Int /\ i <= idx - 1
          BY <1>1, <4>1
        <5>2. Rank(coordinates, i) >= 1
          BY <1>1, <4>1, <5>1, RankOfLetter
        <5>3. Rank(coordinates, i) <= Rank(coordinates, idx - 1)
          BY <1>1, <5>1, RankMono
        <5>4. Rank(coordinates, i) \in Nat
          BY <1>1, <5>1, PrefixFinite
        <5>. QED
          BY <1>1, <5>2, <5>3, <5>4
      <4>3. Rank(coordinates, i) - 1 \in Joints /\ Rank(coordinates, i) - 1 # jno
        BY <1>1, <2>1, <4>2, <1>10 DEF Joints
      <4>4. /\ IsAxisLetter(coordinates[i])
            /\ axis_idx_for_jno[Rank(coordinates, i) - 1] = AxisOf(coordinates[i])
        BY <1>1, <3>3 DEF IInv, Alive
      <4>. QED
        BY <2>2, <4>3, <4>4
    <3>. QED
      BY <1>4, <3>2, <3>3
  <2>5. \A j \in 0 .. jno' - 1 : \E i \in Scanned' : Rank(coordinates', i) = j + 1
    <3>1. SUFFICES ASSUME NEW j \in 0 .. jno
                   PROVE  \E i \in Scanned' : Rank(coordinates, i) = j + 1
      BY <1>1, <1>3
    <3>2. CASE j = jno
      BY <1>2, <1>4, <3>2
    <3>3. CASE j < jno
      <4>1. \E i \in Scanned : Rank(coordinates, i) = j + 1
        BY <1>1, <3>3 DEF IInv, Alive
      <4>. QED
        BY <1>4, <4>1
    <3>. QED
      BY <1>1, <3>2, <3>3
  <2>6. \A j \in Joints : j >= jno' => axis_idx_for_jno'[j] = Unassigned
    BY <1>1, <1>3, <2>2 DEF IInv, Alive, Joints
  <2>7. found' = 1 => idx' > 1 /\ coordinates'[idx' - 1] \notin Whitespace
    BY <1>1, <1>3
  <2>. QED
    BY <1>1, <1>3, <1>5, <1>8, <2>1, <2>3, <2>4, <2>5, <2>6, <2>7 DEF IInv, Alive
<1>. QED
  BY <1>9, <1>10, <1>1

\* Whitespace is skipped: the prefix grows by a position that is no letter.
LEMMA ScanWhitespaceStep ==
    ASSUME IInv, ScanWhitespace PROVE IInv'
<1>1. /\ coordinates \in Seq(STRING) /\ idx \in 1 .. Len(coordinates)
      /\ coordinates[idx] \in Whitespace /\ pc = "loop"
  BY ScannedFacts DEF IInv, ScanWhitespace, TypeOK
<1>2. /\ coordinates' = coordinates /\ idx' = idx + 1 /\ found' = 0
      /\ UNCHANGED <<max_joints, allow_duplicates, jno, dups, axis_idx_for_jno, pc, ret, oob>>
  BY DEF ScanWhitespace, NextChar
<1>3. Rank(coordinates, idx) = Rank(coordinates, idx - 1)
  BY <1>1, RankStep
<1>4. Scanned' = Scanned /\ \A a \in Axes : AxisPos(a)' = AxisPos(a)
  BY <1>1, <1>2 DEF Scanned, AxisPos
<1>5. TypeOK'
  BY <1>1, <1>2 DEF IInv, TypeOK
<1>. QED
  BY <1>1, <1>2, <1>3, <1>4, <1>5 DEF IInv, Alive

\* An invalid character ends the scan with -1.
LEMMA ScanInvalidStep ==
    ASSUME IInv, ScanInvalid PROVE IInv'
<1>1. TypeOK'
  BY DEF IInv, TypeOK, ScanInvalid, Return
<1>2. \A a \in Axes : AxisPos(a)' = AxisPos(a)
  BY DEF ScanInvalid, AxisPos
<1>. QED
  BY <1>1, <1>2 DEF IInv, ScanInvalid, Return, Alive

\* The terminating NUL: the whole string has been scanned.
LEMMA LoopEndStep ==
    ASSUME IInv, LoopEnd PROVE IInv'
<1>1. idx = Len(coordinates) + 1
  BY DEF IInv, TypeOK, LoopEnd
<1>2. Scanned' = Scanned /\ \A a \in Axes : AxisPos(a)' = AxisPos(a)
  BY DEF LoopEnd, Scanned, AxisPos
<1>3. TypeOK'
  BY DEF IInv, TypeOK, LoopEnd
<1>. QED
  BY <1>1, <1>2, <1>3 DEF IInv, LoopEnd, Alive

\* The checks after the loop: 0 only with a final letter and no forbidden
\* duplicate.
LEMMA CheckResultStep ==
    ASSUME IInv, CheckResult PROVE IInv'
<1>1. /\ pc' = "done"
      /\ ret' = IF found = 0 \/ DuplicateRejected THEN -1 ELSE 0
      /\ UNCHANGED <<coordinates, max_joints, allow_duplicates, idx, jno, found,
                     dups, axis_idx_for_jno, oob>>
  BY DEF CheckResult, Return
<1>2. Scanned' = Scanned /\ \A a \in Axes : AxisPos(a)' = AxisPos(a)
  BY <1>1 DEF Scanned, AxisPos
<1>3. TypeOK'
  BY <1>1 DEF IInv, TypeOK
<1>4. DuplicateRejected' = DuplicateRejected
  BY <1>1 DEF DuplicateRejected
<1>5. ret' = 0 => found = 1 /\ ~DuplicateRejected
  BY <1>1 DEF IInv, TypeOK
<1>. QED
  BY <1>1, <1>2, <1>3, <1>4, <1>5 DEF IInv, CheckResult, Alive

LEMMA IInvStep == IInv /\ [Next]_vars => IInv'
<1> SUFFICES ASSUME IInv, [Next]_vars PROVE IInv'
  OBVIOUS
<1>1. CASE UNCHANGED vars
  <2>1. Scanned' = Scanned /\ \A a \in Axes : AxisPos(a)' = AxisPos(a)
    BY <1>1 DEF vars, Scanned, AxisPos
  <2>. QED
    BY <1>1, <2>1 DEF vars, IInv, TypeOK, Alive, DuplicateRejected
<1>. QED
  BY <1>1, BogusStep, InitTableStep, ScanLetterStep, ScanWhitespaceStep,
     ScanInvalidStep, LoopEndStep, CheckResultStep DEF Next

\* IInv holds in every state of map_coordinates_to_jnumbers(), for every
\* table size, every set of strings and every set of max_joints arguments.
THEOREM IInvariant == Spec => []IInv
BY IInvInit, IInvStep, PTL DEF Spec

\* Every variable of map_coordinates_to_jnumbers() keeps the range of its C
\* declaration: the scan pointer stays within the string and its NUL, jno
\* never passes it, and the table holds axis numbers or -1.
THEOREM TypeCorrect == Spec => []TypeOK
<1>1. IInv => TypeOK
  BY DEF IInv
<1>. QED
  BY <1>1, IInvariant, PTL

\* At a return of 0 the scanned prefix is the whole string.
LEMMA IInvMapCorrect == IInv => MapCorrect
<1> SUFFICES ASSUME IInv, pc = "done", ret = 0
             PROVE  /\ SpecAccepts(coordinates, max_joints, allow_duplicates)
                    /\ axis_idx_for_jno = SpecTable(coordinates)
  BY DEF MapCorrect
<1>1. /\ TypeOK /\ coordinates \in Seq(STRING) /\ max_joints \in Int
      /\ idx = Len(coordinates) + 1 /\ found = 1 /\ ~DuplicateRejected
      /\ 0 < max_joints /\ max_joints <= EMCMOT_MAX_JOINTS
      /\ jno = Rank(coordinates, idx - 1) /\ jno <= max_joints
  BY ScannedFacts, MaxJointsArgsAssumption DEF IInv, Alive, TypeOK
<1>2. Scanned = LetterPos(coordinates)
  BY <1>1 DEF Scanned, LetterPos
<1>3. IsFiniteSet(LetterPos(coordinates)) /\ Cardinality(LetterPos(coordinates)) = jno
  BY <1>1, <1>2, ScannedFacts, PrefixFinite
<1>4. Len(coordinates) \in LetterPos(coordinates)
  BY <1>1 DEF IInv, Alive, LetterPos
<1>5. 1 <= Cardinality(LetterPos(coordinates))
  <2>1. Cardinality({Len(coordinates)}) = 1
    BY FS_Singleton
  <2>. QED
    BY <1>3, <1>4, <2>1, FS_Subset
<1>6. \A i \in LetterPos(coordinates) :
         /\ IsAxisLetter(coordinates[i])
         /\ axis_idx_for_jno[Rank(coordinates, i) - 1] = AxisOf(coordinates[i])
  BY <1>2 DEF IInv, Alive
<1>7. allow_duplicates = 0 =>
         \A i, k \in LetterPos(coordinates) :
            i # k => AxisOf(coordinates[i]) # AxisOf(coordinates[k])
  <2>1. SUFFICES ASSUME allow_duplicates = 0,
                        NEW i \in LetterPos(coordinates), NEW k \in LetterPos(coordinates),
                        i # k, AxisOf(coordinates[i]) = AxisOf(coordinates[k])
                 PROVE  FALSE
    OBVIOUS
  <2> DEFINE a == AxisOf(coordinates[i])
  <2>2. a \in Axes
    BY <1>6, AxisLetterFacts
  <2>3. {i, k} \subseteq AxisPos(a)
    BY <1>1, <2>1 DEF AxisPos, LetterPos
  <2>4. Cardinality({i, k}) = 2
    <3>1. IsFiniteSet({i}) /\ Cardinality({i}) = 1
      BY FS_Singleton
    <3>2. {i, k} = {i} \cup {k} /\ k \notin {i}
      BY <2>1
    <3>. QED
      BY <3>1, <3>2, FS_AddElement
  <2>5. Cardinality(AxisPos(a)) >= 2
    BY <1>1, <2>2, <2>3, <2>4, ScannedFacts, FS_Subset
  <2>6. dups[a] = Cardinality(AxisPos(a))
    BY <2>2 DEF IInv
  <2>7. Cardinality(AxisPos(a)) \in Nat
    BY <1>1, <2>2, ScannedFacts, FS_CardinalityType
  <2>8. dups[a] > 1
    BY <2>5, <2>6, <2>7
  <2>. QED
    BY <1>1, <2>1, <2>2, <2>8 DEF DuplicateRejected
<1>8. SpecAccepts(coordinates, max_joints, allow_duplicates)
  BY <1>1, <1>3, <1>5, <1>6, <1>7 DEF SpecAccepts
<1>9. ASSUME NEW j \in Joints
      PROVE  axis_idx_for_jno[j] = SpecTable(coordinates)[j]
  <2>1. CASE j < jno
    <3>0. j \in 0 .. jno - 1
      BY <1>1, <2>1 DEF TypeOK, Joints
    <3>1. \E i \in LetterPos(coordinates) : Rank(coordinates, i) = j + 1
      BY <1>2, <3>0 DEF IInv, Alive
    <3> DEFINE c == CHOOSE i \in LetterPos(coordinates) : Rank(coordinates, i) = j + 1
    <3>2. c \in LetterPos(coordinates) /\ Rank(coordinates, c) = j + 1
      BY <3>1
    <3>3. axis_idx_for_jno[Rank(coordinates, c) - 1] = AxisOf(coordinates[c])
      BY <1>6, <3>2
    <3>4. axis_idx_for_jno[j] = AxisOf(coordinates[c])
      BY <3>2, <3>3 DEF Joints
    <3>. QED
      BY <3>1, <3>4 DEF SpecTable
  <2>5. CASE j >= jno
    <3>1. ~\E i \in LetterPos(coordinates) : Rank(coordinates, i) = j + 1
      <4>1. SUFFICES ASSUME NEW i \in LetterPos(coordinates),
                            Rank(coordinates, i) = j + 1
                     PROVE  FALSE
        OBVIOUS
      <4>2. Rank(coordinates, i) <= Rank(coordinates, Len(coordinates))
        BY <1>1, RankMono DEF LetterPos
      <4>3. jno = Rank(coordinates, Len(coordinates)) /\ jno \in Int
        BY <1>1 DEF TypeOK
      <4>. QED
        BY <4>1, <4>2, <4>3, <2>5 DEF Joints
    <3>2. axis_idx_for_jno[j] = Unassigned
      BY <2>5 DEF IInv, Alive
    <3>. QED
      BY <3>1, <3>2 DEF SpecTable
  <2>. QED
    BY <2>1, <2>5, <1>1 DEF TypeOK, Joints
<1>10. axis_idx_for_jno = SpecTable(coordinates)
  BY <1>1, <1>9 DEF TypeOK, SpecTable
<1>. QED
  BY <1>8, <1>10

\* MapCorrect (spec 4.1): whenever map_coordinates_to_jnumbers() returns
\* 0, the string is one the spec accepts and axis_idx_for_jno[] is the
\* spec's table -- for every table size EMCMOT_MAX_JOINTS, every string
\* and every max_joints.
THEOREM MapCorrectHolds == Spec => []MapCorrect
BY IInvariant, IInvMapCorrect, PTL
=============================================================================
