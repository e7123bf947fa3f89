------------------------------ MODULE CoordMap ------------------------------
(***************************************************************************)
(* map_coordinates_to_jnumbers() of kins_util.c, one loop iteration per    *)
(* step: the coordinates string is scanned with the pointer coords (here   *)
(* the index idx), every axis letter is given the next joint number jno,   *)
(* whitespace is skipped, and after the loop the letter count and the      *)
(* duplicate counters dups[] are checked.  The arguments (coordinates,     *)
(* max_joints, allow_duplicates) are chosen in Init from small sets.       *)
(* Characters are one-character strings; the error messages are left out, *)
(* only the return value and the result table are kept.                    *)
(***************************************************************************)
EXTENDS Integers, Sequences, FiniteSets

CONSTANTS
    EMCMOT_MAX_JOINTS,  \* entries of the caller's axis_idx_for_jno[] array
    Inputs,             \* the coordinates strings a module may be loaded with
    MaxJointsArgs       \* the max_joints arguments the callers pass

ASSUME MaxJointsAssumption == EMCMOT_MAX_JOINTS \in Nat \ {0}
ASSUME MaxJointsArgsAssumption == MaxJointsArgs \subseteq Int
ASSUME InputsAssumption == Inputs \subseteq Seq(STRING)

\* EMCMOT_MAX_AXIS: X Y Z A B C U V W.
EMCMOT_MAX_AXIS == 9
Axes == 0 .. EMCMOT_MAX_AXIS - 1
Joints == 0 .. EMCMOT_MAX_JOINTS - 1
Unassigned == -1

\* The switch on *coords: the upper- and lower-case letter of axis a.
Upper == <<"X", "Y", "Z", "A", "B", "C", "U", "V", "W">>
Lower == <<"x", "y", "z", "a", "b", "c", "u", "v", "w">>
IsAxisLetter(c) == \E a \in Axes : c \in {Upper[a + 1], Lower[a + 1]}
AxisOf(c) == CHOOSE a \in Axes : c \in {Upper[a + 1], Lower[a + 1]}
Whitespace == {" ", "\t"}

VARIABLES
    coordinates, max_joints, allow_duplicates,  \* the arguments
    idx,               \* coords: index of the next character of coordinates
    jno,               \* next joint number to assign
    found,             \* whether the last character scanned was a letter
    dups,              \* dups[EMCMOT_MAX_AXIS]: how often each axis was named
    axis_idx_for_jno,  \* the result table
    pc,                \* "start", "loop", "check" or "done"
    ret,               \* the return value once pc = "done"
    oob                \* a letter was stored past axis_idx_for_jno[]

vars == <<coordinates, max_joints, allow_duplicates, idx, jno, found, dups,
          axis_idx_for_jno, pc, ret, oob>>

Init ==
    /\ coordinates \in Inputs
    /\ max_joints \in MaxJointsArgs
    /\ allow_duplicates \in {0, 1}
    /\ idx = 1
    /\ jno = 0
    /\ found = 0
    /\ dups = [a \in Axes |-> 0]
    /\ axis_idx_for_jno = [j \in Joints |-> 0]   \* a static, zeroed array
    /\ pc = "start"
    /\ ret = 0
    /\ oob = FALSE

\* Fault variants (for the checks) of coords++ and of the duplicate check.
NextCharTwice(i) == i + 2
NextCharStuck(i) == i
DuplicateNeverRejected == FALSE

\* coords++: the pointer moves to the next character.
NextChar(i) == i + 1

\* The check after the loop: some axis counted twice while duplicates are
\* not allowed.
DuplicateRejected == allow_duplicates = 0 /\ \E a \in Axes : dups[a] > 1

Return(r) == /\ ret' = r
             /\ pc' = "done"

\* The range check on max_joints: bogus values are rejected at once.
BogusMaxJoints ==
    /\ pc = "start"
    /\ max_joints <= 0 \/ max_joints > EMCMOT_MAX_JOINTS
    /\ Return(-1)
    /\ UNCHANGED <<coordinates, max_joints, allow_duplicates, idx, jno, found,
                   dups, axis_idx_for_jno, oob>>

\* Every entry of the table is set to -1 (unspecified) before the scan.
InitTable ==
    /\ pc = "start"
    /\ 0 < max_joints /\ max_joints <= EMCMOT_MAX_JOINTS
    /\ axis_idx_for_jno' = [j \in Joints |-> Unassigned]
    /\ pc' = "loop"
    /\ UNCHANGED <<coordinates, max_joints, allow_duplicates, idx, jno, found,
                   dups, ret, oob>>

\* A letter: axis_idx_for_jno[jno] is written before jno is compared with
\* max_joints, so the letter after the last allowed one is stored at index
\* max_joints, past the array when max_joints = EMCMOT_MAX_JOINTS.
ScanLetter ==
    /\ pc = "loop"
    /\ idx <= Len(coordinates)
    /\ IsAxisLetter(coordinates[idx])
    /\ LET a == AxisOf(coordinates[idx]) IN
       /\ IF jno \in Joints
             THEN /\ axis_idx_for_jno' = [axis_idx_for_jno EXCEPT ![jno] = a]
                  /\ oob' = oob
             ELSE /\ axis_idx_for_jno' = axis_idx_for_jno
                  /\ oob' = TRUE
       /\ dups' = [dups EXCEPT ![a] = @ + 1]
       /\ found' = 1
       /\ idx' = NextChar(idx)
       /\ jno' = jno + 1
       /\ IF jno + 1 > max_joints
             THEN Return(-1)
             ELSE UNCHANGED <<pc, ret>>
       /\ UNCHANGED <<coordinates, max_joints, allow_duplicates>>

\* Whitespace: found is reset at the top of the iteration, then the
\* character is skipped with continue.
ScanWhitespace ==
    /\ pc = "loop"
    /\ idx <= Len(coordinates)
    /\ coordinates[idx] \in Whitespace
    /\ found' = 0
    /\ idx' = NextChar(idx)
    /\ UNCHANGED <<coordinates, max_joints, allow_duplicates, jno, dups,
                   axis_idx_for_jno, pc, ret, oob>>

\* Any other character: invalid, the mapping fails.
ScanInvalid ==
    /\ pc = "loop"
    /\ idx <= Len(coordinates)
    /\ ~IsAxisLetter(coordinates[idx])
    /\ coordinates[idx] \notin Whitespace
    /\ found' = 0
    /\ Return(-1)
    /\ UNCHANGED <<coordinates, max_joints, allow_duplicates, idx, jno, dups,
                   axis_idx_for_jno, oob>>

\* The terminating NUL ends the while loop.
LoopEnd ==
    /\ pc = "loop"
    /\ idx > Len(coordinates)
    /\ pc' = "check"
    /\ UNCHANGED <<coordinates, max_joints, allow_duplicates, idx, jno, found,
                   dups, axis_idx_for_jno, ret, oob>>

\* After the loop: fail if the last character scanned was not a letter
\* (missing coordinates), or on a duplicate letter when they are not allowed.
CheckResult ==
    /\ pc = "check"
    /\ IF found = 0 \/ DuplicateRejected
          THEN Return(-1)
          ELSE Return(0)
    /\ UNCHANGED <<coordinates, max_joints, allow_duplicates, idx, jno, found,
                   dups, axis_idx_for_jno, oob>>

Next ==
    \/ BogusMaxJoints
    \/ InitTable
    \/ ScanLetter
    \/ ScanWhitespace
    \/ ScanInvalid
    \/ LoopEnd
    \/ CheckResult

\* The function runs to completion once called.
Spec == Init /\ [][Next]_vars /\ WF_vars(Next)

-----------------------------------------------------------------------------
(***************************************************************************)
(* The mapping the spec (4.1) describes: the non-whitespace characters of  *)
(* the string, in order, give joints 0, 1, ...; the string is accepted iff *)
(* every such character is an axis letter, there is at least one and at    *)
(* most max_joints of them, and no axis is named twice unless duplicates   *)
(* are allowed.  "In order" is stated by counting: the character at        *)
(* position i is the Rank(s, i)-th non-whitespace one.  MCCoordMap checks  *)
(* that SpecTable agrees with the letter sequence SelectSeq gives.         *)
(***************************************************************************)
LetterPos(s) == {i \in 1 .. Len(s) : s[i] \notin Whitespace}
Rank(s, i) == Cardinality({k \in 1 .. i : s[k] \notin Whitespace})

SpecAccepts(s, mj, ad) ==
    /\ 0 < mj /\ mj <= EMCMOT_MAX_JOINTS
    /\ \A i \in LetterPos(s) : IsAxisLetter(s[i])
    /\ 1 <= Cardinality(LetterPos(s)) /\ Cardinality(LetterPos(s)) <= mj
    /\ ad = 0 => \A i, k \in LetterPos(s) :
                     i # k => AxisOf(s[i]) # AxisOf(s[k])

SpecTable(s) ==
    [j \in Joints |->
        IF \E i \in LetterPos(s) : Rank(s, i) = j + 1
           THEN AxisOf(s[CHOOSE i \in LetterPos(s) : Rank(s, i) = j + 1])
           ELSE Unassigned]

\* Every variable keeps the range of its C declaration.
TypeOK ==
    /\ coordinates \in Inputs
    /\ max_joints \in MaxJointsArgs
    /\ allow_duplicates \in {0, 1}
    /\ idx \in 1 .. Len(coordinates) + 1
    /\ jno \in 0 .. idx - 1
    /\ found \in {0, 1}
    /\ dups \in [Axes -> Nat]
    /\ axis_idx_for_jno \in [Joints -> {Unassigned} \cup Axes]
    /\ pc \in {"start", "loop", "check", "done"}
    /\ ret \in {0, -1}
    /\ oob \in BOOLEAN

\* map_coordinates_to_jnumbers() succeeds only on a string the spec
\* accepts, and then fills axis_idx_for_jno[] with exactly the spec's table.
MapCorrect ==
    (pc = "done" /\ ret = 0)
        => /\ SpecAccepts(coordinates, max_joints, allow_duplicates)
           /\ axis_idx_for_jno = SpecTable(coordinates)

\* map_coordinates_to_jnumbers() accepts every string the spec accepts
\* (whitespace is skipped wherever it stands).
MapComplete ==
    (pc = "done" /\ SpecAccepts(coordinates, max_joints, allow_duplicates))
        => ret = 0

\* The scan never stores a letter outside axis_idx_for_jno[].
NoOutOfBoundsWrite == ~oob

\* The loop over the string always ends and the function returns.
Termination == <>(pc = "done")

-----------------------------------------------------------------------------
(***************************************************************************)
(* The inductive invariant the proof of MapCorrect rests on, stated about  *)
(* the prefix scanned so far (positions 1 .. idx-1): dups[a] counts its    *)
(* letters of axis a; and while the scan is alive (or ended with 0),       *)
(* max_joints passed the range check, jno is the number of letters of the  *)
(* prefix, each of them is an axis letter stored at its rank, every joint  *)
(* below jno is the rank of one of them, the entries from jno on are -1,   *)
(* and found says the last scanned character was a letter.                *)
(***************************************************************************)
AxisPos(a) == {i \in 1 .. idx - 1 : coordinates[i] \notin Whitespace
                                    /\ AxisOf(coordinates[i]) = a}
Scanned == {i \in 1 .. idx - 1 : coordinates[i] \notin Whitespace}

Alive == pc \in {"loop", "check"} \/ (pc = "done" /\ ret = 0)

IInv ==
    /\ TypeOK
    /\ pc = "start" => idx = 1 /\ jno = 0 /\ found = 0
    /\ \A a \in Axes : dups[a] = Cardinality(AxisPos(a))
    /\ Alive =>
          /\ 0 < max_joints /\ max_joints <= EMCMOT_MAX_JOINTS
          /\ jno = Rank(coordinates, idx - 1) /\ jno <= max_joints
          /\ \A i \in Scanned :
                /\ IsAxisLetter(coordinates[i])
                /\ axis_idx_for_jno[Rank(coordinates, i) - 1] = AxisOf(coordinates[i])
          /\ \A j \in 0 .. jno - 1 : \E i \in Scanned : Rank(coordinates, i) = j + 1
          /\ \A j \in Joints : j >= jno => axis_idx_for_jno[j] = Unassigned
          /\ found = 1 => idx > 1 /\ coordinates[idx - 1] \notin Whitespace
          /\ pc # "loop" => idx = Len(coordinates) + 1
          /\ pc = "done" => found = 1 /\ ~DuplicateRejected
=============================================================================
