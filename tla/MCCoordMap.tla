------------------------------ MODULE MCCoordMap ------------------------------
(***************************************************************************)
(* Model-checking instance of CoordMap: a table of 3 joints, every string  *)
(* of up to 4 characters over an upper- and a lower-case letter of one     *)
(* axis, a second axis letter, a blank and an invalid digit, and max_joints *)
(* out of range on both sides, below the table size and equal to it.       *)
(***************************************************************************)
EXTENDS CoordMap

MCMaxJoints == 3
MCChars == {"X", "x", "Z", " ", "1"}
MCInputs == UNION {[1 .. n -> MCChars] : n \in 0 .. 4}
MCMaxJointsArgs == {0, 2, 3, 4}

\* The reference definition of spec 4.1: the letter sequence is the string
\* with its whitespace filtered out, and joint j is its (j+1)-th element.
Letters(s) == SelectSeq(s, LAMBDA c : c \notin Whitespace)
RefAccepts(s, mj, ad) ==
    LET l == Letters(s) IN
    /\ 0 < mj /\ mj <= EMCMOT_MAX_JOINTS
    /\ \A i \in 1 .. Len(l) : IsAxisLetter(l[i])
    /\ 1 <= Len(l) /\ Len(l) <= mj
    /\ ad = 0 => \A i, j \in 1 .. Len(l) :
                     i # j => AxisOf(l[i]) # AxisOf(l[j])
RefTable(s) ==
    LET l == Letters(s) IN
    [j \in Joints |-> IF j < Len(l) THEN AxisOf(l[j + 1]) ELSE Unassigned]

\* The counting definitions of CoordMap agree with the reference on every
\* input of the runs (the table on every string made of letters and
\* whitespace, where AxisOf is defined).
ASSUME SpecMatchesReference ==
    \A s \in MCInputs :
        /\ (\A i \in LetterPos(s) : IsAxisLetter(s[i]))
              => SpecTable(s) = RefTable(s)
        /\ \A mj \in MCMaxJointsArgs, ad \in {0, 1} :
              SpecAccepts(s, mj, ad) = RefAccepts(s, mj, ad)
=============================================================================
