------------------------------ MODULE FfsCheck ------------------------------
(***************************************************************************)
(* Checks ffs against its reference definition on every word a caller may  *)
(* pass: 0, -1, and every int with one or two bits set, under either       *)
(* implementation of >> on negative ints.                                  *)
(***************************************************************************)
EXTENDS Ffs

VARIABLES word, mode

Words == {0, -1} \cup UNION {{BitValue(a) + BitValue(b) : b \in (a + 1)..31} : a \in 0..31}
                 \cup {BitValue(a) : a \in 0..31}

Init == word \in Words /\ mode \in ShiftModes

\* Successive calls of ffs with any word; the shift mode is fixed by the
\* build.
Call == \E w \in Words : word' = w /\ UNCHANGED mode

Next == Call

Spec == Init /\ [][Next]_<<word, mode>>

\* ffs agrees with the reference definition: 0 iff the word is 0, else
\* 1 + the index of the lowest set bit (spec 4.2, 8.6), whichever way the
\* compiler implements >> on a negative int (bit 31 set).
FfsMatchesReference == ffs(word, mode) = FfsReference(word)

=============================================================================
