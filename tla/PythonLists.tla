----------------------------- MODULE PythonLists ----------------------------
(* Lists of Python. *)
EXTENDS Integers, SequencesExt

\* [x for x in list if x not in gone]: what is left, in its order. By a
\* recursive function, since SelectSeq cannot be reasoned about.
Without(list, gone) ==
  LET Kept[i \in 0..Len(list)] ==
        IF i = 0 THEN <<>>
        ELSE IF list[i] \in gone THEN Kept[i - 1] ELSE Append(Kept[i - 1], list[i])
  IN  Kept[Len(list)]
=============================================================================
