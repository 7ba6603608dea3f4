------------------------------- MODULE Lists -------------------------------
(***************************************************************************)
(* The loops over vectors and lists that the solver is built from.         *)
(***************************************************************************)
EXTENDS Integers, SequencesExt

\* Reduct::get_reduct, Decoding, reduce_by_grounded: a loop that appends the
\* members of S to a new vector, in the old order.
Keep(s, S) ==
  LET kept[i \in 0..Len(s)] ==
        IF i = 0 THEN <<>>
        ELSE IF s[i] \in S THEN Append(kept[i - 1], s[i])
        ELSE kept[i - 1]
  IN  kept[Len(s)]

\* std::list::merge, external: the next element comes from the second list
\* if it is less than that of the first, sorted or not, or the first is at
\* its end.
MergeStart == [out |-> <<>>, i |-> 1, j |-> 1]

MergeTurn(l1, l2, st) ==
  IF st.i > Len(l1) \/ (st.j <= Len(l2) /\ l2[st.j] < l1[st.i])
  THEN [out |-> Append(st.out, l2[st.j]), i |-> st.i, j |-> st.j + 1]
  ELSE [out |-> Append(st.out, l1[st.i]), i |-> st.i + 1, j |-> st.j]

Merge(l1, l2) ==
  LET state[k \in 0..(Len(l1) + Len(l2))] ==
        IF k = 0 THEN MergeStart ELSE MergeTurn(l1, l2, state[k - 1])
  IN  state[Len(l1) + Len(l2)].out
=============================================================================
