--------------------------- MODULE MC_PreProcessor ---------------------------
(***************************************************************************)
(* Instances of PreProcessor_DS_PR and TaskLists for TLC.                  *)
(***************************************************************************)
EXTENDS TaskLists

AllFrameworks == SUBSET (Args \X Args)

\* One of each class of frameworks of four arguments that differ by the
\* names of the arguments (and all frameworks of three with their names):
\* any argument can be the query, and the lists have any order.
Weight(att) == FoldSet(LAMBDA e, acc : acc + 2^(4 * (e[1] - 1) + e[2] - 1), 0, att)
Renamed(att, f) == {<<f[e[1]], f[e[2]]>> : e \in att}
Renamings == Permutations(Args)
IsRepresentative(att) ==
  \A f \in Renamings : Weight(att) <= Weight(Renamed(att, f))

ThreeArgFrameworks == SUBSET ((1..3) \X (1..3))

SomeFrameworks ==
  ThreeArgFrameworks \cup {att \in AllFrameworks : IsRepresentative(att)}

\* A framework of three arguments is asked about twice.
Twice(att)       == 2
TwiceIfThree(att) == IF att \in ThreeArgFrameworks THEN 2 ELSE 1
=============================================================================
