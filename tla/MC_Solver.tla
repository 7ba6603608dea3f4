------------------------------ MODULE MC_Solver ------------------------------
(***************************************************************************)
(* Instances of Solver_DS_PR for TLC.                                      *)
(***************************************************************************)
EXTENDS Solver_DS_PR, TLC, FiniteSetsExt

\* Every framework over the first three arguments; the fourth one is isolated
\* then and preprocessing leaves it out.
ThreeArgFrameworks == SUBSET ((1..3) \X (1..3))

QueryOne == {1}

\* q = 1 is attacked by 2; 3 and 4 form an even cycle that also attacks 2,
\* and 2 attacks back: several independent initial sets, so that several
\* tasks run and two of them can reject at once.
TwoWaysOut == {<<2, 1>>, <<1, 2>>, <<3, 4>>, <<4, 3>>, <<4, 2>>, <<2, 4>>}

\* Floating reinstatement: 2 and 3 attack each other and both attack 4,
\* which attacks 1.  Neither 2 nor 3 is grounded, 1 is in every extension.
Floating == {<<2, 3>>, <<3, 2>>, <<2, 4>>, <<3, 4>>, <<4, 1>>}

\* An odd cycle: the empty set is the only admissible set of the reduct.
OddCycle == {<<1, 2>>, <<2, 3>>, <<3, 1>>}

\* 2 and 3 attack each other and the query; 4 is independent of 3.  The root
\* rejects with {2} while the task for {4} rejects with {3, 4}.
TwoProofs == {<<2, 1>>, <<3, 1>>, <<2, 3>>, <<3, 2>>, <<4, 2>>, <<2, 4>>}

\* 3 defends the query from the self-attacker 4, and 2 rules 3 out: the
\* extension {2} leaves nothing to add, {1, 3} is another extension.
NothingToAdd == {<<2, 3>>, <<3, 2>>, <<3, 4>>, <<4, 4>>, <<4, 1>>}

\* Two arguments each defend the query from 2 on their own: {3}, {4} and
\* {3, 4} are all found by one task, and the tasks for them overlap.
TwoDefenders == {<<2, 1>>, <<2, 3>>, <<3, 2>>, <<2, 4>>, <<4, 2>>}

FourArgFrameworks == {TwoWaysOut, Floating, OddCycle, TwoProofs, NothingToAdd}

\* The frameworks of four arguments that reach the search with all four
\* arguments, one of each class of frameworks that differ by the names of
\* 2, 3 and 4.  TwoDefenders has more states than all the others together
\* and is left out.
Renamed(att, f) == {<<f[e[1]], f[e[2]]>> : e \in att}
Renamings == {f \in Permutations(Args) : f[1] = 1}
Weight(att) == FoldSet(LAMBDA e, acc : acc + 2^(4 * e[1] + e[2]), 0, att)
IsRepresentative(att) == \A f \in Renamings : Weight(att) <= Weight(Renamed(att, f))

OpenFrameworks ==
  {att \in UNION {kSubset(k, Args \X Args \ {<<1, 1>>}) : k \in 3..5} :
     /\ IsRepresentative(att)
     /\ process_result(att, Args, 1) = "unknown"
     /\ process_reduct(att, Args, 1) = Args
     /\ att # TwoDefenders}

SearchFrameworks == ThreeArgFrameworks \cup FourArgFrameworks \cup OpenFrameworks
=============================================================================
