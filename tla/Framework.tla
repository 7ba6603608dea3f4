----------------------------- MODULE Framework -----------------------------
(***************************************************************************)
(* The read-only operations of the class AF and the helper classes that    *)
(* work on it: Reduct, ScepticalCheck.  A VectorBitSet (a vector of        *)
(* arguments plus the bitset of the same arguments) is the set of its      *)
(* members, and so is a list<uint32_t>: no caller depends on the order.    *)
(***************************************************************************)
EXTENDS Integers, FiniteSets

\* AF::attackers[a] and AF::victims[a], filled by finish_initilization.
attackers(att, a) == {p[1] : p \in {e \in att : e[2] = a}}
victims(att, a)   == {p[2] : p \in {e \in att : e[1] = a}}

\* Faulty variant: the victims of the argument stay.
get_reduct_keeps_victims(active, att, argument) == active \ {argument}

\* Reduct::get_reduct: drop the argument and everything it attacks.
get_reduct(active, att, argument) ==
  {a \in active : a # argument /\ <<argument, a>> \notin att}

\* Reduct::get_reduct_set: get_reduct by each member of the list in turn.
get_reduct_set(active, att, set_arguments) ==
  {a \in active : /\ a \notin set_arguments
                  /\ \A b \in set_arguments : <<b, a>> \notin att}

\* ScepticalCheck::check_rejection: a member of the set attacks the query.
check_rejection(argument, initial_set, att) ==
  \E a \in initial_set : <<a, argument>> \in att

\* Faulty variant: a path with the query goes on.
check_terminate_never(argument, initial_set) == FALSE

\* ScepticalCheck::check_terminate_extension_build: the set holds the query.
check_terminate_extension_build(argument, initial_set) ==
  argument \in initial_set
=============================================================================
