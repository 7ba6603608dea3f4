------------------------------ MODULE Encoding ------------------------------
(***************************************************************************)
(* Encoding.cpp, Decoding.cpp and the part of SatSolver_cadical they use.  *)
(* A clause is a set of non-zero integer literals, a formula a set of      *)
(* clauses, a model the set of variables CaDiCaL reports as true.          *)
(* Variable a says "a is accepted", variable n + a "a is rejected", where  *)
(* n is the number of arguments of the framework.                          *)
(***************************************************************************)
EXTENDS Framework

get_literal_accepted(argument, isInverted) ==
  IF isInverted THEN -argument ELSE argument

get_literal_rejected(argsSize, argument, isInverted) ==
  IF isInverted THEN -(argument + argsSize) ELSE argument + argsSize

\* Part I of add_rejected_clauses: not accepted and rejected at once.
add_rejected_clauses(argsSize, a) ==
  {{get_literal_rejected(argsSize, a, TRUE), get_literal_accepted(a, TRUE)}}

\* Part II: an accepted attacker rejects its victim.
add_rejected_clauses_per_attacker(argsSize, a, b) ==
  {{get_literal_rejected(argsSize, a, FALSE), get_literal_accepted(b, TRUE)}}

\* Not both a and its attacker; the unit clause for a self-attacker is the
\* same set of literals.
add_conflict_free_per_attacker(a, b) ==
  {{get_literal_accepted(a, TRUE), get_literal_accepted(b, TRUE)}}

\* Faulty variant: no defence is asked for.
add_defense_missing(argsSize, a, b) == {}

\* If a is accepted its attacker is rejected; skipped for a self-attack.
add_defense_per_attacker(argsSize, a, b) ==
  IF a = b THEN {}
  ELSE {{get_literal_accepted(a, TRUE), get_literal_rejected(argsSize, b, FALSE)}}

\* Part III: a rejected argument has an accepted active attacker.
rejection_reason_clause(argsSize, att, active, a) ==
  {get_literal_rejected(argsSize, a, TRUE)}
    \cup {get_literal_accepted(b, FALSE) : b \in attackers(att, a) \cap active}

add_admissible(argsSize, att, active, a) ==
  add_rejected_clauses(argsSize, a)
    \cup (UNION {add_rejected_clauses_per_attacker(argsSize, a, b)
                   \cup add_conflict_free_per_attacker(a, b)
                   \cup add_defense_per_attacker(argsSize, a, b)
                 : b \in attackers(att, a) \cap active})
    \cup {rejection_reason_clause(argsSize, att, active, a)}

non_empty_clause(active) == {get_literal_accepted(a, FALSE) : a \in active}

\* Encoding::add_clauses_nonempty_admissible_set
add_clauses_nonempty_admissible_set(argsSize, att, active) ==
  (UNION {add_admissible(argsSize, att, active, a) : a \in active})
    \cup {non_empty_clause(active)}

\* Faulty variant: every true variable is taken for an argument.
get_set_from_whole_model(model, active) == model

\* SatSolver_cadical::check_var_model, over the arguments of a set:
\* Decoding::get_set_from_solver
get_set_from_solver(model, active) == {a \in active : a \in model}

\* Faulty variants: each argument of the model is excluded on its own; only
\* the exact model is excluded.
add_complement_units(model, active) ==
  {{get_literal_accepted(a, TRUE)} : a \in get_set_from_solver(model, active)}

add_complement_exact(model, active) ==
  {{get_literal_accepted(a, a \in model) : a \in active}}

\* Encoding::add_complement_clause: not all accepted arguments of the
\* model together again.
add_complement_clause(model, active) ==
  {{get_literal_accepted(a, TRUE) : a \in get_set_from_solver(model, active)}}

(***************************************************************************)
(* The SAT solver as its interface promises it (IncrementalSat; modules   *)
(* of the solver show that it does): solve() returns 10 with some model of *)
(* the clauses if there is one.  A variable exists once a clause names it, *)
(* here those of active arguments, and a clause is satisfied when one of   *)
(* its literals has the value ival gives it.                               *)
(***************************************************************************)
Holds(model, literal) ==
  IF literal > 0 THEN literal \in model ELSE -literal \notin model

Satisfies(model, clauses) ==
  \A c \in clauses : \E l \in c : Holds(model, l)

Variables(argsSize, active) == active \cup {a + argsSize : a \in active}

\* The model that stands for the set S: its members are accepted and the
\* active arguments they attack are rejected.
SetModel(argsSize, att, active, S) ==
  S \cup {a + argsSize : a \in {x \in active : \E b \in S : <<b, x>> \in att}}

Models(argsSize, active, clauses) ==
  {m \in SUBSET Variables(argsSize, active) : Satisfies(m, clauses)}
=============================================================================
