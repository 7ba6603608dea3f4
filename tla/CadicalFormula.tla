--------------------------- MODULE CadicalFormula ---------------------------
(***************************************************************************)
(* Clause database and reconstruction stack of CaDiCaL, the SAT solver in  *)
(* src/lib/cadical that every task of the search asks for admissible sets. *)
(*                                                                         *)
(* A literal is a non-zero integer, a clause the set of its literals.  The *)
(* database db is a record: the irredundant and the redundant clauses of   *)
(* two or more literals that are not garbage, the literals fixed at        *)
(* decision level zero, and the flag unsat.  Internal and external         *)
(* variables have the same names here.                                     *)
(***************************************************************************)
EXTENDS Integers, FiniteSets, FiniteSetsExt, Sequences, SequencesExt

CONSTANT
    N   \* number of variables

ASSUME NAssumption == N \in Nat \ {0}

Vars == 1..N
Lits == Vars \cup {-v : v \in Vars}
vidx(l) == IF l < 0 THEN -l ELSE l
Negated(c) == {-l : l \in c}

(* A clause has no variable twice; a total assignment is given by its true
   literals. *)
IsClause(c) == c \subseteq Lits /\ c \cap Negated(c) = {}
Assignments == {{IF f[v] THEN v ELSE -v : v \in Vars} : f \in [Vars -> BOOLEAN]}

(* A loop over a sequence. *)
Folded(Body(_, _), start, seq) ==
    LET state[i \in 0..Len(seq)] == IF i = 0 THEN start ELSE Body(state[i - 1], seq[i])
    IN  state[Len(seq)]

(* The elements of a set in some fixed order, and in a given one. *)
Listed(S) ==
    LET size == Cardinality(S)
        left[i \in 0..size] ==
            IF i = 0 THEN S
            ELSE LET before == left[i - 1] IN before \ {CHOOSE x \in before : TRUE}
    IN  [i \in 1..size |-> CHOOSE x \in left[size - i] : TRUE]
Sorted(S, Less(_, _)) ==
    LET size == Cardinality(S)
        last(T) == CHOOSE x \in T : \A y \in T : ~Less(x, y)
        left[i \in 0..size] == IF i = 0 THEN S ELSE left[i - 1] \ {last(left[i - 1])}
    IN  [i \in 1..size |-> last(left[size - i])]

Satisfies(A, C) == \A c \in C : c \cap A # {}
Models(C) == {A \in Assignments : Satisfies(A, C)}
Entails(C, D) == \A A \in Models(C) : Satisfies(A, D)

-----------------------------------------------------------------------------
(* The clause database. *)

EmptyDb == [irr |-> {}, red |-> {}, units |-> {}, unsat |-> FALSE]
UnitClauses(F) == {{l} : l \in F.units}
AllClauses(F) == F.irr \cup F.red
fixedTrue(F, c) == c \cap F.units # {}
Remaining(F, c) == c \ Negated(F.units)
occs(F, l) == {c \in F.irr : l \in c}

(* Assigning l at level zero; the literal becomes a fixed one. *)
assign_unit(F, l) ==
    IF l \in F.units THEN F
    ELSE IF -l \in F.units THEN [F EXCEPT !.unsat = TRUE]
    ELSE [F EXCEPT !.units = @ \cup {l}]

(* Faulty variant: a unit is put into the database like a longer clause. *)
new_clause_of_any_size(F, c, redundant) ==
    IF redundant THEN [F EXCEPT !.red = @ \cup {c}] ELSE [F EXCEPT !.irr = @ \cup {c}]

(* A derived clause: empty, unit or put into the database. *)
new_clause(F, c, redundant) ==
    IF c = {} THEN [F EXCEPT !.unsat = TRUE]
    ELSE IF Cardinality(c) = 1 THEN assign_unit(F, CHOOSE l \in c : TRUE)
    ELSE IF redundant THEN [F EXCEPT !.red = @ \cup {c}]
    ELSE [F EXCEPT !.irr = @ \cup {c}]

mark_garbage(F, c) == [F EXCEPT !.irr = @ \ {c}]

(* The literals forced by the clauses C when the literals U are true. *)
Forced(C, U) == {l \in Lits : \E c \in C : l \in c /\ c \ {l} \subseteq Negated(U)}
Propagation(C, U) ==
    LET closure[n \in 0..N] ==
            IF n = 0 THEN U
            ELSE LET before == closure[n - 1] IN before \cup Forced(C, before)
    IN  closure[N]
Conflicting(C, U) ==
    LET P == Propagation(C, U) IN P \cap Negated(P) # {} \/ \E c \in C : c \subseteq Negated(P)

(* Propagation at level zero over all clauses, and learn_empty_clause when
   it runs into a conflict. *)
propagate(F) ==
    IF F.unsat \/ Conflicting(AllClauses(F), F.units) THEN [F EXCEPT !.unsat = TRUE]
    ELSE [F EXCEPT !.units = Propagation(AllClauses(F), F.units)]

(* Garbage collection: clauses with a fixed true literal go, false literals
   are removed from the others. *)
garbage_collection(F) ==
    LET Kept(C) == {Remaining(F, c) : c \in {d \in C : ~fixedTrue(F, d)}}
    IN  IF F.unsat THEN F ELSE [F EXCEPT !.irr = Kept(@), !.red = Kept(@)]

-----------------------------------------------------------------------------
(* The extension stack of pairs of a clause and its witness. *)

Pushed(w, c) == [witness |-> w, clause |-> c]
WitnessLiterals(stack) == UNION {e.witness : e \in ToSet(stack)}
StackClauses(stack) == {e.clause : e \in ToSet(stack)}

(* Turning an assignment of the internal formula into one of the original
   formula: from the top of the stack down, the witness of every clause that
   is not satisfied is made true. *)
Flipped(e, B) == (B \ Negated(e.witness)) \cup e.witness
MadeTrue(e, B) == IF e.clause \cap B # {} THEN B ELSE Flipped(e, B)

extend(stack, A) ==
    LET size == Len(stack)
        down[i \in 0..size] ==
            IF i = 0 THEN A ELSE MadeTrue(stack[size + 1 - i], down[i - 1])
    IN  down[size]

(* A clause of the user or a restored one: nothing happens when it is a
   tautology or has a fixed true literal, its false literals are left out. *)
add_new_original_clause(F, c) ==
    IF F.unsat \/ (\E l \in c : -l \in c) \/ fixedTrue(F, c) THEN F
    ELSE LET G == new_clause(F, Remaining(F, c), FALSE)
         IN  IF G.units # F.units THEN propagate(G) ELSE G

(* One entry of the pass below, in state s.  Faulty variant: restored literals
   do not taint the entries above them. *)
restore_entry_once(s, e, stack, flush) ==
    IF flush /\ fixedTrue(s.db, e.clause) THEN s
    ELSE IF e.witness \cap Negated(s.tainted) = {} THEN [s EXCEPT !.stack = Append(@, e)]
    ELSE [s EXCEPT !.db = add_new_original_clause(@, e.clause), !.lits = @ \cup e.clause]

(* A clause with a witness literal whose negation is tainted is restored; its
   own literals become tainted when their negation is a witness, which only
   matters to the entries met later.  With flush, a clause with a fixed true
   literal is dropped.  lits collects the literals internalized again. *)
restore_entry(s, e, stack, flush) ==
    IF flush /\ fixedTrue(s.db, e.clause) THEN s
    ELSE IF e.witness \cap Negated(s.tainted) = {} THEN [s EXCEPT !.stack = Append(@, e)]
    ELSE [s EXCEPT !.db = add_new_original_clause(@, e.clause),
                   !.tainted = @ \cup (e.clause \cap Negated(WitnessLiterals(stack))),
                   !.lits = @ \cup e.clause]

(* The pass from the bottom to the top of the stack. *)
restore_clauses(F, stack, tainted, flush) ==
    LET start == [db |-> F, stack |-> <<>>, tainted |-> tainted, lits |-> {}]
        pass[i \in 0..Len(stack)] ==
            IF i = 0 THEN start ELSE restore_entry(pass[i - 1], stack[i], stack, flush)
    IN  pass[Len(stack)]

=============================================================================
