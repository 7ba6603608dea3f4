----------------------------- MODULE CadicalApi -----------------------------
(***************************************************************************)
(* The class Solver of CaDiCaL (solver.cpp) and the External solver behind *)
(* it (external.cpp): the states of the interface, clauses and constraints *)
(* given literal by literal, assumptions that end with the call they were  *)
(* made for, models that are extended when the first value is asked for,   *)
(* clauses restored when a literal is used again, and termination asked    *)
(* for by another thread.  Of the search only its result is kept, and of   *)
(* inprocessing the removal of blocked clauses.  A call that violates its  *)
(* contract aborts the program and is not enabled here.                    *)
(***************************************************************************)
EXTENDS CadicalBlock

CONSTANT
    Sessions    \* what users may do, see session

(* Literals are of variables that exist, and a constraint is not empty. *)
ASSUME SessionAssumption ==
    \A s \in Sessions :
        /\ s.addable \subseteq SUBSET Lits
        /\ s.constraints \subseteq (SUBSET Lits) \ {{}}
        /\ s.assumable \subseteq Lits /\ s.flippable \subseteq Lits

VARIABLES
    session,            \* max_var: the largest variable used; addable, constraints,
                        \* assumable, flippable: the clauses, constraints and literals
                        \* given; terminating: whether terminate, limit and simplify
                        \* are called; clauses, solves: bounds on the calls
    state,              \* _state
    adding_clause, adding_constraint,
    original,           \* literals of the clause under construction, in Internal
    given,              \* the same as the user has given them
    formula,            \* the clauses the user has completed
    assumptions,
    constraint,         \* literals of the constraint
    closed,             \* whether the constraint was terminated by a zero
    db, stack, tainted, \* see CadicalFormula
    vals,               \* the assignment the search ended with
    extended, evals,    \* the values val returns once extended is set
    core,               \* the failed assumptions
    termination_forced,
    limited,            \* whether a limit was set for the next call
    result,             \* 0, 10 or 20 once the internal solver has returned
    solves

vars == <<session, state, adding_clause, adding_constraint, original, given, formula, assumptions,
          constraint, closed, db, stack, tainted, vals, extended, evals, core,
          termination_forced, limited, result, solves>>

READY == {"CONFIGURING", "STEADY", "SATISFIED", "UNSATISFIED"}
VALID == READY \cup {"ADDING"}
NoResult == -1

Init ==
    /\ session \in Sessions
    /\ state = "CONFIGURING"
    /\ adding_clause = FALSE /\ adding_constraint = FALSE
    /\ original = {} /\ given = {} /\ formula = {}
    /\ assumptions = {} /\ constraint = {} /\ closed = FALSE
    /\ db = EmptyDb /\ stack = <<>> /\ tainted = {}
    /\ vals = {} /\ extended = FALSE /\ evals = {} /\ core = {}
    /\ termination_forced = FALSE /\ limited = FALSE
    /\ result = NoResult /\ solves = 0

-----------------------------------------------------------------------------
Answered == state \in {"SATISFIED", "UNSATISFIED"}

(* Leaving an answer ends the assumptions and the constraint it was for. *)
transition_to_steady_state ==
    [assumptions |-> IF Answered THEN {} ELSE assumptions,
     constraint |-> IF Answered THEN {} ELSE constraint,
     closed |-> closed /\ ~Answered]

Retain(T) == assumptions' = T.assumptions /\ constraint' = T.constraint /\ closed' = T.closed

(* Faulty variant: no literal is tainted. *)
internalize_untainted(l) == UNCHANGED tainted

(* A literal that is used again taints itself when its negation is a witness
   of the extension stack. *)
internalize(l) == tainted' = IF -l \in WitnessLiterals(stack) THEN tainted \cup {l} ELSE tainted

Untouched == UNCHANGED <<vals, evals, termination_forced, limited, result, solves>>
reset_extended == extended' = FALSE /\ core' = {}

(* add with a literal, and with the zero that completes the clause.  The user
   completes a constraint before he begins a clause. *)
add(lit) ==
    /\ state \in VALID
    /\ ~adding_constraint
    /\ \E c \in session.addable \ formula : given \cup {lit} \subseteq c /\ lit \notin given
    /\ Cardinality(formula) < session.clauses
    /\ Retain(transition_to_steady_state)
    /\ original' = original \cup {lit}
    /\ given' = given \cup {lit}
    /\ internalize(lit)
    /\ adding_clause' = TRUE
    /\ state' = "ADDING"
    /\ reset_extended
    /\ Untouched /\ UNCHANGED <<session, adding_constraint, formula, db, stack>>

add_zero ==
    /\ state \in VALID
    /\ ~adding_constraint
    /\ given \in session.addable
    /\ Retain(transition_to_steady_state)
    /\ db' = add_new_original_clause(db, original)
    /\ formula' = formula \cup {given}
    /\ original' = {} /\ given' = {}
    /\ adding_clause' = FALSE
    /\ state' = "STEADY"
    /\ reset_extended
    /\ Untouched /\ UNCHANGED <<session, adding_constraint, stack, tainted>>

(* constrain: the first literal after a completed constraint starts anew.
   The zero only completes a clause that is not under construction. *)
constrain(lit) ==
    LET T == transition_to_steady_state
        before == IF T.closed THEN {} ELSE T.constraint
    IN  /\ state \in VALID
        /\ ~adding_clause
        /\ \E c \in session.constraints : before \cup {lit} \subseteq c /\ lit \notin before
        /\ assumptions' = T.assumptions
        /\ constraint' = before \cup {lit} /\ closed' = FALSE
        /\ internalize(lit)
        /\ adding_constraint' = TRUE
        /\ state' = "ADDING"
        /\ reset_extended
        /\ Untouched /\ UNCHANGED <<session, adding_clause, original, given, formula, db, stack>>

constrain_zero ==
    /\ state \in VALID
    /\ adding_constraint /\ constraint \in session.constraints
    /\ Retain([transition_to_steady_state EXCEPT !.closed = TRUE])
    /\ adding_constraint' = FALSE
    /\ state' = "STEADY"
    /\ reset_extended
    /\ Untouched /\ UNCHANGED <<session, adding_clause, original, given, formula, db, stack, tainted>>

(* The user completes what he has begun first; assume itself would only ask
   for a valid state. *)
assume(lit) ==
    LET T == transition_to_steady_state
    IN  /\ state \in READY
        /\ lit \notin T.assumptions
        /\ Retain([T EXCEPT !.assumptions = @ \cup {lit}])
        /\ internalize(lit)
        /\ state' = "STEADY"
        /\ reset_extended
        /\ Untouched /\ UNCHANGED <<session, adding_clause, adding_constraint, original, given, formula, db, stack>>

reset_assumptions ==
    /\ state \in READY
    /\ Retain([transition_to_steady_state EXCEPT !.assumptions = {}])
    /\ state' = "STEADY"
    /\ core' = {}
    /\ Untouched
    /\ UNCHANGED <<session, adding_clause, adding_constraint, original, given, formula, db, stack, tainted, extended>>

reset_constraint ==
    /\ state \in READY
    /\ Retain([transition_to_steady_state EXCEPT !.constraint = {}, !.closed = FALSE])
    /\ state' = "STEADY"
    /\ core' = {}
    /\ Untouched
    /\ UNCHANGED <<session, adding_clause, adding_constraint, original, given, formula, db, stack, tainted, extended>>

limit ==
    /\ state \in VALID /\ session.terminating /\ ~limited
    /\ limited' = TRUE
    /\ UNCHANGED <<session, state, adding_clause, adding_constraint, original, given, formula, assumptions,
                   constraint, closed, db, stack, tainted, vals, extended, evals, core,
                   termination_forced, result, solves>>

-----------------------------------------------------------------------------
(* solve. *)

Start ==
    LET r == restore_clauses(propagate(db), stack, tainted, FALSE)
    IN  /\ state \in READY /\ solves < session.solves
        /\ Retain(transition_to_steady_state)
        /\ state' = "SOLVING"
        /\ db' = propagate(r.db) /\ stack' = r.stack /\ tainted' = {}
        /\ solves' = solves + 1
        /\ reset_extended
        /\ UNCHANGED <<session, adding_clause, adding_constraint, original, given, formula, vals,
                       evals, termination_forced, result>>

solve == Start /\ UNCHANGED limited

(* simplify only preprocesses, and so may return without an answer. *)
simplify == session.terminating /\ Start /\ limited' = TRUE

Used == {vidx(l) : l \in assumptions \cup constraint}
Solving == state = "SOLVING" /\ result = NoResult

(* Inprocessing: the clauses blocked on lit, which the user has not frozen by
   assuming it, go to the extension stack. *)
Inprocess(lit) ==
    LET b == block_literal(db, lit)
    IN  /\ Solving /\ ~db.unsat
        /\ vidx(lit) \notin Used /\ {lit, -lit} \cap db.units = {}
        /\ b.pushed # <<>>
        /\ db' = b.db
        /\ stack' = stack \o b.pushed
        /\ UNCHANGED <<session, state, adding_clause, adding_constraint, original, given, formula, assumptions,
                       constraint, closed, tainted, vals, extended, evals, core,
                       termination_forced, limited, result, solves>>

Asked(A) ==
    AllClauses(db) \cup UnitClauses(db) \cup (IF db.unsat THEN {{}} ELSE {})
       \cup {{l} : l \in A} \cup (IF closed THEN {constraint} ELSE {})

(* Variables above the largest one do not exist; they count as true here.
   The internal solver returns, and forgets that it was told to stop: a right
   answer, or none when a limit or the terminator ended the search. *)
Found ==
    /\ Solving
    /\ \/ /\ \E A \in Models(Asked(assumptions)) : vals' = A
          /\ result' = 10 /\ core' = {}
       \/ /\ \E C \in SUBSET assumptions : Models(Asked(C)) = {} /\ core' = C
          /\ result' = 20 /\ vals' = {}
       \/ /\ termination_forced \/ limited
          /\ result' = 0 /\ core' = {} /\ vals' = {}
    /\ termination_forced' = FALSE
    /\ UNCHANGED <<session, state, adding_clause, adding_constraint, original, given, formula, assumptions,
                   constraint, closed, db, stack, tainted, extended, evals, limited, solves>>

(* Faulty variant: a search that was told to stop is started again. *)
ReturnAnswers ==
    /\ state = "SOLVING" /\ result # NoResult
    /\ state' = IF result = 10 THEN "SATISFIED" ELSE IF result = 20 THEN "UNSATISFIED" ELSE "SOLVING"
    /\ result' = NoResult
    /\ limited' = (result = 0)
    /\ UNCHANGED <<session, adding_clause, adding_constraint, original, given, formula, assumptions, constraint,
                   closed, db, stack, tainted, vals, extended, evals, core, termination_forced, solves>>

Return ==
    /\ state = "SOLVING" /\ result # NoResult
    /\ state' = IF result = 10 THEN "SATISFIED" ELSE IF result = 20 THEN "UNSATISFIED" ELSE "STEADY"
    /\ IF result = 0 THEN Retain([assumptions |-> {}, constraint |-> {}, closed |-> FALSE])
       ELSE UNCHANGED <<assumptions, constraint, closed>>
    /\ result' = NoResult
    /\ limited' = FALSE
    /\ UNCHANGED <<session, adding_clause, adding_constraint, original, given, formula, db, stack, tainted,
                   vals, extended, evals, core, termination_forced, solves>>

(* Another thread, or a signal handler. *)
terminate ==
    /\ session.terminating /\ state \in VALID \cup {"SOLVING"} /\ ~termination_forced
    /\ termination_forced' = TRUE
    /\ UNCHANGED <<session, state, adding_clause, adding_constraint, original, given, formula, assumptions,
                   constraint, closed, db, stack, tainted, vals, extended, evals, core,
                   limited, result, solves>>

-----------------------------------------------------------------------------
(* Values. *)

val ==
    /\ state = "SATISFIED" /\ ~extended
    /\ extended' = TRUE
    /\ evals' = extend(stack, vals)
    /\ UNCHANGED <<session, state, adding_clause, adding_constraint, original, given, formula, assumptions,
                   constraint, closed, db, stack, tainted, vals, core,
                   termination_forced, limited, result, solves>>

(* Faulty variant: the extended values are kept. *)
flip_keeps_extended(lit) ==
    LET B == (vals \ {lit, -lit}) \cup ({lit, -lit} \ vals)
    IN  /\ state = "SATISFIED"
        /\ lit \notin WitnessLiterals(stack)
        /\ Satisfies(B, AllClauses(db) \cup UnitClauses(db))
        /\ vals' = B
        /\ UNCHANGED <<session, state, adding_clause, adding_constraint, original, given, formula, assumptions,
                       constraint, closed, db, stack, tainted, extended, evals, core,
                       termination_forced, limited, result, solves>>

(* flip changes a value that no clause depends on, and with it the extension
   of the model. *)
flip(lit) ==
    LET B == (vals \ {lit, -lit}) \cup ({lit, -lit} \ vals)
    IN  /\ state = "SATISFIED"
        /\ lit \notin WitnessLiterals(stack)
        /\ Satisfies(B, AllClauses(db) \cup UnitClauses(db))
        /\ vals' = B
        /\ extended' = FALSE
        /\ UNCHANGED <<session, state, adding_clause, adding_constraint, original, given, formula, assumptions,
                       constraint, closed, db, stack, tainted, evals, core,
                       termination_forced, limited, result, solves>>

(* ~Solver *)
delete ==
    /\ state \in VALID
    /\ state' = "DELETING"
    /\ Retain([assumptions |-> {}, constraint |-> {}, closed |-> FALSE])
    /\ UNCHANGED <<session, adding_clause, adding_constraint, original, given, formula, db, stack, tainted,
                   vals, extended, evals, core, termination_forced, limited, result, solves>>

Engine == Found \/ Return
Next ==
    \/ \E lit \in Lits : add(lit) \/ constrain(lit)
    \/ add_zero \/ constrain_zero
    \/ \E lit \in session.assumable : assume(lit)
    \/ reset_assumptions \/ reset_constraint \/ limit
    \/ solve \/ simplify \/ (\E lit \in Lits : Inprocess(lit)) \/ Engine \/ terminate
    \/ val \/ (\E lit \in session.flippable : flip(lit))
    \/ delete

Spec == Init /\ [][Next]_vars

-----------------------------------------------------------------------------
(* What the user may rely on: the class behaves like IncrementalSat, where a
   clause counts when its zero was added, a constraint likewise, and the model
   is the one val returns or would return. *)
Model == IF state # "SATISFIED" THEN {} ELSE IF extended THEN evals ELSE extend(stack, vals)
Ipasir == INSTANCE IncrementalSat WITH
    constraint <- IF closed THEN constraint ELSE {},
    answer <- IF state = "SATISFIED" THEN "sat" ELSE IF state = "UNSATISFIED" THEN "unsat" ELSE "none",
    model <- Model,
    core <- IF state = "UNSATISFIED" THEN core ELSE {}
Implements == Ipasir!Spec

(* val after flip: the values read last are those of the current assignment,
   extended over the clauses that were removed, in which flip could change
   more than the one literal. *)
ValuesFresh == (state = "SATISFIED" /\ extended) => evals = extend(stack, vals)

(* terminate ends a call of solve, and every call ends anyhow. *)
SolveReturns == state = "SOLVING" ~> state # "SOLVING"

=============================================================================
