--------------------------- MODULE IncrementalSat ---------------------------
(***************************************************************************)
(* What an incremental SAT solver promises (the interface IPASIR that the  *)
(* class Solver of cadical.hpp implements): clauses accumulate, and        *)
(* assumptions and the constraint hold for one call of solve, whose answer *)
(* is right for exactly these.  Nothing here says how it is found.         *)
(***************************************************************************)
EXTENDS CadicalFormula

VARIABLES
    formula,      \* the clauses of the user
    assumptions,  \* the literals assumed for the next or the last call
    constraint,   \* the clause that holds for that call, {} if there is none
    answer,       \* none, sat or unsat
    model,        \* the assignment behind the answer sat
    core          \* the failed assumptions behind the answer unsat

vars == <<formula, assumptions, constraint, answer, model, core>>

Question(A) ==
    formula \cup {{l} : l \in A} \cup (IF constraint = {} THEN {} ELSE {constraint})

Init ==
    /\ formula = {}
    /\ assumptions = {} /\ constraint = {}
    /\ answer = "none" /\ model = {} /\ core = {}

(* The first change after an answer withdraws it and what it was given for. *)
Left(x) == IF answer = "none" THEN x ELSE {}
Withdraw == answer' = "none" /\ model' = {} /\ core' = {}

Prepare ==
    /\ formula' = formula
    /\ assumptions' = Left(assumptions) /\ constraint' = Left(constraint)
    /\ Withdraw

AddClause(c) ==
    /\ formula' = formula \cup {c}
    /\ assumptions' = Left(assumptions) /\ constraint' = Left(constraint)
    /\ Withdraw

Assume(l) ==
    /\ assumptions' = Left(assumptions) \cup {l}
    /\ constraint' = Left(constraint)
    /\ Withdraw /\ UNCHANGED formula

Constrain(c) ==
    /\ constraint' = c
    /\ assumptions' = Left(assumptions)
    /\ Withdraw /\ UNCHANGED formula

ResetAssumptions == assumptions' = {} /\ constraint' = Left(constraint) /\ Withdraw /\ UNCHANGED formula
ResetConstraint == constraint' = {} /\ assumptions' = Left(assumptions) /\ Withdraw /\ UNCHANGED formula

AnswerSat ==
    /\ answer = "none" /\ answer' = "sat"
    /\ \E A \in Models(Question(assumptions)) : model' = A
    /\ UNCHANGED <<formula, assumptions, constraint, core>>

AnswerUnsat ==
    /\ answer = "none" /\ answer' = "unsat"
    /\ \E C \in SUBSET assumptions :
          core' = C /\ Models(Question(C)) = {}
    /\ UNCHANGED <<formula, assumptions, constraint, model>>

(* A call without an answer uses up its assumptions all the same. *)
GiveUp ==
    /\ answer = "none"
    /\ assumptions' = {} /\ constraint' = {}
    /\ UNCHANGED <<formula, answer, model, core>>

(* Another model of the formula takes the place of the one found. *)
Flip ==
    /\ answer = "sat"
    /\ \E A \in Models(formula) : model' = A
    /\ UNCHANGED <<formula, assumptions, constraint, answer, core>>

Next ==
    \/ Prepare \/ ResetAssumptions \/ ResetConstraint
    \/ \E c \in SUBSET Lits : AddClause(c) \/ Constrain(c)
    \/ \E l \in Lits : Assume(l)
    \/ AnswerSat \/ AnswerUnsat \/ GiveUp \/ Flip

Spec == Init /\ [][Next]_vars
=============================================================================
