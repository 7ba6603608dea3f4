-------------------------- MODULE SatSolver_cadical --------------------------
(***************************************************************************)
(* The wrapper of src/src/logic/SatSolver_cadical.cpp on top of CadicalApi *)
(* as the search uses it: clauses are handed over literal by literal, each *)
(* closed by a zero, solve tells whether the answer is 10, and             *)
(* check_var_model reads single values.  Nobody limits or terminates it.   *)
(* A session is one of the wrapper or of a user who calls CadicalApi       *)
(* directly; long and short are the arguments of add_clause and of         *)
(* add_clause_short, where zero stands for no second literal.              *)
(***************************************************************************)
EXTENDS CadicalApi

(* The arguments are literals; only a short clause may lack one. *)
ASSUME WrapperAssumption ==
    \A s \in Sessions :
        /\ s.wrapped \in BOOLEAN
        /\ s.long \subseteq Seq(Lits)
        /\ s.short \subseteq Lits \X (Lits \cup {0})

VARIABLES
    todo,      \* literals and zeros the current call has still to pass on
    intended,  \* the clauses of the callers
    reply      \* what the last call of solve returned: yes, no or none

wrapper == <<todo, intended, reply>>
allvars == <<vars, wrapper>>

InitSat == Init /\ todo = <<>> /\ intended = {} /\ reply = "none"

Idle == todo = <<>> /\ state \in READY
Fits(c) == ToSet(c) \ {0} \notin intended /\ Cardinality(intended) < session.clauses

add_clause(clause) ==
    /\ Idle /\ Fits(clause)
    /\ todo' = Append(clause, 0)
    /\ intended' = intended \cup {ToSet(clause)}
    /\ reply' = "none"
    /\ UNCHANGED vars

(* Faulty variant: the second literal is passed on even if it is missing. *)
short_literals_both(lit1, lit2) == <<lit1, lit2, 0>>

short_literals(lit1, lit2) == IF lit2 = 0 THEN <<lit1, 0>> ELSE <<lit1, lit2, 0>>

add_clause_short(lit1, lit2) ==
    /\ Idle /\ Fits(<<lit1, lit2>>)
    /\ todo' = short_literals(lit1, lit2)
    /\ intended' = intended \cup {{lit1, lit2} \ {0}}
    /\ reply' = "none"
    /\ UNCHANGED vars

PassOn ==
    /\ todo # <<>>
    /\ IF Head(todo) = 0 THEN add_zero ELSE add(Head(todo))
    /\ todo' = Tail(todo)
    /\ UNCHANGED <<intended, reply>>

solve_sat ==
    /\ Idle /\ solve
    /\ reply' = "none"
    /\ UNCHANGED <<todo, intended>>

ReturnSat ==
    /\ Return
    /\ reply' = IF result = 10 THEN "yes" ELSE "no"
    /\ UNCHANGED <<todo, intended>>

check_var_model == Idle /\ val /\ UNCHANGED wrapper

NextWrapped ==
    \/ \E clause \in session.long : add_clause(clause)
    \/ \E pair \in session.short : add_clause_short(pair[1], pair[2])
    \/ PassOn \/ solve_sat \/ ReturnSat \/ check_var_model
    \/ ((\E lit \in Lits : Inprocess(lit)) \/ Found) /\ UNCHANGED wrapper

NextSat ==
    \/ session.wrapped /\ NextWrapped
    \/ ~session.wrapped /\ Next /\ UNCHANGED wrapper

EngineStep ==
    \/ session.wrapped /\ ((Found /\ UNCHANGED wrapper) \/ ReturnSat)
    \/ ~session.wrapped /\ Engine /\ UNCHANGED wrapper

(* A call of solve runs until it returns. *)
SpecSat == InitSat /\ [][NextSat]_allvars /\ WF_allvars(EngineStep)

-----------------------------------------------------------------------------
(* solve returns true exactly when the clauses of all calls so far have a
   common model, and then the values check_var_model reads are one. *)
ReplyRight ==
    /\ reply = "yes" => Satisfies(Model, intended)
    /\ reply = "no" => Models(intended) = {}

=============================================================================
