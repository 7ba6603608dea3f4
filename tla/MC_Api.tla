------------------------------- MODULE MC_Api -------------------------------
(* Sessions of CadicalApi and of its wrapper, over two and three variables. *)
EXTENDS SatSolver_cadical

Session == [max_var |-> 2, addable |-> {{1, 2}, {-1, -2}, {-1}}, constraints |-> {},
            assumable |-> {1, -2}, flippable |-> {}, terminating |-> FALSE, clauses |-> 2,
            solves |-> 2, wrapped |-> FALSE, long |-> {}, short |-> {}]

Direct == [Session EXCEPT !.constraints = {{-2}}, !.flippable = {1, -2}]
Terminated == [Session EXCEPT !.terminating = TRUE]

(* Clauses that are blocked, and come back when their literals are used. *)
Blocked == [Session EXCEPT !.max_var = 3, !.addable = {{1, 2}, {-1, 3}, {-2}}, !.assumable = {1},
                           !.flippable = {1}, !.clauses = 3]

(* Clauses of the shapes the encoding adds: conflict-freeness and rejection
   are short, defence is long. *)
Wrapped == [Session EXCEPT !.max_var = 3, !.addable = SUBSET Lits, !.assumable = {}, !.clauses = 3,
                           !.wrapped = TRUE, !.long = {<<1, 2, 3>>, <<-1, 2>>, <<1, -2, 3>>},
                           !.short = {<<-1, -2>>, <<1, 0>>, <<-3, 0>>}]

AllSessions == {Direct, Terminated, Blocked, Wrapped}
=============================================================================
