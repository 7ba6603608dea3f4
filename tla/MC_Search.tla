----------------------------- MODULE MC_Search -----------------------------
(* Sessions of CadicalSearch over three to five variables. *)
EXTENDS CadicalSearch

Session(F, n) ==
    [formula |-> F, max_var |-> n, addable |-> {}, assumable |-> {}, constraints |-> {},
     flippable |-> {}, restarts |-> FALSE, solves |-> 1, reductions |-> 0, flips |-> 0]

SmallOnes == {{<<1, 2>>, <<-1, 3>>, <<-2, 3, -1>>}, {<<1, 2, 3>>, <<-1, 2>>, <<-2, 3>>}}
Chains == {{<<1, 2>>, <<-1, 3>>, <<-2, 3, -1>>}, {<<-1, 2>>, <<-2, 3>>}}

(* Clauses are added above a trail that is kept. *)
Lazy == {[Session(F, 3) EXCEPT !.addable = {<<-3, -1>>, <<-2, -3>>, <<1, -2, -3>>},
                               !.restarts = TRUE, !.solves = 2, !.reductions = 1] : F \in SmallOnes}

(* Two calls with assumptions and a constraint, and clauses in between. *)
Assuming == {[Session(F, 3) EXCEPT !.addable = {<<-3, -1>>, <<1, -2, -3>>, <<-1>>, <<2, 1>>},
                                   !.assumable = {1, -3, 2}, !.constraints = {{1, 2}, {-2, -3}, {2, -2}},
                                   !.solves = 2] : F \in Chains}

(* Two literals of one level that cannot be replaced by one because a third
   one is needed; a literal that stays when a satisfied clause loses its true
   literal. *)
Learning == {Session(F, 5) : F \in
    {{<<-1, 3, -5>>, <<-1, -4, 2>>, <<-3, -4, -2>>},
     {<<-1, -4, 5>>, <<-1, -4, -5>>, <<-2, 3>>, <<4, 3>>, <<4, -2, 5>>, <<4, -2, -5>>}}}

(* A learned clause that the added one strengthens. *)
Strengthening == {[Session({<<1, 2, 4>>, <<-4, 3, 1>>}, 4) EXCEPT
                       !.addable = {<<-1, 2, 3>>}, !.solves = 2]}

(* Literals whose reason is spoilt when variable 1 is flipped. *)
Flipping == {[Session({<<-1, 3>>, <<-1, 4>>}, 4) EXCEPT
                  !.addable = {<<-3, -4, -2>>, <<-3, -2, 4>>}, !.flippable = {1},
                  !.solves = 2, !.flips = 1]}

AllSessions == Lazy \cup Assuming \cup Learning \cup Strengthening \cup Flipping
=============================================================================
