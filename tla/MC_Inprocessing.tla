-------------------------- MODULE MC_Inprocessing ---------------------------
(* Sessions of CadicalInprocessing over families of formulas in which every
   technique finds something to do; one family uses the fourth variable. *)
EXTENDS CadicalInprocessing

Clauses == {c \in SUBSET {1, -1, 2, -2, 3, -3} : IsClause(c)}
OfSize(n) == {c \in Clauses : Cardinality(c) = n}
With(v) == {c \in Clauses : {v, -v} \cap c # {}}
Subsets(S, sizes) == {T \in SUBSET S : Cardinality(T) \in sizes}

(* Three or four clauses with variable 1, in both phases. *)
Dense == {F \in Subsets(With(1) \cap (OfSize(2) \cup OfSize(3)), {3, 4}) :
             \E c, d \in F : 1 \in c /\ -1 \in d}

(* Two clauses with variable 1 and one of all three variables, up to signs. *)
Sparse == {F \cup {{1, 2, 3}} : F \in Subsets(With(1) \cap OfSize(2), {2})}

(* Binary implication graphs, and ternary clauses to resolve, up to names and
   signs. *)
BinaryFormulas == {B \cup {{1, 2}} : B \in Subsets(OfSize(2) \ {{1, 2}}, {2, 3})}
TernaryFormulas == {T \cup {{1, 2, 3}} \cup B : T \in Subsets(OfSize(3) \ {{1, 2, 3}}, {1, 2}),
                                              B \in Subsets(OfSize(2), {0, 1})}
Mixed == BinaryFormulas \cup TernaryFormulas

(* Formulas and inputs for sessions of several calls of solve. *)
Chains == Subsets({{1, 2}, {-1, 3}, {-1, -2}, {1, -2, 3}, {2, -3}, {-2, 3}}, {2, 3})
Additions == {{-1}, {-2, -3}}
Assumed == {1, -2}
Learned == {{2, 3}, {1, 3}, {-2, 3}, {3}}

(* Four variables: an if-then-else gate, an exclusive or and a conjunction
   with output 1, and one or two clauses that use the output. *)
Gates == {{{-1, -2, 3}, {-1, 2, 4}, {1, -2, -3}, {1, 2, -4}},
          {{1, 2, 3}, {1, -2, -3}, {-1, 2, -3}, {-1, -2, 3}},
          {{1, -2, -3, -4}, {-1, 2}, {-1, 3}, {-1, 4}},
          {{1, 2}, {-1, -2}}}
Uses == {{1, 4}, {-1, 4}, {1, 3, -4}, {-1, -3, 4}, {-1, 2, -3}, {1, -2, 3}, {2, -3}}
GateFormulas == {G \cup U : G \in Gates, U \in Subsets(Uses, {1, 2, 3})}

Alone == [addable |-> {}, assumable |-> {}, freezable |-> {}, frozen |-> {}, learnable |-> {},
          enabled |-> {"elim"}, solves |-> 1, phases |-> 1, rounds |-> 1]

Eliminating == {<<Dense, Alone>>, <<GateFormulas, Alone>>}

(* Techniques that leave witnesses, mixed. *)
Witnessed == {<<Sparse, [Alone EXCEPT !.enabled = {"block", "cover", "condition"},
                                      !.phases = 2, !.rounds = 2]>>}

(* Techniques that keep the formula equivalent up to names. *)
Implied == {<<Mixed, [Alone EXCEPT !.enabled = {"decompose", "ternary", "deduplicate", "subsume", "transred"}]>>}

(* Clauses learned between and during two phases. *)
Learning == {<<Chains, [Alone EXCEPT !.learnable = Learned, !.phases = 2, !.rounds = 2,
                 !.enabled = {"elim", "block", "subsume", "decompose", "transred", "instantiate"}]>>}

(* Two calls with clauses, assumptions and frozen variables in between. *)
Incremental == {<<Chains, [Alone EXCEPT !.addable = Additions, !.assumable = Assumed, !.freezable = {1},
                                        !.enabled = {"decompose", "elim"}, !.solves = 2]>>}

AllSessions == Eliminating \cup Witnessed \cup Implied \cup Learning \cup Incremental
=============================================================================
