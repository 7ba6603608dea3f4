--------------------------- MODULE MC_Techniques ---------------------------
(* Formulas for the techniques of CadicalTechniques, over four or five
   variables. *)
EXTENDS CadicalTechniques

Of(C) == {Clause(d, FALSE) : d \in C}
Red(C) == {Clause(d, TRUE) : d \in C}

(* A diamond of implications, a dominated irredundant reason, and conflicts
   with one and with several ancestors. *)
Diamonds == {
    Of({<<-1, 2>>, <<-1, 3>>, <<-2, 4, 5>>, <<-3, 4, -5>>}) \cup Red({<<-1, 4, -2>>}),
    Of({<<-1, 2>>, <<-1, 3>>, <<-2, -3, 4>>, <<-4, 5>>, <<-4, -5, -3>>}),
    Of({<<-1, 2>>, <<-2, 3>>, <<-3, 4>>, <<-3, 5>>, <<-4, -5, 1>>, <<2, 4, 5>>}),
    Of({<<-1, 2>>, <<-2, -3>>, <<-1, 3, 4>>, <<-2, 5, -4>>, <<-5, -4>>}) \cup Red({<<-1, -3, 4>>}),
    Of({<<-1, 2>>, <<-2, 3>>, <<-3, 4>>, <<-3, -4>>, <<1, 5>>, <<-5, 4, 2>>, <<-5, -4, 3>>}),
    Of({<<-1, 2>>, <<-1, -2>>, <<1, 3>>, <<1, -3, 4>>, <<1, -4, 5>>, <<-5, -4, -3>>}),
    Of({<<-1, 2>>, <<-1, 3>>, <<-2, -3, -1, 4>>, <<-4, 5>>, <<-3, -5, -2>>, <<4, 5>>})}

(* Every choice of all but three of ten clauses. *)
ProbePool == {<<-1, 2>>, <<-1, 3>>, <<-2, 4>>, <<-2, -3, 4>>, <<-4, -3, 5>>, <<-5, -4, -2>>,
         <<-4, 5>>, <<1, 3, 4>>, <<-5, 1>>, <<-3, -2, -5, -4>>}
ProbeChosen == {Of(ProbePool \ {x, y, z}) : x, y, z \in ProbePool}
ForProbing == Diamonds \cup ProbeChosen

(* Clauses that subsume each other together, share decisions, and can be
   strengthened; redundant clauses that imply an irredundant one. *)
Shared == {
    Of({<<1, 2, 3>>, <<1, 2, -3>>, <<1, -2, 4>>, <<1, -2, -4>>, <<-1, 5, 4>>, <<-1, 5, -4>>})
        \cup Red({<<-1, 5>>}),
    Of({<<1, 2, 3>>, <<1, 2, -3>>, <<1, 2, 4>>}),
    Of({<<1, 2, 3, 4>>, <<-3, 5, 1>>, <<-4, -5>>, <<1, 2, 5>>, <<2, 3, -5>>}),
    Of({<<1, 2, 3>>, <<-1, 4, 5>>, <<2, 3, 4, 5>>, <<-4, 2, 3>>, <<-5, 3, 2>>}),
    Of({<<1, 2, 3>>, <<-1, 4, 5>>}) \cup Red({<<2, 3, 4, 5>>}),
    Of({<<1, 2, 3>>, <<-1, 2, 4>>, <<-4, 3, 2>>, <<-3, 5>>, <<-3, -5, 2>>})
        \cup Red({<<2, 3, 4>>, <<2, 3, 5>>}),
    Of({<<1, 2>>, <<-2, 3>>, <<1, 4, -3>>}) \cup Red({<<1, 3, 4>>, <<1, 3, 5>>, <<1, 4, 5>>})}

VivifyPool == {<<1, 2, 3>>, <<-1, 2, 4>>, <<1, 3, -4>>, <<2, 3, 4>>, <<-2, 3, 1>>, <<-3, 4>>, <<1, 2, 3, 4>>}
VivifyChosen == {Of(VivifyPool \ {a, b}) : a, b \in VivifyPool}
ForVivifying == Shared \cup VivifyChosen

(* Clauses that fix variable 1, 2 or 3 against some of the strategies. *)
LuckyPool == {<<1, 2>>, <<-1, -2>>, <<1, -2, 3>>, <<-1, 2, -3>>, <<-3, 2, 1>>, <<3, -1, 4>>,
         <<2, 3, -4>>, <<-2, -3, -4>>, <<4, -2, -1>>, <<-1, 4>>}
LuckyChosen == {[clauses |-> Of(LuckyPool \ {x, y, z}) \cup {Clause(<<1, -2, 3>>, TRUE)}, units |-> <<>>] :
             x, y, z \in LuckyPool \ {<<1, -2, 3>>}}
WithUnits == {[clauses |-> Of({<<4, 1, 2>>, <<-4, 3, 1, -2>>, <<-1, -2>>, <<-3, 2, 1>>, <<-2, -4, -3>>}),
               units |-> u] : u \in {<<4>>, <<-4>>, <<1>>, <<-2>>}}

(* The forward and the backward strategies fail; one of the Horn strategies
   succeeds, or none does. *)
HornOnes == {[clauses |-> Of(C), units |-> <<>>] :
                 C \in {{<<3, 2>>, <<3, -2>>, <<-3, 2>>, <<-4, -2>>, <<-3, -1, 4>>},
                        {<<-2, -3>>, <<-4, -3>>, <<3, 2, -4>>, <<-2, 3>>, <<3, 4, 2>>},
                        {<<-2, -1>>, <<3, 2>>, <<-4, -2>>, <<4, 1, 3>>, <<2, -3>>}}}
ForLuck == LuckyChosen \cup WithUnits \cup HornOnes
AssumeSets == {{}, {-1}, {2, 3}}
ConstraintSets == {{}, {1, -2}}
=============================================================================
