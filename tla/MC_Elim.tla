----------------------------- MODULE MC_Elim -----------------------------
(* An instance of CadicalInprocessing over ten variables. *)
EXTENDS CadicalInprocessing


(* One formula, in which eliminating variable 1 resolves a unit while the
   resolvents are added; all other variables are frozen. *)
Backward == {{{1, 2}, {-1, 2}, {-2, -3}, {1, 7, 5}, {1, 4, 3}, {-1, 4}, {-4, -5}, {-4, -6}, {-1, 7, 6},
              {1, -8}, {-1, 9}, {-8, 7, 10}, {9, 10, 8}, {-9, -8, 10}}}
Elimination == {<<Backward, [addable |-> {}, assumable |-> {}, freezable |-> {}, frozen |-> Vars \ {1},
                             learnable |-> {}, enabled |-> {"elim"}, solves |-> 1, phases |-> 1,
                             rounds |-> 1]>>}
=============================================================================
