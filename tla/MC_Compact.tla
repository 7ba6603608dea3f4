----------------------------- MODULE MC_Compact -----------------------------
(* Setups of CadicalCompact over three variables. *)
EXTENDS CadicalCompact

Idle == [reverse |-> FALSE, shuffle |-> FALSE, bumps |-> 0, clauses |-> {}, assumable |-> {},
         order |-> <<1, 2, 3>>, units |-> {}, eliminable |-> {},
         searching |-> FALSE, freezes |-> 0, compacts |-> 0]

(* Two compactions, every table in use. *)
Tables == {[Idle EXCEPT !.clauses = {{-1, 3}, {2, 3}}, !.assumable = {-1, 3}, !.units = {1, -2, 3}, !.eliminable = {1, 2, 3},
                       !.freezes = 1, !.compacts = 2, !.order = <<3, 1, 2>>]}

(* Decisions and a conflict around one compaction. *)
Renumbered == [Idle EXCEPT !.searching = TRUE, !.bumps = 1, !.units = {1, -2},
                             !.eliminable = {3}, !.compacts = 1]

(* Decisions, conflicts and shuffles alone. *)
Deciding == {[Idle EXCEPT !.searching = TRUE, !.bumps = 3],
             [Idle EXCEPT !.searching = TRUE, !.bumps = 2, !.reverse = TRUE, !.shuffle = TRUE]}

AllSetups == Tables \cup {Renumbered} \cup Deciding
=============================================================================
