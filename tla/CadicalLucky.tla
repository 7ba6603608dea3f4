---------------------------- MODULE CadicalLucky ----------------------------
(***************************************************************************)
(* Lucky phases of CaDiCaL (lucky.cpp): before the search starts a call of *)
(* solve without assumptions tries eight simple assignments, each with     *)
(* complete propagation after every decision, and gives up at the first    *)
(* conflict.  Whatever was tried, the search must find the trail of level  *)
(* zero as it was.  Another thread may ask for termination at any moment.  *)
(***************************************************************************)
EXTENDS CadicalAnalyze

CONSTANTS
    Formulas,   \* records of a set of clauses [lits, red, garbage] and fixed literals
    Assumable,  \* sets of assumptions
    Constraints \* constraints, {} for none

VARIABLES
    S,
    root,         \* the trail the phases start on
    assumptions,
    constraint,
    strategy,     \* the number of the strategy that is tried
    phase,        \* start, clauses, decide, conflict, done
    left,         \* clauses a Horn strategy has not visited, as sets of literals
    todo,         \* variables that are still to be decided
    result        \* 10, 0 or -1; 1 while there is none

vars == <<S, root, assumptions, constraint, strategy, phase, left, todo, result>>

Strategies == << [kind |-> "trivial", sign |-> -1], [kind |-> "trivial", sign |-> 1],
                 [kind |-> "forward", sign |-> 1], [kind |-> "forward", sign |-> -1],
                 [kind |-> "backward", sign |-> -1], [kind |-> "backward", sign |-> 1],
                 [kind |-> "horn", sign |-> 1], [kind |-> "horn", sign |-> -1] >>
Tried == Strategies[strategy]

Irredundant(T) == {c \in T.clauses : ~c.red /\ ~c.garbage}
Forward == [i \in Vars |-> i]
Backward == Reverse(Forward)
HasSign(l, sign) == l * sign > 0

(* Complete propagation, in one of the possible orders, up to a conflict. *)
RECURSIVE propagate_all(_)
propagate_all(T) ==
    LET lit == -T.trail[T.propagated + 1]
        Visit(c, U) == IF U.conflict # <<>> THEN U
                       ELSE propagate_watch(U, c, lit, CHOOSE r \in Replacements(U, c, lit) : TRUE)
        visited == FoldSet(Visit, T, {c \in T.clauses : lit \in Watched(c)})
    IN  IF T.conflict # <<>> \/ T.propagated = Len(T.trail) THEN T
        ELSE propagate_all([visited EXCEPT !.propagated = @ + 1])

-----------------------------------------------------------------------------

Init ==
    /\ \E F \in Formulas :
           S = propagate_all([NewState EXCEPT !.clauses = F.clauses, !.trail = F.units])
    /\ root = S.trail
    /\ assumptions \in Assumable /\ constraint \in Constraints
    /\ strategy = 1 /\ phase = "start" /\ left = {} /\ todo = <<>>
    /\ result = 1

(* Faulty variant: the conflict stays for the search. *)
unlucky_keeps_conflict(res) ==
    /\ S' = IF level(S) > 0 THEN backtrack(S, 0) ELSE S
    /\ left' = {} /\ todo' = <<>>
    /\ IF res < 0 \/ strategy = Len(Strategies)
       THEN phase' = "done" /\ result' = res /\ UNCHANGED strategy
       ELSE phase' = "start" /\ strategy' = strategy + 1 /\ UNCHANGED result
    /\ UNCHANGED <<root, assumptions, constraint>>

(* The strategy failed, or with res negative the solver is to terminate. *)
unlucky(res) ==
    /\ S' = [backtrack(S, 0) EXCEPT !.conflict = <<>>]
    /\ left' = {} /\ todo' = <<>>
    /\ IF res < 0 \/ strategy = Len(Strategies)
       THEN phase' = "done" /\ result' = res /\ UNCHANGED strategy
       ELSE phase' = "start" /\ strategy' = strategy + 1 /\ UNCHANGED result
    /\ UNCHANGED <<root, assumptions, constraint>>

(* Lucky phases are not tried under assumptions or a constraint. *)
Applicable == assumptions = {} /\ constraint = {}

Skipped ==
    /\ phase = "start" /\ ~Applicable
    /\ phase' = "done" /\ result' = 0
    /\ UNCHANGED <<S, root, assumptions, constraint, strategy, left, todo>>

(* Every clause is satisfied or has an unassigned literal of the sign. *)
TriviallySatisfiable(sign) ==
    \A c \in Irredundant(S) : \/ ToSet(c.lits) \cap True(S) # {}
                              \/ \E l \in ToSet(c.lits) \cap Unassigned(S) : HasSign(l, sign)

Start ==
    /\ phase = "start" /\ Applicable
    /\ IF Tried.kind = "trivial" /\ ~TriviallySatisfiable(Tried.sign)
       THEN unlucky(0)
       ELSE /\ phase' = IF Tried.kind = "horn" THEN "clauses" ELSE "decide"
            /\ left' = IF Tried.kind = "horn" THEN {ToSet(c.lits) : c \in Irredundant(S)} ELSE {}
            /\ todo' = IF Tried.kind = "backward" THEN Backward ELSE Forward
            /\ UNCHANGED <<S, root, assumptions, constraint, strategy, result>>

(* A decision and its propagation. *)
Decided(lit) == propagate_all(search_assume_decision(S, lit))

(* The first literal of a clause that is true or unassigned and of the sign. *)
Chosen(c, sign) ==
    LET at == {i \in 1..Len(c.lits) : \/ c.lits[i] \in True(S)
                                      \/ c.lits[i] \in Unassigned(S) /\ HasSign(c.lits[i], sign)}
    IN  IF at = {} THEN 0 ELSE c.lits[Min(at)]

(* A Horn strategy decides literals of its sign clause by clause. *)
VisitClause(lits) ==
    LET c == CHOOSE d \in Irredundant(S) : ToSet(d.lits) = lits
        lit == Chosen(c, Tried.sign)
    IN  /\ phase = "clauses"
        /\ IF lit = 0 THEN unlucky(0)
           ELSE /\ left' = left \ {lits}
                /\ S' = IF lit \in True(S) THEN S ELSE Decided(lit)
                /\ phase' = IF S'.conflict # <<>> THEN "conflict" ELSE phase
                /\ UNCHANGED <<root, assumptions, constraint, strategy, todo, result>>

ClausesDone ==
    /\ phase = "clauses" /\ left = {}
    /\ phase' = "decide"
    /\ UNCHANGED <<S, root, assumptions, constraint, strategy, left, todo, result>>

(* The sign of the remaining decisions: a Horn strategy sets the rest the other
   way around. *)
DecisionSign == IF Tried.kind = "horn" THEN -Tried.sign ELSE Tried.sign

DecideNext ==
    LET idx == Head(todo)
    IN  /\ phase = "decide" /\ todo # <<>>
        /\ todo' = Tail(todo)
        /\ S' = IF idx \in Unassigned(S) THEN Decided(DecisionSign * idx) ELSE S
        /\ phase' = IF S'.conflict # <<>> THEN "conflict" ELSE phase
        /\ UNCHANGED <<root, assumptions, constraint, strategy, left, result>>

GiveUp == phase = "conflict" /\ unlucky(0)

Lucky ==
    /\ phase = "decide" /\ todo = <<>>
    /\ phase' = "done" /\ result' = 10
    /\ UNCHANGED <<S, root, assumptions, constraint, strategy, left, todo>>

(* terminated_asynchronously, which every loop calls before it goes on, the one
   that looks at the clauses before a trivial strategy too. *)
Terminated ==
    /\ \/ phase = "start" /\ Applicable /\ Tried.kind = "trivial" /\ S.clauses # {}
       \/ phase = "clauses" /\ left # {}
       \/ phase = "decide" /\ todo # <<>>
    /\ unlucky(-1)

Next ==
    \/ Skipped \/ Start \/ (\E lits \in left : VisitClause(lits)) \/ ClausesDone
    \/ DecideNext \/ GiveUp \/ Lucky \/ Terminated

Spec == Init /\ [][Next]_vars

-----------------------------------------------------------------------------
(* Properties. *)

(* A lucky answer is a model of every clause and of what the call asks: the clauses
   are not looked at again once all variables are assigned. *)
LuckyCorrect ==
    result = 10 =>
        /\ Unassigned(S) = {}
        /\ Satisfies(True(S), {ToSet(c.lits) : c \in Irredundant(S)})
        /\ assumptions \subseteq True(S)
        /\ constraint # {} => constraint \cap True(S) # {}

(* Otherwise the search finds the trail of level zero, no conflict, and no
   clause that waits for a fixed false literal to become false. *)
NothingLeft ==
    phase \in {"start", "done"} /\ result # 10 =>
        /\ S.trail = root /\ level(S) = 0 /\ S.conflict = <<>>
        /\ S.propagated = Len(S.trail)
        /\ \A c \in S.clauses : ~c.garbage /\ ToSet(c.lits) \cap Fixed(S) = {} =>
               Watched(c) \cap False(S) = {}

=============================================================================
