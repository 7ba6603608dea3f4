--------------------------- MODULE CadicalCompact ---------------------------
(***************************************************************************)
(* Compaction of CaDiCaL (compact.cpp): internal variables that are fixed, *)
(* eliminated or never used give up their number, the others move down.    *)
(* All fixed variables share one.  Every table moves along: the map from   *)
(* external to internal literals, clauses, the decision queue and scores,  *)
(* reference counts of frozen variables, and the assumptions, which are    *)
(* made again from the external ones.                                      *)
(***************************************************************************)
EXTENDS CadicalDecisions

CONSTANTS
    ExtMax        \* bound on the number of variables of the user

(* What a setup says besides:
     clauses, assumable    the clauses the user may add and the literals to assume
     units, eliminable     the literals that may be learned, the variables that may
                           be eliminated
     order                 the order in which the user's variables are first used, as
                           long as nothing is compacted
     searching             whether decisions and conflicts take place
     freezes, compacts     bounds on the calls of freeze and compact *)
ExtVars == 1..ExtMax
ExtLits == ExtVars \cup {-e : e \in ExtVars}

ASSUME CompactAssumption ==
    /\ N \in Nat /\ ExtMax \in Nat
    /\ \A s \in Setups : s.assumable \subseteq ExtLits /\ \A c \in s.clauses : c \subseteq ExtLits

VARIABLES
    e2i, i2e,     \* external to internal literals, internal to external variables
    root,         \* the internal literals fixed to true
    inactive,     \* eliminated and substituted internal variables
    clauses,      \* sets of internal literals
    frozentab,    \* reference counts
    assumptions,  \* the internal assumptions
    given,        \* the external clauses that clauses stands for
    values,       \* the external literals that were fixed
    assumed,      \* the external assumptions
    freezes,      \* how often each external variable is frozen
    compacts

tables == <<e2i, i2e, root, inactive, clauses, frozentab, assumptions>>
outside == <<given, values, assumed, freezes, compacts>>
allvars == <<vars, tables, outside>>

vidx(l) == IF l < 0 THEN -l ELSE l
Signed(x, l) == IF l < 0 THEN -x ELSE x
Negated(c) == {-l : l \in c}
Simplified(C, true) == {c \ Negated(true) : c \in {d \in C : d \cap true = {}}}
FixedVars == {vidx(l) : l \in root}
Active == Vars \ (FixedVars \cup inactive)
LevelZero == Assigned = FixedVars
internal(elit) == Signed(e2i[vidx(elit)], elit)
external(ilit) == Signed(i2e[vidx(ilit)], ilit)

(* The sum of the numbers of S in a table of n. *)
Total(table, n, S) ==
    LET sum[i \in 0..n] == IF i = 0 THEN 0 ELSE sum[i - 1] + (IF i \in S THEN table[i] ELSE 0)
    IN  sum[n]

-----------------------------------------------------------------------------
(* The mapper. *)

first_fixed == IF root = {} THEN 0 ELSE Min(FixedVars)
Kept == Active \cup ({first_fixed} \ {0})
map_idx(v) == IF v \in Kept THEN Cardinality({u \in Kept : u <= v}) ELSE 0

(* Faulty variant: a fixed literal is mapped whatever its value is. *)
map_lit_unsigned(l) ==
    IF vidx(l) \in FixedVars THEN Signed(map_idx(first_fixed), l) ELSE Signed(map_idx(vidx(l)), l)

(* A fixed literal becomes the literal of the first fixed variable that has the
   same value. *)
map_lit(l) ==
    IF map_idx(vidx(l)) = 0 /\ vidx(l) \in FixedVars
    THEN IF (l \in root) = (first_fixed \in root) THEN map_idx(first_fixed) ELSE -map_idx(first_fixed)
    ELSE Signed(map_idx(vidx(l)), l)

new_max_var == Cardinality(Kept)
Source(dst) == CHOOSE v \in Kept : map_idx(v) = dst
map_vector(f, none) == [v \in 1..N |-> IF v <= new_max_var THEN f[Source(v)] ELSE none]

(* The queue keeps the order of the active variables; queue.bumped stays. *)
MappedLinks ==
    LET list == [i \in 1..Cardinality(Active) |->
                    map_idx(SelectSeq(InQueueOrder, LAMBDA v : v \in Active)[i])]
        n == Len(list)
        At(i) == IF i \in 1..n THEN list[i] ELSE 0
    IN  [links |-> [v \in 1..N |-> IF v \in ToSet(list)
                        THEN [prev |-> At(IndexIn(list, v) - 1), next |-> At(IndexIn(list, v) + 1)]
                        ELSE [prev |-> 0, next |-> 0]],
         queue |-> [queue EXCEPT !.first = At(1), !.last = At(n)],
         btab |-> map_vector(btab, 0), bumped |-> bumped]

(* Faulty variant: the pointer is mapped like any other variable. *)
MappedQueue_pointer ==
    [MappedLinks EXCEPT !.queue.unassigned = IF @ = 0 THEN 0 ELSE map_idx(@)]

(* All active variables are unassigned: the search starts from the last one. *)
MappedQueue == [MappedLinks EXCEPT !.queue.unassigned = MappedLinks.queue.last]

(* The heap is emptied under the old scores and filled again under the new. *)
MappedScores ==
    LET st == map_vector(stab, 0)
        saved == SelectSeq(PopOrder(heap), LAMBDA v : v \in Active)
    IN  [stab |-> st, inc |-> score_inc,
         heap |-> FoldLeft(LAMBDA h, v : push_back(st, h, map_idx(v)), <<>>, saved)]

(* Faulty variant: the count of one of the fixed variables is taken. *)
MappedFrozen_single ==
    LET counts == [v \in 1..N |-> frozentab[v] - Cardinality({l \in ToSet(assumptions) : vidx(l) = v})]
    IN  map_vector(counts, 0)

(* Reference counts without the ones of the assumptions; those of the fixed
   variables are added up. *)
MappedFrozen ==
    LET counts == [v \in 1..N |-> frozentab[v] - Cardinality({l \in ToSet(assumptions) : vidx(l) = v})]
    IN  [dst \in 1..N |-> Total(counts, N, {v \in Vars : vidx(map_lit(v)) = dst})]

(* Making an assumption freezes its variable; it is made only once. *)
assume_in(R, ilit) ==
    IF Contains(R.assumptions, ilit) THEN R
    ELSE [assumptions |-> Append(R.assumptions, ilit),
          frozentab |-> [R.frozentab EXCEPT ![vidx(ilit)] = @ + 1]]

(* All assumptions of the user again, under the numbers of map. *)
reassumed(map) ==
    LET R[i \in 0..Len(assumed)] ==
            IF i = 0 THEN [assumptions |-> <<>>, frozentab |-> MappedFrozen]
            ELSE assume_in(R[i - 1], Signed(map[vidx(assumed[i])], assumed[i]))
    IN  R[Len(assumed)]

(* Called on level zero after all units are propagated. *)
compact ==
    LET new_e2i == [e \in ExtVars |-> IF e2i[e] = 0 THEN 0 ELSE map_lit(e2i[e])]
        R == reassumed(new_e2i)
    IN  /\ LevelZero /\ Vars \ Active # {} /\ compacts < setup.compacts
        /\ \A c \in Simplified(clauses, root) : Cardinality(c) > 1
        /\ e2i' = new_e2i
        /\ i2e' = map_vector(i2e, 0)
        /\ clauses' = {{map_lit(l) : l \in c} : c \in Simplified(clauses, root)}
        /\ root' = IF root = {} THEN {} ELSE {map_lit(CHOOSE l \in root : vidx(l) = first_fixed)}
        /\ inactive' = {}
        /\ frozentab' = R.frozentab /\ assumptions' = R.assumptions
        /\ QueueIs(MappedQueue) /\ ScoresAre(MappedScores)
        /\ trail' = IF root = {} THEN <<>> ELSE <<map_idx(first_fixed)>>
        /\ max_var' = new_max_var
        /\ compacts' = compacts + 1
        /\ UNCHANGED <<setup, stable, bumps, given, values, assumed, freezes>>

-----------------------------------------------------------------------------
(* What happens in between. *)

CInit ==
    /\ Init
    /\ e2i = [e \in ExtVars |-> 0] /\ i2e = [v \in 1..N |-> 0]
    /\ root = {} /\ inactive = {} /\ clauses = {} /\ frozentab = [v \in 1..N |-> 0]
    /\ assumptions = <<>> /\ assumed = <<>>
    /\ given = {} /\ values = {} /\ freezes = [e \in ExtVars |-> 0]
    /\ compacts = 0

(* The first use of an external variable, or the first one since its internal
   variable was given up; one that is eliminated becomes active again. *)
internalize(e) ==
    \/ /\ e2i[e] = 0 /\ max_var < N
       /\ compacts > 0 \/ \A i \in 1..(IndexIn(setup.order, e) - 1) : e2i[setup.order[i]] # 0
       /\ init_vars(max_var + 1, Assigned \ FixedVars)
       /\ e2i' = [e2i EXCEPT ![e] = max_var + 1]
       /\ i2e' = [i2e EXCEPT ![max_var + 1] = e]
       /\ UNCHANGED <<root, inactive, clauses, frozentab, assumptions, outside>>
    \/ /\ vidx(e2i[e]) \in inactive
       /\ inactive' = inactive \ {vidx(e2i[e])}
       /\ UNCHANGED <<vars, e2i, i2e, root, clauses, frozentab, assumptions, outside>>

Usable(elit) == e2i[vidx(elit)] # 0 /\ vidx(internal(elit)) \notin inactive

add(c) ==
    /\ \A elit \in c : Usable(elit)
    /\ clauses' = clauses \cup {{internal(elit) : elit \in c}}
    /\ given' = given \cup {c}
    /\ UNCHANGED <<vars, e2i, i2e, root, inactive, frozentab, assumptions, values, assumed,
                   freezes, compacts>>

assume(elit) ==
    LET R == assume_in([assumptions |-> assumptions, frozentab |-> frozentab], internal(elit))
    IN  /\ Usable(elit) /\ ~Contains(assumed, elit)
        /\ assumptions' = R.assumptions /\ frozentab' = R.frozentab
        /\ assumed' = Append(assumed, elit)
        /\ UNCHANGED <<vars, e2i, i2e, root, inactive, clauses, given, values, freezes, compacts>>

freeze(e) ==
    /\ Usable(e) /\ Total(freezes, ExtMax, ExtVars) < setup.freezes
    /\ frozentab' = [frozentab EXCEPT ![vidx(internal(e))] = @ + 1]
    /\ freezes' = [freezes EXCEPT ![e] = @ + 1]
    /\ UNCHANGED <<vars, e2i, i2e, root, inactive, clauses, assumptions, given, values, assumed,
                   compacts>>

(* A unit is learned on level zero. *)
fix(l) ==
    /\ LevelZero /\ vidx(l) \in Active /\ external(l) \in setup.units
    /\ assign(vidx(l))
    /\ root' = root \cup {l}
    /\ values' = values \cup {external(l)}
    /\ UNCHANGED <<e2i, i2e, inactive, clauses, frozentab, assumptions, given, assumed, freezes,
                   compacts>>

(* A variable that is not frozen leaves with its clauses. *)
eliminate(v) ==
    /\ LevelZero /\ v \in Active /\ frozentab[v] = 0 /\ i2e[v] \in setup.eliminable
    /\ inactive' = inactive \cup {v}
    /\ clauses' = {c \in clauses : {v, -v} \cap c = {}}
    /\ given' = {c \in given : {i2e[v], -i2e[v]} \cap c = {}}
    /\ UNCHANGED <<vars, e2i, i2e, root, frozentab, assumptions, values, assumed, freezes, compacts>>

(* Decisions, implications, conflicts and backtracking above level zero. *)
Search ==
    /\ setup.searching
    /\ DecisionStep(FixedVars)
    /\ UNCHANGED <<tables, outside>>

CNext ==
    \/ \E e \in ExtVars : internalize(e) \/ freeze(e)
    \/ \E c \in setup.clauses : add(c)
    \/ \E elit \in setup.assumable : assume(elit)
    \/ \E v \in Vars : fix(v) \/ fix(-v) \/ eliminate(v)
    \/ compact
    \/ Search

CSpec == CInit /\ [][CNext]_allvars

-----------------------------------------------------------------------------
(* Properties. *)

(* The internal clauses and the fixed literals mean the same to the user
   before and after a compaction. *)
MeaningKept ==
    /\ \A elit \in values : internal(elit) \in root
    /\ {{external(l) : l \in c} : c \in Simplified(clauses, root)} = Simplified(given, values)
    /\ \A v \in Active : vidx(e2i[i2e[v]]) = v

(* The internal assumptions are those of the user, and every reference to a
   variable is counted, also where several fixed variables became one. *)
ReferencesKept ==
    /\ ToSet(assumptions) = {internal(elit) : elit \in ToSet(assumed)}
    /\ \A v \in Vars \ inactive :
           frozentab[v] = Cardinality({l \in ToSet(assumptions) : vidx(l) = v})
                          + Total(freezes, ExtMax, {e \in ExtVars : vidx(e2i[e]) = v})

=============================================================================
