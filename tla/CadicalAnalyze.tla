--------------------------- MODULE CadicalAnalyze ---------------------------
(***************************************************************************)
(* Trail, propagation and conflict analysis of CaDiCaL: propagate.cpp,     *)
(* backtrack.cpp, analyze.cpp, minimize.cpp, shrink.cpp, and the addition  *)
(* of a clause while the trail is not empty (clause.cpp).                  *)
(*                                                                         *)
(* The search state S is a record.  clauses holds the clauses, each with   *)
(* the sequence of its literals, of which the first two are watched, and   *)
(* its flags; trail the assigned literals in order, level and reason the   *)
(* entries of vtab (a reason is the set of the literals of its clause, {}  *)
(* when there is none); control the decision and the height of the trail   *)
(* of every level; propagated the number of trail literals whose watches   *)
(* were visited; conflict the falsified clause; tainted the variable of    *)
(* lowest level that flip changed.  Blocking literals and the saved        *)
(* position of a watch replacement only change which of several            *)
(* replacements is found, so any of them may be.                           *)
(***************************************************************************)
EXTENDS CadicalFormula

CONSTANTS
    Chrono,     \* opts.chrono
    Otfs        \* opts.otfs

ASSUME ChronoAssumption == Chrono \in 0..2
ASSUME OtfsAssumption == Otfs \in BOOLEAN

NewState == [clauses |-> {}, trail |-> <<>>, level |-> [v \in Vars |-> 0],
             reason |-> [v \in Vars |-> {}], control |-> <<>>, propagated |-> 0,
             conflict |-> <<>>, unsat |-> FALSE, tainted |-> 0]

Clause(lits, red) == [lits |-> lits, red |-> red, garbage |-> FALSE]
MaxOf(S) == Max(S \cup {0})
Once(x, Op(_)) == CHOOSE r \in {Op(y) : y \in {x}} : TRUE   \* evaluates x once

level(S) == Len(S.control)
True(S) == ToSet(S.trail)
False(S) == Negated(True(S))
Unassigned(S) == Lits \ (True(S) \cup False(S))
lev(S, l) == S.level[vidx(l)]
pos(S, l) == CHOOSE i \in 1..Len(S.trail) : vidx(S.trail[i]) = vidx(l)
Fixed(S) == {l \in True(S) : lev(S, l) = 0}
Watched(c) == {c.lits[1], c.lits[2]}
Holding(S, reason) == CHOOSE c \in S.clauses : ToSet(c.lits) = reason
Replaced(S, c, d) == [S EXCEPT !.clauses = (@ \ {c}) \cup {d}]

OtherWatch(c, lit) == CHOOSE l \in Watched(c) : l # lit
PosIn(c, lit) == CHOOSE i \in 1..Len(c.lits) : c.lits[i] = lit

-----------------------------------------------------------------------------
(* Assigning and unassigning. *)

(* The level of an implied literal is that of the last assigned literal of
   its reason, which chronological backtracking leaves below the current one. *)
assignment_level(S, lit, lits) ==
    IF Chrono = 0 THEN level(S) ELSE MaxOf({lev(S, o) : o \in ToSet(lits) \ {lit}})

search_assign(S, lit, lits) ==
    LET l == IF lits = <<>> THEN 0 ELSE assignment_level(S, lit, lits)
    IN  [S EXCEPT !.trail = Append(@, lit),
                  !.level = [@ EXCEPT ![vidx(lit)] = l],
                  !.reason = [@ EXCEPT ![vidx(lit)] = IF l = 0 THEN {} ELSE ToSet(lits)]]

new_trail_level(S, lit) ==
    [S EXCEPT !.control = Append(@, [decision |-> lit, trail |-> Len(S.trail)])]

search_assume_decision(S, lit) ==
    LET D == new_trail_level(S, lit)
    IN  [D EXCEPT !.trail = Append(@, lit), !.level = [@ EXCEPT ![vidx(lit)] = level(D)]]

(* The literals of a level above new_level are unassigned; the ones of a
   lower level that were assigned later stay and move down on the trail. *)
Unassigned_above(S, new_level) ==
    LET assigned == S.control[new_level + 1].trail
        above == SubSeq(S.trail, assigned + 1, Len(S.trail))
        gone == {vidx(l) : l \in {m \in ToSet(above) : lev(S, m) > new_level}}
    IN  [S EXCEPT !.trail = SubSeq(@, 1, assigned)
                                \o SelectSeq(above, LAMBDA l : lev(S, l) <= new_level),
                  !.level = [v \in Vars |-> IF v \in gone THEN 0 ELSE @[v]],
                  !.reason = [v \in Vars |-> IF v \in gone THEN {} ELSE @[v]],
                  !.control = SubSeq(@, 1, new_level),
                  !.tainted = IF @ \in gone THEN 0 ELSE @]

(* Faulty variant: the literals that are gone count as propagated. *)
backtrack_forgets_propagated(S, new_level) ==
    IF new_level = level(S) THEN S ELSE Unassigned_above(S, new_level)

(* Faulty variant: the literals that stay are not propagated again. *)
backtrack_keeps_propagated(S, new_level) ==
    IF new_level = level(S) THEN S
    ELSE LET T == Unassigned_above(S, new_level)
         IN  [T EXCEPT !.propagated = Min({@, Len(T.trail)})]

backtrack(S, new_level) ==
    IF new_level = level(S) THEN S
    ELSE [Unassigned_above(S, new_level) EXCEPT
              !.propagated = Min({@, S.control[new_level + 1].trail})]

learn_empty_clause(S) == [S EXCEPT !.unsat = TRUE]

-----------------------------------------------------------------------------
(* One visit of propagate: the watch of clause c on the literal lit, which
   has just become false.  r is a position of another literal of c that is
   not false, 0 when there is none. *)

Replacements(S, c, lit) ==
    LET other == OtherWatch(c, lit)
        R == {i \in 3..Len(c.lits) : c.lits[i] \notin False(S)}
    IN  IF other \in True(S) THEN {PosIn(c, other)}
        ELSE IF R = {} THEN {0} ELSE R

(* The watch moves from lit to the literal at position k. *)
Moved(c, lit, k) ==
    [c EXCEPT !.lits = [@ EXCEPT ![1] = OtherWatch(c, lit), ![2] = c.lits[k], ![k] = lit]]

(* With opts.chrono = 2 a clause that forced a literal of a higher level than
   lit watches a second literal of that level instead of lit. *)
Rewatched(S, c, lit, other) ==
    IF Chrono > 1 /\ lev(S, other) > lev(S, lit)
    THEN LET k == CHOOSE i \in 3..Len(c.lits) : lev(S, c.lits[i]) = lev(S, other)
         IN  Replaced(S, c, Moved(c, lit, k))
    ELSE S

propagate_watch(S, c, lit, r) ==
    LET other == OtherWatch(c, lit)
    IN  IF c.garbage /\ Len(c.lits) > 2 THEN S
        ELSE IF r = 0
        THEN IF other \in False(S) THEN [S EXCEPT !.conflict = c.lits]
             ELSE Rewatched(search_assign(S, other, c.lits), c, lit, other)
        ELSE IF c.lits[r] \in True(S) THEN S
        ELSE Replaced(S, c, Moved(c, lit, r))

-----------------------------------------------------------------------------
(* Conflict analysis. *)

(* Brings literals of the two highest levels of the conflict to the front,
   where they are watched. *)
HighestFirst(S, lits) ==
    LET BringUp(c, i) ==
            LET higher == {j \in (i + 1)..Len(c) : lev(S, c[j]) > lev(S, c[i])}
                best == {j \in higher : \A k \in higher : lev(S, c[j]) >= lev(S, c[k])}
            IN  IF higher = {} THEN c
                ELSE [c EXCEPT ![i] = c[Min(best)], ![Min(best)] = c[i]]
    IN  BringUp(BringUp(lits, 1), 2)

conflict_level(S) == MaxOf({lev(S, l) : l \in ToSet(S.conflict)})
OnConflictLevel(S) == {l \in ToSet(S.conflict) : lev(S, l) = conflict_level(S)}

find_conflict_level(S) ==
    LET c == CHOOSE d \in S.clauses : d.lits = S.conflict
        d == [c EXCEPT !.lits = HighestFirst(S, @)]
    IN  [Replaced(S, c, d) EXCEPT !.conflict = d.lits]

(* The levels analyze may backtrack to when the learned clause has its second
   literal on level jump: chronological backtracking keeps more of the trail,
   but never below the levels of the assumptions. *)
determine_actual_backtrack_level(S, jump, assumptions) ==
    IF Chrono = 0 \/ jump >= level(S) - 1 \/ jump < Len(assumptions) THEN {jump}
    ELSE jump..(level(S) - 1)

(* The record a of a running analysis: the literals seen, the literals of
   lower levels for the learned clause, how many of the current level are
   still open, and the sizes that detect a strengthened antecedent. *)
analyze_reason(S, a, uip, reason) ==
    LET others == {l \in reason \ {uip} : lev(S, l) > 0}
        new == others \ a.seen
        current == {l \in new : lev(S, l) = level(S)}
    IN  [a EXCEPT !.seen = @ \cup new,
                  !.clause = @ \cup (new \ current),
                  !.open = @ + Cardinality(current),
                  !.resolvent_size = @ + Cardinality(new),
                  !.antecedent_size = 1 + Cardinality(others)]

StartAnalysis(S, i, ever) ==
    LET a == analyze_reason(S, [S |-> S, seen |-> {}, ever |-> ever, clause |-> {}, open |-> 0,
                                resolvent_size |-> 0, antecedent_size |-> 1, conflict_size |-> 0,
                                resolved |-> 0, i |-> i, uip |-> 0, forced |-> 0],
                            0, ToSet(S.conflict))
    IN  [a EXCEPT !.conflict_size = a.antecedent_size - 1]

(* Removes uip and the fixed literals from the antecedent c; the other watch
   stays and a literal of the highest level is watched in place of uip. *)
on_the_fly_strengthen(S, c, uip) ==
    LET rest == SelectSeq(c.lits, LAMBDA l : lev(S, l) > 0 /\ l # uip)
        kept == <<rest[1], Last(rest)>> \o SubSeq(rest, 2, Len(rest) - 1)
        highest == {i \in 2..Len(kept) : \A j \in 2..Len(kept) : lev(S, kept[i]) >= lev(S, kept[j])}
    IN  [c EXCEPT !.lits = [kept EXCEPT ![2] = kept[Min(highest)], ![Min(highest)] = kept[2]]]

(* Faulty variant: the flag of the subsumed conflict is lost with it. *)
otfs_subsume_clause_forgets(S, subsuming, subsumed) ==
    Replaced(S, subsumed, [subsumed EXCEPT !.garbage = TRUE])

(* The strengthened antecedent replaces the conflict when it subsumes it, and
   is irredundant then if the conflict was. *)
otfs_subsume_clause(S, subsuming, subsumed) ==
    LET d == [subsuming EXCEPT !.red = @ /\ subsumed.red]
    IN  Replaced(Replaced(S, subsuming, d), subsumed, [subsumed EXCEPT !.garbage = TRUE])

StrengthenedAntecedent(a) ==
    Otfs /\ a.resolved > 0 /\ a.antecedent_size > 2 /\ a.resolvent_size < a.antecedent_size

(* The antecedent of uip without uip becomes the conflict.  When it has one
   literal of the current level left the analysis ends and forces it. *)
Strengthen(a) ==
    LET c == Holding(a.S, a.S.reason[vidx(a.uip)])
        d == on_the_fly_strengthen(a.S, c, a.uip)
        old == CHOOSE e \in a.S.clauses : e.lits = a.S.conflict
        S1 == Replaced(a.S, c, d)
        S2 == IF a.resolved = 1 /\ a.resolvent_size < a.conflict_size
              THEN otfs_subsume_clause(S1, d, old) ELSE S1
        S3 == [S2 EXCEPT !.conflict = d.lits]
    IN  IF a.open = 1
        THEN [a EXCEPT !.S = S3,
                       !.forced = CHOOSE l \in ToSet(d.lits) : lev(S3, l) = level(S3)]
        ELSE StartAnalysis(S3, a.i, a.ever \cup a.seen)

(* Resolving backwards along the trail until one literal of the current level
   is left, the first unique implication point. *)
RECURSIVE Resolve(_)
Resolve(a0) ==
    LET From(a) ==
            LET next == Max({pos(a.S, l) : l \in {m \in a.seen : lev(a.S, m) = level(a.S)
                                                                /\ pos(a.S, m) < a.i}})
                uip == a.S.trail[next]
            IN  IF a.forced # 0 THEN a
                ELSE IF a.open = 1
                THEN [a EXCEPT !.uip = uip, !.clause = @ \cup {-uip}, !.i = next, !.open = 0]
                ELSE Resolve(analyze_reason(a.S, [a EXCEPT !.uip = uip, !.i = next, !.open = @ - 1,
                                                  !.resolved = @ + 1, !.resolvent_size = @ - 1],
                                            uip, a.S.reason[vidx(uip)]))
    IN  Once(IF StrengthenedAntecedent(a0) THEN Strengthen(a0) ELSE a0, From)

-----------------------------------------------------------------------------
(* Minimization and shrinking of the learned clause.  m holds the flags of
   the variables: keep, removable and poison, and for every level the lowest
   trail position seen there; no literal below it can be removed. *)

LowestSeen(S, seen) ==
    [l \in 1..level(S) |-> LET P == {pos(S, k) : k \in {j \in seen : lev(S, j) = l}}
                           IN  IF P = {} THEN Len(S.trail) ELSE Min(P)]

(* A true literal is removable when its reason follows from literals that are
   kept or removable. *)
RECURSIVE minimize_literal(_, _, _)
minimize_literal(S, m, lit) ==
    LET v == vidx(lit)
        Next(r, other) == IF r.ok THEN minimize_literal(S, r.m, -other) ELSE r
        r == FoldLeft(Next, [ok |-> TRUE, m |-> m],
                      SelectSeq(Holding(S, S.reason[v]).lits, LAMBDA l : l # lit))
    IN  IF S.level[v] = 0 \/ v \in m.removable \cup m.keep THEN [ok |-> TRUE, m |-> m]
        ELSE IF \/ S.reason[v] = {} \/ v \in m.poison \/ S.level[v] = level(S)
                \/ pos(S, v) <= m.lowest[S.level[v]]
        THEN [ok |-> FALSE, m |-> m]
        ELSE IF r.ok THEN [r EXCEPT !.m.removable = @ \cup {v}]
        ELSE [r EXCEPT !.m.poison = @ \cup {v}]

(* A literal met while a block is resolved: of the level of the block it
   joins it, of a lower level it must be removable. *)
shrink_literal(S, b, lit) ==
    LET v == vidx(lit)
        r == minimize_literal(S, b.m, -lit)
    IN  IF b.failed \/ S.level[v] = 0 \/ v \in b.shrinkable THEN b
        ELSE IF S.level[v] < b.blevel
        THEN IF v \in b.m.removable THEN b ELSE [b EXCEPT !.m = r.m, !.failed = ~r.ok]
        ELSE [b EXCEPT !.shrinkable = @ \cup {v}, !.open = @ \cup {v}, !.m.poison = @ \ {v}]

(* Resolves the literals of one level until one of that level is left. *)
RECURSIVE shrink_along(_, _)
shrink_along(S, b) ==
    LET uip == CHOOSE v \in b.open : \A w \in b.open : pos(S, v) >= pos(S, w)
        true == S.trail[pos(S, uip)]
        others == SelectSeq(Holding(S, S.reason[uip]).lits, LAMBDA l : l # true)
        next == FoldLeft(LAMBDA c, l : shrink_literal(S, c, l), [b EXCEPT !.open = @ \ {uip}], others)
    IN  IF b.failed THEN b
        ELSE IF b.open = {uip} THEN [b EXCEPT !.uip = true]
        ELSE shrink_along(S, next)

(* A block that cannot be replaced by one literal is minimized literal by
   literal, from the bottom of the trail. *)
shrunken_block_no_uip(S, m, block) ==
    LET Try(r, lit) ==
            LET t == minimize_literal(S, r.m, -lit)
            IN  IF t.ok THEN [r EXCEPT !.m = t.m]
                ELSE [r EXCEPT !.m = [t.m EXCEPT !.keep = @ \cup {vidx(lit)}], !.lits = @ \cup {lit}]
    IN  FoldLeft(Try, [m |-> m, lits |-> {}], Sorted(block, LAMBDA k, l : pos(S, k) < pos(S, l)))

shrink_block(S, m, block, blevel) ==
    LET start == [m |-> [m EXCEPT !.poison = @ \ {vidx(l) : l \in block}], blevel |-> blevel,
                  shrinkable |-> {vidx(l) : l \in block}, open |-> {vidx(l) : l \in block},
                  failed |-> FALSE, uip |-> 0]
        b == shrink_along(S, start)
    IN  IF Cardinality(block) = 1
        THEN [m |-> [m EXCEPT !.keep = @ \cup {vidx(l) : l \in block}], lits |-> block]
        ELSE IF b.failed THEN shrunken_block_no_uip(S, b.m, block)
        ELSE [m |-> [b.m EXCEPT !.keep = @ \cup {vidx(b.uip)}, !.removable = @ \cup b.shrinkable,
                                !.lowest = [@ EXCEPT ![blevel] = pos(S, b.uip)]],
              lits |-> {-b.uip}]

(* Block by block, from the lowest level up to the one below the current. *)
shrink_and_minimize_clause(S, clause, uip, seen) ==
    LET Block(l) == {k \in clause \ {-uip} : lev(S, k) = l}
        Do(r, l) == IF Block(l) = {} THEN r
                    ELSE LET t == shrink_block(S, r.m, Block(l), l)
                         IN  [m |-> t.m, lits |-> r.lits \cup t.lits]
        m0 == [keep |-> {}, removable |-> {}, poison |-> {}, lowest |-> LowestSeen(S, seen)]
    IN  FoldLeft(Do, [m |-> m0, lits |-> {-uip}], [l \in 1..level(S) |-> l]).lits

(* The learned clause, sorted so that the two highest levels are watched. *)
new_driving_clause(S, clause) ==
    Sorted(clause, LAMBDA k, l : lev(S, k) > lev(S, l) \/ (lev(S, k) = lev(S, l) /\ pos(S, k) > pos(S, l)))

(* Redundant clauses learned recently that the new one subsumes. *)
eagerly_subsume_recently_learned_clauses(S, lits) ==
    [S EXCEPT !.clauses = {IF c.red /\ ToSet(lits) \subseteq ToSet(c.lits) /\ c.lits # lits
                           THEN [c EXCEPT !.garbage = TRUE] ELSE c : c \in @}]

=============================================================================
