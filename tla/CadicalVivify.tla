---------------------------- MODULE CadicalVivify ----------------------------
(***************************************************************************)
(* Vivification of CaDiCaL (vivify.cpp): the literals of a clause are      *)
(* decided false one after the other while the clause itself is ignored.   *)
(* A conflict or an implied literal of the clause makes it superfluous or  *)
(* shorter.  The decisions of one clause are kept for the next one.  The   *)
(* first round vivifies irredundant clauses and connects only those, the   *)
(* second one vivifies redundant clauses.                                  *)
(*                                                                         *)
(* The clauses of the schedule are taken in any order, which leaves out    *)
(* the flags and glues that only order it, and a round may end at any      *)
(* clause, as the limit on propagations lets it.                           *)
(***************************************************************************)
EXTENDS CadicalAnalyze

CONSTANTS
    Formulas,    \* sets of clauses [lits, red, garbage] vivification starts with
    VivifyInst   \* opts.vivifyinst

VARIABLES
    S,
    original,    \* the clauses vivification started with
    mode,        \* irredundant, redundant, done
    order,       \* the literals, the ones with more occurrences first
    schedule,    \* the clauses to vivify, each as the set of its literals
    phase,       \* pick, literals, propagate, inst, apply
    c,           \* the clause that is vivified, ignored by propagation
    sorted,      \* its literals that are not fixed, in order
    next,        \* the position of the next one of them
    subsume,     \* the implied literal, Conflict after a conflict, 0
    remove,      \* an implied false literal, 0
    derived,     \* the clause of an analysis, {} when it has nothing to say
    binary,      \* only_binary_reasons
    visits,      \* clauses of the current literals that are not visited
    strengthened \* the clause that vivify_strengthen put in last

vars == <<S, original, mode, order, schedule, phase, c, sorted, next, subsume, remove, derived,
          binary, visits, strengthened>>

Conflict == N + 1   \* INT_MIN
redundant_mode == mode = "redundant"
mark_garbage_in(T, d) == Replaced(T, d, [d EXCEPT !.garbage = TRUE])
NoVisits == [lit |-> 0, long |-> {}, binary |-> {}]

(* Faulty variant: redundant clauses are never connected. *)
ConnectedIrredundant(T, m) == {d \in T.clauses : ~d.garbage /\ ~d.red}

(* The clauses that are watched in a round. *)
Connected(T, m) == {d \in T.clauses : ~d.garbage /\ (m = "irredundant" => ~d.red)}

(* Complete propagation at level zero, in one of the possible orders. *)
RECURSIVE propagate_connected(_, _)
propagate_connected(T, m) ==
    LET lit == -T.trail[T.propagated + 1]
        Visit(d, U) == IF U.conflict # <<>> THEN U
                       ELSE propagate_watch(U, d, lit, CHOOSE r \in Replacements(U, d, lit) : TRUE)
        visited == FoldSet(Visit, T, {d \in Connected(T, m) : lit \in Watched(d)})
    IN  IF T.conflict # <<>> THEN [learn_empty_clause(T) EXCEPT !.conflict = <<>>]
        ELSE IF T.propagated = Len(T.trail) THEN T
        ELSE propagate_connected([visited EXCEPT !.propagated = @ + 1], m)

-----------------------------------------------------------------------------
(* The schedule of a round. *)

considered(T, m) == {d \in T.clauses : ~d.garbage /\ (d.red <=> m = "redundant")}

(* Short clauses count more. *)
noccs(T, m, lit) ==
    MapThenSumSet(LAMBDA d : IF Len(d.lits) > 11 THEN 1 ELSE 2 ^ (12 - Len(d.lits)),
                  {d \in considered(T, m) : lit \in ToSet(d.lits)})

Inserted(s, x, Before(_, _)) ==
    LET k == Cardinality({i \in 1..Len(s) : ~Before(x, s[i])})
    IN  SubSeq(s, 1, k) \o <<x>> \o SubSeq(s, k + 1, Len(s))
SortedBy(s, Before(_, _)) == FoldLeft(LAMBDA t, x : Inserted(t, x, Before), <<>>, s)

vivify_more_noccs(T, m) ==
    LET n == [l \in Lits |-> noccs(T, m, l)]
        More(a, b) == IF n[a] # n[b] THEN n[a] > n[b]
                      ELSE IF a = -b THEN a > 0 ELSE vidx(a) < vidx(b)
    IN  SortedBy(Listed(Lits), More)

(* Lexicographic, but an extension comes before what it extends. *)
vivify_flush_smaller(a, b) ==
    LET differ == {i \in 1..Min({Len(a), Len(b)}) : a[i] # b[i]}
    IN  IF differ = {} THEN Len(a) > Len(b) ELSE a[Min(differ)] < b[Min(differ)]

(* The scan marks a clause that has the one before it as a prefix. *)
flush_vivification_schedule(clauses) ==
    LET Scan(s, d) ==
            IF s.prev # <<>> /\ Len(d.lits) >= Len(s.prev) /\ IsPrefix(s.prev, d.lits)
            THEN [s EXCEPT !.flushed = @ \cup {d}]
            ELSE [s EXCEPT !.prev = d.lits, !.kept = @ \cup {d}]
    IN  FoldLeft(Scan, [prev |-> <<>>, kept |-> {}, flushed |-> {}],
                 SortedBy(clauses, LAMBDA a, b : vivify_flush_smaller(a.lits, b.lits)))

(* The state and the schedule of a round: the literals of every scheduled
   clause are sorted, which changes the ones that are watched. *)
StartOfRound(T, m) ==
    LET o == vivify_more_noccs(T, m)
        long == {d \in considered(T, m) : Len(d.lits) > 2}
        listed == Listed(long)
        inOrder == [i \in 1..Len(listed) |->
                       [listed[i] EXCEPT !.lits = SelectSeq(o, LAMBDA l : l \in ToSet(@))]]
        scan == flush_vivification_schedule(inOrder)
    IN  [order |-> o, schedule |-> {ToSet(d.lits) : d \in scan.kept},
         S |-> propagate_connected(
                   [T EXCEPT !.clauses = (@ \ long) \cup scan.kept
                                             \cup {[d EXCEPT !.garbage = TRUE] : d \in scan.flushed},
                             !.propagated = 0], m)]

BeginRound(m, T) ==
    LET r == StartOfRound(T, m)
    IN  /\ mode' = m
        /\ S' = r.S
        /\ order' = r.order
        /\ schedule' = r.schedule

-----------------------------------------------------------------------------
(* Assignments and propagation, binary clauses first. *)

vivify_assign(T, lit, reason) ==
    [T EXCEPT !.trail = Append(@, lit), !.level = [@ EXCEPT ![vidx(lit)] = level(T)],
              !.reason = [@ EXCEPT ![vidx(lit)] = reason]]

vivify_assume(T, lit) ==
    [vivify_assign(new_trail_level(T, lit), lit, {}) EXCEPT !.propagated2 = T.propagated]

VisitBinary(T, d, lit) ==
    LET other == OtherWatch(d, lit)
    IN  IF other \in True(T) THEN T
        ELSE IF other \in False(T) THEN [T EXCEPT !.conflict = d.lits]
        ELSE vivify_assign(T, other, ToSet(d.lits))

VisitLong(T, d, lit, r) ==
    LET other == OtherWatch(d, lit)
    IN  IF r > 0 THEN IF d.lits[r] \in True(T) THEN T ELSE Replaced(T, d, Moved(d, lit, r))
        ELSE IF other \in False(T) THEN [T EXCEPT !.conflict = d.lits]
        ELSE vivify_assign(T, other, ToSet(d.lits))

Propagating == phase \in {"propagate", "instpropagate"}
Watching(lit) == {d \in Connected(S, mode) : lit \in Watched(d)}
PropagationDone ==
    /\ Propagating /\ visits.binary = {} /\ visits.long = {}
    /\ S.propagated2 = Len(S.trail)
    /\ S.conflict # <<>> \/ S.propagated = Len(S.trail)

(* One step of vivify_propagate.  A conflict in a longer clause ends the visits
   of the literal's clauses. *)
vivify_propagate ==
    /\ Propagating
    /\ \/ \E d \in visits.binary :
              /\ S' = VisitBinary(S, d, visits.lit)
              /\ visits' = [visits EXCEPT !.binary = @ \ {d}]
       \/ \E d \in visits.long : \E r \in Replacements(S, d, visits.lit) :
              /\ S' = VisitLong(S, d, visits.lit, r)
              /\ visits' = [visits EXCEPT !.long = IF S'.conflict # <<>> THEN {} ELSE @ \ {d}]
       \/ LET lit == -S.trail[S.propagated2 + 1]
          IN  /\ visits.binary = {} /\ visits.long = {} /\ S.propagated2 < Len(S.trail)
              /\ S' = [S EXCEPT !.propagated2 = @ + 1]
              /\ visits' = [NoVisits EXCEPT !.lit = lit,
                                            !.binary = {d \in Watching(lit) : Len(d.lits) = 2}]
       \/ LET lit == -S.trail[S.propagated + 1]
          IN  /\ visits.binary = {} /\ visits.long = {} /\ S.propagated2 = Len(S.trail)
              /\ S.conflict = <<>> /\ S.propagated < Len(S.trail)
              /\ S' = [S EXCEPT !.propagated = @ + 1]
              /\ visits' = [NoVisits EXCEPT !.lit = lit,
                                            !.long = {d \in Watching(lit) : Len(d.lits) > 2} \ {c}]
    /\ UNCHANGED <<original, mode, order, schedule, phase, c, sorted, next, subsume, remove,
                   derived, binary, strengthened>>

-----------------------------------------------------------------------------
(* Analysis, in redundant mode only. *)

(* The clauses that the implications of a clause go back to. *)
ReasonClauses(T, start) ==
    LET closure[n \in 0..N] ==
            IF n = 0 THEN {start}
            ELSE LET before == closure[n - 1]
                 IN  before \cup ({T.reason[vidx(l)] : l \in UNION before} \ {{}})
    IN  closure[N]

vivify_analyze_redundant(T, start) ==
    LET clauses == ReasonClauses(T, start)
    IN  [seen |-> {vidx(l) : l \in {k \in UNION clauses : lev(T, k) > 0}},
         binary |-> \A d \in clauses : Cardinality(d) = 2]

vivify_all_decisions(T, seen, lits) ==
    \A l \in lits : /\ l \in False(T)
                    /\ lev(T, l) > 0 => T.reason[vidx(l)] = {} /\ vidx(l) \in seen

(* The negated decisions the analysis met, and the implied literal. *)
vivify_post_process_analysis(T, seen, lits, sub) ==
    IF vivify_all_decisions(T, seen, lits \ {sub}) THEN {}
    ELSE {l \in lits : \/ l = sub
                       \/ /\ l \in False(T) /\ lev(T, l) > 0
                          /\ T.reason[vidx(l)] = {} /\ vidx(l) \in seen}

(* What becomes of derived and only_binary_reasons when the clause is implied
   by start with the literal sub, or start is falsified. *)
Analyzed(start, sub) ==
    LET a == vivify_analyze_redundant(S, start)
    IN  /\ binary' = (redundant_mode /\ a.binary)
        /\ derived' = IF ~redundant_mode \/ a.binary THEN {}
                      ELSE vivify_post_process_analysis(S, a.seen, ToSet(c.lits), sub)

-----------------------------------------------------------------------------
(* One clause. *)

(* The literals of a strengthened clause with the ones to watch in front, and
   the level to go back to so that none of these two is false, unless the
   other one is true on a level that is not higher. *)
vivify_better_watch(T, clause) ==
    LET Better(a, b) ==
            IF a \in False(T) <=> b \in False(T)
            THEN a \in True(T) \cup False(T) /\ b \in True(T) \cup False(T) /\ pos(T, a) > pos(T, b)
            ELSE b \in False(T)
    IN  SortedBy(Listed(clause), Better)

(* Faulty variant: the trail is not undone for the clause. *)
StrengthenLevelCurrent(T, lits) == level(T)

StrengthenLevel(T, lits) ==
    LET lit0 == lits[1]
        lit1 == lits[2]
    IN  IF lit1 \in False(T) /\ ~(lit0 \in True(T) /\ lev(T, lit0) <= lev(T, lit1))
        THEN lev(T, lit1) - 1
        ELSE IF lit0 \in False(T) THEN lev(T, lit0) - 1 ELSE level(T)

vivify_strengthen(clause) ==
    LET lits == vivify_better_watch(S, clause)
        T == mark_garbage_in(S, c)
    IN  IF Len(lits) = 1
        THEN /\ S' = propagate_connected(search_assign(backtrack(T, 0), lits[1], <<>>), mode)
             /\ strengthened' = {}
        ELSE /\ S' = [backtrack(T, StrengthenLevel(S, lits)) EXCEPT
                          !.clauses = @ \cup {Clause(lits, c.red)}]
             /\ strengthened' = {lits[1], lits[2]}

(* Faulty variant: the clause may be the reason of a literal on the trail. *)
WithoutReason_kept(T, d) == T

(* The trail on which the clause is not a reason. *)
WithoutReason(T, d) ==
    LET forced == {l \in ToSet(d.lits) \cap True(T) : T.reason[vidx(l)] = ToSet(d.lits)}
    IN  IF forced = {} THEN T ELSE backtrack(T, lev(T, CHOOSE l \in forced : TRUE) - 1)

(* The decisions that are those of the literals of the clause stay. *)
Reuse(T, lits) ==
    LET Same(k) == \A i \in 1..k : T.control[i].decision = -lits[i]
        same == MaxOf({k \in 1..Min({level(T), Len(lits)}) : Same(k)})
    IN  IF same = Len(lits) THEN T ELSE backtrack(T, same)

vivify_clause(lits) ==
    LET d == CHOOSE e \in considered(S, mode) : ToSet(e.lits) = lits
        inOrder == SelectSeq(order, LAMBDA l : l \in lits /\ l \notin Negated(Fixed(S)))
        T == WithoutReason(S, d)
    IN  /\ phase = "pick" /\ ~S.unsat
        /\ schedule' = schedule \ {lits}
        /\ c' = d
        /\ IF lits \cap Fixed(S) # {}
           THEN /\ S' = mark_garbage_in(S, d)
                /\ UNCHANGED <<phase, sorted>>
           ELSE /\ S' = IF level(T) = 0 THEN T ELSE Reuse(T, inOrder)
                /\ sorted' = inOrder
                /\ phase' = "literals"
        /\ next' = 1 /\ subsume' = 0 /\ remove' = 0
        /\ derived' = {} /\ binary' = FALSE /\ strengthened' = {}
        /\ UNCHANGED <<original, mode, order, visits>>

(* The next literal of the clause: decided false, skipped because it is decided
   already, or implied. *)
VisitLiteral ==
    LET lit == sorted[next]
        reason == S.reason[vidx(lit)]
    IN  /\ phase = "literals" /\ subsume = 0 /\ next <= Len(sorted)
        /\ next' = next + 1
        /\ \/ /\ lit \in Unassigned(S)
              /\ S' = vivify_assume(S, -lit)
              /\ phase' = "propagate" /\ visits' = NoVisits
              /\ UNCHANGED <<subsume, remove, derived, binary>>
           \/ /\ lit \notin Unassigned(S) /\ reason = {}
              /\ UNCHANGED <<S, phase, visits, subsume, remove, derived, binary>>
           \/ /\ lit \in True(S) /\ reason # {}
              /\ subsume' = lit
              /\ Analyzed(reason, lit)
              /\ S' = IF redundant_mode THEN backtrack(S, level(S) - 1) ELSE S
              /\ UNCHANGED <<phase, visits, remove>>
           \/ /\ lit \in False(S) /\ reason # {}
              /\ remove' = lit
              /\ UNCHANGED <<S, phase, visits, subsume, derived, binary>>
        /\ UNCHANGED <<original, mode, order, schedule, c, sorted, strengthened>>

Propagated ==
    /\ PropagationDone /\ phase = "propagate"
    /\ phase' = "literals"
    /\ IF S.conflict = <<>>
       THEN UNCHANGED <<S, subsume, derived, binary>>
       ELSE /\ subsume' = Conflict
            /\ Analyzed(ToSet(S.conflict), Conflict)
            /\ S' = [backtrack(S, level(S) - 1) EXCEPT !.conflict = <<>>]
    /\ UNCHANGED <<original, mode, order, schedule, c, sorted, next, remove, visits, strengthened>>

(* The last literal is decided true instead of false. *)
Instantiates == VivifyInst /\ subsume = 0 /\ remove # Last(sorted)
LiteralsDone == phase = "literals" /\ (subsume # 0 \/ next > Len(sorted))

Instantiate ==
    /\ LiteralsDone
    /\ IF Instantiates
       THEN /\ S' = vivify_assume(backtrack(S, level(S) - 1), Last(sorted))
            /\ phase' = "instpropagate"
       ELSE phase' = "apply" /\ UNCHANGED S
    /\ visits' = NoVisits
    /\ UNCHANGED <<original, mode, order, schedule, c, sorted, next, subsume, remove, derived,
                   binary, strengthened>>

Instantiated ==
    /\ PropagationDone /\ phase = "instpropagate"
    /\ phase' = "apply"
    /\ IF S.conflict = <<>> THEN UNCHANGED <<S, remove>>
       ELSE /\ remove' = Last(sorted)
            /\ S' = [backtrack(S, level(S) - 1) EXCEPT !.conflict = <<>>]
    /\ UNCHANGED <<original, mode, order, schedule, c, sorted, next, subsume, derived, binary,
                   visits, strengthened>>

(* The decisions of the clause without the removed literal. *)
WithoutRemoved(T) == {l \in ToSet(c.lits) \ {remove} : lev(T, l) > 0 /\ T.reason[vidx(l)] = {}}

Apply ==
    /\ phase = "apply"
    /\ phase' = "pick"
    /\ IF subsume # 0 /\ redundant_mode /\ ~binary
       THEN IF derived # {} THEN vivify_strengthen(derived) ELSE UNCHANGED <<S, strengthened>>
       ELSE IF subsume # 0
       THEN S' = mark_garbage_in(S, c) /\ UNCHANGED strengthened
       ELSE IF remove # 0
       THEN vivify_strengthen(WithoutRemoved(S))
       ELSE UNCHANGED <<S, strengthened>>
    /\ UNCHANGED <<original, mode, order, schedule, c, sorted, next, subsume, remove, derived,
                   binary, visits>>

-----------------------------------------------------------------------------
(* The rounds. *)

Idle ==
    /\ phase = "pick"
    /\ c = [lits |-> <<>>, red |-> FALSE, garbage |-> FALSE]
    /\ sorted = <<>> /\ next = 1 /\ subsume = 0 /\ remove = 0
    /\ derived = {} /\ binary = FALSE /\ visits = NoVisits /\ strengthened = {}

Init ==
    /\ original \in Formulas
    /\ mode = "irredundant"
    /\ LET r == StartOfRound([NewState EXCEPT !.clauses = original] @@ [propagated2 |-> 0], mode)
       IN  S = r.S /\ order = r.order /\ schedule = r.schedule
    /\ Idle

(* The trail is given up, all clauses are connected and propagated. *)
EndRound ==
    LET T == propagate_connected([backtrack(S, 0) EXCEPT !.propagated = 0], "redundant")
    IN  /\ phase = "pick" /\ mode # "done"
        /\ IF mode = "irredundant" /\ ~T.unsat
           THEN BeginRound("redundant", T)
           ELSE mode' = "done" /\ S' = T /\ schedule' = {} /\ UNCHANGED order
        /\ strengthened' = {}
        /\ UNCHANGED <<original, phase, c, sorted, next, subsume, remove, derived, binary, visits>>

Next ==
    \/ \E lits \in schedule : vivify_clause(lits)
    \/ VisitLiteral \/ vivify_propagate \/ Propagated
    \/ Instantiate \/ Instantiated \/ Apply \/ EndRound

Spec == Init /\ [][Next]_vars

-----------------------------------------------------------------------------
(* Properties. *)

(* The last literal of the clause is the last decision when it is decided the
   other way around, although decisions of other clauses are reused. *)
InstantiatesLast ==
    LiteralsDone /\ Instantiates =>
        S.control[level(S)].decision = -Last(sorted)

(* A strengthened clause is put in on a trail where its watches are not false,
   or the false one is younger than the true one. *)
NewClauseWatched ==
    \A l \in strengthened \cap False(S) :
        \E k \in strengthened \cap True(S) : lev(S, k) <= lev(S, l)

=============================================================================
