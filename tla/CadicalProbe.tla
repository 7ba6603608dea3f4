---------------------------- MODULE CadicalProbe ----------------------------
(***************************************************************************)
(* Failed literal probing of CaDiCaL (probe.cpp): a root of the binary     *)
(* implication graph is decided on level one and propagated, binary        *)
(* clauses first.  Every implied literal gets a parent that implies it     *)
(* alone, found as the dominator of the literals of its reason, and a      *)
(* hyper binary resolvent is derived on the way.  A conflict yields the    *)
(* negation of the dominator of the conflict as a unit, and the negations  *)
(* of all its ancestors up to the probe.                                   *)
(*                                                                         *)
(* The search state S of CadicalAnalyze gets three fields: parent, the     *)
(* parents of the true literals, propagated2, the trail literals whose     *)
(* binary clauses were visited, and propfixed, the number of fixed         *)
(* literals when a literal was last assigned on level one.                 *)
(***************************************************************************)
EXTENDS CadicalAnalyze

CONSTANTS
    Formulas,   \* sets of clauses [lits, red, garbage] probing starts with
    MaxRounds   \* opts.proberounds

VARIABLES
    hbr,       \* opts.probehbr
    S,
    original,  \* the clauses and the redundant clauses probing started with
    phase,     \* next, probing, units, idle
    probes,    \* the roots still to be probed, the last one first
    probe,     \* the probe that is decided
    pending2,  \* binary clauses of the current literal that are not visited
    pending,   \* longer ones
    lits,      \* <<the current literal, the one of probe_propagate2>>
    work,      \* ancestors of the failed literal's dominator
    rounds, failed

vars == <<hbr, S, original, phase, probes, probe, pending2, pending, lits, work, rounds, failed>>

Irredundant(C) == {ToSet(c.lits) : c \in {d \in C : ~d.red /\ ~d.garbage}}
Live(C) == {c \in C : ~c.garbage}
LiteralSets(C) == {ToSet(c.lits) : c \in Live(C)}
FixedClauses(T) == {{l} : l \in Fixed(T)}
fixed(T) == Cardinality(Fixed(T))
active(T, lit) == lit \notin Fixed(T) \cup Negated(Fixed(T))

-----------------------------------------------------------------------------
(* Dominators and hyper binary resolution. *)

(* Faulty variant: the literal assigned first is taken without a walk. *)
probe_dominator_first(T, l, k) == IF pos(T, l) > pos(T, k) THEN k ELSE l

(* The literal assigned later is replaced by its parent until the two meet. *)
RECURSIVE probe_dominator(_, _, _)
probe_dominator(T, l, k) ==
    IF l = k THEN l
    ELSE IF pos(T, l) > pos(T, k) THEN probe_dominator(T, k, l)
    ELSE IF T.parent[vidx(l)] = 0 THEN l
    ELSE probe_dominator(T, l, T.parent[vidx(k)])

DominatorOf(T, first, others) ==
    FoldLeft(LAMBDA dom, l : IF lev(T, l) = 0 THEN dom ELSE probe_dominator(T, dom, -l), first, others)

(* The literal c.lits[1] is forced by c, whose other literals are false.  The
   resolvent says that the dominator of the others implies it, and makes c
   garbage when the dominator is one of them; it is irredundant then unless c
   was redundant. *)
hyper_binary_resolve(T, c) ==
    LET others == SubSeq(c.lits, 3, Len(c.lits))
        dom == DominatorOf(T, -c.lits[2], others)
        contained == -dom \in ToSet(Tail(c.lits))
        binary == Clause(<<-dom, c.lits[1]>>, ~contained \/ c.red)
    IN  IF hbr /\ \E l \in ToSet(others) : lev(T, l) > 0
        THEN [dom |-> dom, reason |-> ToSet(binary.lits),
              clauses |-> {binary, [c EXCEPT !.garbage = contained]}]
        ELSE [dom |-> dom, reason |-> ToSet(c.lits), clauses |-> {c}]

-----------------------------------------------------------------------------
(* Assignments. *)

probe_assign(T, lit, parent, reason) ==
    [T EXCEPT !.trail = Append(@, lit),
              !.level = [@ EXCEPT ![vidx(lit)] = level(T)],
              !.reason = [@ EXCEPT ![vidx(lit)] = IF level(T) = 0 THEN {} ELSE reason],
              !.parent = [@ EXCEPT ![vidx(lit)] = parent],
              !.propfixed = [@ EXCEPT ![lit] = IF level(T) = 0 THEN @ ELSE fixed(T)]]

probe_assign_decision(T, lit) == probe_assign(new_trail_level(T, lit), lit, 0, {})
probe_assign_unit(T, lit) == probe_assign(T, lit, 0, {})

(* The start of a call of probe_propagate. *)
StartPropagation(T) == [T EXCEPT !.propagated2 = T.propagated, !.conflict = <<>>]

(* The visit of a binary clause; a conflict does not end the propagation of
   the binary clauses. *)
probe_propagate2(T, c, lit) ==
    LET other == OtherWatch(c, lit)
    IN  IF other \in True(T) THEN T
        ELSE IF other \in False(T) THEN [T EXCEPT !.conflict = c.lits]
        ELSE probe_assign(T, other, -lit, ToSet(c.lits))

(* The visit of a longer clause, with r as in Replacements. *)
probe_propagate_watch(T, c, lit, r) ==
    LET other == OtherWatch(c, lit)
        forcing == [c EXCEPT !.lits = <<other, lit>> \o SubSeq(@, 3, Len(@))]
        h == hyper_binary_resolve(T, forcing)
    IN  IF c.garbage THEN T
        ELSE IF r > 0 THEN IF c.lits[r] \in True(T) THEN T ELSE Replaced(T, c, Moved(c, lit, r))
        ELSE IF other \in False(T) THEN [T EXCEPT !.conflict = c.lits]
        ELSE IF level(T) = 0 THEN probe_assign_unit(T, other)
        ELSE probe_assign([T EXCEPT !.clauses = (@ \ {c}) \cup h.clauses], other, h.dom, h.reason)

-----------------------------------------------------------------------------
(* The schedule. *)

(* The two literals of a clause that is binary under the fixed literals. *)
is_binary_clause(T, c) ==
    /\ ~c.garbage
    /\ ToSet(c.lits) \cap Fixed(T) = {}
    /\ Cardinality(ToSet(c.lits) \ Negated(Fixed(T))) = 2

noccs(T, lit) == Cardinality({c \in T.clauses : lit \in ToSet(c.lits) /\ is_binary_clause(T, c)})

(* A root implies something and nothing implies it, as far as the binary
   clauses say; one that was propagated since the last unit is left out. *)
IsRoot(T, lit) == noccs(T, -lit) > 0 /\ noccs(T, lit) = 0

(* Faulty variant: a literal stays due after it was propagated. *)
DueAgain(T, lit) == T.propfixed[lit] <= fixed(T)

Due(T, lit) == T.propfixed[lit] < fixed(T)

ByOccurrences(T, s) ==
    LET n == [l \in ToSet(s) |-> noccs(T, -l)]
        Put(sorted, l) == LET k == Cardinality({i \in 1..Len(sorted) : n[sorted[i]] <= n[l]})
                          IN  SubSeq(sorted, 1, k) \o <<l>> \o SubSeq(sorted, k + 1, Len(sorted))
    IN  FoldLeft(Put, <<>>, s)

generate_probes(T) ==
    LET Root(v) == {l \in {v, -v} : IsRoot(T, l) /\ Due(T, l)}
    IN  ByOccurrences(T, FoldLeft(LAMBDA s, v : s \o Listed(Root(v)), <<>>, [v \in Vars |-> v]))

(* What is left of the schedule of the last round: a literal that became the
   negation of a root is turned around. *)
flush_probes(T, s) ==
    LET Turned == [i \in 1..Len(s) |-> IF noccs(T, s[i]) > 0 THEN -s[i] ELSE s[i]]
    IN  ByOccurrences(T, SelectSeq(Turned, LAMBDA l : active(T, l) /\ IsRoot(T, l) /\ Due(T, l)))

(* The schedule from which the next probe is the last entry; it is generated
   once when there is no probe left in it. *)
Popped(T, s) ==
    LET due == {i \in 1..Len(s) : active(T, s[i]) /\ Due(T, s[i])}
    IN  SubSeq(s, 1, MaxOf(due))

next_probe(T, s) == IF Popped(T, s) # <<>> THEN Popped(T, s) ELSE Popped(T, generate_probes(T))

-----------------------------------------------------------------------------
(* Probing. *)

Init ==
    /\ hbr \in BOOLEAN
    /\ original \in Formulas
    /\ S = [NewState EXCEPT !.clauses = original]
           @@ [parent |-> [v \in Vars |-> 0], propagated2 |-> 0, propfixed |-> [l \in Lits |-> -1]]
    /\ phase = "idle"
    /\ probes = <<>> /\ probe = 0
    /\ pending2 = {} /\ pending = {} /\ lits = <<0, 0>>
    /\ work = <<>>
    /\ rounds = 0 /\ failed = TRUE

(* A further round follows when the last one found a failed literal. *)
probe_round ==
    /\ phase = "idle" /\ failed /\ ~S.unsat /\ rounds < MaxRounds
    /\ phase' = "next"
    /\ probes' = flush_probes(S, probes)
    /\ S' = [S EXCEPT !.propfixed = [l \in Lits |-> -1],
                      !.propagated = Len(S.trail), !.propagated2 = Len(S.trail)]
    /\ rounds' = rounds + 1
    /\ failed' = FALSE
    /\ UNCHANGED <<hbr, original, probe, pending2, pending, lits, work>>

Decide ==
    LET schedule == next_probe(S, probes)
    IN  /\ phase = "next" /\ ~S.unsat /\ schedule # <<>>
        /\ probe' = Last(schedule)
        /\ probes' = Front(schedule)
        /\ S' = StartPropagation(probe_assign_decision(S, Last(schedule)))
        /\ phase' = "probing"
        /\ UNCHANGED <<hbr, original, pending2, pending, lits, work, rounds, failed>>

(* The round ends without a further probe, at unsat, when the limit on the
   propagations is hit or when the solver is to terminate. *)
EndRound ==
    /\ phase = "next"
    /\ phase' = "idle"
    /\ probes' = IF ~S.unsat /\ next_probe(S, probes) = <<>> THEN <<>> ELSE probes
    /\ UNCHANGED <<hbr, S, original, probe, pending2, pending, lits, work, rounds, failed>>

Propagating == phase \in {"probing", "units"}
Binaries == pending2 # {} \/ S.propagated2 < Len(S.trail)

PropagationDone ==
    Propagating /\ ~Binaries /\ pending = {} /\ (S.conflict # <<>> \/ S.propagated = Len(S.trail))

VisitBinary ==
    /\ Propagating /\ Binaries
    /\ IF pending2 = {}
       THEN LET lit == -S.trail[S.propagated2 + 1]
            IN  /\ S' = [S EXCEPT !.propagated2 = @ + 1]
                /\ lits' = [lits EXCEPT ![2] = lit]
                /\ pending2' = {c \in S.clauses : Len(c.lits) = 2 /\ lit \in Watched(c)}
       ELSE \E c \in pending2 :
                /\ S' = probe_propagate2(S, c, lits[2])
                /\ pending2' = pending2 \ {c}
                /\ UNCHANGED lits
    /\ UNCHANGED <<hbr, original, phase, probes, probe, pending, work, rounds, failed>>

VisitLiteral ==
    LET lit == -S.trail[S.propagated + 1]
    IN  /\ Propagating /\ ~Binaries /\ pending = {}
        /\ S.conflict = <<>> /\ S.propagated < Len(S.trail)
        /\ S' = [S EXCEPT !.propagated = @ + 1]
        /\ lits' = [lits EXCEPT ![1] = lit]
        /\ pending' = {c \in S.clauses : Len(c.lits) > 2 /\ lit \in Watched(c)}
        /\ UNCHANGED <<hbr, original, phase, probes, probe, pending2, work, rounds, failed>>

(* A conflict does not end the visits of the watches of the current literal. *)
VisitLong ==
    /\ Propagating /\ ~Binaries
    /\ \E c \in pending :
           /\ pending' = pending \ {c}
           /\ \E r \in Replacements(S, c, lits[1]) : S' = probe_propagate_watch(S, c, lits[1], r)
    /\ UNCHANGED <<hbr, original, phase, probes, probe, pending2, lits, work, rounds, failed>>

ProbeSucceeds ==
    /\ PropagationDone /\ phase = "probing" /\ S.conflict = <<>>
    /\ S' = backtrack(S, 0)
    /\ phase' = "next"
    /\ UNCHANGED <<hbr, original, probes, probe, pending2, pending, lits, work, rounds, failed>>

(* The ancestors of lit up to the probe. *)
RECURSIVE Ancestors(_, _)
Ancestors(T, lit) ==
    IF lit = probe THEN <<>>
    ELSE LET parent == T.parent[vidx(lit)] IN <<parent>> \o Ancestors(T, parent)

(* The dominator of the literals of the conflict. *)
ConflictDominator(T) ==
    LET above == SelectSeq(T.conflict, LAMBDA l : lev(T, l) > 0)
    IN  DominatorOf(T, -above[1], Tail(above))

failed_literal ==
    LET uip == ConflictDominator(S)
    IN  /\ PropagationDone /\ phase = "probing" /\ S.conflict # <<>>
        /\ work' = Ancestors(S, uip)
        /\ S' = StartPropagation(probe_assign_unit(backtrack(S, 0), -uip))
        /\ phase' = "units"
        /\ failed' = TRUE
        /\ UNCHANGED <<hbr, original, probes, probe, pending2, pending, lits, rounds>>

(* The next ancestor, which is false as well; a true one is a conflict. *)
FailParent ==
    /\ PropagationDone /\ phase = "units" /\ S.conflict = <<>> /\ ~S.unsat /\ work # <<>>
    /\ S' = IF Head(work) \in True(S) THEN learn_empty_clause(S)
            ELSE IF Head(work) \in False(S) THEN S
            ELSE StartPropagation(probe_assign_unit(S, -Head(work)))
    /\ work' = Tail(work)
    /\ UNCHANGED <<hbr, original, phase, probes, probe, pending2, pending, lits, rounds, failed>>

FailedDone ==
    /\ PropagationDone /\ phase = "units"
    /\ S.conflict # <<>> \/ S.unsat \/ work = <<>>
    /\ S' = IF S.conflict # <<>> THEN learn_empty_clause(S) ELSE S
    /\ phase' = "next"
    /\ work' = <<>>
    /\ UNCHANGED <<hbr, original, probes, probe, pending2, pending, lits, rounds, failed>>

Next ==
    \/ probe_round \/ Decide \/ EndRound
    \/ VisitBinary \/ VisitLiteral \/ VisitLong
    \/ ProbeSucceeds \/ failed_literal \/ FailParent \/ FailedDone

Spec == Init /\ [][Next]_vars

-----------------------------------------------------------------------------
(* Properties. *)

(* The parent of a literal on level one implies it alone: what makes the
   negations of the ancestors of a conflict's dominator units. *)
ParentImplies ==
    \A l \in True(S) : lev(S, l) > 0 /\ S.parent[vidx(l)] # 0 =>
        /\ S.parent[vidx(l)] \in True(S)
        /\ Entails(Irredundant(original) \cup FixedClauses(S), {{-S.parent[vidx(l)], l}})

(* A literal that is skipped because it was propagated since the last unit
   would not fail now.  (Resolvents may add conflicts, so only without them.) *)
SkippedHarmless ==
    phase = "next" /\ ~S.unsat /\ ~hbr =>
        \A C \in {LiteralSets(S.clauses)} :
            \A U \in {Fixed(S) \cup {l} : l \in {k \in Lits : active(S, k) /\ ~Due(S, k)}} :
                ~Conflicting(C, U)

=============================================================================
