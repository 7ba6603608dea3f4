---------------------------- MODULE CadicalElim -----------------------------
(***************************************************************************)
(* Bounded variable elimination of CaDiCaL: elim.cpp, gates.cpp and        *)
(* backward.cpp.  A pivot is resolved away; the clauses it occurs in go to *)
(* the extension stack, only those of its definition when the pivot is the *)
(* output of a gate.                                                       *)
(***************************************************************************)
EXTENDS CadicalFormula

CONSTANTS
    ElimBound,    \* lim.elimbound, additional clauses a resolution may cost
    ElimClsLim,   \* opts.elimclslim, largest resolvent
    ElimOccLim,   \* opts.elimocclim, most occurrences of a pivot
    ElimBackward  \* opts.elimbackward, whether resolvents subsume at once

ASSUME BackwardAssumption == ElimBackward \in BOOLEAN

(* Nothing is left to do for the pivot. *)
Settled(F, pivot) == F.unsat \/ {pivot, -pivot} \cap F.units # {}

BySize(c, d) == Cardinality(c) < Cardinality(d)

(* Propagation over the irredundant clauses; the satisfied ones become
   garbage at once. *)
elim_propagate(F) ==
    IF F.unsat \/ Conflicting(F.irr, F.units) THEN [F EXCEPT !.unsat = TRUE]
    ELSE LET U == Propagation(F.irr, F.units)
         IN  [F EXCEPT !.units = U, !.irr = {c \in @ : c \cap U = {}}]

elim_on_the_fly_self_subsumption(F, c, pivot) ==
    mark_garbage(new_clause(F, Remaining(F, c) \ {pivot}, FALSE), c)

(* Resolving c with d on the pivot in c.  The result holds the database after
   what was found on the way - a satisfied parent, an empty or unit
   resolvent, a parent that the resolvent subsumes - and the resolvent, the
   empty set when there is none to count or to add. *)
resolve_clauses(F, c, pivot, d, propagate_eagerly) ==
    LET s == Remaining(F, c) \ {pivot}
        t == Remaining(F, d) \ {-pivot}
        r == s \cup t
        unit == new_clause(F, r, FALSE)
        strengthened == elim_on_the_fly_self_subsumption(F, c, pivot)
        No(G) == [db |-> G, resolvent |-> {}]
    IN  IF c \notin F.irr \/ d \notin F.irr THEN No(F)
        ELSE IF fixedTrue(F, c) THEN No(mark_garbage(F, c))
        ELSE IF fixedTrue(F, d) THEN No(mark_garbage(F, d))
        ELSE IF r \cap Negated(r) # {} THEN No(F)
        ELSE IF r = {} THEN No([F EXCEPT !.unsat = TRUE])
        ELSE IF Cardinality(r) = 1 THEN No(IF propagate_eagerly THEN elim_propagate(unit) ELSE unit)
        ELSE IF r = s /\ r = t THEN No(mark_garbage(strengthened, d))
        ELSE IF r = s THEN No(strengthened)
        ELSE IF r = t THEN No(elim_on_the_fly_self_subsumption(F, d, -pivot))
        ELSE [db |-> F, resolvent |-> r]

(* Pairs of clauses to resolve, short ones first.  When the pivot is
   substituted, one of the two has to be a gate clause. *)
PairsToResolve(F, pivot) ==
    LET ps == Sorted(occs(F, pivot), BySize)
        ns == Sorted(occs(F, -pivot), BySize)
    IN  FlattenSeq([i \in 1..Len(ps) |-> [j \in 1..Len(ns) |-> <<ps[i], ns[j]>>]])
Skipped(p, gates) == gates # {} /\ (p[1] \in gates <=> p[2] \in gates)

(* One pair of the trial.  It stops when there are too many resolvents or too
   long ones, at a conflict, or when the pivot becomes a unit; what was learned
   on the way stays. *)
try_pair(pivot, gates, bound, s, p) ==
    LET res == resolve_clauses(s.db, p[1], pivot, p[2], TRUE)
        n == s.resolvents + (IF res.resolvent = {} THEN 0 ELSE 1)
    IN  IF ~s.bounded \/ Skipped(p, gates) THEN s
        ELSE [db |-> res.db, resolvents |-> n,
              bounded |-> /\ n <= bound
                          /\ Cardinality(res.resolvent) <= ElimClsLim
                          /\ ~Settled(res.db, pivot)]

(* The trial: are there at most as many resolvents as clauses, within the
   bound?  pos and neg are the numbers of occurrences before the gates were
   looked for. *)
elim_resolvents_are_bounded(F, pivot, gates, pos, neg) ==
    LET start == [db |-> F, resolvents |-> 0, bounded |-> TRUE]
    IN  IF pos = 0 \/ neg = 0
        THEN [start EXCEPT !.bounded = ElimBound >= 0]
        ELSE Folded(LAMBDA s, p : try_pair(pivot, gates, pos + neg + ElimBound, s, p),
                    start, PairsToResolve(F, pivot))

(* Adding the resolvents.  added lists the new clauses for the backward
   queue. *)
add_pair(pivot, gates, s, p) ==
    LET res == resolve_clauses(s.db, p[1], pivot, p[2], FALSE)
    IN  IF s.db.unsat \/ Skipped(p, gates) THEN s
        ELSE IF res.resolvent = {} THEN [s EXCEPT !.db = res.db]
        ELSE [db |-> new_clause(res.db, res.resolvent, FALSE),
              added |-> Append(s.added, res.resolvent)]

elim_add_resolvents(F, pivot, gates) ==
    Folded(LAMBDA s, p : add_pair(pivot, gates, s, p), [db |-> F, added |-> <<>>],
           PairsToResolve(F, pivot))

(* The clauses of the pivot become garbage; all of them, or the gate clauses
   only, are pushed with the literal of the pivot as witness. *)
mark_eliminated_clauses_as_garbage(F, pivot, gates) ==
    LET Entries(l) ==
            LET cs == Sorted({c \in occs(F, l) : gates = {} \/ c \in gates}, BySize)
            IN  [i \in 1..Len(cs) |-> Pushed({l}, cs[i])]
    IN  [db |-> [F EXCEPT !.irr = @ \ (occs(F, pivot) \cup occs(F, -pivot))],
         pushed |-> Entries(pivot) \o Entries(-pivot)]

-----------------------------------------------------------------------------
(* Gate extraction.  A gate is the set of the clauses that define the pivot;
   finding one can also yield units. *)

(* The other literal of a clause that is binary for the current units. *)
Seconds(F, first) ==
    {l \in Lits : \E c \in occs(F, first) : ~fixedTrue(F, c) /\ Remaining(F, c) = {first, l} /\ l # first}
ActualBinaries(F, first, second) == {c \in occs(F, first) : Remaining(F, c) = {first, second}}

(* Two binary clauses of first with opposite second literals make it a unit.
   Satisfied clauses and copies of a binary clause become garbage. *)
mark_binary_literals(F, first) ==
    LET seconds == Seconds(F, first)
        binaries == UNION {ActualBinaries(F, first, l) : l \in seconds}
        kept == {CHOOSE c \in ActualBinaries(F, first, l) : TRUE : l \in seconds}
    IN  IF seconds \cap Negated(seconds) # {} THEN elim_propagate(assign_unit(F, first))
        ELSE [F EXCEPT !.irr = {c \in @ : /\ first \in c => ~fixedTrue(F, c)
                                          /\ c \in binaries => c \in kept}]

(* A literal in binary clauses with both phases of the pivot is a unit; two
   binary clauses that make the pivot equal to a literal are a gate. *)
find_equivalence(F, pivot) ==
    LET units == Seconds(F, pivot) \cap Seconds(F, -pivot)
        G == IF units = {} THEN F ELSE elim_propagate([F EXCEPT !.units = @ \cup units])
        equal == Seconds(G, -pivot) \cap Negated(Seconds(F, pivot) \cap Seconds(G, pivot))
        l == CHOOSE x \in equal : TRUE
    IN  [db |-> G,
         gates |-> IF Settled(G, pivot) \/ equal = {} THEN {}
                   ELSE {CHOOSE c \in ActualBinaries(G, -pivot, l) : TRUE,
                         CHOOSE c \in ActualBinaries(G, pivot, -l) : TRUE}]

(* A clause with -pivot whose other literals all occur negated in a binary
   clause with the pivot. *)
find_and_gate(F, pivot) ==
    LET base == {c \in occs(F, -pivot) :
                    /\ ~fixedTrue(F, c) /\ Cardinality(c) >= 3
                    /\ \A l \in Remaining(F, c) \ {-pivot} : -l \in Seconds(F, pivot)}
    IN  IF base = {} THEN {}
        ELSE LET c == CHOOSE x \in base : TRUE
             IN  {c} \cup UNION {ActualBinaries(F, pivot, -l) : l \in Remaining(F, c) \ {-pivot}}

(* Four clauses that are ternary once the assigned literals are skipped,
   whatever their value. *)
Unassigned(F, c) == c \ (F.units \cup Negated(F.units))
find_if_then_else(F, pivot) ==
    LET T3 == {d \in occs(F, pivot) : Cardinality(Unassigned(F, d)) = 3}
        N3 == {d \in occs(F, -pivot) : Cardinality(Unassigned(F, d)) = 3}
        Other(d, cond) == CHOOSE l \in Unassigned(F, d) : vidx(l) \notin {vidx(pivot), vidx(cond)}
        Match(d, cond) == {x \in N3 : Unassigned(F, x) = {-pivot, cond, -Other(d, cond)}}
        found == {t \in T3 \X T3 \X Lits :
                    /\ vidx(t[3]) # vidx(pivot)
                    /\ t[3] \in t[1] /\ -t[3] \in t[2]
                    /\ vidx(Other(t[1], t[3])) # vidx(Other(t[2], -t[3]))
                    /\ Match(t[1], t[3]) # {} /\ Match(t[2], -t[3]) # {}}
    IN  IF found = {} THEN {}
        ELSE LET t == CHOOSE x \in found : TRUE
             IN  {t[1], t[2], CHOOSE x \in Match(t[1], t[3]) : TRUE, CHOOSE x \in Match(t[2], -t[3]) : TRUE}

(* All clauses over the same variables with an even number of the literals of
   one of them negated. *)
EvenFlips(c) ==
    {d \in SUBSET {l \in Lits : vidx(l) \in {vidx(x) : x \in c}} :
        /\ Cardinality({vidx(l) : l \in d}) = Cardinality(c)
        /\ Cardinality(d) = Cardinality(c)
        /\ Cardinality(d \ c) % 2 = 0}
find_xor_gate(F, pivot) ==
    LET found == {c \in occs(F, pivot) :
                    /\ Cardinality(Unassigned(F, c)) >= 3
                    /\ \A d \in EvenFlips(Unassigned(F, c)) : \E e \in F.irr : Unassigned(F, e) = d}
    IN  IF found = {} THEN {}
        ELSE LET c == CHOOSE x \in found : TRUE
             IN  {CHOOSE e \in F.irr : Unassigned(F, e) = d : d \in EvenFlips(Unassigned(F, c))}

(* The first kind of gate that is found, in this order. *)
find_gate_clauses(F, pivot) ==
    LET Found(G, g) == [db |-> G, gates |-> IF Settled(G, pivot) THEN {} ELSE g]
        Others(G) ==
            LET ite == find_if_then_else(G, pivot)
            IN  Found(G, IF ite # {} THEN ite ELSE find_xor_gate(G, pivot))
        Negative(G) ==
            LET and == find_and_gate(G, -pivot)
            IN  IF Settled(G, pivot) \/ and # {} THEN Found(G, and) ELSE Others(G)
        Positive(G) ==
            LET and == find_and_gate(G, pivot)
            IN  IF Settled(G, pivot) \/ and # {} THEN Found(G, and)
                ELSE Negative(mark_binary_literals(G, -pivot))
        Equal(e) == IF Settled(e.db, pivot) \/ e.gates # {} THEN e
                    ELSE Positive(mark_binary_literals(e.db, pivot))
        Start(G) == IF Settled(G, pivot) THEN Found(G, {}) ELSE Equal(find_equivalence(G, pivot))
    IN  Start(mark_binary_literals(F, pivot))

-----------------------------------------------------------------------------
(* A new resolvent, with the literals s, against clause d: what it subsumes
   becomes garbage, what it subsumes up to one negated literal loses that
   literal.  As in the code, the flag satisfied is not reset between two
   clauses, a clause with two negated literals ends the scan (size is set to
   its maximum), and so does a unit. *)
backward_step(s, b, d) ==
    LET rest == Remaining(b.db, d)
        negated == rest \cap Negated(s)
        found == Cardinality(rest \cap (s \cup Negated(s))) = Cardinality(s)
        satisfied == b.satisfied \/ fixedTrue(b.db, d)
        shorter == rest \ negated
    IN  IF b.done \/ d \notin b.db.irr \/ Cardinality(d) < Cardinality(s) THEN b
        ELSE IF satisfied THEN [b EXCEPT !.db = mark_garbage(@, d), !.satisfied = TRUE]
        ELSE IF Cardinality(negated) > 1 THEN [b EXCEPT !.done = TRUE]
        ELSE IF ~found THEN b
        ELSE IF negated = {} THEN [b EXCEPT !.db = mark_garbage(@, d)]
        ELSE IF Cardinality(shorter) = 1
             THEN [b EXCEPT !.db = elim_propagate(new_clause(@, shorter, FALSE)), !.done = TRUE]
        ELSE IF \E l \in negated : Cardinality(occs(b.db, l)) > ElimOccLim THEN b
        ELSE [b EXCEPT !.db = mark_garbage(new_clause(@, d \ negated, FALSE), d),
                       !.queue = Append(@, d \ negated)]

(* One new resolvent c against the irredundant clauses that share its rarest
   literal. *)
Rarest(F, s) == CHOOSE l \in s : \A k \in s : Cardinality(occs(F, l)) <= Cardinality(occs(F, k))
elim_backward_clause(F, c) ==
    LET s == Remaining(F, c)
        best == Rarest(F, s)
        start == [db |-> F, queue |-> <<>>, satisfied |-> FALSE, done |-> FALSE]
    IN  IF c \notin F.irr THEN start
        ELSE IF fixedTrue(F, c) THEN [start EXCEPT !.db = mark_garbage(@, c)]
        ELSE IF Cardinality(occs(F, best)) > ElimOccLim THEN start
        ELSE Folded(LAMBDA b, d : backward_step(s, b, d), start, Sorted(occs(F, best) \ {c}, BySize))

(* The queue of new clauses, until it is empty or there is a conflict.  Every
   clause that is queued again has lost a literal, which bounds the passes. *)
backward_pass(s) ==
    LET b == elim_backward_clause(s.db, Head(s.queue))
    IN  IF s.db.unsat \/ s.queue = <<>> THEN s
        ELSE [db |-> b.db, queue |-> Tail(s.queue) \o b.queue]
elim_backward_clauses(F, queue) ==
    LET passes == Len(queue) + N * Cardinality(F.irr)
        pass[k \in 0..passes] ==
            IF k = 0 THEN [db |-> F, queue |-> queue] ELSE backward_pass(pass[k - 1])
    IN  IF ElimBackward THEN pass[passes].db ELSE F

(* Eliminating one variable, by the phase with fewer occurrences. *)
try_to_eliminate_variable(F, idx) ==
    LET pivot == IF Cardinality(occs(F, idx)) > Cardinality(occs(F, -idx)) THEN -idx ELSE idx
        pos == Cardinality(occs(F, pivot))
        neg == Cardinality(occs(F, -pivot))
        Failed(G) == [db |-> G, pushed |-> <<>>, eliminated |-> FALSE]
        Gone(gone, added) ==
            [db |-> elim_backward_clauses(gone.db, added), pushed |-> gone.pushed, eliminated |-> TRUE]
        Added(result, gates) ==
            IF result.db.unsat THEN [Failed(result.db) EXCEPT !.eliminated = TRUE]
            ELSE Gone(mark_eliminated_clauses_as_garbage(result.db, pivot, gates), result.added)
        Tried(trial, gates) ==
            IF ~trial.bounded THEN Failed(trial.db)
            ELSE Added(elim_add_resolvents(trial.db, pivot, gates), gates)
        With(g) ==
            IF Settled(g.db, pivot) THEN Failed(g.db)
            ELSE Tried(elim_resolvents_are_bounded(g.db, pivot, g.gates, pos, neg), g.gates)
    IN  IF pos # 0 /\ neg > ElimOccLim THEN Failed(F)
        ELSE With(IF pos = 0 THEN [db |-> F, gates |-> {}] ELSE find_gate_clauses(F, pivot))

(* Redundant clauses do not mention variables that left the formula. *)
mark_redundant_clauses_with_eliminated_variables_as_garbage(F, gone) ==
    [F EXCEPT !.red = {c \in @ : \A l \in c : vidx(l) \notin gone}]

=============================================================================
