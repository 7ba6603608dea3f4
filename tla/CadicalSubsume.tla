--------------------------- MODULE CadicalSubsume ---------------------------
(***************************************************************************)
(* The simplifications of CaDiCaL that keep the models of the formula or   *)
(* only rename variables: subsumption (subsume.cpp), hyper ternary         *)
(* resolution (ternary.cpp), duplicate binary clauses (deduplicate.cpp),   *)
(* transitive reduction (transred.cpp), equivalent literals                *)
(* (decompose.cpp) and instantiation (instantiate.cpp).                    *)
(*                                                                         *)
(* An operator is one iteration of the loop of a technique, for the clause *)
(* or the variable it is given; a clause is named with its redundant flag. *)
(***************************************************************************)
EXTENDS CadicalFormula

Of(F, redundant) == IF redundant THEN F.red ELSE F.irr
Deleted(F, c, redundant) ==
    IF redundant THEN [F EXCEPT !.red = @ \ {c}] ELSE [F EXCEPT !.irr = @ \ {c}]
assigned(F, c) == c \cap (F.units \cup Negated(F.units)) # {}

-----------------------------------------------------------------------------
(* Subsumption. *)

(* The literals of subsuming that occur negated in subsumed, and whether all
   others occur in it. *)
flipped(subsuming, subsumed) == subsuming \cap Negated(subsumed)
subsume_check(subsuming, subsumed) ==
    /\ subsuming \ flipped(subsuming, subsumed) \subseteq subsumed
    /\ Cardinality(flipped(subsuming, subsumed)) <= 1

(* The subsumed clause goes.  A redundant clause that subsumes an irredundant
   one becomes irredundant. *)
subsume_clause(F, d, dred, c, cred) ==
    IF cred \/ ~dred THEN Deleted(F, c, cred)
    ELSE [Deleted(F, c, cred) EXCEPT !.irr = @ \cup {d}, !.red = @ \ {d}]

strengthen_clause(F, c, cred, lit) == new_clause(Deleted(F, c, cred), c \ {lit}, cred)

(* A clause c is tried with a clause d that was connected before it: d is not
   longer, and neither of them has a fixed literal. *)
Connected(F, d, dred, c, cred) ==
    /\ <<d, dred>> # <<c, cred>>
    /\ Cardinality(c) > 2 /\ Cardinality(d) <= Cardinality(c)
    /\ ~assigned(F, c) /\ ~assigned(F, d)

try_to_subsume_clause(F, d, dred, c, cred) ==
    IF flipped(d, c) = {} THEN subsume_clause(F, d, dred, c, cred)
    ELSE strengthen_clause(F, c, cred, -(CHOOSE l \in flipped(d, c) : TRUE))

-----------------------------------------------------------------------------
(* Hyper ternary resolution on pivot in c and -pivot in d. *)

ternary_find_clause(F, r) == \E c \in AllClauses(F) : c \subseteq r /\ ~assigned(F, c)

hyper_ternary_resolve(F, c, pivot, d) ==
    LET r == (c \ {pivot}) \cup (d \ {-pivot})
    IN  /\ r \cap Negated(r) = {}
        /\ Cardinality(r) <= 3
        /\ ~ternary_find_clause(F, r)

(* A ternary resolvent is redundant; a binary one is irredundant as soon as
   one of the two parents, which it subsumes and replaces, is. *)
ternary_lit(F, c, cred, pivot, d, dred) ==
    LET r == (c \ {pivot}) \cup (d \ {-pivot})
        G == new_clause(F, r, Cardinality(r) = 3 \/ (cred /\ dred))
    IN  IF Cardinality(r) = 2 THEN Deleted(Deleted(G, c, cred), d, dred) ELSE G

-----------------------------------------------------------------------------
(* Binary clauses of one literal: the redundant copy of an irredundant one is
   deleted, and two with opposite second literals give a unit. *)

BinarySeconds(F, lit) == {l \in Lits : {lit, l} \in AllClauses(F) /\ l # lit}

mark_duplicated_binary_clauses_as_garbage(F, idx) ==
    LET units == {lit \in {-idx, idx} : \E l \in BinarySeconds(F, lit) : -l \in BinarySeconds(F, lit)}
        unit == IF -idx \in units THEN -idx ELSE idx
        G == [F EXCEPT !.red = {c \in @ : ~(vidx(idx) \in {vidx(l) : l \in c} /\ Cardinality(c) = 2 /\ c \in F.irr)}]
    IN  IF F.unsat THEN F
        ELSE IF units = {} THEN G
        ELSE propagate(assign_unit(G, unit))

-----------------------------------------------------------------------------
(* The binary implication graph over the clauses C. *)

Implications(C, l) == {k \in Lits : {-l, k} \in C /\ k # -l}
Reachable(C, from) ==
    LET reach[n \in 0..(2 * N)] ==
            IF n = 0 THEN {from}
            ELSE LET before == reach[n - 1] IN before \cup UNION {Implications(C, l) : l \in before}
    IN  reach[2 * N]

(* Transitive reduction of the binary clause c read as src -> dst.  Only
   irredundant clauses count for an irredundant c.  The search stops at dst
   or at a literal whose negation was reached. *)
TransredClauses(F, c, cred) == (IF cred THEN AllClauses(F) ELSE F.irr) \ {c}

PathsAround(F, c, cred, dst) == {d \in TransredClauses(F, c, cred) : dst \notin d}
transitive(F, c, cred, src, dst) == dst \in Reachable(TransredClauses(F, c, cred), src)
failed(F, c, cred, src, dst) ==
    LET R == Reachable(PathsAround(F, c, cred, dst), src) IN R \cap Negated(R) # {}

-----------------------------------------------------------------------------
(* Equivalent literals: strongly connected components of the implication
   graph over the literals of the set act. *)

Component(F, act, l) ==
    LET C == {c \in AllClauses(F) : c \subseteq act}
    IN  {k \in Reachable(C, l) : l \in Reachable(C, k)}

(* The representative: the literal of least index; a frozen literal keeps
   itself. *)
repr(F, act, frozen, l) ==
    LET S == Component(F, act, l)
    IN  IF vidx(l) \in frozen \/ l \notin act THEN l ELSE CHOOSE k \in S : \A j \in S : vidx(k) <= vidx(j)

(* Substitution in one clause: it goes when it is satisfied, and is replaced
   by a clause of its own kind otherwise. *)
substitute_clause(F, r, c, redundant) ==
    LET e == {r[l] : l \in Remaining(F, c)} \ Negated(F.units)
        gone == fixedTrue(F, c) \/ e \cap F.units # {} \/ e \cap Negated(e) # {}
    IN  IF F.unsat \/ \A l \in c : r[l] = l THEN F
        ELSE IF gone THEN Deleted(F, c, redundant)
        ELSE IF e = c THEN F
        ELSE new_clause(Deleted(F, c, redundant), e, redundant)

(* The clauses C of one kind. *)
substitute_clauses(F, r, C, redundant) ==
    Folded(LAMBDA H, c : substitute_clause(H, r, c, redundant), F, Listed(C))

(* The variables with another representative, and the entries for them. *)
Renamings(act, r) == Sorted({v \in Vars : v \in act /\ r[v] # v}, LAMBDA v, w : v < w)
Equivalences(gone, r) ==
    FlattenSeq([i \in 1..Len(gone) |->
        LET v == gone[i] IN <<Pushed({-v}, {-v, r[v]}), Pushed({v}, {v, -r[v]})>>])

(* One round: the equivalences go to the extension stack, all clauses are
   rewritten, and the variables whose representative is not fixed after
   propagation are substituted. *)
decompose_round(F, act, frozen) ==
    LET r == [l \in Lits |-> repr(F, act, frozen, l)]
        gone == Renamings(act, r)
        Propagated(G) == IF G.units # F.units THEN propagate(G) ELSE G
        Renamed(G) ==
            [db |-> G, pushed |-> Equivalences(gone, r),
             substituted |-> IF G.unsat THEN {}
                             ELSE {v \in ToSet(gone) : {v, -v, r[v], -r[v]} \cap G.units = {}}]
    IN  IF \E l \in act : -l \in Component(F, act, l)
        THEN [db |-> [F EXCEPT !.unsat = TRUE], pushed |-> <<>>, substituted |-> {}]
        ELSE Renamed(Propagated(substitute_clauses(substitute_clauses(F, r, F.irr, FALSE), r, F.red, TRUE)))

-----------------------------------------------------------------------------
(* Instantiation of lit in c: when the other literals false and lit true lead
   to a conflict, c holds without lit. *)

collect_instantiation_candidates(F, lit) ==
    {c \in occs(F, lit) : Cardinality(Remaining(F, c)) >= 3 /\ ~fixedTrue(F, c)}

(* Faulty variant: lit is assigned false like the other literals. *)
inst_propagate_negated(F, lit, c) ==
    ~Conflicting(AllClauses(F), F.units \cup Negated(Remaining(F, c)))

inst_propagate(F, lit, c) ==
    ~Conflicting(AllClauses(F), F.units \cup {lit} \cup Negated(Remaining(F, c) \ {lit}))

instantiate_candidate(F, lit, c) ==
    IF inst_propagate(F, lit, c) THEN F ELSE strengthen_clause(F, c, FALSE, lit)

=============================================================================
