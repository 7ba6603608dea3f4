--------------------- MODULE CadicalInprocessing_proofs ---------------------
(***************************************************************************)
(* Theorems about CadicalInprocessing, for every number of variables,      *)
(* every session and every limit of the techniques: what is left of a      *)
(* formula follows from it, and the extension stack turns the models of    *)
(* what is left into models of the formula.  First bounded variable        *)
(* elimination, whose loops learn while they count; then the invariant,    *)
(* one lemma for each action, and the theorems.                            *)
(***************************************************************************)
EXTENDS CadicalInprocessing, CadicalTheorems

-----------------------------------------------------------------------------
(***************************************************************************)
(* Work for a pivot.                                                       *)
(***************************************************************************)
\* The clauses of the pivot, what is left of one without it, and the
\* assignments that agree with everything else.
Mine(F, p)   == {c \in F.irr : p \in c \/ -p \in c}
Rests(c, p)  == c \ {p, -p}
Around(F, p) == {A \in Assignments : /\ ~F.unsat /\ F.units \subseteq A
                                     /\ \A c \in F.irr : p \in c \/ -p \in c \/ c \cap A # {}}

\* What may happen to the formula before the pivot is resolved away: a clause
\* of the pivot that goes has a true literal but the pivot from then on.
Chained(F, p, G) ==
  /\ Worked(F, G) /\ Lean(G) \subseteq Lean(F)
  /\ Around(G, p) \subseteq Around(F, p)
  /\ Mine(G, p) \subseteq Mine(F, p)
  /\ Settled(F, p) => Settled(G, p)
  /\ ~Settled(G, p) => \A c \in Mine(F, p) \ Mine(G, p) : \A A \in Around(G, p) : Rests(c, p) \cap A # {}

\* Work for a pivot after work for the pivot is work for it.
LEMMA ChainedTrans ==
  ASSUME NEW F \in Formulas, NEW p, NEW G, NEW H, Chained(F, p, G), Chained(G, p, H)
  PROVE  Chained(F, p, H)
PROOF
  <1>1. Worked(F, H)
    BY WorkedTrans DEF Chained
  <1>2. /\ Lean(H) \subseteq Lean(F) /\ Around(H, p) \subseteq Around(F, p) /\ Mine(H, p) \subseteq Mine(F, p)
        /\ Settled(F, p) => Settled(H, p)
    BY DEF Chained
  <1>3. ASSUME ~Settled(H, p), NEW c \in Mine(F, p) \ Mine(H, p), NEW A \in Around(H, p)
        PROVE  Rests(c, p) \cap A # {}
    <2>1. CASE c \in Mine(G, p)
      BY <1>3, <2>1 DEF Chained
    <2>2. CASE c \notin Mine(G, p)
      BY <1>3, <2>2 DEF Chained
    <2>. QED
      BY <2>1, <2>2
  <1>. QED
    BY <1>1, <1>2, <1>3 DEF Chained

\* Doing nothing is work for a pivot.
LEMMA ChainedSame ==
  ASSUME NEW F \in Formulas, NEW p
  PROVE  Chained(F, p, F)
BY RewrittenSame DEF Chained

\* What the parts of a worked formula say about the pivot.
LEMMA ChainedParts ==
  ASSUME NEW F \in Formulas, NEW p, NEW G, Worked(F, G), Lean(G) \subseteq Lean(F),
         \A c \in G.irr : c \in F.irr \/ (p \notin c /\ -p \notin c),
         \A c \in F.irr \ G.irr : \A A \in Around(G, p) : c \cap A # {} \/ p \in c \/ -p \in c,
         ~Settled(G, p) => \A c \in Mine(F, p) \ G.irr : \A A \in Around(G, p) : Rests(c, p) \cap A # {}
  PROVE  Chained(F, p, G)
PROOF
  <1>1. /\ F.unsat => G.unsat
        /\ F.units \subseteq G.units
    BY DEF Worked, Follows
  <1>2. ASSUME NEW A \in Around(G, p) PROVE A \in Around(F, p)
    <2>1. A \in Assignments /\ ~F.unsat /\ F.units \subseteq A
      BY <1>1 DEF Around
    <2>2. ASSUME NEW c \in F.irr, p \notin c, -p \notin c PROVE c \cap A # {}
      <3>1. CASE c \in G.irr
        BY <2>2, <3>1 DEF Around
      <3>2. CASE c \notin G.irr
        BY <2>2, <3>2
      <3>. QED
        BY <3>1, <3>2
    <2>. QED
      BY <2>1, <2>2 DEF Around
  <1>3. Mine(G, p) \subseteq Mine(F, p)
    BY DEF Mine
  <1>4. Settled(F, p) => Settled(G, p)
    BY <1>1 DEF Settled
  <1>5. \A c \in Mine(F, p) \ Mine(G, p) : c \notin G.irr
    BY DEF Mine
  <1>. QED
    BY <1>2, <1>3, <1>4, <1>5 DEF Chained

\* Propagation over the irredundant clauses.
LEMMA ChainedPropagate ==
  ASSUME NEW F \in Formulas, NEW p \in Lits, NEW G, G = elim_propagate(F)
  PROVE  Chained(F, p, G)
PROOF
  <1> DEFINE P == Propagation(F.irr, F.units)
  <1>0. /\ F.irr \in SUBSET Clauses /\ F.units \in SUBSET Lits /\ F.unsat \in BOOLEAN /\ F \in Dbs
    BY FormulaParts
  <1>1. Worked(F, G) /\ Lean(G) \subseteq Lean(F) /\ G.irr \subseteq F.irr
    BY ElimPropagateMeans
  <1>2. CASE F.unsat \/ Conflicting(F.irr, F.units)
    <2>1. G = [F EXCEPT !.unsat = TRUE]
      BY <1>2 DEF elim_propagate
    <2>2. G.unsat /\ G.irr = F.irr
      BY <1>0, <2>1 DEF Dbs
    <2>. QED
      BY <1>1, <2>2, ChainedParts DEF Around
  <1>3. CASE ~(F.unsat \/ Conflicting(F.irr, F.units))
    <2>1. G = [F EXCEPT !.units = P, !.irr = {c \in @ : c \cap P = {}}]
      BY <1>3 DEF elim_propagate
    <2>2. /\ G.units = P /\ G.irr = {c \in F.irr : c \cap P = {}}
      <3> HIDE DEF P
      <3>. QED
        BY <1>0, <2>1 DEF Dbs
    <2> HIDE DEF P
    <2>3. ASSUME NEW c \in F.irr \ G.irr, NEW A \in Around(G, p)
          PROVE  c \cap A # {} /\ (~Settled(G, p) => Rests(c, p) \cap A # {})
      <3>1. PICK x \in c : x \in P
        BY <2>2
      <3>2. x \in A
        BY <2>2, <3>1 DEF Around
      <3>3. ~Settled(G, p) => x # p /\ x # -p
        BY <2>2, <3>1 DEF Settled
      <3>. QED
        BY <3>1, <3>2, <3>3 DEF Rests
    <2>4. \A c \in Mine(F, p) : c \in F.irr
      BY DEF Mine
    <2>. QED
      BY <1>1, <2>3, <2>4, ChainedParts
  <1>. QED
    BY <1>2, <1>3

\* A clause that is satisfied anyway.
LEMMA ChainedGarbage ==
  ASSUME NEW F \in Formulas, NEW p, NEW c, NEW G, G = mark_garbage(F, c),
         \A A \in Lean(G) : c \cap A # {},
         \A A \in Around(G, p) : c \cap A # {} \/ p \in c \/ -p \in c,
         ~Settled(G, p) /\ (p \in c \/ -p \in c) => \A A \in Around(G, p) : Rests(c, p) \cap A # {}
  PROVE  Chained(F, p, G) /\ G.irr = F.irr \ {c} /\ G.units = F.units /\ G.unsat = F.unsat
PROOF
  <1>1. /\ Worked(F, G) /\ G.irr = F.irr \ {c} /\ Lean(G) \subseteq Lean(F)
        /\ G.units = F.units /\ G.unsat = F.unsat
    BY GarbageMeans DEF Reduced
  <1>2. \A d \in Mine(F, p) \ G.irr : d = c /\ (p \in c \/ -p \in c)
    BY <1>1 DEF Mine
  <1>. QED
    BY <1>1, <1>2, ChainedParts

\* A consequence without the pivot.
LEMMA ChainedNew ==
  ASSUME NEW F \in Formulas, NEW p, NEW r, IsClause(r), r \subseteq UNION F.irr,
         p \notin r, -p \notin r, \A A \in DbModels(F) : r \cap A # {},
         NEW G, G = new_clause(F, r, FALSE)
  PROVE  /\ Chained(F, p, G) /\ Mine(G, p) = Mine(F, p)
         /\ \A A \in Around(G, p) : r \cap A # {}
         /\ G.units \subseteq F.units \cup r
         /\ Cardinality(r) >= 2 => G.units = F.units /\ G.unsat = F.unsat /\ G.irr = F.irr \cup {r}
PROOF
  <1>0. F \in Dbs /\ r \in SUBSET Lits /\ FALSE \in BOOLEAN
    BY FormulaParts DEF IsClause
  <1>1. Newer(F, r, FALSE, G) /\ Worked(F, G) /\ Lean(G) \subseteq Lean(F)
    <2>1. Newer(F, r, FALSE, G)
      BY <1>0, NewerRight
    <2> DEFINE red == FALSE
    <2>2. red \in BOOLEAN /\ G = new_clause(F, r, red) /\ ~red
      OBVIOUS
    <2> HIDE DEF red
    <2>3. Lean(G) \subseteq Lean(F) /\ Worked(F, G)
      BY <2>2, DerivedMeans
    <2>. QED
      BY <2>1, <2>3
  <1>2. /\ F.irr \subseteq G.irr
        /\ \A d \in G.irr : d = r \/ d \in F.irr
        /\ F.units \subseteq F.units \cup r /\ r \subseteq F.units \cup r => G.units \subseteq F.units \cup r
    BY <1>1 DEF Newer
  <1>3. Extended(F, r, FALSE, G)
    BY <1>0, NewShape
  <1>4. ASSUME NEW A \in Around(G, p) PROVE r \cap A # {}
    <2>1. ~G.unsat /\ G.units \subseteq A /\ \A c \in G.irr : p \in c \/ -p \in c \/ c \cap A # {}
      BY DEF Around
    <2>2. A \in Assignments
      BY DEF Around
    <2>3. CASE \E l \in Lits : r = {l} /\ (\/ l \in F.units /\ G = F
                                          \/ G.units = F.units \cup {l})
      BY <2>1, <2>3
    <2>4. CASE r \in G.irr
      BY <2>1, <2>4
    <2>5. (\E l \in Lits : r = {l} /\ ((l \in F.units /\ G = F) \/ G.units = F.units \cup {l})) \/ r \in G.irr
      BY <1>3, <2>1 DEF Extended
    <2>. QED
      BY <2>3, <2>4, <2>5
  <1>5. Chained(F, p, G)
    BY <1>1, <1>2, ChainedParts DEF Mine
  <1>6. Mine(G, p) = Mine(F, p)
    BY <1>2 DEF Mine
  <1>7. ASSUME Cardinality(r) >= 2
        PROVE  G.units = F.units /\ G.unsat = F.unsat /\ G.irr = F.irr \cup {r}
    <2>1. r # {}
      <3>1. Cardinality({}) = 0
        BY FS_EmptySet
      <3>. QED
        BY <1>7, <3>1, SMT
    <2>2. ~\E l \in Lits : r = {l}
      <3>1. \A l \in Lits : Cardinality({l}) = 1
        BY FS_Singleton
      <3>. QED
        BY <1>7, <3>1, SMT
    <2>3. G.units = F.units /\ G.unsat = F.unsat /\ (~FALSE => G.irr = F.irr \cup {r})
      BY <1>3, <2>1, <2>2, Zenon DEF Extended
    <2>. QED
      BY <2>3
  <1>. QED
    BY <1>2, <1>4, <1>5, <1>6, <1>7

-----------------------------------------------------------------------------
\* A clause of the pivot replaced by a consequence that subsumes it.
LEMMA SelfSubsumed ==
  ASSUME NEW F \in Formulas, NEW p \in Lits, NEW c \in F.irr, p \in c \/ -p \in c,
         NEW r, r \subseteq Rests(c, p), Cardinality(r) >= 2, \A A \in DbModels(F) : r \cap A # {},
         NEW G, G = mark_garbage(new_clause(F, r, FALSE), c)
  PROVE  /\ Chained(F, p, G) /\ r \in G.irr
         /\ \A A \in Around(G, p) : r \cap A # {}
PROOF
  <1> DEFINE E == new_clause(F, r, FALSE)
  <1>1. c \in SUBSET Lits /\ IsClause(c) /\ r \subseteq c /\ p \notin r /\ -p \notin r
    BY FormulaParts DEF Rests, AllClauses
  <1>2. IsClause(r) /\ r \subseteq UNION F.irr
    BY <1>1 DEF IsClause, Negated
  <1>3. /\ Chained(F, p, E) /\ Mine(E, p) = Mine(F, p)
        /\ \A A \in Around(E, p) : r \cap A # {}
        /\ E.irr = F.irr \cup {r}
    BY <1>1, <1>2, ChainedNew
  <1>4. E \in Formulas
    BY <1>3 DEF Chained, Worked, Follows
  <1> HIDE DEF E
  <1>5. G = mark_garbage(E, c)
    BY DEF E
  <1>6. G.irr = E.irr \ {c}
    BY <1>4, <1>5, GarbageMeans DEF Reduced
  <1>7. r \in G.irr
    BY <1>1, <1>3, <1>6
  <1>8. /\ \A A \in Lean(G) : c \cap A # {}
        /\ \A A \in Around(G, p) : r \cap A # {}
    BY <1>1, <1>7 DEF Lean, Around
  <1>9. \A A \in Around(G, p) : c \cap A # {} /\ Rests(c, p) \cap A # {}
    BY <1>1, <1>8
  <1>10. Chained(E, p, G)
    BY <1>4, <1>5, <1>8, <1>9, ChainedGarbage
  <1>. QED
    BY <1>3, <1>7, <1>8, <1>10, ChainedTrans

\* What is left of a clause counts where the fixed literals are true.
LEMMA RemainingTrue ==
  ASSUME NEW F \in Formulas, NEW A \in Assignments, F.units \subseteq A, NEW c
  PROVE  (c \cap A # {} <=> Remaining(F, c) \cap A # {}) /\ Remaining(F, c) \subseteq c
PROOF
  <1>1. F.units \in SUBSET A
    OBVIOUS
  <1>2. \A l \in A : l \notin Negated(F.units)
    BY <1>1, Opposite
  <1>. QED
    BY <1>2 DEF Remaining

\* What resolving two clauses leaves.
Resolved(F, c, p, d, R) ==
  /\ Chained(F, p, R.db)
  /\ R.resolvent # {} =>
       /\ R.db = F /\ IsClause(R.resolvent) /\ Cardinality(R.resolvent) >= 2
       /\ R.resolvent \subseteq UNION F.irr /\ p \notin R.resolvent /\ -p \notin R.resolvent
       /\ R.resolvent \subseteq Rests(c, p) \cup Rests(d, p)
       /\ \A A \in DbModels(F) : R.resolvent \cap A # {}
  /\ R.resolvent = {} /\ c \in F.irr /\ d \in F.irr /\ ~Settled(R.db, p) =>
       \A A \in Around(R.db, p) : Rests(c, p) \cap A # {} \/ Rests(d, p) \cap A # {}

\* A satisfied parent is garbage.
LEMMA ParentTrue ==
  ASSUME NEW F \in Formulas, NEW p \in Lits, NEW c \in F.irr, fixedTrue(F, c),
         NEW G, G = mark_garbage(F, c)
  PROVE  /\ Chained(F, p, G) /\ G.units = F.units
         /\ ~Settled(G, p) => \A A \in Around(G, p) : Rests(c, p) \cap A # {}
PROOF
  <1>1. G.units = F.units
    BY GarbageMeans DEF Reduced
  <1>2. PICK x \in c : x \in F.units
    BY DEF fixedTrue
  <1>3. /\ \A A \in Lean(G) : c \cap A # {}
        /\ \A A \in Around(G, p) : c \cap A # {}
    BY <1>1, <1>2 DEF Lean, Around
  <1>4. ~Settled(G, p) => \A A \in Around(G, p) : Rests(c, p) \cap A # {}
    BY <1>1, <1>2 DEF Settled, Around, Rests
  <1>. QED
    BY <1>1, <1>3, <1>4, ChainedGarbage

\* resolve_clauses for every case it returns from: satisfied parents, conflicts,
\* units, subsumed parents and proper resolvents.
LEMMA ResolveMeans ==
  ASSUME NEW F \in Formulas, NEW p \in Lits, NEW c, NEW d,
         c \in F.irr => p \in c, d \in F.irr => -p \in d,
         NEW eager \in BOOLEAN, NEW R, R = resolve_clauses(F, c, p, d, eager)
  PROVE  /\ Resolved(F, c, p, d, R)
         /\ ~eager => R.db.units \subseteq F.units \cup {l \in Lits : l # p /\ l # -p}
PROOF
  <1> DEFINE s == Remaining(F, c) \ {p}
             t == Remaining(F, d) \ {-p}
             r == s \cup t
             unit == new_clause(F, r, FALSE)
             strengthened == elim_on_the_fly_self_subsumption(F, c, p)
             Done == \/ c \notin F.irr \/ d \notin F.irr
                     \/ fixedTrue(F, c) \/ fixedTrue(F, d) \/ r \cap Negated(r) # {}
  <1>0. ASSUME R.db = F, R.resolvent = {}
        PROVE  Chained(F, p, R.db) /\ (~eager => R.db.units \subseteq F.units \cup {l \in Lits : l # p /\ l # -p})
    BY <1>0, ChainedSame
  <1>1. CASE c \notin F.irr \/ d \notin F.irr
    <2>1. R = [db |-> F, resolvent |-> {}]
      BY <1>1 DEF resolve_clauses
    <2>. QED
      BY <1>0, <1>1, <2>1 DEF Resolved
  <1>2. CASE c \in F.irr /\ d \in F.irr
    <2>0. /\ p \in c /\ -p \in d
          /\ c \in SUBSET Lits /\ IsClause(c) /\ d \in SUBSET Lits /\ IsClause(d)
          /\ -(-p) = p /\ p # -p
      BY <1>2, FormulaParts, Literal DEF AllClauses
    <2>1. s \subseteq c /\ t \subseteq d /\ p \notin s /\ -p \notin t
      BY DEF Remaining
    <2>2. -p \notin c /\ p \notin d
      BY <2>0 DEF IsClause, Negated
    <2>3. /\ Rests(c, p) = c \ {p} /\ Rests(d, p) = d \ {-p}
          /\ s \subseteq Rests(c, p) /\ t \subseteq Rests(d, p)
      BY <2>1, <2>2 DEF Rests
    <2>4. p \notin r /\ -p \notin r /\ r \subseteq UNION F.irr /\ r \in SUBSET Lits
      BY <1>2, <2>0, <2>1, <2>2
    <2>5. ASSUME NEW A \in DbModels(F) PROVE r \cap A # {}
      <3>1. A \in Assignments /\ F.units \subseteq A /\ c \cap A # {} /\ d \cap A # {}
        <4>1. F \in Dbs
          BY FormulaParts
        <4>. QED
          BY <1>2, <4>1, DbModel
      <3>2. Remaining(F, c) \cap A # {} /\ Remaining(F, d) \cap A # {}
        BY <3>1, RemainingTrue
      <3>. QED
        BY <3>1, <3>2, ResolventTrue
    <2> HIDE DEF s, t
    <2>6. CASE fixedTrue(F, c)
      <3>1. R = [db |-> mark_garbage(F, c), resolvent |-> {}]
        BY <1>2, <2>6 DEF resolve_clauses
      <3>. QED
        BY <1>2, <2>6, <3>1, ParentTrue DEF Resolved
    <2>7. CASE ~fixedTrue(F, c) /\ fixedTrue(F, d)
      <3>1. R = [db |-> mark_garbage(F, d), resolvent |-> {}]
        BY <1>2, <2>7 DEF resolve_clauses
      <3>. QED
        BY <1>2, <2>7, <3>1, ParentTrue DEF Resolved
    <2>8. CASE ~fixedTrue(F, c) /\ ~fixedTrue(F, d) /\ r \cap Negated(r) # {}
      <3>1. R = [db |-> F, resolvent |-> {}]
        BY <1>2, <2>8 DEF resolve_clauses, s, t
      <3>2. PICK l \in r : -l \in r /\ l \in Lits
        <4>1. PICK l \in r : l \in Negated(r)
          BY <2>8
        <4>2. \E k \in r : l = -k
          BY <4>1 DEF Negated
        <4>3. -l \in r /\ l \in Lits
          BY <2>4, <4>2, Literal
        <4>. QED
          BY <4>3
      <3>3. ASSUME NEW A \in Around(F, p) PROVE Rests(c, p) \cap A # {} \/ Rests(d, p) \cap A # {}
        <4>1. l \in A \/ -l \in A
          BY <3>2, AssignmentIff DEF Around
        <4>. QED
          BY <2>3, <3>2, <4>1
      <3>. QED
        BY <1>0, <3>1, <3>3 DEF Resolved
    <2>9. CASE ~fixedTrue(F, c) /\ ~fixedTrue(F, d) /\ r \cap Negated(r) = {}
      <3>0. IsClause(r) /\ Cardinality(r) \in Nat /\ (Cardinality(r) = 0 => r = {})
        <4>1. IsClause(r)
          BY <2>4, <2>9 DEF IsClause
        <4>2. IsFiniteSet(r)
          BY <2>4, OneLiteral
        <4>. QED
          BY <4>1, <4>2, FS_CardinalityType, FS_EmptySet
      <3>1. CASE r = {}
        <4>1. R = [db |-> [F EXCEPT !.unsat = TRUE], resolvent |-> {}]
          BY <1>2, <2>9, <3>1 DEF resolve_clauses, s, t
        <4>2. DbModels(F) = {}
          BY <2>5, <3>1
        <4>3. [F EXCEPT !.unsat = TRUE] = new_clause(F, r, FALSE)
          BY <3>1 DEF new_clause
        <4>4. Chained(F, p, new_clause(F, r, FALSE))
          <5> HIDE DEF r
          <5>. QED
            BY <2>4, <2>5, <3>0, ChainedNew
        <4>5. [F EXCEPT !.unsat = TRUE].unsat /\ [F EXCEPT !.unsat = TRUE].units = F.units
          BY FormulaParts DEF Dbs
        <4>6. Chained(F, p, R.db) /\ R.resolvent = {} /\ R.db.unsat /\ R.db.units = F.units
          <5> DEFINE E == [F EXCEPT !.unsat = TRUE]
          <5>1. R = [db |-> E, resolvent |-> {}] /\ Chained(F, p, E) /\ E.unsat /\ E.units = F.units
            <6> HIDE DEF r
            <6>1. Chained(F, p, E)
              BY <4>3, <4>4
            <6>. QED
              BY <4>1, <4>5, <6>1
          <5> HIDE DEF E
          <5>. QED
            BY ONLY <5>1
        <4>. QED
          BY <4>6 DEF Resolved, Settled
      <3>2. CASE r # {} /\ Cardinality(r) = 1
        <4>1. R = [db |-> IF eager THEN elim_propagate(unit) ELSE unit, resolvent |-> {}]
          BY <1>2, <2>9, <3>2 DEF resolve_clauses, s, t
        <4>2. /\ Chained(F, p, unit) /\ unit.units \subseteq F.units \cup r
              /\ \A A \in Around(unit, p) : r \cap A # {}
          <5> HIDE DEF r
          <5>. QED
            BY <2>4, <2>5, <3>0, ChainedNew
        <4>3. unit \in Formulas
          BY <4>2 DEF Chained, Worked, Follows
        <4> HIDE DEF unit
        <4>4. Chained(unit, p, elim_propagate(unit))
          BY <4>3, ChainedPropagate
        <4>5. Chained(F, p, R.db) /\ Around(R.db, p) \subseteq Around(unit, p)
          <5>1. CASE eager
            BY <4>1, <4>2, <4>4, <5>1, ChainedTrans DEF Chained
          <5>2. CASE ~eager
            BY <4>1, <4>2, <5>2
          <5>. QED
            BY <5>1, <5>2
        <4>6. \A A \in Around(R.db, p) : Rests(c, p) \cap A # {} \/ Rests(d, p) \cap A # {}
          BY <2>3, <4>2, <4>5
        <4>7. ~eager => R.db.units \subseteq F.units \cup {l \in Lits : l # p /\ l # -p}
          BY <2>4, <4>1, <4>2
        <4>. QED
          BY <4>1, <4>5, <4>6, <4>7 DEF Resolved
      <3>3. CASE r # {} /\ Cardinality(r) # 1
        <4>1. Cardinality(r) >= 2
          BY <3>0, <3>3
        <4>0. unit.units = F.units /\ unit \in Formulas
          <5> HIDE DEF r
          <5>. QED
            BY <2>4, <2>5, <3>0, <4>1, ChainedNew DEF Chained, Worked, Follows
        <4>2. CASE r # s /\ r # t
          <5>1. R = [db |-> F, resolvent |-> r]
            BY <1>2, <2>9, <3>3, <4>2 DEF resolve_clauses, s, t
          <5>2. r \subseteq Rests(c, p) \cup Rests(d, p)
            BY <2>3
          <5> HIDE DEF r
          <5>. QED
            BY <2>4, <2>5, <3>0, <3>3, <4>1, <5>1, <5>2, ChainedSame DEF Resolved
        <4>3. strengthened = mark_garbage(new_clause(F, s, FALSE), c)
          BY DEF elim_on_the_fly_self_subsumption, s
        <4>4. CASE r = s
          <5>1. /\ Chained(F, p, strengthened) /\ s \in strengthened.irr
                /\ \A A \in Around(strengthened, p) : s \cap A # {}
            BY <1>2, <2>0, <2>3, <2>5, <4>1, <4>3, <4>4, SelfSubsumed
          <5>2. strengthened \in Formulas
            BY <5>1 DEF Chained, Worked, Follows
          <5>3. strengthened.units \subseteq F.units
            <6>1. new_clause(F, s, FALSE) = unit
              BY <4>4
            <6>2. unit \in Formulas /\ unit.units = F.units
              BY <4>0
            <6> HIDE DEF unit, r
            <6>3. strengthened = mark_garbage(unit, c)
              BY <4>3, <6>1
            <6> HIDE DEF strengthened
            <6>. QED
              BY <6>2, <6>3, GarbageMeans DEF Reduced
          <5> HIDE DEF strengthened
          <5>4. CASE r # t
            <6>1. R = [db |-> strengthened, resolvent |-> {}]
              BY <1>2, <2>9, <3>3, <4>4, <5>4 DEF resolve_clauses, s, t, strengthened
            <6>. QED
              BY <2>3, <5>1, <5>3, <6>1 DEF Resolved
          <5>5. CASE r = t
            <6> DEFINE H == mark_garbage(strengthened, d)
            <6>1. R = [db |-> H, resolvent |-> {}]
              BY <1>2, <2>9, <3>3, <4>4, <5>5 DEF resolve_clauses, s, t, strengthened
            <6>2. H.irr = strengthened.irr \ {d} /\ H.units = strengthened.units
              BY <5>2, GarbageMeans DEF Reduced
            <6>3. s \in H.irr
              BY <2>0, <2>4, <4>4, <5>1, <6>2
            <6>4. \A A \in Lean(H) \cup Around(H, p) : s \cap A # {}
              BY <2>4, <4>4, <6>3 DEF Lean, Around
            <6>5. s \subseteq Rests(d, p) /\ s \subseteq d
              BY <2>3, <4>4, <5>5
            <6>6. Chained(strengthened, p, H)
              <7> HIDE DEF H
              <7>1. H = mark_garbage(strengthened, d)
                BY DEF H
              <7>. QED
                BY <5>2, <6>4, <6>5, <7>1, ChainedGarbage
            <6>7. Chained(F, p, H)
              BY <5>1, <6>6, ChainedTrans
            <6> HIDE DEF H
            <6>. QED
              BY <2>3, <5>3, <6>1, <6>2, <6>4, <6>7 DEF Resolved
          <5>. QED
            BY <5>4, <5>5
        <4>5. CASE r # s /\ r = t
          <5> DEFINE H == elim_on_the_fly_self_subsumption(F, d, -p)
          <5>1. R = [db |-> H, resolvent |-> {}]
            BY <1>2, <2>9, <3>3, <4>5 DEF resolve_clauses, s, t
          <5>2. H = mark_garbage(new_clause(F, t, FALSE), d)
            BY DEF elim_on_the_fly_self_subsumption, t
          <5> HIDE DEF H
          <5>3. /\ Chained(F, p, H) /\ \A A \in Around(H, p) : t \cap A # {}
            BY <1>2, <2>0, <2>3, <2>5, <4>1, <4>5, <5>2, SelfSubsumed
          <5>4. H.units \subseteq F.units
            <6>1. new_clause(F, t, FALSE) = unit
              BY <4>5
            <6>2. unit \in Formulas /\ unit.units = F.units
              BY <4>0
            <6> HIDE DEF unit, r
            <6>3. H = mark_garbage(unit, d)
              BY <5>2, <6>1
            <6>. QED
              BY <6>2, <6>3, GarbageMeans DEF Reduced
          <5>. QED
            BY <2>3, <5>1, <5>3, <5>4 DEF Resolved
        <4>. QED
          BY <4>2, <4>4, <4>5
      <3>. QED
        BY <3>1, <3>2, <3>3
    <2>. QED
      BY <2>6, <2>7, <2>8, <2>9
  <1>. QED
    BY <1>1, <1>2

-----------------------------------------------------------------------------
\* The pairs of clauses of the pivot are those of both its phases.
AllPaired(F, p) ==
  \A c \in occs(F, p), d \in occs(F, -p) :
    \E i \in 1..Len(PairsToResolve(F, p)) : PairsToResolve(F, p)[i] = <<c, d>>

\* The list of the pairs to resolve has all of them and no others.
LEMMA PairsRight ==
  ASSUME NEW F \in Formulas, NEW p
  PROVE  /\ PairsToResolve(F, p) \in Seq(occs(F, p) \X occs(F, -p))
         /\ AllPaired(F, p)
PROOF
  <1> DEFINE ps == Sorted(occs(F, p), BySize)
             ns == Sorted(occs(F, -p), BySize)
             T == occs(F, p) \X occs(F, -p)
             row == [i \in 1..Len(ps) |-> [j \in 1..Len(ns) |-> <<ps[i], ns[j]>>]]
             L == PairsToResolve(F, p)
  <1>1. \A l : occs(F, l) \in SUBSET Clauses /\ IsFiniteSet(occs(F, l))
    BY FormulaParts, FiniteClausesIn DEF occs
  <1>2. /\ ps \in Seq(occs(F, p)) /\ ns \in Seq(occs(F, -p))
        /\ \A c \in occs(F, p) : \E i \in 1..Len(ps) : ps[i] = c
        /\ \A d \in occs(F, -p) : \E j \in 1..Len(ns) : ns[j] = d
    BY <1>1, BySizeRight
  <1>3. L = FlattenSeq(row)
    BY DEF PairsToResolve
  <1> HIDE DEF ps, ns
  <1>4. ASSUME NEW i \in 1..Len(ps) PROVE row[i] \in Seq(T) /\ Len(row[i]) = Len(ns)
                                          /\ \A j \in 1..Len(ns) : row[i][j] = <<ps[i], ns[j]>>
    <2>1. row[i] = [j \in 1..Len(ns) |-> <<ps[i], ns[j]>>]
      BY DEF row
    <2>2. Len(ns) \in Nat /\ ps[i] \in occs(F, p) /\ \A j \in 1..Len(ns) : ns[j] \in occs(F, -p)
      BY <1>2
    <2>3. \A j \in 1..Len(ns) : <<ps[i], ns[j]>> \in T
      BY <2>2
    <2> HIDE DEF T, row
    <2>. QED
      BY <2>1, <2>2, <2>3
  <1>5. row \in Seq(Seq(T)) /\ Len(row) = Len(ps)
    <2>1. Len(ps) \in Nat
      BY <1>2
    <2>2. row = [i \in 1..Len(ps) |-> row[i]]
      BY DEF row
    <2> HIDE DEF T, row
    <2>. QED
      BY <1>4, <2>1, <2>2
  <1> HIDE DEF row, T
  <1>6. /\ FlattenSeq(row) \in Seq(T)
        /\ \A x : x \in ToSet(FlattenSeq(row)) <=> \E i \in 1..Len(row) : x \in ToSet(row[i])
    BY <1>5, FlattenRight
  <1> HIDE DEF L
  <1>7. L \in Seq(T)
    BY <1>3, <1>6
  <1>8. ASSUME NEW c \in occs(F, p), NEW d \in occs(F, -p)
        PROVE  \E i \in 1..Len(L) : L[i] = <<c, d>>
    <2>1. PICK i \in 1..Len(ps) : ps[i] = c
      BY <1>2
    <2>2. PICK j \in 1..Len(ns) : ns[j] = d
      BY <1>2
    <2>3. row[i][j] = <<c, d>> /\ j \in 1..Len(row[i])
      BY <1>4, <2>1, <2>2
    <2>4. <<c, d>> \in ToSet(row[i])
      BY <2>3 DEF ToSet
    <2>5. <<c, d>> \in ToSet(L)
      BY <1>3, <1>5, <1>6, <2>4
    <2>6. DOMAIN L = 1..Len(L)
      BY ONLY <1>7
    <2>. QED
      BY ONLY <2>5, <2>6 DEF ToSet
  <1>. QED
    BY <1>7, <1>8 DEF L, T, AllPaired

-----------------------------------------------------------------------------
\* The states of the trial.
TrialClosed(F, pivot, gates, pos, neg, T) ==
  /\ [db |-> F, resolvents |-> 0, bounded |-> TRUE] \in T
  /\ \A y \in T, i \in 1..Len(PairsToResolve(F, pivot)) :
       try_pair(pivot, gates, pos + neg + ElimBound, y, PairsToResolve(F, pivot)[i]) \in T
TrialRun(F, pivot, gates, pos, neg, T, f) ==
  /\ f[0] = [db |-> F, resolvents |-> 0, bounded |-> TRUE]
  /\ \A i \in 1..Len(PairsToResolve(F, pivot)) : f[i] =
       try_pair(pivot, gates, pos + neg + ElimBound, f[i - 1], PairsToResolve(F, pivot)[i])
  /\ elim_resolvents_are_bounded(F, pivot, gates, pos, neg) = f[Len(PairsToResolve(F, pivot))]
  /\ \A i \in 0..Len(PairsToResolve(F, pivot)) : f[i] \in T

\* The trial runs within any closed set of states.
LEMMA TrialTurns ==
  ASSUME NEW F, NEW pivot, NEW gates, NEW pos, NEW neg, ~(pos = 0 \/ neg = 0),
         Len(PairsToResolve(F, pivot)) \in Nat, NEW T, TrialClosed(F, pivot, gates, pos, neg, T)
  PROVE  \E f : TrialRun(F, pivot, gates, pos, neg, T, f)
PROOF
  <1> DEFINE n == Len(PairsToResolve(F, pivot))
             start == [db |-> F, resolvents |-> 0, bounded |-> TRUE]
             Body(g, i) == IF i = 0 THEN start
                 ELSE try_pair(pivot, gates, pos + neg + ElimBound, g[i - 1], PairsToResolve(F, pivot)[i])
             chosen == CHOOSE g : g = [i \in 0..n |-> Body(g, i)]
             step == [p \in Nat \X T |-> IF p[1] \in 1..n
                 THEN try_pair(pivot, gates, pos + neg + ElimBound, p[2], PairsToResolve(F, pivot)[p[1]]) ELSE p[2]]
  <1>0. n \in Nat
    OBVIOUS
  <1>1. start \in T /\ \A y \in T, i \in 1..n :
          try_pair(pivot, gates, pos + neg + ElimBound, y, PairsToResolve(F, pivot)[i]) \in T
    BY DEF TrialClosed
  <1>2. elim_resolvents_are_bounded(F, pivot, gates, pos, neg) = chosen[n]
    BY DEF elim_resolvents_are_bounded, Folded
  <1>3. \A g : Body(g, 0) = start /\ \A i \in 1..n : Body(g, i) =
          try_pair(pivot, gates, pos + neg + ElimBound, g[i - 1], PairsToResolve(F, pivot)[i])
    BY <1>0
  <1> HIDE DEF n, start, Body
  <1>4. step \in [Nat \X T -> T]
    BY <1>0, <1>1
  <1>5. PICK f : IsRun(T, start, step, n, f)
    <2> HIDE DEF step
    <2>. QED
      BY <1>0, <1>1, <1>4, LoopRuns
  <1>6. ASSUME NEW i \in 1..n PROVE f[i] = try_pair(pivot, gates, pos + neg + ElimBound, f[i - 1], PairsToResolve(F, pivot)[i])
    <2>1. i \in Nat /\ i - 1 \in 0..n
      BY <1>0
    <2>2. f[i - 1] \in T /\ f[i] = step[<<i, f[i - 1]>>]
      BY <1>5, <2>1 DEF IsRun
    <2>3. step[<<i, f[i - 1]>>] = try_pair(pivot, gates, pos + neg + ElimBound, f[i - 1], PairsToResolve(F, pivot)[i])
      BY <2>1, <2>2
    <2>. QED
      BY <2>2, <2>3
  <1>7. \A i \in 0..n : f[i] = Body(f, i)
    <2> SUFFICES ASSUME NEW i \in 0..n PROVE f[i] = Body(f, i)
      OBVIOUS
    <2>1. i = 0 \/ i \in 1..n
      BY <1>0
    <2>2. f[0] = start
      BY <1>5 DEF IsRun
    <2>. QED
      BY <1>3, <1>6, <2>1, <2>2
  <1>8. f = [i \in 0..n |-> Body(f, i)]
    BY <1>5, <1>7 DEF IsRun
  <1>9. chosen = [i \in 0..n |-> Body(chosen, i)]
    BY <1>8
  <1>10. \A i \in 0..n : chosen[i] = Body(chosen, i)
    <2> HIDE DEF chosen
    <2>. QED
      BY <1>9
  <1> HIDE DEF chosen
  <1>11. chosen[0] = start /\ \A i \in 1..n : chosen[i] =
           try_pair(pivot, gates, pos + neg + ElimBound, chosen[i - 1], PairsToResolve(F, pivot)[i])
    BY <1>0, <1>3, <1>10
  <1>12. \A i \in 1..n : chosen[i - 1] \in T => chosen[i] \in T
    BY <1>1, <1>11
  <1>13. \A i \in 0..n : chosen[i] \in T
    BY <1>0, <1>1, <1>11, <1>12, RunInd
  <1> DEFINE Has(g) == /\ g[0] = [db |-> F, resolvents |-> 0, bounded |-> TRUE]
                       /\ \A i \in 1..Len(PairsToResolve(F, pivot)) : g[i] =
                            try_pair(pivot, gates, pos + neg + ElimBound, g[i - 1], PairsToResolve(F, pivot)[i])
                       /\ elim_resolvents_are_bounded(F, pivot, gates, pos, neg) = g[Len(PairsToResolve(F, pivot))]
                       /\ \A i \in 0..Len(PairsToResolve(F, pivot)) : g[i] \in T
  <1>14. Has(chosen)
    BY <1>2, <1>11, <1>13 DEF n, start
  <1>15. \E g : Has(g)
    <2> HIDE DEF Has
    <2>. QED
      BY ONLY <1>14
  <1>. QED
    BY ONLY <1>15 DEF Has, TrialRun

\* The states of the addition of the resolvents.
AddingClosed(F, pivot, gates, T) ==
  /\ [db |-> F, added |-> <<>>] \in T
  /\ \A y \in T, i \in 1..Len(PairsToResolve(F, pivot)) : add_pair(pivot, gates, y, PairsToResolve(F, pivot)[i]) \in T
AddingRun(F, pivot, gates, T, f) ==
  /\ f[0] = [db |-> F, added |-> <<>>]
  /\ \A i \in 1..Len(PairsToResolve(F, pivot)) : f[i] = add_pair(pivot, gates, f[i - 1], PairsToResolve(F, pivot)[i])
  /\ elim_add_resolvents(F, pivot, gates) = f[Len(PairsToResolve(F, pivot))]
  /\ \A i \in 0..Len(PairsToResolve(F, pivot)) : f[i] \in T

\* Adding the resolvents runs within any closed set of states.
LEMMA AddingTurns ==
  ASSUME NEW F, NEW pivot, NEW gates, Len(PairsToResolve(F, pivot)) \in Nat, NEW T, AddingClosed(F, pivot, gates, T)
  PROVE  \E f : AddingRun(F, pivot, gates, T, f)
PROOF
  <1> DEFINE n == Len(PairsToResolve(F, pivot))
             start == [db |-> F, added |-> <<>>]
             Body(g, i) == IF i = 0 THEN start ELSE add_pair(pivot, gates, g[i - 1], PairsToResolve(F, pivot)[i])
             chosen == CHOOSE g : g = [i \in 0..n |-> Body(g, i)]
             step == [p \in Nat \X T |-> IF p[1] \in 1..n
                 THEN add_pair(pivot, gates, p[2], PairsToResolve(F, pivot)[p[1]]) ELSE p[2]]
  <1>0. n \in Nat
    OBVIOUS
  <1>1. start \in T /\ \A y \in T, i \in 1..n : add_pair(pivot, gates, y, PairsToResolve(F, pivot)[i]) \in T
    BY DEF AddingClosed
  <1>2. elim_add_resolvents(F, pivot, gates) = chosen[n]
    BY DEF elim_add_resolvents, Folded
  <1>3. \A g : Body(g, 0) = start /\ \A i \in 1..n : Body(g, i) =
          add_pair(pivot, gates, g[i - 1], PairsToResolve(F, pivot)[i])
    BY <1>0
  <1> HIDE DEF n, start, Body
  <1>4. step \in [Nat \X T -> T]
    BY <1>0, <1>1
  <1>5. PICK f : IsRun(T, start, step, n, f)
    <2> HIDE DEF step
    <2>. QED
      BY <1>0, <1>1, <1>4, LoopRuns
  <1>6. ASSUME NEW i \in 1..n PROVE f[i] = add_pair(pivot, gates, f[i - 1], PairsToResolve(F, pivot)[i])
    <2>1. i \in Nat /\ i - 1 \in 0..n
      BY <1>0
    <2>2. f[i - 1] \in T /\ f[i] = step[<<i, f[i - 1]>>]
      BY <1>5, <2>1 DEF IsRun
    <2>3. step[<<i, f[i - 1]>>] = add_pair(pivot, gates, f[i - 1], PairsToResolve(F, pivot)[i])
      BY <2>1, <2>2
    <2>. QED
      BY <2>2, <2>3
  <1>7. \A i \in 0..n : f[i] = Body(f, i)
    <2> SUFFICES ASSUME NEW i \in 0..n PROVE f[i] = Body(f, i)
      OBVIOUS
    <2>1. i = 0 \/ i \in 1..n
      BY <1>0
    <2>2. f[0] = start
      BY <1>5 DEF IsRun
    <2>. QED
      BY <1>3, <1>6, <2>1, <2>2
  <1>8. f = [i \in 0..n |-> Body(f, i)]
    BY <1>5, <1>7 DEF IsRun
  <1>9. chosen = [i \in 0..n |-> Body(chosen, i)]
    BY <1>8
  <1>10. \A i \in 0..n : chosen[i] = Body(chosen, i)
    <2> HIDE DEF chosen
    <2>. QED
      BY <1>9
  <1> HIDE DEF chosen
  <1>11. chosen[0] = start /\ \A i \in 1..n : chosen[i] =
           add_pair(pivot, gates, chosen[i - 1], PairsToResolve(F, pivot)[i])
    BY <1>0, <1>3, <1>10
  <1>12. \A i \in 1..n : chosen[i - 1] \in T => chosen[i] \in T
    BY <1>1, <1>11
  <1>13. \A i \in 0..n : chosen[i] \in T
    BY <1>0, <1>1, <1>11, <1>12, RunInd
  <1> DEFINE Has(g) == /\ g[0] = [db |-> F, added |-> <<>>]
                       /\ \A i \in 1..Len(PairsToResolve(F, pivot)) : g[i] =
                            add_pair(pivot, gates, g[i - 1], PairsToResolve(F, pivot)[i])
                       /\ elim_add_resolvents(F, pivot, gates) = g[Len(PairsToResolve(F, pivot))]
                       /\ \A i \in 0..Len(PairsToResolve(F, pivot)) : g[i] \in T
  <1>14. Has(chosen)
    BY <1>2, <1>11, <1>13 DEF n, start
  <1>15. \E g : Has(g)
    <2> HIDE DEF Has
    <2>. QED
      BY ONLY <1>14
  <1>. QED
    BY ONLY <1>15 DEF Has, AddingRun

\* The trial only works on the formula, and leaves the pivot unsettled when it
\* stays within the bound.
LEMMA TrialMeans ==
  ASSUME NEW F \in Formulas, NEW p \in Lits, ~Settled(F, p), NEW gates, NEW pos, NEW neg,
         NEW R, R = elim_resolvents_are_bounded(F, p, gates, pos, neg)
  PROVE  Chained(F, p, R.db) /\ (R.bounded => ~Settled(R.db, p))
PROOF
  <1>1. CASE pos = 0 \/ neg = 0
    <2>1. R.db = F
      BY <1>1 DEF elim_resolvents_are_bounded
    <2>. QED
      BY <2>1, ChainedSame
  <1>2. CASE ~(pos = 0 \/ neg = 0)
    <2> DEFINE L == PairsToResolve(F, p)
               U == occs(F, p) \X occs(F, -p)
               start == [db |-> F, resolvents |-> 0, bounded |-> TRUE]
               bound == pos + neg + ElimBound
               T == {s \in [db : Formulas, resolvents : Nat, bounded : BOOLEAN] :
                       Chained(F, p, s.db) /\ (s.bounded => ~Settled(s.db, p))}
    <2>1. L \in Seq(U)
      BY PairsRight
    <2>2. start \in T
      BY ChainedSame
    <2>3. ASSUME NEW y \in T, NEW i \in 1..Len(L) PROVE try_pair(p, gates, bound, y, L[i]) \in T
      <3> DEFINE c == L[i][1]
                 d == L[i][2]
                 res == resolve_clauses(y.db, c, p, d, TRUE)
                 n == y.resolvents + (IF res.resolvent = {} THEN 0 ELSE 1)
                 b == n <= bound /\ Cardinality(res.resolvent) <= ElimClsLim /\ ~Settled(res.db, p)
      <3>1. c \in occs(F, p) /\ d \in occs(F, -p)
        BY <2>1
      <3>2. y.db \in Formulas /\ y.resolvents \in Nat /\ Chained(F, p, y.db) /\ p \in c /\ -p \in d
        BY <3>1 DEF occs
      <3>3. Resolved(y.db, c, p, d, res)
        <4> HIDE DEF c, d
        <4>. QED
          BY <3>2, ResolveMeans
      <3>4. Chained(F, p, res.db)
        BY <3>2, <3>3, ChainedTrans DEF Resolved
      <3>5. res.db \in Formulas /\ n \in Nat /\ b \in BOOLEAN /\ (b => ~Settled(res.db, p))
        <4>1. res.db \in Formulas
          BY <3>4 DEF Chained, Worked, Follows
        <4> HIDE DEF res
        <4>. QED
          BY <3>2, <4>1
      <3>6. CASE ~y.bounded \/ Skipped(L[i], gates)
        BY <3>6 DEF try_pair
      <3>7. CASE ~(~y.bounded \/ Skipped(L[i], gates))
        <4>1. try_pair(p, gates, bound, y, L[i]) = [db |-> res.db, resolvents |-> n, bounded |-> b]
          BY <3>7, Zenon DEF try_pair
        <4> HIDE DEF res, n, b
        <4>. QED
          BY <3>4, <3>5, <4>1
      <3>. QED
        BY <3>6, <3>7
    <2>4. TrialClosed(F, p, gates, pos, neg, T)
      BY <2>2, <2>3 DEF TrialClosed
    <2>7. Len(L) \in Nat
      BY <2>1
    <2> HIDE DEF T
    <2>5. PICK f : TrialRun(F, p, gates, pos, neg, T, f)
      BY ONLY <1>2, <2>4, <2>7, TrialTurns
    <2>6. R = f[Len(L)] /\ \A i \in 0..Len(L) : f[i] \in T
      BY <2>5 DEF TrialRun
    <2> HIDE DEF L
    <2>8. Len(L) \in 0..Len(L)
      BY <2>7
    <2>9. R \in T
      BY ONLY <2>6, <2>8
    <2>. QED
      BY <2>9 DEF T
  <1>. QED
    BY <1>1, <1>2

-----------------------------------------------------------------------------
\* Counting up to a bound.
LEMMA CountInd ==
  ASSUME NEW n \in Nat, NEW Good, 0 \in Good, \A i \in 1..n : i - 1 \in Good => i \in Good
  PROVE  \A i \in 0..n : i \in Good
PROOF
  <1> DEFINE Right == {i \in Nat : i \in 0..n => i \in Good}
  <1>1. 0 \in Right
    OBVIOUS
  <1>2. \A i \in Nat : i \in Right => i + 1 \in Right
    OBVIOUS
  <1> HIDE DEF Right
  <1>3. \A i \in Nat : i \in Right
    BY <1>1, <1>2, NatInd
  <1>. QED
    BY <1>3 DEF Right

\* The pairs of clauses of the pivot that have been resolved: where the rest of
\* the formula is true, one of the two is true without the pivot.
Either(G, p, c, d) == \A A \in Around(G, p) : Rests(c, p) \cap A # {} \/ Rests(d, p) \cap A # {}

\* What a turn of the addition makes of the formula.
Added(F, p, s) ==
  /\ s \in [db : Formulas, added : Seq(Clauses)]
  /\ Chained(F, p, s.db) /\ p \notin s.db.units /\ -p \notin s.db.units

\* Once a pair is handled, what is left of one of the two clauses without the
\* pivot is true whenever the formula is.
LEMMA AddPairMeans ==
  ASSUME NEW F \in Formulas, NEW p \in Lits, NEW gates, NEW s, Added(F, p, s),
         NEW c \in occs(F, p), NEW d \in occs(F, -p), NEW z, z = add_pair(p, gates, s, <<c, d>>)
  PROVE  /\ Added(F, p, z) /\ Chained(s.db, p, z.db)
         /\ ~Skipped(<<c, d>>, gates) /\ ~z.db.unsat => Either(z.db, p, c, d)
PROOF
  <1> DEFINE K == s.db
             res == resolve_clauses(K, c, p, d, FALSE)
             G == new_clause(res.db, res.resolvent, FALSE)
  <1>0. /\ K \in Formulas /\ Chained(F, p, K) /\ p \notin K.units /\ -p \notin K.units
        /\ s.added \in Seq(Clauses) /\ s \in [db : Formulas, added : Seq(Clauses)]
    BY DEF Added
  <1>1. p \in c /\ -p \in d /\ c \in Mine(F, p) /\ d \in Mine(F, p) /\ p # -p
    BY Literal DEF occs, Mine
  <1>2. Resolved(K, c, p, d, res) /\ res.db.units \subseteq K.units \cup {l \in Lits : l # p /\ l # -p}
    <2> DEFINE eager == FALSE
    <2>1. eager \in BOOLEAN /\ ~eager /\ res = resolve_clauses(K, c, p, d, eager)
      OBVIOUS
    <2> HIDE DEF eager, res, K
    <2>. QED
      BY <1>0, <1>1, <2>1, ResolveMeans
  <1>3. CASE s.db.unsat \/ Skipped(<<c, d>>, gates)
    <2>1. z = s
      BY <1>3 DEF add_pair
    <2>. QED
      BY <1>0, <1>3, <2>1, ChainedSame
  <1>r. Chained(K, p, res.db) /\ res.db \in Formulas
    BY <1>2 DEF Resolved, Chained, Worked, Follows
  <1>g. ASSUME NEW H, Chained(K, p, H), c \notin K.irr \/ d \notin K.irr, ~Settled(K, p)
        PROVE  Either(H, p, c, d)
    <2>1. c \notin Mine(K, p) \/ d \notin Mine(K, p)
      BY <1>g DEF Mine
    <2>2. Around(H, p) \subseteq Around(K, p)
      BY <1>g DEF Chained
    <2>3. \A A \in Around(K, p) : Rests(c, p) \cap A # {} \/ Rests(d, p) \cap A # {}
      BY <1>0, <1>1, <1>g, <2>1 DEF Chained
    <2>. QED
      BY <2>2, <2>3 DEF Either
  <1>4. CASE ~(s.db.unsat \/ Skipped(<<c, d>>, gates)) /\ res.resolvent = {}
    <2>1. z = [s EXCEPT !.db = res.db]
      BY <1>4 DEF add_pair
    <2> HIDE DEF res, G
    <2>2. z \in [db : Formulas, added : Seq(Clauses)] /\ z.db = res.db
      BY <1>0, <1>r, <2>1
    <2>3. p \notin z.db.units /\ -p \notin z.db.units
      BY <1>0, <1>2, <2>2
    <2>4. Chained(F, p, z.db)
      BY <1>0, <1>r, <2>2, ChainedTrans
    <2>5. ASSUME ~z.db.unsat PROVE Either(z.db, p, c, d)
      <3>1. CASE c \in K.irr /\ d \in K.irr
        <4>1. ~Settled(z.db, p)
          BY <2>3, <2>5 DEF Settled
        <4>. QED
          BY <1>2, <1>4, <2>2, <3>1, <4>1 DEF Resolved, Either
      <3>2. CASE c \notin K.irr \/ d \notin K.irr
        <4>1. ~Settled(K, p)
          BY <1>0, <1>4 DEF Settled
        <4>. QED
          BY <1>g, <1>r, <2>2, <3>2, <4>1
      <3>. QED
        BY <3>1, <3>2
    <2>. QED
      BY <1>r, <2>2, <2>3, <2>4, <2>5 DEF Added
  <1>5. CASE ~(s.db.unsat \/ Skipped(<<c, d>>, gates)) /\ res.resolvent # {}
    <2> DEFINE r == res.resolvent
               a == Append(s.added, r)
    <2>1. z = [db |-> G, added |-> a]
      BY <1>5 DEF add_pair
    <2>2. /\ res.db = K /\ IsClause(r) /\ Cardinality(r) >= 2 /\ r \subseteq UNION K.irr
          /\ p \notin r /\ -p \notin r /\ r \subseteq Rests(c, p) \cup Rests(d, p)
          /\ \A A \in DbModels(K) : r \cap A # {}
      BY <1>2, <1>5 DEF Resolved
    <2>3. /\ Chained(K, p, G) /\ \A A \in Around(G, p) : r \cap A # {}
          /\ G.units = K.units
      <3>1. G = new_clause(K, r, FALSE)
        BY <2>2
      <3>2. /\ K \in Formulas /\ IsClause(r) /\ Cardinality(r) >= 2 /\ r \subseteq UNION K.irr
            /\ p \notin r /\ -p \notin r /\ \A A \in DbModels(K) : r \cap A # {}
        BY <1>0, <2>2
      <3> HIDE DEF K, r, G
      <3>. QED
        BY ONLY <3>1, <3>2, ChainedNew
    <2>4. a \in Seq(Clauses)
      <3>1. r \in Clauses
        BY <2>2 DEF IsClause, Clauses
      <3> HIDE DEF r
      <3>. QED
        BY <1>0, <3>1
    <2>5. G \in Formulas
      BY <2>3 DEF Chained, Worked, Follows
    <2>6. Chained(F, p, G)
      BY <1>0, <2>3, ChainedTrans
    <2>7. Either(G, p, c, d)
      BY <2>2, <2>3 DEF Either
    <2> HIDE DEF G, a, r, res
    <2>. QED
      BY <1>0, <2>1, <2>3, <2>4, <2>5, <2>6, <2>7 DEF Added
  <1>. QED
    BY <1>3, <1>4, <1>5

\* All resolvents added.
LEMMA AddingMeans ==
  ASSUME NEW F \in Formulas, NEW p \in Lits, ~Settled(F, p), NEW gates,
         NEW R, R = elim_add_resolvents(F, p, gates)
  PROVE  /\ Added(F, p, R)
         /\ ~R.db.unsat => \A c \in occs(F, p), d \in occs(F, -p) :
              ~Skipped(<<c, d>>, gates) => Either(R.db, p, c, d)
PROOF
  <1> DEFINE L == PairsToResolve(F, p)
             U == occs(F, p) \X occs(F, -p)
             start == [db |-> F, added |-> <<>>]
             n == Len(L)
             T == {s \in [db : Formulas, added : Seq(Clauses)] : Added(F, p, s)}
  <1>1. /\ L \in Seq(U) /\ n \in Nat /\ \A i \in 1..n : L[i] \in U
        /\ \A c \in occs(F, p), d \in occs(F, -p) : \E i \in 1..n : L[i] = <<c, d>>
    <2>1. L \in Seq(U)
      BY PairsRight
    <2>2. \A c \in occs(F, p), d \in occs(F, -p) : \E i \in 1..n : L[i] = <<c, d>>
      <3>1. \A c \in occs(F, p), d \in occs(F, -p) :
              \E i \in 1..Len(PairsToResolve(F, p)) : PairsToResolve(F, p)[i] = <<c, d>>
        <4>1. AllPaired(F, p)
          BY PairsRight
        <4>. QED
          BY ONLY <4>1 DEF AllPaired
      <3>. QED
        BY <3>1
    <2> HIDE DEF L, U
    <2>3. n \in Nat /\ \A i \in 1..n : L[i] \in U
      BY ONLY <2>1 DEF n
    <2>. QED
      BY ONLY <2>1, <2>2, <2>3
  <1>2. start \in T
    <2>1. start.db = F /\ start \in [db : Formulas, added : Seq(Clauses)]
      OBVIOUS
    <2>2. p \notin F.units /\ -p \notin F.units
      BY DEF Settled
    <2> HIDE DEF start
    <2>. QED
      BY <2>1, <2>2, ChainedSame DEF Added
  <1> HIDE DEF L, n
  <1>3. ASSUME NEW y \in T, NEW i \in 1..n
        PROVE  /\ add_pair(p, gates, y, L[i]) \in T
               /\ Chained(y.db, p, add_pair(p, gates, y, L[i]).db)
               /\ ~Skipped(L[i], gates) /\ ~add_pair(p, gates, y, L[i]).db.unsat
                    => Either(add_pair(p, gates, y, L[i]).db, p, L[i][1], L[i][2])
    <2>1. PICK c \in occs(F, p), d \in occs(F, -p) : L[i] = <<c, d>>
      <3>1. L[i] \in U
        BY <1>1
      <3> HIDE DEF L
      <3>. QED
        BY <3>1
    <2> DEFINE z == add_pair(p, gates, y, <<c, d>>)
    <2>2. Added(F, p, y)
      OBVIOUS
    <2>3. /\ Added(F, p, z) /\ Chained(y.db, p, z.db)
          /\ ~Skipped(<<c, d>>, gates) /\ ~z.db.unsat => Either(z.db, p, c, d)
      BY <2>2, AddPairMeans
    <2>4. z \in T
      <3> HIDE DEF z
      <3>. QED
        BY <2>3 DEF Added
    <2> HIDE DEF T
    <2>. QED
      BY <2>1, <2>3, <2>4
  <1>4. AddingClosed(F, p, gates, T)
    BY <1>2, <1>3 DEF AddingClosed, L, n
  <1> HIDE DEF T
  <1>m. Len(PairsToResolve(F, p)) \in Nat
    BY <1>1 DEF n, L
  <1>p. PICK f : AddingRun(F, p, gates, T, f)
    BY ONLY <1>4, <1>m, AddingTurns
  <1>5. /\ f[0] = start /\ \A i \in 1..n : f[i] = add_pair(p, gates, f[i - 1], L[i])
        /\ R = f[n] /\ \A i \in 0..n : f[i] \in T
    BY <1>p DEF AddingRun, L, n
  <1> HIDE DEF U, start
  <1> DEFINE P(i) == ~f[i].db.unsat => \A j \in 1..i : ~Skipped(L[j], gates) => Either(f[i].db, p, L[j][1], L[j][2])
  <1>6. P(0)
    OBVIOUS
  <1>7. ASSUME NEW i \in 1..n, P(i - 1) PROVE P(i)
    <2> DEFINE y == f[i - 1]
               z == f[i]
    <2>1. i - 1 \in 0..n /\ \A j \in 1..i : j = i \/ j \in 1..(i - 1)
      BY <1>1
    <2>2. y \in T /\ z = add_pair(p, gates, y, L[i])
      BY <1>5, <2>1
    <2> HIDE DEF y, z
    <2>3. /\ Chained(y.db, p, z.db)
          /\ ~Skipped(L[i], gates) /\ ~z.db.unsat => Either(z.db, p, L[i][1], L[i][2])
      BY <1>3, <2>2
    <2>4. Around(z.db, p) \subseteq Around(y.db, p) /\ (y.db.unsat => z.db.unsat)
      BY <2>3 DEF Chained, Worked, Follows
    <2>5. ~y.db.unsat => \A j \in 1..(i - 1) : ~Skipped(L[j], gates) => Either(y.db, p, L[j][1], L[j][2])
      BY <1>7 DEF y
    <2>6. ASSUME ~z.db.unsat, NEW j \in 1..i, ~Skipped(L[j], gates) PROVE Either(z.db, p, L[j][1], L[j][2])
      <3>1. CASE j = i
        BY <2>3, <2>6, <3>1
      <3>2. CASE j \in 1..(i - 1)
        BY <2>4, <2>5, <2>6, <3>2 DEF Either
      <3>. QED
        BY <2>1, <3>1, <3>2
    <2>. QED
      BY <2>6 DEF z
  <1>8. P(n)
    <2> DEFINE Good == {i \in 0..n : P(i)}
    <2> HIDE DEF P
    <2>1. 0 \in Good /\ \A i \in 1..n : i - 1 \in Good => i \in Good
      BY <1>1, <1>6, <1>7
    <2> HIDE DEF Good
    <2>2. \A i \in 0..n : i \in Good
      BY <1>1, <2>1, CountInd
    <2>. QED
      BY <1>1, <2>2 DEF Good
  <1>9. R \in T
    <2>1. n \in 0..n
      BY <1>1
    <2>. QED
      BY ONLY <1>5, <2>1
  <1>10. ASSUME ~R.db.unsat, NEW c \in occs(F, p), NEW d \in occs(F, -p), ~Skipped(<<c, d>>, gates)
         PROVE  Either(R.db, p, c, d)
    <2>1. PICK i \in 1..n : L[i] = <<c, d>>
      BY <1>1
    <2>. QED
      BY <1>5, <1>8, <1>10, <2>1
  <1>. QED
    BY <1>9, <1>10 DEF T

-----------------------------------------------------------------------------
\* The clauses that go to the stack for one phase of the pivot, and their
\* entries.
Marks(G, l, gates) == {c \in occs(G, l) : gates = {} \/ c \in gates}

MarkEntries(G, l, gates, s) ==
  /\ s \in Seq(Entries)
  /\ \A j \in 1..Len(s) : s[j].witness = {l} /\ s[j].clause \in Marks(G, l, gates)
  /\ \A c \in Marks(G, l, gates) : \E j \in 1..Len(s) : s[j].clause = c

\* The entries of one phase are its marked clauses, the phase their witness.
LEMMA MarkEntriesRight ==
  ASSUME NEW G \in Formulas, NEW l \in Lits, NEW gates, NEW cs, cs = Sorted(Marks(G, l, gates), BySize),
         NEW s, s = [i \in 1..Len(cs) |-> Pushed({l}, cs[i])]
  PROVE  MarkEntries(G, l, gates, s)
PROOF
  <1> DEFINE C == Marks(G, l, gates)
  <1>1. C \in SUBSET Clauses /\ IsFiniteSet(C) /\ \A c \in C : l \in c /\ c \in Clauses
    <2>1. C \in SUBSET Clauses /\ \A c \in C : l \in c
      BY FormulaParts DEF Marks, occs
    <2>2. IsFiniteSet(C)
      BY <2>1, FiniteClausesIn
    <2>. QED
      BY <2>1, <2>2
  <1> HIDE DEF C
  <1>2. cs \in Seq(C) /\ \A c \in C : \E i \in 1..Len(cs) : cs[i] = c
    BY <1>1, BySizeRight DEF C
  <1>3. ASSUME NEW i \in 1..Len(cs) PROVE s[i] \in Entries /\ s[i].witness = {l} /\ s[i].clause = cs[i]
    <2>1. cs[i] \in C
      BY <1>2
    <2>2. s[i] = [witness |-> {l}, clause |-> cs[i]]
      BY DEF Pushed
    <2>3. {l} \cap Negated({l}) = {}
      BY Literal DEF Negated
    <2> DEFINE c == cs[i]
    <2>4. c \in Clauses /\ l \in c /\ s[i] = [witness |-> {l}, clause |-> c]
      BY <1>1, <2>1, <2>2
    <2>5. {l} \cap c # {} /\ {l} \in SUBSET Lits
      BY <2>4
    <2> HIDE DEF c
    <2>6. [witness |-> {l}, clause |-> c] \in Entries
      BY ONLY <2>3, <2>4, <2>5 DEF Entries
    <2>7. s[i] \in Entries /\ s[i].witness = {l} /\ s[i].clause = c
      BY ONLY <2>4, <2>6
    <2>. QED
      BY <2>7 DEF c
  <1>4. s = [i \in 1..Len(cs) |-> s[i]] /\ Len(cs) \in Nat
    BY <1>2
  <1>5. s \in Seq(Entries) /\ Len(s) = Len(cs)
    BY ONLY <1>3, <1>4
  <1>6. \A j \in 1..Len(cs) : cs[j] \in C
    BY <1>2
  <1>7. \A j \in 1..Len(s) : s[j].witness = {l} /\ s[j].clause \in C
    BY <1>3, <1>5, <1>6
  <1>8. ASSUME NEW c \in C PROVE \E j \in 1..Len(s) : s[j].clause = c
    <2>1. PICK i \in 1..Len(cs) : cs[i] = c
      BY <1>2
    <2>2. s[i].clause = cs[i]
      BY <1>3
    <2>3. i \in 1..Len(s)
      BY ONLY <1>5
    <2>. QED
      BY ONLY <2>1, <2>2, <2>3
  <1>. QED
    BY ONLY <1>5, <1>7, <1>8 DEF MarkEntries, C

\* The stack of an eliminated pivot.
PivotEntries(G, p, gates, pushed, n) ==
  /\ pushed \in Seq(Entries) /\ n \in 0..Len(pushed)
  /\ \A j \in Places(pushed) : j <= n => pushed[j].witness = {p} /\ pushed[j].clause \in Marks(G, p, gates)
  /\ \A j \in Places(pushed) : j > n => pushed[j].witness = {-p} /\ pushed[j].clause \in Marks(G, -p, gates)
  /\ \A c \in Marks(G, p, gates) \cup Marks(G, -p, gates) : \E j \in Places(pushed) : pushed[j].clause = c

\* The entries of both phases, one after the other.
LEMMA PivotEntriesRight ==
  ASSUME NEW G, NEW p, NEW gates, NEW s, NEW t, MarkEntries(G, p, gates, s), MarkEntries(G, -p, gates, t)
  PROVE  PivotEntries(G, p, gates, s \o t, Len(s))
PROOF
  <1>1. s \in Seq(Entries) /\ t \in Seq(Entries)
    BY DEF MarkEntries
  <1>2. /\ s \o t \in Seq(Entries) /\ Len(s \o t) = Len(s) + Len(t) /\ Len(s) \in Nat /\ Len(t) \in Nat
        /\ \A j \in 1..Len(s) : (s \o t)[j] = s[j]
        /\ \A j \in 1..Len(t) : (s \o t)[Len(s) + j] = t[j]
    BY <1>1
  <1> DEFINE u == s \o t
             m == Len(s)
             k == Len(t)
  <1>3. /\ u \in Seq(Entries) /\ Len(u) = m + k /\ m \in Nat /\ k \in Nat
        /\ \A j \in 1..m : u[j] = s[j]
        /\ \A j \in 1..k : u[m + j] = t[j]
    BY <1>2
  <1> HIDE DEF u, m, k
  <1>4. ASSUME NEW j \in 1..(m + k) PROVE (j <= m => j \in 1..m) /\ (j > m => j - m \in 1..k /\ u[j] = t[j - m])
    <2>1. j > m => j - m \in 1..k /\ m + (j - m) = j
      BY <1>3
    <2>2. j <= m => j \in 1..m
      BY <1>3
    <2>. QED
      BY <1>3, <2>1, <2>2
  <1>5. ASSUME NEW j \in Places(u), j <= m PROVE u[j].witness = {p} /\ u[j].clause \in Marks(G, p, gates)
    <2>1. j \in 1..m /\ u[j] = s[j]
      BY <1>3, <1>4, <1>5 DEF Places
    <2>2. \A i \in 1..m : s[i].witness = {p} /\ s[i].clause \in Marks(G, p, gates)
      BY DEF MarkEntries, m
    <2>. QED
      BY <2>1, <2>2
  <1>6. ASSUME NEW j \in Places(u), j > m PROVE u[j].witness = {-p} /\ u[j].clause \in Marks(G, -p, gates)
    <2>1. j - m \in 1..k /\ u[j] = t[j - m]
      BY <1>3, <1>4, <1>6 DEF Places
    <2>2. \A i \in 1..k : t[i].witness = {-p} /\ t[i].clause \in Marks(G, -p, gates)
      BY DEF MarkEntries, k
    <2>. QED
      BY <2>1, <2>2
  <1>7. ASSUME NEW c \in Marks(G, p, gates) PROVE \E j \in Places(u) : u[j].clause = c
    <2>1. PICK j \in 1..m : s[j].clause = c
      BY DEF MarkEntries, m
    <2>2. j \in Places(u)
      BY <1>3 DEF Places
    <2>. QED
      BY <1>3, <2>1, <2>2
  <1>8. ASSUME NEW c \in Marks(G, -p, gates) PROVE \E j \in Places(u) : u[j].clause = c
    <2>1. PICK j \in 1..k : t[j].clause = c
      BY DEF MarkEntries, k
    <2>2. m + j \in Places(u)
      BY <1>3 DEF Places
    <2>. QED
      BY <1>3, <2>1, <2>2
  <1>9. m \in 0..Len(u)
    BY <1>3
  <1>10. PivotEntries(G, p, gates, u, m)
    BY <1>3, <1>5, <1>6, <1>7, <1>8, <1>9 DEF PivotEntries
  <1>. QED
    BY <1>10 DEF u, m

\* The rest of a clause does not depend on the pivot.
LEMMA RestsFlip ==
  ASSUME NEW p \in Lits, NEW q \in {p, -p}, NEW A \in Assignments, NEW B, B = (A \ {-q}) \cup {q}, NEW c
  PROVE  Rests(c, p) \cap A # {} <=> Rests(c, p) \cap B # {}
PROOF
  <1>1. -q \in {p, -p}
    BY Literal
  <1>. QED
    BY <1>1 DEF Rests

\* Around does not depend on it either.
LEMMA AroundFlip ==
  ASSUME NEW G \in Formulas, NEW p \in Lits, ~Settled(G, p), NEW q \in {p, -p}, NEW A \in Around(G, p),
         NEW B, B = (A \ {-q}) \cup {q}
  PROVE  B \in Around(G, p)
PROOF
  <1>0. q \in Lits /\ -q \in {p, -p} /\ q # -q
    BY Literal
  <1>1. A \in Assignments /\ ~G.unsat /\ G.units \subseteq A
        /\ \A c \in G.irr : p \in c \/ -p \in c \/ c \cap A # {}
    BY DEF Around
  <1>2. B \in Assignments
    <2> DEFINE e == Pushed({q}, {q})
    <2>1. e \in Entries /\ e.witness = {q}
      <3>1. {q} \cap Negated({q}) = {} /\ {q} \in Clauses /\ {q} \in SUBSET Lits
        BY <1>0 DEF Clauses, Negated
      <3>. QED
        BY <3>1 DEF Pushed, Entries
    <2> HIDE DEF e
    <2>2. Flipped(e, A) = B
      BY <1>0, <2>1, FlippedOne
    <2>. QED
      BY <1>1, <2>1, <2>2, FlippedAssignment
  <1>3. G.units \subseteq B
    BY <1>0, <1>1 DEF Settled
  <1>4. ASSUME NEW c \in G.irr, p \notin c, -p \notin c PROVE c \cap B # {}
    BY <1>0, <1>1, <1>4
  <1>. QED
    BY <1>1, <1>2, <1>3, <1>4 DEF Around

-----------------------------------------------------------------------------
\* What the clauses of a gate say: two of them with both phases of the pivot
\* resolve to nothing new, and one of them always fixes the pivot.
GateOf(F, p, gates) ==
  /\ gates \subseteq Mine(F, p)
  /\ \A c \in gates, d \in gates : p \in c /\ -p \in d => Either(F, p, c, d)
  /\ \A A \in Around(F, p) : \E d \in gates : Rests(d, p) \cap A = {}
GateRight(F, p, gates) == gates = {} \/ GateOf(F, p, gates)

\* All pairs that count have been resolved.
AllEither(H, G, p, gates) ==
  \A c \in occs(H, p), d \in occs(H, -p) : ~Skipped(<<c, d>>, gates) => Either(G, p, c, d)

\* Where the clauses of the gate are true, so are the others of the pivot.
LEMMA OthersTrue ==
  ASSUME NEW F \in Formulas, NEW p \in Lits, NEW gates, GateRight(F, p, gates), gates # {},
         NEW H, Chained(F, p, H), NEW G, Chained(H, p, G), ~Settled(G, p),
         AllEither(H, G, p, gates),
         NEW A \in Around(G, p), \A c \in gates : c \cap A # {},
         NEW c \in Mine(F, p), c \notin gates
  PROVE  c \cap A # {}
PROOF
  <1> SUFFICES ASSUME c \cap A = {} PROVE FALSE
    OBVIOUS
  <1>1. Rests(c, p) \cap A = {}
    BY DEF Rests
  <1>2. /\ Around(G, p) \subseteq Around(H, p) /\ Around(H, p) \subseteq Around(F, p)
        /\ ~Settled(H, p) /\ ~Settled(F, p)
    BY DEF Chained
  <1>3. GateOf(F, p, gates)
    BY DEF GateRight
  <1>4. PICK d \in gates : Rests(d, p) \cap A = {}
    BY <1>2, <1>3 DEF GateOf
  <1>5. d \in Mine(F, p) /\ d \cap A # {}
    BY <1>3 DEF GateOf
  <1>6. c \in Mine(H, p) /\ d \in Mine(H, p)
    <2>1. \A e \in Mine(F, p) : e \notin Mine(H, p) => Rests(e, p) \cap A # {}
      BY <1>2 DEF Chained
    <2>. QED
      BY <1>1, <1>4, <1>5, <2>1
  <1>7. A \in Assignments
    BY DEF Around
  <1>8. p \in Lits /\ -p \in Lits /\ (p \in A <=> -p \notin A)
    <2>1. -p \in Lits
      BY Literal
    <2>2. \A l \in Lits : l \in A <=> -l \notin A
      BY <1>7, AssignmentIff
    <2>. QED
      BY <2>1, <2>2
  <1>9. (p \in d /\ p \in A) \/ (-p \in d /\ -p \in A)
    BY <1>4, <1>5 DEF Rests
  <1>10. CASE p \in d /\ p \in A
    <2>1. -p \in c
      BY <1>6, <1>10 DEF Mine
    <2>2. d \in occs(H, p) /\ c \in occs(H, -p)
      BY <1>6, <1>10, <2>1 DEF Mine, occs
    <2>3. ~Skipped(<<d, c>>, gates)
      BY DEF Skipped
    <2>4. Either(G, p, d, c)
      BY <2>2, <2>3 DEF AllEither
    <2>. QED
      BY <1>1, <1>4, <2>4 DEF Either
  <1>11. CASE -p \in d /\ -p \in A
    <2>1. p \in c
      BY <1>6, <1>11 DEF Mine
    <2>2. c \in occs(H, p) /\ d \in occs(H, -p)
      BY <1>6, <1>11, <2>1 DEF Mine, occs
    <2>3. ~Skipped(<<c, d>>, gates)
      BY DEF Skipped
    <2>4. Either(G, p, c, d)
      BY <2>2, <2>3 DEF AllEither
    <2>. QED
      BY <1>1, <1>4, <2>4 DEF Either
  <1>. QED
    BY <1>9, <1>10, <1>11

\* The stack of an eliminated pivot leads back to the formula.
LEMMA PivotKept ==
  ASSUME NEW F \in Formulas, NEW p \in Lits, NEW gates, GateRight(F, p, gates),
         NEW H, Chained(F, p, H), NEW G \in Formulas, Chained(H, p, G), ~Settled(G, p),
         AllEither(H, G, p, gates),
         NEW E, Lean(E) = Around(G, p),
         NEW pushed, NEW n, PivotEntries(G, p, gates, pushed, n)
  PROVE  Kept(F, pushed, E)
PROOF
  <1> DEFINE M == Lean(E)
  <1>0. /\ Around(G, p) \subseteq Around(H, p) /\ Around(H, p) \subseteq Around(F, p)
        /\ ~Settled(H, p) /\ ~Settled(F, p)
        /\ Mine(G, p) \subseteq Mine(H, p) /\ Mine(H, p) \subseteq Mine(F, p)
    BY DEF Chained
  <1>1. \A A \in M : A \in Assignments /\ (p \in A <=> -p \notin A) /\ A \in Around(G, p)
    BY AssignmentIff DEF Around
  <1>r. \A c, S : Rests(c, p) \cap S # {} => c \cap S # {}
    BY DEF Rests
  <1>2. ASSUME NEW c \in Marks(G, p, gates), NEW d \in Marks(G, -p, gates) PROVE Either(G, p, c, d)
    <2>1. /\ c \in occs(G, p) /\ d \in occs(G, -p) /\ p \in c /\ -p \in d
          /\ c \in Mine(H, p) /\ d \in Mine(H, p)
      BY <1>0 DEF Marks, occs, Mine
    <2>2. c \in occs(H, p) /\ d \in occs(H, -p)
      BY <2>1 DEF Mine, occs
    <2>3. CASE gates = {}
      BY <2>2, <2>3 DEF AllEither, Skipped
    <2>4. CASE gates # {}
      <3>1. c \in gates /\ d \in gates /\ GateOf(F, p, gates)
        BY <2>4 DEF Marks, GateRight
      <3>2. Either(F, p, c, d)
        BY <2>1, <3>1 DEF GateOf
      <3>. QED
        BY <1>0, <3>2 DEF Either
    <2>. QED
      BY <2>3, <2>4
  <1>3. ASSUME NEW j \in Places(pushed), NEW A \in Left(M, pushed, j), pushed[j].clause \cap A = {}
        PROVE  Flipped(pushed[j], A) \in Left(M, pushed, j)
    <2> DEFINE B == Flipped(pushed[j], A)
               c == pushed[j].clause
    <2>0. /\ A \in M /\ j \in Nat /\ n \in Nat
          /\ \A k \in Places(pushed) : k \in Nat /\ (k > j => pushed[k].clause \cap A # {})
      BY DEF Left, PivotEntries, Places
    <2>1. CASE j <= n
      <3>1. pushed[j].witness = {p} /\ c \in Marks(G, p, gates)
        BY <2>1 DEF PivotEntries
      <3>2. B = (A \ {-p}) \cup {p}
        BY <3>1, FlippedOne
      <3> HIDE DEF B
      <3>3. B \in M
        BY <1>1, <2>0, <3>2, AroundFlip
      <3>4. ASSUME NEW k \in Places(pushed), k > j PROVE pushed[k].clause \cap B # {}
        <4>1. CASE k <= n
          <5>1. p \in pushed[k].clause
            BY <4>1 DEF PivotEntries, Marks, occs
          <5>. QED
            BY <3>2, <5>1
        <4>2. CASE k > n
          <5>1. pushed[k].clause \in Marks(G, -p, gates)
            BY <4>2 DEF PivotEntries
          <5>2. Rests(pushed[k].clause, p) \cap A # {}
            <6>1. Rests(c, p) \cap A # {} \/ Rests(pushed[k].clause, p) \cap A # {}
              BY <1>1, <1>2, <2>0, <3>1, <5>1 DEF Either
            <6>2. Rests(c, p) \cap A = {}
              BY <1>3 DEF Rests
            <6>. QED
              BY <6>1, <6>2
          <5>3. Rests(pushed[k].clause, p) \cap B # {}
            BY <1>1, <2>0, <3>2, <5>2, RestsFlip
          <5> DEFINE x == pushed[k].clause
          <5>4. Rests(x, p) \cap B # {}
            BY ONLY <5>3
          <5> HIDE DEF x, c
          <5>5. x \cap B # {}
            BY ONLY <5>4 DEF Rests
          <5>. QED
            BY ONLY <5>5 DEF x
        <4>3. k <= n \/ k > n
          BY <2>0
        <4>. QED
          BY <4>1, <4>2, <4>3
      <3>. QED
        BY <3>3, <3>4 DEF Left, B
    <2>2. CASE j > n
      <3>1. pushed[j].witness = {-p} /\ -p \in Lits /\ -(-p) = p
        BY <2>2, Literal DEF PivotEntries
      <3>2. B = (A \ {p}) \cup {-p}
        BY <3>1, FlippedOne
      <3> HIDE DEF B
      <3>3. B \in M
        BY <1>1, <2>0, <3>1, <3>2, AroundFlip
      <3>4. ASSUME NEW k \in Places(pushed), k > j PROVE pushed[k].clause \cap B # {}
        <4>1. k > n
          BY <2>0, <2>2, <3>4
        <4>2. -p \in pushed[k].clause
          BY <4>1 DEF PivotEntries, Marks, occs
        <4>. QED
          BY <3>2, <4>2
      <3>. QED
        BY <3>3, <3>4 DEF Left, B
    <2>. QED
      BY <2>0, <2>1, <2>2
  <1>4. ASSUME NEW A \in Left(M, pushed, 0) PROVE A \in Lean(F)
    <2>0. A \in M /\ \A k \in Places(pushed) : pushed[k].clause \cap A # {}
      BY DEF Left, Places
    <2>1. A \in Around(G, p) /\ A \in Around(F, p) /\ A \in Assignments
      BY <1>0, <1>1, <2>0
    <2>2. \A c \in Marks(G, p, gates) \cup Marks(G, -p, gates) : c \cap A # {}
      BY <2>0 DEF PivotEntries
    <2>3. ASSUME NEW c \in Mine(F, p), c \notin Mine(G, p) PROVE c \cap A # {}
      <3>1. \A e \in Mine(F, p) : e \notin Mine(H, p) => Rests(e, p) \cap A # {}
        BY <1>0, <2>1 DEF Chained
      <3>2. \A e \in Mine(H, p) : e \notin Mine(G, p) => Rests(e, p) \cap A # {}
        BY <2>1 DEF Chained
      <3>3. Rests(c, p) \cap A # {}
        BY <2>3, <3>1, <3>2
      <3>. QED
        BY <3>3 DEF Rests
    <2>4. ASSUME NEW c \in Mine(G, p), gates = {} \/ c \in gates PROVE c \cap A # {}
      <3>1. c \in Marks(G, p, gates) \cup Marks(G, -p, gates)
        BY <2>4 DEF Mine, Marks, occs
      <3>. QED
        BY <2>2, <3>1
    <2>5. ASSUME NEW c \in Mine(F, p) PROVE c \cap A # {}
      <3>1. CASE gates = {}
        BY <2>3, <2>4, <3>1
      <3>2. CASE gates # {}
        <4>1. \A e \in gates : e \in Mine(F, p)
          BY <3>2 DEF GateRight, GateOf
        <4>2. \A e \in gates : e \cap A # {}
          BY <2>3, <2>4, <4>1
        <4>3. CASE c \in gates
          BY <4>2, <4>3
        <4>4. CASE c \notin gates
          BY <2>1, <3>2, <4>2, <4>4, OthersTrue
        <4>. QED
          BY <4>3, <4>4
      <3>. QED
        BY <3>1, <3>2
    <2>6. \A c \in F.irr : c \cap A # {}
      BY <2>1, <2>5 DEF Around, Mine
    <2>. QED
      BY <2>1, <2>6 DEF Around, Lean
  <1>. QED
    BY <1>3, <1>4 DEF Kept, Repairs

-----------------------------------------------------------------------------
\* What removing the clauses of the pivot makes of the formula and the stack.
Eliminated(G, p, away, E) ==
  /\ Worked(G, E.db) /\ Lean(E.db) = Around(G, p)
  /\ E.db.units = G.units /\ E.db.unsat = G.unsat
  /\ \A c \in E.db.irr : p \notin c /\ -p \notin c
  /\ Pushes(G, E.pushed, away)

\* Removing the clauses of the pivot leaves a formula without it.
LEMMA MarkMeans ==
  ASSUME NEW G \in Formulas, NEW p \in Lits, ~Settled(G, p), NEW gates,
         NEW E, E = mark_eliminated_clauses_as_garbage(G, p, gates),
         NEW away, vidx(p) \notin away
  PROVE  Eliminated(G, p, away, E) /\ \E n : PivotEntries(G, p, gates, E.pushed, n)
PROOF
  <1> DEFINE K == [G EXCEPT !.irr = @ \ (occs(G, p) \cup occs(G, -p))]
             ps == Sorted(Marks(G, p, gates), BySize)
             ns == Sorted(Marks(G, -p, gates), BySize)
             s == [i \in 1..Len(ps) |-> Pushed({p}, ps[i])]
             t == [i \in 1..Len(ns) |-> Pushed({-p}, ns[i])]
  <1>0. -p \in Lits /\ vidx(-p) = vidx(p) /\ -(-p) = p
    BY Literal, VariableOf
  <1>1. E = [db |-> K, pushed |-> s \o t]
    BY DEF mark_eliminated_clauses_as_garbage, Marks
  <1>2. MarkEntries(G, p, gates, s) /\ MarkEntries(G, -p, gates, t)
    BY <1>0, MarkEntriesRight
  <1> HIDE DEF s, t
  <1>3. PivotEntries(G, p, gates, s \o t, Len(s))
    BY ONLY <1>2, PivotEntriesRight
  <1> DEFINE u == s \o t
             n == Len(s)
  <1>4. PivotEntries(G, p, gates, u, n) /\ E = [db |-> K, pushed |-> u]
    BY ONLY <1>1, <1>3
  <1> HIDE DEF u, n
  <1>5. /\ G.irr \in SUBSET Clauses /\ G.red \in SUBSET Clauses
        /\ G.units \in SUBSET Lits /\ G.unsat \in BOOLEAN /\ G \in Dbs
        /\ \A c \in AllClauses(G) : IsClause(c) /\ Cardinality(c) >= 2
    BY FormulaParts
  <1>6. /\ K \in Dbs /\ K.irr = {c \in G.irr : p \notin c /\ -p \notin c} /\ K.red = G.red
        /\ K.units = G.units /\ K.unsat = G.unsat
    BY <1>5 DEF Dbs, occs
  <1> HIDE DEF K
  <1>7. K \in Formulas
    BY <1>5, <1>6, FormulaOf DEF AllClauses
  <1>8. DbModels(G) \subseteq DbModels(K)
    BY <1>5, <1>6, DbModel
  <1>9. Worked(G, K)
    BY <1>6, <1>7, <1>8 DEF Worked, Follows, UsesIrr
  <1>10. Lean(K) = Around(G, p)
    BY <1>6 DEF Lean, Around
  <1>11. \A A \in DbModels(G) : \A c \in G.irr : c \cap A # {}
    BY <1>5, DbModel
  <1>12. Pushes(G, u, away)
    <2>1. u \in Seq(Entries)
      BY <1>4 DEF PivotEntries
    <2>2. ASSUME NEW j \in Places(u)
          PROVE  /\ IsClause(u[j].clause) /\ \A A \in DbModels(G) : u[j].clause \cap A # {}
                 /\ \A l \in u[j].witness : vidx(l) \notin away
      <3>1. n \in Nat /\ j \in Nat /\ (j <= n \/ j > n)
        BY <1>4 DEF PivotEntries, Places
      <3>2. \E l \in {p, -p} : u[j].witness = {l} /\ u[j].clause \in Marks(G, l, gates)
        BY <1>4, <3>1 DEF PivotEntries
      <3>3. u[j].clause \in G.irr /\ \A l \in u[j].witness : vidx(l) \notin away
        BY <1>0, <3>2 DEF Marks, occs
      <3>. QED
        BY <1>5, <1>11, <3>3 DEF AllClauses
    <2>. QED
      BY <2>1, <2>2 DEF Pushes
  <1>13. E.db = K /\ E.pushed = u
    BY <1>4
  <1>14. Eliminated(G, p, away, E)
    BY <1>6, <1>9, <1>10, <1>12, <1>13 DEF Eliminated
  <1>. QED
    BY <1>4, <1>13, <1>14

-----------------------------------------------------------------------------
(***************************************************************************)
(* Backward subsumption.                                                   *)
(***************************************************************************)
\* When a clause has the variables of all literals of s, and only one of them
\* negated, the others are its literals.
LEMMA FoundMeans ==
  ASSUME NEW s, IsClause(s), NEW rest, IsClause(rest),
         Cardinality(rest \cap (s \cup Negated(s))) = Cardinality(s)
  PROVE  \A k \in s : k \in rest \/ -k \in rest
PROOF
  <1> SUFFICES ASSUME NEW k \in s, k \notin rest, -k \notin rest PROVE FALSE
    OBVIOUS
  <1> DEFINE X == rest \cap (s \cup Negated(s))
             T == s \ {k}
             f == [l \in X |-> IF l \in s THEN l ELSE -l]
  <1>0. s \in SUBSET Lits /\ rest \in SUBSET Lits /\ IsFiniteSet(s) /\ Cardinality(s) \in Nat
    BY OneLiteral DEF IsClause
  <1>1. IsFiniteSet(T) /\ Cardinality(T) = Cardinality(s) - 1
    BY <1>0, FS_RemoveElement
  <1>2. \A l \in rest : -l \notin rest /\ l \in Lits /\ -(-l) = l /\ l # -l
    <2> SUFFICES ASSUME NEW l \in rest PROVE -l \notin rest /\ l \in Lits /\ -(-l) = l /\ l # -l
      OBVIOUS
    <2>1. l \in Lits /\ -l \in Lits /\ -(-l) = l /\ l # -l
      BY <1>0, Literal
    <2>2. -l \in rest => l \in Negated(rest)
      BY <2>1 DEF Negated
    <2>. QED
      BY <2>1, <2>2 DEF IsClause
  <1>3. \A l \in X : l \notin s => -l \in s
    BY <1>0, <1>2, NegatedMember
  <1>4. f \in [X -> T]
    <2>1. \A l \in X : (l \in s => l \in T) /\ (l \notin s => -l \in T)
      BY <1>2, <1>3
    <2>. QED
      BY <2>1
  <1>5. \A i \in X, j \in X : f[i] = f[j] => i = j
    BY <1>2
  <1>6. f \in Injection(X, T)
    BY <1>4, <1>5 DEF Injection, IsInjective
  <1> HIDE DEF T, f, X
  <1>7. Cardinality(X) <= Cardinality(T)
    BY <1>1, <1>6, FS_Injection
  <1>8. Cardinality(X) = Cardinality(s)
    BY DEF X
  <1>. QED
    BY <1>0, <1>1, <1>7, <1>8

\* Resolving with a clause that differs in one literal.
LEMMA ShorterTrue ==
  ASSUME NEW s, IsClause(s), NEW rest, IsClause(rest), \A k \in s : k \in rest \/ -k \in rest,
         NEW negated, negated = rest \cap Negated(s), negated # {}, Cardinality(negated) <= 1,
         NEW A \in Assignments, s \cap A # {}, rest \cap A # {}
  PROVE  (rest \ negated) \cap A # {}
PROOF
  <1>0. s \in SUBSET Lits /\ rest \in SUBSET Lits /\ negated \in SUBSET Lits
        /\ \A l \in Lits : -l \in Lits /\ -(-l) = l /\ l # -l /\ (l \in A <=> -l \notin A)
    <2>1. s \in SUBSET Lits /\ rest \in SUBSET Lits /\ negated \in SUBSET Lits
      BY DEF IsClause
    <2>. QED
      BY <2>1, Literal, AssignmentIff
  <1>1. PICK m \in Lits : negated = {m}
    <2>1. Cardinality(negated) \in Nat /\ IsFiniteSet(negated)
      BY <1>0, OneLiteral
    <2>2. Cardinality(negated) = 1
      BY <2>1, FS_EmptySet
    <2>. QED
      BY <1>0, <2>2, OneLiteral
  <1>2. m \in rest /\ -m \in s
    BY <1>0, <1>1, NegatedMember
  <1>3. \A k \in s : k # -m => k \in rest
    <2> SUFFICES ASSUME NEW k \in s, k # -m, -k \in rest PROVE FALSE
      OBVIOUS
    <2>1. -k \in Negated(s)
      BY DEF Negated
    <2>2. -k \in negated
      BY <2>1
    <2>. QED
      BY <1>0, <1>1, <2>2
  <1>4. PICK k \in s : k \in A
    OBVIOUS
  <1>5. m \notin s
    <2>1. m \in Negated(s)
      BY <1>1
    <2>. QED
      BY <2>1 DEF IsClause
  <1>6. CASE k # -m
    BY <1>1, <1>3, <1>4, <1>5, <1>6
  <1>7. CASE k = -m
    <2>1. m \notin A
      BY <1>0, <1>4, <1>7
    <2>. QED
      BY <1>1, <2>1
  <1>. QED
    BY <1>6, <1>7

\* The states of a scan for the clause c.
Scanning(F, c) ==
  {b \in [db : Formulas, queue : Seq(Clauses), satisfied : BOOLEAN, done : BOOLEAN] :
     Worked(F, b.db) /\ (~b.done => c \in b.db.irr)}

\* A clause that a resolvent subsumes, or strengthens, follows from what is left.
LEMMA BackwardStep ==
  ASSUME NEW F \in Formulas, NEW c \in F.irr, NEW s, s = Remaining(F, c),
         NEW b \in Scanning(F, c), NEW d, d # c, NEW z, z = backward_step(s, b, d)
  PROVE  z \in Scanning(F, c)
PROOF
  <1> DEFINE K == b.db
             rest == Remaining(K, d)
             negated == rest \cap Negated(s)
             found == Cardinality(rest \cap (s \cup Negated(s))) = Cardinality(s)
             satisfied == b.satisfied \/ fixedTrue(K, d)
             shorter == rest \ negated
             Shape(x) == x \in [db : Formulas, queue : Seq(Clauses), satisfied : BOOLEAN, done : BOOLEAN]
             e == d \ negated
             D == mark_garbage(K, d)
  <1>0. Shape(b) /\ K \in Formulas /\ Worked(F, K) /\ (~b.done => c \in K.irr)
    BY DEF Scanning
  <1>1. /\ c \in SUBSET Lits /\ IsClause(c) /\ IsClause(s)
    BY FormulaParts DEF AllClauses, Remaining, IsClause, Negated
  <1>2. CASE b.done \/ d \notin K.irr \/ Cardinality(d) < Cardinality(s)
    <2>1. z = b
      BY <1>2, Zenon DEF backward_step
    <2>. QED
      BY <2>1
  <1>3. CASE ~b.done /\ d \in K.irr /\ ~(Cardinality(d) < Cardinality(s))
    <2>0. d \in SUBSET Lits /\ IsClause(d) /\ d \subseteq UNION K.irr /\ c \in K.irr
      BY <1>0, <1>3, FormulaParts DEF AllClauses
    <2>g. D \in Formulas /\ Worked(F, D) /\ c \in D.irr
      <3>1. Worked(K, D) /\ D.irr = K.irr \ {d}
        BY <1>0, GarbageMeans
      <3> HIDE DEF D, K
      <3>2. Worked(F, D)
        BY <1>0, <3>1, WorkedTrans
      <3>. QED
        BY <2>0, <3>1, <3>2 DEF Worked, Follows
    <2>1. CASE satisfied
      <3>1. z = [b EXCEPT !.db = D, !.satisfied = TRUE]
        BY <1>3, <2>1, Zenon DEF backward_step
      <3> HIDE DEF D
      <3>2. Shape(z) /\ z.db = D /\ z.done = b.done
        BY <1>0, <2>g, <3>1
      <3>. QED
        BY <2>g, <3>2 DEF Scanning
    <2>2. CASE ~satisfied /\ Cardinality(negated) > 1
      <3>1. z = [b EXCEPT !.done = TRUE]
        BY <1>3, <2>2, Zenon DEF backward_step
      <3>2. Shape(z) /\ z.db = K /\ z.done
        BY <1>0, <3>1
      <3>. QED
        BY <1>0, <3>2 DEF Scanning
    <2>3. CASE ~satisfied /\ ~(Cardinality(negated) > 1) /\ ~found
      <3>1. z = b
        BY <1>3, <2>3, Zenon DEF backward_step
      <3>. QED
        BY <3>1
    <2>4. CASE ~satisfied /\ ~(Cardinality(negated) > 1) /\ found /\ negated = {}
      <3>1. z = [b EXCEPT !.db = D]
        BY <1>3, <2>4, Zenon DEF backward_step
      <3> HIDE DEF D
      <3>2. Shape(z) /\ z.db = D /\ z.done = b.done
        BY <1>0, <2>g, <3>1
      <3>. QED
        BY <2>g, <3>2 DEF Scanning
    <2>5. CASE ~satisfied /\ ~(Cardinality(negated) > 1) /\ found /\ negated # {}
      <3>0. rest \subseteq d /\ IsClause(rest) /\ IsClause(shorter) /\ IsClause(e) /\ shorter \subseteq e
            /\ negated \in SUBSET Lits
        BY <2>0 DEF Remaining, IsClause, Negated
      <3>1. Cardinality(negated) <= 1
        <4>1. Cardinality(negated) \in Nat
          BY <3>0, OneLiteral
        <4> HIDE DEF negated
        <4>. QED
          BY <2>5, <4>1
      <3>2. \A k \in s : k \in rest \/ -k \in rest
        <4> HIDE DEF rest
        <4>. QED
          BY <1>1, <2>5, <3>0, FoundMeans
      <3>3. ASSUME NEW A \in DbModels(K) PROVE shorter \cap A # {} /\ e \cap A # {}
        <4>1. K \in Dbs
          BY <1>0, FormulaParts
        <4>2. A \in Assignments /\ K.units \subseteq A /\ c \cap A # {} /\ d \cap A # {}
          BY <1>3, <2>0, <4>1, DbModel
        <4>3. F.units \subseteq A
          BY <1>0, <4>2 DEF Worked, Follows
        <4>4. s \cap A # {}
          BY <4>2, <4>3, RemainingTrue
        <4>5. rest \cap A # {}
          BY <1>0, <4>2, RemainingTrue
        <4> HIDE DEF rest
        <4>6. shorter \cap A # {}
          BY <1>1, <2>5, <3>0, <3>1, <3>2, <4>2, <4>4, <4>5, ShorterTrue
        <4>. QED
          BY <3>0, <4>6
      <3>4. shorter \subseteq UNION K.irr /\ e \subseteq UNION K.irr
        BY <2>0, <3>0
      <3> DEFINE red == FALSE
                 S == new_clause(K, shorter, red)
                 E == new_clause(K, e, red)
      <3>5. red \in BOOLEAN /\ ~red
        OBVIOUS
      <3> HIDE DEF red, K, shorter, e
      <3>6. Worked(K, S) /\ Worked(K, E)
        BY <1>0, <3>0, <3>3, <3>4, <3>5, DerivedMeans
      <3>7. S \in Formulas /\ E \in Formulas /\ Worked(F, S) /\ Worked(F, E)
        BY <1>0, <3>6, WorkedTrans DEF Worked, Follows
      <3>8. CASE Cardinality(shorter) = 1
        <4> DEFINE P == elim_propagate(S)
        <4>1. z = [b EXCEPT !.db = P, !.done = TRUE]
          BY <1>3, <2>5, <3>8, Zenon DEF backward_step, red, K, shorter
        <4>2. Worked(S, P)
          BY <3>7, ElimPropagateMeans
        <4> HIDE DEF P, S
        <4>3. Worked(F, P) /\ P \in Formulas
          BY <3>7, <4>2, WorkedTrans DEF Worked, Follows
        <4>4. Shape(z) /\ z.db = P /\ z.done
          BY <1>0, <4>1, <4>3
        <4>. QED
          BY <4>3, <4>4 DEF Scanning
      <3>9. CASE Cardinality(shorter) # 1 /\ \E l \in negated : Cardinality(occs(K, l)) > ElimOccLim
        <4>1. z = b
          BY <1>3, <2>5, <3>9, Zenon DEF backward_step, K, shorter
        <4>. QED
          BY <4>1
      <3>10. CASE Cardinality(shorter) # 1 /\ ~\E l \in negated : Cardinality(occs(K, l)) > ElimOccLim
        <4> DEFINE P == mark_garbage(E, d)
                   q == Append(b.queue, e)
        <4>1. z = [b EXCEPT !.db = P, !.queue = q]
          <5>1. z = [b EXCEPT !.db = mark_garbage(new_clause(@, d \ negated, FALSE), d), !.queue =
                  Append(@, d \ negated)]
            BY <1>3, <2>5, <3>10, Zenon DEF backward_step, K, shorter
          <5>. QED
            BY <5>1, Zenon DEF K, e, red
        <4>2. Worked(E, P) /\ P.irr = E.irr \ {d}
          BY <3>7, GarbageMeans
        <4>3. c \in E.irr
          <5>1. Newer(K, e, red, E)
            BY <1>0, <3>0, <3>5, FormulaParts, NewerRight DEF IsClause
          <5>. QED
            BY <2>0, <5>1 DEF Newer
        <4> HIDE DEF P, E
        <4>4. Worked(F, P) /\ P \in Formulas /\ c \in P.irr
          BY <3>7, <4>2, <4>3, WorkedTrans DEF Worked, Follows
        <4>5. q \in Seq(Clauses)
          <5>1. e \in Clauses
            BY <3>0 DEF IsClause, Clauses
          <5>. QED
            BY <1>0, <5>1
        <4> HIDE DEF q
        <4>6. Shape(z) /\ z.db = P /\ z.done = b.done
          BY <1>0, <4>1, <4>4, <4>5
        <4>. QED
          BY <4>4, <4>6 DEF Scanning
      <3>. QED
        BY <3>8, <3>9, <3>10
    <2>. QED
      BY <2>1, <2>2, <2>3, <2>4, <2>5
  <1>. QED
    BY <1>2, <1>3

-----------------------------------------------------------------------------
\* The clauses that a scan meets, and the start of the scan.
Met(F, c) == Sorted(occs(F, Rarest(F, Remaining(F, c))) \ {c}, BySize)
ScanStart(F) == [db |-> F, queue |-> <<>>, satisfied |-> FALSE, done |-> FALSE]

\* The states of a scan.
ScanClosed(F, c, T) ==
  /\ ScanStart(F) \in T
  /\ \A y \in T, i \in 1..Len(Met(F, c)) : backward_step(Remaining(F, c), y, Met(F, c)[i]) \in T
ScanRun(F, c, T, f) ==
  /\ f[0] = ScanStart(F)
  /\ \A i \in 1..Len(Met(F, c)) : f[i] = backward_step(Remaining(F, c), f[i - 1], Met(F, c)[i])
  /\ elim_backward_clause(F, c) = f[Len(Met(F, c))]
  /\ \A i \in 0..Len(Met(F, c)) : f[i] \in T

\* The scan of the clauses with the rarest literal runs within any closed set.
LEMMA ScanTurns ==
  ASSUME NEW F, NEW c, c \in F.irr, ~fixedTrue(F, c),
         ~(Cardinality(occs(F, Rarest(F, Remaining(F, c)))) > ElimOccLim), Len(Met(F, c)) \in Nat, NEW T,
             ScanClosed(F, c, T)
  PROVE  \E f : ScanRun(F, c, T, f)
PROOF
  <1> DEFINE n == Len(Met(F, c))
             start == ScanStart(F)
             Body(g, i) == IF i = 0 THEN start ELSE backward_step(Remaining(F, c), g[i - 1], Met(F, c)[i])
             chosen == CHOOSE g : g = [i \in 0..n |-> Body(g, i)]
             step == [p \in Nat \X T |-> IF p[1] \in 1..n
                 THEN backward_step(Remaining(F, c), p[2], Met(F, c)[p[1]]) ELSE p[2]]
  <1>0. n \in Nat
    OBVIOUS
  <1>1. start \in T /\ \A y \in T, i \in 1..n : backward_step(Remaining(F, c), y, Met(F, c)[i]) \in T
    BY DEF ScanClosed
  <1>2. elim_backward_clause(F, c) = chosen[n]
    BY DEF elim_backward_clause, Folded, Met, ScanStart
  <1>3. \A g : Body(g, 0) = start /\ \A i \in 1..n : Body(g, i) =
          backward_step(Remaining(F, c), g[i - 1], Met(F, c)[i])
    BY <1>0
  <1> HIDE DEF n, start, Body
  <1>4. step \in [Nat \X T -> T]
    BY <1>0, <1>1
  <1>5. PICK f : IsRun(T, start, step, n, f)
    <2> HIDE DEF step
    <2>. QED
      BY <1>0, <1>1, <1>4, LoopRuns
  <1>6. ASSUME NEW i \in 1..n PROVE f[i] = backward_step(Remaining(F, c), f[i - 1], Met(F, c)[i])
    <2>1. i \in Nat /\ i - 1 \in 0..n
      BY <1>0
    <2>2. f[i - 1] \in T /\ f[i] = step[<<i, f[i - 1]>>]
      BY <1>5, <2>1 DEF IsRun
    <2>3. step[<<i, f[i - 1]>>] = backward_step(Remaining(F, c), f[i - 1], Met(F, c)[i])
      BY <2>1, <2>2
    <2>. QED
      BY <2>2, <2>3
  <1>7. \A i \in 0..n : f[i] = Body(f, i)
    <2> SUFFICES ASSUME NEW i \in 0..n PROVE f[i] = Body(f, i)
      OBVIOUS
    <2>1. i = 0 \/ i \in 1..n
      BY <1>0
    <2>2. f[0] = start
      BY <1>5 DEF IsRun
    <2>. QED
      BY <1>3, <1>6, <2>1, <2>2
  <1>8. f = [i \in 0..n |-> Body(f, i)]
    BY <1>5, <1>7 DEF IsRun
  <1>9. chosen = [i \in 0..n |-> Body(chosen, i)]
    BY <1>8
  <1>10. \A i \in 0..n : chosen[i] = Body(chosen, i)
    <2> HIDE DEF chosen
    <2>. QED
      BY <1>9
  <1> HIDE DEF chosen
  <1>11. chosen[0] = start /\ \A i \in 1..n : chosen[i] = backward_step(Remaining(F, c), chosen[i - 1], Met(F, c)[i])
    BY <1>0, <1>3, <1>10
  <1>12. \A i \in 1..n : chosen[i - 1] \in T => chosen[i] \in T
    BY <1>1, <1>11
  <1>13. \A i \in 0..n : chosen[i] \in T
    BY <1>0, <1>1, <1>11, <1>12, RunInd
  <1> DEFINE Has(g) == /\ g[0] = ScanStart(F)
                       /\ \A i \in 1..Len(Met(F, c)) : g[i] = backward_step(Remaining(F, c), g[i - 1], Met(F, c)[i])
                       /\ elim_backward_clause(F, c) = g[Len(Met(F, c))]
                       /\ \A i \in 0..Len(Met(F, c)) : g[i] \in T
  <1>14. Has(chosen)
    BY <1>2, <1>11, <1>13 DEF n, start
  <1>15. \E g : Has(g)
    <2> HIDE DEF Has
    <2>. QED
      BY ONLY <1>14
  <1>. QED
    BY ONLY <1>15 DEF Has, ScanRun

\* The states of the queue.
QueueClosed(F, queue, T) ==
  /\ [db |-> F, queue |-> queue] \in T
  /\ \A y \in T, i \in 1..Len(queue) + N * Cardinality(F.irr) : backward_pass(y) \in T
QueueRun(F, queue, T, f) ==
  /\ f[0] = [db |-> F, queue |-> queue]
  /\ \A i \in 1..Len(queue) + N * Cardinality(F.irr) : f[i] = backward_pass(f[i - 1])
  /\ elim_backward_clauses(F, queue) = f[Len(queue) + N * Cardinality(F.irr)].db
  /\ \A i \in 0..Len(queue) + N * Cardinality(F.irr) : f[i] \in T

\* Emptying the queue runs within any closed set of states.
LEMMA QueueTurns ==
  ASSUME NEW F, NEW queue, ElimBackward, Len(queue) + N * Cardinality(F.irr) \in Nat, NEW T, QueueClosed(F, queue, T)
  PROVE  \E f : QueueRun(F, queue, T, f)
PROOF
  <1> DEFINE n == Len(queue) + N * Cardinality(F.irr)
             start == [db |-> F, queue |-> queue]
             Body(g, i) == IF i = 0 THEN start ELSE backward_pass(g[i - 1])
             chosen == CHOOSE g : g = [i \in 0..n |-> Body(g, i)]
             step == [p \in Nat \X T |-> IF p[1] \in 1..n THEN backward_pass(p[2]) ELSE p[2]]
  <1>0. n \in Nat
    OBVIOUS
  <1>1. start \in T /\ \A y \in T, i \in 1..n : backward_pass(y) \in T
    BY DEF QueueClosed
  <1>2. elim_backward_clauses(F, queue) = chosen[n].db
    BY DEF elim_backward_clauses
  <1>3. \A g : Body(g, 0) = start /\ \A i \in 1..n : Body(g, i) = backward_pass(g[i - 1])
    BY <1>0
  <1> HIDE DEF n, start, Body
  <1>4. step \in [Nat \X T -> T]
    BY <1>0, <1>1
  <1>5. PICK f : IsRun(T, start, step, n, f)
    <2> HIDE DEF step
    <2>. QED
      BY <1>0, <1>1, <1>4, LoopRuns
  <1>6. ASSUME NEW i \in 1..n PROVE f[i] = backward_pass(f[i - 1])
    <2>1. i \in Nat /\ i - 1 \in 0..n
      BY <1>0
    <2>2. f[i - 1] \in T /\ f[i] = step[<<i, f[i - 1]>>]
      BY <1>5, <2>1 DEF IsRun
    <2>3. step[<<i, f[i - 1]>>] = backward_pass(f[i - 1])
      BY <2>1, <2>2
    <2>. QED
      BY <2>2, <2>3
  <1>7. \A i \in 0..n : f[i] = Body(f, i)
    <2> SUFFICES ASSUME NEW i \in 0..n PROVE f[i] = Body(f, i)
      OBVIOUS
    <2>1. i = 0 \/ i \in 1..n
      BY <1>0
    <2>2. f[0] = start
      BY <1>5 DEF IsRun
    <2>. QED
      BY <1>3, <1>6, <2>1, <2>2
  <1>8. f = [i \in 0..n |-> Body(f, i)]
    BY <1>5, <1>7 DEF IsRun
  <1>9. chosen = [i \in 0..n |-> Body(chosen, i)]
    BY <1>8
  <1>10. \A i \in 0..n : chosen[i] = Body(chosen, i)
    <2> HIDE DEF chosen
    <2>. QED
      BY <1>9
  <1> HIDE DEF chosen
  <1>11. chosen[0] = start /\ \A i \in 1..n : chosen[i] = backward_pass(chosen[i - 1])
    BY <1>0, <1>3, <1>10
  <1>12. \A i \in 1..n : chosen[i - 1] \in T => chosen[i] \in T
    BY <1>1, <1>11
  <1>13. \A i \in 0..n : chosen[i] \in T
    BY <1>0, <1>1, <1>11, <1>12, RunInd
  <1> DEFINE Has(g) == /\ g[0] = [db |-> F, queue |-> queue]
                       /\ \A i \in 1..Len(queue) + N * Cardinality(F.irr) : g[i] = backward_pass(g[i - 1])
                       /\ elim_backward_clauses(F, queue) = g[Len(queue) + N * Cardinality(F.irr)].db
                       /\ \A i \in 0..Len(queue) + N * Cardinality(F.irr) : g[i] \in T
  <1>14. Has(chosen)
    BY <1>2, <1>11, <1>13 DEF n, start
  <1>15. \E g : Has(g)
    <2> HIDE DEF Has
    <2>. QED
      BY ONLY <1>14
  <1>. QED
    BY ONLY <1>15 DEF Has, QueueRun


\* One clause of the queue.
LEMMA ScanMeans ==
  ASSUME NEW F \in Formulas, NEW c, NEW b, b = elim_backward_clause(F, c)
  PROVE  Worked(F, b.db) /\ b.queue \in Seq(Clauses)
PROOF
  <1> DEFINE s == Remaining(F, c)
             start == ScanStart(F)
             l == Rarest(F, s)
             L == Met(F, c)
             T == Scanning(F, c)
  <1>1. CASE c \notin F.irr
    <2>1. b = start
      BY <1>1, Zenon DEF elim_backward_clause, ScanStart
    <2>. QED
      BY <2>1, RewrittenSame DEF ScanStart
  <1>2. CASE c \in F.irr /\ fixedTrue(F, c)
    <2> DEFINE G == mark_garbage(F, c)
    <2>1. b = [start EXCEPT !.db = G]
      BY <1>2, Zenon DEF elim_backward_clause, ScanStart
    <2>2. Worked(F, G)
      BY GarbageMeans
    <2> HIDE DEF G
    <2>3. b.db = G /\ b.queue = <<>>
      BY <2>1 DEF ScanStart
    <2>. QED
      BY <2>2, <2>3
  <1>3. CASE c \in F.irr /\ ~fixedTrue(F, c) /\ Cardinality(occs(F, l)) > ElimOccLim
    <2>1. b = start
      BY <1>3, Zenon DEF elim_backward_clause, ScanStart
    <2>. QED
      BY <2>1, RewrittenSame DEF ScanStart
  <1>4. CASE c \in F.irr /\ ~fixedTrue(F, c) /\ ~(Cardinality(occs(F, l)) > ElimOccLim)
    <2> DEFINE C == occs(F, l) \ {c}
    <2>1. L \in Seq(C)
      <3>1. C \in SUBSET Clauses
        BY FormulaParts DEF occs
      <3>2. IsFiniteSet(C)
        BY <3>1, FiniteClausesIn
      <3> HIDE DEF C
      <3>3. Sorted(C, BySize) \in Seq(C)
        BY <3>1, <3>2, BySizeRight
      <3>. QED
        BY <3>3 DEF C, Met
    <2> HIDE DEF C
    <2>2. Len(L) \in Nat /\ \A i \in 1..Len(L) : L[i] \in C
      BY <2>1
    <2>3. start \in T
      BY <1>4, RewrittenSame DEF Scanning, ScanStart
    <2>4. ASSUME NEW y \in T, NEW i \in 1..Len(L) PROVE backward_step(s, y, L[i]) \in T
      <3>1. L[i] # c
        BY <2>2 DEF C
      <3> DEFINE d == L[i]
                 z == backward_step(s, y, d)
      <3>2. d # c /\ s = Remaining(F, c) /\ z = backward_step(s, y, d)
        BY <3>1
      <3> HIDE DEF d, z, s
      <3>3. z \in T
        BY <1>4, <3>2, BackwardStep
      <3>. QED
        BY <3>3 DEF z, d
    <2>5. ScanClosed(F, c, T)
      BY <2>3, <2>4 DEF ScanClosed
    <2> HIDE DEF T
    <2>6. PICK f : ScanRun(F, c, T, f)
      BY ONLY <1>4, <2>2, <2>5, ScanTurns
    <2>7. b = f[Len(L)] /\ \A i \in 0..Len(L) : f[i] \in T
      BY <2>6 DEF ScanRun
    <2> HIDE DEF L
    <2>8. Len(L) \in 0..Len(L)
      BY <2>2
    <2>9. b \in T
      BY ONLY <2>7, <2>8
    <2>. QED
      BY <2>9 DEF T, Scanning
  <1>. QED
    BY <1>1, <1>2, <1>3, <1>4

\* The whole queue.
LEMMA QueueMeans ==
  ASSUME NEW F \in Formulas, NEW queue \in Seq(Clauses)
  PROVE  /\ Worked(F, elim_backward_clauses(F, queue))
         /\ ~ElimBackward => elim_backward_clauses(F, queue) = F
PROOF
  <1> DEFINE R == elim_backward_clauses(F, queue)
             n == Len(queue) + N * Cardinality(F.irr)
             start == [db |-> F, queue |-> queue]
             T == {s \in [db : Formulas, queue : Seq(Clauses)] : Worked(F, s.db)}
  <1>1. ~ElimBackward => R = F
    BY Zenon DEF elim_backward_clauses
  <1>2. CASE ElimBackward
    <2>1. n \in Nat
      <3>1. IsFiniteSet(F.irr)
        BY FormulaParts, FiniteClausesIn
      <3>2. Cardinality(F.irr) \in Nat /\ N \in Nat /\ Len(queue) \in Nat
        BY <3>1, FS_CardinalityType, NAssumption
      <3>. QED
        BY <3>2
    <2>2. start \in T
      BY RewrittenSame
    <2>3. ASSUME NEW y \in T PROVE backward_pass(y) \in T
      <3> DEFINE b == elim_backward_clause(y.db, Head(y.queue))
                 q == Tail(y.queue) \o b.queue
                 G == b.db
      <3>1. CASE y.db.unsat \/ y.queue = <<>>
        BY <3>1 DEF backward_pass
      <3>2. CASE ~(y.db.unsat \/ y.queue = <<>>)
        <4>1. backward_pass(y) = [db |-> G, queue |-> q]
          BY <3>2 DEF backward_pass
        <4>2. Worked(y.db, G) /\ b.queue \in Seq(Clauses)
          BY ScanMeans
        <4> HIDE DEF G, b
        <4>3. Worked(F, G) /\ G \in Formulas
          BY <4>2, WorkedTrans DEF Worked, Follows
        <4>4. q \in Seq(Clauses)
          BY <3>2, <4>2
        <4> HIDE DEF q
        <4>. QED
          BY <4>1, <4>3, <4>4
      <3>. QED
        BY <3>1, <3>2
    <2>4. QueueClosed(F, queue, T)
      BY <2>2, <2>3 DEF QueueClosed
    <2> HIDE DEF T
    <2>5. PICK f : QueueRun(F, queue, T, f)
      BY ONLY <1>2, <2>1, <2>4, QueueTurns
    <2>6. R = f[n].db /\ \A i \in 0..n : f[i] \in T
      BY <2>5 DEF QueueRun
    <2> HIDE DEF n, R
    <2>7. n \in 0..n
      BY <2>1
    <2>8. f[n] \in T
      BY ONLY <2>6, <2>7
    <2>9. Worked(F, R)
      BY <2>6, <2>8 DEF T
    <2>. QED
      BY <1>2, <2>9 DEF R
  <1>3. CASE ~ElimBackward
    BY <1>1, <1>3, RewrittenSame
  <1>. QED
    BY <1>2, <1>3

-----------------------------------------------------------------------------
(***************************************************************************)
(* Gates.                                                                  *)
(***************************************************************************)
\* What may happen to the formula while a gate is looked for.
Prepared(F, G) == Worked(F, G) /\ Lean(G) \subseteq Lean(F)

\* Looking for gates after looking for gates is looking for gates.
LEMMA PreparedTrans ==
  ASSUME NEW F \in Formulas, NEW G, NEW H, Prepared(F, G), Prepared(G, H)
  PROVE  Prepared(F, H)
BY WorkedTrans DEF Prepared

\* A pivot with nothing left to do stays so.
LEMMA PreparedParts ==
  ASSUME NEW F \in Formulas, NEW G, Prepared(F, G), NEW p
  PROVE  G \in Formulas /\ (Settled(F, p) => Settled(G, p))
BY DEF Prepared, Worked, Follows, Settled

\* What is left of a clause that is binary for the current units.
LEMMA SecondMeans ==
  ASSUME NEW F \in Formulas, NEW q, NEW l \in Seconds(F, q)
  PROVE  /\ l \in Lits /\ l # q
         /\ \E c \in ActualBinaries(F, q, l) : ~fixedTrue(F, c)
         /\ l \in UNION F.irr
         /\ \A A \in DbModels(F) : q \in A \/ l \in A
PROOF
  <1>1. PICK c \in occs(F, q) : ~fixedTrue(F, c) /\ Remaining(F, c) = {q, l}
    BY DEF Seconds
  <1>2. c \in F.irr /\ c \in ActualBinaries(F, q, l) /\ l \in c
    BY <1>1 DEF ActualBinaries, occs, Remaining
  <1>3. ASSUME NEW A \in DbModels(F) PROVE q \in A \/ l \in A
    <2>1. F \in Dbs
      BY FormulaParts
    <2>2. A \in Assignments /\ F.units \subseteq A /\ c \cap A # {}
      BY <1>2, <2>1, DbModel
    <2>3. Remaining(F, c) \cap A # {}
      BY <2>2, RemainingTrue
    <2>. QED
      BY <1>1, <2>3
  <1>. QED
    BY <1>1, <1>2, <1>3 DEF Seconds

\* Looking for binary clauses of a literal.
LEMMA MarkBinaryMeans ==
  ASSUME NEW F \in Formulas, NEW p \in Lits, NEW q \in {p, -p},
         NEW G, G = mark_binary_literals(F, q)
  PROVE  /\ Prepared(F, G)
         /\ ~Settled(G, p) => /\ G.units = F.units /\ G.irr \subseteq F.irr
                              /\ \A c \in G.irr : q \in c => ~fixedTrue(G, c)
PROOF
  <1> DEFINE seconds == Seconds(F, q)
             binaries == UNION {ActualBinaries(F, q, l) : l \in seconds}
             kept == {CHOOSE c \in ActualBinaries(F, q, l) : TRUE : l \in seconds}
             Stays(c) == (q \in c => ~fixedTrue(F, c)) /\ (c \in binaries => c \in kept)
  <1>0. q \in Lits /\ \A l \in Lits : -l \in Lits /\ -(-l) = l
    BY Literal
  <1>1. CASE seconds \cap Negated(seconds) # {}
    <2> DEFINE U == assign_unit(F, q)
    <2>1. G = elim_propagate(U)
      BY <1>1 DEF mark_binary_literals
    <2>2. PICK x \in seconds : -x \in seconds /\ x \in Lits
      <3>1. PICK x \in seconds : x \in Negated(seconds)
        BY <1>1
      <3>2. x \in Lits /\ seconds \in SUBSET Lits
        BY SecondMeans
      <3>. QED
        BY <3>1, <3>2, NegatedMember
    <2>3. ASSUME NEW A \in DbModels(F) PROVE q \in A
      <3>1. (q \in A \/ x \in A) /\ (q \in A \/ -x \in A)
        BY <2>2, SecondMeans
      <3>2. A \in Assignments
        BY FormulaParts, DbModel
      <3>. QED
        BY <2>2, <3>1, <3>2, AssignmentIff
    <2>4. q \in UNION F.irr
      <3>1. PICK c \in ActualBinaries(F, q, x) : TRUE
        BY SecondMeans
      <3>. QED
        BY <3>1 DEF ActualBinaries, occs
    <2>5. Worked(F, U) /\ Lean(U) \subseteq Lean(F)
      BY <1>0, <2>3, <2>4, UnitMeans
    <2>6. U \in Formulas
      BY <2>5 DEF Worked, Follows
    <2>7. q \in U.units \/ U.unsat
      BY <1>0, FormulaParts, AssignShape
    <2> HIDE DEF U
    <2>8. Worked(U, G) /\ Lean(G) \subseteq Lean(U)
      BY <2>1, <2>6, ElimPropagateMeans
    <2>9. Prepared(F, G)
      BY <2>5, <2>8, WorkedTrans DEF Prepared
    <2>10. q \in G.units \/ G.unsat
      BY <2>7, <2>8 DEF Worked, Follows
    <2>11. Settled(G, p)
      BY <2>10 DEF Settled
    <2>. QED
      BY <2>9, <2>11
  <1>2. CASE ~(seconds \cap Negated(seconds) # {})
    <2>0. /\ F.irr \in SUBSET Clauses /\ F.red \in SUBSET Clauses
          /\ F.units \in SUBSET Lits /\ F.unsat \in BOOLEAN /\ F \in Dbs
          /\ \A c \in AllClauses(F) : IsClause(c) /\ Cardinality(c) >= 2
      BY FormulaParts
    <2>1. G = [F EXCEPT !.irr = {c \in @ : Stays(c)}]
      BY <1>2 DEF mark_binary_literals
    <2> HIDE DEF Stays
    <2>2. /\ G \in Dbs /\ G.irr = {c \in F.irr : Stays(c)} /\ G.red = F.red
          /\ G.units = F.units /\ G.unsat = F.unsat
      BY <2>0, <2>1 DEF Dbs
    <2>3. G \in Formulas
      BY <2>0, <2>2, FormulaOf DEF AllClauses
    <2>4. DbModels(F) \subseteq DbModels(G)
      BY <2>0, <2>2, DbModel
    <2>5. Worked(F, G)
      BY <2>2, <2>3, <2>4 DEF Worked, Follows, UsesIrr
    <2>6. ASSUME NEW A \in Lean(G), NEW c \in F.irr, c \notin G.irr PROVE c \cap A # {}
      <3>1. A \in Assignments /\ F.units \subseteq A /\ ~Stays(c)
        BY <2>2, <2>6 DEF Lean
      <3>2. CASE fixedTrue(F, c)
        BY <3>1, <3>2 DEF fixedTrue
      <3>3. CASE ~fixedTrue(F, c)
        <4>1. c \in binaries
          BY <3>1, <3>3 DEF Stays
        <4>2. PICK l \in seconds : c \in ActualBinaries(F, q, l)
          BY <4>1
        <4> DEFINE k == CHOOSE x \in ActualBinaries(F, q, l) : TRUE
        <4>3. k \in ActualBinaries(F, q, l) /\ k \in kept
          BY <4>2
        <4> HIDE DEF k
        <4>4. k \in F.irr /\ Remaining(F, k) = {q, l} /\ Remaining(F, c) = {q, l}
          BY <4>2, <4>3 DEF ActualBinaries, occs
        <4>5. ~fixedTrue(F, k)
          <5>1. PICK x \in ActualBinaries(F, q, l) : ~fixedTrue(F, x)
            BY SecondMeans
          <5>2. \A y \in {q, l} : y \notin F.units
            BY <5>1 DEF ActualBinaries, Remaining, fixedTrue
          <5>3. \A y \in k : y \in F.units => y \in Remaining(F, k)
            <6>1. F.units \in SUBSET A
              BY <3>1
            <6>2. \A y \in A : y \notin Negated(F.units)
              BY <3>1, <6>1, Opposite
            <6>. QED
              BY <3>1, <6>2 DEF Remaining
          <5>. QED
            BY <4>4, <5>2, <5>3 DEF fixedTrue
        <4>6. Stays(k)
          BY <4>3, <4>5 DEF Stays
        <4>7. k \cap A # {}
          BY <2>2, <4>4, <4>6 DEF Lean
        <4>. QED
          BY <3>1, <4>4, <4>7, RemainingTrue
      <3>. QED
        BY <3>2, <3>3
    <2>7. Lean(G) \subseteq Lean(F)
      <3> SUFFICES ASSUME NEW A \in Lean(G) PROVE A \in Lean(F)
        OBVIOUS
      <3>1. \A c \in F.irr : c \cap A # {}
        BY <2>6 DEF Lean
      <3>. QED
        BY <2>2, <3>1 DEF Lean
    <2>8. \A c \in G.irr : q \in c => ~fixedTrue(G, c)
      BY <2>2 DEF Stays, fixedTrue
    <2>. QED
      BY <2>2, <2>5, <2>7, <2>8 DEF Prepared
  <1>. QED
    BY <1>1, <1>2

\* The literals without the pivot, for what is left of a clause.
LEMMA RestsRemaining ==
  ASSUME NEW F \in Formulas, NEW p, NEW A \in Around(F, p), NEW c
  PROVE  Rests(c, p) \cap A # {} <=> Rests(Remaining(F, c), p) \cap A # {}
PROOF
  <1>1. A \in Assignments /\ F.units \in SUBSET A
    BY DEF Around
  <1>2. \A l \in A : l \notin Negated(F.units)
    BY <1>1, Opposite
  <1>. QED
    BY <1>2 DEF Rests, Remaining

\* The phase of the pivot does not matter.
LEMMA GateOpposite ==
  ASSUME NEW F \in Formulas, NEW p \in Lits, NEW gates, GateOf(F, -p, gates)
  PROVE  GateOf(F, p, gates)
PROOF
  <1>1. -(-p) = p
    BY Literal
  <1>2. Mine(F, -p) = Mine(F, p) /\ Around(F, -p) = Around(F, p) /\ \A c : Rests(c, -p) = Rests(c, p)
    BY <1>1 DEF Mine, Around, Rests
  <1>. QED
    BY <1>1, <1>2 DEF GateOf, Either

-----------------------------------------------------------------------------
\* The units that binary clauses with both phases of the pivot give.
LEMMA EquivalenceUnits ==
  ASSUME NEW F \in Formulas, NEW p \in Lits, NEW units, units = Seconds(F, p) \cap Seconds(F, -p),
         NEW G, G = elim_propagate([F EXCEPT !.units = @ \cup units])
  PROVE  Prepared(F, G)
PROOF
  <1> DEFINE U == [F EXCEPT !.units = @ \cup units]
  <1>0. /\ F.irr \in SUBSET Clauses /\ F.red \in SUBSET Clauses
        /\ F.units \in SUBSET Lits /\ F.unsat \in BOOLEAN /\ F \in Dbs
        /\ \A c \in AllClauses(F) : IsClause(c) /\ Cardinality(c) >= 2
    BY FormulaParts
  <1>1. units \in SUBSET Lits /\ units \subseteq UNION F.irr
    BY SecondMeans
  <1>2. /\ U \in Dbs /\ U.irr = F.irr /\ U.red = F.red
        /\ U.units = F.units \cup units /\ U.unsat = F.unsat
    <2>1. F.units \cup units \in SUBSET Lits
      BY <1>0, <1>1
    <2> HIDE DEF Seconds
    <2>. QED
      BY <1>0, <2>1 DEF Dbs
  <1>3. ASSUME NEW A \in DbModels(F) PROVE units \subseteq A
    <2>1. A \in Assignments
      BY <1>0, DbModel
    <2>2. ASSUME NEW x \in units PROVE x \in A
      <3>1. (p \in A \/ x \in A) /\ (-p \in A \/ x \in A)
        BY <2>2, SecondMeans
      <3>. QED
        BY <2>1, <3>1, AssignmentIff
    <2>. QED
      BY <2>2
  <1> HIDE DEF U
  <1>4. U \in Formulas
    BY <1>0, <1>2, FormulaOf DEF AllClauses
  <1>5. DbModels(F) \subseteq DbModels(U)
    BY <1>0, <1>2, <1>3, DbModel
  <1>6. Worked(F, U)
    <2>1. \A L : UsesIrr(F, L) => UsesIrr(U, L)
      BY <1>1, <1>2 DEF UsesIrr
    <2>. QED
      BY <1>2, <1>4, <1>5, <2>1 DEF Worked, Follows
  <1>7. Lean(U) \subseteq Lean(F)
    BY <1>2 DEF Lean
  <1>8. Prepared(U, G)
    BY <1>4, ElimPropagateMeans DEF Prepared, U
  <1>. QED
    BY <1>6, <1>7, <1>8, PreparedTrans DEF Prepared

\* Two clauses that make the pivot equal to a literal.
LEMMA EquivalenceGate ==
  ASSUME NEW G \in Formulas, NEW p \in Lits, NEW l \in Lits,
         NEW c \in ActualBinaries(G, -p, l), NEW d \in ActualBinaries(G, p, -l), l # -p, -l # p
  PROVE  GateOf(G, p, {c, d})
PROOF
  <1>0. /\ -p \in Lits /\ -l \in Lits /\ -(-p) = p /\ -(-l) = l /\ p # -p /\ l # -l
    BY Literal
  <1>1. /\ c \in G.irr /\ d \in G.irr /\ -p \in c /\ p \in d
        /\ Remaining(G, c) = {-p, l} /\ Remaining(G, d) = {p, -l}
    BY DEF ActualBinaries, occs
  <1>2. IsClause(c) /\ IsClause(d)
    BY <1>1, FormulaParts DEF AllClauses
  <1>3. p \notin c /\ -p \notin d
    BY <1>0, <1>1, <1>2 DEF IsClause, Negated
  <1>4. l # p /\ -l # -p
    <2>1. l \in c /\ -l \in d
      BY <1>1 DEF Remaining
    <2>. QED
      BY <1>3, <2>1
  <1>5. Rests(Remaining(G, c), p) = {l} /\ Rests(Remaining(G, d), p) = {-l}
    BY <1>1, <1>4 DEF Rests
  <1>6. ASSUME NEW A \in Around(G, p)
        PROVE  (Rests(c, p) \cap A # {} <=> l \in A) /\ (Rests(d, p) \cap A # {} <=> l \notin A)
    <2>1. A \in Assignments
      BY DEF Around
    <2>2. (Rests(c, p) \cap A # {} <=> {l} \cap A # {}) /\ (Rests(d, p) \cap A # {} <=> {-l} \cap A # {})
      BY <1>5, RestsRemaining
    <2>. QED
      BY <2>1, <2>2, AssignmentIff
  <1>7. {c, d} \subseteq Mine(G, p)
    BY <1>1 DEF Mine
  <1>8. ASSUME NEW x \in {c, d}, NEW y \in {c, d}, p \in x, -p \in y PROVE Either(G, p, x, y)
    <2>1. x = d /\ y = c
      BY <1>3, <1>8
    <2>. QED
      BY <1>6, <2>1 DEF Either
  <1>9. \A A \in Around(G, p) : \E x \in {c, d} : Rests(x, p) \cap A = {}
    BY <1>6
  <1>. QED
    BY <1>7, <1>8, <1>9 DEF GateOf

\* find_equivalence: two binary clauses, or the units that they give on the way.
LEMMA FindEquivalenceMeans ==
  ASSUME NEW F \in Formulas, NEW p \in Lits, NEW R, R = find_equivalence(F, p)
  PROVE  Prepared(F, R.db) /\ (~Settled(R.db, p) => GateRight(R.db, p, R.gates))
PROOF
  <1> DEFINE units == Seconds(F, p) \cap Seconds(F, -p)
             H == elim_propagate([F EXCEPT !.units = @ \cup units])
             G == IF units = {} THEN F ELSE H
             equal == Seconds(G, -p) \cap Negated(Seconds(F, p) \cap Seconds(G, p))
             l == CHOOSE x \in equal : TRUE
             c == CHOOSE x \in ActualBinaries(G, -p, l) : TRUE
             d == CHOOSE x \in ActualBinaries(G, p, -l) : TRUE
             gates == IF Settled(G, p) \/ equal = {} THEN {} ELSE {c, d}
  <1>1. R = [db |-> G, gates |-> gates]
    BY Zenon DEF find_equivalence
  <1>2. Prepared(F, G)
    <2>1. Prepared(F, F)
      BY RewrittenSame DEF Prepared
    <2>2. Prepared(F, H)
      BY EquivalenceUnits
    <2>. QED
      BY <2>1, <2>2
  <1>3. G \in Formulas
    BY <1>2, PreparedParts
  <1> HIDE DEF G
  <1>4. ASSUME ~Settled(G, p), equal # {} PROVE GateOf(G, p, {c, d})
    <2>1. l \in equal
      BY <1>4
    <2> HIDE DEF l
    <2>2. l \in Seconds(G, -p) /\ \E x \in Seconds(G, p) : l = -x
      BY <2>1 DEF Negated
    <2>3. l \in Lits /\ -l \in Lits /\ -(-l) = l /\ -l \in Seconds(G, p) /\ l # -p /\ -l # p
      <3>1. \A x \in Seconds(G, p) : x \in Lits /\ -(-x) = x /\ x # p
        BY <1>3, SecondMeans, Literal
      <3>2. l \in Lits /\ l # -p
        BY <1>3, <2>2, SecondMeans
      <3>. QED
        BY <2>2, <3>1, <3>2, Literal
    <2>4. c \in ActualBinaries(G, -p, l)
      BY <1>3, <2>2, SecondMeans
    <2>5. d \in ActualBinaries(G, p, -l)
      BY <1>3, <2>3, SecondMeans
    <2> HIDE DEF c, d
    <2>. QED
      BY <1>3, <2>3, <2>4, <2>5, EquivalenceGate
  <1>5. ~Settled(G, p) => GateRight(G, p, gates)
    BY <1>4 DEF GateRight
  <1> HIDE DEF gates
  <1>. QED
    BY <1>1, <1>2, <1>5

\* A clause that defines the pivot, and a binary clause for each literal.
LEMMA AndGate ==
  ASSUME NEW F \in Formulas, NEW p \in Lits, NEW gates, gates = find_and_gate(F, p)
  PROVE  GateRight(F, p, gates)
PROOF
  <1> DEFINE base == {c \in occs(F, -p) :
                        /\ ~fixedTrue(F, c) /\ Cardinality(c) >= 3
                        /\ \A l \in Remaining(F, c) \ {-p} : -l \in Seconds(F, p)}
             c == CHOOSE x \in base : TRUE
             L == Remaining(F, c) \ {-p}
             binaries == UNION {ActualBinaries(F, p, -l) : l \in L}
  <1>1. CASE base = {}
    <2>1. gates = {}
      BY <1>1 DEF find_and_gate
    <2>. QED
      BY <2>1 DEF GateRight
  <1>2. CASE base # {}
    <2>1. gates = {c} \cup binaries
      BY <1>2 DEF find_and_gate
    <2>2. c \in base
      BY <1>2
    <2> HIDE DEF c
    <2>3. c \in F.irr /\ -p \in c /\ \A l \in L : -l \in Seconds(F, p)
      BY <2>2 DEF occs
    <2>4. c \in SUBSET Lits /\ IsClause(c) /\ L \subseteq c
      BY <2>3, FormulaParts DEF AllClauses, Remaining
    <2>5. \A l \in L : -l \in Lits /\ -(-l) = l /\ l \in Lits /\ l # p /\ l # -p /\ -l # p /\ -l # -p
      <3> SUFFICES ASSUME NEW l \in L
                   PROVE  -l \in Lits /\ -(-l) = l /\ l \in Lits /\ l # p /\ l # -p /\ -l # p /\ -l # -p
        OBVIOUS
      <3>1. l \in Lits /\ -l \in Lits /\ -(-l) = l /\ -(-p) = p
        BY <2>4, Literal
      <3>2. p \notin c
        BY <2>3, <2>4, <3>1 DEF IsClause, Negated
      <3>3. l # p /\ l # -p
        BY <2>4, <3>2
      <3>. QED
        BY <3>1, <3>3
    <2>6. \A d \in binaries : \E l \in L : d \in F.irr /\ p \in d /\ Remaining(F, d) = {p, -l}
      BY DEF ActualBinaries, occs
    <2>7. \A d \in binaries : -p \notin d
      <3> SUFFICES ASSUME NEW d \in binaries PROVE -p \notin d
        OBVIOUS
      <3>1. IsClause(d) /\ p \in d
        BY <2>6, FormulaParts DEF AllClauses
      <3>. QED
        BY <3>1, Literal DEF IsClause, Negated
    <2>8. \A l \in L : \E d \in binaries : Remaining(F, d) = {p, -l}
      <3> SUFFICES ASSUME NEW l \in L PROVE \E d \in binaries : Remaining(F, d) = {p, -l}
        OBVIOUS
      <3>1. -l \in Seconds(F, p)
        BY <2>3
      <3>2. PICK d \in ActualBinaries(F, p, -l) : TRUE
        BY <3>1, SecondMeans
      <3>. QED
        BY <3>2 DEF ActualBinaries
    <2>9. Rests(Remaining(F, c), p) = L
      BY <2>4, <2>5 DEF Rests, Remaining
    <2> HIDE DEF L, binaries
    <2>10. ASSUME NEW A \in Around(F, p)
           PROVE  /\ Rests(c, p) \cap A # {} <=> \E l \in L : l \in A
                  /\ \A d \in binaries, l \in L : Remaining(F, d) = {p, -l} =>
                       (Rests(d, p) \cap A # {} <=> l \notin A)
      <3>1. A \in Assignments
        BY DEF Around
      <3>2. Rests(c, p) \cap A # {} <=> \E l \in L : l \in A
        BY <2>9, RestsRemaining
      <3>3. ASSUME NEW d, NEW l \in L, Remaining(F, d) = {p, -l}
            PROVE  Rests(d, p) \cap A # {} <=> l \notin A
        <4>1. Rests(Remaining(F, d), p) = {-l}
          BY <2>5, <3>3 DEF Rests
        <4>2. Rests(d, p) \cap A # {} <=> {-l} \cap A # {}
          BY <4>1, RestsRemaining
        <4>. QED
          BY <2>5, <3>1, <4>2, AssignmentIff
      <3>. QED
        BY <3>2, <3>3
    <2>11. gates \subseteq Mine(F, p)
      BY <2>1, <2>3, <2>6 DEF Mine
    <2>12. ASSUME NEW x \in gates, NEW y \in gates, p \in x, -p \in y PROVE Either(F, p, x, y)
      <3>1. p \notin c
        BY <2>3, <2>4, Literal DEF IsClause, Negated
      <3>2. x \in binaries /\ y = c
        BY <2>1, <2>7, <2>12, <3>1
      <3>3. PICK l \in L : Remaining(F, x) = {p, -l}
        BY <2>6, <3>2
      <3>. QED
        BY <2>10, <3>2, <3>3 DEF Either
    <2>13. ASSUME NEW A \in Around(F, p) PROVE \E x \in gates : Rests(x, p) \cap A = {}
      <3>1. CASE \E l \in L : l \in A
        BY <2>1, <2>8, <2>10, <3>1
      <3>2. CASE ~\E l \in L : l \in A
        BY <2>1, <2>10, <3>2
      <3>. QED
        BY <3>1, <3>2
    <2>. QED
      BY <2>11, <2>12, <2>13 DEF GateRight, GateOf
  <1>. QED
    BY <1>1, <1>2

-----------------------------------------------------------------------------
\* No clause of the pivot has a fixed true literal.
Clean(F, p) == \A c \in Mine(F, p) : ~fixedTrue(F, c)

\* The clauses of the pivot, once no clause of it is satisfied.
LEMMA CleanMeans ==
  ASSUME NEW F \in Formulas, NEW p, Clean(F, p), NEW c \in Mine(F, p)
  PROVE  Unassigned(F, c) = Remaining(F, c) /\ c \in SUBSET Lits /\ IsClause(c) /\ IsClause(Unassigned(F, c))
PROOF
  <1>1. c \in SUBSET Lits /\ IsClause(c)
    BY FormulaParts DEF Mine, AllClauses
  <1>2. Unassigned(F, c) = Remaining(F, c)
    BY DEF Clean, fixedTrue, Unassigned, Remaining
  <1>3. IsClause(Unassigned(F, c))
    BY <1>1 DEF Unassigned, IsClause, Negated
  <1>. QED
    BY <1>1, <1>2, <1>3

\* A set of three literals, two of which are known.
LEMMA ThirdLiteral ==
  ASSUME NEW u \in SUBSET Lits, IsClause(u), Cardinality(u) = 3, NEW p \in u, NEW k \in u, p # k,
         NEW y, y = CHOOSE l \in u : vidx(l) \notin {vidx(p), vidx(k)}
  PROVE  y \in u /\ u = {p, k, y} /\ vidx(y) # vidx(p) /\ vidx(y) # vidx(k)
PROOF
  <1>0. \A l \in u : l \in Lits /\ -l \notin u
    <2> SUFFICES ASSUME NEW l \in u PROVE -l \notin u
      OBVIOUS
    <2>1. l \in Lits /\ -(-l) = l
      BY Literal
    <2>2. -l \in u => l \in Negated(u)
      BY <2>1 DEF Negated
    <2>. QED
      BY <2>2 DEF IsClause
  <1>1. IsFiniteSet(u)
    BY OneLiteral
  <1>2. Cardinality({p, k}) = 2 /\ IsFiniteSet({p, k})
    <2>1. Cardinality({p}) = 1 /\ IsFiniteSet({p})
      BY FS_Singleton
    <2>2. IsFiniteSet({p} \cup {k}) /\ Cardinality({p} \cup {k}) = 2
      BY <2>1, FS_AddElement
    <2>3. {p} \cup {k} = {p, k}
      OBVIOUS
    <2>. QED
      BY <2>2, <2>3
  <1>3. PICK x \in u : x \notin {p, k}
    <2>1. {p, k} # u
      BY <1>2
    <2>. QED
      BY <2>1
  <1>4. \A a \in u, b \in u : vidx(a) = vidx(b) => a = b
    BY <1>0, VariableOf
  <1>5. y \in u /\ vidx(y) \notin {vidx(p), vidx(k)}
    BY <1>3, <1>4
  <1>6. y \notin {p, k}
    BY <1>5
  <1>7. Cardinality({p, k, y}) = 3
    <2> DEFINE w == {p, k}
    <2>0. IsFiniteSet(w) /\ y \notin w /\ Cardinality(w) = 2
      BY <1>2, <1>6
    <2> HIDE DEF w
    <2>1. Cardinality(w \cup {y}) = 3
      <3>1. Cardinality(w \cup {y}) = Cardinality(w) + 1
        BY ONLY <2>0, FS_AddElement
      <3>. QED
        BY ONLY <3>1, <2>0
    <2>2. w \cup {y} = {p, k, y}
      BY DEF w
    <2>. QED
      BY <2>1, <2>2
  <1>8. {p, k, y} \in SUBSET u
    BY <1>5
  <1> DEFINE t == {p, k, y}
  <1>9. t = u
    <2>1. t \in SUBSET u /\ Cardinality(t) = 3
      BY <1>7, <1>8
    <2> HIDE DEF t
    <2>. QED
      BY <1>1, <2>1, FS_Subset
  <1>. QED
    BY <1>5, <1>9

\* The four clauses of an if-then-else.
IteOf(F, p, a, b, x, z, k, u, v) ==
  /\ a \in F.irr /\ b \in F.irr /\ x \in F.irr /\ z \in F.irr
  /\ k \in Lits /\ u \in Lits /\ v \in Lits
  /\ \A l \in {k, u, v} : l # p /\ l # -p /\ -l # p /\ -l # -p
  /\ p \in a /\ p \in b /\ -p \in x /\ -p \in z
  /\ Remaining(F, a) = {p, k, u} /\ Remaining(F, b) = {p, -k, v}
  /\ Remaining(F, x) = {-p, k, -u} /\ Remaining(F, z) = {-p, -k, -v}

\* Four ternary clauses are the gate of an if-then-else.
LEMMA IteGate ==
  ASSUME NEW F \in Formulas, NEW p \in Lits, NEW a, NEW b, NEW x, NEW z, NEW k, NEW u, NEW v,
         IteOf(F, p, a, b, x, z, k, u, v)
  PROVE  GateOf(F, p, {a, b, x, z})
PROOF
  <1>0. /\ a \in F.irr /\ b \in F.irr /\ x \in F.irr /\ z \in F.irr
        /\ k \in Lits /\ u \in Lits /\ v \in Lits
        /\ \A l \in {k, u, v} : l # p /\ l # -p /\ -l # p /\ -l # -p
        /\ p \in a /\ p \in b /\ -p \in x /\ -p \in z
        /\ Remaining(F, a) = {p, k, u} /\ Remaining(F, b) = {p, -k, v}
        /\ Remaining(F, x) = {-p, k, -u} /\ Remaining(F, z) = {-p, -k, -v}
    BY DEF IteOf
  <1>1. \A c \in F.irr : ~(p \in c /\ -p \in c)
    <2> SUFFICES ASSUME NEW c \in F.irr, p \in c, -p \in c PROVE FALSE
      OBVIOUS
    <2>1. IsClause(c) /\ -p \in Negated(c)
      BY FormulaParts DEF AllClauses, Negated
    <2>. QED
      BY <2>1 DEF IsClause
  <1>2. /\ Rests(Remaining(F, a), p) = {k, u} /\ Rests(Remaining(F, b), p) = {-k, v}
        /\ Rests(Remaining(F, x), p) = {k, -u} /\ Rests(Remaining(F, z), p) = {-k, -v}
    BY <1>0 DEF Rests
  <1>3. ASSUME NEW A \in Around(F, p)
        PROVE  /\ Rests(a, p) \cap A # {} <=> (k \in A \/ u \in A)
               /\ Rests(b, p) \cap A # {} <=> (k \notin A \/ v \in A)
               /\ Rests(x, p) \cap A # {} <=> (k \in A \/ u \notin A)
               /\ Rests(z, p) \cap A # {} <=> (k \notin A \/ v \notin A)
    <2>1. /\ Rests(a, p) \cap A # {} <=> {k, u} \cap A # {}
          /\ Rests(b, p) \cap A # {} <=> {-k, v} \cap A # {}
          /\ Rests(x, p) \cap A # {} <=> {k, -u} \cap A # {}
          /\ Rests(z, p) \cap A # {} <=> {-k, -v} \cap A # {}
      BY <1>2, RestsRemaining
    <2>2. A \in Assignments
      BY DEF Around
    <2>3. (k \in A <=> -k \notin A) /\ (u \in A <=> -u \notin A) /\ (v \in A <=> -v \notin A)
      BY <1>0, <2>2, AssignmentIff
    <2>. QED
      BY <2>1, <2>3
  <1> DEFINE gates == {a, b, x, z}
  <1>4. gates \subseteq Mine(F, p)
    BY <1>0 DEF Mine
  <1>5. ASSUME NEW c \in gates, NEW d \in gates, p \in c, -p \in d PROVE Either(F, p, c, d)
    <2>1. c \in {a, b} /\ d \in {x, z}
      BY <1>0, <1>1, <1>5
    <2>. QED
      BY <1>3, <2>1 DEF Either
  <1>6. ASSUME NEW A \in Around(F, p) PROVE \E d \in gates : Rests(d, p) \cap A = {}
    BY <1>3
  <1>. QED
    BY <1>4, <1>5, <1>6 DEF GateOf

\* find_if_then_else returns nothing or a gate.
LEMMA IfThenElseMeans ==
  ASSUME NEW F \in Formulas, NEW p \in Lits, Clean(F, p), {p, -p} \cap F.units = {}, 
         NEW gates, gates = find_if_then_else(F, p)
  PROVE  GateRight(F, p, gates)
PROOF
  <1> DEFINE T3 == {d \in occs(F, p) : Cardinality(Unassigned(F, d)) = 3}
             N3 == {d \in occs(F, -p) : Cardinality(Unassigned(F, d)) = 3}
             Other(d, cond) == CHOOSE l \in Unassigned(F, d) : vidx(l) \notin {vidx(p), vidx(cond)}
             Match(d, cond) == {x \in N3 : Unassigned(F, x) = {-p, cond, -Other(d, cond)}}
             found == {t \in T3 \X T3 \X Lits :
                         /\ vidx(t[3]) # vidx(p)
                         /\ t[3] \in t[1] /\ -t[3] \in t[2]
                         /\ vidx(Other(t[1], t[3])) # vidx(Other(t[2], -t[3]))
                         /\ Match(t[1], t[3]) # {} /\ Match(t[2], -t[3]) # {}}
             t == CHOOSE y \in found : TRUE
             x == CHOOSE y \in Match(t[1], t[3]) : TRUE
             z == CHOOSE y \in Match(t[2], -t[3]) : TRUE
  <1>1. gates = IF found = {} THEN {} ELSE {t[1], t[2], x, z}
    BY Zenon DEF find_if_then_else
  <1>2. CASE found = {}
    BY <1>1, <1>2 DEF GateRight
  <1>3. CASE found # {}
    <2>1. t \in found
      BY <1>3
    <2> HIDE DEF t
    <2> DEFINE a == t[1]
               b == t[2]
               k == t[3]
               u == Other(a, k)
               v == Other(b, -k)
    <2>2. /\ a \in T3 /\ b \in T3 /\ k \in Lits /\ vidx(k) # vidx(p) /\ k \in a /\ -k \in b
          /\ Match(a, k) # {} /\ Match(b, -k) # {}
      BY <2>1
    <2>3. x \in Match(a, k) /\ z \in Match(b, -k)
      BY <2>2
    <2>4. gates = {a, b, x, z}
      BY <1>1, <1>3
    <2>5. /\ x \in N3 /\ Unassigned(F, x) = {-p, k, -u}
          /\ z \in N3 /\ Unassigned(F, z) = {-p, -k, -v}
      BY <2>3
    <2> HIDE DEF x, z, a, b, k, Match
    <2>6. /\ a \in Mine(F, p) /\ b \in Mine(F, p) /\ x \in Mine(F, p) /\ z \in Mine(F, p)
          /\ p \in a /\ p \in b /\ -p \in x /\ -p \in z
          /\ a \in F.irr /\ b \in F.irr /\ x \in F.irr /\ z \in F.irr
      BY <2>2, <2>5 DEF occs, Mine
    <2>7. /\ -k \in Lits /\ -(-k) = k /\ vidx(-k) # vidx(p) /\ k # p /\ -k # p
          /\ -p \in Lits /\ -(-p) = p
      BY <2>2, Literal, VariableOf
    <2>8. /\ Unassigned(F, a) \in SUBSET Lits /\ IsClause(Unassigned(F, a)) /\ Cardinality(Unassigned(F, a)) = 3
          /\ Unassigned(F, b) \in SUBSET Lits /\ IsClause(Unassigned(F, b)) /\ Cardinality(Unassigned(F, b)) = 3
      BY <2>2, <2>6, CleanMeans DEF IsClause
    <2>9. p \in Unassigned(F, a) /\ p \in Unassigned(F, b)
      <3>1. p \notin Negated(F.units)
        BY <2>7, FormulaParts, NegatedMember
      <3>. QED
        BY <2>6, <3>1 DEF Unassigned
    <2>10. k \in Unassigned(F, a) /\ -k \in Unassigned(F, b)
      BY <2>2, <2>5 DEF Unassigned
    <2>11. /\ u \in Unassigned(F, a) /\ Unassigned(F, a) = {p, k, u} /\ vidx(u) # vidx(p)
           /\ v \in Unassigned(F, b) /\ Unassigned(F, b) = {p, -k, v} /\ vidx(v) # vidx(p)
      BY <2>7, <2>8, <2>9, <2>10, ThirdLiteral
    <2> HIDE DEF u, v
    <2>12. u \in Lits /\ v \in Lits
      BY <2>8, <2>11
    <2>13. \A l \in {k, u, v} : l # p /\ l # -p /\ -l # p /\ -l # -p
      <3>1. \A l \in {k, u, v} : l \in Lits /\ vidx(l) # vidx(p)
        BY <2>2, <2>11, <2>12
      <3>2. \A l \in {k, u, v} : l # p /\ l # -p /\ -(-l) = l
        BY <3>1, VariableOf, Literal
      <3>. QED
        BY <2>7, <3>2
    <2>14. /\ Remaining(F, a) = {p, k, u} /\ Remaining(F, b) = {p, -k, v}
           /\ Remaining(F, x) = {-p, k, -u} /\ Remaining(F, z) = {-p, -k, -v}
      BY <2>5, <2>6, <2>11, CleanMeans
    <2>15. IteOf(F, p, a, b, x, z, k, u, v)
      BY <2>2, <2>6, <2>12, <2>13, <2>14 DEF IteOf
    <2>16. GateOf(F, p, {a, b, x, z})
      BY <2>15, IteGate
    <2>. QED
      BY <2>4, <2>16 DEF GateRight
  <1>. QED
    BY <1>2, <1>3

-----------------------------------------------------------------------------
\* A set of literals without opposite ones has as many as it has variables.
LEMMA OneEach ==
  ASSUME NEW d \in SUBSET Lits, d \cap Negated(d) = {}, NEW V, V = {vidx(l) : l \in d}
  PROVE  Cardinality(d) = Cardinality(V) /\ IsFiniteSet(d) /\ IsFiniteSet(V)
PROOF
  <1> DEFINE f == [l \in d |-> vidx(l)]
  <1>1. IsFiniteSet(d)
    BY OneLiteral
  <1>2. f \in [d -> V]
    OBVIOUS
  <1>3. ASSUME NEW i \in d, NEW j \in d, f[i] = f[j] PROVE i = j
    <2>1. i = j \/ j = -i
      BY <1>3, VariableOf
    <2>2. i \in Lits /\ -i \in Lits /\ -(-i) = i
      BY Literal
    <2>3. -i \notin d
      <3>1. -i \in d => i \in Negated(d)
        BY <2>2 DEF Negated
      <3>. QED
        BY <3>1
    <2>. QED
      BY <2>1, <2>3
  <1>4. \A v \in V : \E l \in d : f[l] = v
    OBVIOUS
  <1>5. f \in Bijection(d, V)
    BY <1>2, <1>3, <1>4 DEF Bijection, Injection, Surjection, IsInjective
  <1> HIDE DEF f
  <1>6. ExistsBijection(d, V)
    BY ONLY <1>5 DEF ExistsBijection
  <1>7. IsFiniteSet(V) /\ Cardinality(V) = Cardinality(d)
    BY ONLY <1>1, <1>6, FS_Bijection
  <1>. QED
    BY ONLY <1>1, <1>7

\* A flipping that is part of a clause has one literal of each variable.
LEMMA FlippingMeans ==
  ASSUME NEW c, IsClause(c), NEW d \in EvenFlips(c), IsClause(d)
  PROVE  \A k \in c : k \in d \/ -k \in d
PROOF
  <1> DEFINE V == {vidx(l) : l \in c}
             W == {vidx(l) : l \in d}
  <1>0. c \in SUBSET Lits /\ d \in SUBSET Lits /\ c \cap Negated(c) = {} /\ d \cap Negated(d) = {}
    BY DEF IsClause
  <1>1. Cardinality(c) = Cardinality(V) /\ IsFiniteSet(V) /\ Cardinality(W) = Cardinality(c)
    BY <1>0, OneEach DEF EvenFlips
  <1>2. W \in SUBSET V
    BY DEF EvenFlips
  <1>v. \A k \in c : vidx(k) \in V
    OBVIOUS
  <1>w. \A v \in W : \E l \in d : v = vidx(l)
    OBVIOUS
  <1> HIDE DEF V, W
  <1>3. W = V
    BY <1>1, <1>2, FS_Subset
  <1>4. ASSUME NEW k \in c PROVE k \in d \/ -k \in d
    <2>1. PICK l \in d : vidx(k) = vidx(l)
      BY <1>3, <1>v, <1>w
    <2>2. l \in Lits /\ k \in Lits
      BY <1>0
    <2>. QED
      BY <2>1, <2>2, VariableOf
  <1>. QED
    BY <1>4

\* Two flippings with different phases of p differ in another variable, too.
LEMMA FlippingsDiffer ==
  ASSUME NEW c, IsClause(c), NEW p \in c, NEW d \in EvenFlips(c), IsClause(d), p \in d,
         NEW e \in EvenFlips(c), IsClause(e), -p \in e
  PROVE  \E k \in d : k # p /\ k # -p /\ -k \in e
PROOF
  <1> SUFFICES ASSUME \A k \in d : k # p /\ k # -p => -k \notin e PROVE FALSE
    OBVIOUS
  <1>0. /\ c \in SUBSET Lits /\ d \in SUBSET Lits /\ e \in SUBSET Lits
        /\ p \in Lits /\ -p \in Lits /\ -(-p) = p /\ p # -p
        /\ \A l \in Lits : -l \in Lits /\ -(-l) = l
    <2>1. c \in SUBSET Lits /\ d \in SUBSET Lits /\ e \in SUBSET Lits
      BY DEF IsClause
    <2>2. p \in Lits
      BY <2>1
    <2>. QED
      BY <2>1, <2>2, Literal
  <1>1. \A x \in {c, d, e} : \A l \in x : -l \notin x
    <2> SUFFICES ASSUME NEW x \in {c, d, e}, NEW l \in x, -l \in x PROVE FALSE
      OBVIOUS
    <2>1. l \in Negated(x)
      BY <1>0 DEF Negated
    <2>. QED
      BY <2>1 DEF IsClause
  <1>2. \A k \in c : (k \in d \/ -k \in d) /\ (k \in e \/ -k \in e)
    BY FlippingMeans
  <1>3. \A k \in d \cup e : k \in c \/ -k \in c
    <2> SUFFICES ASSUME NEW k \in d \cup e PROVE k \in c \/ -k \in c
      OBVIOUS
    <2>1. vidx(k) \in {vidx(x) : x \in c} /\ k \in Lits
      BY DEF EvenFlips
    <2>2. PICK x \in c : vidx(k) = vidx(x)
      BY <2>1
    <2>3. x \in Lits
      BY <1>0
    <2>4. k = x \/ k = -x
      BY <2>1, <2>2, <2>3, VariableOf
    <2>. QED
      BY <1>0, <2>3, <2>4
  <1>4. ASSUME NEW k, k # p, k # -p PROVE k \in d <=> k \in e
    <2>1. ASSUME k \in d PROVE k \in e
      <3>1. -k \notin e /\ k \in Lits /\ -(-k) = k
        BY <1>0, <1>4, <2>1
      <3>2. k \in c \/ -k \in c
        BY <1>3, <2>1
      <3>. QED
        BY <1>2, <3>1, <3>2
    <2>2. ASSUME k \in e PROVE k \in d
      <3>1. k \in Lits /\ -(-k) = k
        BY <1>0, <2>2
      <3>2. -k # p /\ -k # -p
        BY <1>0, <1>4, <3>1
      <3>3. -k \notin d
        BY <2>2, <3>1, <3>2
      <3>4. k \in c \/ -k \in c
        BY <1>3, <2>2
      <3>. QED
        BY <1>2, <3>1, <3>3, <3>4
    <2>. QED
      BY <2>1, <2>2
  <1>5. p \notin e /\ -p \notin d /\ -p \notin c
    BY <1>0, <1>1
  <1> DEFINE X == d \ c
             Y == e \ c
  <1>6. Y = X \cup {-p} /\ -p \notin X
    BY <1>4, <1>5
  <1>7. IsFiniteSet(X)
    BY <1>0, OneLiteral
  <1>8. Cardinality(X) % 2 = 0 /\ Cardinality(Y) % 2 = 0
    BY DEF EvenFlips
  <1> HIDE DEF X, Y
  <1>9. Cardinality(Y) = Cardinality(X) + 1 /\ Cardinality(X) \in Nat
    BY <1>6, <1>7, FS_AddElement, FS_CardinalityType
  <1>. QED
    BY <1>8, <1>9

\* The literals of the variables of c that are false in an assignment, or those
\* with the other phase of p, are a flipping.
LEMMA FalseFlipping ==
  ASSUME NEW c, IsClause(c), NEW p \in c, NEW A \in Assignments
  PROVE  \E d \in EvenFlips(c) : \A k \in d : k = p \/ k = -p \/ k \notin A
PROOF
  <1> DEFINE V == {vidx(x) : x \in c}
             D == {l \in Lits : vidx(l) \in V /\ l \notin A}
             q == IF p \in D THEN p ELSE -p
             E == (D \ {q}) \cup {-q}
  <1>0. /\ c \in SUBSET Lits /\ p \in Lits /\ -p \in Lits /\ -(-p) = p /\ p # -p
        /\ \A l \in Lits : -l \in Lits /\ -(-l) = l /\ l # -l /\ vidx(-l) = vidx(l) /\ (l \in A <=> -l \notin A)
    <2>1. c \in SUBSET Lits
      BY DEF IsClause
    <2>2. p \in Lits
      BY <2>1
    <2>. QED
      BY <2>1, <2>2, Literal, VariableOf, AssignmentIff
  <1>1. /\ q \in D /\ -q \notin D /\ q \in {p, -p} /\ -q \in {p, -p} /\ -(-q) = q /\ vidx(q) =
          vidx(p) /\ vidx(-q) = vidx(p)
        /\ q \in Lits /\ -q \in Lits /\ q # -q
    <2>1. vidx(p) \in V /\ vidx(-p) \in V
      BY <1>0
    <2>2. p \in D <=> -p \notin D
      BY <1>0, <2>1
    <2> HIDE DEF D, V
    <2>. QED
      BY <1>0, <2>2
  <1> HIDE DEF q
  <1>2. \A x \in {D, E} : /\ x \in SUBSET Lits /\ x \cap Negated(x) = {}
                          /\ {vidx(l) : l \in x} = V
                          /\ \A k \in x : k = p \/ k = -p \/ k \notin A
    <2>1. D \in SUBSET Lits /\ \A k \in D : k \notin A /\ -k \notin D
      BY <1>0
    <2>2. E \in SUBSET Lits /\ \A k \in E : (k = p \/ k = -p \/ k \notin A) /\ -k \notin E
      <3>1. E \in SUBSET Lits
        BY <1>1
      <3>2. ASSUME NEW k \in E, -k \in E PROVE FALSE
        <4>1. k \in Lits /\ -(-k) = k
          BY <1>0, <3>1
        <4> HIDE DEF D
        <4>2. CASE k = -q
          BY <1>1, <3>2, <4>2
        <4>3. CASE k \in D /\ k # q
          <5>1. -k \notin D
            BY <2>1, <4>3
          <5>2. -k = -q
            BY <3>2, <5>1
          <5>. QED
            BY <1>1, <4>1, <4>3, <5>2
        <4>. QED
          BY <4>2, <4>3
      <3>. QED
        BY <1>1, <2>1, <3>1, <3>2
    <2>3. \A x : x \in SUBSET Lits /\ (\A k \in x : -k \notin x) => x \cap Negated(x) = {}
      <3> SUFFICES ASSUME NEW x \in SUBSET Lits, \A k \in x : -k \notin x, NEW l \in x, l \in Negated(x) PROVE FALSE
        OBVIOUS
      <3>1. -l \in x
        BY NegatedMember
      <3>. QED
        BY <3>1
    <2>4. {vidx(l) : l \in D} = V
      <3>1. \A v \in V : \E l \in D : vidx(l) = v
        <4> SUFFICES ASSUME NEW v \in V PROVE \E l \in D : vidx(l) = v
          OBVIOUS
        <4>1. PICK l \in c : v = vidx(l)
          OBVIOUS
        <4>2. l \in Lits /\ -l \in Lits /\ vidx(-l) = v /\ (l \in A <=> -l \notin A)
          BY <1>0, <4>1
        <4>3. l \in D \/ -l \in D
          BY <4>1, <4>2
        <4>. QED
          BY <4>1, <4>2, <4>3
      <3>2. \A l \in D : vidx(l) \in V
        OBVIOUS
      <3> HIDE DEF D, V
      <3>. QED
        BY <3>1, <3>2
    <2>5. {vidx(l) : l \in E} = V
      <3>1. \A v : (\E l \in D : vidx(l) = v) <=> (\E l \in E : vidx(l) = v)
        <4> HIDE DEF D
        <4>. QED
          BY <1>1
      <3> HIDE DEF D, E
      <3>. QED
        BY <2>4, <3>1
    <2> HIDE DEF D, E, V
    <2>. QED
      BY <2>1, <2>2, <2>3, <2>4, <2>5
  <1>3. Cardinality(c) = Cardinality(V)
    BY <1>0, OneEach DEF IsClause
  <1>4. \A x \in {D, E} : Cardinality(x) = Cardinality(c) /\ Cardinality({vidx(l) : l \in x}) = Cardinality(c)
    <2> SUFFICES ASSUME NEW x \in {D, E}
                 PROVE  Cardinality(x) = Cardinality(c) /\ Cardinality({vidx(l) : l \in x}) = Cardinality(c)
      OBVIOUS
    <2>1. x \in SUBSET Lits /\ x \cap Negated(x) = {} /\ V = {vidx(l) : l \in x}
      BY <1>2
    <2> HIDE DEF D, E, V
    <2>2. Cardinality(x) = Cardinality(V)
      BY <2>1, OneEach
    <2>. QED
      BY <1>3, <2>1, <2>2
  <1>5. Cardinality(D \ c) % 2 = 0 \/ Cardinality(E \ c) % 2 = 0
    <2>1. -p \notin c
      <3>1. -p \in c => p \in Negated(c)
        BY <1>0 DEF Negated
      <3>. QED
        BY <3>1 DEF IsClause
    <2> DEFINE X == D \ c
               Y == E \ c
    <2>2. IsFiniteSet(X) /\ IsFiniteSet(Y) /\ Cardinality(X) \in Nat /\ Cardinality(Y) \in Nat
      <3>1. X \in SUBSET Lits /\ Y \in SUBSET Lits
        BY <1>2
      <3>. QED
        BY <3>1, OneLiteral
    <2>3. (q = p /\ Y = X \cup {-p} /\ -p \notin X) \/ (q = -p /\ X = Y \cup {-p} /\ -p \notin Y)
      <3> HIDE DEF D
      <3>. QED
        BY <1>0, <1>1, <2>1
    <2> HIDE DEF X, Y
    <2>4. Cardinality(X) = Cardinality(Y) + 1 \/ Cardinality(Y) = Cardinality(X) + 1
      BY <2>2, <2>3, FS_AddElement
    <2>5. Cardinality(X) % 2 = 0 \/ Cardinality(Y) % 2 = 0
      BY <2>2, <2>4
    <2>. QED
      BY <2>5 DEF X, Y
  <1>6. \A x \in {D, E} : Cardinality(x \ c) % 2 = 0 => x \in EvenFlips(c)
    <2> SUFFICES ASSUME NEW x \in {D, E}, Cardinality(x \ c) % 2 = 0 PROVE x \in EvenFlips(c)
      OBVIOUS
    <2>1. x \in SUBSET {l \in Lits : vidx(l) \in V}
      BY <1>2
    <2>2. Cardinality(x) = Cardinality(c) /\ Cardinality({vidx(l) : l \in x}) = Cardinality(c)
      BY <1>4
    <2> HIDE DEF D, E
    <2>. QED
      BY <2>1, <2>2 DEF EvenFlips
  <1> HIDE DEF D, E
  <1>. QED
    BY <1>2, <1>5, <1>6

-----------------------------------------------------------------------------
\* The clause that is a flipping once the assigned literals are skipped.
FlippedIn(F, d, e) == e \in F.irr /\ Unassigned(F, e) = d
AllFlipped(F, U, gates) ==
  /\ \A e \in gates : \E d \in EvenFlips(U) : FlippedIn(F, d, e)
  /\ \A d \in EvenFlips(U) : \E e \in gates : FlippedIn(F, d, e)

\* All even flips of a clause are the gate of an exclusive or.
LEMMA XorGate ==
  ASSUME NEW F \in Formulas, NEW p \in Lits, Clean(F, p), {p, -p} \cap F.units = {},
         NEW U, IsClause(U), p \in U, NEW gates, AllFlipped(F, U, gates)
  PROVE  GateOf(F, p, gates)
PROOF
  <1>0. /\ -p \in Lits /\ -(-p) = p
        /\ p \notin Negated(F.units) /\ -p \notin Negated(F.units)
    <2>1. -p \in Lits /\ -(-p) = p
      BY Literal
    <2>2. F.units \in SUBSET Lits
      BY FormulaParts
    <2>3. \A x \in F.units : -(-x) = x
      BY <2>2, Literal
    <2>. QED
      BY <2>1, <2>3 DEF Negated
  <1>1. ASSUME NEW e, NEW d \in EvenFlips(U), FlippedIn(F, d, e)
        PROVE  /\ e \in Mine(F, p) /\ IsClause(d) /\ IsClause(e) /\ Remaining(F, e) = d
               /\ p \in e <=> p \in d
               /\ -p \in e <=> -p \in d
    <2>1. e \in F.irr /\ Unassigned(F, e) = d
      BY <1>1 DEF FlippedIn
    <2>2. IsClause(e) /\ d \subseteq e
      BY <2>1, FormulaParts DEF AllClauses, Unassigned
    <2>3. IsClause(d)
      BY <2>2 DEF IsClause, Negated
    <2>4. p \in d \/ -p \in d
      BY <2>3, FlippingMeans
    <2>5. e \in Mine(F, p)
      BY <2>1, <2>2, <2>4 DEF Mine
    <2>6. Remaining(F, e) = d
      BY <2>1, <2>5, CleanMeans
    <2>7. (p \in e <=> p \in d) /\ (-p \in e <=> -p \in d)
      BY <1>0, <2>1 DEF Unassigned
    <2>. QED
      BY <2>2, <2>3, <2>5, <2>6, <2>7
  <1>2. ASSUME NEW c \in gates, NEW d \in gates, p \in c, -p \in d PROVE Either(F, p, c, d)
    <2>1. PICK x \in EvenFlips(U) : FlippedIn(F, x, c)
      BY DEF AllFlipped
    <2>2. PICK y \in EvenFlips(U) : FlippedIn(F, y, d)
      BY DEF AllFlipped
    <2>3. /\ IsClause(x) /\ IsClause(y) /\ Remaining(F, c) = x /\ Remaining(F, d) = y
          /\ p \in x /\ -p \in y
      BY <1>1, <1>2, <2>1, <2>2
    <2>4. PICK k \in x : k # p /\ k # -p /\ -k \in y
      BY <2>3, FlippingsDiffer
    <2>5. k \in Lits /\ -(-k) = k /\ -k # p /\ -k # -p
      <3>1. k \in Lits /\ -(-k) = k
        BY <2>3, <2>4, Literal DEF IsClause
      <3>. QED
        BY <1>0, <2>4, <3>1
    <2>6. k \in Rests(Remaining(F, c), p) /\ -k \in Rests(Remaining(F, d), p)
      BY <2>3, <2>4, <2>5 DEF Rests
    <2>7. ASSUME NEW A \in Around(F, p) PROVE Rests(c, p) \cap A # {} \/ Rests(d, p) \cap A # {}
      <3>1. A \in Assignments
        BY DEF Around
      <3>2. k \in A \/ -k \in A
        BY <2>5, <3>1, AssignmentIff
      <3>3. Rests(Remaining(F, c), p) \cap A # {} \/ Rests(Remaining(F, d), p) \cap A # {}
        BY <2>6, <3>2
      <3>. QED
        BY <3>3, RestsRemaining
    <2>. QED
      BY <2>7 DEF Either
  <1>3. ASSUME NEW A \in Around(F, p) PROVE \E e \in gates : Rests(e, p) \cap A = {}
    <2>1. A \in Assignments
      BY DEF Around
    <2>2. PICK d \in EvenFlips(U) : \A k \in d : k = p \/ k = -p \/ k \notin A
      BY <2>1, FalseFlipping
    <2>3. PICK e \in gates : FlippedIn(F, d, e)
      BY DEF AllFlipped
    <2>4. Remaining(F, e) = d
      BY <1>1, <2>3
    <2>5. Rests(Remaining(F, e), p) \cap A = {}
      BY <2>2, <2>4 DEF Rests
    <2>. QED
      BY <2>5, RestsRemaining
  <1>4. gates \subseteq Mine(F, p)
    <2> SUFFICES ASSUME NEW e \in gates PROVE e \in Mine(F, p)
      OBVIOUS
    <2>1. PICK d \in EvenFlips(U) : FlippedIn(F, d, e)
      BY DEF AllFlipped
    <2>. QED
      BY <1>1, <2>1
  <1>. QED
    BY <1>2, <1>3, <1>4 DEF GateOf

\* find_xor_gate returns nothing or a gate.
LEMMA XorMeans ==
  ASSUME NEW F \in Formulas, NEW p \in Lits, Clean(F, p), {p, -p} \cap F.units = {},
         NEW gates, gates = find_xor_gate(F, p)
  PROVE  GateRight(F, p, gates)
PROOF
  <1> DEFINE found == {c \in occs(F, p) :
                         /\ Cardinality(Unassigned(F, c)) >= 3
                         /\ \A d \in EvenFlips(Unassigned(F, c)) : \E e \in F.irr : Unassigned(F, e) = d}
             c == CHOOSE x \in found : TRUE
             U == Unassigned(F, c)
             all == {CHOOSE e \in F.irr : Unassigned(F, e) = d : d \in EvenFlips(U)}
  <1>1. gates = IF found = {} THEN {} ELSE all
    BY Zenon DEF find_xor_gate
  <1>2. CASE found = {}
    BY <1>1, <1>2 DEF GateRight
  <1>3. CASE found # {}
    <2>1. c \in found
      BY <1>3
    <2> HIDE DEF c
    <2>2. c \in F.irr /\ p \in c /\ \A d \in EvenFlips(U) : \E e \in F.irr : Unassigned(F, e) = d
      BY <2>1 DEF occs
    <2>3. c \in Mine(F, p)
      BY <2>2 DEF Mine
    <2>4. IsClause(U)
      BY <2>3, CleanMeans
    <2>5. p \in U
      <3>1. F.units \in SUBSET Lits
        BY FormulaParts
      <3>2. p \notin Negated(F.units)
        BY <3>1, NegatedMember
      <3>. QED
        BY <2>2, <3>2 DEF Unassigned
    <2> HIDE DEF U
    <2>6. AllFlipped(F, U, all)
      <3> DEFINE G(d) == CHOOSE e \in F.irr : Unassigned(F, e) = d
      <3>1. all = {G(d) : d \in EvenFlips(U)}
        OBVIOUS
      <3>2. \A d \in EvenFlips(U) : G(d) \in F.irr /\ Unassigned(F, G(d)) = d
        BY <2>2
      <3>3. \A d \in EvenFlips(U) : FlippedIn(F, d, G(d))
        BY <3>2 DEF FlippedIn
      <3> HIDE DEF G, all
      <3>. QED
        BY <3>1, <3>3 DEF AllFlipped
    <2> HIDE DEF all
    <2>7. GateOf(F, p, all)
      BY <2>4, <2>5, <2>6, XorGate
    <2>. QED
      BY <1>1, <1>3, <2>7 DEF GateRight
  <1>. QED
    BY <1>2, <1>3

-----------------------------------------------------------------------------
\* What looking for a gate yields: a formula that says as much, and a gate in
\* it unless nothing is left to do for the pivot.
Looked(F, p, R) == Prepared(F, R.db) /\ (~Settled(R.db, p) => GateRight(R.db, p, R.gates))
FoundGates(G, p, g) == [db |-> G, gates |-> IF Settled(G, p) THEN {} ELSE g]

\* A gate counts only while something is left to do for the pivot.
LEMMA LookedRight ==
  ASSUME NEW F, NEW p, NEW G, Prepared(F, G), NEW g, ~Settled(G, p) => GateRight(G, p, g)
  PROVE  Looked(F, p, FoundGates(G, p, g))
PROOF
  BY DEF Looked, FoundGates

\* After the binary clauses of both phases have been marked.
LEMMA MarkedClean ==
  ASSUME NEW F \in Formulas, NEW p \in Lits, NEW G, G = mark_binary_literals(F, p),
         NEW H, H = mark_binary_literals(G, -p), ~Settled(H, p)
  PROVE  Clean(H, p)
PROOF
  <1>0. p \in {p, -p} /\ -p \in {p, -p}
    OBVIOUS
  <1>1. Prepared(F, G) /\ (~Settled(G, p) => \A c \in G.irr : p \in c => ~fixedTrue(G, c))
    BY <1>0, MarkBinaryMeans
  <1>2. G \in Formulas
    BY <1>1, PreparedParts
  <1>3. /\ Prepared(G, H) /\ H.units = G.units /\ H.irr \subseteq G.irr
        /\ \A c \in H.irr : -p \in c => ~fixedTrue(H, c)
    BY <1>0, <1>2, MarkBinaryMeans
  <1>4. ~Settled(G, p)
    BY <1>2, <1>3, PreparedParts
  <1>5. \A c : fixedTrue(H, c) <=> fixedTrue(G, c)
    BY <1>3 DEF fixedTrue
  <1>. QED
    BY <1>1, <1>3, <1>4, <1>5 DEF Clean, Mine

\* find_gate_clauses, whichever kind of gate it finds.
THEOREM FindGatesMeans ==
  ASSUME NEW F \in Formulas, NEW p \in Lits, NEW R, R = find_gate_clauses(F, p)
  PROVE  Looked(F, p, R)
PROOF
  <1> DEFINE G == mark_binary_literals(F, p)
             e == find_equivalence(G, p)
             K == mark_binary_literals(e.db, p)
             plus == find_and_gate(K, p)
             H == mark_binary_literals(K, -p)
             minus == find_and_gate(H, -p)
             ite == find_if_then_else(H, p)
             rest == IF ite # {} THEN ite ELSE find_xor_gate(H, p)
             Negative == IF Settled(H, p) \/ minus # {} THEN FoundGates(H, p, minus) ELSE FoundGates(H, p, rest)
             Positive == IF Settled(K, p) \/ plus # {} THEN FoundGates(K, p, plus) ELSE Negative
             WithEquivalence == IF Settled(e.db, p) \/ e.gates # {} THEN e ELSE Positive
  <1>1. R = IF Settled(G, p) THEN FoundGates(G, p, {}) ELSE WithEquivalence
    BY Zenon DEF find_gate_clauses, FoundGates
  <1>0. p \in {p, -p} /\ -p \in {p, -p} /\ -p \in Lits
    BY Literal
  <1>2. Prepared(F, G) /\ G \in Formulas
    <2>1. Prepared(F, G)
      BY <1>0, MarkBinaryMeans
    <2>. QED
      BY <2>1, PreparedParts
  <1> HIDE DEF G
  <1>3. Prepared(F, e.db) /\ e.db \in Formulas /\ (~Settled(e.db, p) => GateRight(e.db, p, e.gates))
    <2>1. Prepared(G, e.db) /\ (~Settled(e.db, p) => GateRight(e.db, p, e.gates))
      BY <1>2, FindEquivalenceMeans
    <2>. QED
      BY <1>2, <2>1, PreparedTrans, PreparedParts
  <1> HIDE DEF e
  <1> DEFINE E == e.db
  <1>E. e.db = E
    OBVIOUS
  <1>4. Prepared(F, K) /\ K \in Formulas /\ GateRight(K, p, plus)
    <2>0. E \in Formulas
      BY <1>3
    <2>a. K = mark_binary_literals(E, p)
      OBVIOUS
    <2> HIDE DEF K, E
    <2>1. Prepared(E, K)
      BY <1>0, <2>0, <2>a, MarkBinaryMeans
    <2>2. Prepared(F, K) /\ K \in Formulas
      BY <1>3, <1>E, <2>0, <2>1, PreparedTrans, PreparedParts
    <2>. QED
      BY <2>2, AndGate
  <1>5. /\ Prepared(F, H) /\ H \in Formulas /\ GateRight(H, p, minus)
        /\ ~Settled(H, p) => Clean(H, p)
    <2>a. K = mark_binary_literals(E, p) /\ E \in Formulas
      BY <1>3
    <2>b. H = mark_binary_literals(K, -p)
      OBVIOUS
    <2> HIDE DEF K, E, H
    <2>1. Prepared(K, H)
      BY <1>0, <1>4, <2>b, MarkBinaryMeans
    <2>2. Prepared(F, H) /\ H \in Formulas
      BY <1>4, <2>1, PreparedTrans, PreparedParts
    <2>3. GateRight(H, -p, minus)
      BY <1>0, <2>2, AndGate
    <2>4. GateRight(H, p, minus)
      BY <2>2, <2>3, GateOpposite DEF GateRight
    <2>5. ~Settled(H, p) => Clean(H, p)
      BY <2>a, <2>b, MarkedClean
    <2>. QED
      BY <2>2, <2>4, <2>5
  <1> HIDE DEF K, plus, H, minus
  <1>6. ~Settled(H, p) => GateRight(H, p, rest)
    <2> SUFFICES ASSUME ~Settled(H, p) PROVE GateRight(H, p, rest)
      OBVIOUS
    <2>1. {p, -p} \cap H.units = {} /\ Clean(H, p)
      BY <1>5 DEF Settled
    <2>2. GateRight(H, p, ite)
      BY <1>5, <2>1, IfThenElseMeans
    <2>3. GateRight(H, p, find_xor_gate(H, p))
      BY <1>5, <2>1, XorMeans
    <2> HIDE DEF ite
    <2>. QED
      BY <2>2, <2>3
  <1> HIDE DEF rest
  <1>7. Looked(F, p, FoundGates(G, p, {}))
    BY <1>2, LookedRight DEF GateRight
  <1>8. Looked(F, p, FoundGates(K, p, plus))
    BY <1>4, LookedRight
  <1>9. Looked(F, p, FoundGates(H, p, minus)) /\ Looked(F, p, FoundGates(H, p, rest))
    BY <1>5, <1>6, LookedRight
  <1>10. Looked(F, p, e)
    BY <1>3 DEF Looked
  <1>. QED
    BY ONLY <1>1, <1>7, <1>8, <1>9, <1>10

-----------------------------------------------------------------------------
\* What an attempt to eliminate a variable does to the formula and the stack.
ElimDone(F, p, away, R) ==
  /\ Worked(F, R.db) /\ Pushes(F, R.pushed, away)
  /\ R.eliminated /\ ~R.db.unsat => UsesIrr(R.db, Lits \ {p, -p})
  /\ ~ElimBackward => Kept(F, R.pushed, R.db)

\* An attempt that stops leaves the formula with what was learned on the way.
LEMMA ElimFailed ==
  ASSUME NEW F \in Formulas, NEW p, NEW away, NEW G, Prepared(F, G), NEW e, e => G.unsat
  PROVE  ElimDone(F, p, away, [db |-> G, pushed |-> <<>>, eliminated |-> e])
PROOF
  <1> DEFINE R == [db |-> G, pushed |-> <<>>, eliminated |-> e]
             none == <<>>
  <1>1. none \in Seq(Entries) /\ Places(none) = {}
    BY EmptySeq DEF Places
  <1>2. R.db = G /\ R.pushed = none /\ R.eliminated = e
    OBVIOUS
  <1>3. Worked(F, G) /\ Lean(G) \subseteq Lean(F)
    BY DEF Prepared
  <1>4. Kept(F, none, G)
    BY <1>1, <1>3 DEF Kept, Left
  <1>5. Pushes(F, none, away)
    BY <1>1 DEF Pushes
  <1> HIDE DEF R, none
  <1>6. ElimDone(F, p, away, R)
    BY <1>2, <1>3, <1>4, <1>5 DEF ElimDone
  <1>. QED
    BY <1>6 DEF R

\* Entries that follow from a weaker formula follow from the formula.
LEMMA PushesBefore ==
  ASSUME NEW F, NEW G, DbModels(F) \subseteq DbModels(G), NEW pushed, NEW away, Pushes(G, pushed, away)
  PROVE  Pushes(F, pushed, away)
PROOF
  BY DEF Pushes

\* Entries that repair a weaker formula repair the formula.
LEMMA KeptBefore ==
  ASSUME NEW F, NEW G, Lean(G) \subseteq Lean(F), NEW pushed, NEW E, Kept(G, pushed, E)
  PROVE  Kept(F, pushed, E)
PROOF
  BY DEF Kept

\* An attempt that succeeds: all resolvents, or those with the gate, stand for the
\* clauses of the pivot, which go to the stack.
LEMMA ElimGone ==
  ASSUME NEW F \in Formulas, NEW p \in Lits, NEW K, Prepared(F, K), NEW gates, GateRight(K, p, gates),
         NEW H, Chained(K, p, H), ~Settled(H, p), NEW away, vidx(p) \notin away,
         NEW s, s = elim_add_resolvents(H, p, gates), ~s.db.unsat,
         NEW E, E = mark_eliminated_clauses_as_garbage(s.db, p, gates),
         NEW D, D = elim_backward_clauses(E.db, s.added)
  PROVE  ElimDone(F, p, away, [db |-> D, pushed |-> E.pushed, eliminated |-> TRUE])
PROOF
  <1> DEFINE G == s.db
             C == E.db
             u == E.pushed
             R == [db |-> D, pushed |-> u, eliminated |-> TRUE]
  <1>1. K \in Formulas /\ Worked(F, K) /\ Lean(K) \subseteq Lean(F)
    BY PreparedParts DEF Prepared
  <1>2. Worked(K, H) /\ H \in Formulas
    BY DEF Chained, Worked, Follows
  <1>3. /\ Added(H, p, s)
        /\ \A c \in occs(H, p), d \in occs(H, -p) : ~Skipped(<<c, d>>, gates) => Either(G, p, c, d)
    <2>1. Added(H, p, s) /\ (~s.db.unsat => \A c \in occs(H, p), d \in occs(H, -p) :
                               ~Skipped(<<c, d>>, gates) => Either(s.db, p, c, d))
      BY <1>2, AddingMeans
    <2>. QED
      BY ONLY <2>1, ~s.db.unsat
  <1>4. G \in Formulas /\ Chained(H, p, G) /\ ~Settled(G, p) /\ AllEither(H, G, p, gates) /\ s.added \in Seq(Clauses)
    BY <1>3 DEF Added, Settled, AllEither
  <1>5. Worked(H, G)
    BY <1>4 DEF Chained
  <1>g. E = mark_eliminated_clauses_as_garbage(G, p, gates) /\ C = E.db /\ u = E.pushed
    OBVIOUS
  <1>h. D = elim_backward_clauses(C, s.added)
    OBVIOUS
  <1> HIDE DEF G, C, u
  <1>6. Eliminated(G, p, away, E)
    BY <1>4, <1>g, MarkMeans
  <1>7. PICK n : PivotEntries(G, p, gates, u, n)
    BY <1>4, <1>g, MarkMeans
  <1>8. Worked(G, C) /\ Lean(C) = Around(G, p) /\ Pushes(G, u, away)
        /\ C.units = G.units /\ \A c \in C.irr : p \notin c /\ -p \notin c
    BY <1>6, <1>g DEF Eliminated
  <1>9. C \in Formulas
    BY <1>8 DEF Worked, Follows
  <1>10. Worked(C, D) /\ (~ElimBackward => D = C)
    BY <1>4, <1>9, <1>h, QueueMeans
  <1>11. Worked(F, G)
    <2>1. Worked(F, H)
      BY ONLY <1>1, <1>2, F \in Formulas, WorkedTrans
    <2>. QED
      BY ONLY <2>1, <1>2, <1>5, F \in Formulas, WorkedTrans
  <1>12. Worked(F, D)
    <2>1. Worked(F, C)
      BY ONLY <1>11, <1>8, <1>4, F \in Formulas, WorkedTrans
    <2>. QED
      BY ONLY <2>1, <1>9, <1>10, F \in Formulas, WorkedTrans
  <1>13. Pushes(F, u, away)
    <2>1. DbModels(F) \subseteq DbModels(G)
      BY <1>11 DEF Worked, Follows
    <2>. QED
      BY ONLY <2>1, <1>8, PushesBefore
  <1>14. UsesIrr(D, Lits \ {p, -p})
    <2>1. C.units \in SUBSET Lits /\ C.irr \in SUBSET SUBSET Lits
      BY <1>9, FormulaParts
    <2>2. UsesIrr(C, Lits \ {p, -p})
      BY <1>4, <1>8, <2>1 DEF UsesIrr, Settled
    <2>. QED
      BY <1>10, <2>2 DEF Worked
  <1>15. Kept(F, u, C)
    <2>1. Kept(K, u, C)
      BY ONLY <1>1, <1>4, <1>7, <1>8, p \in Lits, GateRight(K, p, gates), Chained(K, p, H), PivotKept
    <2>. QED
      BY ONLY <2>1, <1>1, KeptBefore
  <1>16. R.db = D /\ R.pushed = u /\ R.eliminated = TRUE
    OBVIOUS
  <1>17. R = [db |-> D, pushed |-> E.pushed, eliminated |-> TRUE]
    BY <1>g
  <1> HIDE DEF R
  <1>18. ElimDone(F, p, away, R)
    BY <1>10, <1>12, <1>13, <1>14, <1>15, <1>16 DEF ElimDone
  <1>. QED
    BY ONLY <1>17, <1>18

\* try_to_eliminate_variable, whatever it meets.
THEOREM EliminateMeans ==
  ASSUME NEW F \in Formulas, NEW idx \in Vars, NEW away, idx \notin away,
         NEW R, R = try_to_eliminate_variable(F, idx)
  PROVE  ElimDone(F, idx, away, R)
PROOF
  <1> DEFINE p == IF Cardinality(occs(F, idx)) > Cardinality(occs(F, -idx)) THEN -idx ELSE idx
             pos == Cardinality(occs(F, p))
             neg == Cardinality(occs(F, -p))
             Failed(G) == [db |-> G, pushed |-> <<>>, eliminated |-> FALSE]
             Lost(G) == [Failed(G) EXCEPT !.eliminated = TRUE]
             g == IF pos = 0 THEN [db |-> F, gates |-> {}] ELSE find_gate_clauses(F, p)
             t == elim_resolvents_are_bounded(g.db, p, g.gates, pos, neg)
             s == elim_add_resolvents(t.db, p, g.gates)
             E == mark_eliminated_clauses_as_garbage(s.db, p, g.gates)
             D == elim_backward_clauses(E.db, s.added)
             Done == [db |-> D, pushed |-> E.pushed, eliminated |-> TRUE]
             Tried == IF ~t.bounded THEN Failed(t.db) ELSE IF s.db.unsat THEN Lost(s.db) ELSE Done
             With == IF Settled(g.db, p) THEN Failed(g.db) ELSE Tried
  <1>1. R = IF pos # 0 /\ neg > ElimOccLim THEN Failed(F) ELSE With
    BY Zenon DEF try_to_eliminate_variable
  <1>0. /\ idx \in Lits /\ -idx \in Lits /\ vidx(idx) = idx /\ vidx(-idx) = idx /\ -(-idx) = idx
    <2>1. idx \in Lits /\ idx \in Nat /\ idx > 0
      BY NAssumption DEF Lits, Vars
    <2>. QED
      BY <2>1, Literal, VariableOf DEF vidx
  <1>2. p \in Lits /\ vidx(p) = idx /\ {p, -p} = {idx, -idx} /\ vidx(p) \notin away
    BY <1>0
  <1> HIDE DEF p
  <1>3. Prepared(F, F)
    BY RewrittenSame DEF Prepared
  <1>4. Looked(F, p, g)
    <2>1. Looked(F, p, find_gate_clauses(F, p))
      BY <1>2, FindGatesMeans
    <2>2. Looked(F, p, [db |-> F, gates |-> {}])
      BY <1>3 DEF Looked, GateRight
    <2>. QED
      BY <2>1, <2>2
  <1> HIDE DEF g, pos, neg
  <1>5. Prepared(F, g.db) /\ g.db \in Formulas /\ (~Settled(g.db, p) => GateRight(g.db, p, g.gates))
    BY <1>4, PreparedParts DEF Looked
  <1>6. ElimDone(F, p, away, Failed(F)) /\ ElimDone(F, p, away, Failed(g.db))
    BY <1>3, <1>5, ElimFailed
  <1>7. ASSUME ~Settled(g.db, p) PROVE ElimDone(F, p, away, Tried)
    <2>1. Chained(g.db, p, t.db) /\ (t.bounded => ~Settled(t.db, p))
      BY <1>2, <1>5, <1>7, TrialMeans
    <2> HIDE DEF t
    <2>2. Prepared(F, t.db)
      <3>1. Prepared(g.db, t.db)
        BY <2>1 DEF Chained, Prepared
      <3>. QED
        BY <1>5, <3>1, PreparedTrans
    <2>3. ElimDone(F, p, away, Failed(t.db))
      BY <2>2, ElimFailed
    <2>4. ASSUME t.bounded PROVE ~s.db.unsat => ElimDone(F, p, away, Done)
      <3>1. ~Settled(t.db, p) /\ GateRight(g.db, p, g.gates)
        BY <1>5, <1>7, <2>1, <2>4
      <3> SUFFICES ASSUME ~s.db.unsat PROVE ElimDone(F, p, away, Done)
        OBVIOUS
      <3>. QED
        BY <1>2, <1>5, <2>1, <3>1, ElimGone
    <2>5. ASSUME t.bounded PROVE s.db.unsat => ElimDone(F, p, away, Lost(s.db))
      <3> SUFFICES ASSUME s.db.unsat PROVE ElimDone(F, p, away, Lost(s.db))
        OBVIOUS
      <3>1. ~Settled(t.db, p) /\ t.db \in Formulas
        BY <2>1, <2>2, <2>5, PreparedParts
      <3>2. Added(t.db, p, s)
        BY <1>2, <3>1, AddingMeans
      <3> HIDE DEF s
      <3>3. Prepared(t.db, s.db)
        BY <3>2 DEF Added, Chained, Prepared
      <3>4. Prepared(F, s.db)
        BY <2>2, <3>3, PreparedTrans
      <3>5. ElimDone(F, p, away, [db |-> s.db, pushed |-> <<>>, eliminated |-> TRUE])
        BY <2>5, <3>4, ElimFailed
      <3>6. Lost(s.db) = [db |-> s.db, pushed |-> <<>>, eliminated |-> TRUE]
        <4> DEFINE r == Failed(s.db)
        <4>1. r = [db |-> s.db, pushed |-> <<>>, eliminated |-> FALSE]
          OBVIOUS
        <4>2. Lost(s.db) = [r EXCEPT !.eliminated = TRUE]
          OBVIOUS
        <4> HIDE DEF r, Lost
        <4>. QED
          BY <4>1, <4>2
      <3>. QED
        BY ONLY <3>5, <3>6
    <2> HIDE DEF s, Done, Failed, Lost
    <2>. QED
      BY <2>3, <2>4, <2>5
  <1> HIDE DEF Failed, Tried
  <1>8. ElimDone(F, p, away, R)
    BY <1>1, <1>6, <1>7
  <1>. QED
    BY <1>2, <1>8 DEF ElimDone

-----------------------------------------------------------------------------
\* Satisfied clauses go, false literals are left out of the others.
LEMMA CollectionMeans ==
  ASSUME NEW F \in Formulas, ~F.unsat, Propagated(F), NEW G, G = garbage_collection(F)
  PROVE  Rewritten(F, G) /\ Propagated(G)
PROOF
  <1> DEFINE Some(C) == {Remaining(F, c) : c \in {d \in C : ~fixedTrue(F, d)}}
             I == Some(F.irr)
             R == Some(F.red)
  <1>0. /\ F \in Dbs /\ F.irr \in SUBSET Clauses /\ F.red \in SUBSET Clauses
        /\ F.units \in SUBSET Lits /\ F.unsat \in BOOLEAN
        /\ AllClauses(F) = F.irr \cup F.red
        /\ \A c \in AllClauses(F) : /\ IsClause(c) /\ c \in SUBSET Lits
                                    /\ Cardinality(c) >= 2 /\ Cardinality(c) \in Nat
    BY FormulaParts
  <1>1. G = [F EXCEPT !.irr = I, !.red = R]
    BY DEF garbage_collection
  <1>2. /\ \A e \in I : \E c \in F.irr : ~fixedTrue(F, c) /\ e = Remaining(F, c)
        /\ \A c \in F.irr : ~fixedTrue(F, c) => Remaining(F, c) \in I
        /\ \A e \in R : \E c \in F.red : ~fixedTrue(F, c) /\ e = Remaining(F, c)
    OBVIOUS
  <1> HIDE DEF I, R
  <1>3. ASSUME NEW e \in I \cup R
        PROVE  /\ IsClause(e) /\ Cardinality(e) >= 2 /\ e \in Clauses
               /\ e \cap F.units = {} /\ Remaining(F, e) = e
               /\ \E c \in AllClauses(F) : e = Remaining(F, c) /\ e \subseteq c
    <2>1. PICK c \in AllClauses(F) : ~fixedTrue(F, c) /\ e = Remaining(F, c)
      BY <1>0, <1>2
    <2>2. Cardinality(e) >= 2
      BY <2>1 DEF Propagated
    <2>3. e \subseteq c /\ e \cap F.units = {} /\ Remaining(F, e) = e
      BY <2>1 DEF Remaining, fixedTrue
    <2>4. IsClause(e) /\ e \in Clauses
      BY <1>0, <2>3 DEF IsClause, Negated, Clauses
    <2>. QED
      BY <2>1, <2>2, <2>3, <2>4
  <1>4. /\ G \in Dbs /\ G.irr = I /\ G.red = R /\ G.units = F.units /\ G.unsat = F.unsat
    <2>1. I \in SUBSET Clauses /\ R \in SUBSET Clauses
      BY <1>3
    <2>. QED
      BY <1>0, <1>1, <2>1 DEF Dbs
  <1>5. G \in Formulas
    BY <1>3, <1>4, FormulaOf
  <1>6. ASSUME NEW A \in DbModels(F) PROVE A \in DbModels(G)
    <2>1. A \in Assignments /\ ~F.unsat /\ F.units \subseteq A /\ \A c \in F.irr \cup F.red : c \cap A # {}
      BY <1>0, DbModel
    <2>2. \A l \in A : l \notin Negated(F.units)
      BY <2>1, Opposite
    <2>3. \A c : c \cap A # {} => Remaining(F, c) \cap A # {}
      BY <2>2 DEF Remaining
    <2>4. \A e \in I \cup R : e \cap A # {}
      BY <1>0, <1>3, <2>1, <2>3
    <2>. QED
      BY <1>4, <2>1, <2>4, DbModel
  <1>7. ASSUME NEW A \in Lean(G) PROVE A \in Lean(F)
    <2>1. A \in Assignments /\ ~F.unsat /\ F.units \subseteq A /\ \A c \in I : c \cap A # {}
      BY <1>4 DEF Lean
    <2>2. ASSUME NEW c \in F.irr PROVE c \cap A # {}
      <3>1. CASE fixedTrue(F, c)
        BY <2>1, <3>1 DEF fixedTrue
      <3>2. CASE ~fixedTrue(F, c)
        <4>1. Remaining(F, c) \cap A # {}
          BY <1>2, <2>1, <3>2
        <4>. QED
          BY <4>1 DEF Remaining
      <3>. QED
        BY <3>1, <3>2
    <2>. QED
      BY <2>1, <2>2 DEF Lean
  <1>8. ASSUME NEW L, Uses(F, L) PROVE Uses(G, L)
    <2>1. \A e \in I \cup R : e \subseteq L
      BY <1>3, <1>8 DEF Uses
    <2>. QED
      BY <1>4, <1>8, <2>1 DEF Uses, AllClauses
  <1>9. Propagated(G)
    <2>1. \A e \in AllClauses(G) : e \in I \cup R /\ Remaining(G, e) = Remaining(F, e)
      BY <1>4 DEF AllClauses, Remaining
    <2>. QED
      BY <1>3, <2>1 DEF Propagated
  <1>. QED
    BY <1>4, <1>5, <1>6, <1>7, <1>8, <1>9 DEF Rewritten, Follows

\* Satisfied irredundant clauses go.
LEMMA SatisfiedMeans ==
  ASSUME NEW F \in Formulas, NEW G, G = [F EXCEPT !.irr = {c \in @ : ~fixedTrue(F, c)}]
  PROVE  Rewritten(F, G)
PROOF
  <1>0. /\ F \in Dbs /\ F.irr \in SUBSET Clauses /\ F.red \in SUBSET Clauses
        /\ F.units \in SUBSET Lits /\ F.unsat \in BOOLEAN
    BY FormulaParts
  <1>1. /\ G \in Dbs /\ G.irr = {c \in F.irr : ~fixedTrue(F, c)} /\ G.red = F.red
        /\ G.units = F.units /\ G.unsat = F.unsat
    BY <1>0 DEF Dbs
  <1>2. \A A \in Lean(G) : \A c \in F.irr : c \cap A # {}
    BY <1>1 DEF Lean, fixedTrue
  <1>3. G.irr \subseteq F.irr /\ G.red \subseteq F.red
    BY <1>1
  <1>. QED
    BY <1>1, <1>2, <1>3, FewerMeans

\* Redundant clauses go.
LEMMA RedundantMeans ==
  ASSUME NEW F \in Formulas, NEW R \in SUBSET F.red, NEW G, G = [F EXCEPT !.red = R]
  PROVE  Rewritten(F, G) /\ G.irr = F.irr /\ G.red = R /\ G.units = F.units /\ G.unsat = F.unsat
PROOF
  <1>0. /\ F \in Dbs /\ F.irr \in SUBSET Clauses /\ F.red \in SUBSET Clauses
        /\ F.units \in SUBSET Lits /\ F.unsat \in BOOLEAN
    BY FormulaParts
  <1>1. /\ G \in Dbs /\ G.irr = F.irr /\ G.red = R
        /\ G.units = F.units /\ G.unsat = F.unsat
    BY <1>0 DEF Dbs
  <1>2. \A A \in Lean(G) : \A c \in F.irr : c \cap A # {}
    BY <1>1 DEF Lean
  <1>3. G.irr \subseteq F.irr /\ G.red \subseteq F.red
    BY <1>1
  <1>. QED
    BY <1>1, <1>2, <1>3, FewerMeans

\* A smaller formula stays propagated.
LEMMA PropagatedFewer ==
  ASSUME NEW F, Propagated(F), NEW G, AllClauses(G) \subseteq AllClauses(F), G.units = F.units
  PROVE  Propagated(G)
PROOF
  <1>1. \A c : Remaining(G, c) = Remaining(F, c) /\ (fixedTrue(G, c) <=> fixedTrue(F, c))
    BY DEF Remaining, fixedTrue
  <1>. QED
    BY <1>1 DEF Propagated

\* Whatever the entries, extending leads from assignments to assignments.
LEMMA AnyLayers ==
  ASSUME NEW stack \in Seq(Entries), NEW F, NEW marks
  PROVE  Layered(Assignments, stack, marks, Lean(F))
PROOF
  <1> DEFINE m == [j \in 0..Len(stack) |-> Assignments]
  <1>0. Len(stack) \in Nat /\ 0 \in 0..Len(stack) /\ Len(stack) \in 0..Len(stack)
        /\ \A j \in Places(stack) : j \in 0..Len(stack) /\ j - 1 \in 0..Len(stack) /\ stack[j] \in Entries
    BY DEF Places
  <1>1. m \in [0..Len(stack) -> SUBSET Assignments] /\ \A j \in 0..Len(stack) : m[j] = Assignments
    OBVIOUS
  <1>2. Lean(F) \subseteq Assignments
    BY DEF Lean
  <1> HIDE DEF m
  <1>3. ASSUME NEW j \in Places(stack) PROVE Down(stack[j], marks, m[j], m[j - 1])
    <2>1. m[j] = Assignments /\ m[j - 1] = Assignments /\ stack[j] \in Entries
      BY <1>0, <1>1
    <2>. QED
      BY <2>1, FlippedAssignment DEF Down
  <1>4. Layers(Assignments, stack, marks, Lean(F), m)
    BY <1>0, <1>1, <1>2, <1>3 DEF Layers
  <1>. QED
    BY <1>4 DEF Layered

-----------------------------------------------------------------------------
(***************************************************************************)
(* Clauses and flags.                                                      *)
(***************************************************************************)
GoneFlags == {"eliminated", "substituted", "pure"}
Flags     == {"unused", "active", "fixed"} \cup GoneFlags

\* The literals of the variables that are not gone, or not substituted, with
\* the flags st; and those that are left when the variables out go.
Present(st)  == {l \in Lits : st[vidx(l)] \notin GoneFlags}
Own(st)      == {l \in Lits : st[vidx(l)] # "substituted"}
Less(S, out) == {l \in S : vidx(l) \notin out}

\* A fixed literal has the flag, no clause has a substituted variable, and only
\* redundant clauses may have one that is gone, as long as a technique runs that
\* deletes them at its end.
Fits(F, st, late) ==
  F.unsat \/ /\ \A l \in F.units : st[vidx(l)] = "fixed"
             /\ Uses(F, Own(st)) /\ UsesIrr(F, Present(st))
             /\ late \/ Uses(F, Present(st))

\* Flags change only for variables that leave, or become fixed.
LEMMA MarkedRight ==
  ASSUME NEW st \in [Vars -> Flags], NEW F, NEW out, NEW why, out = {} \/ why \in Flags
  PROVE  /\ Marked(st, F, out, why) \in [Vars -> Flags]
         /\ \A l \in Lits : /\ vidx(l) \in out => Marked(st, F, out, why)[vidx(l)] = why
                            /\ vidx(l) \notin out => Marked(st, F, out, why)[vidx(l)] \in {"fixed", st[vidx(l)]}
                            /\ vidx(l) \notin out /\ l \in F.units => Marked(st, F, out, why)[vidx(l)] = "fixed"
PROOF
  <1> DEFINE m == Marked(st, F, out, why)
  <1>1. m = [v \in Vars |-> IF v \in out THEN why
                            ELSE IF {v, -v} \cap F.units # {} THEN "fixed" ELSE st[v]]
    BY DEF Marked
  <1>2. "fixed" \in Flags /\ \A v \in Vars : st[v] \in Flags
    BY DEF Flags
  <1>3. m \in [Vars -> Flags]
    BY <1>1, <1>2
  <1>4. ASSUME NEW l \in Lits
        PROVE  /\ vidx(l) \in out => m[vidx(l)] = why
               /\ vidx(l) \notin out => m[vidx(l)] \in {"fixed", st[vidx(l)]}
               /\ vidx(l) \notin out /\ l \in F.units => m[vidx(l)] = "fixed"
    <2>1. vidx(l) \in Vars /\ (l = vidx(l) \/ l = -vidx(l))
      BY VariableOf
    <2>2. l \in F.units => {vidx(l), -vidx(l)} \cap F.units # {}
      BY <2>1
    <2>. QED
      BY <1>1, <2>1, <2>2
  <1>. QED
    BY <1>3, <1>4

\* A step that removes the variables out.
LEMMA FitsMarked ==
  ASSUME NEW st \in [Vars -> Flags], NEW G \in Formulas, NEW out, NEW why, out = {} \/ why \in GoneFlags,
         ~G.unsat => /\ \A l \in G.units : vidx(l) \notin out
                     /\ Uses(G, Own(st)) /\ (why = "substituted" => Uses(G, Less(Own(st), out)))
                     /\ UsesIrr(G, Less(Present(st), out)),
         NEW late, ~G.unsat => late \/ Uses(G, Less(Present(st), out))
  PROVE  Fits(G, Marked(st, G, out, why), late)
PROOF
  <1> DEFINE m == Marked(st, G, out, why)
  <1> SUFFICES ASSUME ~G.unsat
               PROVE  /\ \A l \in G.units : m[vidx(l)] = "fixed"
                      /\ Uses(G, Own(m)) /\ UsesIrr(G, Present(m))
                      /\ late \/ Uses(G, Present(m))
    BY DEF Fits
  <1>1. \A l \in Lits : /\ vidx(l) \in out => m[vidx(l)] = why
                        /\ vidx(l) \notin out => m[vidx(l)] \in {"fixed", st[vidx(l)]}
                        /\ vidx(l) \notin out /\ l \in G.units => m[vidx(l)] = "fixed"
    BY MarkedRight DEF Flags
  <1>2. G.units \in SUBSET Lits
    BY FormulaParts
  <1> HIDE DEF m
  <1>3. \A l \in G.units : m[vidx(l)] = "fixed"
    BY <1>1, <1>2
  <1>4. Less(Present(st), out) \subseteq Present(m)
    BY <1>1 DEF Less, Present, GoneFlags
  <1>5. Less(Own(st), out) \subseteq Own(m)
    BY <1>1 DEF Less, Own
  <1>6. why # "substituted" => Own(st) \subseteq Own(m)
    BY <1>1 DEF Own
  <1>7. \A S, T : S \subseteq T => (Uses(G, S) => Uses(G, T)) /\ (UsesIrr(G, S) => UsesIrr(G, T))
    BY DEF Uses, UsesIrr
  <1>8. Uses(G, Own(m))
    BY <1>5, <1>6, <1>7
  <1>9. UsesIrr(G, Present(m)) /\ (late \/ Uses(G, Present(m)))
    BY <1>4, <1>7
  <1>. QED
    BY <1>3, <1>8, <1>9

\* A step that removes no variable.
LEMMA FitsRewritten ==
  ASSUME NEW st \in [Vars -> Flags], NEW F \in Formulas, Fits(F, st, FALSE), NEW G, Follows(F, G),
         \A L : Uses(F, L) => Uses(G, L), NEW late
  PROVE  Fits(G, Marked(st, G, {}, ""), late)
PROOF
  <1> DEFINE none == {}
             why == ""
  <1>1. G \in Formulas /\ (F.unsat => G.unsat)
    BY DEF Follows
  <1>2. none = {} \/ why \in GoneFlags
    OBVIOUS
  <1>3. ASSUME ~G.unsat PROVE Uses(G, Own(st)) /\ Uses(G, Present(st))
    BY <1>1, <1>3 DEF Fits
  <1>4. \A S : Less(S, none) = S
    BY DEF Less
  <1>5. \A L : Uses(G, L) => UsesIrr(G, L)
    BY DEF Uses, UsesIrr, AllClauses
  <1>6. \A l \in G.units : vidx(l) \notin none
    OBVIOUS
  <1> HIDE DEF none, why
  <1>7. Fits(G, Marked(st, G, none, why), late)
    BY <1>1, <1>2, <1>3, <1>4, <1>5, <1>6, FitsMarked
  <1>. QED
    BY <1>7 DEF none, why

\* The same as a fact about the flags alone.
LEMMA FitsLater ==
  ASSUME NEW F, NEW st, Fits(F, st, FALSE), NEW late
  PROVE  Fits(F, st, late)
BY DEF Fits

\* Literals that are used again.
LEMMA ReactivatedRight ==
  ASSUME NEW st \in [Vars -> Flags], NEW L
  PROVE  /\ Reactivated(st, L) \in [Vars -> Flags]
         /\ \A v \in Vars : Reactivated(st, L)[v] \in {"active", st[v]}
         /\ \A v \in Vars : st[v] = "fixed" => Reactivated(st, L)[v] = "fixed"
         /\ \A l \in Lits : l \in L => Reactivated(st, L)[vidx(l)] \in {"active", "fixed"}
PROOF
  <1> DEFINE m == Reactivated(st, L)
  <1>1. m = [v \in Vars |-> IF {v, -v} \cap L # {} /\ st[v] # "fixed" THEN "active" ELSE st[v]]
    BY DEF Reactivated
  <1>2. "active" \in Flags /\ \A v \in Vars : st[v] \in Flags
    BY DEF Flags
  <1>3. m \in [Vars -> Flags]
    BY <1>1, <1>2
  <1>4. ASSUME NEW l \in Lits, l \in L PROVE m[vidx(l)] \in {"active", "fixed"}
    <2>1. vidx(l) \in Vars /\ (l = vidx(l) \/ l = -vidx(l))
      BY VariableOf
    <2>2. {vidx(l), -vidx(l)} \cap L # {}
      BY <1>4, <2>1
    <2>. QED
      BY <1>1, <2>1, <2>2
  <1>. QED
    BY <1>1, <1>3, <1>4

\* Reactivating the variables of restored literals keeps flags and formula together.
LEMMA FitsReactivated ==
  ASSUME NEW st \in [Vars -> Flags], NEW L, NEW F \in Formulas, Fits(F, st, FALSE)
  PROVE  /\ Fits(F, Reactivated(st, L), FALSE)
         /\ ~F.unsat => Uses(F, Present(Reactivated(st, L)))
         /\ ~F.unsat => Uses(F, Own(Reactivated(st, L)))
         /\ L \cap Lits \subseteq Present(Reactivated(st, L))
         /\ L \cap Lits \subseteq Own(Reactivated(st, L))
PROOF
  <1> DEFINE m == Reactivated(st, L)
  <1>1. /\ \A v \in Vars : m[v] \in {"active", st[v]}
        /\ \A v \in Vars : st[v] = "fixed" => m[v] = "fixed"
        /\ \A l \in Lits : l \in L => m[vidx(l)] \in {"active", "fixed"}
    BY ReactivatedRight
  <1> HIDE DEF m
  <1>2. \A l \in Lits : vidx(l) \in Vars
    BY VariableOf
  <1>3. F.units \in SUBSET Lits
    BY FormulaParts
  <1>4. Present(st) \subseteq Present(m) /\ L \cap Lits \subseteq Present(m)
    BY <1>1, <1>2 DEF Present, GoneFlags
  <1>5. Own(st) \subseteq Own(m) /\ L \cap Lits \subseteq Own(m)
    BY <1>1, <1>2 DEF Own
  <1>6. \A S, T : S \subseteq T => (Uses(F, S) => Uses(F, T)) /\ (UsesIrr(F, S) => UsesIrr(F, T))
    BY DEF Uses, UsesIrr
  <1>7. ~F.unsat => Uses(F, Present(m)) /\ Uses(F, Own(m)) /\ UsesIrr(F, Present(m))
    BY <1>4, <1>5, <1>6 DEF Fits
  <1>8. ~F.unsat => \A l \in F.units : m[vidx(l)] = "fixed"
    BY <1>1, <1>2, <1>3 DEF Fits
  <1>. QED
    BY <1>4, <1>5, <1>7, <1>8 DEF Fits, m

-----------------------------------------------------------------------------
(***************************************************************************)
(* The invariant.                                                          *)
(***************************************************************************)
Late == todo # <<>> /\ Head(todo) \in {"elim", "block"}

Typed ==
  /\ session \in {s[2] : s \in Sessions}
  /\ original \in SUBSET Clauses
  /\ db \in Formulas /\ status \in [Vars -> Flags]
  /\ frozentab \in SUBSET Vars /\ assumptions \in SUBSET Lits
  /\ extension \in Seq(Entries) /\ tainted \in SUBSET Lits

\* The database and the clauses of the stack follow from what the user added.
StackRight(C, stack) ==
  \A p \in Places(stack) : IsClause(stack[p].clause) /\ \A A \in Models(C) : stack[p].clause \cap A # {}
Implied == Models(original) \subseteq DbModels(db) /\ StackRight(original, extension)

\* No variable of the user is gone; a witness against an assumption is tainted.
Untouched ==
  /\ FrozenStay
  /\ \A l \in assumptions : -l \in WitnessLiterals(extension) => l \in tainted

Orderly ==
  /\ ~solving => todo = <<>>
  /\ solving /\ ~db.unsat => tainted = {}
  /\ Searching => Propagated(db)

\* From a model of what is left the stack leads to one of the user's formula.
Layering == ~ElimBackward => Layered(Models(original), extension, tainted, Lean(db))

LifeInv == Typed /\ Implied /\ Fits(db, status, Late) /\ Untouched /\ Orderly /\ Layering

-----------------------------------------------------------------------------
(***************************************************************************)
(* Steps while solving.                                                    *)
(***************************************************************************)
\* A stack that is pushed onto follows from the formula like its parts.
LEMMA StackConcat ==
  ASSUME NEW C \in SUBSET Clauses, NEW F, Models(C) \subseteq DbModels(F),
         NEW s \in Seq(Entries), StackRight(C, s), NEW t, NEW away, Pushes(F, t, away)
  PROVE  /\ s \o t \in Seq(Entries) /\ StackRight(C, s \o t)
         /\ \A l \in WitnessLiterals(s \o t) : l \in WitnessLiterals(s) \/ (l \in Lits /\ vidx(l) \notin away)
PROOF
  <1> DEFINE u == s \o t
  <1>0. t \in Seq(Entries)
    BY DEF Pushes
  <1>1. /\ u \in Seq(Entries) /\ Places(u) = 1..(Len(s) + Len(t))
        /\ Len(s) \in Nat /\ Len(t) \in Nat /\ Places(s) = 1..Len(s) /\ Places(t) = 1..Len(t)
        /\ \A i \in 1..Len(s) : u[i] = s[i]
        /\ \A i \in (Len(s) + 1)..(Len(s) + Len(t)) : u[i] = t[i - Len(s)]
    BY <1>0 DEF Places
  <1> HIDE DEF u
  <1>2. ASSUME NEW p \in Places(u)
        PROVE  \/ \E i \in Places(s) : u[p] = s[i]
               \/ \E i \in Places(t) : u[p] = t[i]
    <2>1. CASE p \in 1..Len(s)
      BY <1>1, <2>1
    <2>2. CASE p \in (Len(s) + 1)..(Len(s) + Len(t))
      <3>1. p - Len(s) \in Places(t) /\ u[p] = t[p - Len(s)]
        BY <1>1, <2>2
      <3>. QED
        BY <3>1
    <2>3. p \in 1..Len(s) \/ p \in (Len(s) + 1)..(Len(s) + Len(t))
      BY <1>1
    <2>. QED
      BY <2>1, <2>2, <2>3
  <1>3. StackRight(C, u)
    BY <1>2 DEF StackRight, Pushes
  <1>4. ASSUME NEW l \in WitnessLiterals(u) PROVE l \in WitnessLiterals(s) \/ (l \in Lits /\ vidx(l) \notin away)
    <2>1. PICK p \in Places(u) : l \in u[p].witness
      BY <1>1, WitnessMember DEF Places
    <2>2. CASE \E i \in Places(s) : u[p] = s[i]
      BY <2>1, <2>2, WitnessMember DEF Places
    <2>3. CASE \E i \in Places(t) : u[p] = t[i]
      <3>1. PICK i \in Places(t) : u[p] = t[i]
        BY <2>3
      <3>2. t[i] \in Entries
        BY <1>0, <1>1
      <3>3. t[i].witness \in SUBSET Lits
        BY <3>2 DEF Entries
      <3>. QED
        BY <2>1, <3>1, <3>3 DEF Pushes
    <2>. QED
      BY <1>2, <2>2, <2>3
  <1>. QED
    BY <1>1, <1>3, <1>4 DEF u

\* The common part of all techniques: a new database, entries on the stack and
\* variables that leave.
LEMMA SimplifyRight ==
  ASSUME LifeInv, solving, ~db.unsat, UserUnchanged,
         NEW G, NEW pushed, NEW out \in SUBSET Vars, NEW why, out = {} \/ why \in GoneFlags,
         Simplify(G, pushed, out, why),
         Follows(db, G), Pushes(db, pushed, frozen), ~ElimBackward => Kept(db, pushed, G),
         out \cap frozen = {}, Fits(G, status', Late'), Searching' => Propagated(G)
  PROVE  LifeInv'
PROOF
  <1>0. /\ Typed /\ Implied /\ Untouched /\ Orderly /\ Layering
        /\ db' = G /\ extension' = extension \o pushed /\ status' = Marked(status, G, out, why)
        /\ session' = session /\ original' = original /\ frozentab' = frozentab
        /\ assumptions' = assumptions /\ tainted' = tainted /\ solving' = solving
    BY DEF LifeInv, Simplify, UserUnchanged
  <1>1. /\ G \in Formulas /\ DbModels(db) \subseteq DbModels(G)
    BY DEF Follows
  <1>2. tainted = {}
    BY <1>0 DEF Orderly
  <1>3. pushed \in Seq(Entries)
    BY DEF Pushes
  <1>4. /\ extension' \in Seq(Entries) /\ StackRight(original', extension')
        /\ \A l \in WitnessLiterals(extension') :
             l \in WitnessLiterals(extension) \/ (l \in Lits /\ vidx(l) \notin frozen)
    <2>1. original \in SUBSET Clauses /\ extension \in Seq(Entries)
      BY <1>0 DEF Typed
    <2>2. Models(original) \subseteq DbModels(db) /\ StackRight(original, extension)
      BY <1>0 DEF Implied
    <2>. QED
      BY <1>0, <2>1, <2>2, StackConcat
  <1>5. /\ status' \in [Vars -> Flags]
        /\ \A l \in Lits : vidx(l) \notin out => status'[vidx(l)] \in {"fixed", status[vidx(l)]}
    <2>1. status \in [Vars -> Flags]
      BY <1>0 DEF Typed
    <2>2. out = {} \/ why \in Flags
      BY DEF Flags
    <2>. QED
      BY <1>0, <2>1, <2>2, MarkedRight
  <1>6. Typed'
    BY <1>0, <1>1, <1>4, <1>5 DEF Typed
  <1>7. Implied'
    BY <1>0, <1>1, <1>4 DEF Implied
  <1>8. Untouched'
    <2>1. frozen' = frozen
      BY <1>0 DEF frozen
    <2>2. ASSUME NEW v \in frozen PROVE v \notin Gone'
      <3>1. v \in Vars => v \in Lits /\ vidx(v) = v
        BY VariableOf, NAssumption DEF Lits
      <3>2. v \notin Gone /\ v \notin out
        BY <1>0, <2>2 DEF Untouched, FrozenStay
      <3>. QED
        BY <1>5, <3>1, <3>2 DEF Gone
    <2>3. FrozenStay'
      BY <2>1, <2>2 DEF FrozenStay
    <2>4. ASSUME NEW l \in assumptions, -l \in WitnessLiterals(extension') PROVE l \in tainted
      <3>1. vidx(l) \in frozen
        BY <2>4 DEF frozen
      <3>2. l \in Lits /\ vidx(-l) = vidx(l)
        BY <1>0, <2>4, VariableOf DEF Typed
      <3>3. -l \in WitnessLiterals(extension)
        BY <1>4, <2>4, <3>1, <3>2
      <3>. QED
        BY <1>0, <2>4, <3>3 DEF Untouched
    <2>. QED
      BY <1>0, <2>3, <2>4 DEF Untouched
  <1>9. Orderly'
    BY <1>0, <1>2 DEF Orderly
  <1>10. Layering'
    <2> SUFFICES ASSUME ~ElimBackward PROVE Layered(Models(original), extension \o pushed, tainted, Lean(G))
      BY <1>0 DEF Layering
    <2> DEFINE M0 == Models(original)
               K  == Lean(db)
               M  == Lean(G)
               s  == extension
               t  == pushed
    <2>1. Layered(M0, s, tainted, K) /\ s \in Seq(Entries) /\ t \in Seq(Entries)
      BY <1>0, <1>3 DEF Layering, Typed
    <2>2. Layered(K, t, {}, M)
      BY <1>3, KeptLayers
    <2> HIDE DEF M0, K, M, s, t
    <2>3. Layered(K, t, tainted, M)
      BY <1>2, <2>2
    <2>4. Layered(M0, s \o t, tainted, M)
      BY ONLY <2>1, <2>3, LayeredConcat
    <2>. QED
      BY <2>4 DEF M0, K, M, s, t
  <1>11. Fits(db', status', Late')
    BY <1>0
  <1>. QED
    BY <1>6, <1>7, <1>8, <1>9, <1>10, <1>11 DEF LifeInv

\* A step that leaves no entry.
LEMMA RewriteRight ==
  ASSUME LifeInv, solving, ~db.unsat, UserUnchanged, NEW G, Rewrite(G),
         Follows(db, G), Lean(G) \subseteq Lean(db),
         Fits(G, Marked(status, G, {}, ""), Late'), Searching' => Propagated(G)
  PROVE  LifeInv'
PROOF
  <1> DEFINE none == <<>>
             out == {}
             why == ""
  <1>1. none \in Seq(Entries) /\ Places(none) = {}
    <2>1. none \in Seq(Entries) /\ Len(none) = 0
      BY ONLY EmptySeq
    <2>. QED
      BY ONLY <2>1 DEF Places
  <1>2. Kept(db, none, G)
    BY <1>1 DEF Kept, Left
  <1>3. Pushes(db, none, frozen)
    BY <1>1 DEF Pushes
  <1>4. Simplify(G, none, out, why) /\ status' = Marked(status, G, {}, "")
    BY DEF Rewrite, Simplify
  <1>5. out = {} \/ why \in GoneFlags
    OBVIOUS
  <1>6. out \cap frozen = {} /\ out \in SUBSET Vars
    OBVIOUS
  <1>7. Fits(G, status', Late')
    BY <1>4
  <1> HIDE DEF none, out, why
  <1>. QED
    BY <1>2, <1>3, <1>4, <1>5, <1>6, <1>7, SimplifyRight

\* A step to an equivalent formula, when no technique that removes variables
\* runs.
LEMMA RewrittenRight ==
  ASSUME LifeInv, solving, ~db.unsat, UserUnchanged, NEW G, Rewrite(G),
         Rewritten(db, G), ~Late, Searching' => Propagated(G)
  PROVE  LifeInv'
PROOF
  <1>1. db \in Formulas /\ status \in [Vars -> Flags] /\ Fits(db, status, FALSE)
    BY DEF LifeInv, Typed, Fits
  <1>2. Follows(db, G) /\ Lean(G) \subseteq Lean(db) /\ \A L : Uses(db, L) => Uses(G, L)
    BY DEF Rewritten
  <1>3. \A late : Fits(G, Marked(status, G, {}, ""), late)
    BY <1>1, <1>2, FitsRewritten
  <1>. QED
    BY <1>2, <1>3, RewriteRight

-----------------------------------------------------------------------------
\* Flags that fit the literals of a formula.
LEMMA FitsUsing ==
  ASSUME NEW st \in [Vars -> Flags], NEW G \in Formulas, ~G.unsat => Uses(G, Present(st)), NEW late
  PROVE  Fits(G, Marked(st, G, {}, ""), late)
PROOF
  <1> DEFINE none == {}
             why == ""
  <1>1. none = {} \/ why \in GoneFlags
    OBVIOUS
  <1>2. \A S : Less(S, none) = S
    BY DEF Less
  <1>3. Present(st) \subseteq Own(st)
    BY DEF Present, Own, GoneFlags
  <1>4. \A L : Uses(G, L) => UsesIrr(G, L)
    BY DEF Uses, UsesIrr, AllClauses
  <1>5. ~G.unsat => Uses(G, Own(st))
    BY <1>3 DEF Uses
  <1>6. \A l \in G.units : vidx(l) \notin none
    OBVIOUS
  <1> HIDE DEF none, why
  <1>7. Fits(G, Marked(st, G, none, why), late)
    BY <1>1, <1>2, <1>4, <1>5, <1>6, FitsMarked
  <1>. QED
    BY <1>7 DEF none, why

\* The parts of the invariant that the steps look at.
LEMMA LifeParts ==
  ASSUME LifeInv, ~db.unsat
  PROVE  /\ db \in Formulas /\ status \in [Vars -> Flags]
         /\ \A l \in db.units : status[vidx(l)] = "fixed"
         /\ Uses(db, Own(status)) /\ UsesIrr(db, Present(status))
         /\ ~Late => Uses(db, Present(status))
         /\ Searching => Propagated(db) /\ ~Late /\ solving
PROOF
  <1>1. Typed /\ Fits(db, status, Late) /\ Orderly
    BY DEF LifeInv
  <1>2. Searching => ~Late /\ solving
    BY DEF Searching, Late
  <1>. QED
    BY <1>1, <1>2 DEF Typed, Fits, Orderly

\* Learning a clause that follows.
LEMMA LearnRight ==
  ASSUME LifeInv, NEW c \in session.learnable, Learn(c)
  PROVE  LifeInv'
PROOF
  <1> DEFINE red == TRUE
             H == new_clause(db, c, red)
             G == propagate(H)
  <1>0. /\ Searching /\ solving /\ ~db.unsat /\ c \subseteq ActiveLits
        /\ Entails(AllClauses(db) \cup UnitClauses(db), {c})
        /\ Rewrite(G) /\ UserUnchanged
    BY DEF Learn, Searching
  <1>1. /\ db \in Formulas /\ status \in [Vars -> Flags] /\ ~Late /\ Uses(db, Present(status))
    BY <1>0, LifeParts
  <1>2. IsClause(c)
    <2>1. session \in {s[2] : s \in Sessions}
      BY DEF LifeInv, Typed
    <2>. QED
      BY <2>1, SessionsAssumption
  <1>3. \A A \in DbModels(db) : c \cap A # {}
    BY <1>0 DEF DbModels, Meaning, Models, Entails, Satisfies
  <1>4. red \in BOOLEAN
    OBVIOUS
  <1>5. c \subseteq Present(status)
    BY <1>0 DEF ActiveLits, active, Present, GoneFlags
  <1>a. H = new_clause(db, c, red) /\ G = propagate(H)
    OBVIOUS
  <1> HIDE DEF red, H, G
  <1>6. /\ Follows(db, H) /\ Lean(H) \subseteq Lean(db)
        /\ \A L : Uses(db, L) /\ c \subseteq L => Uses(H, L)
    BY ONLY <1>1, <1>2, <1>3, <1>4, <1>a, DerivedMeans
  <1>7. H \in Formulas
    BY <1>6 DEF Follows
  <1>8. Rewritten(H, G) /\ (~G.unsat => Propagated(G))
    BY ONLY <1>7, <1>a, PropagateMeans
  <1>9. /\ Follows(H, G) /\ Lean(G) \subseteq Lean(H) /\ Uses(G, Present(status)) /\ G \in Formulas
    BY <1>1, <1>5, <1>6, <1>8 DEF Rewritten, Follows
  <1>10. Follows(db, G) /\ Lean(G) \subseteq Lean(db)
    BY <1>1, <1>6, <1>9, FollowsTrans
  <1>11. Fits(G, Marked(status, G, {}, ""), Late')
    BY <1>1, <1>9, FitsUsing
  <1>12. Searching' => Propagated(G)
    BY <1>0, <1>8 DEF Rewrite, Simplify, Searching
  <1>. QED
    BY <1>0, <1>10, <1>11, <1>12, RewriteRight

\* Forgetting a learned clause.
LEMMA ReduceRight ==
  ASSUME LifeInv, NEW c, Reduce(c)
  PROVE  LifeInv'
PROOF
  <1> DEFINE R == db.red \ {c}
             G == [db EXCEPT !.red = R]
  <1>0. /\ Searching /\ solving /\ ~db.unsat /\ Rewrite(G) /\ UserUnchanged
    BY DEF Reduce, Searching
  <1>1. db \in Formulas /\ ~Late /\ Propagated(db)
    BY <1>0, LifeParts
  <1>2. R \in SUBSET db.red
    OBVIOUS
  <1> HIDE DEF R
  <1>3. Rewritten(db, G) /\ G.irr = db.irr /\ G.red = R /\ G.units = db.units
    BY <1>1, <1>2, RedundantMeans
  <1> HIDE DEF G
  <1>4. Propagated(G)
    <2>1. AllClauses(G) \subseteq AllClauses(db)
      BY <1>2, <1>3 DEF AllClauses
    <2>. QED
      BY <1>1, <1>3, <2>1, PropagatedFewer
  <1>. QED
    BY <1>0, <1>1, <1>3, <1>4, RewrittenRight

\* Collecting satisfied clauses and falsified literals.
LEMMA CollectRight ==
  ASSUME LifeInv, Collect
  PROVE  LifeInv'
PROOF
  <1> DEFINE G == garbage_collection(db)
  <1>0. /\ Searching /\ solving /\ ~db.unsat /\ Rewrite(G) /\ UserUnchanged
    BY DEF Collect, Searching
  <1>1. db \in Formulas /\ ~Late /\ Propagated(db)
    BY <1>0, LifeParts
  <1>2. Rewritten(db, G) /\ Propagated(G)
    BY <1>0, <1>1, CollectionMeans
  <1> HIDE DEF G
  <1>. QED
    BY <1>0, <1>1, <1>2, RewrittenRight

\* The start of an inprocessing phase.
LEMMA StartPhaseRight ==
  ASSUME LifeInv, NEW stages, StartPhase(stages)
  PROVE  LifeInv'
PROOF
  <1> DEFINE G == propagate(db)
  <1>0. /\ Searching /\ solving /\ ~db.unsat /\ Rewrite(G) /\ UserUnchanged
    BY DEF StartPhase, Searching
  <1>1. db \in Formulas /\ ~Late
    BY <1>0, LifeParts
  <1>2. Rewritten(db, G) /\ (~G.unsat => Propagated(G))
    BY <1>1, PropagateMeans
  <1> HIDE DEF G
  <1>3. Searching' => Propagated(G)
    BY <1>0, <1>2 DEF Rewrite, Simplify, Searching
  <1>. QED
    BY <1>0, <1>1, <1>2, <1>3, RewrittenRight

-----------------------------------------------------------------------------
\* The end of a technique: afterwards no clause has a variable that is gone.
LEMMA LeaveMeans ==
  ASSUME LifeInv, ~db.unsat, todo # <<>>, NEW F, F = Leave(Head(todo), db)
  PROVE  Rewritten(db, F) /\ (~F.unsat => Uses(F, Present(status)))
PROOF
  <1>0. /\ db \in Formulas /\ status \in [Vars -> Flags]
        /\ \A l \in db.units : status[vidx(l)] = "fixed"
        /\ Uses(db, Own(status)) /\ UsesIrr(db, Present(status))
        /\ ~Late => Uses(db, Present(status))
    BY LifeParts
  <1>1. CASE Head(todo) \in {"elim", "block"}
    <2> DEFINE gone == {v \in Vars : status[v] \in {"eliminated", "pure"}}
               R == {c \in db.red : \A l \in c : vidx(l) \notin gone}
    <2>1. F = [db EXCEPT !.red = R]
      BY <1>1 DEF Leave, mark_redundant_clauses_with_eliminated_variables_as_garbage
    <2>2. R \in SUBSET db.red /\ \A c \in R : \A l \in c : vidx(l) \notin gone
      OBVIOUS
    <2> HIDE DEF R
    <2>3. Rewritten(db, F) /\ F.irr = db.irr /\ F.red = R /\ F.units = db.units
      <3>1. db \in Formulas /\ R \in SUBSET db.red
        BY <1>0, <2>2
      <3>. QED
        BY ONLY <2>1, <3>1, RedundantMeans
    <2>4. ASSUME NEW c \in R PROVE c \subseteq Present(status)
      <3>1. c \subseteq Own(status)
        BY <1>0, <2>2, <2>4 DEF Uses, AllClauses
      <3> SUFFICES ASSUME NEW l \in c PROVE l \in Present(status)
        OBVIOUS
      <3>2. l \in Lits /\ status[vidx(l)] # "substituted"
        BY <3>1 DEF Own
      <3>3. status[vidx(l)] \notin {"eliminated", "pure"}
        BY <2>2, <2>4, <3>2, VariableOf
      <3>. QED
        BY <3>2, <3>3 DEF Present, GoneFlags
    <2>5. Uses(F, Present(status))
      BY <1>0, <2>3, <2>4 DEF Uses, UsesIrr, AllClauses
    <2>. QED
      BY <2>3, <2>5
  <1>2. CASE Head(todo) \notin {"elim", "block"}
    <2>1. Uses(db, Present(status))
      BY <1>0, <1>2 DEF Late
    <2>2. F = propagate(db) \/ F = db
      BY <1>2 DEF Leave
    <2>3. Rewritten(db, F)
      BY <1>0, <2>2, PropagateMeans, RewrittenSame
    <2>. QED
      BY <2>1, <2>3 DEF Rewritten
  <1>. QED
    BY <1>1, <1>2

\* The start of a technique propagates or removes satisfied clauses.
LEMMA EnterMeans ==
  ASSUME NEW F \in Formulas, NEW technique, NEW G, G = Enter(technique, F)
  PROVE  Rewritten(F, G) /\ (technique = "" /\ ~G.unsat => Propagated(G))
PROOF
  <1> DEFINE Clear(H) == [H EXCEPT !.irr = {c \in @ : ~fixedTrue(H, c)}]
             P == propagate(F)
  <1>1. Rewritten(F, P) /\ (~P.unsat => Propagated(P)) /\ P \in Formulas
    <2>1. Rewritten(F, P) /\ (~P.unsat => Propagated(P))
      BY PropagateMeans
    <2> HIDE DEF P
    <2>. QED
      BY <2>1 DEF Rewritten, Follows
  <1>2. \A H \in Formulas : Rewritten(H, Clear(H))
    BY SatisfiedMeans
  <1>3. Rewritten(F, F)
    BY RewrittenSame
  <1>4. /\ technique = "elim" => G = Clear(F)
        /\ technique \in {"block", "cover"} => G = Clear(P)
        /\ technique \in {"instantiate", ""} => G = P
        /\ technique \notin {"elim", "block", "cover", "instantiate", ""} => G = F
    BY DEF Enter
  <1> HIDE DEF P, Clear
  <1>5. Rewritten(F, Clear(F)) /\ Rewritten(F, Clear(P))
    BY <1>1, <1>2, RewrittenTrans
  <1>. QED
    BY <1>1, <1>3, <1>4, <1>5

\* The turn from one technique to another.
LEMMA TurnRight ==
  ASSUME LifeInv, solving, ~db.unsat, todo # <<>>, UserUnchanged,
         NEW F, F = Leave(Head(todo), db), Rewrite(Enter(FirstOf(todo'), F))
  PROVE  LifeInv'
PROOF
  <1> DEFINE G == Enter(FirstOf(todo'), F)
  <1>1. Rewritten(db, F) /\ (~F.unsat => Uses(F, Present(status)))
    BY LeaveMeans
  <1>2. db \in Formulas /\ status \in [Vars -> Flags] /\ F \in Formulas
    BY <1>1, LifeParts DEF Rewritten, Follows
  <1>3. Rewritten(F, G) /\ (FirstOf(todo') = "" /\ ~G.unsat => Propagated(G))
    BY <1>2, EnterMeans
  <1>r. Rewrite(G)
    OBVIOUS
  <1> HIDE DEF G
  <1>4. Rewritten(db, G)
    BY <1>1, <1>2, <1>3, RewrittenTrans
  <1>5. Follows(db, G) /\ Lean(G) \subseteq Lean(db) /\ G \in Formulas
        /\ (~G.unsat => Uses(G, Present(status)))
    BY <1>1, <1>3, <1>4 DEF Rewritten, Follows
  <1>6. Fits(G, Marked(status, G, {}, ""), Late')
    BY <1>2, <1>5, FitsUsing
  <1>7. Searching' => Propagated(G)
    BY <1>3, <1>r DEF Rewrite, Simplify, Searching, FirstOf
  <1>. QED
    BY <1>r, <1>5, <1>6, <1>7, RewriteRight

\* The next technique.
LEMMA NextTechniqueRight ==
  ASSUME LifeInv, NextTechnique
  PROVE  LifeInv'
PROOF
  <1>1. /\ solving /\ ~db.unsat /\ todo # <<>> /\ UserUnchanged
        /\ \E F \in {Leave(Head(todo), db)} : Rewrite(Enter(FirstOf(todo'), F))
    BY DEF NextTechnique
  <1>. QED
    BY <1>1, TurnRight

\* Another round of elimination.
LEMMA ContinueElimRight ==
  ASSUME LifeInv, ContinueElim
  PROVE  LifeInv'
PROOF
  <1>1. /\ solving /\ ~db.unsat /\ todo # <<>> /\ UserUnchanged
        /\ \E F \in {Leave(Head(todo), db)} : Rewrite(Enter(FirstOf(todo'), F))
    BY DEF ContinueElim, At
  <1>. QED
    BY <1>1, TurnRight

-----------------------------------------------------------------------------
(***************************************************************************)
(* Steps of the techniques.                                                *)
(***************************************************************************)
\* While a technique runs that removes no variable for good.
LEMMA AtParts ==
  ASSUME LifeInv, NEW technique, At(technique), PhaseUnchanged, UserUnchanged
  PROVE  /\ solving /\ ~db.unsat /\ todo # <<>> /\ todo' = todo /\ Late' = Late
         /\ technique \notin {"elim", "block"} => ~Late
         /\ technique \in {"elim", "block"} => Late
         /\ ~(Searching')
PROOF
  <1>1. solving /\ todo # <<>> /\ Head(todo) = technique /\ ~db.unsat /\ todo' = todo
    BY DEF At, PhaseUnchanged
  <1>. QED
    BY <1>1 DEF Late, Searching

\* A technique that keeps the models of the irredundant clauses.
LEMMA EquivalentRight ==
  ASSUME LifeInv, NEW technique, At(technique), technique \notin {"elim", "block"},
         PhaseUnchanged, UserUnchanged, NEW G, Rewrite(G), Rewritten(db, G)
  PROVE  LifeInv'
PROOF
  <1>1. solving /\ ~db.unsat /\ ~Late /\ ~(Searching')
    BY AtParts
  <1>. QED
    BY <1>1, RewrittenRight

\* Equivalent literals.
LEMMA DecomposeRight ==
  ASSUME LifeInv, Decompose
  PROVE  LifeInv'
PROOF
  <1> DEFINE d == decompose_round(db, ActiveLits, frozen)
  <1>0. /\ At("decompose") /\ PhaseUnchanged /\ UserUnchanged
        /\ Simplify(d.db, d.pushed, d.substituted, "substituted")
    BY DEF Decompose
  <1>1. solving /\ ~db.unsat /\ ~Late /\ ~(Searching')
    BY <1>0, AtParts
  <1>2. /\ db \in Formulas /\ status \in [Vars -> Flags]
        /\ \A l \in db.units : status[vidx(l)] = "fixed"
        /\ Uses(db, Own(status)) /\ Uses(db, Present(status))
    BY <1>1, LifeParts
  <1>3. /\ ActiveLits \in SUBSET Lits /\ \A l \in ActiveLits : -l \in ActiveLits
        /\ \A l \in db.units : l \notin ActiveLits
        /\ ActiveLits \subseteq Own(status) /\ ActiveLits \subseteq Present(status)
    <2>1. \A l \in Lits : l \in ActiveLits <=> status[vidx(l)] = "active"
      BY VariableOf DEF ActiveLits, active
    <2>2. ActiveLits \in SUBSET Lits
      BY DEF ActiveLits
    <2>3. \A l \in Lits : -l \in Lits /\ vidx(-l) = vidx(l)
      BY Literal, VariableOf
    <2>4. \A l \in ActiveLits : -l \in ActiveLits
      BY <2>1, <2>2, <2>3
    <2>5. \A l \in db.units : l \notin ActiveLits
      BY <1>2, <2>1, <2>2
    <2>6. ActiveLits \subseteq Own(status) /\ ActiveLits \subseteq Present(status)
      BY <2>1, <2>2 DEF Own, Present, GoneFlags
    <2>. QED
      BY <2>2, <2>4, <2>5, <2>6
  <1>d. d = decompose_round(db, ActiveLits, frozen)
    OBVIOUS
  <1> HIDE DEF d
  <1>4. Decomposed(db, ActiveLits, frozen, d)
    BY <1>2, <1>3, <1>d, DecomposeMeans
  <1> DEFINE G == d.db
             out == d.substituted
  <1>5. /\ Follows(db, G) /\ Pushes(db, d.pushed, frozen) /\ Kept(db, d.pushed, G)
        /\ out \subseteq {v \in Vars : v \in ActiveLits /\ v \notin frozen}
    BY <1>4 DEF Decomposed
  <1>6. G \in Formulas
    BY <1>5 DEF Follows
  <1>7. ASSUME ~G.unsat
        PROVE  /\ \A l \in G.units : vidx(l) \notin out
               /\ Uses(G, Own(status)) /\ Uses(G, Less(Own(status), out))
               /\ Uses(G, Less(Present(status), out)) /\ UsesIrr(G, Less(Present(status), out))
    <2>1. \A L : Uses(db, L) /\ ActiveLits \subseteq L => Uses(G, L) /\ Uses(G, {l \in L : vidx(l) \notin out})
      BY <1>4, <1>7 DEF Decomposed
    <2>2. Uses(G, Own(status)) /\ Uses(G, Less(Own(status), out)) /\ Uses(G, Less(Present(status), out))
      BY <1>2, <1>3, <2>1 DEF Less
    <2>3. \A l \in G.units : vidx(l) \notin out
      BY <2>2 DEF Uses, Less
    <2>. QED
      BY <2>2, <2>3 DEF Uses, UsesIrr, AllClauses
  <1> DEFINE why == "substituted"
  <1>8. why \in GoneFlags /\ out \in SUBSET Vars /\ out \cap frozen = {}
    BY <1>5 DEF GoneFlags
  <1>9. Simplify(G, d.pushed, out, why)
    BY <1>0, <1>d
  <1> HIDE DEF why, G, out
  <1>10. Fits(G, Marked(status, G, out, why), Late')
    BY <1>2, <1>6, <1>7, <1>8, FitsMarked
  <1>11. Fits(G, status', Late')
    BY <1>9, <1>10 DEF Simplify
  <1>. QED
    BY <1>0, <1>1, <1>5, <1>8, <1>9, <1>11, SimplifyRight

\* Hyper ternary resolution.
LEMMA TernaryRight ==
  ASSUME LifeInv, NEW pivot \in Lits, Ternary(pivot)
  PROVE  LifeInv'
PROOF
  <1>0. At("ternary") /\ PhaseUnchanged /\ UserUnchanged
    BY DEF Ternary
  <1>1. db \in Formulas
    BY DEF LifeInv, Typed
  <1>2. PICK cred \in BOOLEAN, dred \in BOOLEAN : \E c \in Of(db, cred) : \E d \in Of(db, dred) :
          /\ pivot \in c /\ -pivot \in d
          /\ Cardinality(c) = 3 /\ Cardinality(d) = 3
          /\ hyper_ternary_resolve(db, c, pivot, d)
          /\ Rewrite(ternary_lit(db, c, cred, pivot, d, dred))
    BY DEF Ternary
  <1>3. PICK c \in Of(db, cred), d \in Of(db, dred) :
          /\ pivot \in c /\ -pivot \in d
          /\ Cardinality(c) = 3 /\ Cardinality(d) = 3
          /\ hyper_ternary_resolve(db, c, pivot, d)
          /\ Rewrite(ternary_lit(db, c, cred, pivot, d, dred))
    BY <1>2
  <1>4. Rewritten(db, ternary_lit(db, c, cred, pivot, d, dred))
    BY <1>1, <1>3, TernaryMeans
  <1>. QED
    BY <1>0, <1>3, <1>4, EquivalentRight

\* Duplicate binary clauses.
LEMMA DeduplicateRight ==
  ASSUME LifeInv, NEW idx \in Vars, Deduplicate(idx)
  PROVE  LifeInv'
PROOF
  <1>0. /\ At("deduplicate") /\ PhaseUnchanged /\ UserUnchanged
        /\ Rewrite(mark_duplicated_binary_clauses_as_garbage(db, idx))
    BY DEF Deduplicate
  <1>1. db \in Formulas
    BY DEF LifeInv, Typed
  <1>2. Rewritten(db, mark_duplicated_binary_clauses_as_garbage(db, idx))
    BY <1>1, DeduplicateMeans
  <1>. QED
    BY <1>0, <1>2, EquivalentRight

\* Subsumption.
LEMMA SubsumeRight ==
  ASSUME LifeInv, Subsume
  PROVE  LifeInv'
PROOF
  <1>0. At("subsume") /\ PhaseUnchanged /\ UserUnchanged
    BY DEF Subsume
  <1>1. db \in Formulas
    BY DEF LifeInv, Typed
  <1>2. PICK cred \in BOOLEAN, dred \in BOOLEAN : \E c \in Of(db, cred) : \E d \in Of(db, dred) :
          /\ Connected(db, d, dred, c, cred) /\ subsume_check(d, c)
          /\ Rewrite(try_to_subsume_clause(db, d, dred, c, cred))
    BY DEF Subsume
  <1>3. PICK c \in Of(db, cred), d \in Of(db, dred) :
          /\ Connected(db, d, dred, c, cred) /\ subsume_check(d, c)
          /\ Rewrite(try_to_subsume_clause(db, d, dred, c, cred))
    BY <1>2
  <1>4. <<d, dred>> # <<c, cred>>
    BY <1>3 DEF Connected
  <1>5. Rewritten(db, try_to_subsume_clause(db, d, dred, c, cred))
    BY <1>1, <1>3, <1>4, SubsumeMeans
  <1>. QED
    BY <1>0, <1>3, <1>5, EquivalentRight

\* Transitive binary clauses and failed literals.
LEMMA TransredRight ==
  ASSUME LifeInv, Transred
  PROVE  LifeInv'
PROOF
  <1> DEFINE Dst(c, src) == CHOOSE l \in c : l # -src
  <1>0. At("transred") /\ PhaseUnchanged /\ UserUnchanged
    BY DEF Transred
  <1>1. db \in Formulas
    BY DEF LifeInv, Typed
  <1>2. PICK red \in BOOLEAN : \E c \in Of(db, red) :
          /\ Cardinality(c) = 2
          /\ \E src \in Negated(c) :
               \/ transitive(db, c, red, src, Dst(c, src)) /\ Rewrite(Deleted(db, c, red))
               \/ failed(db, c, red, src, Dst(c, src)) /\ Rewrite(propagate(assign_unit(db, -src)))
    BY DEF Transred
  <1>2b. PICK c \in Of(db, red) :
          /\ Cardinality(c) = 2
          /\ \E src \in Negated(c) :
               \/ transitive(db, c, red, src, Dst(c, src)) /\ Rewrite(Deleted(db, c, red))
               \/ failed(db, c, red, src, Dst(c, src)) /\ Rewrite(propagate(assign_unit(db, -src)))
    BY <1>2
  <1>3. PICK src \in Negated(c) :
          /\ Cardinality(c) = 2
          /\ \/ transitive(db, c, red, src, Dst(c, src)) /\ Rewrite(Deleted(db, c, red))
             \/ failed(db, c, red, src, Dst(c, src)) /\ Rewrite(propagate(assign_unit(db, -src)))
    BY <1>2b
  <1>4. /\ transitive(db, c, red, src, Dst(c, src)) => Rewritten(db, Deleted(db, c, red))
        /\ failed(db, c, red, src, Dst(c, src)) => Rewritten(db, propagate(assign_unit(db, -src)))
    BY <1>1, <1>3, TransredMeans
  <1> HIDE DEF Dst
  <1>5. PICK G \in {Deleted(db, c, red), propagate(assign_unit(db, -src))} : Rewrite(G) /\ Rewritten(db, G)
    BY <1>3, <1>4
  <1>. QED
    BY <1>0, <1>5, EquivalentRight

\* Instantiation.
LEMMA InstantiateRight ==
  ASSUME LifeInv, NEW lit \in Lits, Instantiate(lit)
  PROVE  LifeInv'
PROOF
  <1>0. At("instantiate") /\ PhaseUnchanged /\ UserUnchanged
    BY DEF Instantiate
  <1>1. db \in Formulas
    BY DEF LifeInv, Typed
  <1>2. PICK c \in collect_instantiation_candidates(db, lit) :
          ~inst_propagate(db, lit, c) /\ Rewrite(instantiate_candidate(db, lit, c))
    BY DEF Instantiate
  <1>3. c \in occs(db, lit) /\ ~fixedTrue(db, c)
    BY DEF collect_instantiation_candidates
  <1>4. Rewritten(db, instantiate_candidate(db, lit, c))
    BY <1>1, <1>2, <1>3, InstantiateMeans
  <1>. QED
    BY <1>0, <1>2, <1>4, EquivalentRight

-----------------------------------------------------------------------------
\* Bounded variable elimination.
LEMMA EliminateRight ==
  ASSUME LifeInv, NEW idx \in Vars, Eliminate(idx)
  PROVE  LifeInv'
PROOF
  <1> DEFINE e == try_to_eliminate_variable(db, idx)
             G == e.db
             out == IF e.eliminated THEN {idx} ELSE {}
             why == "eliminated"
  <1>0. /\ At("elim") /\ idx \in active \ frozen /\ PhaseUnchanged /\ UserUnchanged
        /\ Simplify(G, e.pushed, out, why)
    BY DEF Eliminate
  <1>1. solving /\ ~db.unsat /\ Late' /\ ~(Searching')
    BY <1>0, AtParts
  <1>2. /\ db \in Formulas /\ status \in [Vars -> Flags]
        /\ \A l \in db.units : status[vidx(l)] = "fixed"
        /\ Uses(db, Own(status)) /\ UsesIrr(db, Present(status))
    BY <1>1, LifeParts
  <1>e. e = try_to_eliminate_variable(db, idx)
    OBVIOUS
  <1>o. /\ out \in SUBSET Vars /\ out \cap frozen = {} /\ why \in GoneFlags
        /\ (e.eliminated => out = {idx}) /\ (~e.eliminated => out = {})
    BY <1>0 DEF GoneFlags
  <1>w. why # "substituted"
    OBVIOUS
  <1> HIDE DEF e
  <1>3. ElimDone(db, idx, frozen, e)
    BY <1>0, <1>2, <1>e, EliminateMeans
  <1> HIDE DEF out, why
  <1>4. Worked(db, G) /\ Pushes(db, e.pushed, frozen) /\ (~ElimBackward => Kept(db, e.pushed, G))
        /\ (e.eliminated /\ ~G.unsat => UsesIrr(G, Lits \ {idx, -idx}))
    BY <1>3 DEF ElimDone
  <1> HIDE DEF G
  <1>5. Follows(db, G) /\ G \in Formulas
    BY <1>4 DEF Worked, Follows
  <1>6. Uses(G, Own(status)) /\ UsesIrr(G, Present(status))
    <2>1. UsesIrr(db, Own(status))
      BY <1>2 DEF Uses, UsesIrr, AllClauses
    <2>2. UsesIrr(G, Own(status)) /\ UsesIrr(G, Present(status)) /\ G.red = db.red
      BY <1>2, <1>4, <2>1 DEF Worked
    <2>. QED
      BY <1>2, <2>2 DEF Uses, UsesIrr, AllClauses
  <1>7. ASSUME ~G.unsat
        PROVE  (\A l \in G.units : vidx(l) \notin out) /\ UsesIrr(G, Less(Present(status), out))
    <2>1. CASE ~e.eliminated
      BY <1>6, <1>o, <2>1 DEF UsesIrr, Less
    <2>2. CASE e.eliminated
      <3>1. UsesIrr(G, Lits \ {idx, -idx}) /\ out = {idx}
        BY <1>4, <1>7, <1>o, <2>2
      <3>2. \A l \in Lits \ {idx, -idx} : vidx(l) \notin out
        BY <3>1, VariableOf
      <3>. QED
        BY <1>6, <3>1, <3>2 DEF UsesIrr, Less
    <2>. QED
      BY <2>1, <2>2
  <1> DEFINE late == TRUE
  <1>8. out = {} \/ why \in GoneFlags
    BY <1>o
  <1>9. ~G.unsat => /\ \A l \in G.units : vidx(l) \notin out
                    /\ Uses(G, Own(status)) /\ (why = "substituted" => Uses(G, Less(Own(status), out)))
                    /\ UsesIrr(G, Less(Present(status), out))
    BY <1>6, <1>7, <1>w
  <1>l. late /\ late = Late'
    BY <1>1 DEF Late
  <1>10. ~G.unsat => late \/ Uses(G, Less(Present(status), out))
    BY <1>l
  <1> HIDE DEF late
  <1>11. Fits(G, Marked(status, G, out, why), late)
    BY <1>2, <1>5, <1>8, <1>9, <1>10, FitsMarked
  <1>12. Fits(G, status', Late')
    BY <1>0, <1>l, <1>11 DEF Simplify
  <1>. QED
    BY <1>0, <1>1, <1>4, <1>5, <1>8, <1>o, <1>12, SimplifyRight

\* Blocked clauses.
LEMMA BlockRight ==
  ASSUME LifeInv, NEW lit \in Lits, Block(lit)
  PROVE  LifeInv'
PROOF
  <1> DEFINE b == block_literal(db, lit)
             pure == occs(db, -lit) = {}
             G == b.db
             out == IF pure THEN {vidx(lit)} ELSE {}
             why == "pure"
  <1>0. /\ At("block") /\ vidx(lit) \in active \ frozen /\ PhaseUnchanged /\ UserUnchanged
        /\ Simplify(G, b.pushed, out, why)
    BY DEF Block
  <1>1. solving /\ ~db.unsat /\ Late' /\ ~(Searching')
    BY <1>0, AtParts
  <1>2. /\ db \in Formulas /\ status \in [Vars -> Flags]
        /\ \A l \in db.units : status[vidx(l)] = "fixed"
        /\ Uses(db, Own(status)) /\ UsesIrr(db, Present(status))
    BY <1>1, LifeParts
  <1>e. b = block_literal(db, lit)
    OBVIOUS
  <1>o. /\ out \in SUBSET Vars /\ out \cap frozen = {} /\ why \in GoneFlags
        /\ (pure => out = {vidx(lit)}) /\ (~pure => out = {})
    BY <1>0, VariableOf DEF GoneFlags
  <1>w. why # "substituted"
    OBVIOUS
  <1> HIDE DEF b
  <1>f. /\ \A l \in db.units : vidx(l) # vidx(lit)
        /\ {lit, -lit} \cap db.units = {}
        /\ \A l \in Lits : l # lit /\ l # -lit => vidx(l) # vidx(lit)
    <2>1. \A l \in db.units : vidx(l) # vidx(lit)
      BY <1>0, <1>2 DEF active
    <2>2. vidx(-lit) = vidx(lit)
      BY VariableOf
    <2>3. \A l \in Lits : l # lit /\ l # -lit => vidx(l) # vidx(lit)
      <3>1. \A l \in Lits : (l = vidx(l) \/ l = -vidx(l)) /\ l \in Int
        BY VariableOf, Literal
      <3>. QED
        BY <3>1
    <2>. QED
      BY <2>1, <2>2, <2>3
  <1>3. BlockDone(db, lit, frozen, b)
    BY <1>0, <1>2, <1>e, <1>f, BlockMeans
  <1> HIDE DEF out, why
  <1>4. Reduced(db, G) /\ Pushes(db, b.pushed, frozen) /\ Kept(db, b.pushed, G)
        /\ (pure => \A c \in G.irr : lit \notin c /\ -lit \notin c)
    BY <1>3 DEF BlockDone
  <1> HIDE DEF G, pure
  <1>5. Follows(db, G) /\ G \in Formulas /\ G.red = db.red /\ G.irr \subseteq db.irr /\ G.units = db.units
    BY <1>4 DEF Reduced, Follows
  <1>6. Uses(G, Own(status)) /\ UsesIrr(G, Present(status))
    BY <1>2, <1>5 DEF Uses, UsesIrr, AllClauses
  <1>7. (\A l \in G.units : vidx(l) \notin out) /\ UsesIrr(G, Less(Present(status), out))
    <2>1. CASE ~pure
      BY <1>6, <1>o, <2>1 DEF UsesIrr, Less
    <2>2. CASE pure
      <3>1. out = {vidx(lit)} /\ \A c \in G.irr : lit \notin c /\ -lit \notin c
        BY <1>4, <1>o, <2>2
      <3>2. \A l \in G.units : vidx(l) \notin out
        BY <1>5, <1>f, <3>1
      <3>3. \A c \in G.irr : \A l \in c : l \in Lits /\ vidx(l) \notin out
        BY <1>6, <1>f, <3>1 DEF UsesIrr, Present
      <3>. QED
        BY <1>6, <3>2, <3>3 DEF UsesIrr, Less
    <2>. QED
      BY <2>1, <2>2
  <1> DEFINE late == TRUE
  <1>8. out = {} \/ why \in GoneFlags
    BY <1>o
  <1>9. ~G.unsat => /\ \A l \in G.units : vidx(l) \notin out
                    /\ Uses(G, Own(status)) /\ (why = "substituted" => Uses(G, Less(Own(status), out)))
                    /\ UsesIrr(G, Less(Present(status), out))
    BY <1>6, <1>7, <1>w
  <1>l. late /\ late = Late'
    BY <1>1 DEF Late
  <1>10. ~G.unsat => late \/ Uses(G, Less(Present(status), out))
    BY <1>l
  <1> HIDE DEF late
  <1>11. Fits(G, Marked(status, G, out, why), late)
    BY <1>2, <1>5, <1>8, <1>9, <1>10, FitsMarked
  <1>12. Fits(G, status', Late')
    BY <1>0, <1>l, <1>11 DEF Simplify
  <1>. QED
    BY <1>0, <1>1, <1>4, <1>5, <1>8, <1>o, <1>12, SimplifyRight

\* A step that deletes clauses with an entry for each.
LEMMA LightenedRight ==
  ASSUME LifeInv, solving, ~db.unsat, ~Late, UserUnchanged, NEW p, Rewritten(db, p), NEW pushed, NEW G,
         Lightened(p, pushed, frozen, G), Simplify(G, pushed, {}, ""), Searching' => Propagated(G)
  PROVE  LifeInv'
PROOF
  <1> DEFINE out == {}
             why == ""
  <1>1. db \in Formulas /\ status \in [Vars -> Flags] /\ Uses(db, Present(status))
    BY LifeParts
  <1>2. /\ Follows(db, p) /\ p \in Formulas /\ DbModels(db) \subseteq DbModels(p)
        /\ Lean(p) \subseteq Lean(db) /\ Uses(p, Present(status))
    BY <1>1 DEF Rewritten, Follows
  <1>3. Reduced(p, G) /\ Pushes(p, pushed, frozen) /\ Kept(p, pushed, G)
    BY DEF Lightened
  <1>4. Pushes(db, pushed, frozen) /\ Kept(db, pushed, G)
    BY <1>2, <1>3, PushesBefore, KeptBefore
  <1>5. Follows(p, G) /\ G \in Formulas /\ Uses(G, Present(status))
    BY <1>2, <1>3 DEF Reduced, Follows, Uses, AllClauses
  <1>6. Follows(db, G)
    BY <1>1, <1>2, <1>5, FollowsTrans
  <1>7. Fits(G, Marked(status, G, {}, ""), Late')
    BY <1>1, <1>5, FitsUsing
  <1>8. Fits(G, status', Late')
    BY <1>7 DEF Simplify
  <1>9. out \cap frozen = {} /\ out \in SUBSET Vars /\ (out = {} \/ why \in GoneFlags)
        /\ Simplify(G, pushed, out, why)
    OBVIOUS
  <1> HIDE DEF out, why
  <1>. QED
    BY <1>4, <1>6, <1>8, <1>9, SimplifyRight

\* Covered clauses.
LEMMA CoverRight ==
  ASSUME LifeInv, NEW c \in db.irr, Cover(c)
  PROVE  LifeInv'
PROOF
  <1> DEFINE r == cover_clause(db, c, frozen)
  <1>0. At("cover") /\ PhaseUnchanged /\ UserUnchanged
    BY DEF Cover
  <1>s. Simplify(r.db, r.pushed, {}, "")
    BY DEF Cover
  <1>e. r = cover_clause(db, c, frozen)
    OBVIOUS
  <1> HIDE DEF r
  <1>1. solving /\ ~db.unsat /\ ~Late /\ ~(Searching')
    BY <1>0, AtParts
  <1>2. db \in Formulas
    BY <1>1, LifeParts
  <1>3. Lightened(db, r.pushed, frozen, r.db)
    BY <1>2, <1>e, CoverMeans
  <1>4. Rewritten(db, db)
    BY <1>2, RewrittenSame
  <1>. QED
    BY <1>0, <1>s, <1>1, <1>3, <1>4, LightenedRight

\* Globally blocked clauses.
LEMMA ConditionRight ==
  ASSUME LifeInv, NEW alpha \in Assignments, NEW c \in db.irr, Condition(alpha, c)
  PROVE  LifeInv'
PROOF
  <1> DEFINE p == propagate(db)
             free == {l \in alpha : vidx(l) \in active \ frozen /\ {l, -l} \cap p.units = {}}
             k == condition_candidate(p, free, c)
  <1>0. /\ Searching /\ solving /\ ~db.unsat /\ UserUnchanged
        /\ ~p.unsat /\ c \in p.irr /\ Simplify(k.db, k.pushed, {}, "")
    BY DEF Condition, Searching
  <1>1. db \in Formulas /\ ~Late
    BY <1>0, LifeParts
  <1>p. p = propagate(db)
    OBVIOUS
  <1>f. /\ free \in SUBSET Lits /\ free \cap Negated(free) = {}
        /\ \A l \in free : l \notin p.units /\ -l \notin p.units /\ vidx(l) \notin frozen
    <2>1. alpha \in SUBSET Lits /\ \A l \in alpha : -l \notin alpha
      BY AssignmentIff
    <2>2. \A l \in Lits : -(-l) = l
      BY Literal
    <2>. QED
      BY <2>1, <2>2 DEF Negated
  <1>k. k = condition_candidate(p, free, c)
    OBVIOUS
  <1> HIDE DEF p, free, k
  <1>2. Rewritten(db, p) /\ Propagated(p)
    BY <1>0, <1>1, <1>p, PropagateMeans
  <1>3. p \in Formulas
    BY <1>2 DEF Rewritten, Follows
  <1>4. Lightened(p, k.pushed, frozen, k.db)
    BY <1>0, <1>3, <1>f, <1>k, ConditionMeans
  <1>5. Propagated(k.db)
    <2> DEFINE G == k.db
    <2>1. G.red = p.red /\ G.irr \subseteq p.irr /\ G.units = p.units
      BY <1>4 DEF Lightened, Reduced
    <2> HIDE DEF G
    <2>2. AllClauses(G) \subseteq AllClauses(p)
      BY <2>1 DEF AllClauses
    <2>3. Propagated(G)
      BY <1>2, <2>1, <2>2, PropagatedFewer
    <2>. QED
      BY <2>3 DEF G
  <1>. QED
    BY <1>0, <1>1, <1>2, <1>4, <1>5, LightenedRight

-----------------------------------------------------------------------------
(***************************************************************************)
(* Steps of the interface.                                                 *)
(***************************************************************************)
\* A variable that is gone was gone before the flags were renewed.
LEMMA GoneBefore ==
  ASSUME NEW st \in [Vars -> Flags], NEW m \in [Vars -> Flags],
         \A v \in Vars : m[v] \in {"active", st[v]},
         NEW v \in Vars, NEW w, w \in {"fixed", m[v]}, w \in {"eliminated", "substituted", "pure"}
  PROVE  w = st[v] /\ m[v] = w
OBVIOUS

\* The stack stays right when the user adds clauses.
LEMMA StackLater ==
  ASSUME NEW C, NEW D, Models(D) \subseteq Models(C), NEW stack, StackRight(C, stack)
  PROVE  StackRight(D, stack)
BY DEF StackRight

\* The first clauses of a session.
LEMMA InitRight ==
  ASSUME Init
  PROVE  LifeInv
PROOF
  <1> DEFINE none == <<>>
             nothing == {}
             late == FALSE
             st0 == [v \in Vars |-> IF \E c \in original : {v, -v} \cap c # {} THEN "active" ELSE "unused"]
             F == Folded(add_new_original_clause, EmptyDb, Listed(original))
  <1>0. /\ \E s \in Sessions : original \in s[1] /\ session = s[2]
        /\ db = F /\ status = Marked(st0, F, {}, "")
        /\ frozentab = session.frozen /\ assumptions = {} /\ extension = none /\ tainted = {}
        /\ todo = none /\ solving = FALSE
    BY Zenon DEF Init
  <1>n. none \in Seq(Entries) /\ Len(none) = 0 /\ Places(none) = {}
    <2>1. none \in Seq(Entries) /\ Len(none) = 0
      BY ONLY EmptySeq
    <2>. QED
      BY ONLY <2>1 DEF Places
  <1>1. /\ session \in {s[2] : s \in Sessions} /\ original \in SUBSET Clauses
        /\ frozentab \in SUBSET Vars
    BY <1>0, SessionsAssumption DEF Clauses
  <1>2. Made(original, F)
    BY <1>1, MadeRight
  <1>3. /\ st0 \in [Vars -> Flags]
        /\ \A v \in Vars : st0[v] \in {"active", "unused"}
    BY DEF Flags
  <1> HIDE DEF F, st0
  <1>4. /\ F \in Formulas /\ Models(original) \subseteq DbModels(F) /\ Lean(F) \subseteq Models(original)
        /\ \A L : (\A c \in original : c \subseteq L) => Uses(F, L)
    BY <1>2 DEF Made
  <1>5. Uses(F, Present(st0))
    <2>1. Lits \subseteq Present(st0)
      BY <1>3, VariableOf DEF Present, GoneFlags
    <2>. QED
      BY <1>1, <1>4, <2>1 DEF Clauses
  <1>6. Fits(F, Marked(st0, F, {}, ""), late)
    <2> HIDE DEF late
    <2>. QED
      BY <1>3, <1>4, <1>5, FitsUsing
  <1>7. Late = FALSE
    BY <1>0 DEF Late
  <1>8. Fits(db, status, Late)
    BY <1>0, <1>6, <1>7
  <1> DEFINE out == {}
             why == ""
  <1>9. /\ status \in [Vars -> Flags]
        /\ \A l \in Lits : status[vidx(l)] \in {"fixed", st0[vidx(l)]}
    <2>1. status = Marked(st0, F, out, why) /\ (out = {} \/ why \in Flags) /\ \A l : l \notin out
      BY <1>0
    <2> HIDE DEF out, why
    <2>. QED
      BY <1>3, <2>1, MarkedRight
  <1> HIDE DEF none
  <1>10. WitnessLiterals(extension) = {}
    BY <1>0, <1>n, WitnessMember DEF Places
  <1>11. Typed
    BY <1>0, <1>1, <1>4, <1>9, <1>n DEF Typed
  <1>12. Implied
    BY <1>0, <1>4, <1>n DEF Implied, StackRight
  <1>13. Untouched
    <2>1. \A v \in Vars : v \in Lits /\ vidx(v) = v
      BY VariableOf, NAssumption DEF Lits
    <2>2. \A v \in Vars : status[v] \in {"fixed", "active", "unused"}
      BY <1>3, <1>9, <2>1
    <2>3. Gone = {}
      BY <2>2 DEF Gone
    <2>. QED
      BY <1>0, <2>3 DEF Untouched, FrozenStay
  <1>14. Orderly
    BY <1>0 DEF Orderly, Searching, none
  <1>15. Layering
    <2>1. Lean(F) \in SUBSET Assignments
      BY DEF Lean
    <2>2. Layered(Models(original), none, tainted, Lean(F))
      BY <1>4, <2>1, LayeredEmpty DEF none
    <2>. QED
      BY <1>0, <2>2 DEF Layering
  <1>. QED
    BY <1>8, <1>11, <1>12, <1>13, <1>14, <1>15 DEF LifeInv

\* What the user uses is not gone.
LEMMA Idle ==
  ASSUME LifeInv, ~solving, PhaseUnchanged, ~solving'
  PROVE  todo = <<>> /\ todo' = <<>> /\ Late = FALSE /\ Late' = FALSE /\ Orderly'
PROOF
  <1>1. todo = <<>> /\ todo' = <<>>
    BY DEF LifeInv, Orderly, PhaseUnchanged
  <1>. QED
    BY <1>1 DEF Late, Orderly, Searching

\* Assuming, freezing and melting: the literals L are used again.
LEMMA UsedRight ==
  ASSUME LifeInv, ~solving, NEW L \in SUBSET Lits, PhaseUnchanged, solving' = solving,
         tainted' = internalize(L), status' = Reactivated(status, L),
         session' = session, original' = original, db' = db, extension' = extension,
         frozentab' \in SUBSET Vars, assumptions' \in SUBSET Lits,
         \A v \in frozen' : v \in frozen \/ \E l \in L : v = vidx(l),
         \A l \in assumptions' : l \in assumptions \/ l \in L
  PROVE  LifeInv'
PROOF
  <1>0. /\ Typed /\ Implied /\ Untouched /\ Layering
        /\ Late = FALSE /\ Late' = FALSE /\ Orderly' /\ Fits(db, status, FALSE)
    <2>1. Late = FALSE /\ Late' = FALSE /\ Orderly'
      BY Idle
    <2>. QED
      BY <2>1 DEF LifeInv
  <1>1. db \in Formulas /\ status \in [Vars -> Flags] /\ tainted \in SUBSET Lits /\ extension \in Seq(Entries)
    BY <1>0 DEF Typed
  <1>2. /\ status' \in [Vars -> Flags]
        /\ \A v \in Vars : status'[v] \in {"active", status[v]}
        /\ \A l \in Lits : l \in L => status'[vidx(l)] \in {"active", "fixed"}
    BY <1>1, ReactivatedRight
  <1>3. Fits(db, status', FALSE)
    BY <1>0, <1>1, FitsReactivated
  <1>4. tainted' \in SUBSET Lits /\ tainted \subseteq tainted'
        /\ \A l \in L : -l \in WitnessLiterals(extension) => l \in tainted'
    <2>1. tainted' = tainted \cup (L \cap Negated(WitnessLiterals(extension)))
      BY DEF internalize
    <2>2. \A l \in L : -(-l) = l
      BY Literal
    <2>. QED
      BY <1>1, <2>1, <2>2 DEF Negated
  <1>5. Typed'
    BY <1>0, <1>2, <1>4 DEF Typed
  <1>6. Implied'
    BY <1>0 DEF Implied
  <1>7. FrozenStay'
    <2> SUFFICES ASSUME NEW v \in Vars, v \in frozen', v \in Gone' PROVE FALSE
      BY DEF FrozenStay, Gone
    <2>1. status'[v] \in {"eliminated", "substituted", "pure"}
      BY DEF Gone
    <2>2. status'[v] = status[v]
      BY <1>2, <2>1
    <2>3. v \in Gone
      BY <2>1, <2>2 DEF Gone
    <2>4. v \notin frozen
      BY <1>0, <2>3 DEF Untouched, FrozenStay
    <2>5. PICK l \in L : v = vidx(l)
      BY <2>4
    <2>. QED
      BY <1>2, <2>1, <2>5
  <1>8. Untouched'
    <2>1. \A l \in assumptions' : -l \in WitnessLiterals(extension) => l \in tainted'
      BY <1>0, <1>4 DEF Untouched
    <2>. QED
      BY <1>7, <2>1 DEF Untouched
  <1>9. Layering'
    <2> SUFFICES ASSUME ~ElimBackward PROVE Layered(Models(original), extension, tainted', Lean(db))
      BY DEF Layering
    <2>1. Layered(Models(original), extension, tainted, Lean(db))
      BY <1>0 DEF Layering
    <2>. QED
      BY <1>4, <2>1, LayeredWeak
  <1>. QED
    BY <1>0, <1>3, <1>5, <1>6, <1>8, <1>9 DEF LifeInv

\* An assumption; its variable, if it was gone, is active again.
LEMMA AssumeRight ==
  ASSUME LifeInv, NEW l \in session.assumable, assume(l)
  PROVE  LifeInv'
PROOF
  <1> DEFINE L == {l}
  <1>1. /\ ~solving /\ PhaseUnchanged /\ solving' = solving
        /\ tainted' = internalize(L) /\ status' = Reactivated(status, L)
        /\ session' = session /\ original' = original /\ db' = db /\ extension' = extension
        /\ frozentab' = frozentab /\ assumptions' = assumptions \cup L
    BY DEF assume
  <1>2. frozentab \in SUBSET Vars /\ assumptions \in SUBSET Lits /\ session \in {s[2] : s \in Sessions}
    BY DEF LifeInv, Typed
  <1>3. L \in SUBSET Lits
    BY <1>2, SessionsAssumption
  <1>4. \A v \in frozen' : v \in frozen \/ \E k \in L : v = vidx(k)
    BY <1>1 DEF frozen
  <1>5. frozentab' \in SUBSET Vars /\ assumptions' \in SUBSET Lits
        /\ \A k \in assumptions' : k \in assumptions \/ k \in L
    BY <1>1, <1>2, <1>3
  <1> HIDE DEF L
  <1>. QED
    BY <1>1, <1>3, <1>4, <1>5, UsedRight

\* Freezing and melting.
LEMMA FreezeRight ==
  ASSUME LifeInv, NEW v \in session.freezable, freeze(v) \/ melt(v)
  PROVE  LifeInv'
PROOF
  <1> DEFINE L == {v}
  <1>1. /\ ~solving /\ PhaseUnchanged /\ solving' = solving
        /\ tainted' = internalize(L) /\ status' = Reactivated(status, L)
        /\ session' = session /\ original' = original /\ db' = db /\ extension' = extension
        /\ frozentab' \subseteq frozentab \cup {v} /\ assumptions' = assumptions
    BY DEF freeze, melt
  <1>2. frozentab \in SUBSET Vars /\ assumptions \in SUBSET Lits /\ session \in {s[2] : s \in Sessions}
    BY DEF LifeInv, Typed
  <1>3. v \in Vars
    BY <1>2, SessionsAssumption
  <1>4. v \in Lits /\ vidx(v) = v
    <2>1. v \in Lits
      BY <1>3 DEF Lits
    <2>. QED
      BY <1>3, <2>1, VariableOf
  <1>5. \A w \in frozen' : w \in frozen \/ \E k \in L : w = vidx(k)
    BY <1>1, <1>4 DEF frozen
  <1>6. frozentab' \in SUBSET Vars /\ assumptions' \in SUBSET Lits /\ L \in SUBSET Lits
        /\ \A k \in assumptions' : k \in assumptions \/ k \in L
    BY <1>1, <1>2, <1>3, <1>4
  <1> HIDE DEF L
  <1>. QED
    BY <1>1, <1>5, <1>6, UsedRight

\* A clause of the user.
LEMMA AddRight ==
  ASSUME LifeInv, NEW c \in session.addable, add(c)
  PROVE  LifeInv'
PROOF
  <1> DEFINE G == add_new_original_clause(db, c)
             m == Reactivated(status, c)
             W == c \cap Negated(WitnessLiterals(extension))
  <1>1. /\ ~solving /\ ~(solving') /\ PhaseUnchanged
        /\ original' = original \cup {c} /\ db' = G
        /\ tainted' = tainted \cup W /\ status' = Marked(m, G, {}, "")
        /\ session' = session /\ frozentab' = frozentab /\ assumptions' = assumptions
        /\ extension' = extension
    BY DEF add, internalize
  <1>2. /\ Typed /\ Implied /\ Untouched /\ Layering /\ Orderly' /\ Late' = FALSE /\ Fits(db, status, FALSE)
    <2>1. Late = FALSE /\ Late' = FALSE /\ Orderly'
      BY <1>1, Idle
    <2>. QED
      BY <2>1 DEF LifeInv
  <1>3. /\ session \in {s[2] : s \in Sessions} /\ db \in Formulas /\ status \in [Vars -> Flags]
        /\ original \in SUBSET Clauses /\ tainted \in SUBSET Lits /\ extension \in Seq(Entries)
    BY <1>2 DEF Typed
  <1>4. c \in SUBSET Lits
    BY <1>3, SessionsAssumption
  <1>m. m = Reactivated(status, c)
    OBVIOUS
  <1> HIDE DEF m
  <1>5. Adds(db, c, G)
    BY <1>3, <1>4, AddMeans
  <1> HIDE DEF G
  <1>6. /\ m \in [Vars -> Flags] /\ \A v \in Vars : m[v] \in {"active", status[v]}
    BY <1>3, <1>m, ReactivatedRight
  <1>7. /\ ~db.unsat => Uses(db, Present(m)) /\ c \subseteq Present(m)
    <2>1. /\ ~db.unsat => Uses(db, Present(m))
          /\ c \cap Lits \subseteq Present(m)
      BY <1>2, <1>3, <1>m, FitsReactivated
    <2>. QED
      BY <1>4, <2>1
  <1>8. G \in Formulas /\ (~G.unsat => Uses(G, Present(m)))
    BY <1>5, <1>7 DEF Adds
  <1>9. Fits(G, Marked(m, G, {}, ""), Late')
    BY <1>6, <1>8, FitsUsing
  <1> DEFINE out == {}
             why == ""
  <1>10. /\ status' \in [Vars -> Flags]
         /\ \A l \in Lits : status'[vidx(l)] \in {"fixed", m[vidx(l)]}
    <2>1. status' = Marked(m, G, out, why) /\ (out = {} \/ why \in Flags) /\ \A l : l \notin out
      BY <1>1
    <2> HIDE DEF out, why
    <2>. QED
      BY <1>6, <2>1, MarkedRight
  <1>11. Gone' \subseteq Gone
    <2>1. \A v \in Vars : v \in Lits /\ vidx(v) = v
      BY VariableOf, NAssumption DEF Lits
    <2>2. \A v \in Vars : status'[v] \in {"fixed", "active", status[v]}
      BY <1>6, <1>10, <2>1
    <2>. QED
      BY <2>2 DEF Gone
  <1>12. Typed'
    BY <1>1, <1>2, <1>4, <1>8, <1>10 DEF Typed, Clauses
  <1>13. /\ Models(original') \subseteq Models(original)
         /\ \A A \in Models(original') : c \cap A # {}
         /\ Where(Models(original), c) \subseteq Models(original')
    BY <1>1 DEF Models, Satisfies, Where
  <1>14. Implied'
    <2>1. Models(original') \subseteq DbModels(G)
      BY <1>2, <1>5, <1>13 DEF Implied, Adds
    <2>2. StackRight(original', extension)
      BY <1>2, <1>13, StackLater DEF Implied
    <2>. QED
      BY <1>1, <2>1, <2>2 DEF Implied
  <1>15. Untouched'
    <2>1. frozen' = frozen
      BY <1>1 DEF frozen
    <2>. QED
      BY <1>1, <1>2, <1>11, <2>1 DEF Untouched, FrozenStay
  <1>16. Layering'
    <2> SUFFICES ASSUME ~ElimBackward PROVE Layered(Models(original'), extension, tainted \cup W, Lean(G))
      BY <1>1 DEF Layering
    <2>1. Layered(Models(original), extension, tainted, Lean(db))
      BY <1>2 DEF Layering
    <2>2. Layered(Where(Models(original), c), extension, tainted \cup W, Where(Lean(db), c))
      BY <1>3, <1>4, <2>1, LayeredAdd
    <2>3. Lean(G) \subseteq Where(Lean(db), c)
      BY <1>5 DEF Adds
    <2> DEFINE more == tainted \cup W
               K0   == Models(original')
               M0   == Where(Models(original), c)
               M    == Where(Lean(db), c)
               K    == Lean(G)
    <2>a. Layered(M0, extension, more, M)
      BY <2>2
    <2>b. M0 \subseteq K0
      BY ONLY <1>13
    <2>c. K \subseteq M
      BY <2>3
    <2> HIDE DEF more, K0, M0, M, K
    <2>5. Layered(K0, extension, more, K)
      BY ONLY <2>a, <2>b, <2>c, LayeredWeak
    <2>. QED
      BY <2>5 DEF more, K0, K
  <1>17. Fits(db', status', Late')
    BY <1>1, <1>9
  <1>. QED
    BY <1>2, <1>12, <1>14, <1>15, <1>16, <1>17 DEF LifeInv

\* The end of solve.
LEMMA ReturnRight ==
  ASSUME LifeInv, Return
  PROVE  LifeInv'
PROOF
  <1>1. /\ solving /\ (todo = <<>> \/ db.unsat) /\ solving' = FALSE /\ todo' = <<>> /\ assumptions' = {}
        /\ UNCHANGED <<session, original, db, status, frozentab, extension, tainted>>
    BY DEF Return
  <1>2. Typed /\ Implied /\ Untouched /\ Layering /\ Fits(db, status, Late)
    BY DEF LifeInv
  <1>3. Typed' /\ Implied' /\ Layering' /\ Orderly'
    BY <1>1, <1>2 DEF Typed, Implied, Layering, Orderly, Searching
  <1>4. Untouched'
    BY <1>1, <1>2 DEF Untouched, FrozenStay, Gone, frozen
  <1>5. Fits(db', status', Late')
    BY <1>1, <1>2 DEF Fits, Late
  <1>. QED
    BY <1>3, <1>4, <1>5 DEF LifeInv

-----------------------------------------------------------------------------
\* solve, when no clause is restored.
LEMMA PlainSolveRight ==
  ASSUME LifeInv, ~solving, solving', todo' = todo, tainted = {} \/ db'.unsat,
         NEW p, p = propagate(db), db' = p,
         extension' = extension, tainted' = tainted, status' = Marked(status, p, {}, ""),
         UNCHANGED <<session, original, frozentab, assumptions>>
  PROVE  LifeInv'
PROOF
  <1>1. /\ Typed /\ Implied /\ Untouched /\ Layering /\ todo = <<>>
        /\ Late = FALSE /\ Late' = FALSE /\ Fits(db, status, FALSE)
    <2>1. todo = <<>>
      BY DEF LifeInv, Orderly
    <2>2. Late = FALSE /\ Late' = FALSE
      BY <2>1 DEF Late
    <2>. QED
      BY <2>1, <2>2 DEF LifeInv
  <1>2. db \in Formulas /\ status \in [Vars -> Flags] /\ extension \in Seq(Entries)
    BY <1>1 DEF Typed
  <1>3. Rewritten(db, p) /\ (~p.unsat => Propagated(p))
    BY <1>2, PropagateMeans
  <1>4. Follows(db, p) /\ p \in Formulas /\ Lean(p) \subseteq Lean(db)
        /\ DbModels(db) \subseteq DbModels(p) /\ \A L : Uses(db, L) => Uses(p, L)
    BY <1>3 DEF Rewritten, Follows
  <1>5. Fits(p, Marked(status, p, {}, ""), Late')
    BY <1>1, <1>2, <1>4, FitsRewritten
  <1> DEFINE out == {}
             why == ""
  <1>6. /\ status' \in [Vars -> Flags]
        /\ \A l \in Lits : status'[vidx(l)] \in {"fixed", status[vidx(l)]}
    <2>1. status' = Marked(status, p, out, why) /\ (out = {} \/ why \in Flags) /\ \A l : l \notin out
      OBVIOUS
    <2> HIDE DEF out, why
    <2>. QED
      BY ONLY <1>2, <2>1, MarkedRight
  <1>7. Gone' \subseteq Gone
    <2>1. \A v \in Vars : v \in Lits /\ vidx(v) = v
      BY VariableOf, NAssumption DEF Lits
    <2>2. \A v \in Vars : status'[v] \in {"fixed", status[v]}
      BY <1>6, <2>1
    <2>. QED
      BY <2>2 DEF Gone
  <1>8. Typed'
    BY <1>1, <1>4, <1>6 DEF Typed
  <1>9. Implied'
    BY <1>1, <1>4 DEF Implied
  <1>10. Untouched'
    BY <1>1, <1>7 DEF Untouched, FrozenStay, frozen
  <1>11. Orderly'
    BY <1>1, <1>3 DEF Orderly, Searching
  <1>12. Layering'
    <2> SUFFICES ASSUME ~ElimBackward PROVE Layered(Models(original), extension, tainted, Lean(p))
      BY DEF Layering
    <2>1. Layered(Models(original), extension, tainted, Lean(db))
      BY <1>1 DEF Layering
    <2>. QED
      BY <1>4, <2>1, LayeredWeak
  <1>. QED
    BY <1>5, <1>8, <1>9, <1>10, <1>11, <1>12 DEF LifeInv

\* solve, when clauses of the stack are restored.
LEMMA RestoringSolveRight ==
  ASSUME LifeInv, ~solving, solving', todo' = todo,
         NEW p, p = propagate(db), ~p.unsat, NEW r, r = restore_clauses(p, extension, tainted, FALSE),
         NEW F, F = propagate(r.db), db' = F,
         extension' = r.stack, tainted' = {},
         status' = Marked(Reactivated(status, r.lits), F, {}, ""),
         UNCHANGED <<session, original, frozentab, assumptions>>
  PROVE  LifeInv'
PROOF
  <1> DEFINE m == Reactivated(status, r.lits)
  <1>1. /\ Typed /\ Implied /\ Untouched /\ Layering /\ todo = <<>>
        /\ Late = FALSE /\ Late' = FALSE /\ Fits(db, status, FALSE)
    <2>1. todo = <<>>
      BY DEF LifeInv, Orderly
    <2>2. Late = FALSE /\ Late' = FALSE
      BY <2>1 DEF Late
    <2>. QED
      BY <2>1, <2>2 DEF LifeInv
  <1>2. db \in Formulas /\ status \in [Vars -> Flags] /\ extension \in Seq(Entries)
        /\ tainted \in SUBSET Lits /\ assumptions \in SUBSET Lits
    BY <1>1 DEF Typed
  <1>3. Follows(db, p) /\ p \in Formulas /\ Lean(p) \subseteq Lean(db) /\ ~db.unsat
        /\ DbModels(db) \subseteq DbModels(p) /\ \A L : Uses(db, L) => Uses(p, L)
    <2>1. Rewritten(db, p)
      BY <1>2, PropagateMeans
    <2>. QED
      BY <2>1 DEF Rewritten, Follows
  <1> DEFINE M0 == IF ElimBackward THEN Assignments ELSE Models(original)
  <1>4. Layered(M0, extension, tainted, Lean(p))
    <2>1. CASE ElimBackward
      BY <1>2, <2>1, AnyLayers
    <2>2. CASE ~ElimBackward
      <3>1. Layered(Models(original), extension, tainted, Lean(db))
        BY <1>1, <2>2 DEF Layering
      <3>2. Layered(Models(original), extension, tainted, Lean(p))
        BY <1>3, <3>1, LayeredWeak
      <3>. QED
        BY <2>2, <3>2
    <2>. QED
      BY <2>1, <2>2
  <1> HIDE DEF M0
  <1>5. Midway(p, extension, tainted, r) /\ Layered(M0, r.stack, {}, Lean(r.db))
    BY <1>2, <1>3, <1>4, RestoredRight DEF RestoredTo
  <1>6. /\ r.db \in Formulas /\ r.stack \in Seq(Entries) /\ r.lits \in SUBSET Lits
        /\ \A A \in DbModels(p) :
             (\A k \in Places(extension) : extension[k].clause \cap A # {}) => A \in DbModels(r.db)
        /\ \A q \in Places(r.stack) : /\ r.stack[q].witness \cap Negated(tainted) = {}
                                      /\ \E k \in Places(extension) : r.stack[q] = extension[k]
        /\ \A L : Uses(p, L) => Uses(r.db, L \cup r.lits)
    <2>1. r \in Passes
      BY <1>5 DEF Midway
    <2>2. r.stack \in Seq(Entries) /\ r.lits \in SUBSET Lits
      BY ONLY <2>1 DEF Passes
    <2>. QED
      BY <1>5, <2>2 DEF Midway
  <1>7. Follows(r.db, F) /\ F \in Formulas /\ Lean(F) \subseteq Lean(r.db) /\ (~F.unsat => Propagated(F))
        /\ DbModels(r.db) \subseteq DbModels(F) /\ \A L : Uses(r.db, L) => Uses(F, L)
    <2>1. Rewritten(r.db, F) /\ (~F.unsat => Propagated(F))
      BY <1>6, PropagateMeans
    <2>. QED
      BY <2>1 DEF Rewritten, Follows
  <1>8. /\ m \in [Vars -> Flags] /\ \A v \in Vars : m[v] \in {"active", status[v]}
        /\ Uses(db, Present(m)) /\ r.lits \subseteq Present(m)
    <2>1. /\ m \in [Vars -> Flags] /\ \A v \in Vars : m[v] \in {"active", status[v]}
      BY <1>2, ReactivatedRight
    <2>2. Uses(db, Present(m)) /\ r.lits \cap Lits \subseteq Present(m)
      BY <1>1, <1>2, <1>3, FitsReactivated
    <2>. QED
      BY <1>6, <2>1, <2>2
  <1>m. status' = Marked(m, F, {}, "")
    OBVIOUS
  <1> HIDE DEF m
  <1>9. Uses(F, Present(m))
    <2>1. Present(m) \cup r.lits = Present(m)
      BY <1>8
    <2>. QED
      BY <1>3, <1>6, <1>7, <1>8, <2>1
  <1>10. Fits(db', status', Late')
    <2>1. Fits(F, Marked(m, F, {}, ""), Late')
      BY <1>7, <1>8, <1>9, FitsUsing
    <2>. QED
      BY <1>m, <2>1
  <1> DEFINE out == {}
             why == ""
  <1>11. /\ status' \in [Vars -> Flags]
         /\ \A l \in Lits : status'[vidx(l)] \in {"fixed", m[vidx(l)]}
    <2>1. status' = Marked(m, F, out, why) /\ (out = {} \/ why \in Flags) /\ \A l : l \notin out
      BY <1>m
    <2> HIDE DEF out, why
    <2>. QED
      BY ONLY <1>8, <2>1, MarkedRight
  <1>12. Gone' \subseteq Gone
    <2>1. \A v \in Vars : v \in Lits /\ vidx(v) = v
      BY VariableOf, NAssumption DEF Lits
    <2>2. \A v \in Vars : status'[v] \in {"fixed", "active", status[v]}
      BY <1>8, <1>11, <2>1
    <2>. QED
      BY <2>2 DEF Gone
  <1>13. Typed'
    <2>1. tainted' \in SUBSET Lits
      OBVIOUS
    <2>. QED
      BY <1>1, <1>6, <1>7, <1>11, <2>1 DEF Typed
  <1>14. Implied'
    <2>1. Models(original) \subseteq DbModels(F)
      BY <1>1, <1>3, <1>6, <1>7 DEF Implied, StackRight
    <2> DEFINE s == r.stack
    <2>a. StackRight(original, extension)
      BY <1>1 DEF Implied
    <2>b. \A q \in Places(s) : \E k \in Places(extension) : s[q] = extension[k]
      BY <1>6
    <2> HIDE DEF s
    <2>c. StackRight(original, s)
      BY ONLY <2>a, <2>b DEF StackRight
    <2>2. StackRight(original, r.stack)
      BY <2>c DEF s
    <2>. QED
      BY <2>1, <2>2 DEF Implied
  <1>15. Untouched'
    <2>1. FrozenStay'
      BY <1>1, <1>12 DEF Untouched, FrozenStay, frozen
    <2>2. ASSUME NEW l \in assumptions, -l \in WitnessLiterals(r.stack) PROVE FALSE
      <3>1. PICK q \in Places(r.stack) : -l \in r.stack[q].witness
        BY <1>6, <2>2, WitnessMember DEF Places
      <3>2. -l \in WitnessLiterals(extension)
        BY <1>2, <1>6, <3>1, WitnessMember DEF Places
      <3>3. l \in tainted
        BY <1>1, <2>2, <3>2 DEF Untouched
      <3>4. -l \in Negated(tainted)
        BY <3>3 DEF Negated
      <3>. QED
        BY <1>6, <3>1, <3>4
    <2>. QED
      BY <2>1, <2>2 DEF Untouched
  <1>16. Orderly'
    BY <1>7 DEF Orderly, Searching
  <1>17. Layering'
    <2> SUFFICES ASSUME ~ElimBackward PROVE Layered(Models(original), r.stack, {}, Lean(F))
      BY DEF Layering
    <2> DEFINE K0 == Models(original)
               none == {}
               K == Lean(r.db)
               M == Lean(F)
               s == r.stack
    <2>1. Layered(K0, s, none, K) /\ K0 \subseteq K0 /\ M \subseteq K /\ none \subseteq none
      BY <1>5, <1>7 DEF M0
    <2> HIDE DEF K0, none, K, M, s
    <2>2. Layered(K0, s, none, M)
      BY ONLY <2>1, LayeredWeak
    <2>. QED
      BY <2>2 DEF K0, none, M, s
  <1>. QED
    BY <1>10, <1>13, <1>14, <1>15, <1>16, <1>17 DEF LifeInv

\* solve: clauses with tainted witnesses come back first.
LEMMA SolveRight ==
  ASSUME LifeInv, solve
  PROVE  LifeInv'
PROOF
  <1> DEFINE p == propagate(db)
             r == restore_clauses(p, extension, tainted, FALSE)
             restored == tainted # {} /\ ~p.unsat
             F == IF restored THEN propagate(r.db) ELSE p
  <1>1. /\ ~solving /\ solving' = TRUE /\ todo' = todo
        /\ UNCHANGED <<session, original, frozentab, assumptions>>
        /\ db' = F
        /\ extension' = IF restored THEN r.stack ELSE extension
        /\ tainted' = IF restored THEN {} ELSE tainted
        /\ status' = Marked(IF restored THEN Reactivated(status, r.lits) ELSE status, F, {}, "")
    BY Zenon DEF solve
  <1>2. p = propagate(db) /\ r = restore_clauses(p, extension, tainted, FALSE)
    OBVIOUS
  <1> HIDE DEF p, r
  <1>3. CASE restored
    <2> DEFINE Q == propagate(r.db)
    <2>1. /\ ~p.unsat /\ Q = propagate(r.db) /\ db' = Q
          /\ extension' = r.stack /\ tainted' = {}
          /\ status' = Marked(Reactivated(status, r.lits), Q, {}, "")
      BY <1>1, <1>3
    <2> HIDE DEF Q
    <2>. QED
      BY <1>1, <1>2, <2>1, RestoringSolveRight
  <1>4. CASE ~restored
    <2>1. /\ tainted = {} \/ db'.unsat
          /\ db' = p /\ extension' = extension /\ tainted' = tainted
          /\ status' = Marked(status, p, {}, "")
      BY <1>1, <1>4
    <2>. QED
      BY <1>1, <1>2, <2>1, PlainSolveRight
  <1>. QED
    BY <1>3, <1>4

-----------------------------------------------------------------------------
(***************************************************************************)
(* The invariant and what it gives.                                        *)
(***************************************************************************)
\* Nothing happens.
LEMMA NothingRight ==
  ASSUME LifeInv, UNCHANGED vars
  PROVE  LifeInv'
PROOF
  <1>1. /\ UNCHANGED <<session, original, db, status, frozentab, assumptions, extension>>
        /\ UNCHANGED <<tainted, todo, solving>>
    BY DEF vars
  <1>2. /\ Typed /\ Implied /\ Fits(db, status, Late) /\ Untouched /\ Orderly /\ Layering
    BY DEF LifeInv
  <1>3. Typed' /\ Implied' /\ Layering'
    BY <1>1, <1>2 DEF Typed, Implied, Layering
  <1>4. Late' = Late /\ Orderly' /\ Untouched'
    BY <1>1, <1>2 DEF Late, Orderly, Searching, Untouched, FrozenStay, Gone, frozen
  <1>5. Fits(db', status', Late')
    BY <1>1, <1>2, <1>4
  <1>. QED
    BY <1>3, <1>4, <1>5 DEF LifeInv

\* Every step keeps the invariant.
LEMMA LifeStep ==
  ASSUME LifeInv, [Next]_vars
  PROVE  LifeInv'
PROOF
  <1>1. ASSUME NEW c \in session.addable, add(c) PROVE LifeInv'
    BY <1>1, AddRight
  <1>2. ASSUME NEW l \in session.assumable, assume(l) PROVE LifeInv'
    BY <1>2, AssumeRight
  <1>3. ASSUME NEW v \in session.freezable, freeze(v) \/ melt(v) PROVE LifeInv'
    BY <1>3, FreezeRight
  <1>4. CASE solve
    BY <1>4, SolveRight
  <1>5. CASE Return
    BY <1>5, ReturnRight
  <1>6. ASSUME NEW c \in session.learnable, Learn(c) PROVE LifeInv'
    BY <1>6, LearnRight
  <1>7. ASSUME NEW c \in db.red, Reduce(c) PROVE LifeInv'
    BY <1>7, ReduceRight
  <1>8. CASE Collect
    BY <1>8, CollectRight
  <1>9. CASE probe \/ subsume \/ elim
    BY <1>9, StartPhaseRight DEF probe, subsume, elim
  <1>10. CASE NextTechnique
    BY <1>10, NextTechniqueRight
  <1>11. CASE ContinueElim
    BY <1>11, ContinueElimRight
  <1>12. CASE Decompose
    BY <1>12, DecomposeRight
  <1>13. CASE Subsume
    BY <1>13, SubsumeRight
  <1>14. CASE Transred
    BY <1>14, TransredRight
  <1>15. ASSUME NEW l \in Lits, Ternary(l) PROVE LifeInv'
    BY <1>15, TernaryRight
  <1>16. ASSUME NEW l \in Lits, Instantiate(l) PROVE LifeInv'
    BY <1>16, InstantiateRight
  <1>17. ASSUME NEW l \in Lits, Block(l) PROVE LifeInv'
    BY <1>17, BlockRight
  <1>18. ASSUME NEW v \in Vars, Deduplicate(v) PROVE LifeInv'
    BY <1>18, DeduplicateRight
  <1>19. ASSUME NEW v \in Vars, Eliminate(v) PROVE LifeInv'
    BY <1>19, EliminateRight
  <1>20. ASSUME NEW c \in db.irr, Cover(c) PROVE LifeInv'
    BY <1>20, CoverRight
  <1>21. ASSUME NEW alpha \in Assignments, NEW c \in db.irr, Condition(alpha, c) PROVE LifeInv'
    BY <1>21, ConditionRight
  <1>22. CASE UNCHANGED vars
    BY <1>22, NothingRight
  <1>. QED
    BY <1>1, <1>2, <1>3, <1>4, <1>5, <1>6, <1>7, <1>8, <1>9, <1>10, <1>11, <1>12, <1>13, <1>14,
       <1>15, <1>16, <1>17, <1>18, <1>19, <1>20, <1>21, <1>22 DEF Next

\* The invariant of the formula's life holds.
THEOREM FormulaLife == Spec => []LifeInv
PROOF
  <1>1. Init => LifeInv
    BY InitRight
  <1>2. LifeInv /\ [Next]_vars => LifeInv'
    BY LifeStep
  <1>. QED
    BY <1>1, <1>2, PTL DEF Spec

\* The invariant gives the type.
LEMMA LifeTyped ==
  ASSUME LifeInv
  PROVE  TypeOK
PROOF
  <1>1. db \in Formulas /\ status \in [Vars -> Flags] /\ extension \in Seq(Entries)
        /\ StackRight(original, extension)
    BY DEF LifeInv, Typed, Implied
  <1>2. db.units \subseteq Lits /\ db.unsat \in BOOLEAN
        /\ \A c \in AllClauses(db) : IsClause(c) /\ Cardinality(c) >= 2
    BY <1>1, FormulaParts
  <1>3. \A v \in Vars : status[v] \in {"unused", "active", "fixed", "eliminated", "substituted", "pure"}
    BY <1>1 DEF Flags, GoneFlags
  <1>4. ASSUME NEW e \in ToSet(extension) PROVE IsClause(e.clause) /\ e.witness \cap e.clause # {}
    <2>1. PICK q \in Places(extension) : extension[q] = e
      BY <1>1 DEF ToSet, Places
    <2>2. e \in Entries
      BY <1>1, <2>1 DEF Places
    <2>. QED
      BY <1>1, <2>1, <2>2 DEF StackRight, Entries
  <1>. QED
    BY <1>2, <1>3, <1>4 DEF TypeOK

\* The invariant says what follows from the user's formula.
LEMMA LifeImplied ==
  ASSUME LifeInv
  PROVE  OriginalImplies
PROOF
  <1>1. Models(original) \subseteq DbModels(db) /\ StackRight(original, extension)
        /\ extension \in Seq(Entries)
    BY DEF LifeInv, Implied, Typed
  <1>2. ASSUME NEW A \in Models(original)
        PROVE  /\ ~db.unsat /\ \A c \in AllClauses(db) \cup UnitClauses(db) : c \cap A # {}
               /\ \A c \in StackClauses(extension) : c \cap A # {}
    <2>1. \A c \in Meaning(db) : c \cap A # {}
      BY <1>1, <1>2 DEF DbModels, Models, Satisfies
    <2>2. ~db.unsat /\ \A c \in AllClauses(db) \cup UnitClauses(db) : c \cap A # {}
      <3>1. db.unsat => {} \in Meaning(db)
        BY DEF Meaning
      <3>2. {} \cap A = {}
        OBVIOUS
      <3>3. \A c \in AllClauses(db) \cup UnitClauses(db) : c \in Meaning(db)
        BY DEF Meaning
      <3>. QED
        BY <2>1, <3>1, <3>2, <3>3
    <2>3. ASSUME NEW c \in StackClauses(extension) PROVE c \cap A # {}
      <3>1. PICK q \in Places(extension) : c = extension[q].clause
        BY <1>1 DEF StackClauses, ToSet, Places
      <3>. QED
        BY <1>1, <1>2, <3>1 DEF StackRight
    <2>. QED
      BY <2>2, <2>3
  <1>. QED
    BY <1>2 DEF OriginalImplies, Entails, Satisfies

\* What satisfies the irredundant clauses and the units.
LEMMA LeanModels ==
  ASSUME NEW F, ~F.unsat
  PROVE  Models(F.irr \cup UnitClauses(F)) = Lean(F)
PROOF
  <1>1. ASSUME NEW A
        PROVE  (\A c \in UnitClauses(F) : c \cap A # {}) <=> F.units \subseteq A
    <2>1. \A l : {l} \cap A # {} <=> l \in A
      OBVIOUS
    <2>2. \A c : c \in UnitClauses(F) <=> \E l \in F.units : c = {l}
      BY DEF UnitClauses
    <2>. QED
      BY <2>1, <2>2
  <1>. QED
    BY <1>1 DEF Models, Satisfies, Lean

\* The invariant says which variables may be gone.
LEMMA LifeVariables ==
  ASSUME LifeInv
  PROVE  VariablesRight
PROOF
  <1>1. Typed /\ Untouched /\ Orderly
    BY DEF LifeInv
  <1>2. FrozenStay
    BY <1>1 DEF Untouched
  <1>3. GoneVariablesLeft
    <2> SUFFICES ASSUME Searching
                 PROVE  /\ \A c \in AllClauses(db) : \A l \in c : vidx(l) \notin Gone
                        /\ \A l \in db.units : vidx(l) \notin Gone
      BY DEF GoneVariablesLeft
    <2>1. ~db.unsat
      BY DEF Searching
    <2>2. Uses(db, Present(status))
      BY <2>1, LifeParts
    <2>3. \A l \in Present(status) : vidx(l) \notin Gone
      BY DEF Present, Gone, GoneFlags
    <2>. QED
      BY <2>2, <2>3 DEF Uses
  <1>4. AssumptionsKept
    <2> SUFFICES ASSUME solving, ~db.unsat, NEW A \in Models(db.irr \cup UnitClauses(db)),
                        assumptions \subseteq A
                 PROVE  assumptions \subseteq extend(extension, A)
      BY DEF AssumptionsKept
    <2>1. A \in SUBSET Lits
      BY AssignmentIff DEF Models
    <2>2. \A l \in assumptions : -l \notin WitnessLiterals(extension)
      BY <1>1 DEF Untouched, Orderly
    <2>3. extension \in Seq(Entries)
      BY <1>1 DEF Typed
    <2>. QED
      BY <2>1, <2>2, <2>3, ExtendKeeps
  <1>. QED
    BY <1>2, <1>3, <1>4 DEF VariablesRight

\* The layers are what reconstruction needs.
LEMMA LifeReconstructs ==
  ASSUME LifeInv, ~ElimBackward
  PROVE  Reconstructs
PROOF
  <1> SUFFICES ASSUME solving, ~db.unsat, NEW A \in Models(db.irr \cup UnitClauses(db))
               PROVE  Satisfies(extend(extension, A), original)
    BY DEF Reconstructs
  <1>1. Layered(Models(original), extension, tainted, Lean(db)) /\ tainted = {}
        /\ extension \in Seq(Entries)
    BY DEF LifeInv, Layering, Orderly, Typed
  <1>2. A \in Lean(db)
    BY LeanModels
  <1> DEFINE M0 == Models(original)
             M  == Lean(db)
  <1>3. Layered(M0, extension, {}, M) /\ A \in M
    BY <1>1, <1>2
  <1> HIDE DEF M0, M
  <1>4. extend(extension, A) \in M0
    BY <1>1, <1>3, LayeredExtend
  <1>. QED
    BY <1>4 DEF M0, Models

\* Clauses of the database have two or more literals, fixed ones aside; the
\* entries of the stack have a witness in their clause.
THEOREM Typing == Spec => []TypeOK
PROOF
  <1>1. LifeInv => TypeOK
    BY LifeTyped
  <1>. QED
    BY <1>1, FormulaLife, PTL

\* Everything the solver derives, keeps or may restore follows from what the
\* user has added, so an answer "unsatisfiable" is right.
THEOREM Derived == Spec => []OriginalImplies
PROOF
  <1>1. LifeInv => OriginalImplies
    BY LifeImplied
  <1>. QED
    BY <1>1, FormulaLife, PTL

\* No clause that the search sees has a variable that is gone, frozen and
\* assumed variables stay, and reconstruction leaves assumptions alone.
THEOREM VariablesStay == Spec => []VariablesRight
PROOF
  <1>1. LifeInv => VariablesRight
    BY LifeVariables
  <1>. QED
    BY <1>1, FormulaLife, PTL

\* Without backward subsumption in elimination, extending any model of what is
\* left gives a model of everything the user has added.
THEOREM ModelsReconstructed == ASSUME ~ElimBackward PROVE Spec => []Reconstructs
PROOF
  <1>1. LifeInv => Reconstructs
    BY LifeReconstructs
  <1>. QED
    BY <1>1, FormulaLife, PTL
=============================================================================
