-------------------------- MODULE CadicalTheorems --------------------------
(***************************************************************************)
(* What the operators on the formula of CaDiCaL do to its models: adding   *)
(* clauses, propagating, subsumption, instantiation, removing blocked and  *)
(* covered clauses, replacing equivalent literals, reconstructing the      *)
(* values of what was removed and restoring it, for every number of        *)
(* variables and every formula.                                            *)
(***************************************************************************)
EXTENDS CadicalElim, CadicalBlock, CadicalSubsume, SequenceTheorems, FiniteSetTheorems,
        WellFoundedInduction, TLAPS

Clauses == SUBSET Lits
Dbs == [irr : SUBSET Clauses, red : SUBSET Clauses, units : SUBSET Lits, unsat : BOOLEAN]

\* An entry of the stack has a witness in its clause.
Entries == {e \in [witness : SUBSET Lits, clause : Clauses] :
              e.witness \cap e.clause # {} /\ e.witness \cap Negated(e.witness) = {}}

\* What a database stands for, and what a stack adds to it.
Meaning(F)  == AllClauses(F) \cup UnitClauses(F) \cup (IF F.unsat THEN {{}} ELSE {})
DbModels(F) == Models(Meaning(F))

-----------------------------------------------------------------------------
(***************************************************************************)
(* Loops with a counter.                                                   *)
(***************************************************************************)
\* Induction over the naturals, for a set in the place of a predicate.
LEMMA NatInd ==
  ASSUME NEW Good, 0 \in Good, \A n \in Nat : n \in Good => n + 1 \in Good
  PROVE  Nat \subseteq Good
PROOF
  <1> DEFINE Bad == Nat \ Good
             Less == {p \in Nat \X Nat : p[1] < p[2]}
  <1>1. IsWellFoundedOn(Less, Nat)
    BY NatLessThanWellFounded DEF OpToRel
  <1>2. SUFFICES ASSUME Bad # {} PROVE FALSE
    OBVIOUS
  <1>3. PICK n \in Bad : \A m \in Bad : <<m, n>> \notin Less
    BY <1>1, <1>2, WFMin
  <1>4. n # 0 /\ n - 1 \in Nat
    OBVIOUS
  <1>5. n - 1 \in Good
    <2>1. <<n - 1, n>> \in Less
      BY <1>4
    <2>. QED
      BY <1>3, <1>4, <2>1
  <1>. QED
    BY <1>4, <1>5

\* The members of a list after a whole list was appended.
LEMMA SetOfConcat ==
  ASSUME NEW T, NEW s \in Seq(T), NEW t \in Seq(T)
  PROVE  /\ s \o t \in Seq(T)
         /\ ToSet(s \o t) = ToSet(s) \cup ToSet(t)
PROOF
  <1>1. /\ s \o t \in Seq(T)
        /\ DOMAIN (s \o t) = 1..(Len(s) + Len(t))
        /\ DOMAIN s = 1..Len(s) /\ DOMAIN t = 1..Len(t)
        /\ Len(s) \in Nat /\ Len(t) \in Nat
        /\ \A i \in 1..(Len(s) + Len(t)) :
             (s \o t)[i] = IF i <= Len(s) THEN s[i] ELSE t[i - Len(s)]
    BY ConcatProperties, LenProperties
  <1>2. ASSUME NEW i \in 1..Len(s) PROVE s[i] \in ToSet(s \o t)
    <2>1. i \in 1..(Len(s) + Len(t)) /\ (s \o t)[i] = s[i]
      BY <1>1
    <2>. QED
      BY <1>1, <2>1 DEF ToSet
  <1>3. ASSUME NEW i \in 1..Len(t) PROVE t[i] \in ToSet(s \o t)
    <2>1. Len(s) + i \in 1..(Len(s) + Len(t)) /\ (s \o t)[Len(s) + i] = t[i]
      BY <1>1
    <2>. QED
      BY <1>1, <2>1 DEF ToSet
  <1>4. ASSUME NEW i \in 1..(Len(s) + Len(t)) PROVE (s \o t)[i] \in ToSet(s) \cup ToSet(t)
    <2>1. CASE i \in 1..Len(s)
      BY <1>1, <2>1 DEF ToSet
    <2>2. CASE i \notin 1..Len(s)
      <3>1. i - Len(s) \in 1..Len(t) /\ (s \o t)[i] = t[i - Len(s)]
        BY <1>1, <2>2
      <3>. QED
        BY <1>1, <3>1 DEF ToSet
    <2>. QED
      BY <2>1, <2>2
  <1>5. ToSet(s \o t) \subseteq ToSet(s) \cup ToSet(t)
    BY <1>1, <1>4 DEF ToSet
  <1>6. ToSet(s) \cup ToSet(t) \subseteq ToSet(s \o t)
    BY <1>1, <1>2, <1>3 DEF ToSet
  <1>. QED
    BY <1>1, <1>5, <1>6

\* The states of a loop over 1..n whose turn i makes step[<<i, y>>] of y.
IsRun(T, x, step, n, f) ==
  f \in [0..n -> T] /\ f[0] = x /\ \A i \in 1..n : f[i] = step[<<i, f[i - 1]>>]

\* A loop has a run.
LEMMA LoopRuns ==
  ASSUME NEW T, NEW x \in T, NEW step \in [Nat \X T -> T], NEW n \in Nat
  PROVE  \E f : IsRun(T, x, step, n, f)
PROOF
  <1> DEFINE Runs(m, f) == f[0] = x /\ \A i \in 1..m : f[i] = step[<<i, f[i - 1]>>]
             Good == {m \in Nat : \E f \in [0..m -> T] : Runs(m, f)}
  <1>1. 0 \in Good
    <2>1. [i \in 0..0 |-> x] \in [0..0 -> T] /\ Runs(0, [i \in 0..0 |-> x])
      OBVIOUS
    <2>. QED
      BY <2>1
  <1>2. ASSUME NEW m \in Nat, m \in Good PROVE m + 1 \in Good
    <2>1. PICK f \in [0..m -> T] : Runs(m, f)
      BY <1>2
    <2> DEFINE g == [i \in 0..(m + 1) |-> IF i = m + 1 THEN step[<<i, f[m]>>] ELSE f[i]]
    <2>2. f[m] \in T
      OBVIOUS
    <2>3. g \in [0..(m + 1) -> T]
      BY <2>2
    <2>4. g[0] = x /\ g[m + 1] = step[<<m + 1, g[m]>>]
      BY <2>1
    <2>5. \A i \in 1..m : g[i] = f[i] /\ g[i - 1] = f[i - 1]
      OBVIOUS
    <2>6. \A i \in 1..(m + 1) : g[i] = step[<<i, g[i - 1]>>]
      <3> SUFFICES ASSUME NEW i \in 1..(m + 1) PROVE g[i] = step[<<i, g[i - 1]>>]
        OBVIOUS
      <3> HIDE DEF g
      <3>1. CASE i = m + 1
        BY <2>4, <3>1
      <3>2. CASE i \in 1..m
        BY <2>1, <2>5, <3>2
      <3>. QED
        BY <3>1, <3>2
    <2> HIDE DEF g
    <2>. QED
      BY <2>3, <2>4, <2>6
  <1> HIDE DEF Good
  <1>3. Nat \subseteq Good
    BY <1>1, <1>2, NatInd
  <1>. QED
    BY <1>3 DEF Good, IsRun

-----------------------------------------------------------------------------
(***************************************************************************)
(* Literals and assignments.                                               *)
(***************************************************************************)
\* A literal is a number other than zero, and so is its negation.
LEMMA Literal ==
  ASSUME NEW l \in Lits
  PROVE  l \in Int /\ l # 0 /\ -l \in Lits /\ -(-l) = l /\ -l # l
BY NAssumption DEF Lits, Vars

\* A set of literals negated.
LEMMA NegatedMember ==
  ASSUME NEW S \in SUBSET Lits, NEW l \in Lits
  PROVE  l \in Negated(S) <=> -l \in S
PROOF
  <1>1. l \in Negated(S) => -l \in S
    BY Literal DEF Negated
  <1>2. -l \in S => l \in Negated(S)
    BY Literal DEF Negated
  <1>. QED
    BY <1>1, <1>2

\* Negating stays among the literals.
LEMMA NegatedType ==
  ASSUME NEW S \in SUBSET Lits
  PROVE  Negated(S) \in SUBSET Lits
BY Literal DEF Negated

\* An assignment has one of each two opposite literals.
LEMMA AssignmentIff ==
  ASSUME NEW A
  PROVE  A \in Assignments <=> A \in SUBSET Lits /\ \A l \in Lits : l \in A <=> -l \notin A
PROOF
  <1> DEFINE Chosen(f) == {IF f[v] THEN v ELSE -v : v \in Vars}
  <1>0. \A v \in Vars : v \in Int /\ v > 0
    BY NAssumption DEF Vars
  <1>1. ASSUME NEW f \in [Vars -> BOOLEAN]
        PROVE  Chosen(f) \in SUBSET Lits /\ \A l \in Lits : l \in Chosen(f) <=> -l \notin Chosen(f)
    <2>1. Chosen(f) \in SUBSET Lits
      BY DEF Lits
    <2>2. \A v \in Vars : (v \in Chosen(f) <=> f[v]) /\ (-v \in Chosen(f) <=> ~f[v])
      BY <1>0
    <2>3. ASSUME NEW l \in Lits PROVE l \in Chosen(f) <=> -l \notin Chosen(f)
      <3>1. PICK v \in Vars : l = v \/ l = -v
        BY DEF Lits
      <3>2. -(-v) = v
        BY <1>0
      <3> HIDE DEF Chosen
      <3>. QED
        BY <2>2, <3>1, <3>2
    <2>. QED
      BY <2>1, <2>3
  <1>2. ASSUME A \in SUBSET Lits, \A l \in Lits : l \in A <=> -l \notin A
        PROVE  \E f \in [Vars -> BOOLEAN] : A = Chosen(f)
    <2> DEFINE f == [v \in Vars |-> v \in A]
    <2>1. f \in [Vars -> BOOLEAN]
      OBVIOUS
    <2>2. \A v \in Vars : v \in Lits /\ f[v] = (v \in A) /\ (~f[v] <=> -v \in A)
      BY <1>2 DEF Lits
    <2>3. Chosen(f) \subseteq A
      <3> HIDE DEF f
      <3>. QED
        BY <2>2
    <2>4. ASSUME NEW l \in A PROVE l \in Chosen(f)
      <3>1. PICK v \in Vars : l = v \/ l = -v
        BY <1>2 DEF Lits
      <3>2. (f[v] /\ l = v) \/ (~f[v] /\ l = -v)
        BY <1>2, <2>2, <3>1
      <3> HIDE DEF f
      <3>. QED
        BY <3>2
    <2>. QED
      BY <2>1, <2>3, <2>4
  <1>3. A \in Assignments <=> \E f \in [Vars -> BOOLEAN] : A = Chosen(f)
    BY DEF Assignments
  <1> HIDE DEF Chosen
  <1>. QED
    BY <1>1, <1>2, <1>3

\* Making the literals of a witness true gives an assignment again.
LEMMA FlippedAssignment ==
  ASSUME NEW A \in Assignments, NEW e \in Entries
  PROVE  Flipped(e, A) \in Assignments
PROOF
  <1>1. e.witness \in SUBSET Lits /\ e.witness \cap Negated(e.witness) = {}
    BY DEF Entries
  <1>2. A \in SUBSET Lits /\ \A l \in Lits : l \in A <=> -l \notin A
    BY AssignmentIff
  <1>3. Flipped(e, A) \in SUBSET Lits
    BY <1>1, <1>2 DEF Flipped
  <1>4. ASSUME NEW l \in Lits PROVE l \in Flipped(e, A) <=> -l \notin Flipped(e, A)
    <2>1. -l \in Lits /\ -(-l) = l
      BY Literal
    <2>2. (l \in Negated(e.witness) <=> -l \in e.witness) /\ (-l \in Negated(e.witness) <=> l \in e.witness)
      BY <1>1, <2>1, NegatedMember
    <2>. QED
      BY <1>1, <1>2, <2>1, <2>2 DEF Flipped
  <1>. QED
    BY <1>3, <1>4, AssignmentIff

-----------------------------------------------------------------------------
(***************************************************************************)
(* Formulas and their models.                                              *)
(***************************************************************************)
\* The models of a database.
LEMMA DbModel ==
  ASSUME NEW F \in Dbs, NEW A
  PROVE  A \in DbModels(F) <=>
           /\ A \in Assignments /\ ~F.unsat
           /\ F.units \subseteq A
           /\ \A c \in F.irr \cup F.red : c \cap A # {}
PROOF
  <1>1. Satisfies(A, UnitClauses(F)) <=> F.units \subseteq A
    <2>1. \A l \in F.units : {l} \cap A # {} <=> l \in A
      OBVIOUS
    <2>2. Satisfies(A, UnitClauses(F)) <=> \A l \in F.units : {l} \cap A # {}
      BY DEF Satisfies, UnitClauses
    <2>. QED
      BY <2>1, <2>2
  <1>2. A \in DbModels(F) <=> A \in Assignments /\ \A c \in Meaning(F) : c \cap A # {}
    BY DEF DbModels, Models, Satisfies
  <1>3. (\A c \in Meaning(F) : c \cap A # {}) <=>
          /\ \A c \in F.irr \cup F.red : c \cap A # {}
          /\ Satisfies(A, UnitClauses(F))
          /\ ~F.unsat
    <2> DEFINE M(C) == \A c \in C : c \cap A # {}
    <2>1. \A C, D : M(C \cup D) <=> M(C) /\ M(D)
      OBVIOUS
    <2>2. M(IF F.unsat THEN {{}} ELSE {}) <=> ~F.unsat
      OBVIOUS
    <2>3. Satisfies(A, UnitClauses(F)) <=> M(UnitClauses(F))
      BY DEF Satisfies
    <2> HIDE DEF M
    <2>4. M(Meaning(F)) <=> M(F.irr \cup F.red) /\ M(UnitClauses(F)) /\ ~F.unsat
      BY <2>1, <2>2 DEF Meaning, AllClauses
    <2>. QED
      BY <2>3, <2>4 DEF M
  <1>. QED
    BY <1>1, <1>2, <1>3

-----------------------------------------------------------------------------
(***************************************************************************)
(* Propagation and new clauses.                                            *)
(***************************************************************************)
\* What holds at the start of a loop and is kept by its turns holds in all
\* its states.
LEMMA RunInd ==
  ASSUME NEW n \in Nat, NEW f, NEW Good, f[0] \in Good,
         \A i \in 1..n : f[i - 1] \in Good => f[i] \in Good
  PROVE  \A i \in 0..n : f[i] \in Good
PROOF
  <1> DEFINE Right == {i \in Nat : i \in 0..n => f[i] \in Good}
  <1>1. 0 \in Right
    OBVIOUS
  <1>2. ASSUME NEW i \in Nat, i \in Right PROVE i + 1 \in Right
    <2> SUFFICES ASSUME i + 1 \in 0..n PROVE f[i + 1] \in Good
      OBVIOUS
    <2>1. i \in 0..n /\ i + 1 \in 1..n /\ (i + 1) - 1 = i
      OBVIOUS
    <2>. QED
      BY <1>2, <2>1
  <1> HIDE DEF Right
  <1>3. Nat \subseteq Right
    BY <1>1, <1>2, NatInd
  <1>. QED
    BY <1>3 DEF Right

\* The rounds of propagation.
Round(C, U) == U \cup Forced(C, U)

\* Propagation is what its last round has reached.
LEMMA PropagationRounds ==
  ASSUME NEW C, NEW U \in SUBSET Lits
  PROVE  \E f : /\ f[0] = U
                /\ \A i \in 1..N : f[i] = Round(C, f[i - 1])
                /\ Propagation(C, U) = f[N]
PROOF
  <1> DEFINE Body(g, n) == IF n = 0 THEN U
                           ELSE LET before == g[n - 1] IN before \cup Forced(C, before)
             chosen == CHOOSE g : g = [n \in 0..N |-> Body(g, n)]
             step == [p \in Nat \X SUBSET Lits |-> p[2] \cup Forced(C, p[2])]
  <1>0. N \in Nat
    BY NAssumption
  <1>1. step \in [Nat \X SUBSET Lits -> SUBSET Lits]
    BY DEF Forced
  <1>2. PICK f : IsRun(SUBSET Lits, U, step, N, f)
    <2> HIDE DEF step
    <2>. QED
      BY <1>0, <1>1, LoopRuns
  <1>3. \A i \in 0..N : f[i] = Body(f, i)
    <2> SUFFICES ASSUME NEW i \in 0..N PROVE f[i] = Body(f, i)
      OBVIOUS
    <2>1. CASE i = 0
      BY <1>2, <2>1 DEF IsRun
    <2>2. CASE i # 0
      <3>1. i \in 1..N /\ i - 1 \in 0..N
        BY <1>0, <2>2
      <3>2. <<i, f[i - 1]>> \in Nat \X SUBSET Lits
        BY <1>0, <1>2, <3>1 DEF IsRun
      <3>3. step[<<i, f[i - 1]>>] = f[i - 1] \cup Forced(C, f[i - 1])
        BY <3>2
      <3>. QED
        BY <1>2, <2>2, <3>1, <3>3 DEF IsRun
    <2>. QED
      BY <2>1, <2>2
  <1>4. f = [n \in 0..N |-> Body(f, n)]
    <2> HIDE DEF Body
    <2>. QED
      BY <1>2, <1>3 DEF IsRun
  <1>5. chosen = [n \in 0..N |-> Body(chosen, n)]
    <2> HIDE DEF Body
    <2>. QED
      BY <1>4
  <1>6. \A i \in 0..N : chosen[i] = Body(chosen, i)
    <2> HIDE DEF Body, chosen
    <2>. QED
      BY <1>5
  <1>7. Propagation(C, U) = chosen[N]
    BY DEF Propagation
  <1> HIDE DEF chosen
  <1>8. chosen[0] = U
    <2>1. Body(chosen, 0) = U
      OBVIOUS
    <2> HIDE DEF Body
    <2>. QED
      BY <1>0, <1>6, <2>1
  <1>9. ASSUME NEW i \in 1..N PROVE chosen[i] = Round(C, chosen[i - 1])
    <2>1. i \in 0..N /\ i # 0
      BY <1>0
    <2>. QED
      BY <1>6, <2>1 DEF Round
  <1>. QED
    BY <1>7, <1>8, <1>9

\* A literal forced by clauses and literals an assignment satisfies is true
\* in it.
LEMMA ForcedTrue ==
  ASSUME NEW C \in SUBSET Clauses, NEW A \in Assignments, \A c \in C : c \cap A # {},
         NEW U \in SUBSET A
  PROVE  Forced(C, U) \subseteq A
PROOF
  <1>1. A \in SUBSET Lits /\ \A l \in Lits : l \in A <=> -l \notin A
    BY AssignmentIff
  <1>2. SUFFICES ASSUME NEW l \in Forced(C, U) PROVE l \in A
    OBVIOUS
  <1>3. PICK c \in C : l \in c /\ c \ {l} \subseteq Negated(U)
    BY DEF Forced
  <1>4. PICK k \in c : k \in A
    OBVIOUS
  <1>5. k \notin Negated(U)
    <2>1. k \in Lits /\ U \in SUBSET Lits
      BY <1>1, <1>4
    <2>2. k \in Negated(U) => -k \in A
      BY <2>1, NegatedMember
    <2>. QED
      BY <1>1, <1>4, <2>1, <2>2
  <1>. QED
    BY <1>3, <1>4, <1>5

\* Propagation starts from its literals and finds true ones.
LEMMA PropagationTrue ==
  ASSUME NEW C \in SUBSET Clauses, NEW U \in SUBSET Lits
  PROVE  /\ Propagation(C, U) \in SUBSET Lits
         /\ U \subseteq Propagation(C, U)
         /\ \A A \in Assignments : U \subseteq A /\ (\A c \in C : c \cap A # {})
              => Propagation(C, U) \subseteq A
PROOF
  <1>0. N \in Nat
    BY NAssumption
  <1>1. PICK f : /\ f[0] = U
                 /\ \A i \in 1..N : f[i] = Round(C, f[i - 1])
                 /\ Propagation(C, U) = f[N]
    BY PropagationRounds
  <1> DEFINE Good == {V \in SUBSET Lits : U \subseteq V}
  <1>2. \A i \in 0..N : f[i] \in Good
    <2>1. f[0] \in Good
      BY <1>1
    <2>2. \A V \in Good : Round(C, V) \in Good
      BY DEF Round, Forced
    <2>3. \A i \in 1..N : f[i - 1] \in Good => f[i] \in Good
      <3> HIDE DEF Good
      <3>. QED
        BY <1>1, <2>2
    <2> HIDE DEF Good
    <2>. QED
      BY <1>0, <2>1, <2>3, RunInd
  <1>3. ASSUME NEW A \in Assignments, U \subseteq A, \A c \in C : c \cap A # {}
        PROVE  f[N] \subseteq A
    <2>1. f[0] \in SUBSET A
      BY <1>1, <1>3
    <2>2. \A V \in SUBSET A : Round(C, V) \in SUBSET A
      BY <1>3, ForcedTrue DEF Round
    <2>3. \A i \in 1..N : f[i - 1] \in SUBSET A => f[i] \in SUBSET A
      BY <1>1, <2>2
    <2>4. \A i \in 0..N : f[i] \in SUBSET A
      BY ONLY <1>0, <2>1, <2>3, RunInd
    <2>5. N \in 0..N
      BY <1>0
    <2>. QED
      BY <2>4, <2>5
  <1>4. f[N] \in Good
    BY <1>0, <1>2
  <1>. QED
    BY <1>1, <1>3, <1>4

\* Propagating at level zero keeps the clauses and the models.
LEMMA PropagateKeeps ==
  ASSUME NEW F \in Dbs
  PROVE  /\ propagate(F) \in Dbs
         /\ propagate(F).irr = F.irr /\ propagate(F).red = F.red
         /\ DbModels(propagate(F)) = DbModels(F)
PROOF
  <1> DEFINE P == Propagation(AllClauses(F), F.units)
  <1>0. /\ F.irr \in SUBSET Clauses /\ F.red \in SUBSET Clauses
        /\ F.units \in SUBSET Lits /\ F.unsat \in BOOLEAN
        /\ AllClauses(F) = F.irr \cup F.red
        /\ AllClauses(F) \in SUBSET Clauses
    BY DEF Dbs, AllClauses
  <1>1. /\ P \in SUBSET Lits /\ F.units \subseteq P
        /\ \A A \in DbModels(F) : P \subseteq A
    BY <1>0, PropagationTrue, DbModel
  <1> HIDE DEF P
  <1>2. CASE F.unsat \/ Conflicting(AllClauses(F), F.units)
    <2>1. propagate(F) = [F EXCEPT !.unsat = TRUE]
      BY <1>2 DEF propagate
    <2>2. /\ propagate(F) \in Dbs /\ propagate(F).unsat
          /\ propagate(F).irr = F.irr /\ propagate(F).red = F.red
      BY <2>1, <1>0 DEF Dbs
    <2>3. DbModels(propagate(F)) = {}
      BY <2>2, DbModel
    <2>4. ASSUME NEW A \in DbModels(F) PROVE FALSE
      <3>1. /\ A \in Assignments /\ ~F.unsat /\ \A c \in AllClauses(F) : c \cap A # {}
            /\ P \subseteq A
        BY <1>0, <1>1, DbModel
      <3>2. A \in SUBSET Lits /\ \A l \in Lits : l \in A <=> -l \notin A
        BY <3>1, AssignmentIff
      <3>3. \A l \in A : l \notin Negated(P)
        BY <1>1, <3>1, <3>2, NegatedMember
      <3>4. P \cap Negated(P) # {} \/ \E c \in AllClauses(F) : c \subseteq Negated(P)
        BY <1>2, <3>1 DEF Conflicting, P
      <3>. QED
        BY <3>1, <3>3, <3>4
    <2>. QED
      BY <2>2, <2>3, <2>4
  <1>3. CASE ~(F.unsat \/ Conflicting(AllClauses(F), F.units))
    <2>1. propagate(F) = [F EXCEPT !.units = P]
      BY <1>3 DEF propagate, P
    <2>2. /\ propagate(F) \in Dbs /\ propagate(F).unsat = F.unsat
          /\ propagate(F).irr = F.irr /\ propagate(F).red = F.red
          /\ propagate(F).units = P
      BY <2>1, <1>0, <1>1 DEF Dbs
    <2>3. \A A : A \in DbModels(propagate(F)) <=> A \in DbModels(F)
      BY <1>1, <2>2, DbModel
    <2>. QED
      BY <2>2, <2>3 DEF DbModels, Models
  <1>. QED
    BY <1>2, <1>3

\* A set of literals is finite; one that counts one has one.
LEMMA OneLiteral ==
  ASSUME NEW c \in SUBSET Lits
  PROVE  /\ IsFiniteSet(c) /\ Cardinality(c) \in Nat
         /\ Cardinality(c) = 1 => c = {CHOOSE l \in c : TRUE}
PROOF
  <1>0. N \in Nat /\ N > 0
    BY NAssumption
  <1>1. IsFiniteSet(-N..N)
    BY <1>0, FS_Interval
  <1>2. \A v \in Vars : v \in -N..N /\ -v \in -N..N
    BY <1>0 DEF Vars
  <1>3. Lits \subseteq -N..N
    BY <1>2 DEF Lits
  <1>4. IsFiniteSet(c) /\ Cardinality(c) \in Nat
    BY <1>1, <1>3, FS_Subset, FS_CardinalityType
  <1>5. Cardinality(c) = 1 => \E l : c = {l}
    BY <1>4, FS_Singleton
  <1>. QED
    BY <1>4, <1>5

\* A new irredundant clause excludes the assignments that falsify it.
LEMMA NewClauseMeans ==
  ASSUME NEW F \in Dbs, NEW c \in SUBSET Lits
  PROVE  /\ new_clause(F, c, FALSE) \in Dbs
         /\ new_clause(F, c, FALSE).red = F.red
         /\ \A A : A \in DbModels(new_clause(F, c, FALSE)) <=> A \in DbModels(F) /\ c \cap A # {}
PROOF
  <1> DEFINE G == new_clause(F, c, FALSE)
  <1>0. /\ F.irr \in SUBSET Clauses /\ F.red \in SUBSET Clauses
        /\ F.units \in SUBSET Lits /\ F.unsat \in BOOLEAN
    BY DEF Dbs
  <1>1. CASE c = {}
    <2>1. G = [F EXCEPT !.unsat = TRUE]
      BY <1>1, Zenon DEF new_clause
    <2>2. G \in Dbs /\ G.unsat /\ G.red = F.red
      BY <1>0, <2>1 DEF Dbs
    <2> HIDE DEF G
    <2>3. \A A : A \notin DbModels(G)
      BY <2>2, DbModel
    <2>. QED
      BY <1>1, <2>2, <2>3 DEF G
  <1>2. CASE c # {} /\ Cardinality(c) = 1
    <2> DEFINE l == CHOOSE x \in c : TRUE
    <2>1. G = assign_unit(F, l) /\ c = {l} /\ l \in Lits
      BY <1>2, OneLiteral DEF new_clause
    <2> HIDE DEF l, G
    <2>2. -l \in Lits /\ -l # l
      BY <2>1, Literal
    <2>3. CASE l \in F.units
      <3>1. G = F
        BY <2>1, <2>3, Zenon DEF assign_unit
      <3>2. \A A \in DbModels(F) : l \in A
        BY <2>3, DbModel
      <3>. QED
        BY <2>1, <3>1, <3>2 DEF G
    <2>4. CASE l \notin F.units /\ -l \in F.units
      <3>1. G = [F EXCEPT !.unsat = TRUE]
        BY <2>1, <2>4 DEF assign_unit
      <3>2. G \in Dbs /\ G.unsat /\ G.red = F.red
        BY <1>0, <3>1 DEF Dbs
      <3>3. \A A : A \notin DbModels(G)
        BY <3>2, DbModel
      <3>4. ASSUME NEW A \in DbModels(F) PROVE l \notin A
        <4>1. A \in Assignments /\ -l \in A
          BY <2>4, DbModel
        <4>. QED
          BY <2>1, <4>1, AssignmentIff
      <3>. QED
        BY <2>1, <3>2, <3>3, <3>4 DEF G
    <2>5. CASE l \notin F.units /\ -l \notin F.units
      <3>1. G = [F EXCEPT !.units = @ \cup {l}]
        BY <2>1, <2>5 DEF assign_unit
      <3>2. /\ G \in Dbs /\ G.unsat = F.unsat /\ G.irr = F.irr /\ G.red = F.red
            /\ G.units = F.units \cup {l}
        BY <1>0, <2>1, <3>1 DEF Dbs
      <3>3. \A A : A \in DbModels(G) <=> A \in DbModels(F) /\ l \in A
        BY <3>2, DbModel
      <3>. QED
        BY <2>1, <3>2, <3>3 DEF G
    <2>. QED
      BY <2>3, <2>4, <2>5
  <1>3. CASE c # {} /\ Cardinality(c) # 1
    <2>1. G = [F EXCEPT !.irr = @ \cup {c}]
      BY <1>3 DEF new_clause
    <2>2. /\ G \in Dbs /\ G.unsat = F.unsat /\ G.irr = F.irr \cup {c} /\ G.red = F.red
          /\ G.units = F.units
      <3> HIDE DEF G
      <3>1. c \in Clauses
        BY DEF Clauses
      <3>. QED
        BY <1>0, <2>1, <3>1 DEF Dbs
    <2> HIDE DEF G
    <2>3. \A A : A \in DbModels(G) <=> A \in DbModels(F) /\ c \cap A # {}
      BY <2>2, DbModel
    <2>. QED
      BY <2>2, <2>3 DEF G
  <1>. QED
    BY <1>1, <1>2, <1>3

\* A clause of the user, or a restored one, excludes the assignments that
\* falsify it, whether it is kept whole, cut down, or left out.
LEMMA OriginalClauseMeans ==
  ASSUME NEW F \in Dbs, NEW c \in SUBSET Lits
  PROVE  /\ add_new_original_clause(F, c) \in Dbs
         /\ add_new_original_clause(F, c).red = F.red
         /\ \A A : A \in DbModels(add_new_original_clause(F, c))
                     <=> A \in DbModels(F) /\ c \cap A # {}
PROOF
  <1> DEFINE H == add_new_original_clause(F, c)
             G == new_clause(F, Remaining(F, c), FALSE)
  <1>0. F.units \in SUBSET Lits
    BY DEF Dbs
  <1>1. CASE F.unsat
    <2>1. H = F
      BY <1>1 DEF add_new_original_clause
    <2>2. \A A : A \notin DbModels(F)
      BY <1>1, DbModel
    <2>. QED
      BY <2>1, <2>2
  <1>2. CASE \E l \in c : -l \in c
    <2>1. H = F
      BY <1>2 DEF add_new_original_clause
    <2>2. ASSUME NEW A \in DbModels(F) PROVE c \cap A # {}
      <3>1. A \in Assignments
        BY DbModel
      <3>. QED
        BY <1>2, <3>1, AssignmentIff
    <2>. QED
      BY <2>1, <2>2
  <1>3. CASE fixedTrue(F, c)
    <2>1. H = F
      BY <1>3 DEF add_new_original_clause
    <2>2. \A A \in DbModels(F) : c \cap A # {}
      BY <1>3, DbModel DEF fixedTrue
    <2>. QED
      BY <2>1, <2>2
  <1>4. CASE ~(F.unsat \/ (\E l \in c : -l \in c) \/ fixedTrue(F, c))
    <2>1. H = IF G.units # F.units THEN propagate(G) ELSE G
      BY <1>4 DEF add_new_original_clause
    <2>2. Remaining(F, c) \in SUBSET Lits
      BY DEF Remaining
    <2>3. /\ G \in Dbs /\ G.red = F.red
          /\ \A A : A \in DbModels(G) <=> A \in DbModels(F) /\ Remaining(F, c) \cap A # {}
      BY <2>2, NewClauseMeans
    <2>4. ASSUME NEW A \in DbModels(F) PROVE Remaining(F, c) \cap A # {} <=> c \cap A # {}
      <3>1. A \in Assignments /\ F.units \subseteq A
        BY DbModel
      <3>2. A \in SUBSET Lits /\ \A l \in Lits : l \in A <=> -l \notin A
        BY <3>1, AssignmentIff
      <3>3. \A l \in A : l \notin Negated(F.units)
        BY <1>0, <3>1, <3>2, NegatedMember
      <3>. QED
        BY <3>3 DEF Remaining
    <2> HIDE DEF G, H
    <2>5. H \in Dbs /\ H.red = G.red /\ DbModels(H) = DbModels(G)
      BY <2>1, <2>3, PropagateKeeps
    <2>6. \A A : A \in DbModels(H) <=> A \in DbModels(F) /\ c \cap A # {}
      BY <2>3, <2>4, <2>5
    <2>. QED
      BY <2>3, <2>5, <2>6 DEF H
  <1>. QED
    BY <1>1, <1>2, <1>3, <1>4

-----------------------------------------------------------------------------
(***************************************************************************)
(* Reconstruction.                                                         *)
(***************************************************************************)
\* The witnesses of a stack, by place.
LEMMA WitnessMember ==
  ASSUME NEW stack \in Seq(Entries), NEW l
  PROVE  l \in WitnessLiterals(stack) <=> \E i \in 1..Len(stack) : l \in stack[i].witness
BY DEF WitnessLiterals, ToSet

\* The states of extend: the entries from the top on that have had their turn.
LEMMA ExtendTurns ==
  ASSUME NEW stack \in Seq(Entries), NEW A \in SUBSET Lits
  PROVE  \E f : /\ f[0] = A
                /\ \A i \in 1..Len(stack) : f[i] = MadeTrue(stack[Len(stack) + 1 - i], f[i - 1])
                /\ extend(stack, A) = f[Len(stack)]
PROOF
  <1> DEFINE n == Len(stack)
             Body(g, i) == IF i = 0 THEN A ELSE MadeTrue(stack[n + 1 - i], g[i - 1])
             chosen == CHOOSE g : g = [i \in 0..n |-> Body(g, i)]
             step == [p \in Nat \X SUBSET Lits |->
                        IF p[1] \in 1..n THEN MadeTrue(stack[n + 1 - p[1]], p[2]) ELSE p[2]]
  <1>0. n \in Nat /\ \A i \in 1..n : stack[n + 1 - i] \in Entries
    <2>1. n \in Nat
      OBVIOUS
    <2>2. \A i \in 1..n : n + 1 - i \in 1..n
      BY <2>1
    <2>. QED
      BY <2>1, <2>2
  <1>1. step \in [Nat \X SUBSET Lits -> SUBSET Lits]
    <2>1. \A e \in Entries, B \in SUBSET Lits : MadeTrue(e, B) \in SUBSET Lits
      BY DEF Entries, MadeTrue, Flipped
    <2> HIDE DEF n
    <2>. QED
      BY <1>0, <2>1
  <1>2. PICK f : IsRun(SUBSET Lits, A, step, n, f)
    <2> HIDE DEF step, n
    <2>. QED
      BY <1>0, <1>1, LoopRuns
  <1> HIDE DEF n
  <1>3. \A i \in 0..n : f[i] = Body(f, i)
    <2> SUFFICES ASSUME NEW i \in 0..n PROVE f[i] = Body(f, i)
      OBVIOUS
    <2>1. CASE i = 0
      BY <1>2, <2>1 DEF IsRun
    <2>2. CASE i # 0
      <3>1. i \in 1..n /\ i - 1 \in 0..n
        BY <1>0, <2>2
      <3>2. <<i, f[i - 1]>> \in Nat \X SUBSET Lits
        BY <1>0, <1>2, <3>1 DEF IsRun
      <3>3. step[<<i, f[i - 1]>>] = MadeTrue(stack[n + 1 - i], f[i - 1])
        BY <3>1, <3>2
      <3>. QED
        BY <1>2, <2>2, <3>1, <3>3 DEF IsRun
    <2>. QED
      BY <2>1, <2>2
  <1>4. f = [i \in 0..n |-> Body(f, i)]
    <2> HIDE DEF Body
    <2>. QED
      BY <1>2, <1>3 DEF IsRun
  <1>5. chosen = [i \in 0..n |-> Body(chosen, i)]
    <2> HIDE DEF Body
    <2>. QED
      BY <1>4
  <1>6. \A i \in 0..n : chosen[i] = Body(chosen, i)
    <2> HIDE DEF Body, chosen
    <2>. QED
      BY <1>5
  <1>7. extend(stack, A) = chosen[n]
    BY DEF extend, n
  <1> HIDE DEF chosen
  <1>8. chosen[0] = A
    <2>1. Body(chosen, 0) = A
      OBVIOUS
    <2> HIDE DEF Body
    <2>. QED
      BY <1>0, <1>6, <2>1
  <1>9. ASSUME NEW i \in 1..n PROVE chosen[i] = MadeTrue(stack[n + 1 - i], chosen[i - 1])
    <2>1. i \in 0..n /\ i # 0
      BY <1>0
    <2>. QED
      BY <1>6, <2>1
  <1>. QED
    BY <1>7, <1>8, <1>9 DEF n

\* A literal the negation of which is no witness stays true.
LEMMA ExtendKeeps ==
  ASSUME NEW stack \in Seq(Entries), NEW A \in SUBSET Lits, NEW K \in SUBSET A,
         \A l \in K : -l \notin WitnessLiterals(stack)
  PROVE  K \subseteq extend(stack, A)
PROOF
  <1> DEFINE n == Len(stack)
             Good == {B \in SUBSET Lits : K \subseteq B}
  <1>0. n \in Nat
    OBVIOUS
  <1>1. PICK f : /\ f[0] = A
                 /\ \A i \in 1..n : f[i] = MadeTrue(stack[n + 1 - i], f[i - 1])
                 /\ extend(stack, A) = f[n]
    BY ExtendTurns
  <1>2. ASSUME NEW i \in 1..n, NEW B \in Good PROVE MadeTrue(stack[i], B) \in Good
    <2>1. stack[i] \in Entries /\ stack[i].witness \in SUBSET Lits
      BY DEF Entries
    <2>2. ASSUME NEW l \in K PROVE l \notin Negated(stack[i].witness)
      <3>1. -l \notin stack[i].witness
        BY WitnessMember
      <3>. QED
        BY <2>1, <3>1, NegatedMember
    <2>. QED
      BY <2>1, <2>2 DEF MadeTrue, Flipped
  <1>3. f[0] \in Good
    BY <1>1
  <1> HIDE DEF Good
  <1>4. ASSUME NEW i \in 1..n, f[i - 1] \in Good PROVE f[i] \in Good
    <2>1. n + 1 - i \in 1..n
      BY <1>0
    <2> HIDE DEF n
    <2>. QED
      BY <1>1, <1>2, <1>4, <2>1
  <1> HIDE DEF n
  <1>5. \A i \in 0..n : f[i] \in Good
    BY <1>0, <1>3, <1>4, RunInd
  <1>6. f[n] \in Good
    BY <1>0, <1>5
  <1>. QED
    BY <1>1, <1>6 DEF Good

Places(stack) == 1..Len(stack)

\* The assignments among M that satisfy the entries above place j.
Left(M, stack, j) == {A \in M : \A k \in Places(stack) : k > j => stack[k].clause \cap A # {}}

\* Making the witness of entry j true leads from these to these.
Repairs(M, stack, j) ==
  \A A \in Left(M, stack, j) :
    stack[j].clause \cap A = {} => Flipped(stack[j], A) \in Left(M, stack, j)

\* The entries whose witness no tainted literal contradicts all repair.
Repairable(M, stack, tainted) ==
  \A j \in Places(stack) : stack[j].witness \cap Negated(tainted) = {} => Repairs(M, stack, j)

\* When every entry repairs, extend makes all clauses of the stack true.
THEOREM ExtendRight ==
  ASSUME NEW M \in SUBSET Assignments, NEW stack \in Seq(Entries),
         \A j \in Places(stack) : Repairs(M, stack, j),
         NEW A \in M
  PROVE  extend(stack, A) \in Left(M, stack, 0)
PROOF
  <1> DEFINE n == Len(stack)
  <1>0. n \in Nat /\ Places(stack) = 1..n
    BY DEF Places
  <1>1. A \in SUBSET Lits
    BY AssignmentIff
  <1>2. PICK f : /\ f[0] = A
                 /\ \A i \in 1..n : f[i] = MadeTrue(stack[n + 1 - i], f[i - 1])
                 /\ extend(stack, A) = f[n]
    BY <1>1, ExtendTurns
  <1> DEFINE Sat(j) == Left(M, stack, j)
             Good == {i \in Nat : i \in 0..n => f[i] \in Sat(n - i)}
  <1>3. 0 \in Good
    BY <1>0, <1>2 DEF Left
  <1>4. ASSUME NEW j \in 1..n, NEW B \in Sat(j) PROVE MadeTrue(stack[j], B) \in Sat(j - 1)
    <2>1. stack[j] \in Entries /\ stack[j].witness \cap stack[j].clause # {}
      BY DEF Entries
    <2>2. MadeTrue(stack[j], B) \in Sat(j)
      <3> HIDE DEF n
      <3>. QED
        BY <1>0 DEF Repairs, MadeTrue
    <2>3. stack[j].clause \cap MadeTrue(stack[j], B) # {}
      BY <2>1 DEF MadeTrue, Flipped
    <2>4. \A k \in 1..n : k > j - 1 => k > j \/ k = j
      BY <1>0
    <2> HIDE DEF n
    <2>. QED
      BY <1>0, <2>2, <2>3, <2>4 DEF Left
  <1>5. ASSUME NEW i \in Nat, i \in Good PROVE i + 1 \in Good
    <2> SUFFICES ASSUME i + 1 \in 0..n PROVE f[i + 1] \in Sat(n - (i + 1))
      OBVIOUS
    <2>1. i \in 0..n /\ i + 1 \in 1..n /\ n - i \in 1..n /\ (i + 1) - 1 = i
          /\ n + 1 - (i + 1) = n - i /\ (n - i) - 1 = n - (i + 1)
      BY <1>0
    <2>2. f[i] \in Sat(n - i)
      BY <1>5, <2>1
    <2> HIDE DEF Sat, n
    <2>3. MadeTrue(stack[n - i], f[i]) \in Sat((n - i) - 1)
      BY <1>4, <2>1, <2>2
    <2>. QED
      BY <1>2, <2>1, <2>3
  <1> HIDE DEF Good
  <1>6. Nat \subseteq Good
    BY <1>3, <1>5, NatInd
  <1>7. n \in Good /\ n \in 0..n /\ n - n = 0
    BY <1>0, <1>6
  <1> HIDE DEF n
  <1>. QED
    BY <1>0, <1>2, <1>7 DEF Good

\* A new clause that no negated witness literal of an entry is in keeps it
\* repairing.
LEMMA RepairsMore ==
  ASSUME NEW M \in SUBSET Assignments, NEW c \in SUBSET Lits, NEW stack \in Seq(Entries),
         NEW j \in Places(stack), Repairs(M, stack, j),
         stack[j].witness \cap Negated(c) = {}
  PROVE  Repairs({A \in M : c \cap A # {}}, stack, j)
PROOF
  <1> DEFINE M2 == {A \in M : c \cap A # {}}
             e  == stack[j]
  <1>1. e \in Entries /\ e.witness \in SUBSET Lits
    BY DEF Entries, Places
  <1>2. \A B : B \in Left(M2, stack, j) <=> B \in Left(M, stack, j) /\ c \cap B # {}
    BY DEF Left
  <1> HIDE DEF M2
  <1>3. SUFFICES ASSUME NEW A \in Left(M2, stack, j), e.clause \cap A = {}
                 PROVE  Flipped(e, A) \in Left(M2, stack, j)
    BY DEF Repairs, M2
  <1>4. Flipped(e, A) \in Left(M, stack, j)
    BY <1>2, <1>3 DEF Repairs
  <1>5. PICK l \in c : l \in A
    BY <1>2
  <1>6. l \notin Negated(e.witness)
    <2>1. l \in Lits /\ -l \in Lits /\ -(-l) = l
      BY Literal
    <2>2. (l \in Negated(e.witness) <=> -l \in e.witness) /\ -l \in Negated(c)
      BY <1>1, <2>1, NegatedMember
    <2>. QED
      BY <2>2
  <1>7. l \in Flipped(e, A)
    BY <1>5, <1>6 DEF Flipped
  <1>. QED
    BY <1>2, <1>4, <1>7

-----------------------------------------------------------------------------
(***************************************************************************)
(* Restoring clauses.                                                      *)
(***************************************************************************)
\* The states of the pass.
Passes == [db : Dbs, stack : Seq(Entries), tainted : SUBSET Lits, lits : SUBSET Lits]

\* An entry that is kept, and one that becomes a clause.
KeptOrRestored(s, e, stack, t) ==
  /\ t \in Passes
  /\ t.db.red = s.db.red
  /\ \/ /\ e.witness \cap Negated(s.tainted) = {}
        /\ t.stack = Append(s.stack, e)
        /\ t.db = s.db /\ t.tainted = s.tainted
     \/ /\ t.stack = s.stack
        /\ \A A : A \in DbModels(t.db) <=> A \in DbModels(s.db) /\ e.clause \cap A # {}
        /\ t.tainted = s.tainted \cup (e.clause \cap Negated(WitnessLiterals(stack)))

\* What an entry does to the state of the pass, when nothing is flushed.
LEMMA RestoreEntry ==
  ASSUME NEW s \in Passes, NEW e \in Entries, NEW stack,
         NEW t, t = restore_entry(s, e, stack, FALSE)
  PROVE  KeptOrRestored(s, e, stack, t)
PROOF
  <1>0. /\ s.db \in Dbs /\ s.stack \in Seq(Entries)
        /\ s.tainted \in SUBSET Lits /\ s.lits \in SUBSET Lits
    BY DEF Passes
  <1>1. e.clause \in SUBSET Lits
    BY DEF Entries, Clauses
  <1>2. CASE e.witness \cap Negated(s.tainted) = {}
    <2>1. t = [s EXCEPT !.stack = Append(@, e)]
      BY <1>2 DEF restore_entry
    <2>2. Append(s.stack, e) \in Seq(Entries)
      BY <1>0
    <2>3. t \in Passes /\ t.stack = Append(s.stack, e) /\ t.db = s.db /\ t.tainted = s.tainted
      BY <1>0, <2>1, <2>2 DEF Passes
    <2>. QED
      BY <1>2, <2>3 DEF KeptOrRestored
  <1>3. CASE e.witness \cap Negated(s.tainted) # {}
    <2> DEFINE H == add_new_original_clause(s.db, e.clause)
               more == s.tainted \cup (e.clause \cap Negated(WitnessLiterals(stack)))
    <2>1. t = [s EXCEPT !.db = H, !.tainted = more, !.lits = @ \cup e.clause]
      BY <1>3 DEF restore_entry
    <2>2. /\ H \in Dbs /\ H.red = s.db.red
          /\ \A A : A \in DbModels(H) <=> A \in DbModels(s.db) /\ e.clause \cap A # {}
      BY <1>0, <1>1, OriginalClauseMeans
    <2>3. more \in SUBSET Lits /\ s.lits \cup e.clause \in SUBSET Lits
      BY <1>0, <1>1
    <2> HIDE DEF H, more
    <2>4. t \in Passes /\ t.stack = s.stack /\ t.db = H /\ t.tainted = more
      BY <1>0, <2>1, <2>2, <2>3 DEF Passes
    <2>. QED
      BY <2>2, <2>4 DEF more, KeptOrRestored
  <1>. QED
    BY <1>2, <1>3

\* The states of restore_clauses.
LEMMA RestoreTurns ==
  ASSUME NEW F \in Dbs, NEW stack \in Seq(Entries), NEW tainted \in SUBSET Lits
  PROVE  \E f : /\ f[0] = [db |-> F, stack |-> <<>>, tainted |-> tainted, lits |-> {}]
                /\ \A i \in Places(stack) : f[i] = restore_entry(f[i - 1], stack[i], stack, FALSE)
                /\ restore_clauses(F, stack, tainted, FALSE) = f[Len(stack)]
PROOF
  <1> DEFINE n == Len(stack)
             start == [db |-> F, stack |-> <<>>, tainted |-> tainted, lits |-> {}]
             Body(g, i) == IF i = 0 THEN start
                           ELSE restore_entry(g[i - 1], stack[i], stack, FALSE)
             chosen == CHOOSE g : g = [i \in 0..n |-> Body(g, i)]
             step == [p \in Nat \X Passes |->
                        IF p[1] \in 1..n THEN restore_entry(p[2], stack[p[1]], stack, FALSE)
                        ELSE p[2]]
  <1>0. n \in Nat /\ \A i \in 1..n : stack[i] \in Entries
    OBVIOUS
  <1>1. step \in [Nat \X Passes -> Passes]
    <2>1. \A e \in Entries, s \in Passes : restore_entry(s, e, stack, FALSE) \in Passes
      BY RestoreEntry DEF KeptOrRestored
    <2> HIDE DEF n
    <2>. QED
      BY <1>0, <2>1
  <1>2. start \in Passes
    <2>1. <<>> \in Seq(Entries)
      OBVIOUS
    <2>. QED
      BY <2>1 DEF Passes
  <1>3. PICK f : IsRun(Passes, start, step, n, f)
    <2> HIDE DEF step, n, start
    <2>. QED
      BY <1>0, <1>1, <1>2, LoopRuns
  <1> HIDE DEF n, start
  <1>4. \A i \in 0..n : f[i] = Body(f, i)
    <2> SUFFICES ASSUME NEW i \in 0..n PROVE f[i] = Body(f, i)
      OBVIOUS
    <2>1. CASE i = 0
      BY <1>3, <2>1 DEF IsRun
    <2>2. CASE i # 0
      <3>1. i \in 1..n /\ i - 1 \in 0..n
        BY <1>0, <2>2
      <3>2. <<i, f[i - 1]>> \in Nat \X Passes
        BY <1>0, <1>3, <3>1 DEF IsRun
      <3>3. step[<<i, f[i - 1]>>] = restore_entry(f[i - 1], stack[i], stack, FALSE)
        BY <3>1, <3>2
      <3>. QED
        BY <1>3, <2>2, <3>1, <3>3 DEF IsRun
    <2>. QED
      BY <2>1, <2>2
  <1>5. f = [i \in 0..n |-> Body(f, i)]
    <2> HIDE DEF Body
    <2>. QED
      BY <1>3, <1>4 DEF IsRun
  <1>6. chosen = [i \in 0..n |-> Body(chosen, i)]
    <2> HIDE DEF Body
    <2>. QED
      BY <1>5
  <1>7. \A i \in 0..n : chosen[i] = Body(chosen, i)
    <2> HIDE DEF Body, chosen
    <2>. QED
      BY <1>6
  <1>8. restore_clauses(F, stack, tainted, FALSE) = chosen[n]
    BY DEF restore_clauses, n, start
  <1> HIDE DEF chosen
  <1>9. chosen[0] = start
    <2>1. Body(chosen, 0) = start
      OBVIOUS
    <2> HIDE DEF Body
    <2>. QED
      BY <1>0, <1>7, <2>1
  <1>10. ASSUME NEW i \in 1..n
         PROVE  chosen[i] = restore_entry(chosen[i - 1], stack[i], stack, FALSE)
    <2>1. i \in 0..n /\ i # 0
      BY <1>0
    <2>. QED
      BY <1>7, <2>1
  <1>. QED
    BY <1>8, <1>9, <1>10 DEF n, start, Places

\* After i entries: the models that satisfy what was kept above place p and
\* all that is still to come.
Rest(s, stack, i, p) ==
  {A \in DbModels(s.db) :
     /\ \A q \in Places(s.stack) : q > p => s.stack[q].clause \cap A # {}
     /\ \A k \in Places(stack) : k > i => stack[k].clause \cap A # {}}

\* What the pass keeps: the meaning, repairing entries, and the taint.
Passing(F, stack, tainted, i, s) ==
  /\ s \in Passes
  /\ s.db.red = F.red
  /\ Rest(s, stack, i, 0) = Left(DbModels(F), stack, 0)
  /\ \A p \in Places(s.stack) : \A A \in Rest(s, stack, i, p) :
       s.stack[p].clause \cap A = {} => Flipped(s.stack[p], A) \in Rest(s, stack, i, p)
  /\ \A j \in Places(stack) : j > i /\ stack[j].witness \cap Negated(s.tainted) = {} =>
       Repairs(DbModels(s.db), stack, j)
  /\ tainted \subseteq s.tainted
  /\ \A p \in Places(s.stack) : s.stack[p].witness \cap Negated(tainted) = {}
  /\ \A p \in Places(s.stack) : \E k \in Places(stack) : s.stack[p] = stack[k]

\* An entry that is kept moves to the new stack.
LEMMA PassingKept ==
  ASSUME NEW F \in Dbs, NEW stack \in Seq(Entries), NEW tainted \in SUBSET Lits,
         NEW i \in Places(stack), NEW s, Passing(F, stack, tainted, i - 1, s),
         NEW t \in Passes, t.db = s.db, t.tainted = s.tainted,
         stack[i].witness \cap Negated(s.tainted) = {},
         t.stack = Append(s.stack, stack[i])
  PROVE  Passing(F, stack, tainted, i, t)
PROOF
  <1> DEFINE e == stack[i]
             n == Len(s.stack)
  <1>0. /\ s \in Passes /\ s.stack \in Seq(Entries) /\ n \in Nat /\ i \in Nat
        /\ Places(s.stack) = 1..n /\ Places(t.stack) = 1..(n + 1)
        /\ t.stack[n + 1] = e
        /\ \A q \in 1..n : t.stack[q] = s.stack[q]
        /\ \A k \in Places(stack) : k \in Nat
    BY DEF Passing, Passes, Places
  <1> HIDE DEF n, e
  <1>a. \A q \in 1..(n + 1) : q = n + 1 \/ q \in 1..n
    BY ONLY <1>0
  <1>b. \A q \in 1..n : q \in Nat /\ q <= n /\ q \in 1..(n + 1)
    BY ONLY <1>0
  <1>c. \A k \in Places(stack) : /\ k > i => k > i - 1
                                 /\ k > i - 1 <=> k > i \/ k = i
    BY ONLY <1>0
  <1>1. ASSUME NEW p \in Nat, p <= n PROVE Rest(t, stack, i, p) = Rest(s, stack, i - 1, p)
    <2>1. n + 1 \in 1..(n + 1) /\ n + 1 > p
      BY ONLY <1>0, <1>1
    <2>2. ASSUME NEW A
          PROVE  (\A q \in Places(t.stack) : q > p => t.stack[q].clause \cap A # {})
                 <=> /\ \A q \in Places(s.stack) : q > p => s.stack[q].clause \cap A # {}
                     /\ e.clause \cap A # {}
      <3>1. ASSUME \A q \in 1..(n + 1) : q > p => t.stack[q].clause \cap A # {}
            PROVE  /\ \A q \in 1..n : q > p => s.stack[q].clause \cap A # {}
                   /\ e.clause \cap A # {}
        BY ONLY <1>0, <1>b, <2>1, <3>1, Zenon
      <3>2. ASSUME \A q \in 1..n : q > p => s.stack[q].clause \cap A # {}, e.clause \cap A # {}
            PROVE  \A q \in 1..(n + 1) : q > p => t.stack[q].clause \cap A # {}
        BY ONLY <1>0, <1>a, <3>2, Zenon
      <3>. QED
        BY <1>0, <3>1, <3>2, Zenon
    <2>3. ASSUME NEW A
          PROVE  (\A k \in Places(stack) : k > i - 1 => stack[k].clause \cap A # {})
                 <=> /\ \A k \in Places(stack) : k > i => stack[k].clause \cap A # {}
                     /\ e.clause \cap A # {}
      BY <1>c, Zenon DEF e
    <2>. QED
      BY <2>2, <2>3 DEF Rest
  <1>2. Rest(t, stack, i, n + 1) = Left(DbModels(s.db), stack, i)
    BY <1>0 DEF Rest, Left
  <1>3. Repairs(DbModels(s.db), stack, i)
    BY <1>0 DEF Passing
  <1>4. ASSUME NEW p \in Places(t.stack), NEW A \in Rest(t, stack, i, p),
               t.stack[p].clause \cap A = {}
        PROVE  Flipped(t.stack[p], A) \in Rest(t, stack, i, p)
    <2>1. CASE p = n + 1
      <3>1. t.stack[p] = e
        BY <1>0, <2>1, Zenon
      <3>2. A \in Left(DbModels(s.db), stack, i) /\ e.clause \cap A = {}
        BY <1>2, <1>4, <2>1, <3>1, Zenon
      <3>. QED
        BY <1>2, <1>3, <2>1, <3>1, <3>2, Zenon DEF Repairs, e
    <2>2. CASE p \in 1..n
      <3>1. p \in Nat /\ p <= n /\ p \in Places(s.stack) /\ t.stack[p] = s.stack[p]
        BY ONLY <1>0, <1>b, <2>2, Zenon
      <3>2. Rest(t, stack, i, p) = Rest(s, stack, i - 1, p)
        BY <1>1, <3>1
      <3>. QED
        BY <1>4, <3>1, <3>2 DEF Passing
    <2>. QED
      BY <1>0, <1>a, <2>1, <2>2, Zenon
  <1>5. Rest(t, stack, i, 0) = Left(DbModels(F), stack, 0)
    BY <1>0, <1>1 DEF Passing
  <1>6. \A j \in Places(stack) : j > i /\ stack[j].witness \cap Negated(t.tainted) = {} =>
          Repairs(DbModels(t.db), stack, j)
    BY <1>c, Zenon DEF Passing
  <1>7. ASSUME NEW p \in Places(t.stack) PROVE t.stack[p].witness \cap Negated(tainted) = {}
    <2>1. CASE p = n + 1
      <3>1. tainted \subseteq s.tainted
        BY DEF Passing
      <3>. QED
        BY <1>0, <2>1, <3>1 DEF e, Negated
    <2>2. CASE p \in 1..n
      BY <1>0, <2>2, Zenon DEF Passing
    <2>. QED
      BY <1>0, <1>a, <2>1, <2>2, Zenon
  <1>8. ASSUME NEW p \in Places(t.stack) PROVE \E k \in Places(stack) : t.stack[p] = stack[k]
    <2>1. CASE p = n + 1
      BY <1>0, <2>1, Zenon DEF e
    <2>2. CASE p \in 1..n
      BY <1>0, <2>2, Zenon DEF Passing
    <2>. QED
      BY <1>0, <1>a, <2>1, <2>2, Zenon
  <1>. QED
    BY <1>4, <1>5, <1>6, <1>7, <1>8 DEF Passing

\* An entry that is restored becomes a clause, and taints what it can break.
LEMMA PassingRestored ==
  ASSUME NEW F \in Dbs, NEW stack \in Seq(Entries), NEW tainted \in SUBSET Lits,
         NEW i \in Places(stack), NEW s, Passing(F, stack, tainted, i - 1, s),
         NEW t \in Passes, t.db.red = s.db.red, t.stack = s.stack,
         \A A : A \in DbModels(t.db) <=> A \in DbModels(s.db) /\ stack[i].clause \cap A # {},
         t.tainted = s.tainted \cup (stack[i].clause \cap Negated(WitnessLiterals(stack)))
  PROVE  Passing(F, stack, tainted, i, t)
PROOF
  <1> DEFINE e == stack[i]
  <1>0. /\ s \in Passes /\ i \in Nat
        /\ \A k \in Places(stack) : k \in Nat /\ stack[k] \in Entries
        /\ e.clause \in SUBSET Lits
    BY DEF Passing, Places, Entries, Clauses
  <1>1. ASSUME NEW p PROVE Rest(t, stack, i, p) = Rest(s, stack, i - 1, p)
    <2>1. \A k \in Places(stack) : k > i - 1 <=> k > i \/ k = i
      BY <1>0
    <2>2. ASSUME NEW A
          PROVE  (\A k \in Places(stack) : k > i - 1 => stack[k].clause \cap A # {})
                 <=> /\ \A k \in Places(stack) : k > i => stack[k].clause \cap A # {}
                     /\ e.clause \cap A # {}
      BY <2>1
    <2>. QED
      BY <2>2 DEF Rest
  <1>2. ASSUME NEW j \in Places(stack), j > i, stack[j].witness \cap Negated(t.tainted) = {}
        PROVE  Repairs(DbModels(t.db), stack, j)
    <2>1. j > i - 1
      BY <1>0, <1>2
    <2>2. stack[j].witness \cap Negated(s.tainted) = {}
      BY <1>2 DEF Negated
    <2>3. Repairs(DbModels(s.db), stack, j)
      BY <2>1, <2>2 DEF Passing
    <2>4. stack[j].witness \cap Negated(e.clause) = {}
      <3> SUFFICES ASSUME NEW w \in stack[j].witness, w \in Negated(e.clause) PROVE FALSE
        OBVIOUS
      <3>1. w \in Lits
        BY <1>0 DEF Entries
      <3>2. -w \in Lits /\ -(-w) = w /\ -w \in e.clause
        BY <1>0, <3>1, Literal, NegatedMember
      <3>3. w \in WitnessLiterals(stack)
        BY WitnessMember DEF Places
      <3>4. -w \in Negated(WitnessLiterals(stack))
        BY <3>3 DEF Negated
      <3>5. w \in Negated(t.tainted)
        BY <3>2, <3>4 DEF Negated
      <3>. QED
        BY <1>2, <3>5
    <2>5. DbModels(s.db) \in SUBSET Assignments
      BY DEF DbModels, Models
    <2>6. Repairs({A \in DbModels(s.db) : e.clause \cap A # {}}, stack, j)
      <3> HIDE DEF e
      <3>. QED
        BY <1>0, <2>3, <2>4, <2>5, RepairsMore
    <2>7. DbModels(t.db) = {A \in DbModels(s.db) : e.clause \cap A # {}}
      OBVIOUS
    <2>. QED
      BY <2>6, <2>7
  <1>3. \A j \in Places(stack) : j > i /\ stack[j].witness \cap Negated(t.tainted) = {} =>
          Repairs(DbModels(t.db), stack, j)
    BY <1>2
  <1>4. tainted \subseteq t.tainted /\ t.db.red = F.red
    BY DEF Passing
  <1>5. Rest(t, stack, i, 0) = Left(DbModels(F), stack, 0)
    BY <1>1 DEF Passing
  <1>6. \A p \in Places(t.stack) : \A A \in Rest(t, stack, i, p) :
          t.stack[p].clause \cap A = {} => Flipped(t.stack[p], A) \in Rest(t, stack, i, p)
    BY <1>1 DEF Passing
  <1>7. \A p \in Places(t.stack) : /\ t.stack[p].witness \cap Negated(tainted) = {}
                                   /\ \E k \in Places(stack) : t.stack[p] = stack[k]
    BY DEF Passing
  <1> HIDE DEF e
  <1>. QED
    BY <1>3, <1>4, <1>5, <1>6, <1>7 DEF Passing

\* The same meaning with entries of the stack that all repair and whose witness
\* no tainted literal contradicts.
Restored(F, stack, tainted, r) ==
  /\ r.db \in Dbs /\ r.db.red = F.red
  /\ r.stack \in Seq(Entries)
  /\ Left(DbModels(r.db), r.stack, 0) = Left(DbModels(F), stack, 0)
  /\ \A j \in Places(r.stack) : /\ Repairs(DbModels(r.db), r.stack, j)
                                /\ r.stack[j].witness \cap Negated(tainted) = {}
                                /\ \E k \in Places(stack) : r.stack[j] = stack[k]

\* The pass changes no models, and leaves entries that repair and whose
\* witness was not touched.
THEOREM RestoreRight ==
  ASSUME NEW F \in Dbs, NEW stack \in Seq(Entries), NEW tainted \in SUBSET Lits,
         Repairable(DbModels(F), stack, tainted),
         NEW r, r = restore_clauses(F, stack, tainted, FALSE)
  PROVE  Restored(F, stack, tainted, r)
PROOF
  <1> DEFINE n == Len(stack)
             start == [db |-> F, stack |-> <<>>, tainted |-> tainted, lits |-> {}]
  <1>0. n \in Nat /\ Places(stack) = 1..n
    BY DEF Places
  <1>1. PICK f : /\ f[0] = start
                 /\ \A i \in Places(stack) : f[i] = restore_entry(f[i - 1], stack[i], stack, FALSE)
                 /\ r = f[n]
    BY RestoreTurns
  <1> DEFINE Good == {i \in Nat : i \in 0..n => Passing(F, stack, tainted, i, f[i])}
  <1>2. Passing(F, stack, tainted, 0, start)
    <2>1. <<>> \in Seq(Entries) /\ Places(<<>>) = {}
      BY DEF Places
    <2>2. start \in Passes /\ start.stack = <<>> /\ start.db = F /\ start.tainted = tainted
      BY <2>1 DEF Passes
    <2> HIDE DEF start
    <2>3. Rest(start, stack, 0, 0) = Left(DbModels(F), stack, 0)
      BY <2>1, <2>2 DEF Rest, Left
    <2>. QED
      BY <2>1, <2>2, <2>3 DEF Passing, Repairable
  <1>3. 0 \in Good
    BY <1>1, <1>2
  <1> HIDE DEF n, start
  <1>4. ASSUME NEW i \in Nat, i \in Good PROVE i + 1 \in Good
    <2> SUFFICES ASSUME i + 1 \in 0..n PROVE Passing(F, stack, tainted, i + 1, f[i + 1])
      OBVIOUS
    <2>1. i \in 0..n /\ i + 1 \in Places(stack) /\ (i + 1) - 1 = i
      BY <1>0
    <2> DEFINE s == f[i]
               e == stack[i + 1]
               t == f[i + 1]
    <2>2. Passing(F, stack, tainted, (i + 1) - 1, s) /\ s \in Passes /\ e \in Entries
      <3>1. Passing(F, stack, tainted, (i + 1) - 1, s)
        BY <1>4, <2>1
      <3>2. e \in Entries
        BY <2>1 DEF Places
      <3>. QED
        BY <3>1, <3>2 DEF Passing
    <2>3. t = restore_entry(s, e, stack, FALSE)
      BY <1>1, <2>1
    <2> HIDE DEF s, e, t
    <2>4. KeptOrRestored(s, e, stack, t)
      BY <2>2, <2>3, RestoreEntry
    <2> USE DEF e
    <2>5. CASE /\ e.witness \cap Negated(s.tainted) = {}
               /\ t.stack = Append(s.stack, e)
               /\ t.db = s.db /\ t.tainted = s.tainted
      BY <2>1, <2>2, <2>4, <2>5, PassingKept DEF t, KeptOrRestored
    <2>6. CASE /\ t.stack = s.stack
               /\ \A A : A \in DbModels(t.db) <=> A \in DbModels(s.db) /\ e.clause \cap A # {}
               /\ t.tainted = s.tainted \cup (e.clause \cap Negated(WitnessLiterals(stack)))
      BY <2>1, <2>2, <2>4, <2>6, PassingRestored DEF t, KeptOrRestored
    <2>. QED
      BY <2>4, <2>5, <2>6 DEF KeptOrRestored
  <1> HIDE DEF Good
  <1>5. Nat \subseteq Good
    BY <1>3, <1>4, NatInd
  <1>6. Passing(F, stack, tainted, n, r)
    <2>1. n \in Nat /\ n \in 0..n
      BY <1>0
    <2>2. Passing(F, stack, tainted, n, f[n])
      BY <1>5, <2>1 DEF Good
    <2>. QED
      BY <1>1, <2>2
  <1>7. ASSUME NEW p PROVE Rest(r, stack, n, p) = Left(DbModels(r.db), r.stack, p)
    <2>1. \A k \in Places(stack) : ~(k > n)
      BY <1>0
    <2>. QED
      BY <2>1 DEF Rest, Left
  <1>8. /\ r.db \in Dbs /\ r.db.red = F.red /\ r.stack \in Seq(Entries)
    BY <1>6 DEF Passing, Passes
  <1>9. Left(DbModels(r.db), r.stack, 0) = Left(DbModels(F), stack, 0)
    BY <1>6, <1>7 DEF Passing
  <1>10. \A j \in Places(r.stack) : Repairs(DbModels(r.db), r.stack, j)
    <2> SUFFICES ASSUME NEW j \in Places(r.stack), NEW A \in Left(DbModels(r.db), r.stack, j),
                        r.stack[j].clause \cap A = {}
                 PROVE  Flipped(r.stack[j], A) \in Left(DbModels(r.db), r.stack, j)
      BY Zenon DEF Repairs
    <2>. QED
      BY <1>6, <1>7, Zenon DEF Passing
  <1>11. \A j \in Places(r.stack) : /\ r.stack[j].witness \cap Negated(tainted) = {}
                                    /\ \E k \in Places(stack) : r.stack[j] = stack[k]
    BY <1>6 DEF Passing
  <1>. QED
    BY <1>8, <1>9, <1>10, <1>11 DEF Restored

-----------------------------------------------------------------------------
(***************************************************************************)
(* Removing blocked clauses.                                               *)
(***************************************************************************)
\* The sets that are left when Listed takes one element after the other.
IsListing(S, n, f) ==
  /\ f[0] = S
  /\ \A i \in 1..n : f[i] = f[i - 1] \ {CHOOSE x \in f[i - 1] : TRUE}
  /\ Listed(S) = [i \in 1..n |-> CHOOSE x \in f[n - i] : TRUE]

\* Listed takes one element after the other.
LEMMA ListedTurns ==
  ASSUME NEW S, IsFiniteSet(S)
  PROVE  \E f : IsListing(S, Cardinality(S), f)
PROOF
  <1> DEFINE n == Cardinality(S)
             Body(g, i) == IF i = 0 THEN S
                           ELSE LET before == g[i - 1] IN before \ {CHOOSE x \in before : TRUE}
             chosen == CHOOSE g : g = [i \in 0..n |-> Body(g, i)]
             step == [p \in Nat \X SUBSET S |-> p[2] \ {CHOOSE x \in p[2] : TRUE}]
  <1>0. n \in Nat
    BY FS_CardinalityType
  <1>1. step \in [Nat \X SUBSET S -> SUBSET S]
    OBVIOUS
  <1> HIDE DEF n
  <1>2. PICK f : IsRun(SUBSET S, S, step, n, f)
    <2>1. S \in SUBSET S
      OBVIOUS
    <2> HIDE DEF step
    <2>. QED
      BY <1>0, <1>1, <2>1, LoopRuns
  <1>3. \A i \in 0..n : f[i] = Body(f, i)
    <2> SUFFICES ASSUME NEW i \in 0..n PROVE f[i] = Body(f, i)
      OBVIOUS
    <2>1. CASE i = 0
      BY <1>2, <2>1 DEF IsRun
    <2>2. CASE i # 0
      <3>1. i \in 1..n /\ i - 1 \in 0..n
        BY <1>0, <2>2
      <3>2. <<i, f[i - 1]>> \in Nat \X SUBSET S
        BY <1>0, <1>2, <3>1 DEF IsRun
      <3>3. step[<<i, f[i - 1]>>] = f[i - 1] \ {CHOOSE x \in f[i - 1] : TRUE}
        BY <3>2
      <3>. QED
        BY <1>2, <2>2, <3>1, <3>3 DEF IsRun
    <2>. QED
      BY <2>1, <2>2
  <1>4. f = [i \in 0..n |-> Body(f, i)]
    <2> HIDE DEF Body
    <2>. QED
      BY <1>2, <1>3 DEF IsRun
  <1>5. chosen = [i \in 0..n |-> Body(chosen, i)]
    <2> HIDE DEF Body
    <2>. QED
      BY <1>4
  <1>6. \A i \in 0..n : chosen[i] = Body(chosen, i)
    <2> HIDE DEF Body, chosen
    <2>. QED
      BY <1>5
  <1>7. Listed(S) = [i \in 1..n |-> CHOOSE x \in chosen[n - i] : TRUE]
    BY DEF Listed, n
  <1> HIDE DEF chosen
  <1>8. chosen[0] = S
    <2>1. Body(chosen, 0) = S
      OBVIOUS
    <2> HIDE DEF Body
    <2>. QED
      BY <1>0, <1>6, <2>1
  <1>9. ASSUME NEW i \in 1..n
        PROVE  chosen[i] = chosen[i - 1] \ {CHOOSE x \in chosen[i - 1] : TRUE}
    <2>1. i \in 0..n /\ i # 0
      BY <1>0
    <2>. QED
      BY <1>6, <2>1
  <1>10. IsListing(S, n, chosen)
    BY <1>7, <1>8, <1>9 DEF IsListing
  <1>. QED
    BY <1>10 DEF n

\* A listed set has each of its elements at some place, and nothing else.
LEMMA ListedRight ==
  ASSUME NEW S, IsFiniteSet(S)
  PROVE  /\ Listed(S) \in Seq(S)
         /\ \A x \in S : \E i \in 1..Len(Listed(S)) : Listed(S)[i] = x
PROOF
  <1> DEFINE n == Cardinality(S)
             Pick(X) == CHOOSE x \in X : TRUE
  <1>0. n \in Nat
    BY FS_CardinalityType
  <1>1. PICK f : /\ f[0] = S
                 /\ \A i \in 1..n : f[i] = f[i - 1] \ {Pick(f[i - 1])}
                 /\ Listed(S) = [i \in 1..n |-> Pick(f[n - i])]
    BY ListedTurns DEF IsListing
  <1> DEFINE Good == {i \in Nat : i \in 0..n => f[i] \subseteq S /\ Cardinality(f[i]) = n - i}
  <1>2. 0 \in Good
    BY <1>0, <1>1
  <1>3. ASSUME NEW i \in Nat, i \in Good PROVE i + 1 \in Good
    <2> SUFFICES ASSUME i + 1 \in 0..n
                 PROVE  f[i + 1] \subseteq S /\ Cardinality(f[i + 1]) = n - (i + 1)
      OBVIOUS
    <2>1. i \in 0..n /\ i + 1 \in 1..n /\ (i + 1) - 1 = i /\ n - i > 0
      BY <1>0
    <2>2. f[i] \subseteq S /\ Cardinality(f[i]) = n - i /\ IsFiniteSet(f[i])
      BY <1>3, <2>1, FS_Subset
    <2> HIDE DEF n
    <2>3. f[i] # {}
      BY <1>0, <2>1, <2>2, FS_EmptySet
    <2>4. Pick(f[i]) \in f[i]
      BY <2>3
    <2>5. f[i + 1] = f[i] \ {Pick(f[i])}
      BY <1>1, <2>1
    <2> HIDE DEF Pick
    <2>6. Cardinality(f[i + 1]) = (n - i) - 1
      BY <2>2, <2>4, <2>5, FS_RemoveElement
    <2>. QED
      BY <1>0, <2>2, <2>5, <2>6
  <1> HIDE DEF n, Good
  <1>4. Nat \subseteq Good
    BY <1>2, <1>3, NatInd
  <1>5. ASSUME NEW i \in 0..n
        PROVE  f[i] \subseteq S /\ Cardinality(f[i]) = n - i /\ IsFiniteSet(f[i])
    <2>1. f[i] \subseteq S /\ Cardinality(f[i]) = n - i
      BY <1>0, <1>4 DEF Good
    <2>. QED
      BY <2>1, FS_Subset
  <1>6. ASSUME NEW i \in 1..n PROVE Pick(f[n - i]) \in S
    <2>1. n - i \in 0..n /\ n - (n - i) > 0
      BY <1>0
    <2>2. f[n - i] # {}
      BY <1>5, <2>1, FS_EmptySet
    <2>. QED
      BY <1>5, <2>1, <2>2
  <1>7. Listed(S) \in Seq(S) /\ Len(Listed(S)) = n
    <2> HIDE DEF Pick
    <2>1. Listed(S) \in [1..n -> S]
      BY <1>1, <1>6
    <2>. QED
      BY <1>0, <2>1
  <1>8. ASSUME NEW x \in S, \A i \in 1..n : Listed(S)[i] # x PROVE FALSE
    <2> DEFINE Has == {X \in SUBSET S : x \in X}
    <2>1. f[0] \in Has
      BY <1>1
    <2>2. ASSUME NEW i \in 1..n, f[i - 1] \in Has PROVE f[i] \in Has
      <3>1. n - i + 1 \in 1..n /\ n - (n - i + 1) = i - 1
        BY <1>0
      <3>2. Listed(S)[n - i + 1] = Pick(f[i - 1])
        <4> HIDE DEF Pick
        <4>. QED
          BY <1>1, <3>1
      <3>3. Pick(f[i - 1]) # x
        BY <1>8, <3>1, <3>2
      <3> HIDE DEF Pick
      <3>. QED
        BY <1>1, <2>2, <3>3
    <2> HIDE DEF Has
    <2>3. \A i \in 0..n : f[i] \in Has
      BY ONLY <1>0, <2>1, <2>2, RunInd
    <2>4. n \in 0..n /\ n - n = 0
      BY <1>0
    <2>5. f[n] = {}
      BY <1>5, <2>4, FS_EmptySet
    <2>. QED
      BY <2>3, <2>4, <2>5 DEF Has
  <1>. QED
    BY <1>7, <1>8

\* The clauses of a database are finitely many.
LEMMA FiniteClauses ==
  ASSUME NEW F \in Dbs, NEW C \in SUBSET F.irr
  PROVE  IsFiniteSet(C) /\ C \in SUBSET Clauses
PROOF
  <1>1. IsFiniteSet(Lits)
    BY OneLiteral
  <1>2. IsFiniteSet(Clauses)
    BY <1>1, FS_SUBSET DEF Clauses
  <1>3. C \in SUBSET Clauses
    BY DEF Dbs
  <1>. QED
    BY <1>2, <1>3, FS_Subset

\* What Weakened takes out of the database it puts on the stack.
LEMMA WeakenedRight ==
  ASSUME NEW F \in Dbs, NEW w \in Lits, NEW C \in SUBSET occs(F, w),
         NEW b, b = Weakened(F, C, w)
  PROVE  /\ b.db \in Dbs /\ b.db.irr = F.irr \ C /\ b.db.red = F.red
         /\ b.db.units = F.units /\ b.db.unsat = F.unsat
         /\ b.pushed \in Seq(Entries)
         /\ \A p \in Places(b.pushed) : b.pushed[p].witness = {w} /\ b.pushed[p].clause \in C
         /\ \A c \in C : \E p \in Places(b.pushed) : b.pushed[p].clause = c
PROOF
  <1> DEFINE cs == Listed(C)
             pushed == [i \in 1..Len(cs) |-> Pushed({w}, cs[i])]
             db == [F EXCEPT !.irr = @ \ C]
  <1>0. C \in SUBSET F.irr /\ \A c \in C : w \in c
    BY DEF occs
  <1>1. IsFiniteSet(C) /\ C \in SUBSET Clauses
    BY <1>0, FiniteClauses
  <1>2. cs \in Seq(C) /\ \A c \in C : \E i \in 1..Len(cs) : cs[i] = c
    BY <1>1, ListedRight
  <1>3. b = [db |-> db, pushed |-> pushed]
    BY DEF Weakened
  <1>4. /\ F.irr \in SUBSET Clauses /\ F.red \in SUBSET Clauses
        /\ F.units \in SUBSET Lits /\ F.unsat \in BOOLEAN
    BY DEF Dbs
  <1>5. /\ db \in Dbs /\ db.irr = F.irr \ C /\ db.red = F.red
        /\ db.units = F.units /\ db.unsat = F.unsat
    BY <1>4 DEF Dbs
  <1>6. {w} \in SUBSET Lits /\ {w} \cap Negated({w}) = {}
    BY Literal DEF Negated
  <1>7. ASSUME NEW c \in C PROVE Pushed({w}, c) \in Entries
    <2>1. w \in c /\ c \in Clauses
      BY <1>0, <1>1
    <2>. QED
      BY <1>6, <2>1 DEF Entries, Pushed
  <1> HIDE DEF cs, db
  <1>8. Len(cs) \in Nat /\ \A i \in 1..Len(cs) : cs[i] \in C
    BY <1>2
  <1>9. pushed \in Seq(Entries) /\ Len(pushed) = Len(cs)
    <2>1. pushed \in [1..Len(cs) -> Entries]
      BY <1>7, <1>8
    <2> HIDE DEF pushed
    <2>. QED
      BY <1>8, <2>1
  <1>10. \A i \in 1..Len(cs) : pushed[i].witness = {w} /\ pushed[i].clause = cs[i]
    BY DEF Pushed
  <1> HIDE DEF pushed
  <1>11. b.db = db /\ b.pushed = pushed /\ Places(pushed) = 1..Len(cs)
    BY <1>3, <1>9 DEF Places
  <1>. QED
    BY <1>2, <1>5, <1>8, <1>9, <1>10, <1>11

\* The clauses block_literal removes are blocked on its literal.
LEMMA BlockedOnly ==
  ASSUME NEW F \in Dbs, NEW lit \in Lits
  PROVE  \E C \in SUBSET occs(F, lit) :
           /\ block_literal(F, lit) = Weakened(F, C, lit)
           /\ \A c \in C : is_blocked_clause(F, c, lit)
PROOF
  <1> DEFINE neg == occs(F, -lit)
             Good(C) == /\ block_literal(F, lit) = Weakened(F, C, lit)
                        /\ \A c \in C : is_blocked_clause(F, c, lit)
  <1>0. IsFiniteSet(neg) /\ Cardinality(neg) \in Nat /\ -lit \in Lits
    <2>1. neg \in SUBSET F.irr
      BY DEF occs
    <2>. QED
      BY <2>1, FiniteClauses, FS_CardinalityType, Literal
  <1>1. CASE Cardinality(neg) > BlockOccLim
    <2>1. block_literal(F, lit) = Weakened(F, {}, lit)
      BY <1>1 DEF block_literal
    <2>. QED
      BY <2>1
  <1>2. CASE ~(Cardinality(neg) > BlockOccLim) /\ Cardinality(neg) = 0
    <2>1. neg = {}
      BY <1>0, <1>2, FS_EmptySet
    <2>2. block_literal(F, lit) = Weakened(F, occs(F, lit), lit)
      BY <1>2 DEF block_literal, block_pure_literal
    <2>3. \A c \in occs(F, lit) : is_blocked_clause(F, c, lit)
      BY <2>1 DEF is_blocked_clause
    <2>. QED
      BY <2>2, <2>3
  <1>3. CASE ~(Cardinality(neg) > BlockOccLim) /\ Cardinality(neg) # 0 /\ occs(F, lit) = {}
    <2>1. block_literal(F, lit) = Weakened(F, {}, lit)
      BY <1>3 DEF block_literal
    <2>. QED
      BY <2>1
  <1>4. CASE ~(Cardinality(neg) > BlockOccLim) /\ Cardinality(neg) = 1 /\ occs(F, lit) # {}
    <2> DEFINE d == CHOOSE x \in neg : TRUE
               blocked == {c \in occs(F, lit) : RightSize(c) /\ \E other \in c \ {lit} : -other \in d}
               C == IF RightSize(d) THEN blocked ELSE {}
    <2>1. block_literal(F, lit) = Weakened(F, C, lit)
      BY <1>4 DEF block_literal, block_literal_with_one_negative_occ
    <2>2. neg = {d}
      <3>1. \E x : neg = {x}
        BY <1>0, <1>4, FS_Singleton
      <3>. QED
        BY <3>1
    <2> HIDE DEF d
    <2>3. ASSUME NEW c \in C PROVE is_blocked_clause(F, c, lit)
      <3>1. c \in occs(F, lit)
        BY <2>3
      <3>2. PICK other \in c \ {lit} : -other \in d
        BY <2>3
      <3>3. other \in Lits
        <4>1. c \in Clauses
          BY <3>1 DEF occs, Dbs
        <4>. QED
          BY <3>2, <4>1 DEF Clauses
      <3>4. -(-other) = other /\ -other # -lit
        <4>1. lit \in Int /\ other \in Int /\ other # lit
          BY <3>2, <3>3, Literal
        <4>. QED
          BY <4>1
      <3>5. -other \in d \ {-lit} /\ -(-other) \in c
        BY <3>2, <3>4
      <3>. QED
        BY <2>2, <3>5 DEF is_blocked_clause
    <2>4. C \in SUBSET occs(F, lit)
      OBVIOUS
    <2> HIDE DEF C
    <2>. QED
      BY <2>1, <2>3, <2>4
  <1>5. CASE /\ ~(Cardinality(neg) > BlockOccLim) /\ Cardinality(neg) # 0 /\ Cardinality(neg) # 1
             /\ occs(F, lit) # {}
    <2> DEFINE C == IF \/ \E d \in neg : Cardinality(d) > BlockMaxClsLim
                       \/ Cardinality(block_candidates(F, lit)) > 1 /\ block_impossible(F, lit)
                    THEN {} ELSE {c \in block_candidates(F, lit) : is_blocked_clause(F, c, lit)}
    <2>1. block_literal(F, lit) = Weakened(F, C, lit)
      BY <1>5 DEF block_literal, block_literal_with_at_least_two_negative_occs
    <2>2. C \in SUBSET occs(F, lit) /\ \A c \in C : is_blocked_clause(F, c, lit)
      BY DEF block_candidates
    <2> HIDE DEF C
    <2>. QED
      BY <2>1, <2>2
  <1>. QED
    BY <1>1, <1>2, <1>3, <1>4, <1>5

\* A removed clause repairs: making the literal it is blocked on true breaks
\* no other clause.
THEOREM BlockingRight ==
  ASSUME NEW F \in Dbs, NEW lit \in Lits, F.red = {}, {lit, -lit} \cap F.units = {},
         NEW b, b = block_literal(F, lit)
  PROVE  /\ b.db \in Dbs /\ b.db.red = {} /\ b.db.units = F.units
         /\ b.pushed \in Seq(Entries)
         /\ DbModels(F) = Left(DbModels(b.db), b.pushed, 0)
         /\ \A p \in Places(b.pushed) : /\ Repairs(DbModels(b.db), b.pushed, p)
                                        /\ b.pushed[p].witness = {lit}
PROOF
  <1>1. PICK C \in SUBSET occs(F, lit) :
          b = Weakened(F, C, lit) /\ \A c \in C : is_blocked_clause(F, c, lit)
    BY BlockedOnly
  <1>2. /\ b.db \in Dbs /\ b.db.irr = F.irr \ C /\ b.db.red = F.red
        /\ b.db.units = F.units /\ b.db.unsat = F.unsat
        /\ b.pushed \in Seq(Entries)
        /\ \A p \in Places(b.pushed) : b.pushed[p].witness = {lit} /\ b.pushed[p].clause \in C
        /\ \A c \in C : \E p \in Places(b.pushed) : b.pushed[p].clause = c
    BY <1>1, WeakenedRight
  <1>3. C \in SUBSET F.irr /\ F.irr \in SUBSET Clauses /\ \A c \in C : lit \in c
    BY DEF occs, Dbs
  <1>4. \A p \in Places(b.pushed) : p \in Nat /\ p > 0
    BY DEF Places
  <1>5. DbModels(F) = Left(DbModels(b.db), b.pushed, 0)
    <2> SUFFICES ASSUME NEW A PROVE A \in DbModels(F) <=> A \in Left(DbModels(b.db), b.pushed, 0)
      BY DEF DbModels, Models, Left
    <2>1. A \in DbModels(F) <=> A \in DbModels(b.db) /\ \A c \in C : c \cap A # {}
      BY <1>2, <1>3, DbModel
    <2>2. (\A c \in C : c \cap A # {}) <=> \A p \in Places(b.pushed) : b.pushed[p].clause \cap A # {}
      BY <1>2
    <2>. QED
      BY <1>4, <2>1, <2>2 DEF Left
  <1>6. ASSUME NEW p \in Places(b.pushed), NEW A \in Left(DbModels(b.db), b.pushed, p),
               b.pushed[p].clause \cap A = {}
        PROVE  Flipped(b.pushed[p], A) \in Left(DbModels(b.db), b.pushed, p)
    <2> DEFINE c == b.pushed[p].clause
               B == Flipped(b.pushed[p], A)
    <2>1. b.pushed[p] \in Entries /\ c \in C /\ c \in SUBSET Lits /\ b.pushed[p].witness = {lit}
      BY <1>2, <1>3 DEF Places, Clauses
    <2>2. A \in DbModels(b.db) /\ A \in Assignments /\ c \cap A = {}
      BY <1>2, <1>6, DbModel DEF Left
    <2>3. B \in Assignments
      BY <2>1, <2>2, FlippedAssignment
    <2>4. B = (A \ {-lit}) \cup {lit}
      BY <2>1 DEF Flipped, Negated
    <2>5. \A l \in Lits : l \in A <=> -l \notin A
      BY <2>2, AssignmentIff
    <2> HIDE DEF c, B
    <2>6. F.units \subseteq B
      <3>1. F.units \subseteq A
        BY <1>2, <2>2, DbModel
      <3>. QED
        BY <2>4, <3>1
    <2>7. ASSUME NEW d \in b.db.irr PROVE d \cap B # {}
      <3>1. d \in F.irr /\ d \cap A # {} /\ d \in SUBSET Lits
        BY <1>2, <1>3, <2>2, DbModel DEF Clauses
      <3>2. CASE -lit \in d
        <4>1. d \in occs(F, -lit)
          BY <3>1, <3>2 DEF occs
        <4>2. PICK other \in d \ {-lit} : -other \in c
          BY <1>1, <2>1, <4>1 DEF is_blocked_clause
        <4>3. other \in A
          BY <2>2, <2>5, <3>1, <4>2
        <4>. QED
          BY <2>4, <4>2, <4>3
      <3>3. CASE -lit \notin d
        BY <2>4, <3>1, <3>3
      <3>. QED
        BY <3>2, <3>3
    <2>8. B \in DbModels(b.db)
      <3>1. ~b.db.unsat /\ b.db.red = {}
        BY <1>2, <2>2, DbModel
      <3>. QED
        BY <1>2, <2>3, <2>6, <2>7, <3>1, DbModel
    <2>9. \A q \in Places(b.pushed) : b.pushed[q].clause \cap B # {}
      BY <1>2, <1>3, <2>4
    <2>. QED
      BY <2>8, <2>9 DEF Left, B
  <1>. QED
    BY <1>2, <1>5, <1>6 DEF Repairs

\* More entries on the stack: those below see the models that satisfy them.
LEMMA PushedMore ==
  ASSUME NEW M, NEW stack \in Seq(Entries), NEW pushed \in Seq(Entries)
  PROVE  /\ stack \o pushed \in Seq(Entries)
         /\ Left(M, stack \o pushed, 0) = Left(Left(M, pushed, 0), stack, 0)
         /\ \A j \in Places(stack) : Repairs(Left(M, pushed, 0), stack, j) => Repairs(M, stack \o pushed, j)
         /\ \A p \in Places(pushed) : Repairs(M, pushed, p) => Repairs(M, stack \o pushed, Len(stack) + p)
         /\ \A j \in Places(stack \o pushed) :
              \/ j \in Places(stack) /\ (stack \o pushed)[j] = stack[j]
              \/ \E p \in Places(pushed) : j = Len(stack) + p /\ (stack \o pushed)[j] = pushed[p]
PROOF
  <1> DEFINE s == stack \o pushed
             n == Len(stack)
             m == Len(pushed)
  <1>0. n \in Nat /\ m \in Nat /\ s \in Seq(Entries)
    OBVIOUS
  <1>1. /\ Places(stack) = 1..n /\ Places(pushed) = 1..m /\ Places(s) = 1..(n + m)
        /\ \A j \in 1..n : s[j] = stack[j]
        /\ \A p \in 1..m : s[n + p] = pushed[p]
    BY DEF Places
  <1> HIDE DEF s, n, m
  <1>2. \A j \in 1..(n + m) : j \in 1..n \/ \E p \in 1..m : j = n + p
    <2> SUFFICES ASSUME NEW j \in 1..(n + m), j \notin 1..n PROVE \E p \in 1..m : j = n + p
      OBVIOUS
    <2>1. j - n \in 1..m /\ j = n + (j - n)
      BY <1>0
    <2>. QED
      BY <2>1
  <1>3. \A j \in 1..n : j \in 1..(n + m) /\ j \in Nat /\ j <= n /\ j > 0
    BY <1>0
  <1>4. \A p \in 1..m : n + p \in 1..(n + m) /\ p \in Nat /\ p > 0 /\ n + p > n
    BY <1>0
  <1>5. ASSUME NEW j \in Nat, j <= n
        PROVE  Left(M, s, j) = Left(Left(M, pushed, 0), stack, j)
    <2>1. \A p \in 1..m : n + p > j /\ p > 0
      BY <1>0, <1>4, <1>5
    <2>2. ASSUME NEW A
          PROVE  (\A k \in 1..(n + m) : k > j => s[k].clause \cap A # {})
                 <=> /\ \A p \in 1..m : p > 0 => pushed[p].clause \cap A # {}
                     /\ \A k \in 1..n : k > j => stack[k].clause \cap A # {}
      <3>1. ASSUME \A k \in 1..(n + m) : k > j => s[k].clause \cap A # {}
            PROVE  /\ \A p \in 1..m : p > 0 => pushed[p].clause \cap A # {}
                   /\ \A k \in 1..n : k > j => stack[k].clause \cap A # {}
        BY ONLY <1>1, <1>3, <1>4, <2>1, <3>1, Zenon
      <3>2. ASSUME \A p \in 1..m : p > 0 => pushed[p].clause \cap A # {},
                   \A k \in 1..n : k > j => stack[k].clause \cap A # {}
            PROVE  \A k \in 1..(n + m) : k > j => s[k].clause \cap A # {}
        <4> SUFFICES ASSUME NEW k \in 1..(n + m), k > j PROVE s[k].clause \cap A # {}
          OBVIOUS
        <4>1. CASE k \in 1..n
          BY <1>1, <3>2, <4>1, Zenon
        <4>2. ASSUME NEW p \in 1..m, k = n + p PROVE s[k].clause \cap A # {}
          BY <1>1, <2>1, <3>2, <4>2, Zenon
        <4>. QED
          BY <1>2, <4>1, <4>2
      <3>. QED
        BY <3>1, <3>2
    <2>. QED
      BY <1>1, <2>2 DEF Left
  <1>6. ASSUME NEW p \in 1..m PROVE Left(M, s, n + p) = Left(M, pushed, p)
    <2>1. \A k \in 1..n : ~(k > n + p)
      BY <1>0, <1>4
    <2>2. \A q \in 1..m : n + q > n + p <=> q > p
      BY <1>0, <1>4
    <2>3. ASSUME NEW A
          PROVE  (\A k \in 1..(n + m) : k > n + p => s[k].clause \cap A # {})
                 <=> \A q \in 1..m : q > p => pushed[q].clause \cap A # {}
      <3>1. ASSUME \A k \in 1..(n + m) : k > n + p => s[k].clause \cap A # {}
            PROVE  \A q \in 1..m : q > p => pushed[q].clause \cap A # {}
        BY ONLY <1>1, <1>4, <2>2, <3>1, Zenon
      <3>2. ASSUME \A q \in 1..m : q > p => pushed[q].clause \cap A # {}
            PROVE  \A k \in 1..(n + m) : k > n + p => s[k].clause \cap A # {}
        <4> SUFFICES ASSUME NEW k \in 1..(n + m), k > n + p PROVE s[k].clause \cap A # {}
          OBVIOUS
        <4>1. PICK q \in 1..m : k = n + q
          BY <1>2, <2>1
        <4>. QED
          BY <1>1, <2>2, <3>2, <4>1, Zenon
      <3>. QED
        BY <3>1, <3>2
    <2>. QED
      BY <1>1, <2>3 DEF Left
  <1>7. Left(M, s, 0) = Left(Left(M, pushed, 0), stack, 0)
    BY <1>0, <1>5
  <1>8. ASSUME NEW j \in Places(stack), Repairs(Left(M, pushed, 0), stack, j)
        PROVE  Repairs(M, s, j)
    <2>1. j \in Nat /\ j <= n /\ s[j] = stack[j]
      BY ONLY <1>1, <1>3, Zenon
    <2>2. Left(M, s, j) = Left(Left(M, pushed, 0), stack, j)
      BY <1>5, <2>1
    <2>. QED
      BY <1>8, <2>1, <2>2, Zenon DEF Repairs
  <1>9. ASSUME NEW p \in Places(pushed), Repairs(M, pushed, p) PROVE Repairs(M, s, n + p)
    <2>1. p \in 1..m /\ s[n + p] = pushed[p]
      BY <1>1, Zenon
    <2>2. Left(M, s, n + p) = Left(M, pushed, p)
      BY <1>6, <2>1
    <2>. QED
      BY <1>9, <2>1, <2>2, Zenon DEF Repairs
  <1>10. ASSUME NEW j \in Places(s)
         PROVE  \/ j \in Places(stack) /\ s[j] = stack[j]
                \/ \E p \in Places(pushed) : j = n + p /\ s[j] = pushed[p]
    <2>1. CASE j \in 1..n
      BY <1>1, <2>1, Zenon
    <2>2. ASSUME NEW p \in 1..m, j = n + p
          PROVE  p \in Places(pushed) /\ s[j] = pushed[p]
      BY <1>1, <2>2, Zenon
    <2>3. j \in 1..(n + m)
      BY <1>1, Zenon
    <2>. QED
      BY <1>2, <2>1, <2>2, <2>3, Zenon
  <1>. QED
    BY <1>0, <1>7, <1>8, <1>9, <1>10 DEF s, n

-----------------------------------------------------------------------------
(***************************************************************************)
(* Databases that are worked on.                                           *)
(***************************************************************************)
\* Clauses of two or more literals without a complementary pair.
Formulas == {F \in Dbs : \A c \in AllClauses(F) : IsClause(c) /\ Cardinality(c) >= 2}

\* The models of the part that counts for the reconstruction.
Lean(F) == {A \in Assignments : ~F.unsat /\ F.units \subseteq A /\ \A c \in F.irr : c \cap A # {}}

\* The literals that clauses and units are made of.
Uses(F, L)    == F.units \subseteq L /\ \A c \in AllClauses(F) : c \subseteq L
UsesIrr(F, L) == F.units \subseteq L /\ \A c \in F.irr : c \subseteq L

\* Nothing is lost but by consequence, and no fixed literal and no conflict is
\* forgotten.
Follows(F, G) ==
  /\ G \in Formulas
  /\ DbModels(F) \subseteq DbModels(G)
  /\ F.unsat => G.unsat
  /\ F.units \subseteq G.units

\* A database that is equivalent as far as the reconstruction is concerned.
Rewritten(F, G) ==
  /\ Follows(F, G)
  /\ Lean(G) \subseteq Lean(F)
  /\ \A L : Uses(F, L) => Uses(G, L)

\* The same without a look at the redundant clauses.
Worked(F, G) ==
  /\ Follows(F, G)
  /\ G.red = F.red
  /\ \A L : UsesIrr(F, L) => UsesIrr(G, L)

\* The fields of a database.
LEMMA FormulaParts ==
  ASSUME NEW F \in Formulas
  PROVE  /\ F \in Dbs
         /\ F.irr \in SUBSET Clauses /\ F.red \in SUBSET Clauses
         /\ F.units \in SUBSET Lits /\ F.unsat \in BOOLEAN
         /\ AllClauses(F) = F.irr \cup F.red
         /\ \A c \in AllClauses(F) : /\ IsClause(c) /\ c \in SUBSET Lits
                                     /\ Cardinality(c) >= 2 /\ Cardinality(c) \in Nat
PROOF
  <1>1. /\ F \in Dbs /\ AllClauses(F) = F.irr \cup F.red
        /\ \A c \in AllClauses(F) : IsClause(c) /\ Cardinality(c) >= 2
    BY DEF Formulas, AllClauses
  <1>2. /\ F.irr \in SUBSET Clauses /\ F.red \in SUBSET Clauses
        /\ F.units \in SUBSET Lits /\ F.unsat \in BOOLEAN
    BY <1>1 DEF Dbs
  <1>3. \A c \in AllClauses(F) : c \in SUBSET Lits
    BY <1>1, <1>2 DEF Clauses
  <1>. QED
    BY <1>1, <1>2, <1>3, OneLiteral

\* A database with other clauses.
LEMMA FormulaOf ==
  ASSUME NEW G \in Dbs, \A c \in G.irr \cup G.red : IsClause(c) /\ Cardinality(c) >= 2
  PROVE  G \in Formulas
BY DEF Formulas, AllClauses

\* Doing nothing, and one thing after the other.
LEMMA FollowsTrans ==
  ASSUME NEW F \in Formulas, NEW G, NEW H, Follows(F, G), Follows(G, H)
  PROVE  Follows(F, H)
BY DEF Follows

\* Leaving a database as it is rewrites it.
LEMMA RewrittenSame ==
  ASSUME NEW F \in Formulas
  PROVE  Follows(F, F) /\ Rewritten(F, F) /\ Worked(F, F)
BY DEF Rewritten, Follows, Worked

\* One rewriting after another is a rewriting.
LEMMA RewrittenTrans ==
  ASSUME NEW F \in Formulas, NEW G, NEW H, Rewritten(F, G), Rewritten(G, H)
  PROVE  Rewritten(F, H)
BY DEF Rewritten, Follows

\* The same of work that may change the irredundant clauses.
LEMMA WorkedTrans ==
  ASSUME NEW F \in Formulas, NEW G, NEW H, Worked(F, G), Worked(G, H)
  PROVE  Worked(F, H)
BY DEF Worked, Follows

\* A clause of an assignment has a literal that is true in it.
LEMMA Opposite ==
  ASSUME NEW A \in Assignments, NEW U \in SUBSET A
  PROVE  /\ A \in SUBSET Lits
         /\ \A l \in Lits : l \in A <=> -l \notin A
         /\ \A l \in A : l \notin Negated(U)
PROOF
  <1>1. A \in SUBSET Lits /\ \A l \in Lits : l \in A <=> -l \notin A
    BY AssignmentIff
  <1>2. \A l \in A : l \in Negated(U) <=> -l \in U
    BY <1>1, NegatedMember
  <1>. QED
    BY <1>1, <1>2

-----------------------------------------------------------------------------
(***************************************************************************)
(* New clauses, units and removed clauses.                                 *)
(***************************************************************************)
\* A literal that becomes fixed, or contradicts a fixed one.
LEMMA AssignShape ==
  ASSUME NEW F \in Dbs, NEW l \in Lits, NEW G, G = assign_unit(F, l)
  PROVE  /\ G \in Dbs /\ G.irr = F.irr /\ G.red = F.red
         /\ \/ l \in F.units /\ G = F
            \/ -l \in F.units /\ G.unsat /\ G.units = F.units
            \/ G.units = F.units \cup {l} /\ G.unsat = F.unsat
PROOF
  <1>0. /\ F.irr \in SUBSET Clauses /\ F.red \in SUBSET Clauses
        /\ F.units \in SUBSET Lits /\ F.unsat \in BOOLEAN
    BY DEF Dbs
  <1>1. CASE l \in F.units
    BY <1>1, Zenon DEF assign_unit
  <1>2. CASE l \notin F.units /\ -l \in F.units
    <2>1. G = [F EXCEPT !.unsat = TRUE]
      BY <1>2 DEF assign_unit
    <2>. QED
      BY <1>0, <1>2, <2>1 DEF Dbs
  <1>3. CASE l \notin F.units /\ -l \notin F.units
    <2>1. G = [F EXCEPT !.units = @ \cup {l}]
      BY <1>3 DEF assign_unit
    <2>. QED
      BY <1>0, <2>1 DEF Dbs
  <1>. QED
    BY <1>1, <1>2, <1>3

\* The new clause is empty, a unit or one of the clauses.
Extended(F, c, red, G) ==
  /\ G \in Dbs
  /\ \/ c = {} /\ G.unsat /\ G.irr = F.irr /\ G.red = F.red /\ G.units = F.units
     \/ /\ \E l \in Lits :
             /\ c = {l}
             /\ \/ l \in F.units /\ G = F
                \/ -l \in F.units /\ G.unsat /\ G.units = F.units
                \/ G.units = F.units \cup {l} /\ G.unsat = F.unsat
        /\ G.irr = F.irr /\ G.red = F.red
     \/ /\ Cardinality(c) >= 2 /\ G.units = F.units /\ G.unsat = F.unsat
        /\ red => G.irr = F.irr /\ G.red = F.red \cup {c}
        /\ ~red => G.irr = F.irr \cup {c} /\ G.red = F.red
  
\* The fields of a database with a new clause.
LEMMA NewShape ==
  ASSUME NEW F \in Dbs, NEW c \in SUBSET Lits, NEW red \in BOOLEAN,
         NEW G, G = new_clause(F, c, red)
  PROVE  Extended(F, c, red, G)
PROOF
  <1>0. /\ F.irr \in SUBSET Clauses /\ F.red \in SUBSET Clauses
        /\ F.units \in SUBSET Lits /\ F.unsat \in BOOLEAN /\ c \in Clauses
    BY DEF Dbs, Clauses
  <1>1. CASE c = {}
    <2>1. G = [F EXCEPT !.unsat = TRUE]
      BY <1>1, Zenon DEF new_clause
    <2>. QED
      BY <1>0, <1>1, <2>1 DEF Dbs, Extended
  <1>2. CASE c # {} /\ Cardinality(c) = 1
    <2> DEFINE l == CHOOSE x \in c : TRUE
    <2>1. G = assign_unit(F, l) /\ c = {l} /\ l \in Lits
      BY <1>2, OneLiteral DEF new_clause
    <2> HIDE DEF l
    <2>. QED
      BY <2>1, AssignShape DEF Extended
  <1>3. CASE c # {} /\ Cardinality(c) # 1
    <2>1. Cardinality(c) >= 2
      BY <1>3, OneLiteral, FS_EmptySet
    <2>2. CASE red
      <3>1. G = [F EXCEPT !.red = @ \cup {c}]
        BY <1>3, <2>2 DEF new_clause
      <3>. QED
        BY <1>0, <2>1, <2>2, <3>1 DEF Dbs, Extended
    <2>3. CASE ~red
      <3>1. G = [F EXCEPT !.irr = @ \cup {c}]
        BY <1>3, <2>3 DEF new_clause
      <3>. QED
        BY <1>0, <2>1, <2>3, <3>1 DEF Dbs, Extended
    <2>. QED
      BY <2>2, <2>3
  <1>. QED
    BY <1>1, <1>2, <1>3

\* What an assigned literal means.
LEMMA AssignMeans ==
  ASSUME NEW F \in Formulas, NEW l \in Lits, NEW G, G = assign_unit(F, l)
  PROVE  /\ G \in Formulas /\ G.irr = F.irr /\ G.red = F.red /\ F.units \subseteq G.units
         /\ F.unsat => G.unsat
         /\ \A A \in DbModels(F) : l \in A => A \in DbModels(G)
         /\ \A A \in Lean(G) : A \in Lean(F) /\ l \in A
         /\ \A L : F.units \subseteq L /\ l \in L => G.units \subseteq L
PROOF
  <1>1. /\ G \in Dbs /\ G.irr = F.irr /\ G.red = F.red
        /\ \/ l \in F.units /\ G = F
           \/ -l \in F.units /\ G.unsat /\ G.units = F.units
           \/ G.units = F.units \cup {l} /\ G.unsat = F.unsat
    BY FormulaParts, AssignShape
  <1>2. G \in Formulas
    BY <1>1, FormulaOf, FormulaParts
  <1>3. ASSUME NEW A \in DbModels(F), l \in A PROVE A \in DbModels(G)
    <2>1. A \in Assignments /\ ~F.unsat /\ F.units \subseteq A /\ \A c \in F.irr \cup F.red : c \cap A # {}
      BY FormulaParts, DbModel
    <2>2. -l \notin F.units
      BY <1>3, <2>1, Opposite
    <2>. QED
      BY <1>1, <1>3, <2>1, <2>2, DbModel
  <1>4. ASSUME NEW A \in Lean(G) PROVE A \in Lean(F) /\ l \in A
    BY <1>1 DEF Lean
  <1>. QED
    BY <1>1, <1>2, <1>3, <1>4

\* What a new clause means.
LEMMA NewMeans ==
  ASSUME NEW F \in Formulas, NEW c, IsClause(c), NEW red \in BOOLEAN,
         NEW G, G = new_clause(F, c, red)
  PROVE  /\ G \in Formulas /\ F.units \subseteq G.units
         /\ F.unsat => G.unsat
         /\ F.irr \subseteq G.irr /\ F.red \subseteq G.red
         /\ red => G.irr = F.irr
         /\ ~red => G.red = F.red
         /\ \A A \in DbModels(F) : c \cap A # {} => A \in DbModels(G)
         /\ \A A \in Lean(G) : A \in Lean(F) /\ (~red => c \cap A # {})
         /\ \A L : F.units \subseteq L /\ c \subseteq L => G.units \subseteq L
         /\ \A d \in G.irr : d = c \/ d \in F.irr
         /\ \A d \in G.red : d = c \/ d \in F.red
PROOF
  <1>0. F \in Dbs
    BY FormulaParts
  <1>1. c \in SUBSET Lits
    BY DEF IsClause
  <1>2. /\ G \in Dbs
        /\ \/ c = {} /\ G.unsat /\ G.irr = F.irr /\ G.red = F.red /\ G.units = F.units
           \/ /\ \E l \in Lits :
                   /\ c = {l}
                   /\ \/ l \in F.units /\ G = F
                      \/ -l \in F.units /\ G.unsat /\ G.units = F.units
                      \/ G.units = F.units \cup {l} /\ G.unsat = F.unsat
              /\ G.irr = F.irr /\ G.red = F.red
           \/ /\ Cardinality(c) >= 2 /\ G.units = F.units /\ G.unsat = F.unsat
              /\ red => G.irr = F.irr /\ G.red = F.red \cup {c}
              /\ ~red => G.irr = F.irr \cup {c} /\ G.red = F.red
    <2>1. Extended(F, c, red, G)
      BY <1>0, <1>1, NewShape
    <2>. QED
      BY <2>1 DEF Extended
  <1>3. \A d \in G.irr \cup G.red : d \in F.irr \cup F.red \/ (d = c /\ Cardinality(c) >= 2)
    BY <1>2
  <1>4. G \in Formulas
    BY <1>2, <1>3, FormulaOf, FormulaParts
  <1>5. ASSUME NEW A \in DbModels(F), c \cap A # {} PROVE A \in DbModels(G)
    <2>1. A \in Assignments /\ ~F.unsat /\ F.units \subseteq A /\ \A d \in F.irr \cup F.red : d \cap A # {}
      BY FormulaParts, DbModel
    <2>2. \A l \in Lits : c = {l} => l \in A /\ -l \notin F.units
      BY <1>5, <2>1, Opposite
    <2>3. ~G.unsat /\ G.units \subseteq A
      BY <1>2, <1>5, <2>1, <2>2
    <2>4. \A d \in G.irr \cup G.red : d \cap A # {}
      BY <1>3, <1>5, <2>1
    <2>. QED
      BY <1>2, <2>1, <2>3, <2>4, DbModel
  <1>6. ASSUME NEW A \in Lean(G) PROVE A \in Lean(F) /\ (~red => c \cap A # {})
    <2>1. A \in Assignments /\ ~G.unsat /\ G.units \subseteq A /\ \A d \in G.irr : d \cap A # {}
      BY DEF Lean
    <2>2. ~F.unsat /\ F.units \subseteq A /\ F.irr \subseteq G.irr
      BY <1>2, <2>1
    <2>3. ~red => c \cap A # {}
      BY <1>2, <2>1
    <2>. QED
      BY <2>1, <2>2, <2>3 DEF Lean
  <1>7. /\ F.irr \subseteq G.irr /\ F.red \subseteq G.red /\ F.units \subseteq G.units
        /\ F.unsat => G.unsat
        /\ red => G.irr = F.irr
        /\ ~red => G.red = F.red
    BY <1>2
  <1>8. \A L : F.units \subseteq L /\ c \subseteq L => G.units \subseteq L
    BY <1>2
  <1>9. (\A d \in G.irr : d = c \/ d \in F.irr) /\ (\A d \in G.red : d = c \/ d \in F.red)
    BY <1>2
  <1>. QED
    BY <1>4, <1>5, <1>6, <1>7, <1>8, <1>9

\* Clauses are removed.
LEMMA FewerMeans ==
  ASSUME NEW F \in Formulas, NEW G \in Dbs, G.irr \subseteq F.irr, G.red \subseteq F.red,
         G.units = F.units, G.unsat = F.unsat
  PROVE  /\ Follows(F, G)
         /\ (\A A \in Lean(G) : \A c \in F.irr : c \cap A # {}) => Rewritten(F, G)
         /\ G.red = F.red => Worked(F, G)
PROOF
  <1>1. G \in Formulas
    BY FormulaOf, FormulaParts
  <1>2. DbModels(F) \subseteq DbModels(G)
    BY FormulaParts, DbModel
  <1>3. Follows(F, G)
    BY <1>1, <1>2 DEF Follows
  <1>4. (\A A \in Lean(G) : \A c \in F.irr : c \cap A # {}) => Lean(G) \subseteq Lean(F)
    BY DEF Lean
  <1>5. \A L : (Uses(F, L) => Uses(G, L)) /\ (UsesIrr(F, L) => UsesIrr(G, L))
    BY DEF Uses, UsesIrr, AllClauses
  <1>. QED
    BY <1>3, <1>4, <1>5 DEF Rewritten, Worked

-----------------------------------------------------------------------------
(***************************************************************************)
(* Propagation to the end.                                                 *)
(***************************************************************************)
\* Propagation adds literals of the clauses only.
LEMMA PropagationUses ==
  ASSUME NEW C, NEW U \in SUBSET Lits, NEW L, U \subseteq L, \A c \in C : c \subseteq L
  PROVE  Propagation(C, U) \subseteq L
PROOF
  <1>0. N \in Nat
    BY NAssumption
  <1>1. PICK f : /\ f[0] = U
                 /\ \A i \in 1..N : f[i] = Round(C, f[i - 1])
                 /\ Propagation(C, U) = f[N]
    BY PropagationRounds
  <1>2. \A i \in 1..N : f[i - 1] \in SUBSET L => f[i] \in SUBSET L
    BY <1>1 DEF Round, Forced
  <1>3. \A i \in 0..N : f[i] \in SUBSET L
    <2>1. f[0] \in SUBSET L
      BY <1>1
    <2>. QED
      BY <1>0, <1>2, <2>1, RunInd
  <1>. QED
    BY <1>0, <1>1, <1>3

\* The variables of literals.
LEMMA VariableOf ==
  ASSUME NEW l \in Lits
  PROVE  /\ vidx(l) \in Vars /\ (l = vidx(l) \/ l = -vidx(l))
         /\ vidx(-l) = vidx(l)
         /\ \A k \in Lits : vidx(k) = vidx(l) <=> k = l \/ k = -l
         /\ \A v \in Vars : v \in Lits /\ -v \in Lits /\ vidx(v) = v /\ vidx(-v) = v
BY NAssumption DEF vidx, Lits, Vars

\* A set without opposite literals that has as many literals as there are
\* variables decides all of them.
LEMMA AllDecided ==
  ASSUME NEW P \in SUBSET Lits, P \cap Negated(P) = {}, Cardinality(P) >= N, NEW l \in Lits
  PROVE  l \in P \/ -l \in P
PROOF
  <1> SUFFICES ASSUME l \notin P, -l \notin P PROVE FALSE
    OBVIOUS
  <1> DEFINE T == Vars \ {vidx(l)}
             f == [k \in P |-> vidx(k)]
  <1>1. IsFiniteSet(Vars) /\ Cardinality(Vars) = N
    BY NAssumption, FS_Interval DEF Vars
  <1>2. IsFiniteSet(T) /\ Cardinality(T) = N - 1
    BY <1>1, VariableOf, FS_RemoveElement
  <1>3. f \in [P -> T]
    BY VariableOf
  <1>4. ASSUME NEW j \in P, NEW k \in P, vidx(j) = vidx(k) PROVE j = k
    <2>1. -k \notin P
      <3>1. -k \in Lits /\ -(-k) = k
        BY Literal
      <3>2. k \in Negated(P) <=> -k \in P
        BY NegatedMember
      <3>. QED
        BY <3>2
    <2>. QED
      BY <1>4, <2>1, VariableOf
  <1>5. f \in Injection(P, T)
    BY <1>3, <1>4 DEF Injection, IsInjective
  <1> HIDE DEF T, f
  <1>6. Cardinality(P) <= N - 1
    BY <1>2, <1>5, FS_Injection
  <1>. QED
    BY <1>6, NAssumption, OneLiteral

\* Without a conflict, propagation is complete.
LEMMA Saturated ==
  ASSUME NEW C \in SUBSET Clauses, NEW U \in SUBSET Lits, ~Conflicting(C, U)
  PROVE  Forced(C, Propagation(C, U)) \subseteq Propagation(C, U)
PROOF
  <1> DEFINE P == Propagation(C, U)
  <1>0. N \in Nat
    BY NAssumption
  <1>1. PICK f : /\ f[0] = U
                 /\ \A i \in 1..N : f[i] = Round(C, f[i - 1])
                 /\ Propagation(C, U) = f[N]
    BY PropagationRounds
  <1> DEFINE Right(i) == /\ f[i] \in SUBSET Lits
                         /\ Forced(C, f[i]) \subseteq f[i] \/ Cardinality(f[i]) >= i
             Good == {i \in Nat : i <= N => Right(i)}
  <1>2. 0 \in Good
    BY <1>1, OneLiteral
  <1>3. ASSUME NEW i \in Nat, i \in Good PROVE i + 1 \in Good
    <2> SUFFICES ASSUME i + 1 <= N PROVE Right(i + 1)
      OBVIOUS
    <2>1. Right(i)
      BY <1>0, <1>3
    <2>2. f[i + 1] = f[i] \cup Forced(C, f[i])
      BY <1>0, <1>1 DEF Round
    <2>3. f[i + 1] \in SUBSET Lits
      BY <2>1, <2>2 DEF Forced
    <2>4. CASE Forced(C, f[i]) \subseteq f[i]
      <3>1. f[i + 1] = f[i]
        BY <2>2, <2>4
      <3>. QED
        BY <2>3, <2>4, <3>1
    <2>5. CASE ~(Forced(C, f[i]) \subseteq f[i])
      <3>1. PICK l \in Forced(C, f[i]) : l \notin f[i]
        BY <2>5
      <3>2. IsFiniteSet(f[i]) /\ IsFiniteSet(f[i + 1]) /\ Cardinality(f[i]) \in Nat /\ Cardinality(f[i + 1]) \in Nat
        BY <2>1, <2>3, OneLiteral
      <3>3. Cardinality(f[i] \cup {l}) = Cardinality(f[i]) + 1 /\ IsFiniteSet(f[i] \cup {l})
        BY <3>1, <3>2, FS_AddElement
      <3>4. Cardinality(f[i] \cup {l}) <= Cardinality(f[i + 1])
        BY <2>2, <3>1, <3>2, FS_Subset
      <3>. QED
        BY <2>1, <2>3, <2>5, <3>2, <3>3, <3>4
    <2>. QED
      BY <2>4, <2>5
  <1> HIDE DEF Good
  <1>4. Nat \subseteq Good
    BY <1>2, <1>3, NatInd
  <1>5. Right(N)
    BY <1>0, <1>4 DEF Good
  <1>6. P \in SUBSET Lits /\ (Forced(C, P) \subseteq P \/ Cardinality(P) >= N)
    BY <1>1, <1>5
  <1> HIDE DEF P
  <1>7. P \cap Negated(P) = {} /\ \A c \in C : ~(c \subseteq Negated(P))
    BY DEF Conflicting, P
  <1>8. ASSUME Cardinality(P) >= N, NEW l \in Forced(C, P), l \notin P PROVE FALSE
    <2>1. PICK c \in C : l \in c /\ c \ {l} \subseteq Negated(P)
      BY DEF Forced
    <2>2. l \in Lits
      BY DEF Forced
    <2>3. -l \in P
      BY <1>6, <1>7, <1>8, <2>2, AllDecided
    <2>4. l \in Negated(P)
      BY <1>6, <2>2, <2>3, NegatedMember
    <2>. QED
      BY <1>7, <2>1, <2>4
  <1>9. Forced(C, P) \subseteq P
    BY <1>6, <1>8
  <1>. QED
    BY <1>9 DEF P

\* A conflict leaves no assignment.
LEMMA ConflictMeans ==
  ASSUME NEW C \in SUBSET Clauses, NEW U \in SUBSET Lits, Conflicting(C, U),
         NEW A \in Assignments, U \subseteq A
  PROVE  \E c \in C : c \cap A = {}
PROOF
  <1> SUFFICES ASSUME \A c \in C : c \cap A # {} PROVE FALSE
    OBVIOUS
  <1> DEFINE P == Propagation(C, U)
  <1>1. P \subseteq A
    BY PropagationTrue
  <1>2. P \cap Negated(P) # {} \/ \E c \in C : c \subseteq Negated(P)
    BY DEF Conflicting
  <1> HIDE DEF P
  <1>3. \A l \in A : l \notin Negated(P)
    BY <1>1, Opposite
  <1>. QED
    BY <1>1, <1>2, <1>3

\* Every clause is true or has two literals left.
Propagated(F) == \A c \in AllClauses(F) : fixedTrue(F, c) \/ Cardinality(Remaining(F, c)) >= 2

\* Propagating at level zero.
LEMMA PropagateMeans ==
  ASSUME NEW F \in Formulas, NEW G, G = propagate(F)
  PROVE  /\ Rewritten(F, G)
         /\ G.irr = F.irr /\ G.red = F.red
         /\ ~G.unsat => Propagated(G)
PROOF
  <1> DEFINE P == Propagation(AllClauses(F), F.units)
  <1>0. /\ F \in Dbs /\ F.irr \in SUBSET Clauses /\ F.red \in SUBSET Clauses
        /\ F.units \in SUBSET Lits /\ F.unsat \in BOOLEAN
        /\ AllClauses(F) = F.irr \cup F.red /\ AllClauses(F) \in SUBSET Clauses
    BY FormulaParts
  <1>1. G \in Dbs /\ G.irr = F.irr /\ G.red = F.red /\ DbModels(G) = DbModels(F)
    BY <1>0, PropagateKeeps
  <1>2. G \in Formulas
    BY <1>1, FormulaOf, FormulaParts
  <1>3. AllClauses(G) = AllClauses(F)
    BY <1>1 DEF AllClauses
  <1>4. CASE F.unsat \/ Conflicting(AllClauses(F), F.units)
    <2>1. G = [F EXCEPT !.unsat = TRUE]
      BY <1>4 DEF propagate
    <2>2. G.unsat /\ G.units = F.units
      BY <1>0, <2>1 DEF Dbs
    <2>3. Lean(G) = {}
      BY <2>2 DEF Lean
    <2>4. \A L : Uses(F, L) => Uses(G, L)
      BY <1>3, <2>2 DEF Uses
    <2>. QED
      BY <1>1, <1>2, <2>2, <2>3, <2>4 DEF Rewritten, Follows
  <1>5. CASE ~(F.unsat \/ Conflicting(AllClauses(F), F.units))
    <2>1. G = [F EXCEPT !.units = P]
      BY <1>5 DEF propagate
    <2>2. G.unsat = F.unsat /\ G.units = P
      BY <1>0, <2>1 DEF Dbs
    <2>3. F.units \subseteq P /\ P \in SUBSET Lits
      BY <1>0, PropagationTrue
    <2>4. Lean(G) \subseteq Lean(F)
      BY <1>1, <2>2, <2>3 DEF Lean
    <2>5. ASSUME NEW L, Uses(F, L) PROVE Uses(G, L)
      BY <1>0, <1>3, <2>2, <2>5, PropagationUses DEF Uses
    <2>6. Forced(AllClauses(F), P) \subseteq P
      BY <1>0, <1>5, Saturated
    <2>7. \A c \in AllClauses(F) : ~(c \subseteq Negated(P))
      BY <1>5 DEF Conflicting
    <2> HIDE DEF P
    <2>8. ASSUME NEW c \in AllClauses(G), ~fixedTrue(G, c) PROVE Cardinality(Remaining(G, c)) >= 2
      <3> DEFINE R == Remaining(G, c)
      <3>0. R = c \ Negated(P) /\ c \cap P = {}
        BY <2>2, <2>8 DEF Remaining, fixedTrue
      <3>1. c \in SUBSET Lits /\ R \in SUBSET Lits
        BY <1>0, <1>3, <3>0 DEF Clauses
      <3> HIDE DEF R
      <3>2. IsFiniteSet(R) /\ Cardinality(R) \in Nat /\ (Cardinality(R) = 0 <=> R = {})
        BY <3>1, OneLiteral, FS_EmptySet
      <3>3. R # {}
        BY <1>3, <2>7, <3>0
      <3>4. ASSUME NEW l, R = {l} PROVE FALSE
        <4>1. l \in Lits /\ l \in c /\ c \ {l} \subseteq Negated(P)
          BY <3>0, <3>1, <3>4
        <4>2. l \in P
          BY <1>3, <2>6, <4>1 DEF Forced
        <4>. QED
          BY <3>0, <4>1, <4>2
      <3>5. Cardinality(R) # 1
        BY <3>2, <3>4, FS_Singleton
      <3>. QED
        BY <3>2, <3>3, <3>5 DEF R
    <2>. QED
      BY <1>1, <1>2, <2>2, <2>3, <2>4, <2>5, <2>8 DEF Rewritten, Follows, Propagated
  <1>. QED
    BY <1>4, <1>5

\* Propagating over the irredundant clauses.
LEMMA ElimPropagateMeans ==
  ASSUME NEW F \in Formulas, NEW G, G = elim_propagate(F)
  PROVE  /\ Worked(F, G)
         /\ Lean(G) \subseteq Lean(F)
         /\ G.irr \subseteq F.irr
PROOF
  <1> DEFINE P == Propagation(F.irr, F.units)
  <1>0. /\ F \in Dbs /\ F.irr \in SUBSET Clauses /\ F.red \in SUBSET Clauses
        /\ F.units \in SUBSET Lits /\ F.unsat \in BOOLEAN
        /\ AllClauses(F) = F.irr \cup F.red
    BY FormulaParts
  <1>1. /\ F.units \subseteq P /\ P \in SUBSET Lits
        /\ \A A \in DbModels(F) : P \subseteq A
    <2>1. \A A \in DbModels(F) : A \in Assignments /\ F.units \subseteq A /\ \A c \in F.irr : c \cap A # {}
      BY <1>0, DbModel
    <2>. QED
      BY <1>0, <2>1, PropagationTrue
  <1>2. CASE F.unsat \/ Conflicting(F.irr, F.units)
    <2>1. G = [F EXCEPT !.unsat = TRUE]
      BY <1>2 DEF elim_propagate
    <2>2. G \in Dbs /\ G.unsat /\ G.units = F.units /\ G.irr = F.irr /\ G.red = F.red
      BY <1>0, <2>1 DEF Dbs
    <2>3. Lean(G) = {}
      BY <2>2 DEF Lean
    <2>4. ASSUME NEW A \in DbModels(F) PROVE FALSE
      <3>1. A \in Assignments /\ ~F.unsat /\ F.units \subseteq A /\ \A c \in F.irr : c \cap A # {}
        BY <1>0, DbModel
      <3>. QED
        BY <1>0, <1>2, <3>1, ConflictMeans
    <2>5. G \in Formulas
      BY <2>2, FormulaOf, FormulaParts
    <2>6. \A L : UsesIrr(F, L) => UsesIrr(G, L)
      BY <2>2 DEF UsesIrr
    <2>. QED
      BY <2>2, <2>3, <2>4, <2>5, <2>6 DEF Worked, Follows
  <1>3. CASE ~(F.unsat \/ Conflicting(F.irr, F.units))
    <2>1. G = [F EXCEPT !.units = P, !.irr = {c \in @ : c \cap P = {}}]
      BY <1>3 DEF elim_propagate
    <2>2. /\ G \in Dbs /\ G.unsat = F.unsat /\ G.units = P /\ G.red = F.red
          /\ G.irr = {c \in F.irr : c \cap P = {}}
      <3> HIDE DEF P
      <3>. QED
        BY <1>0, <1>1, <2>1 DEF Dbs
    <2>3. G \in Formulas
      BY <1>0, <2>2, FormulaOf, FormulaParts
    <2>4. ASSUME NEW L, UsesIrr(F, L) PROVE UsesIrr(G, L)
      BY <1>0, <2>2, <2>4, PropagationUses DEF UsesIrr
    <2> HIDE DEF P
    <2>5. DbModels(F) \subseteq DbModels(G)
      BY <1>0, <1>1, <2>2, DbModel
    <2>6. Lean(G) \subseteq Lean(F)
      BY <1>1, <2>2 DEF Lean
    <2>. QED
      BY <1>1, <2>2, <2>3, <2>4, <2>5, <2>6 DEF Worked, Follows
  <1>. QED
    BY <1>2, <1>3

-----------------------------------------------------------------------------
(***************************************************************************)
(* Derived clauses.                                                        *)
(***************************************************************************)
\* The literals that occur in clauses.
Occurring(F) == UNION AllClauses(F)

\* A consequence is added.
LEMMA DerivedMeans ==
  ASSUME NEW F \in Formulas, NEW c, IsClause(c), NEW red \in BOOLEAN,
         \A A \in DbModels(F) : c \cap A # {},
         NEW G, G = new_clause(F, c, red)
  PROVE  /\ Follows(F, G) /\ Lean(G) \subseteq Lean(F)
         /\ \A L : Uses(F, L) /\ c \subseteq L => Uses(G, L)
         /\ \A L : UsesIrr(F, L) /\ c \subseteq L /\ ~red => UsesIrr(G, L)
         /\ c \subseteq Occurring(F) => Rewritten(F, G)
         /\ c \subseteq UNION F.irr /\ ~red => Worked(F, G)
PROOF
  <1>1. /\ G \in Formulas /\ F.units \subseteq G.units
        /\ F.unsat => G.unsat
        /\ ~red => G.red = F.red
        /\ \A A \in DbModels(F) : c \cap A # {} => A \in DbModels(G)
        /\ \A A \in Lean(G) : A \in Lean(F)
        /\ \A L : F.units \subseteq L /\ c \subseteq L => G.units \subseteq L
        /\ \A d \in G.irr : d = c \/ d \in F.irr
        /\ \A d \in G.red : d = c \/ d \in F.red
    BY NewMeans
  <1>2. Follows(F, G)
    BY <1>1 DEF Follows
  <1>3. ASSUME NEW L, Uses(F, L), c \subseteq L PROVE Uses(G, L)
    BY <1>1, <1>3 DEF Uses, AllClauses
  <1>4. ASSUME NEW L, UsesIrr(F, L), c \subseteq L PROVE UsesIrr(G, L)
    BY <1>1, <1>4 DEF UsesIrr
  <1>5. ASSUME c \subseteq Occurring(F) PROVE Rewritten(F, G)
    <2>1. \A L : Uses(F, L) => c \subseteq L
      BY <1>5 DEF Occurring, Uses
    <2>. QED
      BY <1>1, <1>2, <1>3, <2>1 DEF Rewritten
  <1>6. ASSUME c \subseteq UNION F.irr, ~red PROVE Worked(F, G)
    <2>1. \A L : UsesIrr(F, L) => c \subseteq L
      BY <1>6 DEF UsesIrr
    <2>. QED
      BY <1>1, <1>2, <1>4, <1>6, <2>1 DEF Worked
  <1>. QED
    BY <1>1, <1>2, <1>3, <1>4, <1>5, <1>6

\* A literal that every model has becomes fixed.
LEMMA UnitMeans ==
  ASSUME NEW F \in Formulas, NEW l \in Lits, \A A \in DbModels(F) : l \in A,
         NEW G, G = assign_unit(F, l)
  PROVE  /\ Follows(F, G) /\ Lean(G) \subseteq Lean(F)
         /\ G.irr = F.irr /\ G.red = F.red
         /\ l \in Occurring(F) => Rewritten(F, G)
         /\ l \in UNION F.irr => Worked(F, G)
PROOF
  <1>1. /\ G \in Formulas /\ G.irr = F.irr /\ G.red = F.red /\ F.units \subseteq G.units
        /\ F.unsat => G.unsat
        /\ \A A \in DbModels(F) : l \in A => A \in DbModels(G)
        /\ \A A \in Lean(G) : A \in Lean(F)
        /\ \A L : F.units \subseteq L /\ l \in L => G.units \subseteq L
    BY AssignMeans
  <1>2. Follows(F, G)
    BY <1>1 DEF Follows
  <1>3. ASSUME l \in Occurring(F), NEW L, Uses(F, L) PROVE Uses(G, L)
    BY <1>1, <1>3 DEF Uses, AllClauses, Occurring
  <1>4. ASSUME l \in UNION F.irr, NEW L, UsesIrr(F, L) PROVE UsesIrr(G, L)
    BY <1>1, <1>4 DEF UsesIrr
  <1>. QED
    BY <1>1, <1>2, <1>3, <1>4 DEF Rewritten, Worked

\* The clauses of one kind without one of them.
Without(F, c, red, G) ==
  /\ G \in Formulas
  /\ G.irr = (IF red THEN F.irr ELSE F.irr \ {c})
  /\ G.red = (IF red THEN F.red \ {c} ELSE F.red)
  /\ G.units = F.units /\ G.unsat = F.unsat
  /\ DbModels(F) \subseteq DbModels(G)
  /\ Follows(F, G)
  /\ red => Rewritten(F, G)
  /\ \A L : (Uses(F, L) => Uses(G, L)) /\ (UsesIrr(F, L) => UsesIrr(G, L))

\* Deleting a clause of one kind leaves the others as they are.
LEMMA DeletedShape ==
  ASSUME NEW F \in Formulas, NEW red \in BOOLEAN, NEW c
  PROVE  Without(F, c, red, Deleted(F, c, red))
PROOF
  <1> DEFINE G == Deleted(F, c, red)
  <1>0. /\ F \in Dbs /\ F.irr \in SUBSET Clauses /\ F.red \in SUBSET Clauses
        /\ F.units \in SUBSET Lits /\ F.unsat \in BOOLEAN
    BY FormulaParts
  <1>1. /\ G \in Dbs
        /\ G.irr = (IF red THEN F.irr ELSE F.irr \ {c})
        /\ G.red = (IF red THEN F.red \ {c} ELSE F.red)
        /\ G.units = F.units /\ G.unsat = F.unsat
    BY <1>0 DEF Deleted, Dbs
  <1> HIDE DEF G
  <1>2. Follows(F, G)
    BY <1>1, FewerMeans
  <1>3. G \in Formulas /\ DbModels(F) \subseteq DbModels(G)
    BY <1>2 DEF Follows
  <1>4. ASSUME red PROVE Rewritten(F, G)
    <2>1. G.irr = F.irr
      BY <1>1, <1>4
    <2>2. \A A \in Lean(G) : \A d \in F.irr : d \cap A # {}
      BY <2>1 DEF Lean
    <2>. QED
      BY <1>1, <2>1, <2>2, FewerMeans
  <1>5. \A L : (Uses(F, L) => Uses(G, L)) /\ (UsesIrr(F, L) => UsesIrr(G, L))
    BY <1>1 DEF Uses, UsesIrr, AllClauses
  <1>. QED
    BY <1>1, <1>2, <1>3, <1>4, <1>5 DEF Without, G

\* A clause of a formula.
LEMMA ClauseOf ==
  ASSUME NEW F \in Formulas, NEW red \in BOOLEAN, NEW c \in Of(F, red)
  PROVE  /\ c \in AllClauses(F) /\ IsClause(c) /\ c \in SUBSET Lits
         /\ c \subseteq Occurring(F)
         /\ ~red => c \in F.irr
         /\ red => c \in F.red
         /\ \A e \in SUBSET c : IsClause(e)
PROOF
  <1>1. c \in AllClauses(F) /\ (~red => c \in F.irr) /\ (red => c \in F.red)
    BY FormulaParts DEF Of
  <1>2. IsClause(c) /\ c \in SUBSET Lits
    BY <1>1, FormulaParts
  <1>3. \A e \in SUBSET c : IsClause(e)
    BY <1>2 DEF IsClause, Negated
  <1>. QED
    BY <1>1, <1>2, <1>3 DEF Occurring

\* A clause is replaced by a part of it that follows.
LEMMA StrengthenMeans ==
  ASSUME NEW F \in Formulas, NEW red \in BOOLEAN, NEW c \in Of(F, red), NEW e \in SUBSET c,
         \A A \in DbModels(F) : e \cap A # {},
         NEW G, G = new_clause(Deleted(F, c, red), e, red)
  PROVE  /\ Rewritten(F, G)
         /\ ~red => Worked(F, G)
PROOF
  <1> DEFINE D == Deleted(F, c, red)
  <1>1. /\ c \in AllClauses(F) /\ IsClause(e) /\ c \subseteq Occurring(F)
        /\ ~red => c \in F.irr
    BY ClauseOf
  <1>2. /\ D \in Formulas
        /\ D.irr = (IF red THEN F.irr ELSE F.irr \ {c})
        /\ D.red = (IF red THEN F.red \ {c} ELSE F.red)
        /\ D.units = F.units /\ D.unsat = F.unsat
        /\ DbModels(F) \subseteq DbModels(D)
        /\ \A L : (Uses(F, L) => Uses(D, L)) /\ (UsesIrr(F, L) => UsesIrr(D, L))
    <2>1. Without(F, c, red, D)
      BY DeletedShape
    <2> HIDE DEF D
    <2>. QED
      BY <2>1 DEF Without
  <1> HIDE DEF D
  <1>3. /\ G \in Formulas /\ D.units \subseteq G.units
        /\ D.unsat => G.unsat
        /\ ~red => G.red = D.red
        /\ \A A \in DbModels(D) : e \cap A # {} => A \in DbModels(G)
        /\ \A A \in Lean(G) : A \in Lean(D) /\ (~red => e \cap A # {})
        /\ \A L : D.units \subseteq L /\ e \subseteq L => G.units \subseteq L
        /\ \A d \in G.irr : d = e \/ d \in D.irr
        /\ \A d \in G.red : d = e \/ d \in D.red
    <2>1. G = new_clause(D, e, red)
      BY DEF D
    <2>. QED
      BY <1>1, <1>2, <2>1, NewMeans
  <1>4. Follows(F, G)
    BY <1>2, <1>3 DEF Follows
  <1>5. Lean(G) \subseteq Lean(F)
    <2>1. ASSUME NEW A \in Lean(G) PROVE A \in Lean(F)
      <3>1. /\ A \in Assignments /\ ~D.unsat /\ D.units \subseteq A /\ \A d \in D.irr : d \cap A # {}
            /\ ~red => c \cap A # {}
        BY <1>3 DEF Lean
      <3>. QED
        BY <1>2, <3>1 DEF Lean
    <2>. QED
      BY <2>1
  <1>6. ASSUME NEW L, Uses(F, L) PROVE Uses(G, L)
    <2>1. e \subseteq L
      BY <1>1, <1>6 DEF Uses
    <2>2. Uses(D, L)
      BY <1>2, <1>6
    <2>. QED
      BY <1>3, <2>1, <2>2 DEF Uses, AllClauses
  <1>7. ASSUME ~red, NEW L, UsesIrr(F, L) PROVE UsesIrr(G, L)
    <2>1. e \subseteq L
      BY <1>1, <1>7 DEF UsesIrr
    <2>2. UsesIrr(D, L)
      BY <1>2, <1>7
    <2>. QED
      BY <1>3, <2>1, <2>2 DEF UsesIrr
  <1>8. ~red => G.red = F.red
    BY <1>2, <1>3
  <1>. QED
    BY <1>4, <1>5, <1>6, <1>7, <1>8 DEF Rewritten, Worked

-----------------------------------------------------------------------------
(***************************************************************************)
(* Subsumption, ternary resolution and duplicate binary clauses.           *)
(***************************************************************************)
\* The flipped literals of a clause that passed the check.
LEMMA Flips ==
  ASSUME NEW d \in SUBSET Lits, NEW c \in SUBSET Lits, subsume_check(d, c)
  PROVE  \/ flipped(d, c) = {} /\ d \subseteq c
         \/ \E l \in d : /\ flipped(d, c) = {l} /\ -l \in c /\ l \in Lits
                         /\ d \ {l} \subseteq c
PROOF
  <1> DEFINE f == flipped(d, c)
  <1>1. f \in SUBSET Lits /\ d \ f \subseteq c /\ Cardinality(f) <= 1 /\ f \subseteq d /\ f \subseteq Negated(c)
    BY DEF subsume_check, flipped
  <1> HIDE DEF f
  <1>2. IsFiniteSet(f) /\ Cardinality(f) \in Nat
    BY <1>1, OneLiteral
  <1>3. CASE f = {}
    BY <1>1, <1>3 DEF f
  <1>4. CASE f # {}
    <2>1. Cardinality(f) = 1
      BY <1>1, <1>2, <1>4, FS_EmptySet
    <2>2. PICK l : f = {l}
      BY <1>2, <2>1, FS_Singleton
    <2>3. l \in Lits /\ -l \in c
      BY <1>1, <2>2, NegatedMember
    <2>. QED
      BY <1>1, <2>2, <2>3 DEF f
  <1>. QED
    BY <1>3, <1>4

\* Subsumption and strengthening.
LEMMA SubsumeMeans ==
  ASSUME NEW F \in Formulas, NEW cred \in BOOLEAN, NEW dred \in BOOLEAN,
         NEW c \in Of(F, cred), NEW d \in Of(F, dred),
         <<d, dred>> # <<c, cred>>, subsume_check(d, c),
         NEW G, G = try_to_subsume_clause(F, d, dred, c, cred)
  PROVE  Rewritten(F, G)
PROOF
  <1>1. /\ c \in AllClauses(F) /\ IsClause(c) /\ c \in SUBSET Lits
        /\ d \in AllClauses(F) /\ IsClause(d) /\ d \in SUBSET Lits
        /\ ~cred => c \in F.irr
        /\ ~dred => d \in F.irr
        /\ dred => d \in F.red
    BY ClauseOf
  <1>2. CASE flipped(d, c) = {} /\ d \subseteq c
    <2>1. G = subsume_clause(F, d, dred, c, cred)
      BY <1>2 DEF try_to_subsume_clause
    <2>2. CASE cred
      <3>1. Without(F, c, cred, G)
        BY <2>1, <2>2, DeletedShape DEF subsume_clause
      <3>. QED
        BY <2>2, <3>1 DEF Without
    <2>3. CASE ~cred /\ ~dred
      <3>1. G = Deleted(F, c, cred)
        BY <2>1, <2>3 DEF subsume_clause
      <3>2. /\ G \in Formulas /\ G.irr = F.irr \ {c} /\ G.red = F.red
            /\ G.units = F.units /\ G.unsat = F.unsat
        <4>1. Without(F, c, cred, G)
          BY <3>1, DeletedShape
        <4>. QED
          BY <2>3, <4>1 DEF Without
      <3>3. d # c
        BY <2>3
      <3>4. \A A \in Lean(G) : \A b \in F.irr : b \cap A # {}
        <4>1. d \in G.irr
          BY <1>1, <2>3, <3>2, <3>3
        <4>2. \A A \in Lean(G) : c \cap A # {}
          BY <1>2, <4>1 DEF Lean
        <4>. QED
          BY <3>2, <4>2 DEF Lean
      <3>. QED
        BY <3>2, <3>4, FewerMeans, FormulaParts
    <2>4. CASE ~cred /\ dred
      <3> DEFINE D == Deleted(F, c, cred)
      <3>1. /\ D \in Formulas /\ D.irr = F.irr \ {c} /\ D.red = F.red
            /\ D.units = F.units /\ D.unsat = F.unsat
        <4>1. Without(F, c, cred, D)
          BY DeletedShape
        <4> HIDE DEF D
        <4>. QED
          BY <2>4, <4>1 DEF Without
      <3>2. G = [D EXCEPT !.irr = @ \cup {d}, !.red = @ \ {d}]
        BY <2>1, <2>4 DEF subsume_clause
      <3> HIDE DEF D
      <3>3. /\ D \in Dbs /\ d \in Clauses /\ D.irr \in SUBSET Clauses /\ D.red \in SUBSET Clauses
            /\ D.units \in SUBSET Lits /\ D.unsat \in BOOLEAN
        BY <1>1, <3>1, FormulaParts DEF Clauses
      <3>4. /\ G \in Dbs /\ G.irr = (F.irr \ {c}) \cup {d} /\ G.red = F.red \ {d}
            /\ G.units = F.units /\ G.unsat = F.unsat
        <4>1. (D.irr \cup {d}) \in SUBSET Clauses /\ (D.red \ {d}) \in SUBSET Clauses
          BY <3>3
        <4>2. G = [irr |-> D.irr \cup {d}, red |-> D.red \ {d}, units |-> D.units, unsat |-> D.unsat]
          BY <3>2, <3>3 DEF Dbs
        <4>. QED
          BY <3>1, <3>3, <4>1, <4>2 DEF Dbs
      <3>5. \A b \in G.irr \cup G.red : b \in AllClauses(F)
        BY <1>1, <3>4, FormulaParts
      <3>6. G \in Formulas
        BY <3>4, <3>5, FormulaOf, FormulaParts
      <3>7. DbModels(F) \subseteq DbModels(G)
        BY <3>4, <3>5, FormulaParts, DbModel
      <3>8. Lean(G) \subseteq Lean(F)
        <4>1. ASSUME NEW A \in Lean(G) PROVE A \in Lean(F)
          <5>1. A \in Assignments /\ ~F.unsat /\ F.units \subseteq A /\ \A b \in G.irr : b \cap A # {}
            BY <3>4 DEF Lean
          <5>2. d \cap A # {}
            BY <3>4, <5>1
          <5>3. c \cap A # {}
            BY <1>2, <5>2
          <5>. QED
            BY <3>4, <5>1, <5>3 DEF Lean
        <4>. QED
          BY <4>1
      <3>9. \A L : Uses(F, L) => Uses(G, L)
        BY <3>4, <3>5 DEF Uses, AllClauses
      <3>. QED
        BY <3>4, <3>6, <3>7, <3>8, <3>9 DEF Rewritten, Follows
    <2>. QED
      BY <2>2, <2>3, <2>4
  <1>3. ASSUME NEW l \in d, flipped(d, c) = {l}, -l \in c, l \in Lits, d \ {l} \subseteq c
        PROVE  Rewritten(F, G)
    <2>1. (CHOOSE k \in flipped(d, c) : TRUE) = l
      BY <1>3
    <2>2. G = new_clause(Deleted(F, c, cred), c \ {-l}, cred)
      BY <1>3, <2>1 DEF try_to_subsume_clause, strengthen_clause
    <2>3. ASSUME NEW A \in DbModels(F) PROVE (c \ {-l}) \cap A # {}
      <3>1. A \in Assignments /\ c \cap A # {} /\ d \cap A # {}
        BY <1>1, FormulaParts, DbModel
      <3>2. -l \notin d
        BY <1>1, <1>3, NegatedMember, Literal DEF IsClause
      <3>3. -l \in A => l \notin A
        BY <1>3, <3>1, AssignmentIff
      <3>. QED
        BY <1>3, <3>1, <3>2, <3>3
    <2>. QED
      BY <2>2, <2>3, StrengthenMeans
  <1>. QED
    BY <1>1, <1>2, <1>3, Flips

\* The resolvent of two clauses follows from them.
LEMMA ResolventTrue ==
  ASSUME NEW A \in Assignments, NEW c, NEW d, NEW l \in Lits, c \cap A # {}, d \cap A # {}
  PROVE  ((c \ {l}) \cup (d \ {-l})) \cap A # {}
BY AssignmentIff

\* Hyper ternary resolution.
LEMMA TernaryMeans ==
  ASSUME NEW F \in Formulas, NEW cred \in BOOLEAN, NEW dred \in BOOLEAN,
         NEW c \in Of(F, cred), NEW d \in Of(F, dred), NEW pivot \in Lits,
         pivot \in c, -pivot \in d, Cardinality(c) = 3, Cardinality(d) = 3,
         hyper_ternary_resolve(F, c, pivot, d),
         NEW G, G = ternary_lit(F, c, cred, pivot, d, dred)
  PROVE  Rewritten(F, G)
PROOF
  <1> DEFINE r == (c \ {pivot}) \cup (d \ {-pivot})
             red == Cardinality(r) = 3 \/ (cred /\ dred)
             H == new_clause(F, r, red)
  <1>1. /\ c \in AllClauses(F) /\ IsClause(c) /\ c \in SUBSET Lits /\ c \subseteq Occurring(F)
        /\ d \in AllClauses(F) /\ IsClause(d) /\ d \in SUBSET Lits /\ d \subseteq Occurring(F)
        /\ ~cred => c \in F.irr
        /\ ~dred => d \in F.irr
    BY ClauseOf
  <1>2. IsClause(r) /\ r \subseteq Occurring(F) /\ r \in SUBSET Lits
    BY <1>1 DEF hyper_ternary_resolve, IsClause
  <1>3. \A A \in DbModels(F) : r \cap A # {}
    <2>1. \A A \in DbModels(F) : A \in Assignments /\ c \cap A # {} /\ d \cap A # {}
      BY <1>1, FormulaParts, DbModel
    <2>. QED
      BY <2>1, ResolventTrue
  <1>4. red \in BOOLEAN
    OBVIOUS
  <1>5. G = IF Cardinality(r) = 2 THEN Deleted(Deleted(H, c, cred), d, dred) ELSE H
    BY DEF ternary_lit
  <1>6. IsFiniteSet(c) /\ IsFiniteSet(d) /\ IsFiniteSet(r)
    BY <1>1, <1>2, OneLiteral
  <1>7. Cardinality(c \ {pivot}) = 2 /\ Cardinality(d \ {-pivot}) = 2
    <2>1. Cardinality(c \ {pivot}) = Cardinality(c) - 1
      BY <1>6, FS_RemoveElement
    <2>2. Cardinality(d \ {-pivot}) = Cardinality(d) - 1
      BY <1>6, FS_RemoveElement
    <2>. QED
      BY <2>1, <2>2
  <1>8. c \ {pivot} \subseteq r /\ d \ {-pivot} \subseteq r
    OBVIOUS
  <1> HIDE DEF r, H, red
  <1>9. Rewritten(F, H)
    BY <1>2, <1>3, <1>4, DerivedMeans DEF H
  <1>10. CASE Cardinality(r) # 2
    BY <1>5, <1>9, <1>10
  <1>11. CASE Cardinality(r) = 2
    <2>1. c \ {pivot} = r /\ d \ {-pivot} = r
      BY <1>6, <1>7, <1>8, <1>11, FS_Subset
    <2>2. c # r /\ d # r
      BY <1>11
    <2> DEFINE K == Deleted(H, c, cred)
    <2>3. H \in Formulas
      BY <1>9 DEF Rewritten, Follows
    <2>4. /\ K \in Formulas /\ K.irr = (IF cred THEN H.irr ELSE H.irr \ {c})
          /\ K.units = H.units /\ K.unsat = H.unsat /\ Follows(H, K)
          /\ \A L : Uses(H, L) => Uses(K, L)
      <3>1. Without(H, c, cred, K)
        BY <2>3, DeletedShape
      <3> HIDE DEF K
      <3>. QED
        BY <3>1 DEF Without
    <2>5. G = Deleted(K, d, dred)
      BY <1>5, <1>11
    <2> HIDE DEF K
    <2>6. /\ G \in Formulas /\ G.irr = (IF dred THEN K.irr ELSE K.irr \ {d})
          /\ G.units = K.units /\ G.unsat = K.unsat /\ Follows(K, G)
          /\ \A L : Uses(K, L) => Uses(G, L)
      <3>1. Without(K, d, dred, G)
        BY <2>4, <2>5, DeletedShape
      <3>. QED
        BY <3>1 DEF Without
    <2>7. F.irr \subseteq H.irr
      BY <1>2, <1>4, NewMeans DEF H
    <2>8. ~cred \/ ~dred => \A A \in Lean(G) : r \cap A # {}
      <3> SUFFICES ASSUME ~cred \/ ~dred, NEW A \in Lean(G) PROVE r \cap A # {}
        OBVIOUS
      <3>1. ~red
        BY <1>11 DEF red
      <3>2. /\ A \in Assignments /\ ~G.unsat /\ G.units \subseteq A
            /\ \A b \in G.irr : b \cap A # {}
        BY DEF Lean
      <3>3. r \in H.irr
        <4>1. Extended(F, r, red, H)
          BY <1>2, <1>4, FormulaParts, NewShape DEF H
        <4>2. r # {} /\ \A l : r # {l}
          <5>1. Cardinality({}) = 0
            BY FS_EmptySet
          <5>2. ASSUME NEW l, r = {l} PROVE FALSE
            <6>1. Cardinality({l}) = 1
              BY FS_Singleton
            <6>. QED
              BY <1>11, <5>2, <6>1
          <5>3. r # {}
            BY <1>11, <5>1
          <5>. QED
            BY <5>2, <5>3
        <4>. QED
          BY <3>1, <4>1, <4>2 DEF Extended
      <3>4. r \in G.irr
        BY <2>2, <2>4, <2>6, <3>3
      <3>. QED
        BY <3>2, <3>4
    <2>9. Lean(G) \subseteq Lean(F)
      <3> SUFFICES ASSUME NEW A \in Lean(G) PROVE A \in Lean(F)
        OBVIOUS
      <3>1. /\ A \in Assignments /\ ~G.unsat /\ G.units \subseteq A
            /\ \A b \in G.irr : b \cap A # {}
        BY DEF Lean
      <3>2. \A b \in F.irr : b \cap A # {}
        BY <2>1, <2>4, <2>6, <2>7, <2>8, <3>1
      <3>3. ~F.unsat /\ F.units \subseteq A
        BY <1>9, <2>4, <2>6, <3>1 DEF Rewritten, Follows
      <3>. QED
        BY <3>1, <3>2, <3>3 DEF Lean
    <2>10. Follows(F, G)
      BY <1>9, <2>3, <2>4, <2>6, FollowsTrans DEF Rewritten
    <2>. QED
      BY <1>9, <2>4, <2>6, <2>9, <2>10 DEF Rewritten
  <1>. QED
    BY <1>10, <1>11

\* Redundant copies of binary clauses, and pairs of binary clauses that fix a
\* literal.
LEMMA DeduplicateMeans ==
  ASSUME NEW F \in Formulas, NEW idx \in Vars,
         NEW H, H = mark_duplicated_binary_clauses_as_garbage(F, idx)
  PROVE  Rewritten(F, H)
PROOF
  <1> DEFINE units == {lit \in {-idx, idx} : \E l \in BinarySeconds(F, lit) : -l \in BinarySeconds(F, lit)}
             unit == IF -idx \in units THEN -idx ELSE idx
             Copy(c) == vidx(idx) \in {vidx(l) : l \in c} /\ Cardinality(c) = 2 /\ c \in F.irr
             G == [F EXCEPT !.red = {c \in @ : ~Copy(c)}]
  <1>0. /\ F \in Dbs /\ F.irr \in SUBSET Clauses /\ F.red \in SUBSET Clauses
        /\ F.units \in SUBSET Lits /\ F.unsat \in BOOLEAN /\ AllClauses(F) = F.irr \cup F.red
    BY FormulaParts
  <1>1. H = IF F.unsat THEN F ELSE IF units = {} THEN G ELSE propagate(assign_unit(G, unit))
    BY DEF mark_duplicated_binary_clauses_as_garbage
  <1>2. \A c : Copy(c) => c \in F.irr
    OBVIOUS
  <1> HIDE DEF Copy
  <1>3. /\ G \in Dbs /\ G.irr = F.irr /\ G.red = {c \in F.red : ~Copy(c)}
        /\ G.units = F.units /\ G.unsat = F.unsat
    BY <1>0 DEF Dbs
  <1>4. unit \in Lits /\ (units # {} => unit \in units)
    <2>1. idx \in Lits /\ -idx \in Lits
      BY DEF Lits
    <2>. QED
      BY <2>1
  <1>5. ASSUME units # {}
        PROVE  \E l \in Lits : {unit, l} \in AllClauses(F) /\ {unit, -l} \in AllClauses(F)
    <2>1. unit \in units
      BY <1>4, <1>5
    <2> HIDE DEF unit
    <2>. QED
      BY <2>1 DEF BinarySeconds
  <1> HIDE DEF G, units, unit
  <1>6. Rewritten(F, G)
    <2>1. \A A \in Lean(G) : \A c \in F.irr : c \cap A # {}
      BY <1>3 DEF Lean
    <2>. QED
      BY <1>3, <2>1, FewerMeans
  <1>7. CASE units # {}
    <2>1. G \in Formulas
      BY <1>6 DEF Rewritten, Follows
    <2>2. AllClauses(G) = AllClauses(F)
      BY <1>0, <1>2, <1>3 DEF AllClauses
    <2>3. PICK l \in Lits : {unit, l} \in AllClauses(G) /\ {unit, -l} \in AllClauses(G)
      BY <1>5, <1>7, <2>2
    <2>4. ASSUME NEW A \in DbModels(G) PROVE unit \in A
      <3>1. A \in Assignments /\ {unit, l} \cap A # {} /\ {unit, -l} \cap A # {}
        BY <1>3, <2>3, DbModel DEF AllClauses
      <3>2. l \in A => -l \notin A
        BY <3>1, AssignmentIff
      <3>. QED
        BY <3>1, <3>2
    <2>5. unit \in Occurring(G)
      BY <2>3 DEF Occurring
    <2>6. Rewritten(G, assign_unit(G, unit))
      BY <1>4, <2>1, <2>4, <2>5, UnitMeans
    <2>7. Rewritten(F, assign_unit(G, unit))
      BY <1>6, <2>6, RewrittenTrans
    <2>8. Rewritten(assign_unit(G, unit), propagate(assign_unit(G, unit)))
      BY <2>6, PropagateMeans DEF Rewritten, Follows
    <2>9. Rewritten(F, propagate(assign_unit(G, unit)))
      BY <2>7, <2>8, RewrittenTrans
    <2>. QED
      BY <1>1, <1>7, <2>9, RewrittenSame
  <1>8. CASE units = {}
    BY <1>1, <1>6, <1>8, RewrittenSame
  <1>. QED
    BY <1>7, <1>8

-----------------------------------------------------------------------------
(***************************************************************************)
(* The binary implication graph.                                           *)
(***************************************************************************)
\* The steps of the search for reachable literals.
Reach(C, U) == U \cup UNION {Implications(C, l) : l \in U}

\* What is reached has every property that the first literal has and that
\* implications hand on.
LEMMA ReachableInd ==
  ASSUME NEW C, NEW from \in Lits, NEW T \in SUBSET SUBSET Lits, {from} \in T,
         \A U \in T : Reach(C, U) \in T
  PROVE  Reachable(C, from) \in T
PROOF
  <1> DEFINE n == 2 * N
             Body(g, i) == IF i = 0 THEN {from}
                           ELSE LET before == g[i - 1] IN before \cup UNION {Implications(C, l) : l \in before}
             chosen == CHOOSE g : g = [i \in 0..n |-> Body(g, i)]
             step == [p \in Nat \X T |-> Reach(C, p[2])]
  <1>0. n \in Nat
    BY NAssumption
  <1>1. step \in [Nat \X T -> T]
    OBVIOUS
  <1>2. Reachable(C, from) = chosen[n]
    BY DEF Reachable
  <1> HIDE DEF step, n
  <1>3. PICK f : IsRun(T, {from}, step, n, f)
    BY <1>0, <1>1, LoopRuns
  <1>4. \A i \in 0..n : f[i] = Body(f, i)
    <2> SUFFICES ASSUME NEW i \in 0..n PROVE f[i] = Body(f, i)
      OBVIOUS
    <2>1. CASE i = 0
      BY <1>3, <2>1 DEF IsRun
    <2>2. CASE i # 0
      <3>1. i \in 1..n /\ i \in Nat /\ f[i - 1] \in T
        BY <1>0, <1>3, <2>2 DEF IsRun
      <3>2. step[<<i, f[i - 1]>>] = Reach(C, f[i - 1])
        BY <3>1 DEF step
      <3>. QED
        BY <1>3, <2>2, <3>1, <3>2 DEF IsRun, Reach
    <2>. QED
      BY <2>1, <2>2
  <1>a. \A g : Body(g, 0) = {from} /\ \A i \in 1..n : Body(g, i) = Reach(C, g[i - 1])
    BY <1>0 DEF Reach
  <1> HIDE DEF Body
  <1>5. f = [i \in 0..n |-> Body(f, i)]
    BY <1>3, <1>4 DEF IsRun
  <1>6. chosen = [i \in 0..n |-> Body(chosen, i)]
    BY <1>5
  <1>7. \A i \in 0..n : chosen[i] = Body(chosen, i)
    <2> HIDE DEF chosen
    <2>. QED
      BY <1>6
  <1> HIDE DEF chosen
  <1>8. chosen[0] \in T
    BY <1>0, <1>7, <1>a
  <1>9. \A i \in 1..n : chosen[i - 1] \in T => chosen[i] \in T
    <2> SUFFICES ASSUME NEW i \in 1..n, chosen[i - 1] \in T PROVE chosen[i] \in T
      OBVIOUS
    <2>1. chosen[i] = Reach(C, chosen[i - 1])
      BY <1>0, <1>7, <1>a
    <2>. QED
      BY <2>1
  <1>10. \A i \in 0..n : chosen[i] \in T
    BY <1>0, <1>8, <1>9, RunInd
  <1>. QED
    BY <1>0, <1>2, <1>10

\* What a true literal reaches is true, and occurs in the clauses.
LEMMA ReachableMeans ==
  ASSUME NEW C, NEW from \in Lits
  PROVE  /\ Reachable(C, from) \in SUBSET Lits /\ from \in Reachable(C, from)
         /\ \A A \in Assignments : from \in A /\ (\A c \in C : c \cap A # {})
              => Reachable(C, from) \subseteq A
         /\ \A l \in Reachable(C, from) : l = from \/ l \in UNION C
PROOF
  <1> DEFINE T0 == {U \in SUBSET Lits : from \in U /\ \A l \in U : l = from \/ l \in UNION C}
  <1>1. Reachable(C, from) \in T0
    <2>1. \A U \in T0 : Reach(C, U) \in T0
      BY DEF Reach, Implications
    <2>2. {from} \in T0
      OBVIOUS
    <2> HIDE DEF T0
    <2>3. T0 \in SUBSET SUBSET Lits
      BY DEF T0
    <2>. QED
      BY <2>1, <2>2, <2>3, ReachableInd
  <1>2. ASSUME NEW A \in Assignments, from \in A, \A c \in C : c \cap A # {}
        PROVE  Reachable(C, from) \in SUBSET A
    <2>0. A \in SUBSET Lits
      BY AssignmentIff
    <2>1. ASSUME NEW U \in SUBSET A PROVE Reach(C, U) \in SUBSET A
      <3>1. ASSUME NEW l \in U, NEW k \in Implications(C, l) PROVE k \in A
        <4>1. {-l, k} \cap A # {} /\ l \in Lits
          BY <1>2, <2>0 DEF Implications
        <4>2. -l \notin A
          BY <4>1, AssignmentIff
        <4>. QED
          BY <4>1, <4>2
      <3>. QED
        BY <3>1 DEF Reach
    <2>2. {from} \in SUBSET A /\ SUBSET A \in SUBSET SUBSET Lits
      BY <1>2, <2>0
    <2>. QED
      BY <2>1, <2>2, ReachableInd
  <1>. QED
    BY <1>1, <1>2

\* The two literals of a binary clause read as an implication.
LEMMA BinaryClause ==
  ASSUME NEW c \in SUBSET Lits, Cardinality(c) = 2, NEW src \in Negated(c),
         NEW dst, dst = CHOOSE l \in c : l # -src
  PROVE  src \in Lits /\ -src \in Lits /\ dst \in Lits /\ -src \in c /\ c = {-src, dst}
PROOF
  <1>1. PICK k \in c : src = -k
    BY DEF Negated
  <1>2. k \in Lits /\ src \in Lits /\ -src = k
    BY <1>1, Literal
  <1>3. IsFiniteSet(c) /\ IsFiniteSet(c \ {k}) /\ Cardinality(c \ {k}) = 1
    BY <1>1, OneLiteral, FS_RemoveElement
  <1>4. PICK x : c \ {k} = {x}
    BY <1>3, FS_Singleton
  <1>5. dst \in c /\ dst # k
    BY <1>2, <1>4
  <1>. QED
    BY <1>2, <1>4, <1>5

\* Transitive reduction deletes clauses that others imply, and fixes failed
\* literals.
LEMMA TransredMeans ==
  ASSUME NEW F \in Formulas, NEW red \in BOOLEAN, NEW c \in Of(F, red), Cardinality(c) = 2,
         NEW src \in Negated(c), NEW dst, dst = CHOOSE l \in c : l # -src
  PROVE  /\ transitive(F, c, red, src, dst) => Rewritten(F, Deleted(F, c, red))
         /\ failed(F, c, red, src, dst) => Rewritten(F, propagate(assign_unit(F, -src)))
PROOF
  <1>1. /\ c \in AllClauses(F) /\ IsClause(c) /\ c \in SUBSET Lits /\ c \subseteq Occurring(F)
        /\ ~red => c \in F.irr
    BY ClauseOf
  <1>2. src \in Lits /\ -src \in Lits /\ dst \in Lits /\ -src \in c /\ c = {-src, dst}
    BY <1>1, BinaryClause
  <1>3. ASSUME transitive(F, c, red, src, dst) PROVE Rewritten(F, Deleted(F, c, red))
    <2> DEFINE G == Deleted(F, c, red)
    <2>1. CASE red
      BY <2>1, DeletedShape DEF Without
    <2>2. CASE ~red
      <3>1. /\ G \in Formulas /\ G.irr = F.irr \ {c} /\ G.red = F.red
            /\ G.units = F.units /\ G.unsat = F.unsat
        <4>1. Without(F, c, red, G)
          BY DeletedShape
        <4> HIDE DEF G
        <4>. QED
          BY <2>2, <4>1 DEF Without
      <3>2. dst \in Reachable(F.irr \ {c}, src)
        BY <1>3, <2>2 DEF transitive, TransredClauses
      <3> HIDE DEF G
      <3>3. ASSUME NEW A \in Lean(G) PROVE c \cap A # {}
        <4>1. A \in Assignments /\ \A d \in F.irr \ {c} : d \cap A # {}
          BY <3>1 DEF Lean
        <4>2. src \in A => dst \in A
          BY <1>2, <3>2, <4>1, ReachableMeans
        <4>3. src \notin A => -src \in A
          BY <1>2, <4>1, AssignmentIff
        <4>. QED
          BY <1>2, <4>2, <4>3
      <3>4. \A A \in Lean(G) : \A d \in F.irr : d \cap A # {}
        BY <3>1, <3>3 DEF Lean
      <3>. QED
        BY <3>1, <3>4, FewerMeans, FormulaParts DEF G
    <2>. QED
      BY <2>1, <2>2
  <1>4. ASSUME failed(F, c, red, src, dst) PROVE Rewritten(F, propagate(assign_unit(F, -src)))
    <2> DEFINE C == PathsAround(F, c, red, dst)
               R == Reachable(C, src)
    <2>1. C \subseteq AllClauses(F)
      BY FormulaParts DEF PathsAround, TransredClauses
    <2>2. R \cap Negated(R) # {}
      BY <1>4 DEF failed
    <2> HIDE DEF C
    <2>3. ASSUME NEW A \in DbModels(F) PROVE -src \in A
      <3>1. A \in Assignments /\ \A d \in C : d \cap A # {}
        BY <2>1, FormulaParts, DbModel
      <3>2. src \in A => R \in SUBSET A
        BY <1>2, <3>1, ReachableMeans
      <3> HIDE DEF R
      <3>3. src \notin A
        BY <2>2, <3>1, <3>2, Opposite
      <3>. QED
        BY <1>2, <3>1, <3>3, AssignmentIff
    <2>4. Rewritten(F, assign_unit(F, -src))
      BY <1>1, <1>2, <2>3, UnitMeans
    <2>5. Rewritten(assign_unit(F, -src), propagate(assign_unit(F, -src)))
      BY <2>4, PropagateMeans DEF Rewritten, Follows
    <2>. QED
      BY <2>4, <2>5, RewrittenTrans
  <1>. QED
    BY <1>3, <1>4

-----------------------------------------------------------------------------
(***************************************************************************)
(* Instantiation.                                                          *)
(***************************************************************************)
\* A literal that fails to be instantiated leaves its clause.
LEMMA InstantiateMeans ==
  ASSUME NEW F \in Formulas, NEW lit \in Lits, NEW c \in occs(F, lit), ~inst_propagate(F, lit, c),
         ~fixedTrue(F, c), NEW G, G = instantiate_candidate(F, lit, c)
  PROVE  Rewritten(F, G)
PROOF
  <1>1. c \in F.irr /\ lit \in c /\ c \in Of(F, FALSE)
    BY DEF occs, Of
  <1>2. G = new_clause(Deleted(F, c, FALSE), c \ {lit}, FALSE)
    BY DEF instantiate_candidate, strengthen_clause
  <1>0. /\ F \in Dbs /\ AllClauses(F) \in SUBSET Clauses /\ F.units \in SUBSET Lits
        /\ AllClauses(F) = F.irr \cup F.red /\ c \in SUBSET Lits
    BY <1>1, FormulaParts, ClauseOf
  <1> DEFINE E == Remaining(F, c) \ {lit}
             U == F.units \cup {lit} \cup Negated(E)
  <1>3. E \in SUBSET Lits /\ E \subseteq c \ {lit}
    BY <1>0 DEF Remaining
  <1>4. Conflicting(AllClauses(F), U)
    BY DEF inst_propagate
  <1> HIDE DEF E
  <1>5. ASSUME NEW A \in DbModels(F) PROVE (c \ {lit}) \cap A # {}
    <2> SUFFICES ASSUME (c \ {lit}) \cap A = {} PROVE FALSE
      OBVIOUS
    <2>1. A \in Assignments /\ F.units \subseteq A /\ \A d \in AllClauses(F) : d \cap A # {}
      BY <1>0, DbModel
    <2>2. c \cap A # {}
      BY <1>0, <1>1, <2>1
    <2>3. lit \in A
      BY <2>2
    <2>4. Negated(E) \subseteq A
      <3> SUFFICES ASSUME NEW l \in E PROVE -l \in A
        BY DEF Negated
      <3>1. l \in Lits /\ l \notin A
        BY <1>3
      <3>. QED
        BY <2>1, <3>1, AssignmentIff
    <2>5. U \subseteq A /\ U \in SUBSET Lits
      BY <1>0, <1>3, <2>1, <2>3, <2>4, NegatedType
    <2> HIDE DEF U
    <2>. QED
      BY <1>0, <1>4, <2>1, <2>5, ConflictMeans
  <1>. QED
    BY <1>1, <1>2, <1>5, StrengthenMeans

-----------------------------------------------------------------------------
(***************************************************************************)
(* Layers of assignments between what is left of the formula and what the  *)
(* user has added: an entry of the stack leads from one layer to the next. *)
(***************************************************************************)
\* Entry e leads from M to K; when its witness is contradicted by a tainted
\* literal, only the assignments that need no repair are considered.
Down(e, tainted, M, K) ==
  \A A \in M :
    /\ e.clause \cap A # {} => A \in K
    /\ e.clause \cap A = {} /\ e.witness \cap Negated(tainted) = {} => Flipped(e, A) \in K

Layers(M0, stack, tainted, M, m) ==
  /\ m \in [0..Len(stack) -> SUBSET Assignments]
  /\ m[0] \subseteq M0
  /\ M \subseteq m[Len(stack)]
  /\ \A j \in Places(stack) : Down(stack[j], tainted, m[j], m[j - 1])

\* Every assignment of M leads to one of M0.
Layered(M0, stack, tainted, M) == \E m : Layers(M0, stack, tainted, M, m)

\* Extending follows the layers.
THEOREM LayeredExtend ==
  ASSUME NEW stack \in Seq(Entries), NEW M0, NEW M, Layered(M0, stack, {}, M),
         NEW A \in M
  PROVE  extend(stack, A) \in M0
PROOF
  <1> DEFINE n == Len(stack)
  <1>0. n \in Nat /\ Places(stack) = 1..n
    BY DEF Places
  <1>1. PICK m : Layers(M0, stack, {}, M, m)
    BY DEF Layered
  <1>2. /\ m \in [0..n -> SUBSET Assignments] /\ m[0] \subseteq M0 /\ M \subseteq m[n]
        /\ \A j \in Places(stack) : Down(stack[j], {}, m[j], m[j - 1])
    BY <1>1 DEF Layers
  <1>3. A \in SUBSET Lits
    <2>1. n \in 0..n
      BY <1>0
    <2>. QED
      BY <1>2, <2>1, AssignmentIff
  <1>4. PICK f : /\ f[0] = A
                 /\ \A i \in 1..n : f[i] = MadeTrue(stack[n + 1 - i], f[i - 1])
                 /\ extend(stack, A) = f[n]
    BY <1>3, ExtendTurns
  <1> DEFINE Good == {i \in Nat : i \in 0..n => f[i] \in m[n - i]}
  <1>5. 0 \in Good
    BY <1>0, <1>2, <1>4
  <1>6. ASSUME NEW j \in 1..n, NEW B \in m[j] PROVE MadeTrue(stack[j], B) \in m[j - 1]
    <2>1. Negated({}) = {}
      BY DEF Negated
    <2>2. Down(stack[j], {}, m[j], m[j - 1])
      BY <1>0, <1>2
    <2>. QED
      BY <2>1, <2>2 DEF Down, MadeTrue
  <1> HIDE DEF n
  <1>7. ASSUME NEW i \in Nat, i \in Good PROVE i + 1 \in Good
    <2> SUFFICES ASSUME i + 1 \in 0..n PROVE f[i + 1] \in m[n - (i + 1)]
      OBVIOUS
    <2>1. i \in 0..n /\ i + 1 \in 1..n /\ n - i \in 1..n /\ (i + 1) - 1 = i
          /\ n + 1 - (i + 1) = n - i /\ (n - i) - 1 = n - (i + 1)
      BY <1>0
    <2>2. f[i] \in m[n - i]
      BY <1>7, <2>1
    <2>3. MadeTrue(stack[n - i], f[i]) \in m[(n - i) - 1]
      BY <1>6, <2>1, <2>2
    <2>. QED
      BY <1>4, <2>1, <2>3
  <1> HIDE DEF Good
  <1>8. Nat \subseteq Good
    BY <1>5, <1>7, NatInd
  <1>9. n \in Good /\ n \in 0..n /\ n - n = 0
    BY <1>0, <1>8
  <1>. QED
    BY <1>2, <1>4, <1>9 DEF Good

\* More tainted literals, fewer assignments above and more below.
LEMMA LayeredWeak ==
  ASSUME NEW stack, NEW M0, NEW M, NEW tainted, Layered(M0, stack, tainted, M),
         NEW K0, NEW K, NEW more, M0 \subseteq K0, K \subseteq M, tainted \subseteq more
  PROVE  Layered(K0, stack, more, K)
PROOF
  <1>1. PICK m : Layers(M0, stack, tainted, M, m)
    BY DEF Layered
  <1>2. Negated(tainted) \subseteq Negated(more)
    BY DEF Negated
  <1>3. \A e, X, Y : Down(e, tainted, X, Y) => Down(e, more, X, Y)
    BY <1>2 DEF Down
  <1>4. Layers(K0, stack, more, K, m)
    BY <1>1, <1>3 DEF Layers
  <1>. QED
    BY <1>4 DEF Layered

\* Nothing on the stack.
LEMMA LayeredEmpty ==
  ASSUME NEW M \in SUBSET Assignments, NEW M0, M \subseteq M0, NEW tainted
  PROVE  Layered(M0, <<>>, tainted, M)
PROOF
  <1> DEFINE m == [j \in 0..0 |-> M]
  <1>1. Len(<<>>) = 0 /\ Places(<<>>) = {} /\ 0 \in 0..0
    BY DEF Places
  <1>2. m \in [0..0 -> SUBSET Assignments] /\ m[0] = M
    OBVIOUS
  <1> HIDE DEF m
  <1>3. Layers(M0, <<>>, tainted, M, m)
    BY <1>1, <1>2 DEF Layers
  <1>. QED
    BY <1>3 DEF Layered

\* The entries of one stack on top of those of another.
LEMMA LayeredConcat ==
  ASSUME NEW s \in Seq(Entries), NEW t \in Seq(Entries), NEW M0, NEW K, NEW M, NEW tainted,
         Layered(M0, s, tainted, K), Layered(K, t, tainted, M)
  PROVE  Layered(M0, s \o t, tainted, M)
PROOF
  <1> DEFINE a == Len(s)
             b == Len(t)
             u == s \o t
  <1>0. /\ a \in Nat /\ b \in Nat /\ Len(u) = a + b
        /\ \A j \in 1..a : u[j] = s[j]
        /\ \A j \in 1..b : u[a + j] = t[j]
    OBVIOUS
  <1>1. PICK m : Layers(M0, s, tainted, K, m)
    BY DEF Layered
  <1>2. PICK k : Layers(K, t, tainted, M, k)
    BY DEF Layered
  <1> DEFINE both == [j \in 0..(a + b) |-> IF j < a THEN m[j] ELSE k[j - a]]
  <1>3. /\ m \in [0..a -> SUBSET Assignments] /\ m[0] \subseteq M0 /\ K \subseteq m[a]
        /\ \A j \in 1..a : Down(s[j], tainted, m[j], m[j - 1])
    BY <1>1 DEF Layers, Places
  <1>4. /\ k \in [0..b -> SUBSET Assignments] /\ k[0] \subseteq K /\ M \subseteq k[b]
        /\ \A j \in 1..b : Down(t[j], tainted, k[j], k[j - 1])
    BY <1>2 DEF Layers, Places
  <1> HIDE DEF a, b, u
  <1>5. both \in [0..(a + b) -> SUBSET Assignments]
    <2> SUFFICES ASSUME NEW j \in 0..(a + b)
                 PROVE  (IF j < a THEN m[j] ELSE k[j - a]) \in SUBSET Assignments
      OBVIOUS
    <2>1. CASE j < a
      <3>1. j \in 0..a
        BY <1>0, <2>1
      <3>. QED
        BY <1>3, <2>1, <3>1
    <2>2. CASE ~(j < a)
      <3>1. j - a \in 0..b
        BY <1>0, <2>2
      <3>. QED
        BY <1>4, <2>2, <3>1
    <2>. QED
      BY <2>1, <2>2
  <1>6. \A j \in 0..(a + b) : both[j] = IF j < a THEN m[j] ELSE k[j - a]
    OBVIOUS
  <1> HIDE DEF both
  <1>7. both[0] \subseteq M0
    <2>1. 0 \in 0..(a + b) /\ 0 - a = -a
      BY <1>0
    <2>2. CASE a = 0
      <3>1. both[0] = k[0 - a]
        BY <1>0, <1>6, <2>1, <2>2
      <3>2. 0 - a = 0
        BY <2>2
      <3>. QED
        BY <1>3, <1>4, <2>2, <3>1, <3>2
    <2>3. CASE a # 0
      <3>1. 0 < a
        BY <1>0, <2>3
      <3>2. both[0] = m[0]
        BY <1>6, <2>1, <3>1
      <3>. QED
        BY <1>3, <3>2
    <2>. QED
      BY <2>2, <2>3
  <1>8. M \subseteq both[a + b]
    <2>1. a + b \in 0..(a + b) /\ ~(a + b < a) /\ (a + b) - a = b
      BY <1>0
    <2>. QED
      BY <1>4, <1>6, <2>1
  <1>9. ASSUME NEW j \in 1..(a + b) PROVE Down(u[j], tainted, both[j], both[j - 1])
    <2>0. j \in 0..(a + b) /\ j - 1 \in 0..(a + b)
      BY <1>0
    <2>1. CASE j < a
      <3>1. j \in 1..a /\ j - 1 < a
        BY <1>0, <2>1
      <3>2. both[j] = m[j] /\ both[j - 1] = m[j - 1] /\ u[j] = s[j]
        BY <1>0, <1>6, <2>0, <2>1, <3>1
      <3>. QED
        BY <1>3, <3>1, <3>2
    <2>2. CASE j = a
      <3>1. j \in 1..a /\ j - 1 < a /\ ~(j < a) /\ j - a = 0
        BY <1>0, <2>2
      <3>2. both[j] = k[0] /\ both[j - 1] = m[j - 1] /\ u[j] = s[j]
        BY <1>0, <1>6, <2>0, <3>1
      <3>3. Down(s[j], tainted, m[j], m[j - 1]) /\ k[0] \subseteq m[j]
        BY <1>3, <1>4, <2>2, <3>1
      <3>. QED
        BY <3>2, <3>3 DEF Down
    <2>3. CASE j > a
      <3>1. j - a \in 1..b /\ ~(j < a) /\ ~(j - 1 < a) /\ (j - 1) - a = (j - a) - 1 /\ a + (j - a) = j
        BY <1>0, <2>3
      <3>2. both[j] = k[j - a] /\ both[j - 1] = k[(j - a) - 1] /\ u[j] = t[j - a]
        BY <1>0, <1>6, <2>0, <3>1
      <3>. QED
        BY <1>4, <3>1, <3>2
    <2>. QED
      BY <1>0, <2>1, <2>2, <2>3
  <1>10. Layers(M0, u, tainted, M, both)
    BY <1>0, <1>5, <1>7, <1>8, <1>9 DEF Layers, Places
  <1>. QED
    BY <1>10 DEF Layered, u

\* Entries that all repair.
LEMMA LayeredRepairs ==
  ASSUME NEW M \in SUBSET Assignments, NEW stack \in Seq(Entries),
         \A j \in Places(stack) : Repairs(M, stack, j)
  PROVE  Layered(Left(M, stack, 0), stack, {}, M)
PROOF
  <1> DEFINE n == Len(stack)
             m == [j \in 0..n |-> Left(M, stack, j)]
  <1>0. n \in Nat /\ Places(stack) = 1..n
    BY DEF Places
  <1>1. m \in [0..n -> SUBSET Assignments] /\ \A j \in 0..n : m[j] = Left(M, stack, j)
    BY DEF Left
  <1>2. M \subseteq Left(M, stack, n)
    BY <1>0 DEF Left
  <1>3. ASSUME NEW j \in Places(stack)
        PROVE  Down(stack[j], {}, Left(M, stack, j), Left(M, stack, j - 1))
    <2>1. \A k \in Places(stack) : k > j - 1 => k > j \/ k = j
      BY <1>0
    <2>2. stack[j].witness \cap stack[j].clause # {}
      BY <1>0 DEF Entries
    <2>3. \A A \in Left(M, stack, j) : stack[j].clause \cap A # {} => A \in Left(M, stack, j - 1)
      BY <2>1 DEF Left
    <2>4. \A A : stack[j].clause \cap Flipped(stack[j], A) # {}
      BY <2>2 DEF Flipped
    <2>. QED
      BY <2>3, <2>4 DEF Repairs, Down
  <1> HIDE DEF m, n
  <1>4. \A j \in Places(stack) : j \in 0..n /\ j - 1 \in 0..n
    BY <1>0
  <1>5. 0 \in 0..n /\ n \in 0..n
    BY <1>0
  <1>6. Layers(Left(M, stack, 0), stack, {}, M, m)
    <2>1. \A j \in Places(stack) : Down(stack[j], {}, m[j], m[j - 1])
      BY <1>1, <1>3, <1>4
    <2>2. m[0] = Left(M, stack, 0) /\ m[n] = Left(M, stack, n)
      BY <1>1, <1>5
    <2>. QED
      BY <1>1, <1>2, <2>1, <2>2 DEF Layers, n
  <1>. QED
    BY <1>6 DEF Layered

\* The assignments among M that satisfy a clause.
Where(M, c) == {A \in M : c \cap A # {}}

\* A clause stays true below an entry whose witness its literals do not
\* contradict.
LEMMA DownMore ==
  ASSUME NEW e \in Entries, NEW tainted, NEW M \in SUBSET Assignments, NEW K,
         Down(e, tainted, M, K), NEW c \in SUBSET Lits,
         NEW more, tainted \subseteq more, NEW W, e.witness \subseteq W,
         c \cap Negated(W) \subseteq more
  PROVE  Down(e, more, Where(M, c), Where(K, c))
PROOF
  <1>0. Negated(tainted) \subseteq Negated(more) /\ e.witness \in SUBSET Lits
    BY DEF Negated, Entries
  <1>1. ASSUME NEW A \in M, c \cap A # {}, e.clause \cap A = {},
               e.witness \cap Negated(more) = {}
        PROVE  Flipped(e, A) \in K /\ c \cap Flipped(e, A) # {}
    <2>1. PICK l \in c : l \in A
      BY <1>1
    <2>2. l \notin Negated(e.witness)
      <3> SUFFICES ASSUME l \in Negated(e.witness) PROVE FALSE
        OBVIOUS
      <3>1. l \in Lits /\ -l \in Lits /\ -(-l) = l
        BY Literal
      <3>2. -l \in e.witness
        BY <1>0, <3>1, NegatedMember
      <3>3. l \in Negated(W)
        BY <3>1, <3>2 DEF Negated
      <3>4. -l \in Negated(more)
        BY <3>3 DEF Negated
      <3>. QED
        BY <1>1, <3>2, <3>4
    <2>. QED
      BY <1>0, <1>1, <2>1, <2>2 DEF Down, Flipped
  <1>. QED
    BY <1>1 DEF Down, Where

\* The user adds a clause.
LEMMA LayeredAdd ==
  ASSUME NEW stack \in Seq(Entries), NEW M0, NEW M, NEW tainted, Layered(M0, stack, tainted, M),
         NEW c \in SUBSET Lits
  PROVE  Layered(Where(M0, c), stack, tainted \cup (c \cap Negated(WitnessLiterals(stack))),
                 Where(M, c))
PROOF
  <1> DEFINE n == Len(stack)
             W == WitnessLiterals(stack)
             more == tainted \cup (c \cap Negated(W))
             Sat(K) == Where(K, c)
  <1>0. n \in Nat /\ Places(stack) = 1..n
    BY DEF Places
  <1>1. PICK m : Layers(M0, stack, tainted, M, m)
    BY DEF Layered
  <1>2. /\ m \in [0..n -> SUBSET Assignments] /\ m[0] \subseteq M0 /\ M \subseteq m[n]
        /\ \A j \in Places(stack) : Down(stack[j], tainted, m[j], m[j - 1])
    BY <1>1 DEF Layers
  <1> DEFINE k == [j \in 0..n |-> Sat(m[j])]
  <1>3. \A j \in 0..n : k[j] = Sat(m[j])
    OBVIOUS
  <1>4. k \in [0..n -> SUBSET Assignments]
    BY <1>2 DEF Where
  <1>5. ASSUME NEW j \in Places(stack) PROVE Down(stack[j], more, Sat(m[j]), Sat(m[j - 1]))
    <2>1. stack[j] \in Entries /\ j \in 0..n
      BY <1>0
    <2>2. stack[j].witness \subseteq W
      BY WitnessMember DEF Places
    <2>3. m[j] \in SUBSET Assignments
      BY <1>2, <2>1
    <2>4. tainted \subseteq more /\ c \cap Negated(W) \subseteq more
      OBVIOUS
    <2>5. Down(stack[j], tainted, m[j], m[j - 1])
      BY <1>2
    <2> DEFINE e == stack[j]
               X == m[j]
               Y == m[j - 1]
    <2>6. e \in Entries /\ e.witness \subseteq W /\ X \in SUBSET Assignments /\ Down(e, tainted, X, Y)
      BY <2>1, <2>2, <2>3, <2>5
    <2> HIDE DEF W, more, n, e, X, Y, k, Sat
    <2>7. Down(e, more, Where(X, c), Where(Y, c))
      BY ONLY <2>4, <2>6, DownMore, c \in SUBSET Lits
    <2>. QED
      BY <2>7 DEF e, X, Y, Sat
  <1>6. \A j \in Places(stack) : j \in 0..n /\ j - 1 \in 0..n
    BY <1>0
  <1>7. k[0] \subseteq Sat(M0) /\ Sat(M) \subseteq k[n]
    BY <1>0, <1>2, <1>3 DEF Where
  <1> HIDE DEF k, more, Sat, n
  <1>8. Layers(Sat(M0), stack, more, Sat(M), k)
    <2>1. \A j \in Places(stack) : Down(stack[j], more, k[j], k[j - 1])
      BY <1>3, <1>5, <1>6
    <2>. QED
      BY <1>4, <1>7, <2>1 DEF Layers, n
  <1>. QED
    BY <1>8 DEF Layered, Sat, more, W

-----------------------------------------------------------------------------
(***************************************************************************)
(* Clauses of the user.                                                    *)
(***************************************************************************)
\* What adding clause c to F makes of it.
Adds(F, c, G) ==
  /\ G \in Formulas
  /\ F.unsat => G.unsat
  /\ F.units \subseteq G.units
  /\ \A A \in DbModels(F) : c \cap A # {} => A \in DbModels(G)
  /\ Lean(G) \subseteq Where(Lean(F), c)
  /\ \A L : Uses(F, L) /\ c \subseteq L => Uses(G, L)

\* What a new clause makes of a database.
Newer(F, c, red, G) ==
  /\ G \in Formulas /\ F.units \subseteq G.units
  /\ F.unsat => G.unsat
  /\ F.irr \subseteq G.irr /\ F.red \subseteq G.red
  /\ red => G.irr = F.irr
  /\ ~red => G.red = F.red
  /\ \A A \in DbModels(F) : c \cap A # {} => A \in DbModels(G)
  /\ \A A \in Lean(G) : A \in Lean(F) /\ (~red => c \cap A # {})
  /\ \A L : F.units \subseteq L /\ c \subseteq L => G.units \subseteq L
  /\ \A d \in G.irr : d = c \/ d \in F.irr
  /\ \A d \in G.red : d = c \/ d \in F.red

\* new_clause brings what a newer database has.
LEMMA NewerRight ==
  ASSUME NEW F \in Formulas, NEW c, IsClause(c), NEW red \in BOOLEAN,
         NEW G, G = new_clause(F, c, red)
  PROVE  Newer(F, c, red, G)
BY NewMeans DEF Newer

\* A clause of the user, or a restored one.
LEMMA AddMeans ==
  ASSUME NEW F \in Formulas, NEW c \in SUBSET Lits, NEW G, G = add_new_original_clause(F, c)
  PROVE  Adds(F, c, G)
PROOF
  <1> DEFINE R == Remaining(F, c)
             H == new_clause(F, R, FALSE)
  <1>0. F \in Dbs /\ F.units \in SUBSET Lits
    BY FormulaParts
  <1>1. \A A \in Lean(F) : A \in Assignments /\ ~F.unsat /\ F.units \subseteq A
    BY DEF Lean
  <1>2. CASE F.unsat \/ (\E l \in c : -l \in c) \/ fixedTrue(F, c)
    <2>1. G = F
      BY <1>2 DEF add_new_original_clause
    <2>2. ASSUME NEW A \in Lean(F) PROVE c \cap A # {}
      <3>1. CASE \E l \in c : -l \in c
        BY <1>1, <3>1, AssignmentIff
      <3>2. CASE fixedTrue(F, c)
        BY <1>1, <3>2 DEF fixedTrue
      <3>. QED
        BY <1>1, <1>2, <3>1, <3>2
    <2>. QED
      BY <2>1, <2>2 DEF Adds, Where
  <1>3. CASE ~(F.unsat \/ (\E l \in c : -l \in c) \/ fixedTrue(F, c))
    <2>1. G = IF H.units # F.units THEN propagate(H) ELSE H
      BY <1>3 DEF add_new_original_clause
    <2>2. R \subseteq c /\ IsClause(R)
      <3>1. R \subseteq c
        BY DEF Remaining
      <3>2. \A l \in R : l \notin Negated(R)
        <4> HIDE DEF R
        <4>. QED
          BY <1>3, <3>1, NegatedMember
      <3>. QED
        BY <3>1, <3>2 DEF IsClause
    <2>h. H = new_clause(F, R, FALSE) /\ FALSE \in BOOLEAN
      OBVIOUS
    <2> HIDE DEF R, H
    <2>3. /\ H \in Formulas /\ F.units \subseteq H.units
          /\ F.unsat => H.unsat
          /\ H.red = F.red
          /\ \A A \in DbModels(F) : R \cap A # {} => A \in DbModels(H)
          /\ \A A \in Lean(H) : A \in Lean(F) /\ R \cap A # {}
          /\ \A L : F.units \subseteq L /\ R \subseteq L => H.units \subseteq L
          /\ \A d \in H.irr : d = R \/ d \in F.irr
      <3>1. Newer(F, R, FALSE, H)
        BY ONLY <2>2, <2>h, F \in Formulas, NewerRight
      <3>. QED
        BY <3>1 DEF Newer
    <2>4. Rewritten(H, G)
      BY <2>1, <2>3, PropagateMeans, RewrittenSame
    <2>5. ASSUME NEW A \in DbModels(F), c \cap A # {} PROVE R \cap A # {}
      <3>1. A \in Assignments /\ F.units \subseteq A
        BY <1>0, DbModel
      <3>2. \A l \in A : l \notin Negated(F.units)
        BY <3>1, Opposite
      <3>. QED
        BY <2>5, <3>2 DEF R, Remaining
    <2>6. \A A \in DbModels(F) : c \cap A # {} => A \in DbModels(G)
      BY <2>3, <2>4, <2>5 DEF Rewritten, Follows
    <2>7. Lean(G) \subseteq Where(Lean(F), c)
      BY <2>2, <2>3, <2>4 DEF Rewritten, Where
    <2>8. ASSUME NEW L, Uses(F, L), c \subseteq L PROVE Uses(G, L)
      <3>1. Uses(H, L)
        BY <2>2, <2>3, <2>8 DEF Uses, AllClauses
      <3>. QED
        BY <2>4, <3>1 DEF Rewritten
    <2>. QED
      BY <2>3, <2>4, <2>6, <2>7, <2>8 DEF Adds, Rewritten, Follows
  <1>. QED
    BY <1>2, <1>3

\* An empty database.
LEMMA EmptyMeans ==
  /\ EmptyDb \in Formulas /\ ~EmptyDb.unsat
  /\ DbModels(EmptyDb) = Assignments /\ Lean(EmptyDb) = Assignments
  /\ \A L : Uses(EmptyDb, L)
PROOF
  <1>1. /\ EmptyDb \in Dbs /\ EmptyDb.irr = {} /\ EmptyDb.red = {} /\ EmptyDb.units = {}
        /\ ~EmptyDb.unsat
    BY DEF EmptyDb, Dbs, Clauses
  <1>2. EmptyDb \in Formulas
    BY <1>1, FormulaOf
  <1>3. \A A : A \in DbModels(EmptyDb) <=> A \in Assignments
    BY <1>1, DbModel
  <1>4. DbModels(EmptyDb) = Assignments
    BY <1>3 DEF DbModels, Models
  <1>5. Lean(EmptyDb) = Assignments
    BY <1>1 DEF Lean
  <1>. QED
    BY <1>1, <1>2, <1>4, <1>5 DEF Uses, AllClauses

\* The states of a loop over the clauses of the user.
LEMMA AddTurns ==
  ASSUME NEW s \in Seq(Clauses)
  PROVE  \E f : /\ f[0] = EmptyDb
                /\ \A i \in 1..Len(s) : f[i] = add_new_original_clause(f[i - 1], s[i])
                /\ Folded(add_new_original_clause, EmptyDb, s) = f[Len(s)]
PROOF
  <1> DEFINE n == Len(s)
             start == EmptyDb
             Body(g, i) == IF i = 0 THEN start ELSE add_new_original_clause(g[i - 1], s[i])
             chosen == CHOOSE g : g = [i \in 0..n |-> Body(g, i)]
             step == [p \in Nat \X Dbs |-> IF p[1] \in 1..n THEN add_new_original_clause(p[2], s[p[1]]) ELSE p[2]]
  <1>0. n \in Nat
    OBVIOUS
  <1>1. start \in Dbs /\ \A y \in Dbs, i \in 1..n : add_new_original_clause(y, s[i]) \in Dbs
    BY OriginalClauseMeans DEF EmptyDb, Dbs, Clauses
  <1>2. Folded(add_new_original_clause, EmptyDb, s) = chosen[n]
    BY DEF Folded
  <1>3. \A g : Body(g, 0) = start /\ \A i \in 1..n : Body(g, i) = add_new_original_clause(g[i - 1], s[i])
    OBVIOUS
  <1> HIDE DEF n, start, Body
  <1>4. step \in [Nat \X Dbs -> Dbs]
    BY <1>0, <1>1
  <1>5. PICK f : IsRun(Dbs, start, step, n, f)
    <2> HIDE DEF step
    <2>. QED
      BY <1>0, <1>1, <1>4, LoopRuns
  <1>6. ASSUME NEW i \in 1..n PROVE f[i] = add_new_original_clause(f[i - 1], s[i])
    <2>1. i \in Nat /\ i - 1 \in 0..n
      BY <1>0
    <2>2. f[i - 1] \in Dbs /\ f[i] = step[<<i, f[i - 1]>>]
      BY <1>5, <2>1 DEF IsRun
    <2>3. step[<<i, f[i - 1]>>] = add_new_original_clause(f[i - 1], s[i])
      BY <2>1, <2>2
    <2>. QED
      BY <2>2, <2>3
  <1>7. \A i \in 0..n : f[i] = Body(f, i)
    <2> SUFFICES ASSUME NEW i \in 0..n PROVE f[i] = Body(f, i)
      OBVIOUS
    <2>1. i = 0 \/ i \in 1..n
      BY <1>0
    <2>2. f[0] = start
      BY <1>5 DEF IsRun
    <2>. QED
      BY <1>3, <1>6, <2>1, <2>2
  <1>8. f = [i \in 0..n |-> Body(f, i)]
    BY <1>5, <1>7 DEF IsRun
  <1>9. chosen = [i \in 0..n |-> Body(chosen, i)]
    BY <1>8
  <1>10. \A i \in 0..n : chosen[i] = Body(chosen, i)
    <2> HIDE DEF chosen
    <2>. QED
      BY <1>9
  <1> HIDE DEF chosen
  <1>11. chosen[0] = start /\ \A i \in 1..n : chosen[i] = add_new_original_clause(chosen[i - 1], s[i])
    BY <1>0, <1>3, <1>10
  <1>. QED
    BY <1>2, <1>11 DEF n, start

\* What a set of clauses is made to.
Made(C, F) ==
  /\ F \in Formulas
  /\ Models(C) \subseteq DbModels(F)
  /\ Lean(F) \subseteq Models(C)
  /\ \A L : (\A c \in C : c \subseteq L) => Uses(F, L)

\* The formula of the user at first.
LEMMA MadeRight ==
  ASSUME NEW C \in SUBSET Clauses
  PROVE  Made(C, Folded(add_new_original_clause, EmptyDb, Listed(C)))
PROOF
  <1> DEFINE s == Listed(C)
             n == Len(s)
             Done(i) == {s[k] : k \in 1..i}
  <1>1. s \in Seq(C) /\ ToSet(s) = C
    <2>1. IsFiniteSet(Clauses)
      <3>1. IsFiniteSet(Lits)
        BY OneLiteral
      <3>. QED
        BY <3>1, FS_SUBSET DEF Clauses
    <2>2. IsFiniteSet(C)
      BY <2>1, FS_Subset
    <2>3. s \in Seq(C) /\ \A x \in C : \E i \in 1..Len(s) : s[i] = x
      BY <2>2, ListedRight
    <2> HIDE DEF s
    <2>. QED
      BY <2>3 DEF ToSet
  <1>2. s \in Seq(Clauses) /\ n \in Nat
    BY <1>1
  <1>3. PICK f : /\ f[0] = EmptyDb
                 /\ \A i \in 1..n : f[i] = add_new_original_clause(f[i - 1], s[i])
                 /\ Folded(add_new_original_clause, EmptyDb, s) = f[n]
    BY <1>2, AddTurns
  <1> DEFINE Good == {i \in Nat : i \in 0..n => Made(Done(i), f[i])}
  <1>4. 0 \in Good
    <2>1. Done(0) = {}
      OBVIOUS
    <2>2. Models({}) = Assignments
      BY DEF Models, Satisfies
    <2> HIDE DEF Done
    <2>. QED
      BY <1>3, <2>1, <2>2, EmptyMeans DEF Made
  <1>5. ASSUME NEW i \in Nat, i \in Good PROVE i + 1 \in Good
    <2> SUFFICES ASSUME i + 1 \in 0..n PROVE Made(Done(i + 1), f[i + 1])
      OBVIOUS
    <2>1. i \in 0..n /\ i + 1 \in 1..n /\ (i + 1) - 1 = i
      BY <1>2
    <2>2. Made(Done(i), f[i])
      BY <1>5, <2>1
    <2>3. s[i + 1] \in SUBSET Lits
      BY <1>2, <2>1 DEF Clauses
    <2>4. Adds(f[i], s[i + 1], f[i + 1])
      BY <1>3, <2>1, <2>2, <2>3, AddMeans DEF Made
    <2>5. Done(i + 1) = Done(i) \cup {s[i + 1]}
      <3>1. \A k : k \in 1..(i + 1) <=> k \in 1..i \/ k = i + 1
        BY <1>5
      <3> HIDE DEF s
      <3>. QED
        BY <3>1
    <2> HIDE DEF Done, s
    <2>6. \A A : A \in Models(Done(i + 1)) <=> A \in Models(Done(i)) /\ s[i + 1] \cap A # {}
      BY <2>5 DEF Models, Satisfies
    <2>7. Models(Done(i + 1)) \subseteq DbModels(f[i + 1])
      BY <2>2, <2>4, <2>6 DEF Made, Adds
    <2>8. Lean(f[i + 1]) \subseteq Models(Done(i + 1))
      BY <2>2, <2>4, <2>6 DEF Made, Adds, Where
    <2>9. ASSUME NEW L, \A c \in Done(i + 1) : c \subseteq L PROVE Uses(f[i + 1], L)
      BY <2>2, <2>4, <2>5, <2>9 DEF Made, Adds
    <2>. QED
      BY <2>4, <2>7, <2>8, <2>9 DEF Made, Adds
  <1> HIDE DEF Good
  <1>6. Nat \subseteq Good
    BY <1>4, <1>5, NatInd
  <1>7. Done(n) = C
    <2>1. ToSet(s) = {s[k] : k \in 1..n}
      BY <1>1 DEF ToSet
    <2>. QED
      BY <1>1, <2>1
  <1>8. n \in Good /\ n \in 0..n
    BY <1>2, <1>6
  <1> HIDE DEF Done
  <1>9. Made(C, f[n])
    BY <1>7, <1>8 DEF Good
  <1>. QED
    BY <1>3, <1>9

-----------------------------------------------------------------------------
(***************************************************************************)
(* Restoring clauses of the stack.                                         *)
(***************************************************************************)
\* One more entry on top.
LEMMA LayeredAppend ==
  ASSUME NEW s \in Seq(Entries), NEW e \in Entries, NEW M0, NEW tainted,
         NEW K \in SUBSET Assignments, NEW M \in SUBSET Assignments,
         Layered(M0, s, tainted, K), Down(e, tainted, M, K)
  PROVE  Layered(M0, Append(s, e), tainted, M)
PROOF
  <1> DEFINE t == <<e>>
             m == [j \in 0..1 |-> IF j = 0 THEN K ELSE M]
  <1>1. t \in Seq(Entries) /\ Len(t) = 1 /\ t[1] = e /\ Places(t) = {1}
    BY DEF Places
  <1>2. m \in [0..1 -> SUBSET Assignments] /\ m[0] = K /\ m[1] = M
    OBVIOUS
  <1>3. Append(s, e) = s \o t
    OBVIOUS
  <1> HIDE DEF t, m
  <1>4. Layers(K, t, tainted, M, m)
    BY <1>1, <1>2 DEF Layers
  <1>5. Layered(K, t, tainted, M)
    BY <1>4 DEF Layered
  <1>6. Layered(M0, s \o t, tainted, M)
    BY <1>1, <1>5, LayeredConcat
  <1>. QED
    BY <1>3, <1>6

\* The layers above place i, and the new stack below them.
Above(M0, stack, i, s) ==
  \E m \in [0..Len(stack) -> SUBSET Assignments] :
    /\ Layered(M0, s.stack, {}, m[i])
    /\ Lean(s.db) \subseteq m[Len(stack)]
    /\ \A j \in Places(stack) : j > i => Down(stack[j], s.tainted, m[j], m[j - 1])

\* What the pass keeps, apart from the layers.
Midway(F, stack, tainted, s) ==
  /\ s \in Passes /\ s.db \in Formulas
  /\ F.unsat => s.db.unsat
  /\ F.units \subseteq s.db.units
  /\ \A A \in DbModels(F) :
       (\A k \in Places(stack) : stack[k].clause \cap A # {}) => A \in DbModels(s.db)
  /\ tainted \subseteq s.tainted
  /\ \A p \in Places(s.stack) : /\ s.stack[p].witness \cap Negated(tainted) = {}
                                /\ \E k \in Places(stack) : s.stack[p] = stack[k]
  /\ \A L : Uses(F, L) => Uses(s.db, L \cup s.lits)

\* An entry moves to the new stack, or becomes a clause.
RestoreStep(s, e, stack, t) ==
  /\ t \in Passes
  /\ \/ /\ e.witness \cap Negated(s.tainted) = {}
        /\ t.stack = Append(s.stack, e)
        /\ t.db = s.db /\ t.tainted = s.tainted /\ t.lits = s.lits
     \/ /\ t.stack = s.stack
        /\ Adds(s.db, e.clause, t.db)
        /\ t.tainted = s.tainted \cup (e.clause \cap Negated(WitnessLiterals(stack)))
        /\ t.lits = s.lits \cup e.clause

\* One entry of the stack: its clause is restored and its witness tainted,
\* or it stays.
LEMMA RestoreStepRight ==
  ASSUME NEW s \in Passes, s.db \in Formulas, NEW e \in Entries, NEW stack,
         NEW t, t = restore_entry(s, e, stack, FALSE)
  PROVE  RestoreStep(s, e, stack, t)
PROOF
  <1>0. /\ s.db \in Dbs /\ s.stack \in Seq(Entries)
        /\ s.tainted \in SUBSET Lits /\ s.lits \in SUBSET Lits
    BY DEF Passes
  <1>1. e.clause \in SUBSET Lits
    BY DEF Entries, Clauses
  <1>2. CASE e.witness \cap Negated(s.tainted) = {}
    <2>1. t = [s EXCEPT !.stack = Append(@, e)]
      BY <1>2 DEF restore_entry
    <2>2. Append(s.stack, e) \in Seq(Entries)
      BY <1>0
    <2>3. /\ t \in Passes /\ t.stack = Append(s.stack, e) /\ t.db = s.db /\ t.tainted = s.tainted
          /\ t.lits = s.lits
      BY <1>0, <2>1, <2>2 DEF Passes
    <2>. QED
      BY <1>2, <2>3 DEF RestoreStep
  <1>3. CASE e.witness \cap Negated(s.tainted) # {}
    <2> DEFINE H == add_new_original_clause(s.db, e.clause)
               more == s.tainted \cup (e.clause \cap Negated(WitnessLiterals(stack)))
    <2>1. t = [s EXCEPT !.db = H, !.tainted = more, !.lits = @ \cup e.clause]
      BY <1>3 DEF restore_entry
    <2>2. Adds(s.db, e.clause, H)
      BY <1>1, AddMeans
    <2>3. more \in SUBSET Lits /\ s.lits \cup e.clause \in SUBSET Lits
      BY <1>0, <1>1
    <2>h. H \in Dbs
      BY <2>2, FormulaParts DEF Adds
    <2> HIDE DEF H, more
    <2>4. t \in Passes /\ t.stack = s.stack /\ t.db = H /\ t.tainted = more /\ t.lits = s.lits \cup e.clause
      BY <1>0, <2>1, <2>h, <2>3 DEF Passes
    <2>. QED
      BY <2>2, <2>4 DEF more, RestoreStep
  <1>. QED
    BY <1>2, <1>3

\* A step of the pass keeps what is kept.
LEMMA MidwayStep ==
  ASSUME NEW F \in Formulas, NEW stack \in Seq(Entries), NEW tainted \in SUBSET Lits,
         NEW i \in Places(stack), NEW s, Midway(F, stack, tainted, s),
         NEW t, RestoreStep(s, stack[i], stack, t)
  PROVE  Midway(F, stack, tainted, t)
PROOF
  <1> DEFINE e == stack[i]
             n == Len(s.stack)
  <1>0. /\ s \in Passes /\ s.db \in Formulas /\ s.stack \in Seq(Entries)
        /\ t \in Passes
        /\ e \in Entries /\ n \in Nat /\ Places(s.stack) = 1..n
    BY DEF Midway, Passes, RestoreStep, Places
  <1>1. CASE /\ e.witness \cap Negated(s.tainted) = {}
             /\ t.stack = Append(s.stack, e)
             /\ t.db = s.db /\ t.tainted = s.tainted /\ t.lits = s.lits
    <2>1. ASSUME NEW p \in Places(t.stack)
          PROVE  /\ t.stack[p].witness \cap Negated(tainted) = {}
                 /\ \E k \in Places(stack) : t.stack[p] = stack[k]
      <3>0. Len(t.stack) = n + 1 /\ t.stack[n + 1] = e /\ \A q \in 1..n : t.stack[q] = s.stack[q]
        BY <1>0, <1>1
      <3>1. CASE p = n + 1
        <4>1. Negated(tainted) \subseteq Negated(s.tainted)
          BY DEF Negated, Midway
        <4>. QED
          BY <1>1, <3>0, <3>1, <4>1
      <3>2. CASE p # n + 1
        <4>1. p \in 1..n
          BY <1>0, <3>0, <3>2 DEF Places
        <4>. QED
          BY <1>0, <3>0, <4>1 DEF Midway
      <3>. QED
        BY <3>1, <3>2
    <2>. QED
      BY <1>0, <1>1, <2>1 DEF Midway
  <1>2. CASE /\ t.stack = s.stack
             /\ Adds(s.db, e.clause, t.db)
             /\ t.tainted = s.tainted \cup (e.clause \cap Negated(WitnessLiterals(stack)))
             /\ t.lits = s.lits \cup e.clause
    <2>1. ASSUME NEW L, Uses(F, L) PROVE Uses(t.db, L \cup t.lits)
      <3>1. Uses(s.db, L \cup s.lits)
        BY <2>1 DEF Midway
      <3>2. Uses(s.db, L \cup t.lits) /\ e.clause \subseteq L \cup t.lits
        BY <1>2, <3>1 DEF Uses
      <3>. QED
        BY <1>2, <3>2 DEF Adds
    <2>2. /\ t.db \in Formulas /\ (F.unsat => t.db.unsat) /\ F.units \subseteq t.db.units
      BY <1>2 DEF Midway, Adds
    <2>3. \A A \in DbModels(F) :
            (\A k \in Places(stack) : stack[k].clause \cap A # {}) => A \in DbModels(t.db)
      BY <1>2 DEF Midway, Adds
    <2>4. /\ tainted \subseteq t.tainted
          /\ \A p \in Places(t.stack) : /\ t.stack[p].witness \cap Negated(tainted) = {}
                                        /\ \E k \in Places(stack) : t.stack[p] = stack[k]
      BY <1>2 DEF Midway
    <2>. QED
      BY <1>0, <2>1, <2>2, <2>3, <2>4 DEF Midway
  <1>. QED
    BY <1>1, <1>2 DEF RestoreStep

\* A step of the pass keeps the layers.
LEMMA AboveStep ==
  ASSUME NEW stack \in Seq(Entries), NEW M0, NEW i \in Places(stack),
         NEW s \in Passes, Above(M0, stack, i - 1, s),
         NEW t, RestoreStep(s, stack[i], stack, t)
  PROVE  Above(M0, stack, i, t)
PROOF
  <1> DEFINE e == stack[i]
             n == Len(stack)
  <1>0. /\ s.stack \in Seq(Entries)
        /\ e \in Entries /\ n \in Nat /\ Places(stack) = 1..n
        /\ i \in 1..n /\ i \in 0..n /\ i - 1 \in 0..n /\ n \in 0..n
        /\ \A j \in 1..n : j \in 0..n /\ j - 1 \in 0..n /\ (j > i => j > i - 1)
        /\ i > i - 1
        /\ e.clause \in SUBSET Lits
    BY DEF Passes, Places, Entries, Clauses
  <1>1. PICK m \in [0..n -> SUBSET Assignments] :
          /\ Layered(M0, s.stack, {}, m[i - 1])
          /\ Lean(s.db) \subseteq m[n]
          /\ \A j \in Places(stack) : j > i - 1 => Down(stack[j], s.tainted, m[j], m[j - 1])
    BY DEF Above
  <1> HIDE DEF n
  <1>2. Down(e, s.tainted, m[i], m[i - 1])
    BY <1>0, <1>1
  <1>3. CASE /\ e.witness \cap Negated(s.tainted) = {}
             /\ t.stack = Append(s.stack, e)
             /\ t.db = s.db /\ t.tainted = s.tainted /\ t.lits = s.lits
    <2>1. Down(e, {}, m[i], m[i - 1])
      BY <1>2, <1>3 DEF Down
    <2>2. m[i] \in SUBSET Assignments /\ m[i - 1] \in SUBSET Assignments
      BY <1>0
    <2> HIDE DEF e
    <2>3. Layered(M0, t.stack, {}, m[i])
      BY <1>0, <1>1, <1>3, <2>1, <2>2, LayeredAppend
    <2>4. \A j \in Places(stack) : j > i => Down(stack[j], t.tainted, m[j], m[j - 1])
      BY <1>0, <1>1, <1>3
    <2>. QED
      BY <1>1, <1>3, <2>3, <2>4 DEF Above, n
  <1>4. CASE /\ t.stack = s.stack
             /\ Adds(s.db, e.clause, t.db)
             /\ t.tainted = s.tainted \cup (e.clause \cap Negated(WitnessLiterals(stack)))
             /\ t.lits = s.lits \cup e.clause
    <2> DEFINE c == e.clause
               k == [j \in 0..n |-> Where(m[j], c)]
    <2>1. k \in [0..n -> SUBSET Assignments] /\ \A j \in 0..n : k[j] = Where(m[j], c)
      BY DEF Where
    <2>2. Where(m[i], c) \subseteq m[i - 1]
      BY <1>2 DEF Down, Where
    <2>3. Layered(M0, t.stack, {}, Where(m[i], c))
      BY <1>1, <1>4, <2>2, LayeredWeak
    <2>4. Lean(t.db) \subseteq Where(m[n], c)
      BY <1>1, <1>4 DEF Adds, Where
    <2>5. ASSUME NEW j \in Places(stack), j > i
          PROVE  Down(stack[j], t.tainted, Where(m[j], c), Where(m[j - 1], c))
      <3> DEFINE d == stack[j]
                 X == m[j]
                 Y == m[j - 1]
                 W == WitnessLiterals(stack)
                 more == t.tainted
                 tainted == s.tainted
      <3>1. d \in Entries /\ d.witness \subseteq W
        BY WitnessMember DEF Places
      <3>2. X \in SUBSET Assignments /\ Down(d, tainted, X, Y)
        BY <1>0, <1>1, <2>5
      <3>3. tainted \subseteq more /\ c \cap Negated(W) \subseteq more /\ c \in SUBSET Lits
        BY <1>0, <1>4
      <3> HIDE DEF d, X, Y, W, more, tainted, c
      <3>4. Down(d, more, Where(X, c), Where(Y, c))
        BY ONLY <3>1, <3>2, <3>3, DownMore
      <3>. QED
        BY <3>4 DEF d, X, Y, more
    <2> HIDE DEF k, c
    <2>6. \A j \in Places(stack) : j > i => Down(stack[j], t.tainted, k[j], k[j - 1])
      BY <1>0, <2>1, <2>5
    <2>7. k[i] = Where(m[i], c) /\ k[n] = Where(m[n], c)
      BY <1>0, <2>1
    <2>. QED
      BY <2>1, <2>3, <2>4, <2>6, <2>7 DEF Above, n
  <1>. QED
    BY <1>3, <1>4 DEF RestoreStep

\* What restoring leaves: entries whose witness was not touched, all of them
\* ready for reconstruction.
RestoredTo(M0, F, stack, tainted, r) ==
  /\ Midway(F, stack, tainted, r)
  /\ Layered(M0, r.stack, {}, Lean(r.db))

\* restore_clauses keeps the layers between the user's formula and what is left.
THEOREM RestoredRight ==
  ASSUME NEW F \in Formulas, NEW stack \in Seq(Entries), NEW tainted \in SUBSET Lits,
         NEW M0, Layered(M0, stack, tainted, Lean(F)),
         NEW r, r = restore_clauses(F, stack, tainted, FALSE)
  PROVE  RestoredTo(M0, F, stack, tainted, r)
PROOF
  <1> DEFINE n == Len(stack)
             start == [db |-> F, stack |-> <<>>, tainted |-> tainted, lits |-> {}]
  <1>0. n \in Nat /\ Places(stack) = 1..n /\ F \in Dbs
    BY FormulaParts DEF Places
  <1>1. PICK f : /\ f[0] = start
                 /\ \A i \in Places(stack) : f[i] = restore_entry(f[i - 1], stack[i], stack, FALSE)
                 /\ r = f[n]
    BY <1>0, RestoreTurns
  <1> DEFINE Good == {i \in Nat : i \in 0..n => /\ Midway(F, stack, tainted, f[i])
                                                /\ Above(M0, stack, i, f[i])}
  <1>2. start \in Passes /\ start.stack = <<>> /\ start.db = F /\ start.tainted = tainted /\ start.lits = {}
    <2>1. <<>> \in Seq(Entries)
      OBVIOUS
    <2>. QED
      BY <1>0, <2>1 DEF Passes
  <1> HIDE DEF start
  <1>3. Midway(F, stack, tainted, start)
    <2>1. Places(<<>>) = {}
      BY DEF Places
    <2>2. \A L : L \cup {} = L
      OBVIOUS
    <2>. QED
      BY <1>2, <2>1, <2>2 DEF Midway
  <1>4. Above(M0, stack, 0, start)
    <2>1. PICK m : Layers(M0, stack, tainted, Lean(F), m)
      BY DEF Layered
    <2>2. /\ m \in [0..n -> SUBSET Assignments] /\ m[0] \subseteq M0 /\ Lean(F) \subseteq m[n]
          /\ \A j \in Places(stack) : Down(stack[j], tainted, m[j], m[j - 1])
      BY <2>1 DEF Layers
    <2>3. m[0] \in SUBSET Assignments
      <3>1. 0 \in 0..n
        BY <1>0
      <3>. QED
        BY <2>2, <3>1
    <2>4. Layered(M0, <<>>, {}, m[0])
      BY <2>2, <2>3, LayeredEmpty
    <2>. QED
      BY <1>2, <2>2, <2>4 DEF Above
  <1>5. 0 \in Good
    BY <1>1, <1>3, <1>4
  <1> HIDE DEF n
  <1>6. ASSUME NEW i \in Nat, i \in Good PROVE i + 1 \in Good
    <2> SUFFICES ASSUME i + 1 \in 0..n
                 PROVE  /\ Midway(F, stack, tainted, f[i + 1])
                        /\ Above(M0, stack, i + 1, f[i + 1])
      OBVIOUS
    <2>1. i \in 0..n /\ i + 1 \in Places(stack) /\ (i + 1) - 1 = i
      BY <1>0
    <2>2. Midway(F, stack, tainted, f[i]) /\ Above(M0, stack, (i + 1) - 1, f[i])
      BY <1>6, <2>1
    <2>3. f[i] \in Passes /\ f[i].db \in Formulas /\ stack[i + 1] \in Entries
      BY <2>1, <2>2 DEF Midway, Places
    <2>4. f[i + 1] = restore_entry(f[i], stack[i + 1], stack, FALSE)
      BY <1>1, <2>1
    <2>5. RestoreStep(f[i], stack[i + 1], stack, f[i + 1])
      BY <2>3, <2>4, RestoreStepRight
    <2>6. Midway(F, stack, tainted, f[i + 1])
      BY <2>1, <2>2, <2>5, MidwayStep
    <2>7. Above(M0, stack, i + 1, f[i + 1])
      BY <2>1, <2>2, <2>3, <2>5, AboveStep
    <2>. QED
      BY <2>6, <2>7
  <1> HIDE DEF Good
  <1>7. Nat \subseteq Good
    BY <1>5, <1>6, NatInd
  <1>8. Midway(F, stack, tainted, r) /\ Above(M0, stack, n, r)
    <2>1. n \in Good /\ n \in 0..n
      BY <1>0, <1>7
    <2>. QED
      BY <1>1, <2>1 DEF Good
  <1>9. Layered(M0, r.stack, {}, Lean(r.db))
    <2>1. PICK m \in [0..n -> SUBSET Assignments] :
            Layered(M0, r.stack, {}, m[n]) /\ Lean(r.db) \subseteq m[n]
      BY <1>8 DEF Above, n
    <2> DEFINE X == m[n]
               Y == Lean(r.db)
               st == r.stack
               none == {}
    <2>2. Layered(M0, st, none, X) /\ Y \subseteq X
      BY <2>1
    <2> HIDE DEF X, Y, st, none
    <2>3. Layered(M0, st, none, Y)
      BY <2>2, LayeredWeak
    <2>. QED
      BY <2>3 DEF Y, st, none
  <1>. QED
    BY <1>8, <1>9 DEF RestoredTo

-----------------------------------------------------------------------------
(***************************************************************************)
(* Removing clauses that can be repaired.                                  *)
(***************************************************************************)
\* Entries with clauses that follow from F and witnesses outside of away.
Pushes(F, pushed, away) ==
  /\ pushed \in Seq(Entries)
  /\ \A p \in Places(pushed) : /\ IsClause(pushed[p].clause)
                               /\ \A A \in DbModels(F) : pushed[p].clause \cap A # {}
                               /\ \A l \in pushed[p].witness : vidx(l) \notin away

\* From G back to F, entries repair one after the other.
Kept(F, pushed, G) ==
  /\ \A p \in Places(pushed) : Repairs(Lean(G), pushed, p)
  /\ Left(Lean(G), pushed, 0) \subseteq Lean(F)

\* Entries that repair are layers.
LEMMA KeptLayers ==
  ASSUME NEW F, NEW G, NEW pushed \in Seq(Entries), Kept(F, pushed, G)
  PROVE  Layered(Lean(F), pushed, {}, Lean(G))
PROOF
  <1> DEFINE M == Lean(G)
             M0 == Lean(F)
             K0 == Left(M, pushed, 0)
             none == {}
  <1>1. M \in SUBSET Assignments /\ K0 \subseteq M0 /\ none \subseteq none /\ M \subseteq M
    BY DEF Lean, Kept
  <1>2. Layered(K0, pushed, none, M)
    <2>1. \A j \in Places(pushed) : Repairs(M, pushed, j)
      BY DEF Kept
    <2>2. M \in SUBSET Assignments
      BY <1>1
    <2> HIDE DEF M
    <2>. QED
      BY <2>1, <2>2, LayeredRepairs
  <1> HIDE DEF M, M0, K0, none
  <1>3. Layered(M0, pushed, none, M)
    BY <1>1, <1>2, LayeredWeak
  <1>. QED
    BY <1>3 DEF M, M0, none

\* A database in which only the irredundant clauses are less.
Reduced(F, G) ==
  /\ Follows(F, G) /\ G.red = F.red /\ G.irr \subseteq F.irr
  /\ G.units = F.units /\ G.unsat = F.unsat

\* A garbage clause.
LEMMA GarbageMeans ==
  ASSUME NEW F \in Formulas, NEW c, NEW G, G = mark_garbage(F, c)
  PROVE  /\ Reduced(F, G) /\ Worked(F, G) /\ G.irr = F.irr \ {c}
         /\ (\A A \in Lean(G) : c \cap A # {}) => Lean(G) \subseteq Lean(F)
PROOF
  <1>0. /\ F \in Dbs /\ F.irr \in SUBSET Clauses /\ F.red \in SUBSET Clauses
        /\ F.units \in SUBSET Lits /\ F.unsat \in BOOLEAN
    BY FormulaParts
  <1>1. /\ G \in Dbs /\ G.irr = F.irr \ {c} /\ G.red = F.red
        /\ G.units = F.units /\ G.unsat = F.unsat
    BY <1>0 DEF mark_garbage, Dbs
  <1>2. Follows(F, G) /\ Worked(F, G)
    BY <1>1, FewerMeans
  <1>3. ASSUME \A A \in Lean(G) : c \cap A # {} PROVE Lean(G) \subseteq Lean(F)
    BY <1>1, <1>3 DEF Lean
  <1>. QED
    BY <1>1, <1>2, <1>3 DEF Reduced

\* What block_literal does to the formula and to the stack.
BlockDone(F, lit, away, b) ==
  /\ Reduced(F, b.db)
  /\ Pushes(F, b.pushed, away)
  /\ Kept(F, b.pushed, b.db)
  /\ occs(F, -lit) = {} => \A c \in b.db.irr : lit \notin c /\ -lit \notin c

\* Removing the blocked clauses of a literal pushes entries that repair them.
THEOREM BlockMeans ==
  ASSUME NEW F \in Formulas, NEW lit \in Lits, {lit, -lit} \cap F.units = {},
         NEW away, vidx(lit) \notin away, NEW b, b = block_literal(F, lit)
  PROVE  BlockDone(F, lit, away, b)
PROOF
  <1>0. /\ F \in Dbs /\ F.irr \in SUBSET Clauses
        /\ \A c \in F.irr : c \in SUBSET Lits /\ IsClause(c)
    BY FormulaParts
  <1>1. PICK C \in SUBSET occs(F, lit) :
          b = Weakened(F, C, lit) /\ \A c \in C : is_blocked_clause(F, c, lit)
    BY <1>0, BlockedOnly
  <1>2. /\ b.db \in Dbs /\ b.db.irr = F.irr \ C /\ b.db.red = F.red
        /\ b.db.units = F.units /\ b.db.unsat = F.unsat
        /\ b.pushed \in Seq(Entries)
        /\ \A p \in Places(b.pushed) : b.pushed[p].witness = {lit} /\ b.pushed[p].clause \in C
        /\ \A c \in C : \E p \in Places(b.pushed) : b.pushed[p].clause = c
    BY <1>0, <1>1, WeakenedRight
  <1>3. C \in SUBSET F.irr /\ \A c \in C : lit \in c
    BY DEF occs
  <1>4. \A p \in Places(b.pushed) : p \in Nat /\ p > 0
    BY DEF Places
  <1>5. Reduced(F, b.db)
    BY <1>2, FewerMeans DEF Reduced
  <1>6. Pushes(F, b.pushed, away)
    <2>1. \A A \in DbModels(F) : \A c \in C : c \cap A # {}
      BY <1>0, <1>3, DbModel
    <2>. QED
      BY <1>0, <1>2, <1>3, <2>1 DEF Pushes
  <1>7. Left(Lean(b.db), b.pushed, 0) \subseteq Lean(F)
    <2> SUFFICES ASSUME NEW A \in Left(Lean(b.db), b.pushed, 0) PROVE A \in Lean(F)
      OBVIOUS
    <2>1. A \in Lean(b.db) /\ \A p \in Places(b.pushed) : b.pushed[p].clause \cap A # {}
      BY <1>4 DEF Left
    <2>2. \A c \in C : c \cap A # {}
      BY <1>2, <2>1
    <2>. QED
      BY <1>2, <2>1, <2>2 DEF Lean
  <1>8. ASSUME NEW p \in Places(b.pushed), NEW A \in Left(Lean(b.db), b.pushed, p),
               b.pushed[p].clause \cap A = {}
        PROVE  Flipped(b.pushed[p], A) \in Left(Lean(b.db), b.pushed, p)
    <2> DEFINE c == b.pushed[p].clause
               B == Flipped(b.pushed[p], A)
    <2>1. b.pushed[p] \in Entries /\ c \in C /\ c \in SUBSET Lits /\ b.pushed[p].witness = {lit}
      BY <1>0, <1>2, <1>3 DEF Places
    <2>2. /\ A \in Assignments /\ c \cap A = {} /\ ~b.db.unsat /\ F.units \subseteq A
          /\ \A d \in b.db.irr : d \cap A # {}
      BY <1>2, <1>8 DEF Left, Lean
    <2>3. B \in Assignments
      BY <2>1, <2>2, FlippedAssignment
    <2>4. B = (A \ {-lit}) \cup {lit}
      BY <2>1 DEF Flipped, Negated
    <2>5. \A l \in Lits : l \in A <=> -l \notin A
      BY <2>2, AssignmentIff
    <2> HIDE DEF c, B
    <2>6. F.units \subseteq B
      BY <2>2, <2>4
    <2>7. ASSUME NEW d \in b.db.irr PROVE d \cap B # {}
      <3>1. d \in F.irr /\ d \cap A # {} /\ d \in SUBSET Lits
        BY <1>0, <1>2, <2>2
      <3>2. CASE -lit \in d
        <4>1. d \in occs(F, -lit)
          BY <3>1, <3>2 DEF occs
        <4>2. PICK other \in d \ {-lit} : -other \in c
          BY <1>1, <2>1, <4>1 DEF is_blocked_clause
        <4>3. other \in A
          BY <2>2, <2>5, <3>1, <4>2
        <4>. QED
          BY <2>4, <4>2, <4>3
      <3>3. CASE -lit \notin d
        BY <2>4, <3>1, <3>3
      <3>. QED
        BY <3>2, <3>3
    <2>8. B \in Lean(b.db)
      BY <1>2, <2>2, <2>3, <2>6, <2>7 DEF Lean
    <2>9. \A q \in Places(b.pushed) : b.pushed[q].clause \cap B # {}
      BY <1>2, <1>3, <2>4
    <2>. QED
      BY <2>8, <2>9 DEF Left, B
  <1>9. ASSUME occs(F, -lit) = {} PROVE \A c \in b.db.irr : lit \notin c /\ -lit \notin c
    <2>1. Cardinality(occs(F, -lit)) = 0
      BY <1>9, FS_EmptySet
    <2>2. block_literal(F, lit) = Weakened(F, occs(F, lit), lit)
      BY <2>1, BlockAssumption DEF block_literal, block_pure_literal
    <2>3. b.db = [F EXCEPT !.irr = @ \ occs(F, lit)]
      BY <2>2 DEF Weakened
    <2>4. b.db.irr = F.irr \ occs(F, lit)
      BY <1>0, <2>3 DEF Dbs
    <2>. QED
      BY <1>9, <2>4 DEF occs
  <1>. QED
    BY <1>5, <1>6, <1>7, <1>8, <1>9 DEF BlockDone, Kept, Repairs

-----------------------------------------------------------------------------
(***************************************************************************)
(* Covered clauses.                                                        *)
(***************************************************************************)
CoverStates == [added : SUBSET Lits, covered : SUBSET Lits, extend : Seq(Entries),
                tautological : BOOLEAN]

\* The clause the last entry stands for, and the one above an entry.
NextClause(s, j) == IF j = Len(s.extend) THEN s.covered ELSE s.extend[j + 1].clause

\* What an entry of the pending ones does to an assignment of M.
CoverRepair(M, e, next) ==
  \A A \in M : e.clause \cap A = {} /\ next \cap A # {} => Flipped(e, A) \in M

\* Such an entry without a condition.
Mends(M, e) == \A A \in M : e.clause \cap A = {} => Flipped(e, A) \in M

\* The models of the clauses other than c.
OtherModels(F, c, M) ==
  \A A : A \in M <=> /\ A \in Assignments /\ ~F.unsat /\ F.units \subseteq A
                     /\ \A d \in F.irr \ {c} : d \cap A # {}

\* What the loop of cover_clause keeps, for the models M of the other clauses.
Covering(F, c, frozen, M, s) ==
  /\ s \in CoverStates
  /\ Remaining(F, c) \subseteq s.covered /\ s.covered \subseteq s.added
  /\ IsClause(s.covered) /\ s.covered \cap F.units = {} /\ s.covered \cap Negated(F.units) = {}
  /\ \A A \in M : s.covered \cap A = {} => s.added \cap A = {}
  /\ s.extend = <<>> => s.covered = Remaining(F, c)
  /\ s.extend # <<>> => s.extend[1].clause = Remaining(F, c)
  /\ \A j \in Places(s.extend) :
       /\ IsClause(s.extend[j].clause)
       /\ Remaining(F, c) \subseteq s.extend[j].clause
       /\ s.extend[j].clause \cap F.units = {}
       /\ \A l \in s.extend[j].witness : vidx(l) \notin frozen
       /\ s.extend[j].clause \subseteq s.covered
       /\ \A k \in Places(s.extend) : j <= k => s.extend[j].clause \subseteq s.extend[k].clause
       /\ CoverRepair(M, s.extend[j], NextClause(s, j))
       /\ s.tautological /\ j = Len(s.extend) => Mends(M, s.extend[j])

\* Asymmetric additions are false when the clause so far is.
LEMMA AsymmetricMeans ==
  ASSUME NEW F \in Formulas, NEW c, NEW M, OtherModels(F, c, M), NEW added \in SUBSET Lits,
         NEW a, a = cover_propagate_asymmetric(F, c, added)
  PROVE  /\ a.added \in SUBSET Lits /\ added \subseteq a.added
         /\ \A A \in M : added \cap A = {} => a.added \cap A = {} /\ ~a.subsumed
PROOF
  <1> DEFINE C == F.irr \ {c}
             U == Negated(added) \cup F.units
             P == Propagation(C, U)
  <1>0. C \in SUBSET Clauses /\ U \in SUBSET Lits
    BY FormulaParts, NegatedType
  <1>1. a = [added |-> Negated(P), subsumed |-> Conflicting(C, U)]
    BY DEF cover_propagate_asymmetric
  <1>2. /\ P \in SUBSET Lits /\ U \subseteq P
        /\ \A A \in Assignments : U \subseteq A /\ (\A d \in C : d \cap A # {}) => P \subseteq A
    BY <1>0, PropagationTrue
  <1>3. a.added = Negated(P) /\ (a.subsumed <=> Conflicting(C, U))
    BY <1>1
  <1> HIDE DEF P
  <1>4. Negated(P) \in SUBSET Lits
    BY <1>2, NegatedType
  <1>5. added \subseteq Negated(P)
    <2> SUFFICES ASSUME NEW l \in added PROVE l \in Negated(P)
      OBVIOUS
    <2>1. l \in Lits /\ -l \in Lits /\ -(-l) = l
      BY Literal
    <2>2. -l \in P
      BY <1>2, <2>1, NegatedMember
    <2>. QED
      BY <1>2, <2>1, <2>2, NegatedMember
  <1>6. ASSUME NEW A \in M, added \cap A = {} PROVE Negated(P) \cap A = {} /\ ~Conflicting(C, U)
    <2>1. A \in Assignments /\ F.units \subseteq A /\ \A d \in C : d \cap A # {}
      BY DEF OtherModels
    <2>2. A \in SUBSET Lits /\ \A l \in Lits : l \in A <=> -l \notin A
      BY <2>1, AssignmentIff
    <2>3. U \subseteq A
      <3> SUFFICES ASSUME NEW l \in Negated(added) PROVE l \in A
        BY <2>1
      <3>1. l \in Lits /\ -l \in added
        BY NegatedType, NegatedMember
      <3>. QED
        BY <1>6, <2>2, <3>1
    <2> HIDE DEF C, U
    <2>4. P \subseteq A
      BY <1>2, <2>1, <2>3
    <2>5. Negated(P) \cap A = {}
      BY <2>1, <2>4, Opposite
    <2>6. ~Conflicting(C, U)
      BY <1>0, <2>1, <2>3, ConflictMeans
    <2>. QED
      BY <2>5, <2>6
  <1>. QED
    BY <1>3, <1>4, <1>5, <1>6

\* The literals an assignment loses and gains when lit is made true.
LEMMA FlippedOne ==
  ASSUME NEW lit \in Lits, NEW e, e.witness = {lit}, NEW A
  PROVE  Flipped(e, A) = (A \ {-lit}) \cup {lit}
BY DEF Flipped, Negated

\* Making a literal true that was used for a covered literal addition.
LEMMA CoveredFlip ==
  ASSUME NEW F \in Formulas, NEW c, NEW M, OtherModels(F, c, M), NEW added \in SUBSET Lits,
         NEW e \in Entries, NEW lit \in e.clause, e.witness = {lit},
         e.clause \cap Negated(F.units) = {},
         NEW A \in M, e.clause \cap A = {}, added \cap A = {},
         \/ ResolutionCandidates(F, lit, added) = {}
         \/ \E l \in CoveredBy(F, lit, added) : l \in A
  PROVE  Flipped(e, A) \in M
PROOF
  <1> DEFINE B == Flipped(e, A)
  <1>0. /\ A \in Assignments /\ ~F.unsat /\ F.units \subseteq A
        /\ \A d \in F.irr \ {c} : d \cap A # {}
    BY DEF OtherModels
  <1>1. lit \in Lits /\ -lit \in Lits /\ -(-lit) = lit
    BY Literal DEF Entries, Clauses
  <1>2. B \in Assignments
    BY <1>0, FlippedAssignment
  <1>3. B = (A \ {-lit}) \cup {lit}
    BY <1>1, FlippedOne
  <1>4. \A l \in Lits : l \in A <=> -l \notin A
    BY <1>0, AssignmentIff
  <1> HIDE DEF B
  <1>5. F.units \subseteq B
    <2>1. F.units \in SUBSET Lits
      BY FormulaParts
    <2>2. -lit \notin F.units
      BY <1>1, <2>1, NegatedMember
    <2>. QED
      BY <1>0, <1>3, <2>2
  <1>6. ASSUME NEW d \in F.irr \ {c} PROVE d \cap B # {}
    <2>0. d \in SUBSET Lits /\ d \cap A # {}
      BY <1>0, FormulaParts
    <2>1. CASE -lit \notin d
      BY <1>3, <2>0, <2>1
    <2>2. CASE -lit \in d /\ d \in ResolutionCandidates(F, lit, added)
      <3>1. PICK l \in CoveredBy(F, lit, added) : l \in A
        BY <2>2
      <3>2. l # -lit /\ l \in d
        BY <2>2, <3>1 DEF CoveredBy
      <3>. QED
        BY <1>3, <3>1, <3>2
    <2>3. CASE -lit \in d /\ d \notin ResolutionCandidates(F, lit, added)
      <3>1. d \in occs(F, -lit)
        BY <2>3 DEF occs
      <3>2. PICK k \in d \ {-lit} : k \in Negated(added) \cup F.units
        BY <2>3, <3>1 DEF ResolutionCandidates
      <3>3. k \in A
        <4>1. CASE k \in F.units
          BY <1>0, <4>1
        <4>2. CASE k \in Negated(added)
          <5>1. k \in Lits /\ -k \in added
            BY <2>0, <3>2, <4>2, NegatedMember
          <5>. QED
            BY <1>4, <5>1
        <4>. QED
          BY <3>2, <4>1, <4>2
      <3>. QED
        BY <1>3, <3>2, <3>3
    <2>. QED
      BY <2>1, <2>2, <2>3
  <1>. QED
    BY <1>0, <1>2, <1>5, <1>6 DEF OtherModels, B

\* Covered literals are new, and fixed in neither way.
LEMMA CoveredLiterals ==
  ASSUME NEW F \in Formulas, NEW added \in SUBSET Lits, NEW covered \in SUBSET added,
         NEW lit \in Lits, IsClause(covered),
         covered \cap F.units = {}, covered \cap Negated(F.units) = {},
         ResolutionCandidates(F, lit, added) # {},
         NEW new, new = CoveredBy(F, lit, added)
  PROVE  /\ new \in SUBSET Lits /\ IsClause(covered \cup new)
         /\ (covered \cup new) \cap F.units = {}
         /\ (covered \cup new) \cap Negated(F.units) = {}
PROOF
  <1>1. PICK d : d \in ResolutionCandidates(F, lit, added)
    OBVIOUS
  <1>2. d \in F.irr /\ (d \ {-lit}) \cap (Negated(added) \cup F.units) = {}
    BY <1>1 DEF ResolutionCandidates, occs
  <1>3. IsClause(d) /\ d \in SUBSET Lits /\ F.units \in SUBSET Lits
    BY <1>2, FormulaParts
  <1>4. \A l \in new : /\ l \in Lits /\ l \in d /\ l # -lit /\ l \notin added /\ -l \notin F.units
    BY <1>1 DEF CoveredBy
  <1>5. \A l \in new : l \notin F.units /\ l \notin Negated(added) /\ l \notin Negated(F.units)
    BY <1>2, <1>3, <1>4, NegatedMember
  <1>6. \A l \in covered \cup new : l \in Lits
    BY <1>4
  <1>7. ASSUME NEW l \in covered \cup new, -l \in covered \cup new PROVE FALSE
    <2>0. l \in Lits /\ -l \in Lits /\ -(-l) = l
      BY <1>6, Literal
    <2>1. CASE l \in covered /\ -l \in covered
      BY <2>0, <2>1, NegatedMember DEF IsClause
    <2>2. CASE l \in new /\ -l \in covered
      BY <1>5, <2>0, <2>2, NegatedMember
    <2>3. CASE l \in covered /\ -l \in new
      BY <1>5, <2>0, <2>3, NegatedMember
    <2>4. CASE l \in new /\ -l \in new
      <3>1. l \in Negated(d)
        BY <1>3, <1>4, <2>0, <2>4, NegatedMember
      <3>. QED
        BY <1>3, <1>4, <2>4, <3>1 DEF IsClause
    <2>. QED
      BY <1>7, <2>1, <2>2, <2>3, <2>4
  <1>8. IsClause(covered \cup new)
    <2> DEFINE S == covered \cup new
    <2>1. S \in SUBSET Lits
      BY <1>6
    <2>2. \A l \in S : -l \notin S
      BY <1>7
    <2> HIDE DEF S
    <2>3. S \cap Negated(S) = {}
      BY <2>1, <2>2, NegatedMember
    <2>. QED
      BY <2>1, <2>3 DEF IsClause, S
  <1>. QED
    BY <1>4, <1>5, <1>8

\* A covered literal addition keeps what the loop keeps.
LEMMA CoveringCovered ==
  ASSUME NEW F \in Formulas, NEW c, NEW frozen, NEW M, OtherModels(F, c, M),
         NEW s, Covering(F, c, frozen, M, s), ~s.tautological,
         NEW lit \in s.covered, vidx(lit) \notin frozen,
         NEW t, t = cover_propagate_covered(F, lit, s)
  PROVE  Covering(F, c, frozen, M, t)
PROOF
  <1> DEFINE e == Pushed({lit}, s.covered)
             blocked == ResolutionCandidates(F, lit, s.added) = {}
             new == IF blocked THEN {} ELSE CoveredBy(F, lit, s.added)
             n == Len(s.extend)
  <1>0. /\ s \in CoverStates /\ s.added \in SUBSET Lits /\ s.covered \in SUBSET s.added
        /\ s.extend \in Seq(Entries) /\ n \in Nat /\ Places(s.extend) = 1..n
        /\ IsClause(s.covered) /\ lit \in Lits /\ s.covered \in SUBSET Lits
        /\ s.covered \cap F.units = {} /\ s.covered \cap Negated(F.units) = {}
        /\ \A A \in M : s.covered \cap A = {} => s.added \cap A = {}
    BY DEF Covering, CoverStates, Places
  <1>1. t = [added |-> s.added \cup new, covered |-> s.covered \cup new,
             extend |-> Append(s.extend, e), tautological |-> blocked]
    BY DEF cover_propagate_covered
  <1> HIDE DEF e, blocked, new, n
  <1>2. /\ t.added = s.added \cup new /\ t.covered = s.covered \cup new
        /\ t.extend = Append(s.extend, e) /\ (t.tautological <=> blocked)
        /\ t.tautological \in BOOLEAN
    <2>1. blocked \in BOOLEAN
      BY DEF blocked
    <2>2. t.added = s.added \cup new /\ t.covered = s.covered \cup new
      BY ONLY <1>1
    <2>3. t.extend = Append(s.extend, e)
      BY ONLY <1>1
    <2>4. t.tautological = blocked
      BY ONLY <1>1
    <2>. QED
      BY ONLY <2>1, <2>2, <2>3, <2>4
  <1>3. e \in Entries /\ e.witness = {lit} /\ e.clause = s.covered
    <2>1. {lit} \in SUBSET Lits /\ {lit} \cap Negated({lit}) = {}
      BY <1>0, Literal DEF Negated
    <2>. QED
      BY <1>0, <2>1 DEF Entries, Pushed, Clauses, e
  <1>4. /\ new \in SUBSET Lits /\ IsClause(t.covered)
        /\ t.covered \cap F.units = {} /\ t.covered \cap Negated(F.units) = {}
    <2>1. CASE blocked
      <3>1. new = {}
        BY <2>1 DEF new
      <3>2. t.covered = s.covered
        BY <1>2, <3>1
      <3>. QED
        BY <1>0, <3>1, <3>2
    <2>2. CASE ~blocked
      <3>1. new = CoveredBy(F, lit, s.added) /\ ResolutionCandidates(F, lit, s.added) # {}
        BY <2>2 DEF new, blocked
      <3> DEFINE added == s.added
                 covered == s.covered
      <3>2. /\ added \in SUBSET Lits /\ covered \in SUBSET added /\ lit \in Lits /\ IsClause(covered)
            /\ covered \cap F.units = {} /\ covered \cap Negated(F.units) = {}
            /\ ResolutionCandidates(F, lit, added) # {} /\ new = CoveredBy(F, lit, added)
            /\ t.covered = covered \cup new
        BY <1>0, <1>2, <3>1
      <3> HIDE DEF added, covered
      <3>3. /\ new \in SUBSET Lits /\ IsClause(covered \cup new)
            /\ (covered \cup new) \cap F.units = {}
            /\ (covered \cup new) \cap Negated(F.units) = {}
        BY ONLY <3>2, F \in Formulas, CoveredLiterals
      <3>. QED
        BY ONLY <3>2, <3>3
    <2>. QED
      BY <2>1, <2>2
  <1>5. /\ Append(s.extend, e) \in Seq(Entries) /\ Len(t.extend) = n + 1
        /\ t.extend[n + 1] = e /\ (\A q \in 1..n : t.extend[q] = s.extend[q])
        /\ Places(t.extend) = 1..(n + 1)
    BY <1>0, <1>2, <1>3 DEF Places, n
  <1>6. ASSUME NEW A \in M, s.covered \cap A = {}, blocked \/ new \cap A # {}
        PROVE  Flipped(e, A) \in M
    <2> DEFINE added == s.added
    <2>1. \/ ResolutionCandidates(F, lit, added) = {}
          \/ \E l \in CoveredBy(F, lit, added) : l \in A
      BY <1>6 DEF blocked, new
    <2>2. /\ e.clause \cap Negated(F.units) = {} /\ lit \in e.clause /\ e.clause \cap A = {}
          /\ added \cap A = {} /\ added \in SUBSET Lits
      BY <1>0, <1>3, <1>6
    <2> HIDE DEF added
    <2>. QED
      BY <1>3, <1>6, <2>1, <2>2, CoveredFlip
  <1>7. t \in CoverStates
    <2>1. s.added \cup new \in SUBSET Lits /\ s.covered \cup new \in SUBSET Lits
      BY <1>0, <1>4
    <2>. QED
      BY <1>1, <1>2, <1>5, <2>1 DEF CoverStates
  <1>8. \A j \in 1..n : NextClause(t, j) = NextClause(s, j)
    <2> SUFFICES ASSUME NEW j \in 1..n PROVE NextClause(t, j) = NextClause(s, j)
      OBVIOUS
    <2>1. j # Len(t.extend)
      BY <1>0, <1>5
    <2>2. CASE j = n
      BY <1>3, <1>5, <2>1, <2>2 DEF NextClause, n
    <2>3. CASE j # n
      <3>1. j + 1 \in 1..n
        BY <1>0, <2>3
      <3>. QED
        BY <1>5, <2>1, <2>3, <3>1 DEF NextClause, n
    <2>. QED
      BY <2>2, <2>3
  <1>9. CoverRepair(M, e, t.covered) /\ (t.tautological => Mends(M, e))
    <2>1. \A A : t.covered \cap A # {} /\ s.covered \cap A = {} => new \cap A # {}
      BY <1>2
    <2>. QED
      BY <1>2, <1>3, <1>6, <2>1 DEF CoverRepair, Mends
  <1>10. NextClause(t, n + 1) = t.covered
    BY <1>5 DEF NextClause
  <1>11. ASSUME NEW j \in 1..n
         PROVE  /\ IsClause(t.extend[j].clause)
                /\ Remaining(F, c) \subseteq t.extend[j].clause
                /\ t.extend[j].clause \cap F.units = {}
                /\ \A l \in t.extend[j].witness : vidx(l) \notin frozen
                /\ t.extend[j].clause \subseteq s.covered
                /\ \A k \in 1..n : j <= k => t.extend[j].clause \subseteq t.extend[k].clause
                /\ CoverRepair(M, t.extend[j], NextClause(t, j))
    BY <1>0, <1>5, <1>8 DEF Covering
  <1>12. ASSUME NEW j \in Places(t.extend)
         PROVE  /\ IsClause(t.extend[j].clause)
                /\ Remaining(F, c) \subseteq t.extend[j].clause
                /\ t.extend[j].clause \cap F.units = {}
                /\ \A l \in t.extend[j].witness : vidx(l) \notin frozen
                /\ t.extend[j].clause \subseteq t.covered
                /\ \A k \in Places(t.extend) : j <= k => t.extend[j].clause \subseteq t.extend[k].clause
                /\ CoverRepair(M, t.extend[j], NextClause(t, j))
                /\ t.tautological /\ j = Len(t.extend) => Mends(M, t.extend[j])
    <2>1. CASE j = n + 1
      <3>1. t.extend[j] = e /\ \A k \in Places(t.extend) : j <= k => k = j
        BY <1>0, <1>5, <2>1
      <3>2. Remaining(F, c) \subseteq s.covered
        BY DEF Covering
      <3>. QED
        BY <1>0, <1>2, <1>3, <1>9, <1>10, <2>1, <3>1, <3>2
    <2>2. CASE j \in 1..n
      <3>1. j # Len(t.extend)
        BY <1>0, <1>5, <2>2
      <3>2. \A k \in Places(t.extend) : k \in 1..n \/ t.extend[k].clause = s.covered
        BY <1>0, <1>3, <1>5
      <3>3. \A k \in Places(t.extend) : j <= k => t.extend[j].clause \subseteq t.extend[k].clause
        BY <1>11, <2>2, <3>2
      <3>. QED
        BY <1>2, <1>11, <2>2, <3>1, <3>3
    <2>. QED
      BY <1>0, <1>5, <2>1, <2>2
  <1>13. \A A \in M : t.covered \cap A = {} => t.added \cap A = {}
    BY <1>0, <1>2
  <1>14. /\ Remaining(F, c) \subseteq t.covered /\ t.covered \subseteq t.added
         /\ t.extend # <<>> /\ t.extend[1].clause = Remaining(F, c)
    <2>1. t.extend # <<>>
      BY <1>0, <1>5
    <2>2. CASE s.extend = <<>>
      <3>1. n = 0 /\ s.covered = Remaining(F, c)
        BY <2>2 DEF n, Covering
      <3>. QED
        BY <1>0, <1>2, <1>3, <1>5, <2>1, <3>1
    <2>3. CASE s.extend # <<>>
      <3>1. 1 \in 1..n /\ s.extend[1].clause = Remaining(F, c)
        BY <1>0, <2>3 DEF n, Covering
      <3>2. Remaining(F, c) \subseteq s.covered
        BY DEF Covering
      <3>. QED
        BY <1>0, <1>2, <1>5, <2>1, <3>1, <3>2
    <2>. QED
      BY <2>2, <2>3
  <1>. QED
    BY <1>4, <1>7, <1>12, <1>13, <1>14 DEF Covering

\* More literals that are false when the clause so far is, and a tautology
\* when the clause so far is always true.
LEMMA CoveringAdded ==
  ASSUME NEW F, NEW c, NEW frozen, NEW M, NEW s, Covering(F, c, frozen, M, s),
         NEW added \in SUBSET Lits, s.added \subseteq added,
         \A A \in M : s.covered \cap A = {} => added \cap A = {},
         NEW b \in BOOLEAN, b => s.tautological \/ \A A \in M : s.covered \cap A # {},
         NEW t, t = [added |-> added, covered |-> s.covered, extend |-> s.extend, tautological |-> b]
  PROVE  Covering(F, c, frozen, M, t)
PROOF
  <1>1. s \in CoverStates
    BY DEF Covering
  <1>2. /\ t.added = added /\ t.covered = s.covered /\ t.extend = s.extend
        /\ t.tautological = b /\ t \in CoverStates
    BY <1>1 DEF CoverStates
  <1>3. \A j \in Places(s.extend) : NextClause(t, j) = NextClause(s, j)
    BY <1>2 DEF NextClause
  <1>4. ASSUME NEW j \in Places(s.extend), b, j = Len(s.extend)
        PROVE  Mends(M, s.extend[j])
    <2>1. CASE s.tautological
      BY <1>4, <2>1 DEF Covering
    <2>2. CASE \A A \in M : s.covered \cap A # {}
      <3>1. NextClause(s, j) = s.covered
        BY <1>4 DEF NextClause
      <3>2. CoverRepair(M, s.extend[j], s.covered)
        BY <3>1 DEF Covering
      <3>. QED
        BY <2>2, <3>2 DEF CoverRepair, Mends
    <2>. QED
      BY <1>4, <2>1, <2>2
  <1>5. s.covered \subseteq added
    BY DEF Covering
  <1>6. ASSUME NEW j \in Places(t.extend)
        PROVE  /\ IsClause(t.extend[j].clause)
               /\ Remaining(F, c) \subseteq t.extend[j].clause
               /\ t.extend[j].clause \cap F.units = {}
               /\ \A l \in t.extend[j].witness : vidx(l) \notin frozen
               /\ t.extend[j].clause \subseteq t.covered
               /\ \A k \in Places(t.extend) : j <= k => t.extend[j].clause \subseteq t.extend[k].clause
               /\ CoverRepair(M, t.extend[j], NextClause(t, j))
               /\ t.tautological /\ j = Len(t.extend) => Mends(M, t.extend[j])
    <2>1. j \in Places(s.extend)
      BY <1>2
    <2>. QED
      BY <1>2, <1>3, <1>4, <2>1 DEF Covering
  <1>. QED
    BY <1>2, <1>5, <1>6 DEF Covering

\* A turn of the loop.
LEMMA CoverTurn ==
  ASSUME NEW F \in Formulas, NEW c, NEW frozen, NEW M, OtherModels(F, c, M),
         NEW s, Covering(F, c, frozen, M, s)
  PROVE  Covering(F, c, frozen, M, cover_round(F, c, frozen, s))
PROOF
  <1> DEFINE ala == cover_propagate_asymmetric(F, c, s.added)
             t == [s EXCEPT !.added = ala.added]
             useful == {l \in s.covered :
                          /\ vidx(l) \notin frozen
                          /\ \/ ResolutionCandidates(F, l, t.added) = {}
                             \/ CoveredBy(F, l, t.added) # {}}
             r == cover_round(F, c, frozen, s)
  <1>1. r = IF s.tautological THEN s
            ELSE IF ala.subsumed THEN [t EXCEPT !.tautological = TRUE]
            ELSE IF useful = {} THEN t
            ELSE cover_propagate_covered(F, CHOOSE l \in useful : TRUE, t)
    BY DEF cover_round
  <1>2. s \in CoverStates /\ s.tautological \in BOOLEAN /\ s.added \in SUBSET Lits
    BY DEF Covering, CoverStates
  <1>3. /\ ala.added \in SUBSET Lits /\ s.added \subseteq ala.added
        /\ \A A \in M : s.added \cap A = {} => ala.added \cap A = {} /\ ~ala.subsumed
    BY <1>2, AsymmetricMeans
  <1> HIDE DEF ala
  <1>4. \A A \in M : s.covered \cap A = {} => ala.added \cap A = {} /\ ~ala.subsumed
    BY <1>3 DEF Covering
  <1>5. t = [added |-> ala.added, covered |-> s.covered, extend |-> s.extend,
             tautological |-> s.tautological]
    BY <1>2 DEF CoverStates
  <1>6. [t EXCEPT !.tautological = TRUE]
          = [added |-> ala.added, covered |-> s.covered, extend |-> s.extend, tautological |-> TRUE]
    <2> HIDE DEF t
    <2>1. ASSUME NEW a, NEW d, NEW e, NEW x, NEW b, t = [added |-> a, covered |-> d, extend |-> e, tautological |-> x]
          PROVE  [t EXCEPT !.tautological = b]
                   = [added |-> a, covered |-> d, extend |-> e, tautological |-> b]
      BY ONLY <2>1
    <2> DEFINE a == ala.added
               d == s.covered
               e == s.extend
               x == s.tautological
               b == TRUE
    <2>2. t = [added |-> a, covered |-> d, extend |-> e, tautological |-> x]
      BY ONLY <1>5
    <2> HIDE DEF a, d, e, x, b
    <2>3. [t EXCEPT !.tautological = b] = [added |-> a, covered |-> d, extend |-> e, tautological |-> b]
      BY ONLY <2>1, <2>2
    <2>. QED
      BY ONLY <2>3, Zenon DEF a, d, e, b
  <1>7. useful \in SUBSET s.covered /\ \A l \in useful : vidx(l) \notin frozen
    OBVIOUS
  <1> HIDE DEF t, useful, r
  <1>8. Covering(F, c, frozen, M, t)
    <2> DEFINE added == ala.added
               b == s.tautological
    <2>1. /\ added \in SUBSET Lits /\ s.added \subseteq added /\ b \in BOOLEAN
          /\ b => s.tautological \/ \A A \in M : s.covered \cap A # {}
          /\ \A A \in M : s.covered \cap A = {} => added \cap A = {}
          /\ t = [added |-> added, covered |-> s.covered, extend |-> s.extend, tautological |-> b]
      BY <1>2, <1>3, <1>4, <1>5
    <2> HIDE DEF added, b
    <2>. QED
      BY <2>1, CoveringAdded
  <1>9. CASE s.tautological
    <2>1. r = s
      BY <1>1, <1>9
    <2>. QED
      BY <2>1 DEF r
  <1>10. CASE ~s.tautological /\ ala.subsumed
    <2> DEFINE added == ala.added
               b == TRUE
    <2>1. /\ added \in SUBSET Lits /\ s.added \subseteq added /\ b \in BOOLEAN
          /\ b => s.tautological \/ \A A \in M : s.covered \cap A # {}
          /\ \A A \in M : s.covered \cap A = {} => added \cap A = {}
          /\ r = [added |-> added, covered |-> s.covered, extend |-> s.extend, tautological |-> b]
      BY <1>1, <1>3, <1>4, <1>6, <1>10
    <2> HIDE DEF added, b
    <2>2. Covering(F, c, frozen, M, r)
      BY <2>1, CoveringAdded
    <2>. QED
      BY <2>2 DEF r
  <1>11. CASE ~s.tautological /\ ~ala.subsumed /\ useful = {}
    <2>1. r = t
      BY <1>1, <1>11
    <2>. QED
      BY <1>8, <2>1 DEF r
  <1>12. CASE ~s.tautological /\ ~ala.subsumed /\ useful # {}
    <2> DEFINE lit == CHOOSE l \in useful : TRUE
    <2>1. lit \in useful
      BY <1>12
    <2>2. r = cover_propagate_covered(F, lit, t)
      BY <1>1, <1>12
    <2> HIDE DEF lit
    <2>3. lit \in t.covered /\ vidx(lit) \notin frozen /\ ~t.tautological
      BY <1>5, <1>7, <1>12, <2>1
    <2>4. Covering(F, c, frozen, M, r)
      BY <1>8, <2>2, <2>3, CoveringCovered
    <2>. QED
      BY <2>4 DEF r
  <1>. QED
    BY <1>9, <1>10, <1>11, <1>12

\* The states of the loop of cover_clause.
LEMMA CoverLoopTurns ==
  ASSUME NEW F, NEW c, NEW frozen,
         NEW T, [added |-> Remaining(F, c), covered |-> Remaining(F, c), extend |-> <<>>,
             tautological |-> FALSE] \in T, \A y \in T, i \in 1..(2 * N) : cover_round(F, c, frozen, y) \in T
  PROVE  \E f : /\ f[0] = [added |-> Remaining(F, c), covered |-> Remaining(F, c), extend |-> <<>>,
                     tautological |-> FALSE]
                /\ \A i \in 1..(2 * N) : f[i] = cover_round(F, c, frozen, f[i - 1])
                /\ CoverLoop(F, c, frozen) = f[(2 * N)]
                /\ \A i \in 0..(2 * N) : f[i] \in T
PROOF
  <1> DEFINE n == (2 * N)
             start == [added |-> Remaining(F, c), covered |-> Remaining(F, c), extend |-> <<>>,
                 tautological |-> FALSE]
             Body(g, i) == IF i = 0 THEN start ELSE cover_round(F, c, frozen, g[i - 1])
             chosen == CHOOSE g : g = [i \in 0..n |-> Body(g, i)]
             step == [p \in Nat \X T |-> IF p[1] \in 1..n THEN cover_round(F, c, frozen, p[2]) ELSE p[2]]
  <1>0. n \in Nat
    BY NAssumption
  <1>1. start \in T /\ \A y \in T, i \in 1..n : cover_round(F, c, frozen, y) \in T
    OBVIOUS
  <1>2. CoverLoop(F, c, frozen) = chosen[n]
    BY DEF CoverLoop
  <1>3. \A g : Body(g, 0) = start /\ \A i \in 1..n : Body(g, i) = cover_round(F, c, frozen, g[i - 1])
    BY <1>0
  <1> HIDE DEF n, start, Body
  <1>4. step \in [Nat \X T -> T]
    BY <1>0, <1>1
  <1>5. PICK f : IsRun(T, start, step, n, f)
    <2> HIDE DEF step
    <2>. QED
      BY <1>0, <1>1, <1>4, LoopRuns
  <1>6. ASSUME NEW i \in 1..n PROVE f[i] = cover_round(F, c, frozen, f[i - 1])
    <2>1. i \in Nat /\ i - 1 \in 0..n
      BY <1>0
    <2>2. f[i - 1] \in T /\ f[i] = step[<<i, f[i - 1]>>]
      BY <1>5, <2>1 DEF IsRun
    <2>3. step[<<i, f[i - 1]>>] = cover_round(F, c, frozen, f[i - 1])
      BY <2>1, <2>2
    <2>. QED
      BY <2>2, <2>3
  <1>7. \A i \in 0..n : f[i] = Body(f, i)
    <2> SUFFICES ASSUME NEW i \in 0..n PROVE f[i] = Body(f, i)
      OBVIOUS
    <2>1. i = 0 \/ i \in 1..n
      BY <1>0
    <2>2. f[0] = start
      BY <1>5 DEF IsRun
    <2>. QED
      BY <1>3, <1>6, <2>1, <2>2
  <1>8. f = [i \in 0..n |-> Body(f, i)]
    BY <1>5, <1>7 DEF IsRun
  <1>9. chosen = [i \in 0..n |-> Body(chosen, i)]
    BY <1>8
  <1>10. \A i \in 0..n : chosen[i] = Body(chosen, i)
    <2> HIDE DEF chosen
    <2>. QED
      BY <1>9
  <1> HIDE DEF chosen
  <1>11. chosen[0] = start /\ \A i \in 1..n : chosen[i] = cover_round(F, c, frozen, chosen[i - 1])
    BY <1>0, <1>3, <1>10
  <1>12. \A i \in 1..n : chosen[i - 1] \in T => chosen[i] \in T
    BY <1>1, <1>11
  <1>13. \A i \in 0..n : chosen[i] \in T
    BY <1>0, <1>1, <1>11, <1>12, RunInd
  <1>. QED
    BY <1>2, <1>11, <1>13 DEF n, start

\* A clause is removed, or nothing happens, with entries that make up for it.
Lightened(F, pushed, away, G) ==
  Reduced(F, G) /\ Pushes(F, pushed, away) /\ Kept(F, pushed, G)

\* Removing a clause without an entry, and doing nothing.
LEMMA LightenedNot ==
  ASSUME NEW F \in Formulas, NEW away, NEW G, Reduced(F, G), Lean(G) \subseteq Lean(F)
  PROVE  Lightened(F, <<>>, away, G)
PROOF
  <1>1. <<>> \in Seq(Entries) /\ Places(<<>>) = {}
    BY DEF Places
  <1>2. Left(Lean(G), <<>>, 0) \subseteq Lean(F)
    BY DEF Left
  <1>. QED
    BY <1>1, <1>2 DEF Lightened, Pushes, Kept

\* The models of the clauses but one.
LEMMA OthersAre ==
  ASSUME NEW F \in Formulas, NEW c, NEW G, G = mark_garbage(F, c)
  PROVE  OtherModels(F, c, Lean(G)) /\ G.units = F.units /\ Lean(G) \in SUBSET Assignments
PROOF
  <1>1. Reduced(F, G) /\ G.irr = F.irr \ {c}
    BY GarbageMeans
  <1>2. G.units = F.units /\ G.unsat = F.unsat
    BY <1>1 DEF Reduced
  <1>. QED
    BY <1>1, <1>2 DEF OtherModels, Lean

\* The entries that cover_clause pushes: the false literals of the clause are
\* added to all of them but the last.
CoverEntries(F, c, stack) ==
  [i \in 1..Len(stack) |->
      IF i = Len(stack) THEN stack[i]
      ELSE [stack[i] EXCEPT !.clause = @ \cup (c \cap Negated(F.units))]]

\* The entries that are pushed have the literals of the pending ones, and the
\* falsified literals of the clause.
LEMMA CoverPushed ==
  ASSUME NEW F \in Formulas, NEW c \in F.irr, NEW frozen, NEW M,
         NEW s, Covering(F, c, frozen, M, s),
         NEW pushed, pushed = CoverEntries(F, c, s.extend)
  PROVE  /\ pushed \in Seq(Entries) /\ Len(pushed) = Len(s.extend)
         /\ \A j \in Places(pushed) :
              /\ pushed[j].witness = s.extend[j].witness
              /\ IsClause(pushed[j].clause)
              /\ s.extend[j].clause \subseteq pushed[j].clause
              /\ pushed[j].clause \subseteq s.extend[j].clause \cup (c \cap Negated(F.units))
PROOF
  <1> DEFINE x == c \cap Negated(F.units)
             n == Len(s.extend)
  <1>0. /\ s.extend \in Seq(Entries) /\ n \in Nat /\ Places(s.extend) = 1..n
        /\ IsClause(c) /\ c \in SUBSET Lits /\ F.units \in SUBSET Lits
    BY FormulaParts DEF Covering, CoverStates, Places
  <1>1. x \in SUBSET Lits /\ x \subseteq c /\ \A l \in x : -l \in F.units
    BY <1>0, NegatedMember
  <1>2. ASSUME NEW j \in 1..n
        PROVE  /\ s.extend[j] \in Entries /\ IsClause(s.extend[j].clause)
               /\ s.extend[j].clause \in SUBSET Lits
               /\ s.extend[j].clause \cap F.units = {}
    BY <1>0 DEF Covering, Entries, Clauses
  <1>3. ASSUME NEW j \in 1..n
        PROVE  /\ IsClause(s.extend[j].clause \cup x)
               /\ [s.extend[j] EXCEPT !.clause = @ \cup x] \in Entries
    <2> DEFINE e == s.extend[j]
               S == e.clause \cup x
    <2>1. S \in SUBSET Lits
      BY <1>1, <1>2
    <2>2. \A l \in S : -l \notin S
      <3> SUFFICES ASSUME NEW l \in S, -l \in S PROVE FALSE
        OBVIOUS
      <3>0. l \in Lits /\ -l \in Lits /\ -(-l) = l
        BY <2>1, Literal
      <3>1. CASE l \in e.clause /\ -l \in e.clause
        BY <1>2, <3>0, <3>1, NegatedMember DEF IsClause
      <3>2. CASE l \in c /\ -l \in c
        BY <1>0, <3>0, <3>2, NegatedMember DEF IsClause
      <3>3. CASE l \in e.clause /\ -l \in x
        BY <1>1, <1>2, <3>0, <3>3
      <3>4. CASE l \in x /\ -l \in e.clause
        BY <1>1, <1>2, <3>4
      <3>. QED
        BY <1>1, <3>1, <3>2, <3>3, <3>4
    <2>3. e \in Entries
      BY <1>2
    <2> HIDE DEF x
    <2>4. [e EXCEPT !.clause = @ \cup x] = [witness |-> e.witness, clause |-> S]
      <3> HIDE DEF e, S
      <3>1. e = [witness |-> e.witness, clause |-> e.clause]
        BY ONLY <2>3 DEF Entries
      <3> DEFINE w == e.witness
                 k == e.clause
      <3> HIDE DEF w, k
      <3>3. ASSUME NEW z PROVE [[witness |-> w, clause |-> k] EXCEPT !.clause = z] = [witness |-> w, clause |-> z]
        BY ONLY TRUE
      <3>4. e = [witness |-> w, clause |-> k]
        BY ONLY <3>1 DEF w, k
      <3>2. [e EXCEPT !.clause = @ \cup x] = [witness |-> e.witness, clause |-> e.clause \cup x]
        BY ONLY <3>3, <3>4, Zenon DEF w, k
      <3>. QED
        BY ONLY <3>2 DEF S
    <2> HIDE DEF S, e
    <2>5. IsClause(S)
      BY <2>1, <2>2, NegatedMember DEF IsClause
    <2>6. S \in Clauses /\ e.clause \subseteq S
      BY <2>1 DEF S, Clauses
    <2>7. [witness |-> e.witness, clause |-> S] \in Entries
      BY <2>3, <2>6 DEF Entries
    <2>. QED
      BY <2>4, <2>5, <2>7 DEF S, e
  <1>4. /\ pushed = [i \in 1..n |-> IF i = n THEN s.extend[i]
                                    ELSE [s.extend[i] EXCEPT !.clause = @ \cup x]]
    BY DEF CoverEntries
  <1> HIDE DEF x, n
  <1>5. pushed \in [1..n -> Entries]
    BY <1>2, <1>3, <1>4
  <1>6. pushed \in Seq(Entries) /\ Len(pushed) = n /\ Places(pushed) = 1..n
    BY <1>0, <1>5 DEF Places
  <1>7. ASSUME NEW j \in 1..n
        PROVE  /\ pushed[j].witness = s.extend[j].witness
               /\ IsClause(pushed[j].clause)
               /\ s.extend[j].clause \subseteq pushed[j].clause
               /\ pushed[j].clause \subseteq s.extend[j].clause \cup x
    <2>1. CASE j = n
      BY <1>2, <1>4, <2>1
    <2>2. CASE j # n
      <3>1. pushed[j] = [s.extend[j] EXCEPT !.clause = @ \cup x]
        BY <1>4, <2>2
      <3>2. pushed[j].witness = s.extend[j].witness /\ pushed[j].clause = s.extend[j].clause \cup x
        BY <1>2, <3>1 DEF Entries
      <3>. QED
        BY <1>3, <3>2
    <2>. QED
      BY <2>1, <2>2
  <1>. QED
    BY <1>6, <1>7 DEF x, n

\* The entries of a tautology make up for its clause.
LEMMA CoverKept ==
  ASSUME NEW F \in Formulas, NEW c \in F.irr, NEW frozen, NEW G, G = mark_garbage(F, c),
         NEW s, Covering(F, c, frozen, Lean(G), s), s.tautological, s.extend # <<>>,
         NEW pushed, pushed = CoverEntries(F, c, s.extend)
  PROVE  Lightened(F, pushed, frozen, G)
PROOF
  <1> DEFINE M == Lean(G)
             n == Len(s.extend)
  <1>0. /\ F \in Dbs /\ IsClause(c) /\ c \in SUBSET Lits /\ F.units \in SUBSET Lits
        /\ s.extend \in Seq(Entries) /\ n \in Nat
    BY FormulaParts DEF Covering, CoverStates
  <1>1. /\ pushed \in Seq(Entries) /\ Len(pushed) = n
        /\ \A j \in Places(pushed) :
              /\ pushed[j].witness = s.extend[j].witness
              /\ IsClause(pushed[j].clause)
              /\ s.extend[j].clause \subseteq pushed[j].clause
              /\ pushed[j].clause \subseteq s.extend[j].clause \cup (c \cap Negated(F.units))
    BY CoverPushed
  <1>2. Places(pushed) = 1..n /\ Places(s.extend) = 1..n /\ n # 0
    BY <1>0, <1>1 DEF Places
  <1>3. Reduced(F, G) /\ ((\A A \in Lean(G) : c \cap A # {}) => Lean(G) \subseteq Lean(F))
    BY GarbageMeans
  <1>4. M \in SUBSET Assignments /\ \A A \in M : F.units \subseteq A
    BY OthersAre DEF Lean
  <1>5. ASSUME NEW A \in Assignments, F.units \subseteq A, NEW j \in 1..n
        PROVE  pushed[j].clause \cap A # {} <=> s.extend[j].clause \cap A # {}
    <2>1. (c \cap Negated(F.units)) \cap A = {}
      BY <1>5, Opposite
    <2>. QED
      BY <1>1, <1>2, <2>1
  <1>6. ASSUME NEW j \in 1..n
        PROVE  /\ Remaining(F, c) \subseteq s.extend[j].clause
               /\ \A l \in s.extend[j].witness : vidx(l) \notin frozen
               /\ \A k \in 1..n : j <= k => s.extend[j].clause \subseteq s.extend[k].clause
               /\ CoverRepair(M, s.extend[j], NextClause(s, j))
               /\ j = n => Mends(M, s.extend[j])
    BY <1>2 DEF Covering
  <1> HIDE DEF M
  <1>7. Pushes(F, pushed, frozen)
    <2>1. ASSUME NEW A \in DbModels(F), NEW j \in 1..n PROVE pushed[j].clause \cap A # {}
      <3>1. A \in Assignments /\ F.units \subseteq A /\ c \cap A # {}
        BY <1>0, DbModel
      <3>2. PICK l \in c : l \in A
        BY <3>1
      <3>3. l \notin Negated(F.units)
        BY <3>1, <3>2, Opposite
      <3>4. l \in s.extend[j].clause
        BY <1>6, <3>2, <3>3 DEF Remaining
      <3>. QED
        BY <1>1, <1>2, <3>2, <3>4
    <2>. QED
      BY <1>1, <1>2, <1>6, <2>1 DEF Pushes
  <1>8. ASSUME NEW j \in 1..n, NEW A \in Left(M, pushed, j), pushed[j].clause \cap A = {}
        PROVE  Flipped(pushed[j], A) \in Left(M, pushed, j)
    <2> DEFINE B == Flipped(pushed[j], A)
    <2>1. A \in M /\ \A k \in 1..n : k > j => pushed[k].clause \cap A # {}
      BY <1>2, <1>8 DEF Left
    <2>2. A \in Assignments /\ F.units \subseteq A
      BY <1>4, <2>1
    <2>3. s.extend[j].clause \cap A = {} /\ Flipped(s.extend[j], A) = B
      BY <1>1, <1>2, <1>5, <1>8, <2>2 DEF Flipped
    <2>4. B \in M
      <3>1. CASE j = n
        BY <1>6, <2>1, <2>3, <3>1 DEF Mends
      <3>2. CASE j # n
        <4>1. j + 1 \in 1..n /\ j + 1 > j
          BY <1>0, <3>2
        <4>2. s.extend[j + 1].clause \cap A # {}
          BY <1>5, <2>1, <2>2, <4>1
        <4>3. NextClause(s, j) = s.extend[j + 1].clause
          BY <3>2 DEF NextClause
        <4>. QED
          BY <1>6, <2>1, <2>3, <4>2, <4>3 DEF CoverRepair
      <3>. QED
        BY <3>1, <3>2
    <2>5. ASSUME NEW k \in 1..n, k > j PROVE pushed[k].clause \cap B # {}
      <3>1. j <= k
        BY <1>0, <2>5
      <3>2. s.extend[j].clause \subseteq s.extend[k].clause
        BY <1>6, <3>1
      <3>3. s.extend[j] \in Entries
        BY <1>0
      <3>4. PICK l \in s.extend[j].witness : l \in s.extend[j].clause
        BY <3>3 DEF Entries
      <3>5. l \in B
        BY <2>3, <3>4 DEF Flipped
      <3>. QED
        BY <1>1, <1>2, <3>2, <3>4, <3>5
    <2>. QED
      BY <1>2, <2>4, <2>5 DEF Left
  <1>9. Left(M, pushed, 0) \subseteq Lean(F)
    <2> SUFFICES ASSUME NEW A \in Left(M, pushed, 0) PROVE A \in Lean(F)
      OBVIOUS
    <2>1. 1 \in 1..n /\ 1 > 0
      BY <1>0, <1>2
    <2>2. A \in M /\ pushed[1].clause \cap A # {}
      BY <1>2, <2>1 DEF Left
    <2>3. s.extend[1].clause \cap A # {}
      BY <1>4, <1>5, <2>1, <2>2
    <2>4. s.extend[1].clause = Remaining(F, c)
      BY DEF Covering
    <2>5. c \cap A # {}
      BY <2>3, <2>4 DEF Remaining
    <2>6. G.irr = F.irr \ {c} /\ G.units = F.units /\ G.unsat = F.unsat
      BY GarbageMeans DEF Reduced
    <2>. QED
      BY <2>2, <2>5, <2>6 DEF Lean, M
  <1>10. Kept(F, pushed, G)
    BY <1>2, <1>8, <1>9 DEF Kept, Repairs, M
  <1>. QED
    BY <1>3, <1>7, <1>10 DEF Lightened

\* Covered clause elimination.
THEOREM CoverMeans ==
  ASSUME NEW F \in Formulas, NEW c \in F.irr, NEW frozen, NEW r, r = cover_clause(F, c, frozen)
  PROVE  Lightened(F, r.pushed, frozen, r.db)
PROOF
  <1> DEFINE G == mark_garbage(F, c)
             M == Lean(G)
             s == CoverLoop(F, c, frozen)
             start == [added |-> Remaining(F, c), covered |-> Remaining(F, c),
                       extend |-> <<>>, tautological |-> FALSE]
             none == [db |-> F, pushed |-> <<>>]
  <1>0. /\ F \in Dbs /\ IsClause(c) /\ c \in SUBSET Lits /\ F.units \in SUBSET Lits
    BY FormulaParts
  <1>1. Reduced(F, G) /\ ((\A A \in Lean(G) : c \cap A # {}) => Lean(G) \subseteq Lean(F))
    BY GarbageMeans
  <1>2. OtherModels(F, c, M) /\ G.units = F.units
    BY OthersAre
  <1>3. CASE fixedTrue(F, c)
    <2>1. r = [db |-> G, pushed |-> <<>>]
      BY <1>3 DEF cover_clause
    <2>2. \A A \in M : c \cap A # {}
      BY <1>2, <1>3 DEF fixedTrue, OtherModels
    <2> HIDE DEF G
    <2>. QED
      BY <1>1, <2>1, <2>2, LightenedNot DEF M
  <1>4. CASE ~fixedTrue(F, c)
    <2>1. r = IF s.tautological /\ s.extend # <<>>
              THEN [db |-> G, pushed |-> CoverEntries(F, c, s.extend)] ELSE none
      BY <1>4 DEF cover_clause, CoverEntries
    <2>2. Covering(F, c, frozen, M, start)
      <3>1. Remaining(F, c) \in SUBSET Lits /\ Remaining(F, c) \subseteq c
            /\ Remaining(F, c) \cap Negated(F.units) = {}
        BY <1>0 DEF Remaining
      <3>2. Remaining(F, c) \cap F.units = {}
        BY <1>4, <3>1 DEF fixedTrue
      <3>3. IsClause(Remaining(F, c))
        <4>1. \A S \in SUBSET c : IsClause(S)
          BY <1>0 DEF IsClause, Negated
        <4>. QED
          BY <3>1, <4>1
      <3> DEFINE R == Remaining(F, c)
      <3>4. /\ start.added = R /\ start.covered = R /\ start.extend = <<>> /\ ~start.tautological
            /\ start \in CoverStates
        BY <3>1 DEF CoverStates
      <3> HIDE DEF R, start
      <3>5. Places(start.extend) = {}
        BY <3>4 DEF Places
      <3>. QED
        BY <3>1, <3>2, <3>3, <3>4, <3>5 DEF Covering, R
    <2>3. Covering(F, c, frozen, M, s)
      <3> DEFINE T == {x \in CoverStates : Covering(F, c, frozen, M, x)}
      <3>1. start \in T
        BY <2>2 DEF Covering
      <3>2. ASSUME NEW y \in T PROVE cover_round(F, c, frozen, y) \in T
        <4>1. Covering(F, c, frozen, M, y)
          OBVIOUS
        <4> HIDE DEF M
        <4>2. Covering(F, c, frozen, M, cover_round(F, c, frozen, y))
          BY <1>2, <4>1, CoverTurn
        <4>. QED
          BY <4>2 DEF Covering
      <3>3. \A y \in T, i \in 1..(2 * N) : cover_round(F, c, frozen, y) \in T
        BY <3>2
      <3> HIDE DEF T
      <3>4. PICK f : s = f[2 * N] /\ \A i \in 0..(2 * N) : f[i] \in T
        BY <3>1, <3>3, CoverLoopTurns
      <3>5. 2 * N \in 0..(2 * N)
        BY NAssumption
      <3>. QED
        BY <3>4, <3>5 DEF T
    <2> HIDE DEF s, start
    <2>4. CASE s.tautological /\ s.extend # <<>>
      <3>1. r.db = G /\ r.pushed = CoverEntries(F, c, s.extend)
        BY <2>1, <2>4
      <3>2. Lightened(F, CoverEntries(F, c, s.extend), frozen, G)
        BY <2>3, <2>4, CoverKept
      <3>. QED
        BY <3>1, <3>2
    <2>5. CASE ~(s.tautological /\ s.extend # <<>>)
      <3>1. r.db = F /\ r.pushed = <<>>
        BY <2>1, <2>5
      <3>2. Reduced(F, F)
        BY RewrittenSame DEF Reduced
      <3>3. Lightened(F, <<>>, frozen, F)
        BY <3>2, LightenedNot
      <3>. QED
        BY <3>1, <3>3
    <2>. QED
      BY <2>4, <2>5
  <1>. QED
    BY <1>3, <1>4

-----------------------------------------------------------------------------
(***************************************************************************)
(* Loops that run until nothing changes.                                   *)
(***************************************************************************)
\* A loop whose turns change nothing or increase a bounded measure ends with
\* a turn that would change nothing.
LEMMA Stable ==
  ASSUME NEW n \in Nat, NEW T, NEW next \in [T -> T], NEW measure \in [T -> 0..n],
         \A y \in T : next[y] = y \/ measure[next[y]] > measure[y],
         NEW f, f[0] \in T, \A i \in 1..n : f[i] = next[f[i - 1]]
  PROVE  f[n] \in T /\ next[f[n]] = f[n]
PROOF
  <1> DEFINE Good == {i \in Nat : i \in 0..n => f[i] \in T /\ (next[f[i]] = f[i] \/ measure[f[i]] >= i)}
  <1>1. 0 \in Good
    <2>1. f[0] \in T /\ measure[f[0]] >= 0
      OBVIOUS
    <2>. QED
      BY <2>1
  <1>2. ASSUME NEW i \in Nat, i \in Good PROVE i + 1 \in Good
    <2> SUFFICES ASSUME i + 1 \in 0..n
                 PROVE  /\ f[i + 1] \in T
                        /\ next[f[i + 1]] = f[i + 1] \/ measure[f[i + 1]] >= i + 1
      OBVIOUS
    <2>0. i + 1 \in 1..n /\ (i + 1) - 1 = i /\ i \in 0..n
      OBVIOUS
    <2>1. f[i + 1] = next[f[i]]
      BY <2>0
    <2>2. f[i] \in T /\ (next[f[i]] = f[i] \/ measure[f[i]] >= i)
      BY <1>2, <2>0
    <2>3. CASE next[f[i]] = f[i]
      BY <2>1, <2>2, <2>3
    <2>4. CASE next[f[i]] # f[i]
      <3>1. measure[f[i]] >= i /\ measure[next[f[i]]] > measure[f[i]]
        BY <2>2, <2>4
      <3>2. next[f[i]] \in T
        BY <2>2
      <3>3. measure[f[i]] \in Nat /\ measure[next[f[i]]] \in Nat
        BY <2>2, <3>2
      <3>. QED
        BY <2>1, <3>1, <3>2, <3>3
    <2>. QED
      BY <2>3, <2>4
  <1> HIDE DEF Good
  <1>3. n \in Good
    BY <1>1, <1>2, NatInd
  <1>4. f[n] \in T /\ (next[f[n]] = f[n] \/ measure[f[n]] >= n)
    BY <1>3 DEF Good
  <1>5. ASSUME next[f[n]] # f[n] PROVE FALSE
    <2>1. measure[next[f[n]]] > measure[f[n]] /\ measure[f[n]] >= n
      BY <1>4, <1>5
    <2>2. measure[next[f[n]]] \in 0..n /\ measure[f[n]] \in 0..n
      BY <1>4
    <2>. QED
      BY <2>1, <2>2
  <1>. QED
    BY <1>4, <1>5

\* A set of literals without opposite ones has at most one for a variable.
LEMMA OnePerVariable ==
  ASSUME NEW P \in SUBSET Lits, P \cap Negated(P) = {}
  PROVE  IsFiniteSet(P) /\ Cardinality(P) <= N
PROOF
  <1> DEFINE f == [k \in P |-> vidx(k)]
  <1>1. IsFiniteSet(Vars) /\ Cardinality(Vars) = N
    BY NAssumption, FS_Interval DEF Vars
  <1>2. f \in [P -> Vars]
    BY VariableOf
  <1>3. ASSUME NEW j \in P, NEW k \in P, vidx(j) = vidx(k) PROVE j = k
    <2>1. -k \notin P
      <3>1. -k \in Lits /\ -(-k) = k
        BY Literal
      <3>2. k \in Negated(P) <=> -k \in P
        BY NegatedMember
      <3>. QED
        BY <3>2
    <2>. QED
      BY <1>3, <2>1, VariableOf
  <1>4. f \in Injection(P, Vars)
    BY <1>2, <1>3 DEF Injection, IsInjective
  <1> HIDE DEF f
  <1>. QED
    BY <1>1, <1>4, FS_Injection

\* A larger set has more elements.
LEMMA MoreElements ==
  ASSUME NEW S, NEW R \in SUBSET S, IsFiniteSet(S), R # S
  PROVE  Cardinality(R) < Cardinality(S) /\ Cardinality(R) \in Nat /\ Cardinality(S) \in Nat
PROOF
  <1>1. Cardinality(R) <= Cardinality(S) /\ IsFiniteSet(R) /\ (Cardinality(S) = Cardinality(R) => S = R)
    BY FS_Subset
  <1>2. Cardinality(R) \in Nat /\ Cardinality(S) \in Nat
    BY <1>1, FS_CardinalityType
  <1>. QED
    BY <1>1, <1>2

-----------------------------------------------------------------------------
(***************************************************************************)
(* Globally blocked clauses.                                               *)
(***************************************************************************)
\* The clauses that lose their last true literal.
Broken(F, alpha, u) ==
  {d \in F.irr : ~fixedTrue(F, d) /\ d \cap alpha # {} /\ d \cap (alpha \ u) = {}}

\* A turn of the refinement.
RefineTurn(F, alpha, c, s) ==
  LET u == s.unassigned \cup (s.conditional \ Negated(c))
  IN  [conditional |-> s.conditional \cup {l \in alpha \ u : \E d \in Broken(F, alpha, u) : -l \in d},
       unassigned |-> u]

\* The states of the refinement.
LEMMA RefineTurns ==
  ASSUME NEW F, NEW alpha, NEW c,
         NEW T, [conditional |-> InitialConditional(F, alpha), unassigned |-> {}] \in T, \A y \in T,
             i \in 1..(2 * N) : RefineTurn(F, alpha, c, y) \in T
  PROVE  \E f : /\ f[0] = [conditional |-> InitialConditional(F, alpha), unassigned |-> {}]
                /\ \A i \in 1..(2 * N) : f[i] = RefineTurn(F, alpha, c, f[i - 1])
                /\ Refined(F, alpha, c) = f[(2 * N)]
                /\ \A i \in 0..(2 * N) : f[i] \in T
PROOF
  <1> DEFINE n == (2 * N)
             start == [conditional |-> InitialConditional(F, alpha), unassigned |-> {}]
             Body(g, i) == IF i = 0 THEN start ELSE RefineTurn(F, alpha, c, g[i - 1])
             chosen == CHOOSE g : g = [i \in 0..n |-> Body(g, i)]
             step == [p \in Nat \X T |-> IF p[1] \in 1..n THEN RefineTurn(F, alpha, c, p[2]) ELSE p[2]]
  <1>0. n \in Nat
    BY NAssumption
  <1>1. start \in T /\ \A y \in T, i \in 1..n : RefineTurn(F, alpha, c, y) \in T
    OBVIOUS
  <1>2. Refined(F, alpha, c) = chosen[n]
    BY DEF Refined, RefineTurn, Broken
  <1>3. \A g : Body(g, 0) = start /\ \A i \in 1..n : Body(g, i) = RefineTurn(F, alpha, c, g[i - 1])
    BY <1>0
  <1> HIDE DEF n, start, Body
  <1>4. step \in [Nat \X T -> T]
    BY <1>0, <1>1
  <1>5. PICK f : IsRun(T, start, step, n, f)
    <2> HIDE DEF step
    <2>. QED
      BY <1>0, <1>1, <1>4, LoopRuns
  <1>6. ASSUME NEW i \in 1..n PROVE f[i] = RefineTurn(F, alpha, c, f[i - 1])
    <2>1. i \in Nat /\ i - 1 \in 0..n
      BY <1>0
    <2>2. f[i - 1] \in T /\ f[i] = step[<<i, f[i - 1]>>]
      BY <1>5, <2>1 DEF IsRun
    <2>3. step[<<i, f[i - 1]>>] = RefineTurn(F, alpha, c, f[i - 1])
      BY <2>1, <2>2
    <2>. QED
      BY <2>2, <2>3
  <1>7. \A i \in 0..n : f[i] = Body(f, i)
    <2> SUFFICES ASSUME NEW i \in 0..n PROVE f[i] = Body(f, i)
      OBVIOUS
    <2>1. i = 0 \/ i \in 1..n
      BY <1>0
    <2>2. f[0] = start
      BY <1>5 DEF IsRun
    <2>. QED
      BY <1>3, <1>6, <2>1, <2>2
  <1>8. f = [i \in 0..n |-> Body(f, i)]
    BY <1>5, <1>7 DEF IsRun
  <1>9. chosen = [i \in 0..n |-> Body(chosen, i)]
    BY <1>8
  <1>10. \A i \in 0..n : chosen[i] = Body(chosen, i)
    <2> HIDE DEF chosen
    <2>. QED
      BY <1>9
  <1> HIDE DEF chosen
  <1>11. chosen[0] = start /\ \A i \in 1..n : chosen[i] = RefineTurn(F, alpha, c, chosen[i - 1])
    BY <1>0, <1>3, <1>10
  <1>12. \A i \in 1..n : chosen[i - 1] \in T => chosen[i] \in T
    BY <1>1, <1>11
  <1>13. \A i \in 0..n : chosen[i] \in T
    BY <1>0, <1>1, <1>11, <1>12, RunInd
  <1>. QED
    BY <1>2, <1>11, <1>13 DEF n, start



\* The refinement ends when it has nothing to do.
LEMMA RefinedStable ==
  ASSUME NEW F, NEW alpha \in SUBSET Lits, alpha \cap Negated(alpha) = {}, NEW c,
         NEW r, r = Refined(F, alpha, c)
  PROVE  /\ r \in [conditional : SUBSET alpha, unassigned : SUBSET alpha]
         /\ RefineTurn(F, alpha, c, r) = r
         /\ InitialConditional(F, alpha) \subseteq r.conditional
PROOF
  <1> DEFINE T == {s \in [conditional : SUBSET alpha, unassigned : SUBSET alpha] :
                     InitialConditional(F, alpha) \subseteq s.conditional}
             start == [conditional |-> InitialConditional(F, alpha), unassigned |-> {}]
             next == [s \in T |-> RefineTurn(F, alpha, c, s)]
             measure == [s \in T |-> Cardinality(s.conditional) + Cardinality(s.unassigned)]
  <1>0. N \in Nat /\ 2 * N \in Nat /\ IsFiniteSet(alpha) /\ Cardinality(alpha) <= N
        /\ Cardinality(alpha) \in Nat
    BY NAssumption, OnePerVariable, FS_CardinalityType
  <1>1. start \in T
    BY DEF InitialConditional
  <1>2. ASSUME NEW s \in T
        PROVE  /\ RefineTurn(F, alpha, c, s) \in T
               /\ s.conditional \subseteq RefineTurn(F, alpha, c, s).conditional
               /\ s.unassigned \subseteq RefineTurn(F, alpha, c, s).unassigned
    <2> DEFINE u == s.unassigned \cup (s.conditional \ Negated(c))
               k == s.conditional \cup {l \in alpha \ u : \E d \in Broken(F, alpha, u) : -l \in d}
    <2>1. RefineTurn(F, alpha, c, s) = [conditional |-> k, unassigned |-> u]
      BY DEF RefineTurn
    <2>2. /\ s.conditional \in SUBSET alpha /\ s.unassigned \in SUBSET alpha
          /\ InitialConditional(F, alpha) \subseteq s.conditional
      OBVIOUS
    <2>3. u \in SUBSET alpha /\ k \in SUBSET alpha /\ s.conditional \subseteq k
          /\ s.unassigned \subseteq u
      BY <2>2
    <2> HIDE DEF u, k
    <2>4. RefineTurn(F, alpha, c, s).conditional = k /\ RefineTurn(F, alpha, c, s).unassigned = u
      BY <2>1
    <2>. QED
      BY <2>1, <2>2, <2>3, <2>4
  <1>3. \A s \in T, i \in 1..(2 * N) : RefineTurn(F, alpha, c, s) \in T
    BY <1>2
  <1>4. next \in [T -> T]
    BY <1>2
  <1>5. ASSUME NEW s \in T
        PROVE  /\ Cardinality(s.conditional) \in Nat /\ Cardinality(s.unassigned) \in Nat
               /\ Cardinality(s.conditional) + Cardinality(s.unassigned) \in 0..(2 * N)
    <2>1. s.conditional \in SUBSET alpha /\ s.unassigned \in SUBSET alpha
      OBVIOUS
    <2>2. /\ Cardinality(s.conditional) <= Cardinality(alpha) /\ IsFiniteSet(s.conditional)
      BY <1>0, <2>1, FS_Subset
    <2>3. /\ Cardinality(s.unassigned) <= Cardinality(alpha) /\ IsFiniteSet(s.unassigned)
      BY <1>0, <2>1, FS_Subset
    <2>4. Cardinality(s.conditional) \in Nat /\ Cardinality(s.unassigned) \in Nat
      BY <2>2, <2>3, FS_CardinalityType
    <2>. QED
      BY <1>0, <2>2, <2>3, <2>4
  <1>6. measure \in [T -> 0..(2 * N)]
    BY <1>5
  <1>7. ASSUME NEW s \in T, next[s] # s PROVE measure[next[s]] > measure[s]
    <2> DEFINE t == RefineTurn(F, alpha, c, s)
    <2>1. next[s] = t /\ t \in T
      BY <1>2
    <2>2. s.conditional \subseteq t.conditional /\ s.unassigned \subseteq t.unassigned
      BY <1>2
    <2>3. t.conditional \in SUBSET alpha /\ t.unassigned \in SUBSET alpha
      BY <2>1
    <2> HIDE DEF t
    <2>4. IsFiniteSet(t.conditional) /\ IsFiniteSet(t.unassigned)
      BY <1>0, <2>3, FS_Subset
    <2>5. Cardinality(s.conditional) <= Cardinality(t.conditional)
      BY <2>2, <2>4, FS_Subset
    <2>6. Cardinality(s.unassigned) <= Cardinality(t.unassigned)
      BY <2>2, <2>4, FS_Subset
    <2>7. s.conditional # t.conditional \/ s.unassigned # t.unassigned
      <3>1. s = [conditional |-> s.conditional, unassigned |-> s.unassigned]
            /\ t = [conditional |-> t.conditional, unassigned |-> t.unassigned]
        BY <2>1
      <3>. QED
        BY <1>7, <2>1, <3>1
    <2>8. CASE s.conditional # t.conditional
      <3>1. Cardinality(s.conditional) < Cardinality(t.conditional)
        BY <2>2, <2>4, <2>8, MoreElements
      <3>. QED
        BY <1>5, <2>1, <2>6, <3>1
    <2>9. CASE s.unassigned # t.unassigned
      <3>1. Cardinality(s.unassigned) < Cardinality(t.unassigned)
        BY <2>2, <2>4, <2>9, MoreElements
      <3>. QED
        BY <1>5, <2>1, <2>5, <3>1
    <2>. QED
      BY <2>7, <2>8, <2>9
  <1>8. \A s \in T : next[s] = s \/ measure[next[s]] > measure[s]
    BY <1>7
  <1> HIDE DEF T, start
  <1>9. PICK f : /\ f[0] = start
                 /\ \A i \in 1..(2 * N) : f[i] = RefineTurn(F, alpha, c, f[i - 1])
                 /\ r = f[2 * N]
                 /\ \A i \in 0..(2 * N) : f[i] \in T
    BY <1>1, <1>3, RefineTurns DEF start
  <1>10. \A i \in 1..(2 * N) : f[i] = next[f[i - 1]]
    <2> SUFFICES ASSUME NEW i \in 1..(2 * N) PROVE f[i] = next[f[i - 1]]
      OBVIOUS
    <2>1. i - 1 \in 0..(2 * N)
      BY <1>0
    <2>. QED
      BY <1>9, <2>1
  <1>11. f[0] \in T
    BY <1>1, <1>9
  <1>12. \A s \in T : next[s] = RefineTurn(F, alpha, c, s)
    OBVIOUS
  <1> HIDE DEF next, measure
  <1>13. r \in T /\ next[r] = r
    <2> DEFINE n == 2 * N
    <2>1. /\ n \in Nat /\ measure \in [T -> 0..n] /\ r = f[n]
          /\ \A i \in 1..n : f[i] = next[f[i - 1]]
      BY <1>0, <1>6, <1>9, <1>10
    <2> HIDE DEF n
    <2>2. f[n] \in T /\ next[f[n]] = f[n]
      BY <1>4, <1>8, <1>11, <2>1, Stable
    <2>. QED
      BY <2>1, <2>2
  <1>14. RefineTurn(F, alpha, c, r) = r
    BY <1>12, <1>13
  <1>. QED
    BY <1>13, <1>14 DEF T

\* One entry that makes up for one clause.
LEMMA LightenedOne ==
  ASSUME NEW F \in Formulas, NEW c \in F.irr, NEW away, NEW G, G = mark_garbage(F, c),
         NEW e \in Entries, e.clause = c, \A l \in e.witness : vidx(l) \notin away,
         \A A \in Lean(G) : c \cap A = {} => Flipped(e, A) \in Lean(G),
         NEW pushed, pushed = <<e>>
  PROVE  Lightened(F, pushed, away, G)
PROOF
  <1>1. pushed \in Seq(Entries) /\ Len(pushed) = 1 /\ pushed[1] = e /\ Places(pushed) = {1}
    BY DEF Places
  <1>2. F \in Dbs /\ IsClause(c)
    BY FormulaParts
  <1>3. Reduced(F, G) /\ ((\A A \in Lean(G) : c \cap A # {}) => Lean(G) \subseteq Lean(F))
        /\ G.irr = F.irr \ {c}
    BY GarbageMeans
  <1>4. Pushes(F, pushed, away)
    BY <1>1, <1>2, DbModel DEF Pushes
  <1>5. \A p \in Places(pushed) : Repairs(Lean(G), pushed, p)
    BY <1>1 DEF Repairs, Left
  <1>6. Left(Lean(G), pushed, 0) \subseteq Lean(F)
    BY <1>1, <1>3 DEF Left, Lean, Reduced
  <1>. QED
    BY <1>3, <1>4, <1>5, <1>6 DEF Lightened, Kept

\* A globally blocked clause.
THEOREM ConditionMeans ==
  ASSUME NEW F \in Formulas, NEW alpha \in SUBSET Lits, alpha \cap Negated(alpha) = {}, NEW away,
         \A l \in alpha : l \notin F.units /\ -l \notin F.units /\ vidx(l) \notin away,
         NEW c \in F.irr, NEW k, k = condition_candidate(F, alpha, c)
  PROVE  Lightened(F, k.pushed, away, k.db)
PROOF
  <1> DEFINE G == mark_garbage(F, c)
             r == Refined(F, alpha, c)
             autarky == alpha \ (r.conditional \cup r.unassigned)
             e == Pushed(autarky, c)
  <1>0. /\ F \in Dbs /\ IsClause(c) /\ c \in SUBSET Lits /\ F.units \in SUBSET Lits
        /\ \A d \in F.irr : d \in SUBSET Lits
    BY FormulaParts
  <1>1. /\ Reduced(F, G) /\ ((\A A \in Lean(G) : c \cap A # {}) => Lean(G) \subseteq Lean(F))
        /\ G.irr = F.irr \ {c} /\ G.units = F.units /\ G.unsat = F.unsat
    BY GarbageMeans DEF Reduced
  <1>2. CASE fixedTrue(F, c)
    <2>1. k.db = G /\ k.pushed = <<>>
      BY <1>2 DEF condition_candidate
    <2>2. \A A \in Lean(G) : c \cap A # {}
      BY <1>1, <1>2 DEF fixedTrue, Lean
    <2> HIDE DEF G
    <2>3. Lightened(F, <<>>, away, G)
      BY <1>1, <2>2, LightenedNot
    <2>. QED
      BY <2>1, <2>3
  <1>3. CASE ~fixedTrue(F, c) /\ c \cap autarky = {}
    <2>1. k.db = F /\ k.pushed = <<>>
      BY <1>3 DEF condition_candidate
    <2>2. Reduced(F, F)
      BY RewrittenSame DEF Reduced
    <2>3. Lightened(F, <<>>, away, F)
      BY <2>2, LightenedNot
    <2>. QED
      BY <2>1, <2>3
  <1>4. CASE ~fixedTrue(F, c) /\ c \cap autarky # {}
    <2>1. k.db = G /\ k.pushed = <<e>>
      BY <1>4 DEF condition_candidate
    <2>2. autarky \in SUBSET alpha /\ autarky \in SUBSET Lits
      OBVIOUS
    <2>3. autarky \cap Negated(autarky) = {}
      BY DEF Negated
    <2>4. e.witness = autarky /\ e.clause = c /\ e \in Entries
      BY <1>0, <1>4, <2>2, <2>3 DEF Entries, Pushed, Clauses
    <2>5. /\ r \in [conditional : SUBSET alpha, unassigned : SUBSET alpha]
          /\ RefineTurn(F, alpha, c, r) = r
          /\ InitialConditional(F, alpha) \subseteq r.conditional
      BY RefinedStable
    <2> DEFINE u == r.unassigned \cup (r.conditional \ Negated(c))
    <2>6. /\ r.unassigned = u
          /\ \A l \in alpha \ u : (\E d \in Broken(F, alpha, u) : -l \in d) => l \in r.conditional
      <3> DEFINE x == r.conditional \cup {l \in alpha \ u : \E d \in Broken(F, alpha, u) : -l \in d}
      <3>1. r = [conditional |-> x, unassigned |-> u]
        BY <2>5 DEF RefineTurn
      <3> HIDE DEF x, u
      <3>2. r.conditional = x /\ r.unassigned = u
        BY ONLY <3>1
      <3>. QED
        BY <3>2 DEF x
    <2> HIDE DEF u
    <2>7. \A l \in r.conditional \ Negated(c) : l \in r.unassigned
      BY <2>6 DEF u
    <2>8. ASSUME NEW A \in Lean(G), c \cap A = {} PROVE Flipped(e, A) \in Lean(G)
      <3> DEFINE B == Flipped(e, A)
      <3>1. /\ A \in Assignments /\ A \in SUBSET Lits /\ ~F.unsat /\ F.units \subseteq A
            /\ \A d \in F.irr \ {c} : d \cap A # {}
            /\ \A l \in Lits : l \in A <=> -l \notin A
        BY <1>1, <2>8, AssignmentIff DEF Lean
      <3>2. B \in Assignments
        BY <2>4, <3>1, FlippedAssignment
      <3>3. B = (A \ Negated(autarky)) \cup autarky
        BY <2>4 DEF Flipped
      <3> HIDE DEF B, autarky, r, e, G
      <3>4. \A l \in Lits : l \in Negated(autarky) <=> -l \in autarky
        BY <2>2, NegatedMember
      <3>5. F.units \subseteq B
        BY <1>0, <2>2, <3>1, <3>3, <3>4, Literal
      <3>6. ASSUME NEW d \in F.irr \ {c} PROVE d \cap B # {}
        <4>1. d \in SUBSET Lits /\ d \cap A # {}
          BY <1>0, <3>1
        <4>2. CASE fixedTrue(F, d)
          BY <3>5, <4>2 DEF fixedTrue
        <4>3. CASE d \cap autarky # {}
          BY <3>3, <4>3
        <4>4. CASE d \cap Negated(autarky) = {}
          BY <3>3, <4>1, <4>4
        <4>5. CASE ~fixedTrue(F, d) /\ d \cap autarky = {} /\ d \cap Negated(autarky) # {}
          <5>1. PICK b \in autarky : -b \in d
            <6>1. PICK l \in d : l \in Negated(autarky)
              BY <4>5
            <6>2. -l \in autarky /\ -(-l) = l
              BY <3>4, <4>1, <6>1, Literal
            <6>. QED
              BY <6>1, <6>2
          <5>2. b \in alpha /\ b \notin r.conditional /\ b \notin r.unassigned
            BY DEF autarky
          <5>3. d \cap alpha # {}
            <6> SUFFICES ASSUME d \cap alpha = {} PROVE FALSE
              OBVIOUS
            <6>1. b \in InitialConditional(F, alpha)
              BY <4>5, <5>1, <5>2 DEF InitialConditional
            <6>. QED
              BY <2>5, <5>2, <6>1
          <5>4. d \cap (alpha \ u) # {}
            <6> SUFFICES ASSUME d \cap (alpha \ u) = {} PROVE FALSE
              OBVIOUS
            <6>1. d \in Broken(F, alpha, u)
              BY <4>5, <5>3 DEF Broken
            <6>. QED
              BY <2>6, <5>1, <5>2, <6>1
          <5>5. PICK l \in d : l \in alpha /\ l \notin u
            BY <5>4
          <5>6. l \in r.conditional
            BY <2>6, <4>5, <5>5 DEF autarky
          <5>7. l \in Negated(c)
            BY <2>6, <2>7, <5>5, <5>6
          <5>8. l \in Lits /\ -l \in c
            BY <1>0, <4>1, <5>7, NegatedMember
          <5>9. l \in A
            BY <2>8, <3>1, <5>8
          <5>10. l \notin Negated(autarky)
            <6>1. -l \notin alpha
              BY <5>5, <5>8, NegatedMember
            <6>. QED
              BY <2>2, <3>4, <5>8, <6>1
          <5>. QED
            BY <3>3, <5>5, <5>9, <5>10
        <4>. QED
          BY <4>2, <4>3, <4>4, <4>5
      <3>. QED
        BY <1>1, <3>1, <3>2, <3>5, <3>6 DEF Lean, B
    <2>9. \A l \in e.witness : vidx(l) \notin away
      BY <2>2, <2>4
    <2> HIDE DEF G, e
    <2>10. Lightened(F, <<e>>, away, G)
      BY <2>4, <2>8, <2>9, LightenedOne DEF G
    <2>. QED
      BY <2>1, <2>10
  <1>. QED
    BY <1>2, <1>3, <1>4

-----------------------------------------------------------------------------
(***************************************************************************)
(* Sorted sets and flattened sequences.                                    *)
(***************************************************************************)
\* Elements that are taken out of a set one after the other.
Picking(S, pick, f, L) ==
  /\ \A X \in SUBSET S : X # {} => pick[X] \in X
  /\ f[0] = S
  /\ \A i \in 1..Cardinality(S) : f[i] = f[i - 1] \ {pick[f[i - 1]]}
  /\ L = [i \in 1..Cardinality(S) |-> pick[f[Cardinality(S) - i]]]

\* All elements are taken out.
LEMMA PickedRight ==
  ASSUME NEW S, IsFiniteSet(S), NEW pick, NEW f, NEW L, Picking(S, pick, f, L)
  PROVE  /\ L \in Seq(S)
         /\ \A x \in S : \E i \in 1..Len(L) : L[i] = x
PROOF
  <1> DEFINE n == Cardinality(S)
  <1>0. n \in Nat
    BY FS_CardinalityType
  <1>1. /\ f[0] = S
        /\ \A i \in 1..n : f[i] = f[i - 1] \ {pick[f[i - 1]]}
        /\ L = [i \in 1..n |-> pick[f[n - i]]]
        /\ \A X \in SUBSET S : X # {} => pick[X] \in X
    BY DEF Picking
  <1> DEFINE Good == {i \in Nat : i \in 0..n => f[i] \subseteq S /\ Cardinality(f[i]) = n - i}
  <1>2. 0 \in Good
    BY <1>0, <1>1
  <1>3. ASSUME NEW i \in Nat, i \in Good PROVE i + 1 \in Good
    <2> SUFFICES ASSUME i + 1 \in 0..n
                 PROVE  f[i + 1] \subseteq S /\ Cardinality(f[i + 1]) = n - (i + 1)
      OBVIOUS
    <2>1. i \in 0..n /\ i + 1 \in 1..n /\ (i + 1) - 1 = i /\ n - i > 0
      BY <1>0
    <2>2. f[i] \subseteq S /\ Cardinality(f[i]) = n - i /\ IsFiniteSet(f[i])
      BY <1>3, <2>1, FS_Subset
    <2> HIDE DEF n
    <2>3. f[i] # {}
      BY <1>0, <2>1, <2>2, FS_EmptySet
    <2>4. pick[f[i]] \in f[i]
      BY <1>1, <2>2, <2>3
    <2>5. f[i + 1] = f[i] \ {pick[f[i]]}
      BY <1>1, <2>1
    <2>6. Cardinality(f[i + 1]) = (n - i) - 1
      <3> DEFINE X == f[i]
                 x == pick[f[i]]
      <3>1. IsFiniteSet(X) /\ x \in X /\ f[i + 1] = X \ {x} /\ Cardinality(X) = n - i
        BY <2>2, <2>4, <2>5
      <3> HIDE DEF X, x
      <3>2. Cardinality(X \ {x}) = Cardinality(X) - 1
        BY ONLY <3>1, FS_RemoveElement
      <3>. QED
        BY ONLY <3>1, <3>2
    <2>. QED
      BY <1>0, <2>2, <2>5, <2>6
  <1> HIDE DEF n, Good
  <1>4. Nat \subseteq Good
    BY <1>2, <1>3, NatInd
  <1>5. ASSUME NEW i \in 0..n
        PROVE  f[i] \subseteq S /\ Cardinality(f[i]) = n - i /\ IsFiniteSet(f[i])
    <2>1. f[i] \subseteq S /\ Cardinality(f[i]) = n - i
      BY <1>0, <1>4 DEF Good
    <2>. QED
      BY <2>1, FS_Subset
  <1>6. ASSUME NEW i \in 1..n PROVE pick[f[n - i]] \in S
    <2>1. n - i \in 0..n /\ n - (n - i) > 0
      BY <1>0
    <2>2. f[n - i] # {}
      BY <1>5, <2>1, FS_EmptySet
    <2>. QED
      BY <1>1, <1>5, <2>1, <2>2
  <1>7. L \in Seq(S) /\ Len(L) = n
    <2>1. L \in [1..n -> S]
      BY ONLY <1>1, <1>6
    <2>. QED
      BY ONLY <1>0, <2>1
  <1>8. ASSUME NEW x \in S, \A i \in 1..n : L[i] # x PROVE FALSE
    <2> DEFINE Has == {X \in SUBSET S : x \in X}
    <2>1. f[0] \in Has
      BY <1>1
    <2>2. ASSUME NEW i \in 1..n, f[i - 1] \in Has PROVE f[i] \in Has
      <3>1. n - i + 1 \in 1..n /\ n - (n - i + 1) = i - 1
        BY <1>0
      <3>2. L[n - i + 1] = pick[f[i - 1]]
        BY ONLY <1>1, <3>1
      <3>3. pick[f[i - 1]] # x
        BY <1>8, <3>1, <3>2
      <3>. QED
        BY <1>1, <2>2, <3>3
    <2> HIDE DEF Has
    <2>3. \A i \in 0..n : f[i] \in Has
      BY ONLY <1>0, <2>1, <2>2, RunInd
    <2>4. n \in 0..n /\ n - n = 0
      BY <1>0
    <2>5. f[n] = {}
      BY <1>5, <2>4, FS_EmptySet
    <2>. QED
      BY <2>3, <2>4, <2>5 DEF Has
  <1>. QED
    BY <1>7, <1>8

\* A finite set of numbers has a largest one.
LEMMA LargestNumber ==
  ASSUME NEW X, IsFiniteSet(X), X # {}, NEW f \in [X -> Nat]
  PROVE  \E x \in X : \A y \in X : f[x] >= f[y]
PROOF
  <1> DEFINE Good == {m \in Nat : \A Y \in SUBSET X : Y # {} /\ Cardinality(Y) = m =>
                        \E x \in Y : \A y \in Y : f[x] >= f[y]}
  <1>1. 0 \in Good
    <2>1. \A Y \in SUBSET X : IsFiniteSet(Y)
      BY FS_Subset
    <2>2. \A Y \in SUBSET X : Cardinality(Y) = 0 => Y = {}
      BY <2>1, FS_EmptySet
    <2>. QED
      BY <2>2
  <1>2. ASSUME NEW m \in Nat, m \in Good PROVE m + 1 \in Good
    <2> SUFFICES ASSUME NEW Y \in SUBSET X, Y # {}, Cardinality(Y) = m + 1
                 PROVE  \E x \in Y : \A y \in Y : f[x] >= f[y]
      OBVIOUS
    <2>1. PICK z : z \in Y
      OBVIOUS
    <2> DEFINE Z == Y \ {z}
    <2>2. IsFiniteSet(Y)
      BY FS_Subset
    <2>3. Z \in SUBSET X /\ Cardinality(Z) = m
      <3>1. Cardinality(Y \ {z}) = Cardinality(Y) - 1
        BY ONLY <2>1, <2>2, FS_RemoveElement
      <3>. QED
        BY <3>1
    <2>4. CASE Z = {}
      <3>1. \A y \in Y : y = z
        BY <2>4
      <3>2. f[z] \in Nat
        BY <2>1
      <3>. QED
        BY <2>1, <3>1, <3>2
    <2>5. CASE Z # {}
      <3>1. PICK x \in Z : \A y \in Z : f[x] >= f[y]
        BY <1>2, <2>3, <2>5
      <3>2. \A y \in Y : y = z \/ y \in Z
        OBVIOUS
      <3>3. f[x] \in Nat /\ f[z] \in Nat /\ \A y \in Y : f[y] \in Nat
        BY <2>1
      <3>4. CASE f[x] >= f[z]
        BY <3>1, <3>2, <3>4
      <3>5. CASE ~(f[x] >= f[z])
        <4>1. \A y \in Z : f[z] >= f[y]
          BY <3>1, <3>3, <3>5
        <4>. QED
          BY <2>1, <3>2, <3>3, <4>1
      <3>. QED
        BY <3>4, <3>5
    <2>. QED
      BY <2>4, <2>5
  <1> HIDE DEF Good
  <1>3. Nat \subseteq Good
    BY <1>1, <1>2, NatInd
  <1>4. Cardinality(X) \in Good
    BY <1>3, FS_CardinalityType
  <1>. QED
    BY <1>4 DEF Good

\* Numbers sorted: the largest is taken out first.
LEMMA SortedVarsTurns ==
  ASSUME NEW S, IsFiniteSet(S)
  PROVE  \E f : /\ f[0] = S
                /\ \A i \in 1..Cardinality(S) : f[i] =
                     f[i - 1] \ {CHOOSE x \in f[i - 1] : \A y \in f[i - 1] : ~(x < y)}
                /\ Sorted(S, LAMBDA v, w : v < w) =
                     [i \in 1..Cardinality(S) |-> CHOOSE x \in f[Cardinality(S) - i] :
                         \A y \in f[Cardinality(S) - i] : ~(x < y)]
PROOF
  <1> DEFINE n == Cardinality(S)
             pick(X) == CHOOSE x \in X : \A y \in X : ~(x < y)
             Body(g, i) == IF i = 0 THEN S ELSE g[i - 1] \ {pick(g[i - 1])}
             chosen == CHOOSE g : g = [i \in 0..n |-> Body(g, i)]
             step == [p \in Nat \X SUBSET S |-> p[2] \ {pick(p[2])}]
  <1>0. n \in Nat
    BY FS_CardinalityType
  <1>1. step \in [Nat \X SUBSET S -> SUBSET S]
    OBVIOUS
  <1>2. Sorted(S, LAMBDA v, w : v < w) = [i \in 1..n |-> pick(chosen[n - i])]
    BY DEF Sorted
  <1> HIDE DEF n, pick
  <1>3. PICK f : IsRun(SUBSET S, S, step, n, f)
    <2>1. S \in SUBSET S
      OBVIOUS
    <2> HIDE DEF step
    <2>. QED
      BY <1>0, <1>1, <2>1, LoopRuns
  <1>4. \A i \in 0..n : f[i] = Body(f, i)
    <2> SUFFICES ASSUME NEW i \in 0..n PROVE f[i] = Body(f, i)
      OBVIOUS
    <2>1. CASE i = 0
      BY <1>3, <2>1 DEF IsRun
    <2>2. CASE i # 0
      <3>1. i \in 1..n /\ i - 1 \in 0..n
        BY <1>0, <2>2
      <3>2. <<i, f[i - 1]>> \in Nat \X SUBSET S
        BY <1>0, <1>3, <3>1 DEF IsRun
      <3>3. step[<<i, f[i - 1]>>] = f[i - 1] \ {pick(f[i - 1])}
        BY <3>2
      <3>. QED
        BY <1>3, <2>2, <3>1, <3>3 DEF IsRun
    <2>. QED
      BY <2>1, <2>2
  <1>5. f = [i \in 0..n |-> Body(f, i)]
    <2> HIDE DEF Body
    <2>. QED
      BY <1>3, <1>4 DEF IsRun
  <1>6. chosen = [i \in 0..n |-> Body(chosen, i)]
    <2> HIDE DEF Body
    <2>. QED
      BY <1>5
  <1>7. \A i \in 0..n : chosen[i] = Body(chosen, i)
    <2> HIDE DEF Body, chosen
    <2>. QED
      BY <1>6
  <1> HIDE DEF chosen
  <1>8. chosen[0] = S
    <2>1. Body(chosen, 0) = S
      OBVIOUS
    <2> HIDE DEF Body
    <2>. QED
      BY <1>0, <1>7, <2>1
  <1>9. \A i \in 1..n : chosen[i] = chosen[i - 1] \ {pick(chosen[i - 1])}
    <2> SUFFICES ASSUME NEW i \in 1..n PROVE chosen[i] = chosen[i - 1] \ {pick(chosen[i - 1])}
      OBVIOUS
    <2>1. i \in 0..n /\ i # 0
      BY <1>0
    <2>. QED
      BY <1>7, <2>1
  <1>10. /\ chosen[0] = S
         /\ \A i \in 1..n : chosen[i] = chosen[i - 1] \ {pick(chosen[i - 1])}
         /\ Sorted(S, LAMBDA v, w : v < w) = [i \in 1..n |-> pick(chosen[n - i])]
    BY <1>2, <1>8, <1>9
  <1> DEFINE Has(g) ==
               /\ g[0] = S
               /\ \A i \in 1..Cardinality(S) : g[i] =
                    g[i - 1] \ {CHOOSE x \in g[i - 1] : \A y \in g[i - 1] : ~(x < y)}
               /\ Sorted(S, LAMBDA v, w : v < w) =
                    [i \in 1..Cardinality(S) |-> CHOOSE x \in g[Cardinality(S) - i] :
                        \A y \in g[Cardinality(S) - i] : ~(x < y)]
  <1>11. Has(chosen)
    BY ONLY <1>10 DEF n, pick
  <1>12. \E g : Has(g)
    <2> HIDE DEF Has
    <2>. QED
      BY ONLY <1>11
  <1>. QED
    BY ONLY <1>12 DEF Has

\* The variables of a set, sorted.
LEMMA SortedVarsRight ==
  ASSUME NEW S, IsFiniteSet(S), S \in SUBSET Nat
  PROVE  /\ Sorted(S, LAMBDA v, w : v < w) \in Seq(S)
         /\ \A x \in S : \E i \in 1..Len(Sorted(S, LAMBDA v, w : v < w)) : Sorted(S, LAMBDA v, w : v < w)[i] = x
PROOF
  <1> DEFINE n == Cardinality(S)
             pick == [X \in SUBSET S |-> CHOOSE x \in X : \A y \in X : ~(x < y)]
             L == Sorted(S, LAMBDA v, w : v < w)
  <1>0. n \in Nat
    BY FS_CardinalityType
  <1>1. \A X \in SUBSET S : X # {} => pick[X] \in X
    <2> SUFFICES ASSUME NEW X \in SUBSET S, X # {} PROVE pick[X] \in X
      OBVIOUS
    <2>1. \E x \in X : \A y \in X : ~(x < y)
      <3>1. IsFiniteSet(X)
        BY FS_Subset
      <3> DEFINE f == [x \in X |-> x]
      <3>2. f \in [X -> Nat]
        OBVIOUS
      <3>3. \A x \in X : f[x] = x
        OBVIOUS
      <3> HIDE DEF f
      <3>4. PICK x \in X : \A y \in X : f[x] >= f[y]
        BY <3>1, <3>2, LargestNumber
      <3>5. \A y \in X : ~(x < y)
        BY <3>3, <3>4
      <3>. QED
        BY <3>5
    <2>. QED
      BY <2>1
  <1>2. PICK f : /\ f[0] = S
                 /\ \A i \in 1..n : f[i] = f[i - 1] \ {CHOOSE x \in f[i - 1] : \A y \in f[i - 1] : ~(x < y)}
                 /\ L = [i \in 1..n |-> CHOOSE x \in f[n - i] : \A y \in f[n - i] : ~(x < y)]
    BY SortedVarsTurns
  <1> HIDE DEF n, L
  <1>3. \A i \in 0..n : f[i] \in SUBSET S
    <2>1. f[0] \in SUBSET S /\ \A i \in 1..n : f[i - 1] \in SUBSET S => f[i] \in SUBSET S
      BY <1>2
    <2>. QED
      BY <1>0, <2>1, RunInd
  <1>4. \A i \in 1..n : f[i] = f[i - 1] \ {pick[f[i - 1]]}
    <2> SUFFICES ASSUME NEW i \in 1..n PROVE f[i] = f[i - 1] \ {pick[f[i - 1]]}
      OBVIOUS
    <2>1. i - 1 \in 0..n
      BY <1>0
    <2>2. pick[f[i - 1]] = CHOOSE x \in f[i - 1] : \A y \in f[i - 1] : ~(x < y)
      BY <1>3, <2>1
    <2>. QED
      BY <1>2, <2>2
  <1>5. L = [i \in 1..n |-> pick[f[n - i]]]
    <2>1. \A i \in 1..n : n - i \in 0..n
      BY <1>0
    <2>2. \A i \in 1..n : pick[f[n - i]] = CHOOSE x \in f[n - i] : \A y \in f[n - i] : ~(x < y)
      BY <1>3, <2>1
    <2>. QED
      BY <1>2, <2>2
  <1> HIDE DEF pick
  <1>6. L \in Seq(S) /\ \A x \in S : \E i \in 1..Len(L) : L[i] = x
    <2>1. /\ \A i \in 1..Cardinality(S) : f[i] = f[i - 1] \ {pick[f[i - 1]]}
          /\ L = [i \in 1..Cardinality(S) |-> pick[f[Cardinality(S) - i]]]
      BY ONLY <1>4, <1>5 DEF n
    <2>2. f[0] = S
      BY <1>2
    <2>3. Picking(S, pick, f, L)
      BY ONLY <1>1, <2>1, <2>2 DEF Picking
    <2>. QED
      BY ONLY <2>3, IsFiniteSet(S), PickedRight
  <1>. QED
    BY <1>6 DEF L

\* Clauses sorted by size: one of the longest is taken out first.
LEMMA BySizeTurns ==
  ASSUME NEW S, IsFiniteSet(S)
  PROVE  \E f : /\ f[0] = S
                /\ \A i \in 1..Cardinality(S) : f[i] =
                     f[i - 1] \ {CHOOSE x \in f[i - 1] : \A y \in f[i - 1] : ~(BySize(x, y))}
                /\ Sorted(S, BySize) = [i \in 1..Cardinality(S) |-> CHOOSE x \in f[Cardinality(S) - i] :
                     \A y \in f[Cardinality(S) - i] : ~(BySize(x, y))]
PROOF
  <1> DEFINE n == Cardinality(S)
             pick(X) == CHOOSE x \in X : \A y \in X : ~(BySize(x, y))
             Body(g, i) == IF i = 0 THEN S ELSE g[i - 1] \ {pick(g[i - 1])}
             chosen == CHOOSE g : g = [i \in 0..n |-> Body(g, i)]
             step == [p \in Nat \X SUBSET S |-> p[2] \ {pick(p[2])}]
  <1>0. n \in Nat
    BY FS_CardinalityType
  <1>1. step \in [Nat \X SUBSET S -> SUBSET S]
    OBVIOUS
  <1>2. Sorted(S, BySize) = [i \in 1..n |-> pick(chosen[n - i])]
    BY DEF Sorted, BySize
  <1> HIDE DEF n, pick
  <1>3. PICK f : IsRun(SUBSET S, S, step, n, f)
    <2>1. S \in SUBSET S
      OBVIOUS
    <2> HIDE DEF step
    <2>. QED
      BY <1>0, <1>1, <2>1, LoopRuns
  <1>4. \A i \in 0..n : f[i] = Body(f, i)
    <2> SUFFICES ASSUME NEW i \in 0..n PROVE f[i] = Body(f, i)
      OBVIOUS
    <2>1. CASE i = 0
      BY <1>3, <2>1 DEF IsRun
    <2>2. CASE i # 0
      <3>1. i \in 1..n /\ i - 1 \in 0..n
        BY <1>0, <2>2
      <3>2. <<i, f[i - 1]>> \in Nat \X SUBSET S
        BY <1>0, <1>3, <3>1 DEF IsRun
      <3>3. step[<<i, f[i - 1]>>] = f[i - 1] \ {pick(f[i - 1])}
        BY <3>2
      <3>. QED
        BY <1>3, <2>2, <3>1, <3>3 DEF IsRun
    <2>. QED
      BY <2>1, <2>2
  <1>5. f = [i \in 0..n |-> Body(f, i)]
    <2> HIDE DEF Body
    <2>. QED
      BY <1>3, <1>4 DEF IsRun
  <1>6. chosen = [i \in 0..n |-> Body(chosen, i)]
    <2> HIDE DEF Body
    <2>. QED
      BY <1>5
  <1>7. \A i \in 0..n : chosen[i] = Body(chosen, i)
    <2> HIDE DEF Body, chosen
    <2>. QED
      BY <1>6
  <1> HIDE DEF chosen
  <1>8. chosen[0] = S
    <2>1. Body(chosen, 0) = S
      OBVIOUS
    <2> HIDE DEF Body
    <2>. QED
      BY <1>0, <1>7, <2>1
  <1>9. \A i \in 1..n : chosen[i] = chosen[i - 1] \ {pick(chosen[i - 1])}
    <2> SUFFICES ASSUME NEW i \in 1..n PROVE chosen[i] = chosen[i - 1] \ {pick(chosen[i - 1])}
      OBVIOUS
    <2>1. i \in 0..n /\ i # 0
      BY <1>0
    <2>. QED
      BY <1>7, <2>1
  <1>10. /\ chosen[0] = S
         /\ \A i \in 1..n : chosen[i] = chosen[i - 1] \ {pick(chosen[i - 1])}
         /\ Sorted(S, BySize) = [i \in 1..n |-> pick(chosen[n - i])]
    BY <1>2, <1>8, <1>9
  <1> DEFINE Has(g) ==
               /\ g[0] = S
               /\ \A i \in 1..Cardinality(S) : g[i] =
                    g[i - 1] \ {CHOOSE x \in g[i - 1] : \A y \in g[i - 1] : ~(BySize(x, y))}
               /\ Sorted(S, BySize) = [i \in 1..Cardinality(S) |-> CHOOSE x \in g[Cardinality(S) - i] :
                    \A y \in g[Cardinality(S) - i] : ~(BySize(x, y))]
  <1>11. Has(chosen)
    BY ONLY <1>10 DEF n, pick
  <1>12. \E g : Has(g)
    <2> HIDE DEF Has
    <2>. QED
      BY ONLY <1>11
  <1>. QED
    BY ONLY <1>12 DEF Has

\* The clauses of a set, sorted by size.
LEMMA BySizeRight ==
  ASSUME NEW S, IsFiniteSet(S), S \in SUBSET Clauses
  PROVE  /\ Sorted(S, BySize) \in Seq(S)
         /\ \A x \in S : \E i \in 1..Len(Sorted(S, BySize)) : Sorted(S, BySize)[i] = x
PROOF
  <1> DEFINE n == Cardinality(S)
             pick == [X \in SUBSET S |-> CHOOSE x \in X : \A y \in X : ~(BySize(x, y))]
             L == Sorted(S, BySize)
  <1>0. n \in Nat
    BY FS_CardinalityType
  <1>1. \A X \in SUBSET S : X # {} => pick[X] \in X
    <2> SUFFICES ASSUME NEW X \in SUBSET S, X # {} PROVE pick[X] \in X
      OBVIOUS
    <2>1. \E x \in X : \A y \in X : ~(BySize(x, y))
      <3>1. IsFiniteSet(X)
        BY FS_Subset
      <3> DEFINE f == [x \in X |-> Cardinality(x)]
      <3>2. f \in [X -> Nat]
        BY OneLiteral DEF Clauses
      <3>3. \A x \in X : f[x] = Cardinality(x)
        OBVIOUS
      <3> HIDE DEF f
      <3>4. PICK x \in X : \A y \in X : f[x] >= f[y]
        BY <3>1, <3>2, LargestNumber
      <3>5. \A y \in X : f[y] \in Nat
        BY <3>2
      <3>6. \A y \in X : ~BySize(x, y)
        BY <3>3, <3>4, <3>5 DEF BySize
      <3>. QED
        BY <3>6
    <2>. QED
      BY <2>1
  <1>2. PICK f : /\ f[0] = S
                 /\ \A i \in 1..n : f[i] = f[i - 1] \ {CHOOSE x \in f[i - 1] : \A y \in f[i - 1] : ~(BySize(x, y))}
                 /\ L = [i \in 1..n |-> CHOOSE x \in f[n - i] : \A y \in f[n - i] : ~(BySize(x, y))]
    BY BySizeTurns
  <1> HIDE DEF n, L
  <1>3. \A i \in 0..n : f[i] \in SUBSET S
    <2>1. f[0] \in SUBSET S /\ \A i \in 1..n : f[i - 1] \in SUBSET S => f[i] \in SUBSET S
      BY <1>2
    <2>. QED
      BY <1>0, <2>1, RunInd
  <1>4. \A i \in 1..n : f[i] = f[i - 1] \ {pick[f[i - 1]]}
    <2> SUFFICES ASSUME NEW i \in 1..n PROVE f[i] = f[i - 1] \ {pick[f[i - 1]]}
      OBVIOUS
    <2>1. i - 1 \in 0..n
      BY <1>0
    <2>2. pick[f[i - 1]] = CHOOSE x \in f[i - 1] : \A y \in f[i - 1] : ~(BySize(x, y))
      BY <1>3, <2>1
    <2>. QED
      BY <1>2, <2>2
  <1>5. L = [i \in 1..n |-> pick[f[n - i]]]
    <2>1. \A i \in 1..n : n - i \in 0..n
      BY <1>0
    <2>2. \A i \in 1..n : pick[f[n - i]] = CHOOSE x \in f[n - i] : \A y \in f[n - i] : ~(BySize(x, y))
      BY <1>3, <2>1
    <2>. QED
      BY <1>2, <2>2
  <1> HIDE DEF pick
  <1>6. L \in Seq(S) /\ \A x \in S : \E i \in 1..Len(L) : L[i] = x
    <2>1. /\ \A i \in 1..Cardinality(S) : f[i] = f[i - 1] \ {pick[f[i - 1]]}
          /\ L = [i \in 1..Cardinality(S) |-> pick[f[Cardinality(S) - i]]]
      BY ONLY <1>4, <1>5 DEF n
    <2>2. f[0] = S
      BY <1>2
    <2>3. Picking(S, pick, f, L)
      BY ONLY <1>1, <2>1, <2>2 DEF Picking
    <2>. QED
      BY ONLY <2>3, IsFiniteSet(S), PickedRight
  <1>. QED
    BY <1>6 DEF L

\* The elements of the sequences in a sequence.
LEMMA FlattenRight ==
  ASSUME NEW T, NEW ss \in Seq(Seq(T))
  PROVE  /\ FlattenSeq(ss) \in Seq(T)
         /\ \A x : x \in ToSet(FlattenSeq(ss)) <=> \E i \in 1..Len(ss) : x \in ToSet(ss[i])
PROOF
  <1> DEFINE n == Len(ss)
             Body(g, i) == IF i = 1 THEN ss[i] ELSE g[i - 1] \o ss[i]
             chosen == CHOOSE g : g = [i \in 1..n |-> Body(g, i)]
             step == [p \in Nat \X Seq(T) |-> IF p[1] \in 1..n THEN p[2] \o ss[p[1]] ELSE p[2]]
  <1>0. n \in Nat /\ \A i \in 1..n : ss[i] \in Seq(T)
    OBVIOUS
  <1>1. CASE n = 0
    <2>1. FlattenSeq(ss) = ss /\ ss = <<>>
      BY <1>1 DEF FlattenSeq
    <2>. QED
      BY <1>1, <2>1 DEF ToSet
  <1>2. CASE n # 0
    <2>1. FlattenSeq(ss) = chosen[n]
      BY <1>2 DEF FlattenSeq
    <2> HIDE DEF n
    <2>2. step \in [Nat \X Seq(T) -> Seq(T)]
      <3> SUFFICES ASSUME NEW p \in Nat \X Seq(T)
                   PROVE  (IF p[1] \in 1..n THEN p[2] \o ss[p[1]] ELSE p[2]) \in Seq(T)
        OBVIOUS
      <3>. QED
        BY <1>0
    <2>3. PICK f : IsRun(Seq(T), <<>>, step, n, f)
      <3>1. <<>> \in Seq(T)
        OBVIOUS
      <3> HIDE DEF step
      <3>. QED
        BY <1>0, <2>2, <3>1, LoopRuns
    <2>4. ASSUME NEW i \in 1..n PROVE f[i] = f[i - 1] \o ss[i] /\ f[i - 1] \in Seq(T) /\ f[i] \in Seq(T)
      <3>1. i \in Nat /\ i - 1 \in 0..n /\ i \in 0..n
        BY <1>0
      <3>2. f[i - 1] \in Seq(T) /\ f[i] = step[<<i, f[i - 1]>>] /\ f[i] \in Seq(T)
        BY <2>3, <3>1 DEF IsRun
      <3>3. step[<<i, f[i - 1]>>] = f[i - 1] \o ss[i]
        BY <3>1, <3>2
      <3>. QED
        BY <3>2, <3>3
    <2>5. f[0] = <<>> /\ f[0] \in Seq(T)
      BY <1>0, <2>3 DEF IsRun
    <2> DEFINE h == [i \in 1..n |-> f[i]]
    <2>6. \A i \in 1..n : h[i] = Body(h, i)
      <3> SUFFICES ASSUME NEW i \in 1..n PROVE h[i] = Body(h, i)
        OBVIOUS
      <3>1. CASE i = 1
        <4>1. 1 \in 1..n /\ 1 - 1 = 0
          BY <1>0, <1>2
        <4>2. f[1] = f[1 - 1] \o ss[1] /\ ss[1] \in Seq(T)
          BY <1>0, <2>4, <4>1
        <4>3. f[1] = <<>> \o ss[1]
          BY <2>5, <4>1, <4>2
        <4>. QED
          BY <3>1, <4>2, <4>3
      <3>2. CASE i # 1
        <4>1. i - 1 \in 1..n
          BY <1>0, <3>2
        <4>. QED
          BY <2>4, <3>2, <4>1
      <3>. QED
        BY <3>1, <3>2
    <2>7. h = [i \in 1..n |-> Body(h, i)]
      <3> HIDE DEF Body
      <3>. QED
        BY <2>6
    <2> HIDE DEF h
    <2>8. chosen = [i \in 1..n |-> Body(chosen, i)]
      <3> HIDE DEF Body
      <3>. QED
        BY <2>7
    <2>9. \A i \in 1..n : chosen[i] = Body(chosen, i)
      <3> HIDE DEF chosen, Body
      <3>. QED
        BY <2>8
    <2> HIDE DEF chosen
    <2> DEFINE Good == {i \in Nat : i \in 1..n =>
                          /\ chosen[i] \in Seq(T)
                          /\ \A x : x \in ToSet(chosen[i]) <=> \E k \in 1..i : x \in ToSet(ss[k])}
    <2>10. 0 \in Good
      OBVIOUS
    <2>11. ASSUME NEW i \in Nat, i \in Good PROVE i + 1 \in Good
      <3> SUFFICES ASSUME i + 1 \in 1..n
                   PROVE  /\ chosen[i + 1] \in Seq(T)
                          /\ \A x : x \in ToSet(chosen[i + 1]) <=> \E k \in 1..(i + 1) : x \in ToSet(ss[k])
        OBVIOUS
      <3>0. ss[i + 1] \in Seq(T) /\ (i + 1) - 1 = i /\ 1..(i + 1) = (1..i) \cup {i + 1}
        BY <1>0
      <3>1. CASE i = 0
        <4>1. chosen[i + 1] = ss[i + 1]
          BY <2>9, <3>1
        <4>. QED
          BY <3>0, <3>1, <4>1
      <3>2. CASE i # 0
        <4>0. i + 1 # 1 /\ (i + 1) - 1 = i
          BY <3>2
        <4>a. Body(chosen, i + 1) = chosen[i] \o ss[i + 1]
          BY ONLY <4>0
        <4>1. chosen[i + 1] = chosen[i] \o ss[i + 1]
          <5> HIDE DEF Body
          <5>. QED
            BY <2>9, <4>a
        <4>2. /\ chosen[i] \in Seq(T)
              /\ \A x : x \in ToSet(chosen[i]) <=> \E k \in 1..i : x \in ToSet(ss[k])
          BY <2>11, <3>2, <1>0
        <4>3. /\ chosen[i] \o ss[i + 1] \in Seq(T)
              /\ ToSet(chosen[i] \o ss[i + 1]) = ToSet(chosen[i]) \cup ToSet(ss[i + 1])
          BY <3>0, <4>2, SetOfConcat
        <4>. QED
          BY <3>0, <4>1, <4>2, <4>3
      <3>. QED
        BY <3>1, <3>2
    <2> HIDE DEF Good
    <2>12. n \in Good
      BY <1>0, <2>10, <2>11, NatInd
    <2>13. n \in 1..n
      BY <1>0, <1>2
    <2>14. /\ chosen[n] \in Seq(T)
           /\ \A x : x \in ToSet(chosen[n]) <=> \E k \in 1..n : x \in ToSet(ss[k])
      BY <2>12, <2>13 DEF Good
    <2>. QED
      BY <2>1, <2>14 DEF n
  <1>. QED
    BY <1>1, <1>2

-----------------------------------------------------------------------------
(***************************************************************************)
(* Equivalent literals.                                                    *)
(***************************************************************************)
\* There are two literals for a variable.
LEMMA LiteralCount == IsFiniteSet(Lits) /\ Cardinality(Lits) <= 2 * N
PROOF
  <1> DEFINE T == 1..(2 * N)
             f == [l \in Lits |-> IF l > 0 THEN l ELSE N - l]
  <1>0. N \in Nat
    BY NAssumption
  <1>1. IsFiniteSet(T) /\ Cardinality(T) = 2 * N
    <2>1. 2 * N \in Nat /\ 1 \in Int /\ 2 * N \in Int
      BY <1>0
    <2>2. IsFiniteSet(1..(2 * N))
      BY <2>1, FS_Interval
    <2>3. Cardinality(1..(2 * N)) = IF 1 > 2 * N THEN 0 ELSE 2 * N - 1 + 1
      BY <2>1, FS_Interval
    <2>. QED
      BY <1>0, <2>2, <2>3
  <1>2. \A l \in Lits : l \in 1..N \/ -l \in 1..N
    BY <1>0 DEF Lits, Vars
  <1>3. f \in [Lits -> T]
    <2> SUFFICES ASSUME NEW l \in Lits PROVE (IF l > 0 THEN l ELSE N - l) \in T
      OBVIOUS
    <2>. QED
      BY <1>0, <1>2, Literal
  <1>4. ASSUME NEW k \in Lits, NEW l \in Lits, f[k] = f[l] PROVE k = l
    BY <1>0, <1>2, <1>4, Literal
  <1>5. f \in Injection(Lits, T)
    BY <1>3, <1>4 DEF Injection, IsInjective
  <1> HIDE DEF f, T
  <1>. QED
    BY <1>1, <1>5, FS_Injection

\* The states of the search for reachable literals.
Reaching(C, from, T, g) ==
  /\ g[0] = {from}
  /\ \A i \in 1..(2 * N) : g[i] = Reach(C, g[i - 1])
  /\ Reachable(C, from) = g[2 * N]
  /\ \A i \in 0..(2 * N) : g[i] \in T

\* The search through the implication graph runs within any closed set.
LEMMA ReachableTurns ==
  ASSUME NEW C, NEW from,
         NEW T, {from} \in T, \A y \in T, i \in 1..(2 * N) : Reach(C, y) \in T
  PROVE  \E f : Reaching(C, from, T, f)
PROOF
  <1> DEFINE n == (2 * N)
             start == {from}
             Body(g, i) == IF i = 0 THEN start ELSE Reach(C, g[i - 1])
             chosen == CHOOSE g : g = [i \in 0..n |-> Body(g, i)]
             step == [p \in Nat \X T |-> IF p[1] \in 1..n THEN Reach(C, p[2]) ELSE p[2]]
  <1>0. n \in Nat
    BY NAssumption
  <1>1. start \in T /\ \A y \in T, i \in 1..n : Reach(C, y) \in T
    OBVIOUS
  <1>2. Reachable(C, from) = chosen[n]
    BY DEF Reachable, Reach
  <1>3. \A g : Body(g, 0) = start /\ \A i \in 1..n : Body(g, i) = Reach(C, g[i - 1])
    BY <1>0
  <1> HIDE DEF n, start, Body
  <1>4. step \in [Nat \X T -> T]
    BY <1>0, <1>1
  <1>5. PICK f : IsRun(T, start, step, n, f)
    <2> HIDE DEF step
    <2>. QED
      BY <1>0, <1>1, <1>4, LoopRuns
  <1>6. ASSUME NEW i \in 1..n PROVE f[i] = Reach(C, f[i - 1])
    <2>1. i \in Nat /\ i - 1 \in 0..n
      BY <1>0
    <2>2. f[i - 1] \in T /\ f[i] = step[<<i, f[i - 1]>>]
      BY <1>5, <2>1 DEF IsRun
    <2>3. step[<<i, f[i - 1]>>] = Reach(C, f[i - 1])
      BY <2>1, <2>2
    <2>. QED
      BY <2>2, <2>3
  <1>7. \A i \in 0..n : f[i] = Body(f, i)
    <2> SUFFICES ASSUME NEW i \in 0..n PROVE f[i] = Body(f, i)
      OBVIOUS
    <2>1. i = 0 \/ i \in 1..n
      BY <1>0
    <2>2. f[0] = start
      BY <1>5 DEF IsRun
    <2>. QED
      BY <1>3, <1>6, <2>1, <2>2
  <1>8. f = [i \in 0..n |-> Body(f, i)]
    BY <1>5, <1>7 DEF IsRun
  <1>9. chosen = [i \in 0..n |-> Body(chosen, i)]
    BY <1>8
  <1>10. \A i \in 0..n : chosen[i] = Body(chosen, i)
    <2> HIDE DEF chosen
    <2>. QED
      BY <1>9
  <1> HIDE DEF chosen
  <1>11. chosen[0] = start /\ \A i \in 1..n : chosen[i] = Reach(C, chosen[i - 1])
    BY <1>0, <1>3, <1>10
  <1>12. \A i \in 1..n : chosen[i - 1] \in T => chosen[i] \in T
    BY <1>1, <1>11
  <1>13. \A i \in 0..n : chosen[i] \in T
    BY <1>0, <1>1, <1>11, <1>12, RunInd
  <1>14. Reaching(C, from, T, chosen)
    BY <1>2, <1>11, <1>13 DEF n, start, Reaching
  <1>. QED
    BY <1>14


\* The search ends with everything that can be reached.
LEMMA ReachableClosed ==
  ASSUME NEW C, NEW from \in Lits
  PROVE  \A l \in Reachable(C, from) : Implications(C, l) \subseteq Reachable(C, from)
PROOF
  <1> DEFINE T == SUBSET Lits
             next == [U \in T |-> Reach(C, U)]
             measure == [U \in T |-> Cardinality(U)]
             n == 2 * N
             R == Reachable(C, from)
  <1>0. n \in Nat /\ IsFiniteSet(Lits) /\ Cardinality(Lits) <= n
    BY NAssumption, LiteralCount
  <1>1. \A U \in T : Reach(C, U) \in T /\ U \subseteq Reach(C, U)
    BY DEF Reach, Implications
  <1>2. next \in [T -> T]
    BY <1>1
  <1>3. ASSUME NEW U \in T PROVE IsFiniteSet(U) /\ Cardinality(U) \in Nat /\ Cardinality(U) \in 0..n
    <2>1. IsFiniteSet(U) /\ Cardinality(U) \in Nat
      BY OneLiteral
    <2>2. Cardinality(U) <= Cardinality(Lits) /\ Cardinality(Lits) \in Nat
      BY <1>0, FS_Subset, FS_CardinalityType
    <2>. QED
      BY <1>0, <2>1, <2>2
  <1>4. measure \in [T -> 0..n]
    BY <1>3
  <1>5. ASSUME NEW U \in T PROVE next[U] = U \/ measure[next[U]] > measure[U]
    <2> SUFFICES ASSUME Reach(C, U) # U PROVE Cardinality(Reach(C, U)) > Cardinality(U)
      BY <1>1
    <2> DEFINE V == Reach(C, U)
    <2>1. V \in T /\ U \subseteq V /\ V # U
      BY <1>1
    <2>2. IsFiniteSet(V)
      BY <1>3, <2>1
    <2> HIDE DEF V
    <2>3. Cardinality(U) < Cardinality(V) /\ Cardinality(U) \in Nat /\ Cardinality(V) \in Nat
      BY <2>1, <2>2, MoreElements
    <2>. QED
      BY <2>3 DEF V
  <1>6. {from} \in T /\ \A U \in T, i \in 1..(2 * N) : Reach(C, U) \in T
    BY <1>1
  <1> HIDE DEF T
  <1>7. PICK f : Reaching(C, from, T, f)
    <2>1. {from} \in T
      BY <1>6
    <2>2. \A y \in T, i \in 1..(2 * N) : Reach(C, y) \in T
      BY <1>6
    <2>. QED
      BY ONLY <2>1, <2>2, ReachableTurns
  <1>f. /\ f[0] = {from}
        /\ \A i \in 1..(2 * N) : f[i] = Reach(C, f[i - 1])
        /\ Reachable(C, from) = f[2 * N]
        /\ \A i \in 0..(2 * N) : f[i] \in T
    BY <1>7, Zenon DEF Reaching
  <1>8. \A i \in 1..n : f[i] = next[f[i - 1]]
    <2> SUFFICES ASSUME NEW i \in 1..n PROVE f[i] = next[f[i - 1]]
      OBVIOUS
    <2>1. i - 1 \in 0..(2 * N)
      BY <1>0
    <2>. QED
      BY <1>f, <2>1
  <1>9. f[0] \in T /\ R = f[n]
    BY <1>6, <1>f
  <1>10. \A U \in T : next[U] = Reach(C, U)
    OBVIOUS
  <1> HIDE DEF next, measure, n, R
  <1>11. f[n] \in T /\ next[f[n]] = f[n]
    BY <1>0, <1>2, <1>4, <1>5, <1>8, <1>9, Stable
  <1>12. Reach(C, R) = R
    BY <1>9, <1>10, <1>11
  <1>. QED
    BY <1>12 DEF Reach, R

\* Reaching is transitive.
LEMMA ReachableTrans ==
  ASSUME NEW C, NEW k \in Lits, NEW l \in Lits, k \in Reachable(C, l)
  PROVE  Reachable(C, k) \subseteq Reachable(C, l)
PROOF
  <1> DEFINE T == {U \in SUBSET Lits : U \subseteq Reachable(C, l)}
  <1>1. \A j \in Reachable(C, l) : Implications(C, j) \subseteq Reachable(C, l)
    BY ReachableClosed
  <1>2. {k} \in T
    OBVIOUS
  <1>3. ASSUME NEW U \in T PROVE Reach(C, U) \in T
    BY <1>1 DEF Reach, Implications
  <1>4. T \in SUBSET SUBSET Lits
    OBVIOUS
  <1> HIDE DEF T
  <1>5. Reachable(C, k) \in T
    BY <1>2, <1>3, <1>4, ReachableInd
  <1>. QED
    BY <1>5 DEF T

\* What implies another literal is implied negated by its negation.
LEMMA ReachableBack ==
  ASSUME NEW C, NEW k \in Lits, NEW l \in Lits, k \in Reachable(C, l)
  PROVE  -l \in Reachable(C, -k)
PROOF
  <1> DEFINE T == {U \in SUBSET Lits : \A j \in U : -l \in Reachable(C, -j)}
  <1>0. \A j \in Lits : -j \in Lits /\ -(-j) = j
    BY Literal
  <1>1. {l} \in T
    <2>1. -l \in Reachable(C, -l)
      BY <1>0, ReachableMeans
    <2>. QED
      BY <2>1
  <1>2. ASSUME NEW U \in T PROVE Reach(C, U) \in T
    <2>1. Reach(C, U) \in SUBSET Lits
      BY DEF Reach, Implications
    <2>2. ASSUME NEW j \in U, NEW m \in Implications(C, j) PROVE -l \in Reachable(C, -m)
      <3>1. /\ m \in Lits /\ j \in Lits /\ -m \in Lits /\ -j \in Lits
            /\ {-j, m} \in C /\ m # -j
        BY <1>0 DEF Implications
      <3>2. -j \in Implications(C, -m)
        <4>1. {-(-m), -j} = {-j, m} /\ -j # -(-m)
          BY <1>0, <3>1
        <4>. QED
          BY <3>1, <4>1 DEF Implications
      <3>3. -m \in Reachable(C, -m)
        BY <3>1, ReachableMeans
      <3>4. -j \in Reachable(C, -m)
        BY <3>1, <3>2, <3>3, ReachableClosed
      <3>5. Reachable(C, -j) \subseteq Reachable(C, -m)
        BY <3>1, <3>4, ReachableTrans
      <3>. QED
        BY <3>5
    <2>3. \A m \in Reach(C, U) : m \in U \/ \E j \in U : m \in Implications(C, j)
      BY DEF Reach
    <2>. QED
      BY <2>1, <2>2, <2>3
  <1>3. T \in SUBSET SUBSET Lits
    OBVIOUS
  <1> HIDE DEF T
  <1>4. Reachable(C, l) \in T
    BY <1>1, <1>2, <1>3, ReachableInd
  <1>. QED
    BY <1>4 DEF T

\* Literals that reach each other.
Equal(C, k, l) == k \in Reachable(C, l) /\ l \in Reachable(C, k)

\* Equivalence of literals is one, is kept by negation, and every model respects it.
LEMMA EqualRight ==
  ASSUME NEW C, NEW k \in Lits, NEW l \in Lits
  PROVE  /\ Equal(C, l, l)
         /\ Equal(C, k, l) => Equal(C, l, k) /\ Equal(C, -k, -l)
         /\ \A j \in Lits : Equal(C, j, k) /\ Equal(C, k, l) => Equal(C, j, l)
         /\ \A A \in Assignments : Equal(C, k, l) /\ (\A c \in C : c \cap A # {}) => (k \in A <=> l \in A)
PROOF
  <1>1. Equal(C, l, l)
    BY ReachableMeans DEF Equal
  <1>2. Equal(C, k, l) => Equal(C, l, k) /\ Equal(C, -k, -l)
    BY ReachableBack DEF Equal
  <1>3. ASSUME NEW j \in Lits, Equal(C, j, k), Equal(C, k, l) PROVE Equal(C, j, l)
    <2>1. Reachable(C, k) \subseteq Reachable(C, l) /\ Reachable(C, k) \subseteq Reachable(C, j)
      BY <1>3, ReachableTrans DEF Equal
    <2>. QED
      BY <1>3, <2>1 DEF Equal
  <1>4. ASSUME NEW A \in Assignments, Equal(C, k, l), \A c \in C : c \cap A # {} PROVE k \in A <=> l \in A
    BY <1>4, ReachableMeans DEF Equal
  <1>. QED
    BY <1>1, <1>2, <1>3, <1>4

\* The clauses that count for the components.
Edges(F, act) == {c \in AllClauses(F) : c \subseteq act}

\* A component is a class of the literals of act.
LEMMA ComponentIs ==
  ASSUME NEW F, NEW act \in SUBSET Lits, NEW l \in act
  PROVE  Component(F, act, l) = {k \in act : Equal(Edges(F, act), k, l)}
PROOF
  <1> DEFINE C == Edges(F, act)
  <1>1. \A k \in Reachable(C, l) : k = l \/ k \in UNION C
    BY ReachableMeans
  <1>2. \A k \in Reachable(C, l) : k \in act
    BY <1>1 DEF Edges
  <1>. QED
    BY <1>2 DEF Component, Equal, Edges

\* The literals of least index of a component.
Least(S) == {k \in S : \A j \in S : vidx(k) <= vidx(j)}

\* A component has one literal of least index, the negation of the one of the
\* negated component.
LEMMA LeastOne ==
  ASSUME NEW F, NEW act \in SUBSET Lits, \A l \in act : -l \in act,
         \A l \in act : -l \notin Component(F, act, l), NEW l \in act
  PROVE  /\ l \in Component(F, act, l) /\ Component(F, act, l) \in SUBSET act
         /\ \E m \in Component(F, act, l) : Least(Component(F, act, l)) = {m}
         /\ \A k \in Component(F, act, l) : Component(F, act, k) = Component(F, act, l)
         /\ \A k \in Least(Component(F, act, l)) : -k \in Least(Component(F, act, -l))
PROOF
  <1> DEFINE C == Edges(F, act)
             S == Component(F, act, l)
  <1>0. \A j \in act : -j \in act /\ j \in Lits /\ -j \in Lits /\ -(-j) = j
    BY Literal
  <1>1. \A j \in act : Component(F, act, j) = {k \in act : Equal(C, k, j)}
    BY ComponentIs
  <1> HIDE DEF C
  <1>2. l \in S /\ S \in SUBSET act /\ S = {k \in act : Equal(C, k, l)}
    BY <1>0, <1>1, EqualRight
  <1>3. ASSUME NEW k \in S PROVE Component(F, act, k) = S
    <2>1. k \in act /\ Equal(C, k, l) /\ Equal(C, l, k)
      BY <1>0, <1>2, EqualRight
    <2>2. ASSUME NEW j \in act PROVE Equal(C, j, k) <=> Equal(C, j, l)
      BY <1>0, <2>1, EqualRight
    <2>. QED
      BY <1>1, <1>2, <2>1, <2>2
  <1>4. ASSUME NEW k \in Least(S), NEW j \in Least(S) PROVE j = k
    <2>1. k \in S /\ j \in S /\ vidx(k) <= vidx(j) /\ vidx(j) <= vidx(k)
      BY DEF Least
    <2>2. k \in Lits /\ j \in Lits /\ k \in act
      BY <1>0, <1>2, <2>1
    <2>3. vidx(k) = vidx(j)
      <3>1. vidx(k) \in Nat /\ vidx(j) \in Nat
        BY <2>2, VariableOf DEF Vars
      <3>. QED
        BY <2>1, <3>1
    <2>4. j = k \/ j = -k
      BY <2>2, <2>3, VariableOf
    <2>5. CASE j = -k
      <3>1. Component(F, act, k) = S
        BY <1>3, <2>1
      <3>. QED
        BY <2>1, <2>2, <2>5, <3>1
    <2>. QED
      BY <2>4, <2>5
  <1>5. \E m \in S : m \in Least(S)
    <2> DEFINE f == [x \in S |-> N - vidx(x)]
    <2>1. \A x \in S : vidx(x) \in 1..N
      BY <1>0, <1>2, VariableOf DEF Vars
    <2>2. f \in [S -> Nat]
      <3>1. \A x \in S : N - vidx(x) \in Nat
        BY <2>1, NAssumption
      <3>. QED
        BY <3>1
    <2>3. IsFiniteSet(S) /\ S # {}
      <3>1. S \in SUBSET Lits
        BY <1>2
      <3> HIDE DEF S
      <3>2. IsFiniteSet(S)
        BY <3>1, OneLiteral
      <3>. QED
        BY <1>2, <3>2
    <2>4. \A x \in S : f[x] = N - vidx(x)
      OBVIOUS
    <2> HIDE DEF f, S
    <2>5. PICK m \in S : \A y \in S : f[m] >= f[y]
      BY <2>2, <2>3, LargestNumber
    <2>6. \A y \in S : vidx(m) <= vidx(y)
      BY <2>1, <2>4, <2>5, NAssumption
    <2>. QED
      BY <2>6 DEF Least
  <1>6. ASSUME NEW k \in Least(S) PROVE -k \in Least(Component(F, act, -l))
    <2> DEFINE R == Component(F, act, -l)
    <2>1. R = {j \in act : Equal(C, j, -l)}
      BY <1>0, <1>1
    <2>2. k \in S /\ \A j \in S : vidx(k) <= vidx(j)
      BY DEF Least
    <2> HIDE DEF R, S
    <2>3. -k \in R
      BY <1>0, <1>2, <2>1, <2>2, EqualRight
    <2>4. ASSUME NEW j \in R PROVE vidx(-k) <= vidx(j)
      <3>1. j \in act /\ Equal(C, j, -l)
        BY <2>1
      <3>2. Equal(C, -j, l)
        <4>1. Equal(C, -j, -(-l))
          BY <1>0, <3>1, EqualRight
        <4>. QED
          BY <1>0, <4>1
      <3>3. -j \in S
        BY <1>0, <1>2, <3>1, <3>2
      <3>4. vidx(-k) = vidx(k) /\ vidx(-j) = vidx(j)
        BY <1>0, <1>2, <2>2, <3>1, VariableOf
      <3>. QED
        BY <2>2, <3>3, <3>4
    <2>. QED
      BY <2>3, <2>4 DEF Least, R
  <1>7. \E m \in S : Least(S) = {m}
    BY <1>4, <1>5
  <1>. QED
    BY <1>2, <1>3, <1>6, <1>7

-----------------------------------------------------------------------------
\* A renaming of the literals of act that every model respects.
Renames(F, act, frozen, r) ==
  /\ r \in [Lits -> Lits]
  /\ \A l \in Lits :
       /\ r[-l] = -r[l] /\ r[r[l]] = r[l]
       /\ l \notin act \/ vidx(l) \in frozen => r[l] = l
       /\ l \in act => r[l] \in act
       /\ \A A \in DbModels(F) : l \in A <=> r[l] \in A

\* The representatives rename.
LEMMA ReprRenames ==
  ASSUME NEW F \in Formulas, NEW act \in SUBSET Lits, NEW frozen, \A l \in act : -l \in act,
         \A l \in act : -l \notin Component(F, act, l),
         NEW r, r = [l \in Lits |-> repr(F, act, frozen, l)]
  PROVE  Renames(F, act, frozen, r)
PROOF
  <1> DEFINE C == Edges(F, act)
             Cm(l) == Component(F, act, l)
  <1>0. \A j \in Lits : -j \in Lits /\ -(-j) = j /\ vidx(-j) = vidx(j)
    BY Literal, VariableOf
  <1>1. \A A \in DbModels(F) : A \in Assignments /\ \A c \in C : c \cap A # {}
    BY DbModel, FormulaParts DEF Edges
  <1>2. ASSUME NEW l \in act
        PROVE  /\ \E m \in Cm(l) : Least(Cm(l)) = {m}
               /\ l \in Cm(l) /\ Cm(l) \in SUBSET act
               /\ \A k \in Cm(l) : Cm(k) = Cm(l)
               /\ \A k \in Least(Cm(l)) : -k \in Least(Cm(-l))
               /\ Cm(l) = {k \in act : Equal(C, k, l)}
    <2>1. /\ \E m \in Cm(l) : Least(Cm(l)) = {m}
          /\ l \in Cm(l) /\ Cm(l) \in SUBSET act
          /\ \A k \in Cm(l) : Cm(k) = Cm(l)
          /\ \A k \in Least(Cm(l)) : -k \in Least(Cm(-l))
      BY LeastOne
    <2>2. Cm(l) = {k \in act : Equal(C, k, l)}
      BY ComponentIs
    <2>. QED
      BY <2>1, <2>2
  <1> HIDE DEF C
  <1>3. ASSUME NEW l \in act, vidx(l) \notin frozen PROVE r[l] \in Cm(l) /\ Least(Cm(l)) = {r[l]}
    <2>1. PICK m \in Cm(l) : Least(Cm(l)) = {m}
      BY <1>2
    <2>2. r[l] = CHOOSE k \in Cm(l) : \A j \in Cm(l) : vidx(k) <= vidx(j)
      BY <1>3 DEF repr
    <2> HIDE DEF Cm
    <2>3. \A k \in Cm(l) : (\A j \in Cm(l) : vidx(k) <= vidx(j)) <=> k = m
      BY <2>1 DEF Least
    <2>4. r[l] = m
      BY <2>1, <2>2, <2>3
    <2>. QED
      BY <2>1, <2>4
  <1>4. ASSUME NEW l \in Lits, l \notin act \/ vidx(l) \in frozen PROVE r[l] = l
    BY <1>4 DEF repr
  <1>5. ASSUME NEW l \in act PROVE r[l] \in act
    BY <1>2, <1>3, <1>4, <1>5
  <1>6. r \in [Lits -> Lits]
    <2>1. \A l \in Lits : r[l] \in Lits
      BY <1>4, <1>5
    <2>. QED
      BY <2>1
  <1>7. ASSUME NEW l \in Lits PROVE r[-l] = -r[l]
    <2>1. CASE l \notin act \/ vidx(l) \in frozen
      <3>1. -l \notin act \/ vidx(-l) \in frozen
        BY <1>0, <2>1
      <3>. QED
        BY <1>0, <1>4, <2>1, <3>1
    <2>2. CASE l \in act /\ vidx(l) \notin frozen
      <3>1. Least(Cm(l)) = {r[l]} /\ Least(Cm(-l)) = {r[-l]}
        BY <1>0, <1>3, <2>2
      <3>2. -r[l] \in Least(Cm(-l))
        BY <1>2, <2>2, <3>1
      <3>. QED
        BY <3>1, <3>2
    <2>. QED
      BY <2>1, <2>2
  <1>8. ASSUME NEW l \in Lits PROVE r[r[l]] = r[l]
    <2> DEFINE k == r[l]
    <2>0. k \in Lits
      BY <1>6
    <2>1. CASE l \notin act \/ vidx(l) \in frozen
      BY <1>4, <2>1
    <2>2. CASE l \in act /\ vidx(l) \notin frozen
      <3>1. k \in Cm(l) /\ Least(Cm(l)) = {k} /\ k \in act
        BY <1>3, <1>5, <2>2
      <3> HIDE DEF k
      <3>2. Cm(k) = Cm(l)
        BY <1>2, <2>2, <3>1
      <3>3. CASE vidx(k) \in frozen
        <4>1. r[k] = k
          BY <1>4, <2>0, <3>3
        <4>. QED
          BY <4>1 DEF k
      <3>4. CASE vidx(k) \notin frozen
        <4>1. Least(Cm(k)) = {r[k]}
          BY <1>3, <3>1, <3>4
        <4>2. r[k] = k
          BY <3>1, <3>2, <4>1
        <4>. QED
          BY <4>2 DEF k
      <3>. QED
        BY <3>3, <3>4
    <2>. QED
      BY <2>1, <2>2
  <1>9. ASSUME NEW l \in Lits, NEW A \in DbModels(F) PROVE l \in A <=> r[l] \in A
    <2>1. CASE l \notin act \/ vidx(l) \in frozen
      BY <1>4, <2>1
    <2>2. CASE l \in act /\ vidx(l) \notin frozen
      <3>1. r[l] \in Lits /\ Equal(C, r[l], l)
        BY <1>2, <1>3, <1>6, <2>2
      <3>2. A \in Assignments /\ \A c \in C : c \cap A # {}
        BY <1>1
      <3> DEFINE k == r[l]
      <3>3. k \in Lits /\ Equal(C, k, l)
        BY <3>1
      <3> HIDE DEF k
      <3>4. k \in A <=> l \in A
        BY ONLY <3>2, <3>3, l \in Lits, EqualRight
      <3>. QED
        BY <3>4 DEF k
    <2>. QED
      BY <2>1, <2>2
  <1>. QED
    BY <1>4, <1>5, <1>6, <1>7, <1>8, <1>9 DEF Renames

\* The literals that keep their name, the assignments that respect the names,
\* and the clauses with a literal that has another name.
Named(r)          == {l \in Lits : r[l] = l}
Respects(A, r)    == \A l \in Lits : l \in A <=> r[l] \in A
Unnamed(F, red, r) == {c \in Of(F, red) : ~(c \subseteq Named(r))}

\* A formula that has been rewritten in part.
Renamed(F, act, r, G) ==
  /\ Follows(F, G)
  /\ \A A \in Lean(G) : Respects(A, r) => A \in Lean(F)
  /\ \A L : Uses(F, L) /\ act \subseteq L => Uses(G, L)
  /\ G.units \subseteq Named(r)

\* One clause.
LEMMA SubstituteMeans ==
  ASSUME NEW F \in Formulas, NEW act \in SUBSET Lits, NEW frozen, NEW r, Renames(F, act, frozen, r),
         NEW H, Renamed(F, act, r, H), NEW c \in AllClauses(F), NEW red \in BOOLEAN,
         NEW G, G = substitute_clause(H, r, c, red)
  PROVE  /\ Renamed(F, act, r, G) /\ (H.unsat => G.unsat)
         /\ ~G.unsat => \A kind \in BOOLEAN :
              \A d \in Unnamed(G, kind, r) : d \in Unnamed(H, kind, r) /\ (kind = red => d # c)
PROOF
  <1> DEFINE e == {r[l] : l \in Remaining(H, c)} \ Negated(H.units)
             gone == fixedTrue(H, c) \/ e \cap H.units # {} \/ e \cap Negated(e) # {}
             K == Deleted(H, c, red)
             M == new_clause(K, e, red)
  <1>0. /\ H \in Formulas /\ H.units \in SUBSET Lits /\ H.unsat \in BOOLEAN
        /\ DbModels(F) \subseteq DbModels(H) /\ Follows(F, H)
        /\ c \in SUBSET Lits /\ IsClause(c)
    BY FormulaParts DEF Renamed, Follows
  <1>r. /\ \A l \in Lits : r[l] \in Lits /\ r[-l] = -r[l] /\ r[r[l]] = r[l]
        /\ \A l \in Lits : l \notin act => r[l] = l
        /\ \A l \in act : r[l] \in act
        /\ \A l \in Lits : -l \in Lits /\ -(-l) = l
    BY Literal DEF Renames
  <1>m. \A A \in DbModels(F) : A \in DbModels(H) /\ A \in Assignments /\ H.units \subseteq A
                               /\ Respects(A, r) /\ c \cap A # {}
    <2> SUFFICES ASSUME NEW A \in DbModels(F)
                 PROVE  A \in DbModels(H) /\ A \in Assignments /\ H.units \subseteq A
                               /\ Respects(A, r) /\ c \cap A # {}
      OBVIOUS
    <2>1. A \in DbModels(H)
      BY <1>0
    <2>2. A \in Assignments /\ H.units \subseteq A
      <3>1. H \in Dbs
        BY <1>0, FormulaParts
      <3>. QED
        BY <2>1, <3>1, DbModel
    <2>3. c \cap A # {}
      <3>1. F \in Dbs /\ AllClauses(F) = F.irr \cup F.red
        BY FormulaParts
      <3>. QED
        BY <3>1, DbModel
    <2>4. Respects(A, r)
      BY DEF Respects, Renames
    <2>. QED
      BY <2>1, <2>2, <2>3, <2>4
  <1>c. \A l \in e : l \in Lits /\ r[l] = l /\ \E k \in c : l = r[k]
    BY <1>0, <1>r DEF Remaining
  <1>w. Without(H, c, red, K)
    BY <1>0, DeletedShape
  <1>l. ASSUME NEW A \in Assignments, H.units \subseteq A, Respects(A, r), gone \/ e \cap A # {}
        PROVE  c \cap A # {}
    <2>0. \A l \in Lits : l \in A <=> -l \notin A
      BY Opposite
    <2>1. CASE fixedTrue(H, c)
      BY <1>l, <2>1 DEF fixedTrue
    <2>2. CASE e \cap A # {}
      BY <1>0, <1>c, <1>l, <2>2 DEF Respects
    <2>3. CASE e \cap H.units # {}
      BY <1>l, <2>2, <2>3
    <2>4. CASE e \cap Negated(e) # {}
      <3>1. PICK l \in e : -l \in e
        <4>1. e \in SUBSET Lits
          BY <1>c
        <4> HIDE DEF e
        <4>. QED
          BY <2>4, <4>1, NegatedMember
      <3> HIDE DEF e
      <3>2. e \cap A # {}
        BY <1>c, <2>0, <3>1
      <3>. QED
        BY <2>2, <3>2
    <2> HIDE DEF e
    <2>. QED
      BY <1>l, <2>1, <2>2, <2>3, <2>4
  <1>k. /\ H.unsat => K.unsat
        /\ \/ Renamed(F, act, r, K)
           \/ \E A \in Lean(K) : Respects(A, r) /\ ~red /\ c \cap A = {}
    <2>1. Follows(F, K)
      BY <1>0, <1>w, FollowsTrans DEF Without
    <2>2. K.units \subseteq Named(r) /\ (H.unsat => K.unsat)
      BY <1>w DEF Without, Renamed
    <2>3. \A L : Uses(F, L) /\ act \subseteq L => Uses(K, L)
      BY <1>w DEF Without, Renamed
    <2> HIDE DEF K
    <2>4. ASSUME ~ \E A \in Lean(K) : Respects(A, r) /\ ~red /\ c \cap A = {},
                 NEW A \in Lean(K), Respects(A, r)
          PROVE  A \in Lean(F)
      <3>1. A \in Lean(H)
        BY <1>w, <2>4 DEF Without, Lean
      <3>. QED
        BY <2>4, <3>1 DEF Renamed
    <2>. QED
      BY <2>1, <2>2, <2>3, <2>4 DEF Renamed
  <1>1. CASE H.unsat \/ \A l \in c : r[l] = l
    <2>1. G = H
      BY <1>1 DEF substitute_clause
    <2>2. ~G.unsat => c \subseteq Named(r)
      BY <1>0, <1>1, <2>1 DEF Named
    <2>. QED
      BY <2>1, <2>2 DEF Unnamed
  <1>2. CASE ~(H.unsat \/ \A l \in c : r[l] = l) /\ gone
    <2>1. G = K
      BY <1>2 DEF substitute_clause
    <2>2. \A A \in Lean(K) : Respects(A, r) => c \cap A # {}
      BY <1>l, <1>w, <1>2 DEF Lean, Without
    <2>3. \A kind \in BOOLEAN : \A d \in Of(K, kind) : d \in Of(H, kind) /\ (kind = red => d # c)
      BY <1>w DEF Without, Of
    <2> HIDE DEF K, e, gone
    <2>. QED
      BY <1>k, <2>1, <2>2, <2>3 DEF Unnamed
  <1>3. CASE ~(H.unsat \/ \A l \in c : r[l] = l) /\ ~gone /\ e = c
    <2>1. G = H
      BY <1>3 DEF substitute_clause
    <2>2. c \subseteq Named(r)
      BY <1>c, <1>3 DEF Named
    <2>. QED
      BY <2>1, <2>2 DEF Unnamed
  <1>4. CASE ~(H.unsat \/ \A l \in c : r[l] = l) /\ ~gone /\ e # c
    <2>1. G = M
      BY <1>4 DEF substitute_clause
    <2>2. IsClause(e) /\ e \subseteq Named(r)
      BY <1>c, <1>4 DEF IsClause, Named
    <2>3. ASSUME NEW A \in DbModels(F) PROVE e \cap A # {}
      <3>1. PICK l \in c : l \in A
        BY <1>m
      <3>2. A \in Assignments /\ H.units \subseteq A /\ l \in Lits /\ r[l] \in A
        BY <1>m, <1>0, <3>1 DEF Respects
      <3>3. l \notin Negated(H.units) /\ r[l] \notin Negated(H.units)
        BY <3>1, <3>2, Opposite
      <3>4. r[l] \in e
        BY <3>1, <3>3 DEF Remaining
      <3>. QED
        BY <3>2, <3>4
    <2>4. K \in Formulas
      BY <1>w DEF Without
    <2>5. \A A \in Lean(H) : A \in Assignments /\ H.units \subseteq A
      BY DEF Lean
    <2> HIDE DEF e, K, gone
    <2>6. /\ M \in Formulas /\ K.units \subseteq M.units
          /\ K.unsat => M.unsat
          /\ \A A \in DbModels(K) : e \cap A # {} => A \in DbModels(M)
          /\ \A A \in Lean(M) : A \in Lean(K) /\ (~red => e \cap A # {})
          /\ \A L : K.units \subseteq L /\ e \subseteq L => M.units \subseteq L
          /\ \A d \in M.irr : (d = e /\ ~red) \/ d \in K.irr
          /\ \A d \in M.red : (d = e /\ red) \/ d \in K.red
      <3>1. Newer(K, e, red, M)
        BY <2>2, <2>4, NewerRight
      <3> HIDE DEF M
      <3>. QED
        BY <3>1 DEF Newer
    <2> HIDE DEF M
    <2>7. Follows(F, M)
      <3>1. DbModels(F) \subseteq DbModels(K) /\ (F.unsat => K.unsat) /\ F.units \subseteq K.units
        BY <1>0, <1>w, FollowsTrans DEF Without, Follows
      <3>. QED
        BY <2>3, <2>6, <3>1 DEF Follows
    <2>8. ASSUME NEW A \in Lean(M), Respects(A, r) PROVE A \in Lean(F)
      <3>1. A \in Lean(K) /\ (~red => e \cap A # {})
        BY <2>6
      <3>2. A \in Assignments /\ H.units \subseteq A /\ ~H.unsat /\ \A d \in K.irr : d \cap A # {}
        BY <1>w, <3>1 DEF Lean, Without
      <3>3. ~red => c \cap A # {}
        BY <1>l, <2>8, <3>1, <3>2
      <3>4. A \in Lean(H)
        BY <1>w, <3>2, <3>3 DEF Lean, Without
      <3>. QED
        BY <2>8, <3>4 DEF Renamed
    <2>9. ASSUME NEW L, Uses(F, L), act \subseteq L PROVE Uses(M, L)
      <3>1. Uses(H, L) /\ Uses(K, L)
        BY <1>w, <2>9 DEF Without, Renamed
      <3>2. e \subseteq L
        <4>1. c \subseteq L
          BY <2>9 DEF Uses
        <4>2. \A k \in c : r[k] \in L
          BY <1>0, <1>r, <2>9, <4>1
        <4>. QED
          BY <1>c, <4>2
      <3>. QED
        BY <2>6, <3>1, <3>2 DEF Uses, AllClauses
    <2>10. M.units \subseteq Named(r)
      BY <1>w, <2>2, <2>6 DEF Without, Renamed
    <2>11. \A kind \in BOOLEAN : \A d \in Of(M, kind) :
             d = e \/ (d \in Of(H, kind) /\ (kind = red => d # c))
      <3>1. /\ \A d \in K.irr : d \in H.irr /\ (~red => d # c)
            /\ \A d \in K.red : d \in H.red /\ (red => d # c)
        BY <1>w DEF Without
      <3>2. \A d \in Of(M, TRUE) : d = e \/ (d \in Of(H, TRUE) /\ (red => d # c))
        BY <2>6, <3>1 DEF Of
      <3>3. \A d \in Of(M, FALSE) : d = e \/ (d \in Of(H, FALSE) /\ (~red => d # c))
        BY <2>6, <3>1 DEF Of
      <3>. QED
        BY <3>2, <3>3
    <2>. QED
      BY <1>4, <2>1, <2>2, <2>7, <2>8, <2>9, <2>10, <2>11 DEF Renamed, Unnamed
  <1> HIDE DEF e, gone
  <1>. QED
    BY <1>1, <1>2, <1>3, <1>4

-----------------------------------------------------------------------------
\* The states of the substitution in a sequence of clauses.
LEMMA SubstituteTurns ==
  ASSUME NEW r, NEW red, NEW G, NEW C, Listed(C) \in Seq(Clauses),
         NEW T, G \in T, \A y \in T, i \in 1..Len(Listed(C)) : substitute_clause(y, r, Listed(C)[i], red) \in T
  PROVE  \E f : /\ f[0] = G
                /\ \A i \in 1..Len(Listed(C)) : f[i] = substitute_clause(f[i - 1], r, Listed(C)[i], red)
                /\ substitute_clauses(G, r, C, red) = f[Len(Listed(C))]
                /\ \A i \in 0..Len(Listed(C)) : f[i] \in T
PROOF
  <1> DEFINE n == Len(Listed(C))
             start == G
             Body(g, i) == IF i = 0 THEN start ELSE substitute_clause(g[i - 1], r, Listed(C)[i], red)
             chosen == CHOOSE g : g = [i \in 0..n |-> Body(g, i)]
             step == [p \in Nat \X T |-> IF p[1] \in 1..n
                 THEN substitute_clause(p[2], r, Listed(C)[p[1]], red) ELSE p[2]]
  <1>0. n \in Nat
    OBVIOUS
  <1>1. start \in T /\ \A y \in T, i \in 1..n : substitute_clause(y, r, Listed(C)[i], red) \in T
    OBVIOUS
  <1>2. substitute_clauses(G, r, C, red) = chosen[n]
    BY DEF substitute_clauses, Folded
  <1>3. \A g : Body(g, 0) = start /\ \A i \in 1..n : Body(g, i) = substitute_clause(g[i - 1], r, Listed(C)[i], red)
    BY <1>0
  <1> HIDE DEF n, start, Body
  <1>4. step \in [Nat \X T -> T]
    BY <1>0, <1>1
  <1>5. PICK f : IsRun(T, start, step, n, f)
    <2> HIDE DEF step
    <2>. QED
      BY <1>0, <1>1, <1>4, LoopRuns
  <1>6. ASSUME NEW i \in 1..n PROVE f[i] = substitute_clause(f[i - 1], r, Listed(C)[i], red)
    <2>1. i \in Nat /\ i - 1 \in 0..n
      BY <1>0
    <2>2. f[i - 1] \in T /\ f[i] = step[<<i, f[i - 1]>>]
      BY <1>5, <2>1 DEF IsRun
    <2>3. step[<<i, f[i - 1]>>] = substitute_clause(f[i - 1], r, Listed(C)[i], red)
      BY <2>1, <2>2
    <2>. QED
      BY <2>2, <2>3
  <1>7. \A i \in 0..n : f[i] = Body(f, i)
    <2> SUFFICES ASSUME NEW i \in 0..n PROVE f[i] = Body(f, i)
      OBVIOUS
    <2>1. i = 0 \/ i \in 1..n
      BY <1>0
    <2>2. f[0] = start
      BY <1>5 DEF IsRun
    <2>. QED
      BY <1>3, <1>6, <2>1, <2>2
  <1>8. f = [i \in 0..n |-> Body(f, i)]
    BY <1>5, <1>7 DEF IsRun
  <1>9. chosen = [i \in 0..n |-> Body(chosen, i)]
    BY <1>8
  <1>10. \A i \in 0..n : chosen[i] = Body(chosen, i)
    <2> HIDE DEF chosen
    <2>. QED
      BY <1>9
  <1> HIDE DEF chosen
  <1>11. chosen[0] = start /\ \A i \in 1..n : chosen[i] = substitute_clause(chosen[i - 1], r, Listed(C)[i], red)
    BY <1>0, <1>3, <1>10
  <1>12. \A i \in 1..n : chosen[i - 1] \in T => chosen[i] \in T
    BY <1>1, <1>11
  <1>13. \A i \in 0..n : chosen[i] \in T
    BY <1>0, <1>1, <1>11, <1>12, RunInd
  <1> DEFINE Has(g) == /\ g[0] = G
                       /\ \A i \in 1..Len(Listed(C)) : g[i] = substitute_clause(g[i - 1], r, Listed(C)[i], red)
                       /\ substitute_clauses(G, r, C, red) = g[Len(Listed(C))]
                       /\ \A i \in 0..Len(Listed(C)) : g[i] \in T
  <1>14. Has(chosen)
    BY <1>2, <1>11, <1>13 DEF n, start
  <1>15. \E g : Has(g)
    <2> HIDE DEF Has
    <2>. QED
      BY ONLY <1>14
  <1>. QED
    BY ONLY <1>15 DEF Has


\* There are finitely many clauses.
LEMMA FiniteClausesIn ==
  ASSUME NEW C \in SUBSET Clauses
  PROVE  IsFiniteSet(C)
PROOF
  <1>1. IsFiniteSet(Lits)
    BY OneLiteral
  <1>2. IsFiniteSet(SUBSET Lits)
    BY <1>1, FS_SUBSET
  <1>. QED
    BY <1>2, FS_Subset DEF Clauses

\* What the loop over the clauses of one kind makes of a formula.
SubstitutedIn(F, act, r, C, red, H, G) ==
  /\ Renamed(F, act, r, G) /\ (H.unsat => G.unsat)
  /\ ~G.unsat => \A kind \in BOOLEAN :
       \A d \in Unnamed(G, kind, r) : d \in Unnamed(H, kind, r) /\ (kind = red => d \notin C)

\* Substituting in a set of clauses, one after the other, loses none of them.
LEMMA SubstitutedRight ==
  ASSUME NEW F \in Formulas, NEW act \in SUBSET Lits, NEW frozen, NEW r, Renames(F, act, frozen, r),
         NEW H, Renamed(F, act, r, H), NEW C, C \subseteq AllClauses(F), NEW red \in BOOLEAN
  PROVE  SubstitutedIn(F, act, r, C, red, H, substitute_clauses(H, r, C, red))
PROOF
  <1> DEFINE s == Listed(C)
             G == substitute_clauses(H, r, C, red)
             n == Len(s)
             T == {K \in Formulas : Renamed(F, act, r, K)}
  <1>0. s \in Seq(C) /\ n \in Nat /\ \A c \in C : \E i \in 1..n : s[i] = c
    <2>1. C \in SUBSET Clauses
      BY FormulaParts DEF Clauses
    <2>2. IsFiniteSet(C)
      BY <2>1, FiniteClausesIn
    <2>3. s \in Seq(C) /\ \A x \in C : \E i \in 1..Len(s) : s[i] = x
      BY <2>2, ListedRight
    <2>. QED
      BY <2>3
  <1>1. \A i \in 1..n : s[i] \in C /\ s[i] \in AllClauses(F)
    BY <1>0
  <1>c. s \in Seq(Clauses)
    <2>1. C \subseteq Clauses
      BY FormulaParts DEF Clauses
    <2>. QED
      BY <1>0, <2>1
  <1>2. H \in T
    BY DEF Renamed, Follows
  <1>3. ASSUME NEW y \in T, NEW i \in 1..n PROVE substitute_clause(y, r, s[i], red) \in T
    <2> DEFINE z == substitute_clause(y, r, s[i], red)
    <2>1. s[i] \in AllClauses(F) /\ Renamed(F, act, r, y)
      BY <1>1
    <2>2. Renamed(F, act, r, z)
      BY <2>1, SubstituteMeans
    <2> HIDE DEF z
    <2>. QED
      BY <2>2 DEF Renamed, Follows, z
  <1> HIDE DEF T
  <1> HIDE DEF G
  <1>4. \E f : /\ f[0] = H
               /\ \A i \in 1..Len(Listed(C)) : f[i] = substitute_clause(f[i - 1], r, Listed(C)[i], red)
               /\ substitute_clauses(H, r, C, red) = f[Len(Listed(C))]
               /\ \A i \in 0..Len(Listed(C)) : f[i] \in T
    <2>1. \A y \in T, i \in 1..Len(Listed(C)) : substitute_clause(y, r, Listed(C)[i], red) \in T
      BY <1>3
    <2>. QED
      BY ONLY <1>2, <2>1, <1>c, SubstituteTurns
  <1>5. \E f : /\ f[0] = H
               /\ \A i \in 1..n : f[i] = substitute_clause(f[i - 1], r, s[i], red)
               /\ G = f[n]
               /\ \A i \in 0..n : f[i] \in T
    BY ONLY <1>4 DEF G, n, s
  <1> HIDE DEF s, n, G
  <1>p. PICK f : /\ f[0] = H
                 /\ \A i \in 1..n : f[i] = substitute_clause(f[i - 1], r, s[i], red)
                 /\ G = f[n]
                 /\ \A i \in 0..n : f[i] \in T
    BY ONLY <1>5
  <1> DEFINE P(i) ==
        /\ H.unsat => f[i].unsat
        /\ ~f[i].unsat => \A kind \in BOOLEAN :
             \A d \in Unnamed(f[i], kind, r) : d \in Unnamed(H, kind, r) /\ (kind = red => \A j \in 1..i : d # s[j])
  <1>t. \A i \in 0..n : f[i] \in T
    BY ONLY <1>p
  <1>6. P(0)
    BY <1>p
  <1>7. ASSUME NEW i \in 1..n, P(i - 1) PROVE P(i)
    <2> DEFINE K == f[i - 1]
               L == f[i]
    <2>1. K \in T /\ L = substitute_clause(K, r, s[i], red) /\ s[i] \in AllClauses(F)
      <3>1. i - 1 \in 0..n
        BY <1>0
      <3>. QED
        BY <1>1, <1>p, <3>1
    <2>2. Renamed(F, act, r, K)
      BY <2>1 DEF T
    <2>3. \A j \in 1..i : j = i \/ j \in 1..(i - 1)
      BY <1>0
    <2> DEFINE c == s[i]
    <2>h. c \in AllClauses(F) /\ L = substitute_clause(K, r, c, red)
      BY <2>1
    <2> HIDE DEF K, L, c
    <2>4. /\ (K.unsat => L.unsat)
          /\ ~L.unsat => \A kind \in BOOLEAN :
               \A d \in Unnamed(L, kind, r) : d \in Unnamed(K, kind, r) /\ (kind = red => d # c)
      BY <2>2, <2>h, SubstituteMeans
    <2>5. /\ (H.unsat => K.unsat)
          /\ ~K.unsat => \A kind \in BOOLEAN :
             \A d \in Unnamed(K, kind, r) : d \in Unnamed(H, kind, r) /\ (kind = red => \A j \in 1..(i - 1) : d # s[j])
      BY <1>7 DEF K
    <2>6. (H.unsat => L.unsat)
      BY <2>4, <2>5
    <2>7. ASSUME ~L.unsat, NEW kind \in BOOLEAN, NEW d \in Unnamed(L, kind, r)
          PROVE  d \in Unnamed(H, kind, r) /\ (kind = red => \A j \in 1..i : d # s[j])
      <3>1. d \in Unnamed(K, kind, r) /\ (kind = red => d # c) /\ ~K.unsat
        BY <2>4, <2>7
      <3>2. d \in Unnamed(H, kind, r) /\ (kind = red => \A j \in 1..(i - 1) : d # s[j])
        BY <2>5, <2>7, <3>1
      <3>3. kind = red => \A j \in 1..i : d # s[j]
        BY <2>3, <3>1, <3>2 DEF c
      <3>. QED
        BY <3>2, <3>3
    <2>. QED
      BY <2>6, <2>7 DEF L
  <1>8. \A i \in 0..n : P(i)
    <2> DEFINE Right == {i \in Nat : i \in 0..n => P(i)}
    <2>1. 0 \in Right
      BY <1>6
    <2>2. ASSUME NEW i \in Nat, i \in Right PROVE i + 1 \in Right
      <3>1. i + 1 \in Nat
        OBVIOUS
      <3>2. ASSUME i + 1 \in 0..n PROVE P(i + 1)
        <4>1. i \in 0..n /\ i + 1 \in 1..n /\ (i + 1) - 1 = i
          BY <1>0, <3>2
        <4>2. P((i + 1) - 1)
          BY <2>2, <4>1
        <4> HIDE DEF P
        <4>. QED
          BY <1>7, <4>1, <4>2
      <3>. QED
        BY <3>1, <3>2
    <2> HIDE DEF Right
    <2>3. \A i \in Nat : i \in Right
      BY <2>1, <2>2, NatInd
    <2> HIDE DEF P
    <2>. QED
      BY <1>0, <2>3 DEF Right
  <1>n. n \in 0..n
    BY <1>0
  <1>9. P(n)
    <2> HIDE DEF P
    <2>. QED
      BY ONLY <1>n, <1>8
  <1>10. Renamed(F, act, r, G)
    <2>1. f[n] \in T
      BY ONLY <1>n, <1>t
    <2>. QED
      BY <1>p, <2>1 DEF T
  <1>11. ~G.unsat => \A kind \in BOOLEAN :
           \A d \in Unnamed(G, kind, r) : d \in Unnamed(H, kind, r) /\ (kind = red => d \notin C)
    BY <1>0, <1>p, <1>9
  <1>12. SubstitutedIn(F, act, r, C, red, H, G)
    BY <1>p, <1>9, <1>10, <1>11 DEF SubstitutedIn
  <1>. QED
    BY ONLY <1>12 DEF G, s

-----------------------------------------------------------------------------
\* The variables that get another name, and their entries.
Renaming(act, r) == {v \in Vars : v \in act /\ r[v] # v}
Swaps(v, r)      == {Pushed({-v}, {-v, r[v]}), Pushed({v}, {v, -r[v]})}

\* The list of the renamed variables has each of them.
LEMMA RenamingsRight ==
  ASSUME NEW act, NEW r
  PROVE  /\ Renamings(act, r) \in Seq(Renaming(act, r))
         /\ ToSet(Renamings(act, r)) = Renaming(act, r)
PROOF
  <1> DEFINE V == {v \in Vars : v \in act /\ r[v] # v}
             s == Renamings(act, r)
  <1>1. V \in SUBSET Nat /\ IsFiniteSet(V)
    <2>1. IsFiniteSet(Vars) /\ V \in SUBSET Vars /\ Vars \in SUBSET Nat
      BY NAssumption, FS_Interval DEF Vars
    <2> HIDE DEF V
    <2>2. IsFiniteSet(V)
      BY <2>1, FS_Subset
    <2>. QED
      BY <2>1, <2>2
  <1>2. s = Sorted(V, LAMBDA v, w : v < w)
    BY DEF Renamings
  <1> HIDE DEF s, V
  <1>3. s \in Seq(V) /\ \A x \in V : \E i \in 1..Len(s) : s[i] = x
    BY ONLY <1>1, <1>2, SortedVarsRight
  <1>4. ToSet(s) = V
    BY <1>3 DEF ToSet
  <1>. QED
    BY <1>3, <1>4 DEF V, s, Renaming

EntriesFor(act, r, pushed) ==
  /\ pushed \in Seq(Entries)
  /\ \A p \in Places(pushed) : \E v \in Renaming(act, r) : pushed[p] \in Swaps(v, r)
  /\ \A v \in Renaming(act, r) : \A e \in Swaps(v, r) : \E p \in Places(pushed) : pushed[p] = e
  /\ \A v \in Renaming(act, r) : \A e \in Swaps(v, r) : IsClause(e.clause)

\* The two entries of each renamed variable say that it equals its representative.
LEMMA EquivalencesRight ==
  ASSUME NEW act \in SUBSET Lits, NEW r \in [Lits -> Lits],
         \A l \in Lits : r[-l] = -r[l] /\ r[r[l]] = r[l],
         NEW gone, gone = Renamings(act, r), NEW pushed, pushed = Equivalences(gone, r)
  PROVE  EntriesFor(act, r, pushed)
PROOF
  <1> DEFINE V == Renaming(act, r)
             ss == [i \in 1..Len(gone) |->
                      LET v == gone[i] IN <<Pushed({-v}, {-v, r[v]}), Pushed({v}, {v, -r[v]})>>]
  <1>0. gone \in Seq(V) /\ ToSet(gone) = V
    BY RenamingsRight
  <1>l. \A v \in V : v \in Lits /\ -v \in Lits /\ r[v] \in Lits /\ -r[v] \in Lits /\ v # -v
                     /\ r[v] # v /\ r[v] # -v
    <2> SUFFICES ASSUME NEW v \in V
                 PROVE  v \in Lits /\ -v \in Lits /\ r[v] \in Lits /\ -r[v] \in Lits /\ v # -v
                        /\ r[v] # v /\ r[v] # -v
      OBVIOUS
    <2>1. v \in Lits /\ r[v] # v
      BY VariableOf DEF Renaming, Vars, Lits
    <2>2. -v \in Lits /\ r[v] \in Lits /\ -r[v] \in Lits /\ v # -v /\ -(-v) = v
      BY <2>1, Literal
    <2>3. r[v] # -v
      <3> SUFFICES ASSUME r[v] = -v PROVE FALSE
        OBVIOUS
      <3>1. r[r[v]] = -r[v]
        BY <2>1
      <3>2. r[r[v]] = r[v]
        BY <2>1
      <3>. QED
        BY <2>2, <3>1, <3>2
    <2>. QED
      BY <2>1, <2>2, <2>3
  <1>1. \A v \in V : /\ Pushed({-v}, {-v, r[v]}) \in Entries
                     /\ Pushed({v}, {v, -r[v]}) \in Entries
    <2> SUFFICES ASSUME NEW v \in V
                 PROVE  /\ Pushed({-v}, {-v, r[v]}) \in Entries
                        /\ Pushed({v}, {v, -r[v]}) \in Entries
      OBVIOUS
    <2>1. /\ {-v} \in SUBSET Lits /\ {-v, r[v]} \in Clauses
          /\ {v} \in SUBSET Lits /\ {v, -r[v]} \in Clauses
      BY <1>l DEF Clauses
    <2>2. -v \notin Negated({-v}) /\ v \notin Negated({v})
      <3>1. v \in Int /\ v # -v /\ -(-v) = v
        BY <1>l, Literal
      <3>. QED
        BY <3>1 DEF Negated
    <2>3. {-v} \cap Negated({-v}) = {} /\ {v} \cap Negated({v}) = {}
      BY <2>2
    <2>4. Pushed({-v}, {-v, r[v]}) \in Entries
      BY <2>1, <2>3 DEF Pushed, Entries
    <2>5. Pushed({v}, {v, -r[v]}) \in Entries
      BY <2>1, <2>3 DEF Pushed, Entries
    <2>. QED
      BY <2>4, <2>5
  <1>2. ASSUME NEW v \in V, NEW e \in Swaps(v, r) PROVE IsClause(e.clause)
    <2>1. e.clause = {-v, r[v]} \/ e.clause = {v, -r[v]}
      BY DEF Swaps, Pushed
    <2>2. /\ v \in Lits /\ -v \in Lits /\ r[v] \in Lits /\ -r[v] \in Lits /\ v # -v
          /\ r[v] # v /\ r[v] # -v /\ -(-v) = v /\ -(-r[v]) = r[v] /\ r[v] # -r[v]
      BY <1>l, Literal
    <2>3. /\ {-v, r[v]} \in SUBSET Lits /\ {v, -r[v]} \in SUBSET Lits
          /\ \A x \in {-v, r[v]} : -x \notin {-v, r[v]}
          /\ \A x \in {v, -r[v]} : -x \notin {v, -r[v]}
      BY <2>2
    <2>4. e.clause \in SUBSET Lits /\ \A x \in e.clause : -x \notin e.clause
      BY <2>1, <2>3
    <2>5. \A x \in e.clause : x \notin Negated(e.clause)
      BY <2>4, NegatedMember
    <2>. QED
      BY <2>4, <2>5 DEF IsClause
  <1>3. \A i \in 1..Len(gone) : gone[i] \in V
    BY <1>0
  <1>4. ss \in Seq(Seq(Entries)) /\ Len(ss) = Len(gone)
    <2>1. \A v \in V : <<Pushed({-v}, {-v, r[v]}), Pushed({v}, {v, -r[v]})>> \in Seq(Entries)
      BY <1>1
    <2>2. \A i \in 1..Len(gone) : ss[i] \in Seq(Entries)
      BY <1>3, <2>1
    <2>3. Len(gone) \in Nat
      BY <1>0
    <2>4. ss = [i \in 1..Len(gone) |-> ss[i]]
      OBVIOUS
    <2> HIDE DEF ss
    <2>. QED
      BY ONLY <2>2, <2>3, <2>4
  <1>5. \A i \in 1..Len(gone) : ToSet(ss[i]) = Swaps(gone[i], r)
    <2> SUFFICES ASSUME NEW i \in 1..Len(gone) PROVE ToSet(ss[i]) = Swaps(gone[i], r)
      OBVIOUS
    <2> DEFINE v == gone[i]
               a == Pushed({-v}, {-v, r[v]})
               b == Pushed({v}, {v, -r[v]})
    <2>1. ss[i] = <<a, b>> /\ Swaps(gone[i], r) = {a, b}
      BY DEF Swaps
    <2> HIDE DEF a, b
    <2>2. ToSet(<<a, b>>) = {a, b}
      BY DEF ToSet
    <2>. QED
      BY <2>1, <2>2
  <1>6. pushed = FlattenSeq(ss)
    BY DEF Equivalences
  <1> HIDE DEF ss
  <1>7. pushed \in Seq(Entries) /\ \A x : x \in ToSet(pushed) <=> \E i \in 1..Len(ss) : x \in ToSet(ss[i])
    BY <1>4, <1>6, FlattenRight
  <1>8. \A x : x \in ToSet(pushed) <=> \E v \in V : x \in Swaps(v, r)
    <2>1. \A v \in V : \E i \in 1..Len(gone) : gone[i] = v
      BY <1>0 DEF ToSet
    <2> HIDE DEF V
    <2>. QED
      BY <1>3, <1>4, <1>5, <1>7, <2>1
  <1>9. \A x : x \in ToSet(pushed) <=> \E p \in Places(pushed) : pushed[p] = x
    BY <1>7 DEF ToSet, Places
  <1>10. \A p \in Places(pushed) : \E v \in V : pushed[p] \in Swaps(v, r)
    BY <1>8, <1>9
  <1>11. \A v \in V : \A e \in Swaps(v, r) : \E p \in Places(pushed) : pushed[p] = e
    BY <1>8, <1>9
  <1>. QED
    BY <1>2, <1>7, <1>10, <1>11 DEF EntriesFor

\* The entries make up for the names that are lost.
LEMMA EquivalencesPushed ==
  ASSUME NEW F \in Formulas, NEW act \in SUBSET Lits, NEW frozen, NEW r, Renames(F, act, frozen, r),
         NEW pushed, pushed = Equivalences(Renamings(act, r), r)
  PROVE  Pushes(F, pushed, frozen)
PROOF
  <1> DEFINE V == Renaming(act, r)
  <1>0. /\ r \in [Lits -> Lits] /\ \A l \in Lits : r[-l] = -r[l] /\ r[r[l]] = r[l]
        /\ \A l \in Lits : vidx(l) \in frozen => r[l] = l
        /\ \A A \in DbModels(F) : \A l \in Lits : l \in A <=> r[l] \in A
    BY DEF Renames
  <1>1. /\ pushed \in Seq(Entries)
        /\ \A p \in Places(pushed) : \E v \in V : pushed[p] \in Swaps(v, r)
        /\ \A v \in V : \A e \in Swaps(v, r) : IsClause(e.clause)
    <2>1. EntriesFor(act, r, pushed)
      BY <1>0, EquivalencesRight
    <2>. QED
      BY <2>1, Zenon DEF EntriesFor
  <1>2. ASSUME NEW p \in Places(pushed)
        PROVE  /\ IsClause(pushed[p].clause)
               /\ \A A \in DbModels(F) : pushed[p].clause \cap A # {}
               /\ \A l \in pushed[p].witness : vidx(l) \notin frozen
    <2>1. PICK v \in V : pushed[p] \in Swaps(v, r)
      BY <1>1
    <2>2. /\ v \in Lits /\ r[v] # v /\ vidx(v) = v /\ vidx(-v) = v
      BY VariableOf DEF Renaming, Vars, Lits
    <2>3. v \notin frozen
      BY <1>0, <2>2
    <2>4. \/ pushed[p].clause = {-v, r[v]} /\ pushed[p].witness = {-v}
          \/ pushed[p].clause = {v, -r[v]} /\ pushed[p].witness = {v}
      BY <2>1 DEF Swaps, Pushed
    <2>5. ASSUME NEW A \in DbModels(F) PROVE pushed[p].clause \cap A # {}
      <3>1. A \in Assignments
        BY FormulaParts, DbModel
      <3>2. r[v] \in Lits /\ (v \in A <=> r[v] \in A) /\ (v \in A <=> -v \notin A) /\ (r[v] \in A <=> -r[v] \notin A)
        BY <1>0, <2>2, <3>1, Opposite
      <3>. QED
        BY <2>4, <3>2
    <2>6. \A l \in pushed[p].witness : vidx(l) \notin frozen
      BY <2>2, <2>3, <2>4
    <2>. QED
      BY <1>1, <2>1, <2>5, <2>6
  <1>. QED
    BY <1>1, <1>2 DEF Pushes

\* Replaying them gives each renamed variable the value of its representative.
LEMMA EquivalencesKept ==
  ASSUME NEW F \in Formulas, NEW act \in SUBSET Lits, NEW frozen, NEW r, Renames(F, act, frozen, r),
         NEW pushed, pushed = Equivalences(Renamings(act, r), r),
         NEW G, ~G.unsat => UsesIrr(G, Named(r)),
         \A A \in Lean(G) : Respects(A, r) => A \in Lean(F)
  PROVE  Kept(F, pushed, G)
PROOF
  <1> DEFINE V == Renaming(act, r)
             M == Lean(G)
  <1>0. /\ r \in [Lits -> Lits] /\ \A l \in Lits : r[-l] = -r[l] /\ r[r[l]] = r[l]
        /\ \A l \in Lits : l \notin act => r[l] = l
        /\ \A l \in Lits : -l \in Lits /\ -(-l) = l
    BY Literal DEF Renames
  <1>1. /\ pushed \in Seq(Entries)
        /\ \A p \in Places(pushed) : \E v \in V : pushed[p] \in Swaps(v, r)
        /\ \A v \in V : \A e \in Swaps(v, r) : \E p \in Places(pushed) : pushed[p] = e
    <2>1. EntriesFor(act, r, pushed)
      BY <1>0, EquivalencesRight
    <2>. QED
      BY <2>1, Zenon DEF EntriesFor
  <1>v. \A v \in V : v \in Lits /\ -v \in Lits /\ r[v] # v /\ r[-v] # -v /\ r[v] \in Lits /\ -r[v] \in Lits
    <2> SUFFICES ASSUME NEW v \in V
                 PROVE  v \in Lits /\ -v \in Lits /\ r[v] # v /\ r[-v] # -v /\ r[v] \in Lits /\ -r[v] \in Lits
      OBVIOUS
    <2>1. v \in Lits /\ r[v] # v
      BY VariableOf DEF Renaming, Vars, Lits
    <2>. QED
      BY <1>0, <2>1
  <1>2. ASSUME NEW A \in M, NEW v \in V, NEW l \in {v, -v} PROVE (A \ {-l}) \cup {l} \in M
    <2> DEFINE B == (A \ {-l}) \cup {l}
    <2>1. A \in Assignments /\ ~G.unsat /\ G.units \subseteq A /\ \A c \in G.irr : c \cap A # {}
      BY DEF Lean
    <2>2. l \in Lits /\ r[l] # l /\ r[-l] # -l /\ -l \in Lits
      BY <1>0, <1>v
    <2>3. B \in Assignments
      <3> DEFINE e == Pushed({l}, {l})
      <3>1. e \in Entries /\ e.witness = {l}
        <4>1. l \notin Negated({l})
          BY <2>2, Literal DEF Negated
        <4>2. {l} \cap Negated({l}) = {} /\ {l} \in SUBSET Lits /\ {l} \in Clauses
          BY <2>2, <4>1 DEF Clauses
        <4>. QED
          BY <4>2 DEF Pushed, Entries
      <3> HIDE DEF e
      <3>2. Flipped(e, A) = B
        BY <2>2, <3>1, FlippedOne
      <3>3. Flipped(e, A) \in Assignments
        BY <2>1, <3>1, FlippedAssignment
      <3>. QED
        BY <3>2, <3>3
    <2>4. \A k \in Named(r) : k \in A <=> k \in B
      BY <2>2 DEF Named
    <2>5. G.units \subseteq Named(r) /\ \A c \in G.irr : c \subseteq Named(r)
      BY <2>1 DEF UsesIrr
    <2> HIDE DEF B
    <2>6. G.units \subseteq B
      BY <2>1, <2>4, <2>5
    <2>7. \A c \in G.irr : c \cap B # {}
      BY <2>1, <2>4, <2>5
    <2>8. B \in M
      BY <2>1, <2>3, <2>6, <2>7 DEF Lean
    <2>. QED
      BY <2>8 DEF B
  <1>3. ASSUME NEW j \in Places(pushed) PROVE Repairs(M, pushed, j)
    <2> SUFFICES ASSUME NEW A \in Left(M, pushed, j), pushed[j].clause \cap A = {}
                 PROVE  Flipped(pushed[j], A) \in Left(M, pushed, j)
      BY DEF Repairs
    <2>1. PICK v \in V : pushed[j] \in Swaps(v, r)
      BY <1>1
    <2>2. A \in M /\ A \in Assignments
      BY DEF Left, Lean
    <2>3. PICK l \in {v, -v} : pushed[j].witness = {l} /\ pushed[j].clause = {l, -r[l]}
      <3>1. \/ pushed[j].clause = {-v, r[v]} /\ pushed[j].witness = {-v}
            \/ pushed[j].clause = {v, -r[v]} /\ pushed[j].witness = {v}
        BY <2>1 DEF Swaps, Pushed
      <3>2. r[v] = -r[-v]
        BY <1>0, <1>v
      <3>. QED
        BY <3>1, <3>2
    <2> DEFINE B == (A \ {-l}) \cup {l}
    <2>4. /\ l \in Lits /\ -l \in Lits /\ r[l] \in Lits /\ r[l] # l /\ r[l] # -l /\ l # -l
          /\ -(-l) = l /\ r[-l] = -r[l]
      <3>1. l \in Lits /\ r[l] # l
        BY <1>0, <1>v
      <3>2. r[l] # -l
        <4> SUFFICES ASSUME r[l] = -l PROVE FALSE
          OBVIOUS
        <4>1. r[r[l]] = r[l] /\ r[-l] = -r[l] /\ r[l] = -l /\ -(-l) = l
          BY <1>0, <3>1
        <4>. QED
          BY <3>1, <4>1
      <3>. QED
        BY <1>0, <3>1, <3>2, Literal
    <2>5. Flipped(pushed[j], A) = B
      <3>1. Negated({l}) = {-l}
        BY DEF Negated
      <3>. QED
        BY <2>3, <3>1 DEF Flipped
    <2>6. B \in M
      BY <1>2, <2>2
    <2>7. l \in B /\ -r[l] \notin A /\ r[l] \in A /\ r[l] \in B
      <3>1. -r[l] \notin A
        BY <2>3
      <3>2. r[l] \in A
        BY <2>2, <2>4, <3>1, Opposite
      <3>. QED
        BY <2>4, <3>1, <3>2
    <2>8. ASSUME NEW k \in Places(pushed), k > j PROVE pushed[k].clause \cap B # {}
      <3>1. PICK w \in V : pushed[k] \in Swaps(w, r)
        BY <1>1
      <3>2. PICK m \in {w, -w} : pushed[k].clause = {m, -r[m]}
        <4>1. \/ pushed[k].clause = {-w, r[w]}
              \/ pushed[k].clause = {w, -r[w]}
          BY <3>1 DEF Swaps, Pushed
        <4>2. r[w] = -r[-w]
          BY <1>0, <1>v
        <4>. QED
          BY <4>1, <4>2
      <3>3. m \in Lits /\ r[m] \in Lits /\ r[-m] = -r[m] /\ -m \in Lits /\ -r[m] \in Lits /\ r[-r[m]] = -r[m]
        <4>1. m \in Lits /\ r[m] \in Lits /\ r[-m] = -r[m] /\ -m \in Lits /\ -r[m] \in Lits
          BY <1>0, <1>v
        <4>2. r[-r[m]] = -r[r[m]] /\ r[r[m]] = r[m]
          BY <1>0, <4>1
        <4>. QED
          BY <4>1, <4>2
      <3>4. pushed[k].clause \cap A # {}
        BY <2>8 DEF Left
      <3>5. CASE m = l
        BY <2>7, <3>2, <3>5
      <3>6. CASE m = -l
        <4>1. -r[m] = r[l]
          BY <1>0, <2>4, <3>6
        <4>. QED
          BY <2>7, <3>2, <4>1
      <3>7. CASE m # l /\ m # -l
        <4>1. -r[m] # -l
          BY <2>4, <3>3, <1>0, <1>v
        <4>2. \A x \in {m, -r[m]} : x \in A => x \in B
          BY <3>7, <4>1
        <4>. QED
          BY <3>2, <3>4, <4>2
      <3>. QED
        BY <3>5, <3>6, <3>7
    <2> HIDE DEF B
    <2>. QED
      BY <2>5, <2>6, <2>8 DEF Left
  <1>4. ASSUME NEW A \in Left(M, pushed, 0) PROVE A \in Lean(F)
    <2>1. A \in M /\ A \in Assignments
      BY DEF Left, Lean
    <2>2. \A v \in V : \A e \in Swaps(v, r) : e.clause \cap A # {}
      <3>1. \A k \in Places(pushed) : pushed[k].clause \cap A # {}
        BY DEF Left, Places
      <3>. QED
        BY <1>1, <3>1
    <2>3. \A v \in V : {-v, r[v]} \cap A # {} /\ {v, -r[v]} \cap A # {}
      BY <2>2 DEF Swaps, Pushed
    <2>o. \A l \in Lits : l \in A <=> -l \notin A
      BY <2>1, Opposite
    <2>4. \A v \in V : v \in A <=> r[v] \in A
      BY <1>v, <2>3, <2>o
    <2>5. ASSUME NEW l \in Lits PROVE l \in A <=> r[l] \in A
      <3>1. CASE r[l] = l
        BY <3>1
      <3>2. CASE r[l] # l
        <4>1. vidx(l) \in Vars /\ (l = vidx(l) \/ l = -vidx(l))
          BY VariableOf
        <4> DEFINE v == vidx(l)
        <4>2. v \in Lits /\ (r[v] # v)
          BY <1>0, <3>2, <4>1, VariableOf
        <4>3. v \in V
          BY <1>0, <4>1, <4>2 DEF Renaming
        <4> HIDE DEF v
        <4>4. l = v \/ l = -v
          BY <4>1 DEF v
        <4>5. r[-v] = -r[v]
          BY <1>0, <4>2
        <4>6. (v \in A <=> -v \notin A) /\ (r[v] \in A <=> -r[v] \notin A)
          BY <1>v, <2>o, <4>3
        <4>7. CASE l = v
          BY <2>4, <4>3, <4>7
        <4>8. CASE l = -v
          BY <2>4, <4>3, <4>5, <4>6, <4>8
        <4>. QED
          BY <4>4, <4>7, <4>8
      <3>. QED
        BY <3>1, <3>2
    <2>. QED
      BY <2>1, <2>5 DEF Respects
  <1> HIDE DEF M
  <1>. QED
    BY <1>3, <1>4 DEF Kept, M

-----------------------------------------------------------------------------
\* What a round of decompose makes of the formula.
Decomposed(F, act, away, d) ==
  /\ Follows(F, d.db)
  /\ \A L : Uses(F, L) /\ act \subseteq L => Uses(d.db, L)
  /\ Pushes(F, d.pushed, away) /\ Kept(F, d.pushed, d.db)
  /\ d.substituted \subseteq {v \in Vars : v \in act /\ v \notin away}
  /\ d.substituted # {} => ~d.db.unsat
  /\ \A L : Uses(F, L) /\ act \subseteq L /\ ~d.db.unsat
              => Uses(d.db, {l \in L : vidx(l) \notin d.substituted})

\* A literal equivalent to its negation.
LEMMA EquivalentOpposites ==
  ASSUME NEW F \in Formulas, NEW act \in SUBSET Lits, NEW l \in act, -l \in Component(F, act, l)
  PROVE  DbModels(F) = {}
PROOF
  <1> SUFFICES ASSUME NEW A \in DbModels(F) PROVE FALSE
    OBVIOUS
  <1> DEFINE C == Edges(F, act)
             k == -l
  <1>1. A \in Assignments /\ \A c \in C : c \cap A # {}
    BY DbModel, FormulaParts DEF Edges
  <1>2. l \in Lits /\ k \in Lits /\ Equal(C, k, l)
    BY Literal, ComponentIs
  <1>3. k \in A <=> l \notin A
    BY <1>1, <1>2, Opposite
  <1> HIDE DEF k, C
  <1>4. k \in A <=> l \in A
    BY ONLY <1>1, <1>2, EqualRight
  <1>. QED
    BY <1>3, <1>4

\* A round of decompose replaces literals by representatives, units aside.
THEOREM DecomposeMeans ==
  ASSUME NEW F \in Formulas, NEW act \in SUBSET Lits, NEW frozen, \A l \in act : -l \in act,
         \A l \in F.units : l \notin act,
         NEW d, d = decompose_round(F, act, frozen)
  PROVE  Decomposed(F, act, frozen, d)
PROOF
  <1> DEFINE r == [l \in Lits |-> repr(F, act, frozen, l)]
             gone == Renamings(act, r)
             pushed == Equivalences(gone, r)
             H == substitute_clauses(F, r, F.irr, FALSE)
             K == substitute_clauses(H, r, F.red, TRUE)
             G == IF K.units # F.units THEN propagate(K) ELSE K
             out == IF G.unsat THEN {} ELSE {v \in ToSet(gone) : {v, -v, r[v], -r[v]} \cap G.units = {}}
             E == [F EXCEPT !.unsat = TRUE]
  <1>0. /\ F \in Dbs /\ F.units \in SUBSET Lits /\ F.unsat \in BOOLEAN
        /\ F.irr \in SUBSET Clauses /\ F.red \in SUBSET Clauses
        /\ AllClauses(F) = F.irr \cup F.red
    BY FormulaParts
  <1>1. CASE \E l \in act : -l \in Component(F, act, l)
    <2>1. d = [db |-> E, pushed |-> <<>>, substituted |-> {}]
      BY <1>1 DEF decompose_round
    <2>2. E \in Dbs /\ E.irr = F.irr /\ E.red = F.red /\ E.units = F.units /\ E.unsat
      BY <1>0 DEF Dbs
    <2> HIDE DEF E
    <2>3. d.db = E /\ d.pushed = <<>> /\ d.substituted = {}
      BY <2>1
    <2>4. E \in Formulas
      BY <2>2, FormulaOf DEF Formulas, AllClauses
    <2>5. Follows(F, E)
      BY <1>1, <2>2, <2>4, EquivalentOpposites DEF Follows
    <2>6. \A L : Uses(F, L) => Uses(E, L)
      BY <2>2 DEF Uses, AllClauses
    <2>7. Lean(E) = {}
      BY <2>2 DEF Lean
    <2>8. Pushes(F, <<>>, frozen) /\ Kept(F, <<>>, E)
      <3>1. <<>> \in Seq(Entries) /\ Places(<<>>) = {}
        BY DEF Places
      <3>. QED
        BY <2>7, <3>1 DEF Pushes, Kept, Left
    <2>. QED
      BY <2>2, <2>3, <2>5, <2>6, <2>8 DEF Decomposed
  <1>2. CASE ~ \E l \in act : -l \in Component(F, act, l)
    <2>1. d = [db |-> G, pushed |-> pushed, substituted |-> out]
      BY <1>2, Zenon DEF decompose_round
    <2>g. G = IF K.units # F.units THEN propagate(K) ELSE K
      OBVIOUS
    <2>o. /\ out \subseteq ToSet(gone) /\ (out # {} => ~G.unsat)
      OBVIOUS
    <2>h. /\ H = substitute_clauses(F, r, F.irr, FALSE)
          /\ K = substitute_clauses(H, r, F.red, TRUE)
          /\ gone = Renamings(act, r) /\ pushed = Equivalences(Renamings(act, r), r)
      OBVIOUS
    <2> HIDE DEF H, K, G, out, pushed, gone
    <2>2. d.db = G /\ d.pushed = pushed /\ d.substituted = out
      BY <2>1
    <2>3. Renames(F, act, frozen, r)
      <3>1. r = [l \in Lits |-> repr(F, act, frozen, l)]
        OBVIOUS
      <3>2. \A l \in act : -l \notin Component(F, act, l)
        BY <1>2
      <3> HIDE DEF r
      <3>. QED
        BY <3>1, <3>2, ReprRenames
    <2> HIDE DEF r
    <2>4. /\ r \in [Lits -> Lits]
          /\ \A l \in Lits : /\ r[-l] = -r[l] /\ r[r[l]] = r[l]
                             /\ l \notin act => r[l] = l
                             /\ vidx(l) \in frozen => r[l] = l
                             /\ l \in act => r[l] \in act
      BY <2>3 DEF Renames
    <2>5. Renamed(F, act, r, F)
      <3>1. F.units \subseteq Named(r)
        BY <1>0, <2>4 DEF Named
      <3>. QED
        BY <3>1, RewrittenSame DEF Renamed
    <2>6. SubstitutedIn(F, act, r, F.irr, FALSE, F, H)
      <3>1. F.irr \subseteq AllClauses(F) /\ FALSE \in BOOLEAN
        BY <1>0
      <3>. QED
        BY <2>3, <2>5, <2>h, <3>1, SubstitutedRight
    <2>7. Renamed(F, act, r, H) /\ H \in Formulas
      BY <2>6 DEF SubstitutedIn, Renamed, Follows
    <2>8. SubstitutedIn(F, act, r, F.red, TRUE, H, K)
      <3>1. F.red \subseteq AllClauses(F) /\ TRUE \in BOOLEAN
        BY <1>0
      <3>. QED
        BY <2>3, <2>7, <2>h, <3>1, SubstitutedRight
    <2>9. Renamed(F, act, r, K) /\ K \in Formulas
      BY <2>8 DEF SubstitutedIn, Renamed, Follows
    <2>10. Rewritten(K, G)
      BY <2>9, <2>g, PropagateMeans, RewrittenSame
    <2>11. ~K.unsat => Uses(K, Named(r))
      <3> SUFFICES ASSUME ~K.unsat PROVE Uses(K, Named(r))
        OBVIOUS
      <3>1. ~H.unsat
        BY <2>8 DEF SubstitutedIn
      <3>2. \A kind \in BOOLEAN : \A c \in Unnamed(K, kind, r) :
              c \in Unnamed(H, kind, r) /\ (kind = TRUE => c \notin F.red)
        BY <2>8 DEF SubstitutedIn
      <3>3. \A kind \in BOOLEAN : \A c \in Unnamed(H, kind, r) :
              c \in Unnamed(F, kind, r) /\ (kind = FALSE => c \notin F.irr)
        BY <2>6, <3>1 DEF SubstitutedIn
      <3>4. Unnamed(K, TRUE, r) = {}
        BY <3>2, <3>3 DEF Unnamed, Of
      <3>5. Unnamed(K, FALSE, r) = {}
        BY <3>2, <3>3 DEF Unnamed, Of
      <3>6. \A c \in K.irr \cup K.red : c \subseteq Named(r)
        BY <3>4, <3>5 DEF Unnamed, Of
      <3>. QED
        BY <2>9, <3>6 DEF Renamed, Uses, AllClauses
    <2>12. ~G.unsat => Uses(G, Named(r))
      <3>1. ~G.unsat => ~K.unsat
        BY <2>10 DEF Rewritten, Follows
      <3>. QED
        BY <2>10, <2>11, <3>1 DEF Rewritten
    <2>13. Follows(F, G)
      BY <2>9, <2>10, FollowsTrans DEF Renamed, Rewritten
    <2>14. \A A \in Lean(G) : Respects(A, r) => A \in Lean(F)
      BY <2>9, <2>10 DEF Renamed, Rewritten
    <2>15. \A L : Uses(F, L) /\ act \subseteq L => Uses(G, L)
      BY <2>9, <2>10 DEF Renamed, Rewritten
    <2>16. Pushes(F, pushed, frozen)
      BY <2>3, <2>h, EquivalencesPushed
    <2>17. Kept(F, pushed, G)
      <3>1. ~G.unsat => UsesIrr(G, Named(r))
        BY <2>12 DEF Uses, UsesIrr, AllClauses
      <3>. QED
        BY ONLY F \in Formulas, act \in SUBSET Lits, <2>3, <2>h, <2>14, <3>1, EquivalencesKept
    <2>18. \A v \in out : v \in Vars /\ v \in act /\ r[v] # v /\ v \notin frozen
      <3> SUFFICES ASSUME NEW v \in out PROVE v \in Vars /\ v \in act /\ r[v] # v /\ v \notin frozen
        OBVIOUS
      <3>1. v \in ToSet(Renamings(act, r))
        BY <2>o, <2>h
      <3>2. v \in Renaming(act, r)
        BY <3>1, RenamingsRight
      <3>3. v \in Vars /\ v \in act /\ r[v] # v
        BY <3>2 DEF Renaming
      <3>4. v \in Lits /\ vidx(v) = v
        BY <3>3, VariableOf
      <3>. QED
        BY <2>4, <3>3, <3>4
    <2>19. ASSUME NEW L, Uses(F, L), act \subseteq L, ~G.unsat
           PROVE  Uses(G, {l \in L : vidx(l) \notin out})
      <3>1. Uses(G, L) /\ Uses(G, Named(r))
        BY <2>12, <2>15, <2>19
      <3>2. ASSUME NEW l \in Named(r) PROVE vidx(l) \notin out
        <4>1. l \in Lits /\ r[l] = l /\ (l = vidx(l) \/ l = -vidx(l)) /\ vidx(l) \in Lits
          BY VariableOf DEF Named
        <4>2. r[vidx(l)] = vidx(l)
          <5>1. CASE l = vidx(l)
            BY <4>1, <5>1
          <5>2. CASE l = -vidx(l)
            <6> DEFINE v == vidx(l)
            <6>1. -l = v /\ r[-l] = -r[l]
              BY <2>4, <4>1, <5>2, Literal
            <6>. QED
              BY <4>1, <6>1
          <5>. QED
            BY <4>1, <5>1, <5>2
        <4>. QED
          BY <2>18, <4>2
      <3>3. \A l \in L : l \in Named(r) => vidx(l) \notin out
        BY <3>2
      <3>. QED
        BY <3>1, <3>3 DEF Uses
    <2>. QED
      BY <2>2, <2>o, <2>13, <2>15, <2>16, <2>17, <2>18, <2>19 DEF Decomposed
  <1>. QED
    BY <1>1, <1>2
=============================================================================
