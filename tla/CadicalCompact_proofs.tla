----------------------- MODULE CadicalCompact_proofs -----------------------
(***************************************************************************)
(* Compaction keeps the meaning of the formula and the references to its   *)
(* variables, for every number of variables and every session.             *)
(***************************************************************************)
EXTENDS CadicalCompact, FiniteSetTheorems, WellFoundedInduction, SequenceTheorems, TLAPS

\* The literals of the internal variables.
ILits == {l \in (-max_var)..max_var : l # 0}

\* How many of the literals in s are of variable v.
Count(s, v) == Cardinality({l \in ToSet(s) : vidx(l) = v})
Numbered(v) == {e \in ExtVars : vidx(e2i[e]) = v}

\* The values of the variables.
CTyped ==
  /\ setup \in Setups
  /\ max_var \in 0..N
  /\ e2i \in [ExtVars -> (-max_var)..max_var]
  /\ i2e \in [1..N -> 0..ExtMax]
  /\ root \subseteq ILits
  /\ inactive \subseteq Vars
  /\ clauses \subseteq SUBSET ILits
  /\ frozentab \in [1..N -> Nat]
  /\ assumptions \in Seq(ILits)
  /\ given \subseteq SUBSET ExtLits
  /\ values \subseteq ExtLits
  /\ assumed \in Seq(ExtLits)
  /\ freezes \in [ExtVars -> Nat]

\* A variable that is not fixed and its external variable are each other's.
Paired ==
  /\ \A v \in Vars \ FixedVars : i2e[v] \in ExtVars /\ e2i[i2e[v]] = v
  /\ \A e \in ExtVars : e2i[e] # 0 /\ vidx(e2i[e]) \notin FixedVars => e2i[e] \in Vars /\ i2e[e2i[e]] = e

\* The fixed literals are those the user was told, and one per variable.
FixedRight ==
  /\ \A l \in root : -l \notin root
  /\ FixedVars \cap inactive = {}
  /\ \A elit \in ExtLits : elit \in values <=> internal(elit) \in root

\* The clauses without what is fixed, of active variables alone, are the
\* user's clauses.
ClausesSame ==
  /\ \A c \in clauses : \A l \in c : vidx(l) \notin inactive
  /\ {{external(l) : l \in c} : c \in Simplified(clauses, root)} = Simplified(given, values)

\* Every reference is counted, and a variable without a number has none.
Referenced ==
  /\ ToSet(assumptions) = {internal(elit) : elit \in ToSet(assumed)}
  /\ \A v \in Vars : frozentab[v] = Count(assumptions, v) + Total(freezes, ExtMax, Numbered(v))
  /\ \A v \in 1..N : v \notin Vars \/ v \in inactive => frozentab[v] = 0
  /\ \A e \in ExtVars : e2i[e] = 0 => freezes[e] = 0

CInv == CTyped /\ Paired /\ FixedRight /\ ClausesSame /\ Referenced
-----------------------------------------------------------------------------
(***************************************************************************)
(* Sums over tables.                                                       *)
(***************************************************************************)
\* Induction over the naturals, for a set in the place of a predicate.
LEMMA NatInd ==
  ASSUME NEW Good, 0 \in Good, \A n \in Nat : n \in Good => n + 1 \in Good
  PROVE  Nat \subseteq Good
PROOF
  <1> DEFINE Bad == Nat \ Good
             Less == {p \in Nat \X Nat : p[1] < p[2]}
  <1>1. IsWellFoundedOn(Less, Nat)
    BY NatLessThanWellFounded DEF OpToRel
  <1>2. SUFFICES ASSUME Bad # {} PROVE FALSE
    OBVIOUS
  <1>3. PICK n \in Bad : \A m \in Bad : <<m, n>> \notin Less
    BY <1>1, <1>2, WFMin
  <1>4. n # 0 /\ n - 1 \in Nat
    OBVIOUS
  <1>5. n - 1 \in Good
    <2>1. <<n - 1, n>> \in Less
      BY <1>4
    <2>. QED
      BY <1>3, <1>4, <2>1
  <1>. QED
    BY <1>4, <1>5

Part(t, S, i) == IF i \in S THEN t[i] ELSE 0
IsSum(t, S, n, f) == f \in [0..n -> Nat] /\ f[0] = 0 /\ \A i \in 1..n : f[i] = f[i - 1] + Part(t, S, i)

\* The sum exists and its steps are those of the loop.
LEMMA TotalRuns ==
  ASSUME NEW t, NEW S, NEW n \in Nat, \A i \in 1..n : t[i] \in Nat
  PROVE  \E f : IsSum(t, S, n, f) /\ Total(t, n, S) = f[n]
PROOF
  <1> DEFINE Good == {m \in Nat : m <= n => \E f : IsSum(t, S, m, f)}
             Body(g, i) == IF i = 0 THEN 0 ELSE g[i - 1] + Part(t, S, i)
             sum == CHOOSE g : g = [i \in 0..n |-> Body(g, i)]
  <1>1. 0 \in Good
    <2>1. IsSum(t, S, 0, [i \in 0..0 |-> 0])
      BY DEF IsSum
    <2>. QED
      BY <2>1
  <1>2. ASSUME NEW m \in Nat, m \in Good PROVE m + 1 \in Good
    <2> SUFFICES ASSUME m + 1 <= n PROVE \E f : IsSum(t, S, m + 1, f)
      OBVIOUS
    <2>1. PICK f : IsSum(t, S, m, f)
      BY <1>2
    <2> DEFINE g == [i \in 0..(m + 1) |-> IF i = m + 1 THEN f[m] + Part(t, S, m + 1) ELSE f[i]]
    <2>2. f \in [0..m -> Nat] /\ f[0] = 0 /\ \A i \in 1..m : f[i] = f[i - 1] + Part(t, S, i)
      BY <2>1 DEF IsSum
    <2>3. Part(t, S, m + 1) \in Nat
      BY DEF Part
    <2>4. g \in [0..(m + 1) -> Nat] /\ g[0] = 0 /\ g[m + 1] = g[m] + Part(t, S, m + 1)
      BY <2>2, <2>3
    <2>5. \A i \in 1..m : g[i] = f[i] /\ g[i - 1] = f[i - 1]
      OBVIOUS
    <2>6. \A i \in 1..(m + 1) : g[i] = g[i - 1] + Part(t, S, i)
      <3> SUFFICES ASSUME NEW i \in 1..(m + 1) PROVE g[i] = g[i - 1] + Part(t, S, i)
        OBVIOUS
      <3> HIDE DEF g
      <3>1. CASE i = m + 1
        BY <2>4, <3>1
      <3>2. CASE i \in 1..m
        BY <2>2, <2>5, <3>2
      <3>. QED
        BY <3>1, <3>2
    <2> HIDE DEF g
    <2>. QED
      BY <2>4, <2>6 DEF IsSum
  <1> HIDE DEF Good
  <1>3. Nat \subseteq Good
    BY <1>1, <1>2, NatInd
  <1>4. PICK f : IsSum(t, S, n, f)
    BY <1>3 DEF Good
  <1>5. f \in [0..n -> Nat] /\ f[0] = 0 /\ \A i \in 1..n : f[i] = f[i - 1] + Part(t, S, i)
    BY <1>4 DEF IsSum
  <1>6. f = [i \in 0..n |-> Body(f, i)]
    <2>1. \A i \in 0..n : f[i] = Body(f, i)
      BY <1>5
    <2> HIDE DEF Body
    <2>. QED
      BY <1>5, <2>1
  <1>7. sum = [i \in 0..n |-> Body(sum, i)]
    <2> HIDE DEF Body
    <2>. QED
      BY <1>6
  <1>8. sum[0] = 0 /\ \A i \in 1..n : sum[i] = sum[i - 1] + Part(t, S, i)
    <2>1. \A i \in 0..n : sum[i] = Body(sum, i)
      <3> HIDE DEF Body, sum
      <3>. QED
        BY <1>7
    <2> HIDE DEF sum
    <2>. QED
      BY <2>1
  <1>9. Total(t, n, S) = sum[n]
    BY DEF Total, Part
  <1> HIDE DEF sum
  <1> DEFINE Same == {m \in Nat : m <= n => sum[m] = f[m]}
  <1>10. 0 \in Same
    BY <1>5, <1>8
  <1>11. ASSUME NEW m \in Nat, m \in Same PROVE m + 1 \in Same
    <2> SUFFICES ASSUME m + 1 <= n PROVE sum[m + 1] = f[m + 1]
      OBVIOUS
    <2>1. m + 1 \in 1..n /\ (m + 1) - 1 = m /\ m <= n
      OBVIOUS
    <2>. QED
      BY <1>5, <1>8, <1>11, <2>1
  <1> HIDE DEF Same
  <1>12. Nat \subseteq Same
    BY <1>10, <1>11, NatInd
  <1>13. sum[n] = f[n]
    BY <1>12 DEF Same
  <1>. QED
    BY <1>4, <1>9, <1>13

\* The sum of one more number.
LEMMA TotalStep ==
  ASSUME NEW t, NEW S, NEW n \in Nat, \A i \in 1..n : t[i] \in Nat
  PROVE  /\ Total(t, n, S) \in Nat
         /\ n = 0 => Total(t, n, S) = 0
         /\ n > 0 => Total(t, n, S) = Total(t, n - 1, S) + Part(t, S, n)
PROOF
  <1>1. PICK f : IsSum(t, S, n, f) /\ Total(t, n, S) = f[n]
    BY TotalRuns
  <1>2. f \in [0..n -> Nat] /\ f[0] = 0 /\ \A i \in 1..n : f[i] = f[i - 1] + Part(t, S, i)
    BY <1>1 DEF IsSum
  <1>3. ASSUME n > 0 PROVE Total(t, n, S) = Total(t, n - 1, S) + Part(t, S, n)
    <2>1. n - 1 \in Nat /\ \A i \in 1..(n - 1) : t[i] \in Nat
      BY <1>3
    <2>2. PICK g : IsSum(t, S, n - 1, g) /\ Total(t, n - 1, S) = g[n - 1]
      BY <2>1, TotalRuns
    <2>3. g[0] = 0 /\ \A i \in 1..(n - 1) : g[i] = g[i - 1] + Part(t, S, i)
      BY <2>2 DEF IsSum
    <2> DEFINE Same == {m \in Nat : m <= n - 1 => f[m] = g[m]}
    <2>4. 0 \in Same
      BY <1>2, <2>3
    <2>5. ASSUME NEW m \in Nat, m \in Same PROVE m + 1 \in Same
      <3> SUFFICES ASSUME m + 1 <= n - 1 PROVE f[m + 1] = g[m + 1]
        OBVIOUS
      <3>1. m + 1 \in 1..n /\ m + 1 \in 1..(n - 1) /\ (m + 1) - 1 = m /\ m <= n - 1
        BY <1>3
      <3>. QED
        BY <1>2, <2>3, <2>5, <3>1
    <2> HIDE DEF Same
    <2>6. Nat \subseteq Same
      BY <2>4, <2>5, NatInd
    <2>7. f[n - 1] = g[n - 1]
      BY <2>1, <2>6 DEF Same
    <2>8. n \in 1..n
      BY <1>3
    <2>. QED
      BY <1>1, <1>2, <2>2, <2>7, <2>8
  <1>4. Total(t, n, S) \in Nat
    BY <1>1, <1>2
  <1>5. n = 0 => Total(t, n, S) = 0
    BY <1>1, <1>2
  <1>. QED
    BY <1>3, <1>4, <1>5

\* Sums of the same numbers are equal.
LEMMA TotalSame ==
  ASSUME NEW t, NEW u, NEW S, NEW T, NEW n \in Nat,
         \A i \in 1..n : t[i] \in Nat /\ u[i] \in Nat /\ Part(t, S, i) = Part(u, T, i)
  PROVE  Total(t, n, S) = Total(u, n, T)
PROOF
  <1> DEFINE Good == {m \in Nat : m <= n => Total(t, m, S) = Total(u, m, T)}
  <1>1. 0 \in Good
    <2>1. Total(t, 0, S) = 0 /\ Total(u, 0, T) = 0
      BY TotalStep
    <2>. QED
      BY <2>1
  <1>2. ASSUME NEW m \in Nat, m \in Good PROVE m + 1 \in Good
    <2> SUFFICES ASSUME m + 1 <= n PROVE Total(t, m + 1, S) = Total(u, m + 1, T)
      OBVIOUS
    <2>1. m <= n /\ m + 1 \in 1..n /\ m + 1 > 0 /\ (m + 1) - 1 = m /\ m + 1 \in Nat
      OBVIOUS
    <2>2. \A i \in 1..(m + 1) : t[i] \in Nat /\ u[i] \in Nat
      BY <2>1
    <2>3. /\ Total(t, m + 1, S) = Total(t, m, S) + Part(t, S, m + 1)
          /\ Total(u, m + 1, T) = Total(u, m, T) + Part(u, T, m + 1)
      BY <2>1, <2>2, TotalStep
    <2>. QED
      BY <1>2, <2>1, <2>3
  <1> HIDE DEF Good
  <1>3. Nat \subseteq Good
    BY <1>1, <1>2, NatInd
  <1>. QED
    BY <1>3 DEF Good

\* Nothing to add up.
LEMMA TotalNone ==
  ASSUME NEW t, NEW S, NEW n \in Nat, \A i \in 1..n : t[i] \in Nat,
         \A i \in 1..n : i \in S => t[i] = 0
  PROVE  Total(t, n, S) = 0
PROOF
  <1> DEFINE Good == {m \in Nat : m <= n => Total(t, m, S) = 0}
  <1>1. 0 \in Good
    <2>1. Total(t, 0, S) = 0
      BY TotalStep
    <2>. QED
      BY <2>1
  <1>2. ASSUME NEW m \in Nat, m \in Good PROVE m + 1 \in Good
    <2> SUFFICES ASSUME m + 1 <= n PROVE Total(t, m + 1, S) = 0
      OBVIOUS
    <2>1. m <= n /\ m + 1 \in 1..n /\ m + 1 > 0 /\ (m + 1) - 1 = m /\ m + 1 \in Nat
      OBVIOUS
    <2>2. \A i \in 1..(m + 1) : t[i] \in Nat
      BY <2>1
    <2>3. Total(t, m + 1, S) = Total(t, m, S) + Part(t, S, m + 1)
      BY <2>1, <2>2, TotalStep
    <2>4. Part(t, S, m + 1) = 0
      BY <2>1 DEF Part
    <2>. QED
      BY <1>2, <2>1, <2>3, <2>4
  <1> HIDE DEF Good
  <1>3. Nat \subseteq Good
    BY <1>1, <1>2, NatInd
  <1>. QED
    BY <1>3 DEF Good

\* A sum is no less than each of its numbers.
LEMMA TotalAtLeast ==
  ASSUME NEW t, NEW S, NEW n \in Nat, \A i \in 1..n : t[i] \in Nat,
         NEW p \in 1..n, p \in S
  PROVE  t[p] <= Total(t, n, S)
PROOF
  <1> DEFINE Good == {m \in Nat : p <= m /\ m <= n => t[p] <= Total(t, m, S)}
  <1>1. 0 \in Good
    OBVIOUS
  <1>2. ASSUME NEW m \in Nat, m \in Good PROVE m + 1 \in Good
    <2> SUFFICES ASSUME p <= m + 1, m + 1 <= n PROVE t[p] <= Total(t, m + 1, S)
      OBVIOUS
    <2>1. m <= n /\ m + 1 \in 1..n /\ m + 1 > 0 /\ (m + 1) - 1 = m /\ m + 1 \in Nat
      OBVIOUS
    <2>2. (\A i \in 1..(m + 1) : t[i] \in Nat) /\ (\A i \in 1..m : t[i] \in Nat)
      BY <2>1
    <2>3. Total(t, m + 1, S) = Total(t, m, S) + Part(t, S, m + 1) /\ Total(t, m, S) \in Nat
      BY <2>1, <2>2, TotalStep
    <2>4. Part(t, S, m + 1) \in Nat /\ t[p] \in Nat
      BY <2>1, <2>2 DEF Part
    <2>5. CASE p = m + 1
      <3>1. Part(t, S, m + 1) = t[p]
        BY <2>5 DEF Part
      <3>. QED
        BY <2>3, <2>4, <3>1
    <2>6. CASE p <= m
      <3>1. t[p] <= Total(t, m, S)
        BY <1>2, <2>1, <2>6
      <3>. QED
        BY <2>3, <2>4, <3>1
    <2>. QED
      BY <2>5, <2>6
  <1> HIDE DEF Good
  <1>3. Nat \subseteq Good
    BY <1>1, <1>2, NatInd
  <1>. QED
    BY <1>3 DEF Good

\* One number of the table grows.
LEMMA TotalMore ==
  ASSUME NEW t, NEW u, NEW S, NEW n \in Nat, NEW p, NEW x \in Nat,
         \A i \in 1..n : t[i] \in Nat /\ u[i] = t[i] + (IF i = p THEN x ELSE 0)
  PROVE  Total(u, n, S) = Total(t, n, S) + (IF p \in S /\ p \in 1..n THEN x ELSE 0)
PROOF
  <1> DEFINE Extra(m) == IF p \in S /\ p \in 1..m THEN x ELSE 0
             Good == {m \in Nat : m <= n => Total(u, m, S) = Total(t, m, S) + Extra(m)}
  <1>1. 0 \in Good
    <2>1. Total(t, 0, S) = 0 /\ Total(u, 0, S) = 0
      BY TotalStep
    <2>. QED
      BY <2>1
  <1>2. ASSUME NEW m \in Nat, m \in Good PROVE m + 1 \in Good
    <2> SUFFICES ASSUME m + 1 <= n
                 PROVE  Total(u, m + 1, S) = Total(t, m + 1, S) + Extra(m + 1)
      OBVIOUS
    <2>1. m <= n /\ m + 1 \in 1..n /\ m + 1 > 0 /\ (m + 1) - 1 = m /\ m + 1 \in Nat
      OBVIOUS
    <2>2. \A i \in 1..(m + 1) : t[i] \in Nat /\ u[i] \in Nat
      BY <2>1
    <2>3. /\ Total(t, m + 1, S) = Total(t, m, S) + Part(t, S, m + 1)
          /\ Total(u, m + 1, S) = Total(u, m, S) + Part(u, S, m + 1)
          /\ Total(t, m, S) \in Nat
      BY <2>1, <2>2, TotalStep
    <2>4. Part(t, S, m + 1) \in Nat /\ Extra(m) \in Nat
      BY <2>1, <2>2 DEF Part
    <2>5. Part(u, S, m + 1) + Extra(m) = Part(t, S, m + 1) + Extra(m + 1)
      <3>1. u[m + 1] = t[m + 1] + (IF m + 1 = p THEN x ELSE 0)
        BY <2>1
      <3>2. CASE m + 1 = p
        <4>1. p \notin 1..m /\ p \in 1..(m + 1)
          BY <3>2
        <4>. QED
          BY <2>1, <2>2, <3>1, <3>2, <4>1 DEF Part
      <3>3. CASE m + 1 # p
        <4>1. p \in 1..m <=> p \in 1..(m + 1)
          BY <3>3
        <4>. QED
          BY <2>1, <2>2, <3>1, <3>3, <4>1 DEF Part
      <3>. QED
        BY <3>2, <3>3
    <2>6. Total(u, m, S) = Total(t, m, S) + Extra(m)
      BY <1>2, <2>1
    <2>7. Part(u, S, m + 1) \in Nat /\ Extra(m + 1) \in Nat
      BY <2>1, <2>2 DEF Part
    <2> HIDE DEF Extra
    <2>. QED
      BY <2>3, <2>4, <2>5, <2>6, <2>7
  <1> HIDE DEF Good
  <1>3. Nat \subseteq Good
    BY <1>1, <1>2, NatInd
  <1>. QED
    BY <1>3 DEF Good

\* What p maps to v, and to a member of M.
Group(p, k, v) == {i \in 1..k : p[i] = v}
Groups(p, k, M) == {i \in 1..k : p[i] \in M}

\* Sums of sums: the table is first added up over the preimages of p.
LEMMA TotalGroups ==
  ASSUME NEW t, NEW p, NEW c, NEW n \in Nat, NEW k \in Nat, NEW M \in SUBSET (1..n),
         \A i \in 1..k : t[i] \in Nat, \A v \in 1..n : c[v] \in Nat,
         \A v \in M : c[v] = Total(t, k, Group(p, k, v))
  PROVE  Total(c, n, M) = Total(t, k, Groups(p, k, M))
PROOF
  <1> DEFINE G(m) == [v \in 1..n |-> Total(t, m, {i \in 1..k : p[i] = v})]
             All == {i \in 1..k : p[i] \in M}
             Good == {m \in Nat : m <= k => Total(G(m), n, M) = Total(t, m, All)}
  <1>1. ASSUME NEW m \in Nat, m <= k, NEW S
        PROVE  /\ Total(t, m, S) \in Nat
               /\ m = 0 => Total(t, m, S) = 0
               /\ m > 0 => Total(t, m, S) = Total(t, m - 1, S) + Part(t, S, m)
    <2>1. \A i \in 1..m : t[i] \in Nat
      BY <1>1
    <2>. QED
      BY <2>1, TotalStep
  <1>2. 0 \in Good
    <2>1. \A v \in 1..n : G(0)[v] = 0
      BY <1>1
    <2>2. Total(t, 0, All) = 0
      BY <1>1
    <2>3. Total(G(0), n, M) = 0
      <3> HIDE DEF G
      <3>. QED
        BY <2>1, TotalNone
    <2> HIDE DEF G, All
    <2>. QED
      BY <2>2, <2>3
  <1>3. ASSUME NEW m \in Nat, m \in Good PROVE m + 1 \in Good
    <2> SUFFICES ASSUME m + 1 <= k PROVE Total(G(m + 1), n, M) = Total(t, m + 1, All)
      OBVIOUS
    <2>1. m <= k /\ m + 1 \in 1..k /\ m + 1 > 0 /\ (m + 1) - 1 = m /\ m + 1 \in Nat
      OBVIOUS
    <2> DEFINE x == t[m + 1]
               q == p[m + 1]
    <2>2. x \in Nat
      BY <2>1
    <2>3. \A v \in 1..n : G(m)[v] \in Nat /\ G(m + 1)[v] = G(m)[v] + (IF v = q THEN x ELSE 0)
      <3> SUFFICES ASSUME NEW v \in 1..n
                   PROVE  G(m)[v] \in Nat /\ G(m + 1)[v] = G(m)[v] + (IF v = q THEN x ELSE 0)
        OBVIOUS
      <3> DEFINE P == {i \in 1..k : p[i] = v}
      <3>1. G(m)[v] = Total(t, m, P) /\ G(m + 1)[v] = Total(t, m + 1, P)
        OBVIOUS
      <3>2. Total(t, m, P) \in Nat /\ Total(t, m + 1, P) = Total(t, m, P) + Part(t, P, m + 1)
        <4> HIDE DEF P
        <4>. QED
          BY <1>1, <2>1
      <3>3. Part(t, P, m + 1) = IF v = q THEN x ELSE 0
        BY <2>1 DEF Part
      <3> HIDE DEF P, G, x, q
      <3>. QED
        BY <3>1, <3>2, <3>3
    <2>4. Total(G(m + 1), n, M) = Total(G(m), n, M) + (IF q \in M /\ q \in 1..n THEN x ELSE 0)
      <3> DEFINE g == G(m)
                 h == G(m + 1)
      <3>1. \A v \in 1..n : g[v] \in Nat /\ h[v] = g[v] + (IF v = q THEN x ELSE 0)
        BY <2>3
      <3> HIDE DEF g, h, x, q
      <3>2. Total(h, n, M) = Total(g, n, M) + (IF q \in M /\ q \in 1..n THEN x ELSE 0)
        BY <2>2, <3>1, TotalMore
      <3>. QED
        BY <3>2 DEF g, h
    <2>5. Total(t, m + 1, All) = Total(t, m, All) + Part(t, All, m + 1)
      <3> HIDE DEF All
      <3>. QED
        BY <1>1, <2>1
    <2>6. Part(t, All, m + 1) = IF q \in M /\ q \in 1..n THEN x ELSE 0
      BY <2>1 DEF Part
    <2>7. Total(G(m), n, M) = Total(t, m, All)
      <3> HIDE DEF G, All
      <3>. QED
        BY <1>3, <2>1
    <2> HIDE DEF G, All, x, q
    <2>. QED
      BY <2>4, <2>5, <2>6, <2>7
  <1>4. Total(G(k), n, M) = Total(t, k, All)
    <2> HIDE DEF Good
    <2>1. Nat \subseteq Good
      BY <1>2, <1>3, NatInd
    <2> HIDE DEF G, All
    <2>. QED
      BY <2>1 DEF Good
  <1>5. \A v \in 1..n : c[v] \in Nat /\ G(k)[v] \in Nat /\ Part(c, M, v) = Part(G(k), M, v)
    <2>1. \A v \in 1..n : G(k)[v] = Total(t, k, {i \in 1..k : p[i] = v}) /\ G(k)[v] \in Nat
      BY <1>1
    <2>2. \A v \in M : c[v] = Total(t, k, {i \in 1..k : p[i] = v})
      BY DEF Group
    <2> HIDE DEF G
    <2>. QED
      BY <2>1, <2>2 DEF Part
  <1>6. Total(c, n, M) = Total(G(k), n, M)
    <2> HIDE DEF G
    <2>. QED
      BY <1>5, TotalSame
  <1>7. All = Groups(p, k, M)
    BY DEF Groups
  <1> HIDE DEF All, G
  <1>. QED
    BY <1>4, <1>6, <1>7

-----------------------------------------------------------------------------
(***************************************************************************)
(* The mapper.                                                             *)
(***************************************************************************)
\* The variable of a literal.
LEMMA VidxRight ==
  ASSUME NEW l \in Int
  PROVE  /\ vidx(l) \in Nat /\ vidx(-l) = vidx(l) /\ (l = vidx(l) \/ l = -vidx(l))
         /\ vidx(l) = 0 <=> l = 0
         /\ l = Signed(vidx(l), l)
BY DEF vidx, Signed

\* Literals and their variables.
LEMMA ILiteral ==
  ASSUME max_var \in Nat, NEW l \in ILits
  PROVE  l \in Int /\ l # 0 /\ -l \in ILits /\ -l # l /\ -(-l) = l /\ vidx(l) \in Vars /\ vidx(-l) = vidx(l)
BY DEF ILits, Vars, vidx

\* The same for the user's literals.
LEMMA ExtLiteral ==
  ASSUME NEW l \in ExtLits
  PROVE  l \in Int /\ l # 0 /\ -l \in ExtLits /\ -l # l /\ -(-l) = l /\ vidx(l) \in ExtVars /\ vidx(-l) = vidx(l)
BY CompactAssumption DEF ExtLits, ExtVars, vidx

\* A sign put on a number.
LEMMA SignedRight ==
  ASSUME NEW x \in Int, NEW l \in Int
  PROVE  /\ Signed(x, l) \in Int /\ vidx(Signed(x, l)) = vidx(x)
         /\ (Signed(x, l) = 0 <=> x = 0)
         /\ l # 0 => Signed(x, -l) = -Signed(x, l)
PROOF
  <1>1. CASE l < 0
    <2>0. ~ (-l < 0)
      BY <1>1
    <2>1. Signed(x, l) = -x /\ Signed(x, -l) = x
      BY <1>1, <2>0 DEF Signed
    <2>. QED
      BY <2>1 DEF vidx
  <1>2. CASE l > 0
    <2>1. Signed(x, l) = x /\ Signed(x, -l) = -x
      BY <1>2 DEF Signed
    <2>. QED
      BY <2>1 DEF vidx
  <1>3. CASE l = 0
    <2>1. Signed(x, l) = x
      BY <1>3 DEF Signed
    <2>. QED
      BY <1>3, <2>1 DEF vidx
  <1>. QED
    BY <1>1, <1>2, <1>3

\* The fixed variables are variables, and the first of them is one.
LEMMA FirstFixed ==
  ASSUME max_var \in Nat, root \subseteq ILits
  PROVE  /\ FixedVars \subseteq Vars
         /\ root = {} <=> FixedVars = {}
         /\ root = {} => first_fixed = 0
         /\ root # {} => first_fixed \in FixedVars
PROOF
  <1>1. FixedVars \subseteq Vars
    BY ILiteral DEF FixedVars
  <1>2. ASSUME root # {} PROVE first_fixed \in FixedVars
    <2>1. FixedVars # {} /\ FixedVars \subseteq Nat
      BY <1>1, <1>2 DEF FixedVars, Vars
    <2> DEFINE Less == {p \in Nat \X Nat : p[1] < p[2]}
    <2>2. IsWellFoundedOn(Less, Nat)
      BY NatLessThanWellFounded DEF OpToRel
    <2>3. PICK v \in FixedVars : \A u \in FixedVars : <<u, v>> \notin Less
      BY <2>1, <2>2, WFMin
    <2>4. ASSUME NEW u \in FixedVars PROVE v <= u
      <3>1. u \in Nat /\ v \in Nat /\ <<u, v>> \notin Less
        BY <2>1, <2>3
      <3>. QED
        BY <3>1
    <2>5. Min(FixedVars) \in FixedVars
      BY <2>4 DEF Min
    <2>. QED
      BY <1>2, <2>5 DEF first_fixed
  <1>. QED
    BY <1>1, <1>2 DEF FixedVars, first_fixed

Rank(K, v) == Cardinality({u \in K : u <= v})

\* Counting the smaller ones numbers a set from one on.
LEMMA RankRight ==
  ASSUME NEW m \in Nat, NEW K \in SUBSET (1..m)
  PROVE  /\ Cardinality(K) \in 0..m
         /\ \A v \in K : Rank(K, v) \in 1..Cardinality(K)
         /\ \A u, v \in K : Rank(K, u) = Rank(K, v) => u = v
         /\ \A d \in 1..Cardinality(K) : \E v \in K : Rank(K, v) = d
PROOF
  <1> DEFINE Below(v) == {u \in K : u <= v}
             n == Cardinality(K)
             R == [v \in K |-> Rank(K, v)]
  <1>1. IsFiniteSet(1..m) /\ Cardinality(1..m) = m
    BY FS_Interval
  <1>2. IsFiniteSet(K) /\ n \in Nat /\ n <= m
    BY <1>1, FS_Subset, FS_CardinalityType
  <1>3. ASSUME NEW v \in K
        PROVE  IsFiniteSet(Below(v)) /\ Cardinality(Below(v)) \in Nat /\ Cardinality(Below(v)) <= n
    <2>1. Below(v) \in SUBSET K
      OBVIOUS
    <2> HIDE DEF Below
    <2>. QED
      BY <1>2, <2>1, FS_Subset, FS_CardinalityType
  <1>4. ASSUME NEW v \in K PROVE Cardinality(Below(v)) \in 1..n
    <2>1. Below(v) # {}
      OBVIOUS
    <2> HIDE DEF Below
    <2>2. Cardinality(Below(v)) # 0
      BY <1>3, <2>1, FS_EmptySet
    <2> HIDE DEF n
    <2>. QED
      BY <1>2, <1>3, <2>2
  <1>5. ASSUME NEW u \in K, NEW v \in K, u < v
        PROVE  Cardinality(Below(u)) < Cardinality(Below(v))
    <2>1. Below(u) \in SUBSET Below(v) /\ v \in Below(v) /\ v \notin Below(u)
      <3>1. \A w \in K : w \in Int
        OBVIOUS
      <3>2. \A w \in K : w <= u => w <= v
        BY <1>5, <3>1
      <3>3. v <= v /\ ~ (v <= u)
        BY <1>5, <3>1
      <3>. QED
        BY <3>2, <3>3
    <2> HIDE DEF Below
    <2>2. Cardinality(Below(u)) # Cardinality(Below(v)) /\ Cardinality(Below(u)) <= Cardinality(Below(v))
      BY <1>3, <2>1, FS_Subset
    <2>. QED
      BY <1>3, <2>2
  <1>6. \A v \in K : R[v] = Cardinality(Below(v)) /\ R[v] = Rank(K, v)
    BY DEF Rank
  <1>7. R \in [K -> 1..n]
    <2>1. \A v \in K : R[v] \in 1..n
      <3> HIDE DEF Below, n, R
      <3>. QED
        BY <1>4, <1>6
    <2>. QED
      BY <2>1
  <1>8. ASSUME NEW u \in K, NEW v \in K, R[u] = R[v] PROVE u = v
    <2>1. u \in Int /\ v \in Int
      OBVIOUS
    <2>2. Cardinality(Below(u)) = Cardinality(Below(v)) /\ Cardinality(Below(u)) \in Nat
      BY <1>3, <1>6, <1>8
    <2>3. ~ (u < v) /\ ~ (v < u)
      <3> HIDE DEF Below
      <3>. QED
        BY <1>5, <2>2
    <2>. QED
      BY <2>1, <2>3
  <1>9. R \in Injection(K, 1..n)
    BY <1>7, <1>8 DEF Injection, IsInjective
  <1>10. IsFiniteSet(1..n) /\ Cardinality(1..n) = n
    <2> HIDE DEF n
    <2>. QED
      BY <1>2, FS_Interval
  <1>11. R \in Surjection(K, 1..n)
    <2>1. Cardinality(K) = Cardinality(1..n)
      BY <1>10
    <2> HIDE DEF n
    <2>. QED
      BY <1>9, <1>10, <2>1, FS_Injection
  <1>12. \A d \in 1..n : \E v \in K : R[v] = d
    BY <1>11 DEF Surjection
  <1>. QED
    BY <1>2, <1>6, <1>7, <1>8, <1>12

\* The mapper numbers what is kept, and Source is its inverse.
LEMMA MapperRight ==
  ASSUME max_var \in Nat, root \subseteq ILits
  PROVE  /\ Kept \subseteq Vars /\ Active \subseteq Kept
         /\ root # {} => first_fixed \in Kept
         /\ new_max_var \in 0..max_var
         /\ \A v \in Kept : map_idx(v) \in 1..new_max_var /\ Source(map_idx(v)) = v
         /\ \A v : v \notin Kept => map_idx(v) = 0
         /\ \A u, v \in Kept : map_idx(u) = map_idx(v) => u = v
         /\ \A d \in 1..new_max_var : Source(d) \in Kept /\ map_idx(Source(d)) = d
PROOF
  <1>1. Kept \subseteq Vars /\ Active \subseteq Kept
    BY FirstFixed DEF Kept, Active
  <1>2. root # {} => first_fixed \in Kept
    BY FirstFixed DEF Kept, Vars
  <1>3. \A v \in Kept : map_idx(v) = Rank(Kept, v)
    BY DEF map_idx, Rank
  <1>4. /\ new_max_var \in 0..max_var
        /\ \A v \in Kept : Rank(Kept, v) \in 1..new_max_var
        /\ \A u, v \in Kept : Rank(Kept, u) = Rank(Kept, v) => u = v
        /\ \A d \in 1..new_max_var : \E v \in Kept : Rank(Kept, v) = d
    <2>1. Kept \in SUBSET (1..max_var)
      BY <1>1 DEF Vars
    <2>. QED
      BY <2>1, RankRight DEF new_max_var
  <1>5. \A u, v \in Kept : map_idx(u) = map_idx(v) => u = v
    BY <1>3, <1>4
  <1>6. \A v \in Kept : map_idx(v) \in 1..new_max_var
    BY <1>3, <1>4
  <1>7. \A v \in Kept : Source(map_idx(v)) = v
    BY <1>5 DEF Source
  <1>8. \A d \in 1..new_max_var : Source(d) \in Kept /\ map_idx(Source(d)) = d
    BY <1>3, <1>4 DEF Source
  <1>9. \A v : v \notin Kept => map_idx(v) = 0
    BY DEF map_idx
  <1>. QED
    BY <1>1, <1>2, <1>4, <1>5, <1>6, <1>7, <1>8, <1>9

\* The literal all fixed literals that are true become.
Top == IF first_fixed \in root THEN map_idx(first_fixed) ELSE -map_idx(first_fixed)

\* What the mapping of a literal needs to know about the variables.
Mappable ==
  /\ max_var \in Nat /\ root \subseteq ILits /\ inactive \subseteq Vars
  /\ \A l \in root : -l \notin root
  /\ FixedVars \cap inactive = {}

\* A fixed literal is true, or its negation is.
LEMMA FixedLiteral ==
  ASSUME Mappable, NEW l \in ILits
  PROVE  /\ vidx(l) \in FixedVars <=> (l \in root \/ -l \in root)
         /\ ~ (l \in root /\ -l \in root)
         /\ \/ vidx(l) \in Active /\ vidx(l) \notin FixedVars /\ vidx(l) \notin inactive
            \/ vidx(l) \in FixedVars /\ vidx(l) \notin Active /\ vidx(l) \notin inactive
            \/ vidx(l) \in inactive /\ vidx(l) \notin Active /\ vidx(l) \notin FixedVars
PROOF
  <1>1. max_var \in Nat /\ root \subseteq ILits /\ (\A k \in root : -k \notin root)
        /\ FixedVars \cap inactive = {}
    BY DEF Mappable
  <1>2. l \in Int /\ vidx(l) \in Vars /\ vidx(-l) = vidx(l) /\ -(-l) = l
    BY <1>1, ILiteral
  <1>3. ASSUME NEW k \in root, vidx(k) = vidx(l) PROVE l \in root \/ -l \in root
    <2>1. k \in Int
      BY <1>1, ILiteral
    <2>2. k = l \/ k = -l
      BY <1>2, <1>3, <2>1 DEF vidx
    <2>. QED
      BY <2>2
  <1>4. vidx(l) \in FixedVars <=> (l \in root \/ -l \in root)
    <2>1. ASSUME vidx(l) \in FixedVars PROVE l \in root \/ -l \in root
      BY <1>3, <2>1 DEF FixedVars
    <2>2. ASSUME l \in root \/ -l \in root PROVE vidx(l) \in FixedVars
      BY <1>2, <2>2 DEF FixedVars
    <2>. QED
      BY <2>1, <2>2
  <1>5. ~ (l \in root /\ -l \in root)
    BY <1>1
  <1>. QED
    BY <1>1, <1>2, <1>4, <1>5 DEF Active

\* What becomes of a literal that is active, fixed or of an inactive variable.
LEMMA MapLitRight ==
  ASSUME Mappable, NEW l \in ILits
  PROVE  /\ vidx(l) \in Active => /\ map_lit(l) = Signed(map_idx(vidx(l)), l)
                                  /\ vidx(map_lit(l)) = map_idx(vidx(l))
                                  /\ map_idx(vidx(l)) \in 1..new_max_var
         /\ l \in root => map_lit(l) = Top
         /\ -l \in root => map_lit(l) = -Top
         /\ vidx(l) \in inactive => map_lit(l) = 0
         /\ root # {} => vidx(Top) = map_idx(first_fixed) /\ Top \in Int /\ map_idx(first_fixed) \in 1..new_max_var
PROOF
  <1>1. max_var \in Nat /\ root \subseteq ILits
    BY DEF Mappable
  <1>2. l \in Int /\ vidx(l) \in Vars /\ l # 0
    BY <1>1, ILiteral
  <1> HIDE DEF Mappable
  <1>3. /\ Kept \subseteq Vars /\ Active \subseteq Kept
        /\ root # {} => first_fixed \in Kept
        /\ \A v \in Kept : map_idx(v) \in 1..new_max_var
        /\ \A v : v \notin Kept => map_idx(v) = 0
        /\ new_max_var \in 0..max_var
    BY <1>1, MapperRight
  <1>4. ASSUME vidx(l) \in Active
        PROVE  /\ map_lit(l) = Signed(map_idx(vidx(l)), l)
               /\ vidx(map_lit(l)) = map_idx(vidx(l))
               /\ map_idx(vidx(l)) \in 1..new_max_var
    <2>1. vidx(l) \notin FixedVars /\ vidx(l) \in Kept
      BY <1>3, <1>4, FixedLiteral
    <2>2. map_idx(vidx(l)) \in 1..new_max_var
      BY <1>3, <2>1
    <2>3. map_lit(l) = Signed(map_idx(vidx(l)), l)
      BY <2>1 DEF map_lit
    <2>4. vidx(map_idx(vidx(l))) = map_idx(vidx(l)) /\ map_idx(vidx(l)) \in Int
      BY <1>3, <2>2 DEF vidx
    <2>5. vidx(Signed(map_idx(vidx(l)), l)) = vidx(map_idx(vidx(l)))
      BY <1>2, <2>4, SignedRight
    <2>. QED
      BY <2>2, <2>3, <2>4, <2>5
  <1>5. ASSUME vidx(l) \in FixedVars
        PROVE  /\ l \in root => map_lit(l) = Top
               /\ -l \in root => map_lit(l) = -Top
    <2>1. root # {} /\ first_fixed \in FixedVars
      BY <1>1, <1>5, FirstFixed DEF FixedVars
    <2>2. first_fixed \in Vars /\ first_fixed \in Kept
      BY <1>3, <2>1
    <2>3. first_fixed \in ILits /\ vidx(first_fixed) = first_fixed /\ first_fixed > 0
      BY <1>1, <2>2 DEF Vars, ILits, vidx
    <2>4. map_idx(first_fixed) \in 1..new_max_var /\ map_idx(first_fixed) \in Int /\ map_idx(first_fixed) # 0
      BY <1>3, <2>2
    <2>5. ~ (l \in root /\ -l \in root) /\ (first_fixed \in root \/ -first_fixed \in root)
          /\ ~ (first_fixed \in root /\ -first_fixed \in root)
      BY <2>1, <2>3, FixedLiteral
    <2>6. CASE vidx(l) = first_fixed
      <3>1. map_lit(l) = Signed(map_idx(first_fixed), l)
        BY <2>4, <2>6 DEF map_lit
      <3>2. l = first_fixed \/ l = -first_fixed
        BY <1>2, <2>6 DEF vidx
      <3>3. CASE l = first_fixed
        <4>1. map_lit(l) = map_idx(first_fixed)
          <5>1. ~ (l < 0)
            BY <1>2, <2>3, <3>3
          <5>. QED
            BY <3>1, <5>1 DEF Signed
        <4>2. CASE l \in root
          BY <2>5, <3>3, <4>1, <4>2 DEF Top
        <4>3. CASE l \notin root
          <5>1. Top = -map_idx(first_fixed)
            BY <3>3, <4>3 DEF Top
          <5>. QED
            BY <2>4, <4>1, <4>3, <5>1
        <4>. QED
          BY <4>2, <4>3
      <3>4. CASE l = -first_fixed
        <4>1. map_lit(l) = -map_idx(first_fixed) /\ -l = first_fixed
          <5>1. l < 0 /\ -l = first_fixed
            BY <2>3, <3>4
          <5>. QED
            BY <3>1, <5>1 DEF Signed
        <4>2. CASE first_fixed \in root
          BY <2>5, <3>4, <4>1, <4>2 DEF Top
        <4>3. CASE first_fixed \notin root
          BY <2>5, <3>4, <4>1, <4>3 DEF Top
        <4>. QED
          BY <4>2, <4>3
      <3>. QED
        BY <3>2, <3>3, <3>4
    <2>7. CASE vidx(l) # first_fixed
      <3>1. vidx(l) \notin Active
        BY <1>5 DEF Active
      <3>2. vidx(l) \notin Kept
        BY <2>7, <3>1 DEF Kept
      <3>3. map_idx(vidx(l)) = 0
        BY <1>3, <3>2
      <3>4. map_lit(l) = IF (l \in root) = (first_fixed \in root)
                         THEN map_idx(first_fixed) ELSE -map_idx(first_fixed)
        BY <1>5, <3>3 DEF map_lit
      <3>5. CASE l \in root
        BY <2>5, <3>4, <3>5 DEF Top
      <3>6. CASE l \notin root /\ first_fixed \in root
        BY <3>4, <3>6 DEF Top
      <3>7. CASE l \notin root /\ first_fixed \notin root
        <4>1. map_lit(l) = map_idx(first_fixed) /\ Top = -map_idx(first_fixed)
          BY <3>4, <3>7 DEF Top
        <4>2. -Top = map_idx(first_fixed)
          BY <2>4, <4>1
        <4>. QED
          BY <3>7, <4>1, <4>2
      <3>. QED
        BY <3>5, <3>6, <3>7
    <2>. QED
      BY <2>6, <2>7
  <1>6. ASSUME vidx(l) \in inactive PROVE map_lit(l) = 0
    <2>1. vidx(l) \notin Active /\ vidx(l) \notin FixedVars
      BY <1>6, FixedLiteral
    <2>2. vidx(l) \notin Kept
      BY <1>1, <2>1, FirstFixed DEF Kept
    <2>3. map_idx(vidx(l)) = 0
      BY <1>3, <2>2
    <2>4. map_lit(l) = Signed(0, l)
      BY <2>1, <2>3 DEF map_lit
    <2>. QED
      BY <1>2, <2>4, SignedRight
  <1>7. l \in root \/ -l \in root => vidx(l) \in FixedVars
    BY FixedLiteral
  <1>8. ASSUME root # {}
        PROVE  vidx(Top) = map_idx(first_fixed) /\ Top \in Int /\ map_idx(first_fixed) \in 1..new_max_var
    <2>1. map_idx(first_fixed) \in 1..new_max_var
      BY <1>3, <1>8
    <2>2. map_idx(first_fixed) \in Int /\ map_idx(first_fixed) > 0
      BY <1>3, <2>1
    <2>3. Top = map_idx(first_fixed) \/ Top = -map_idx(first_fixed)
      BY DEF Top
    <2>. QED
      BY <2>1, <2>2, <2>3 DEF vidx
  <1>. QED
    BY <1>4, <1>5, <1>6, <1>7, <1>8

\* The mapping is a mapping of literals: it commutes with negation, keeps the
\* active ones apart and gives all fixed ones the first fixed variable.
LEMMA MapLitCases ==
  ASSUME Mappable, NEW l \in ILits
  PROVE  /\ map_lit(l) \in (-new_max_var)..new_max_var
         /\ map_lit(-l) = -map_lit(l)
         /\ map_lit(l) = 0 <=> vidx(l) \in inactive
         /\ vidx(l) \in Active => map_lit(l) # Top /\ map_lit(l) # -Top
         /\ \A k \in ILits : vidx(l) \in Active /\ map_lit(k) = map_lit(l) => k = l
         /\ vidx(l) \in Active => Source(vidx(map_lit(l))) = vidx(l) /\ vidx(map_lit(l)) # vidx(Top)
         /\ vidx(l) \in FixedVars => vidx(map_lit(l)) = vidx(Top)
PROOF
  <1>1. max_var \in Nat /\ root \subseteq ILits
    BY DEF Mappable
  <1> HIDE DEF Mappable
  <1>2. ASSUME NEW k \in ILits
        PROVE  k \in Int /\ k # 0 /\ -k \in ILits /\ vidx(k) \in Vars /\ vidx(-k) = vidx(k) /\ -(-k) = k
    BY <1>1, <1>2, ILiteral
  <1>3. /\ Kept \subseteq Vars /\ Active \subseteq Kept
        /\ root # {} => first_fixed \in Kept /\ first_fixed \in FixedVars
        /\ \A v \in Kept : Source(map_idx(v)) = v
        /\ \A u, v \in Kept : map_idx(u) = map_idx(v) => u = v
        /\ new_max_var \in Nat
    BY <1>1, MapperRight, FirstFixed
  <1>4. ASSUME NEW k \in ILits
        PROVE  /\ vidx(k) \in Active => /\ map_lit(k) = Signed(map_idx(vidx(k)), k)
                                        /\ vidx(map_lit(k)) = map_idx(vidx(k))
                                        /\ map_idx(vidx(k)) \in 1..new_max_var
                                        /\ map_lit(k) \in Int /\ vidx(map_lit(k)) \in 1..new_max_var
               /\ k \in root => map_lit(k) = Top
               /\ -k \in root => map_lit(k) = -Top
               /\ vidx(k) \in inactive => map_lit(k) = 0
               /\ root # {} => vidx(Top) = map_idx(first_fixed) /\ Top \in Int /\ map_idx(first_fixed) \in 1..new_max_var
    <2>1. vidx(k) \in Active => /\ map_lit(k) = Signed(map_idx(vidx(k)), k)
                                /\ vidx(map_lit(k)) = map_idx(vidx(k))
                                /\ map_idx(vidx(k)) \in 1..new_max_var
      BY <1>4, MapLitRight
    <2>2. ASSUME vidx(k) \in Active PROVE map_lit(k) \in Int
      <3>1. map_idx(vidx(k)) \in Int
        BY <1>3, <2>1, <2>2
      <3>. QED
        BY <1>2, <1>4, <2>1, <2>2, <3>1, SignedRight
    <2>. QED
      BY <1>4, <2>1, <2>2, MapLitRight
  <1>5. CASE vidx(l) \in Active
    <2>1. vidx(l) \notin FixedVars /\ vidx(l) \notin inactive /\ vidx(-l) \in Active /\ l \in Int /\ l # 0
      BY <1>2, <1>5, FixedLiteral
    <2>2. /\ map_lit(l) = Signed(map_idx(vidx(l)), l) /\ vidx(map_lit(l)) = map_idx(vidx(l))
          /\ map_lit(-l) = Signed(map_idx(vidx(l)), -l) /\ map_lit(l) \in Int
          /\ vidx(map_lit(l)) \in 1..new_max_var /\ map_idx(vidx(l)) \in Int
      BY <1>2, <1>3, <1>4, <1>5, <2>1
    <2>3. map_lit(-l) = -map_lit(l)
      BY <2>1, <2>2, SignedRight
    <2>4. map_lit(l) \in (-new_max_var)..new_max_var /\ map_lit(l) # 0
      BY <1>3, <2>2 DEF vidx
    <2>5. Source(vidx(map_lit(l))) = vidx(l)
      BY <1>3, <1>5, <2>2
    <2>6. vidx(map_lit(l)) # vidx(Top)
      <3>1. CASE root = {}
        <4>1. first_fixed = 0 /\ 0 \notin Kept
          BY <1>1, <1>3, <3>1, FirstFixed DEF Vars
        <4>2. map_idx(0) = 0
          BY <1>1, <4>1, MapperRight
        <4>3. Top = -map_idx(first_fixed)
          BY <3>1 DEF Top
        <4>4. Top = 0
          BY <4>1, <4>2, <4>3
        <4>5. vidx(Top) = 0
          BY <4>4 DEF vidx
        <4>. QED
          BY <1>3, <2>2, <4>5
      <3>2. CASE root # {}
        <4>1. first_fixed # vidx(l) /\ first_fixed \in Kept /\ vidx(l) \in Kept
          BY <1>3, <1>5, <2>1, <3>2
        <4>. QED
          BY <1>3, <1>4, <2>2, <3>2, <4>1
      <3>. QED
        BY <3>1, <3>2
    <2>7. map_lit(l) # Top /\ map_lit(l) # -Top
      <3>1. Top \in Int
        <4>1. CASE root # {}
          BY <1>4, <4>1
        <4>2. CASE root = {}
          <5>1. first_fixed = 0 /\ 0 \notin Kept
            BY <1>1, <1>3, <4>2, FirstFixed DEF Vars
          <5>2. map_idx(0) = 0
            BY <1>1, <5>1, MapperRight
          <5>. QED
            BY <4>2, <5>1, <5>2 DEF Top
        <4>. QED
          BY <4>1, <4>2
      <3>2. vidx(-Top) = vidx(Top)
        BY <3>1, VidxRight
      <3>. QED
        BY <2>6, <3>2
    <2>8. ASSUME NEW k \in ILits, map_lit(k) = map_lit(l) PROVE k = l
      <3>1. CASE vidx(k) \in Active
        <4>1. vidx(map_lit(k)) = map_idx(vidx(k))
          BY <1>4, <3>1
        <4>2. vidx(k) = vidx(l)
          BY <1>3, <1>5, <2>2, <2>8, <3>1, <4>1
        <4>3. k = l \/ k = -l
          BY <1>2, <4>2 DEF vidx
        <4>4. k # -l
          BY <2>2, <2>3, <2>4, <2>8
        <4>. QED
          BY <4>3, <4>4
      <3>2. CASE vidx(k) \in FixedVars
        <4>1. k \in root \/ -k \in root
          BY <3>2, FixedLiteral
        <4>. QED
          BY <1>4, <2>7, <2>8, <4>1
      <3>3. CASE vidx(k) \in inactive
        BY <1>4, <2>4, <2>8, <3>3
      <3>. QED
        BY <3>1, <3>2, <3>3, FixedLiteral
    <2>. QED
      BY <1>5, <2>1, <2>3, <2>4, <2>5, <2>6, <2>7, <2>8
  <1>6. CASE vidx(l) \in FixedVars
    <2>1. l \in root \/ -l \in root
      BY <1>6, FixedLiteral
    <2>2. vidx(l) \notin Active /\ vidx(l) \notin inactive /\ root # {}
      BY <1>6, <2>1, FixedLiteral
    <2>3. Top \in Int /\ vidx(Top) \in 1..new_max_var
      BY <1>4, <2>2
    <2>4. Top \in (-new_max_var)..new_max_var /\ -Top \in (-new_max_var)..new_max_var /\ Top # 0 /\ -Top # 0
      BY <1>3, <2>3 DEF vidx
    <2>5. (map_lit(l) = Top /\ map_lit(-l) = -Top) \/ (map_lit(l) = -Top /\ map_lit(-l) = Top)
      <3>1. -l \in ILits /\ -(-l) = l
        BY <1>2
      <3>2. CASE l \in root
        <4>1. map_lit(l) = Top /\ map_lit(-l) = -Top
          BY <1>4, <3>1, <3>2
        <4>. QED
          BY <4>1
      <3>3. CASE -l \in root
        <4>1. map_lit(l) = -Top /\ map_lit(-l) = Top
          BY <1>4, <3>1, <3>3
        <4>. QED
          BY <4>1
      <3>. QED
        BY <2>1, <3>2, <3>3
    <2>6. vidx(-Top) = vidx(Top) /\ -(-Top) = Top
      BY <2>3, VidxRight
    <2>. QED
      BY <2>2, <2>4, <2>5, <2>6
  <1>7. CASE vidx(l) \in inactive
    <2>1. vidx(l) \notin Active /\ vidx(l) \notin FixedVars /\ vidx(-l) \in inactive
      BY <1>2, <1>7, FixedLiteral
    <2>2. map_lit(l) = 0 /\ map_lit(-l) = 0
      BY <1>2, <1>4, <1>7, <2>1
    <2>3. 0 \in (-new_max_var)..new_max_var
      BY <1>3
    <2>4. map_lit(-l) = -map_lit(l)
      BY <2>2
    <2>. QED
      BY <1>7, <2>1, <2>2, <2>3, <2>4
  <1>. QED
    BY <1>5, <1>6, <1>7, FixedLiteral

-----------------------------------------------------------------------------
(***************************************************************************)
(* Clauses without what is fixed.                                          *)
(***************************************************************************)
\* A clause is dropped or loses literals.
LEMMA SimplifiedMember ==
  ASSUME NEW C, NEW T, NEW d
  PROVE  d \in Simplified(C, T) <=> \E c \in C : c \cap T = {} /\ d = c \ Negated(T)
BY DEF Simplified

\* One more clause.
LEMMA SimplifiedMore ==
  ASSUME NEW C, NEW T, NEW c
  PROVE  Simplified(C \cup {c}, T) = Simplified(C, T) \cup Simplified({c}, T)
BY DEF Simplified

\* The clauses without literal t, without their literal u; those without both.
Dropped(S, t, u) == {d \ {u} : d \in {b \in S : t \notin b}}
Fewer(S, t, u) == {d \in S : {t, u} \cap d = {}}

\* One more literal is true.
LEMMA SimplifiedFixed ==
  ASSUME NEW L \in SUBSET Int, NEW C \in SUBSET SUBSET L, NEW T \in SUBSET L, NEW t \in L,
         -t \notin T, t \notin T
  PROVE  Simplified(C, T \cup {t}) = Dropped(Simplified(C, T), t, -t)
PROOF
  <1>1. Negated(T \cup {t}) = Negated(T) \cup {-t}
    BY DEF Negated
  <1>2. t \notin Negated(T)
    <2> SUFFICES ASSUME NEW k \in T, t = -k PROVE FALSE
      BY DEF Negated
    <2>1. k = -t
      OBVIOUS
    <2>. QED
      BY <2>1
  <1>3. ASSUME NEW c \in C
        PROVE  c \cap (T \cup {t}) = {} <=> c \cap T = {} /\ t \notin c \ Negated(T)
    BY <1>2
  <1>4. \A c : c \ Negated(T \cup {t}) = (c \ Negated(T)) \ {-t}
    BY <1>1
  <1>5. ASSUME NEW d \in Simplified(C, T \cup {t})
        PROVE  d \in {a \ {-t} : a \in {b \in Simplified(C, T) : t \notin b}}
    <2>1. PICK c \in C : c \cap (T \cup {t}) = {} /\ d = c \ Negated(T \cup {t})
      BY <1>5, SimplifiedMember
    <2>2. c \cap T = {} /\ t \notin c \ Negated(T)
      BY <1>3, <2>1
    <2>3. c \ Negated(T) \in Simplified(C, T)
      BY <2>2 DEF Simplified
    <2>4. d = (c \ Negated(T)) \ {-t}
      BY <1>4, <2>1
    <2>. QED
      BY <2>2, <2>3, <2>4
  <1>6. ASSUME NEW a \in Simplified(C, T), t \notin a
        PROVE  a \ {-t} \in Simplified(C, T \cup {t})
    <2>1. PICK c \in C : c \cap T = {} /\ a = c \ Negated(T)
      BY <1>6, SimplifiedMember
    <2>2. c \cap (T \cup {t}) = {}
      BY <1>3, <1>6, <2>1
    <2>3. a \ {-t} = c \ Negated(T \cup {t})
      BY <1>4, <2>1
    <2>. QED
      BY <2>2, <2>3 DEF Simplified
  <1>. QED
    BY <1>5, <1>6 DEF Dropped

\* The clauses of a variable leave.
LEMMA SimplifiedFewer ==
  ASSUME NEW C, NEW T, NEW v, NEW w, v \notin Negated(T), w \notin Negated(T)
  PROVE  Simplified(Fewer(C, v, w), T) = Fewer(Simplified(C, T), v, w)
PROOF
  <1>1. \A c : {v, w} \cap c = {} <=> {v, w} \cap (c \ Negated(T)) = {}
    OBVIOUS
  <1>2. ASSUME NEW d \in Simplified({c \in C : {v, w} \cap c = {}}, T)
        PROVE  d \in Simplified(C, T) /\ {v, w} \cap d = {}
    <2>1. PICK c \in {b \in C : {v, w} \cap b = {}} : c \cap T = {} /\ d = c \ Negated(T)
      BY <1>2, SimplifiedMember
    <2>. QED
      BY <1>1, <2>1, SimplifiedMember
  <1>3. ASSUME NEW d \in Simplified(C, T), {v, w} \cap d = {}
        PROVE  d \in Simplified({c \in C : {v, w} \cap c = {}}, T)
    <2>1. PICK c \in C : c \cap T = {} /\ d = c \ Negated(T)
      BY <1>3, SimplifiedMember
    <2>2. c \in {b \in C : {v, w} \cap b = {}}
      BY <1>1, <1>3, <2>1
    <2>. QED
      BY <2>1, <2>2, SimplifiedMember
  <1>. QED
    BY <1>2, <1>3 DEF Fewer

\* Clauses under other names.
Renamed(g, S) == {{g[l] : l \in c} : c \in S}

\* A renaming that keeps literals apart commutes with dropping a literal, and
\* with dropping clauses.
LEMMA RenamedFixed ==
  ASSUME NEW L, NEW g, \A k, l \in L : g[k] = g[l] => k = l,
         NEW S \in SUBSET SUBSET L, NEW t \in L, NEW u \in L
  PROVE  Renamed(g, Dropped(S, t, u)) = Dropped(Renamed(g, S), g[t], g[u])
PROOF
  <1> DEFINE Im(c) == {g[l] : l \in c}
  <1>1. ASSUME NEW c \in S PROVE /\ t \in c <=> g[t] \in Im(c)
                                 /\ Im(c \ {u}) = Im(c) \ {g[u]}
    <2>1. c \subseteq L
      OBVIOUS
    <2>2. t \in c <=> g[t] \in Im(c)
      BY <2>1
    <2>3. Im(c \ {u}) \subseteq Im(c) \ {g[u]}
      BY <2>1
    <2>4. Im(c) \ {g[u]} \subseteq Im(c \ {u})
      OBVIOUS
    <2> HIDE DEF Im
    <2>. QED
      BY <2>2, <2>3, <2>4
  <1>2. \A X, d : d \in Renamed(g, X) <=> \E c \in X : d = Im(c)
    BY DEF Renamed
  <1> HIDE DEF Im
  <1>3. ASSUME NEW d \in Renamed(g, {a \ {u} : a \in {b \in S : t \notin b}})
        PROVE  d \in {a \ {g[u]} : a \in {b \in Renamed(g, S) : g[t] \notin b}}
    <2> DEFINE X == {a \ {u} : a \in {b \in S : t \notin b}}
    <2>0. PICK e \in X : d = Im(e)
      <3> HIDE DEF X
      <3>. QED
        BY <1>2, <1>3 DEF X
    <2>1. PICK c \in S : t \notin c /\ d = Im(c \ {u})
      BY <2>0
    <2>2. d = Im(c) \ {g[u]} /\ g[t] \notin Im(c) /\ Im(c) \in Renamed(g, S)
      BY <1>1, <1>2, <2>1
    <2>. QED
      BY <2>2
  <1>4. ASSUME NEW b \in Renamed(g, S), g[t] \notin b
        PROVE  b \ {g[u]} \in Renamed(g, {a \ {u} : a \in {c \in S : t \notin c}})
    <2>1. PICK c \in S : b = Im(c)
      BY <1>2
    <2>2. t \notin c /\ b \ {g[u]} = Im(c \ {u})
      BY <1>1, <1>4, <2>1
    <2>3. c \ {u} \in {a \ {u} : a \in {e \in S : t \notin e}}
      BY <2>2
    <2>. QED
      BY <1>2, <2>2, <2>3
  <1> DEFINE A == Renamed(g, {a \ {u} : a \in {b \in S : t \notin b}})
             B == {a \ {g[u]} : a \in {b \in Renamed(g, S) : g[t] \notin b}}
  <1>5. \A d \in A : d \in B
    BY <1>3
  <1>6. \A d \in B : d \in A
    <2>1. \A b \in Renamed(g, S) : g[t] \notin b => b \ {g[u]} \in A
      BY <1>4
    <2> HIDE DEF A
    <2>. QED
      BY <2>1
  <1>. QED
    BY <1>5, <1>6 DEF Dropped

\* The same for clauses that are dropped.
LEMMA RenamedFewer ==
  ASSUME NEW L, NEW g, \A k, l \in L : g[k] = g[l] => k = l,
         NEW S \in SUBSET SUBSET L, NEW t \in L, NEW u \in L
  PROVE  Renamed(g, Fewer(S, t, u)) = Fewer(Renamed(g, S), g[t], g[u])
PROOF
  <1> DEFINE Im(c) == {g[l] : l \in c}
  <1>1. ASSUME NEW c \in S PROVE {t, u} \cap c = {} <=> {g[t], g[u]} \cap Im(c) = {}
    <2>1. c \subseteq L
      OBVIOUS
    <2>2. (t \in c <=> g[t] \in Im(c)) /\ (u \in c <=> g[u] \in Im(c))
      BY <2>1
    <2> HIDE DEF Im
    <2>. QED
      BY <2>2
  <1>2. \A X, d : d \in Renamed(g, X) <=> \E c \in X : d = Im(c)
    BY DEF Renamed
  <1> HIDE DEF Im
  <1>. QED
    BY <1>1, <1>2 DEF Fewer

-----------------------------------------------------------------------------
(***************************************************************************)
(* Internal and external literals.                                         *)
(***************************************************************************)
\* The literals of active variables.
ALits == {l \in ILits : vidx(l) \in Active}
outer == [l \in ALits |-> external(l)]

\* The invariant provides for the mapping.
LEMMA InvMappable ==
  ASSUME CTyped, FixedRight
  PROVE  Mappable
BY DEF CTyped, FixedRight, Mappable

\* An internal literal that is not fixed and its external literal.
LEMMA ExternalRight ==
  ASSUME CTyped, Paired, NEW l \in ILits, vidx(l) \notin FixedVars
  PROVE  /\ external(l) \in ExtLits /\ vidx(external(l)) = i2e[vidx(l)]
         /\ internal(external(l)) = l /\ external(-l) = -external(l)
PROOF
  <1>1. max_var \in Nat /\ N \in Nat /\ max_var <= N
    BY CompactAssumption DEF CTyped
  <1>2. l \in Int /\ l # 0 /\ vidx(l) \in Vars /\ vidx(-l) = vidx(l)
    BY <1>1, ILiteral
  <1> DEFINE e == i2e[vidx(l)]
  <1>3. e \in ExtVars /\ e2i[e] = vidx(l)
    BY <1>2 DEF Paired
  <1>4. e \in Int /\ e > 0
    BY <1>3, CompactAssumption DEF ExtVars
  <1>5. external(l) = Signed(e, l) /\ external(-l) = Signed(e, -l)
    BY <1>2 DEF external
  <1>6. external(-l) = -external(l)
    <2> HIDE DEF e
    <2>. QED
      BY <1>2, <1>4, <1>5, SignedRight
  <1>7. external(l) \in ExtLits
    BY <1>3, <1>5 DEF Signed, ExtLits
  <1>8. vidx(external(l)) = e
    BY <1>4, <1>5 DEF Signed, vidx
  <1>9. internal(external(l)) = Signed(vidx(l), external(l))
    BY <1>3, <1>8 DEF internal
  <1>10. external(l) < 0 <=> l < 0
    BY <1>2, <1>4, <1>5 DEF Signed
  <1>11. Signed(vidx(l), external(l)) = l
    BY <1>2, <1>10 DEF Signed, vidx
  <1> HIDE DEF e
  <1>. QED
    BY <1>6, <1>7, <1>8, <1>9, <1>11 DEF e

\* A literal of the user and its internal literal.
LEMMA InternalRight ==
  ASSUME CTyped, Paired, FixedRight, NEW elit \in ExtLits
  PROVE  /\ internal(elit) \in Int /\ internal(-elit) = -internal(elit)
         /\ vidx(internal(elit)) = vidx(e2i[vidx(elit)])
         /\ internal(elit) = 0 <=> e2i[vidx(elit)] = 0
         /\ internal(elit) # 0 => internal(elit) \in ILits
         /\ internal(elit) # 0 /\ vidx(internal(elit)) \notin FixedVars => external(internal(elit)) = elit
         /\ elit \in values <=> internal(elit) \in root
         /\ -elit \in values <=> -internal(elit) \in root
PROOF
  <1>1. max_var \in Nat /\ N \in Nat /\ max_var <= N
    BY CompactAssumption DEF CTyped
  <1>2. elit \in Int /\ elit # 0 /\ -elit \in ExtLits /\ vidx(elit) \in ExtVars /\ vidx(-elit) = vidx(elit)
    BY ExtLiteral
  <1> DEFINE x == e2i[vidx(elit)]
  <1>3. x \in (-max_var)..max_var
    BY <1>2 DEF CTyped
  <1>4. internal(elit) = Signed(x, elit) /\ internal(-elit) = Signed(x, -elit)
    BY <1>2 DEF internal
  <1>5. /\ internal(elit) \in Int /\ vidx(internal(elit)) = vidx(x)
        /\ (internal(elit) = 0 <=> x = 0) /\ internal(-elit) = -internal(elit)
    <2>1. x \in Int
      BY <1>1, <1>3
    <2> HIDE DEF x
    <2>2. vidx(internal(elit)) = vidx(x) /\ internal(elit) \in Int /\ (internal(elit) = 0 <=> x = 0)
      BY <1>2, <1>4, <2>1, SignedRight
    <2>3. internal(-elit) = -internal(elit)
      BY <1>2, <1>4, <2>1, SignedRight
    <2>. QED
      BY <2>2, <2>3
  <1>6. internal(elit) # 0 => internal(elit) \in ILits
    <2>1. internal(elit) \in (-max_var)..max_var
      BY <1>1, <1>3, <1>4 DEF Signed
    <2>. QED
      BY <2>1 DEF ILits
  <1>7. (elit \in values <=> internal(elit) \in root) /\ (-elit \in values <=> internal(-elit) \in root)
    BY <1>2 DEF FixedRight
  <1>8. ASSUME x # 0, vidx(x) \notin FixedVars PROVE external(internal(elit)) = elit
    <2>1. x \in Vars /\ i2e[x] = vidx(elit)
      BY <1>2, <1>8 DEF Paired
    <2>2. x > 0 /\ vidx(x) = x
      BY <2>1 DEF Vars, vidx
    <2>3. internal(elit) < 0 <=> elit < 0
      BY <1>2, <1>3, <1>4, <2>2 DEF Signed
    <2>4. external(internal(elit)) = Signed(i2e[x], internal(elit))
      BY <1>5, <2>2 DEF external
    <2>5. Signed(vidx(elit), internal(elit)) = elit
      BY <1>2, <2>3 DEF Signed, vidx
    <2>. QED
      BY <2>1, <2>4, <2>5
  <1> HIDE DEF x
  <1>. QED
    BY <1>5, <1>6, <1>7, <1>8 DEF x

\* The clauses that remain have active literals.
LEMMA Remaining ==
  ASSUME CTyped, FixedRight, ClausesSame
  PROVE  Simplified(clauses, root) \subseteq SUBSET ALits
PROOF
  <1> SUFFICES ASSUME NEW d \in Simplified(clauses, root), NEW l \in d PROVE l \in ALits
    OBVIOUS
  <1>1. PICK c \in clauses : c \cap root = {} /\ d = c \ Negated(root)
    BY SimplifiedMember
  <1>2. l \in ILits /\ vidx(l) \notin inactive /\ l \notin root
    BY <1>1 DEF CTyped, ClausesSame
  <1>3. -l \notin root
    <2> SUFFICES ASSUME -l \in root PROVE FALSE
      OBVIOUS
    <2>1. -(-l) = l
      BY <1>2 DEF ILits
    <2>2. l \in Negated(root)
      BY <2>1 DEF Negated
    <2>. QED
      BY <1>1, <2>2
  <1>4. Mappable
    BY InvMappable
  <1>. QED
    BY <1>2, <1>3, <1>4, FixedLiteral DEF ALits

\* Active literals are kept apart.
LEMMA OuterRight ==
  ASSUME CTyped, Paired, FixedRight
  PROVE  /\ \A l \in ALits : outer[l] = external(l) /\ -l \in ALits /\ vidx(l) \notin FixedVars
         /\ \A k, l \in ALits : outer[k] = outer[l] => k = l
PROOF
  <1>1. Mappable /\ max_var \in Nat
    BY InvMappable DEF CTyped
  <1>2. ASSUME NEW l \in ALits
        PROVE  outer[l] = external(l) /\ -l \in ALits /\ vidx(l) \notin FixedVars /\ internal(external(l)) = l
    <2>1. l \in ILits /\ -l \in ILits /\ vidx(-l) = vidx(l)
      BY <1>1, ILiteral DEF ALits
    <2>2. vidx(l) \notin FixedVars
      BY <1>1, <2>1, FixedLiteral DEF ALits
    <2>3. internal(external(l)) = l
      BY <2>1, <2>2, ExternalRight
    <2>. QED
      BY <2>1, <2>2, <2>3 DEF ALits, outer
  <1>. QED
    BY <1>2

\* What the user's clauses are, in terms of the renaming.
LEMMA ClausesRenamed ==
  ASSUME CTyped, FixedRight, ClausesSame
  PROVE  Renamed(outer, Simplified(clauses, root)) = Simplified(given, values)
PROOF
  <1> DEFINE S == Simplified(clauses, root)
  <1>1. \A d \in S : {outer[l] : l \in d} = {external(l) : l \in d}
    BY Remaining DEF outer
  <1> HIDE DEF S
  <1>2. Renamed(outer, S) = {{external(l) : l \in d} : d \in S}
    BY <1>1 DEF Renamed
  <1>. QED
    BY <1>2 DEF ClausesSame, S

-----------------------------------------------------------------------------
(***************************************************************************)
(* The initial state, and steps that change none of the tables.            *)
(***************************************************************************)
tabled == <<setup, max_var, e2i, i2e, root, inactive, clauses, frozentab, assumptions,
            given, values, assumed, freezes>>

\* Nothing is there at first.
LEMMA InitRight == CInit => CInv
PROOF
  <1> SUFFICES ASSUME CInit PROVE CInv
    OBVIOUS
  <1>1. /\ setup \in Setups /\ max_var = 0
        /\ e2i = [e \in ExtVars |-> 0] /\ i2e = [v \in 1..N |-> 0]
        /\ root = {} /\ inactive = {} /\ clauses = {} /\ frozentab = [v \in 1..N |-> 0]
        /\ assumptions = <<>> /\ assumed = <<>>
        /\ given = {} /\ values = {} /\ freezes = [e \in ExtVars |-> 0]
    BY DEF CInit, Init
  <1>2. N \in Nat /\ ExtMax \in Nat
    BY CompactAssumption
  <1>3. Vars = {} /\ FixedVars = {}
    BY <1>1 DEF Vars, FixedVars
  <1>4. CTyped
    <2>1. e2i \in [ExtVars -> (-max_var)..max_var]
      BY <1>1
    <2>2. i2e \in [1..N -> 0..ExtMax]
      BY <1>1, <1>2
    <2>. QED
      BY <1>1, <1>2, <2>1, <2>2 DEF CTyped
  <1>5. Paired
    BY <1>1, <1>3 DEF Paired
  <1>6. FixedRight
    BY <1>1, <1>3 DEF FixedRight
  <1>7. ClausesSame
    BY <1>1 DEF ClausesSame, Simplified
  <1>8. Referenced
    <2>1. ToSet(assumptions) = {} /\ ToSet(assumed) = {}
      BY <1>1 DEF ToSet
    <2>. QED
      BY <1>1, <1>3, <2>1 DEF Referenced
  <1>. QED
    BY <1>4, <1>5, <1>6, <1>7, <1>8 DEF CInv

\* Decisions, implications, conflicts and backtracking leave the tables alone.
LEMMA SearchTables ==
  ASSUME Search \/ UNCHANGED allvars
  PROVE  UNCHANGED tabled
PROOF
  <1>1. CASE Search
    <2>1. UNCHANGED <<tables, outside>> /\ DecisionStep(FixedVars)
      BY <1>1 DEF Search
    <2>2. setup' = setup /\ max_var' = max_var
      BY <2>1 DEF DecisionStep, assign, backtrack, next_decision_variable_on_queue,
                  next_decision_variable_with_best_score, bump_variables, shuffle, switch
    <2>. QED
      BY <2>1, <2>2 DEF tabled, tables, outside
  <1>2. CASE UNCHANGED allvars
    BY <1>2 DEF allvars, vars, tabled, tables, outside
  <1>. QED
    BY <1>1, <1>2

\* A step that changes neither tables, clauses nor what the user holds keeps the
\* invariant.
LEMMA TabledRight ==
  ASSUME CInv, UNCHANGED tabled
  PROVE  CInv'
PROOF
  <1>1. CTyped'
    BY DEF tabled, CInv, CTyped, ILits, Vars
  <1>2. Paired'
    BY DEF tabled, CInv, Paired, Vars, FixedVars
  <1>3. FixedRight'
    BY DEF tabled, CInv, FixedRight, FixedVars, internal
  <1>4. ClausesSame'
    BY DEF tabled, CInv, ClausesSame, external
  <1>5. Referenced'
    BY DEF tabled, CInv, Referenced, Numbered, internal, Vars
  <1>. QED
    BY <1>1, <1>2, <1>3, <1>4, <1>5 DEF CInv

\* The invariant is what the runs check, and more.
LEMMA InvImplies ==
  ASSUME CInv
  PROVE  MeaningKept /\ ReferencesKept
PROOF
  <1>1. \A elit \in values : internal(elit) \in root
    BY DEF CInv, CTyped, FixedRight
  <1>2. \A v \in Active : vidx(e2i[i2e[v]]) = v
    <2> SUFFICES ASSUME NEW v \in Active PROVE vidx(e2i[i2e[v]]) = v
      OBVIOUS
    <2>1. v \in Vars \ FixedVars
      BY DEF Active
    <2>2. e2i[i2e[v]] = v /\ v \in Nat
      BY <2>1 DEF CInv, Paired, Vars
    <2>. QED
      BY <2>2 DEF vidx
  <1>3. MeaningKept
    BY <1>1, <1>2 DEF MeaningKept, CInv, ClausesSame
  <1>4. ReferencesKept
    BY DEF CInv, Referenced, ReferencesKept, Count, Numbered
  <1>. QED
    BY <1>3, <1>4

-----------------------------------------------------------------------------
(***************************************************************************)
(* The steps of the user.                                                  *)
(***************************************************************************)
\* The negations of a set of literals.
LEMMA NegatedMember ==
  ASSUME NEW T \in SUBSET Int, NEW l \in Int
  PROVE  l \in Negated(T) <=> -l \in T
PROOF
  <1>1. ASSUME NEW k \in T, l = -k PROVE -l \in T
    <2>1. -l = k
      BY <1>1
    <2>. QED
      BY <2>1
  <1>2. ASSUME -l \in T PROVE l \in Negated(T)
    <2>1. l = -(-l)
      OBVIOUS
    <2>. QED
      BY <1>2, <2>1 DEF Negated
  <1>. QED
    BY <1>1, <1>2 DEF Negated

\* A clause of usable literals: what remains of it is the same inside and out.
LEMMA ClauseAdded ==
  ASSUME CTyped, Paired, FixedRight, NEW c \in SUBSET ExtLits,
         \A elit \in c : internal(elit) # 0,
         NEW ic, ic = {internal(elit) : elit \in c}
  PROVE  {{external(l) : l \in d} : d \in Simplified({ic}, root)} = Simplified({c}, values)
PROOF
  <1>1. root \subseteq Int /\ values \subseteq Int /\ root \subseteq ILits /\ values \subseteq ExtLits
        /\ max_var \in Nat /\ Mappable
    <2>1. root \subseteq ILits /\ values \subseteq ExtLits /\ max_var \in Nat /\ Mappable
      BY InvMappable DEF CTyped
    <2>2. ILits \subseteq Int /\ ExtLits \subseteq Int
      BY ExtLiteral DEF ILits
    <2>. QED
      BY <2>1, <2>2
  <1>2. ASSUME NEW elit \in c
        PROVE  /\ internal(elit) \in ILits /\ internal(elit) \in Int /\ elit \in Int
               /\ elit \in values <=> internal(elit) \in root
               /\ elit \in Negated(values) <=> internal(elit) \in Negated(root)
               /\ internal(elit) \notin root \cup Negated(root) => external(internal(elit)) = elit
    <2>1. /\ internal(elit) \in ILits /\ internal(elit) \in Int
          /\ elit \in values <=> internal(elit) \in root
          /\ -elit \in values <=> -internal(elit) \in root
          /\ vidx(internal(elit)) \notin FixedVars => external(internal(elit)) = elit
      BY <1>2, InternalRight
    <2>2. elit \in Int
      BY <1>2, ExtLiteral
    <2>3. /\ elit \in Negated(values) <=> -elit \in values
          /\ internal(elit) \in Negated(root) <=> -internal(elit) \in root
      BY <1>1, <2>1, <2>2, NegatedMember
    <2>4. vidx(internal(elit)) \in FixedVars <=> (internal(elit) \in root \/ -internal(elit) \in root)
      BY <1>1, <2>1, FixedLiteral
    <2>. QED
      BY <2>1, <2>2, <2>3, <2>4
  <1>3. c \cap values = {} <=> ic \cap root = {}
    BY <1>2
  <1>4. CASE c \cap values # {}
    <2>1. Simplified({ic}, root) = {} /\ Simplified({c}, values) = {}
      BY <1>3, <1>4 DEF Simplified
    <2>. QED
      BY <2>1
  <1>5. CASE c \cap values = {}
    <2>1. Simplified({ic}, root) = {ic \ Negated(root)} /\ Simplified({c}, values) = {c \ Negated(values)}
      BY <1>3, <1>5 DEF Simplified
    <2>2. {external(l) : l \in ic \ Negated(root)} = c \ Negated(values)
      <3>1. ASSUME NEW l \in ic \ Negated(root) PROVE external(l) \in c \ Negated(values)
        <4>1. PICK elit \in c : l = internal(elit)
          OBVIOUS
        <4>2. l \notin root
          BY <1>3, <1>5
        <4>3. external(l) = elit /\ elit \notin Negated(values)
          BY <1>2, <3>1, <4>1, <4>2
        <4>. QED
          BY <4>3
      <3>2. ASSUME NEW elit \in c \ Negated(values)
            PROVE  \E l \in ic \ Negated(root) : elit = external(l)
        <4>1. internal(elit) \in ic /\ internal(elit) \notin root
          BY <1>3, <1>5
        <4>2. internal(elit) \notin Negated(root) /\ external(internal(elit)) = elit
          BY <1>2, <3>2, <4>1
        <4>. QED
          BY <4>1, <4>2
      <3>. QED
        BY <3>1, <3>2
    <2>3. {{external(l) : l \in d} : d \in {ic \ Negated(root)}} = {{external(l) : l \in ic \ Negated(root)}}
      OBVIOUS
    <2>. QED
      BY <2>1, <2>2, <2>3
  <1>. QED
    BY <1>4, <1>5

\* A clause of the user.
LEMMA AddRight ==
  ASSUME CInv, NEW c \in setup.clauses, add(c)
  PROVE  CInv'
PROOF
  <1> DEFINE ic == {internal(elit) : elit \in c}
  <1>1. /\ \A elit \in c : e2i[vidx(elit)] # 0 /\ vidx(internal(elit)) \notin inactive
        /\ clauses' = clauses \cup {ic} /\ given' = given \cup {c}
        /\ UNCHANGED <<setup, max_var, e2i, i2e, root, inactive, frozentab, assumptions, values, assumed, freezes>>
    BY DEF add, Usable, vars
  <1>2. c \subseteq ExtLits
    BY CompactAssumption DEF CInv, CTyped
  <1>3. CTyped /\ Paired /\ FixedRight /\ ClausesSame /\ Referenced
    BY DEF CInv
  <1>4. \A elit \in c : internal(elit) # 0 /\ internal(elit) \in ILits
    BY <1>1, <1>2, <1>3, InternalRight
  <1>5. ic \in SUBSET ILits
    BY <1>4
  <1>6. CTyped'
    <2>1. ILits' = ILits /\ Vars' = Vars
      BY <1>1 DEF ILits, Vars
    <2> HIDE DEF ic
    <2>2. clauses' \subseteq SUBSET ILits /\ given' \subseteq SUBSET ExtLits
      BY <1>1, <1>2, <1>3, <1>5 DEF CTyped
    <2>. QED
      BY <1>1, <1>3, <2>1, <2>2 DEF CTyped
  <1>7. Paired'
    BY <1>1, <1>3 DEF Paired, Vars, FixedVars
  <1>8. FixedRight'
    BY <1>1, <1>3 DEF FixedRight, FixedVars, internal
  <1>9. ClausesSame'
    <2>1. \A d \in clauses' : \A l \in d : vidx(l) \notin inactive'
      BY <1>1, <1>3 DEF ClausesSame
    <2>2. Simplified(clauses', root') = Simplified(clauses, root) \cup Simplified({ic}, root)
      <3> HIDE DEF ic
      <3>. QED
        BY <1>1, SimplifiedMore
    <2>3. Simplified(given', values') = Simplified(given, values) \cup Simplified({c}, values)
      BY <1>1, SimplifiedMore
    <2>4. {{external(l) : l \in d} : d \in Simplified({ic}, root)} = Simplified({c}, values)
      BY <1>2, <1>3, <1>4, ClauseAdded
    <2>5. {{external(l) : l \in d} : d \in Simplified(clauses, root)} = Simplified(given, values)
      BY <1>3 DEF ClausesSame
    <2>6. \A X : {{external(l)' : l \in d} : d \in X} = {{external(l) : l \in d} : d \in X}
      BY <1>1 DEF external
    <2> HIDE DEF ic
    <2>7. {{external(l)' : l \in d} : d \in Simplified(clauses', root')} = Simplified(given', values')
      <3> DEFINE Ex(X) == {{external(l) : l \in d} : d \in X}
                 A == Simplified(clauses, root)
                 B == Simplified({ic}, root)
      <3>1. Ex(A \cup B) = Ex(A) \cup Ex(B)
        <4> HIDE DEF A, B
        <4>. QED
          OBVIOUS
      <3>2. {{external(l)' : l \in d} : d \in A \cup B} = Ex(A \cup B)
        <4> HIDE DEF A, B
        <4>. QED
          BY <2>6
      <3>3. Ex(A) = Simplified(given, values) /\ Ex(B) = Simplified({c}, values)
        BY <2>4, <2>5
      <3> HIDE DEF Ex
      <3>. QED
        BY <2>2, <2>3, <3>1, <3>2, <3>3
    <2>. QED
      BY <2>1, <2>7 DEF ClausesSame
  <1>10. Referenced'
    BY <1>1, <1>3 DEF Referenced, Numbered, internal, Vars
  <1>. QED
    BY <1>6, <1>7, <1>8, <1>9, <1>10 DEF CInv

\* The literals of variables up to m.
LitsOf(m) == {k \in (-m)..m : k # 0}

\* How many literals of a variable an assumption adds.
LEMMA CountMore ==
  ASSUME NEW m \in Nat, NEW L \in SUBSET LitsOf(m), NEW s \in Seq(L), NEW l \in L, NEW v
  PROVE  /\ ToSet(Append(s, l)) = ToSet(s) \cup {l}
         /\ Append(s, l) \in Seq(L) /\ ToSet(s) \subseteq L
         /\ Count(s, v) \in Nat
         /\ l \notin ToSet(s) => Count(Append(s, l), v) = Count(s, v) + (IF v = vidx(l) THEN 1 ELSE 0)
         /\ Count(s, v) = 0 => \A k \in ToSet(s) : vidx(k) # v
         /\ (\A k \in ToSet(s) : vidx(k) # v) => Count(s, v) = 0
PROOF
  <1>1. /\ Append(s, l) \in Seq(L)
        /\ DOMAIN Append(s, l) = 1..(Len(s) + 1)
        /\ DOMAIN s = 1..Len(s)
        /\ Len(s) \in Nat
        /\ \A i \in 1..Len(s) : Append(s, l)[i] = s[i] /\ s[i] \in L
        /\ Append(s, l)[Len(s) + 1] = l
    BY AppendProperties, LenProperties
  <1>2. 1..(Len(s) + 1) = (1..Len(s)) \cup {Len(s) + 1}
    BY <1>1
  <1>3. ToSet(Append(s, l)) = ToSet(s) \cup {l} /\ ToSet(s) \subseteq L
    BY <1>1, <1>2 DEF ToSet
  <1> DEFINE Of(S) == {k \in S : vidx(k) = v}
  <1>4. IsFiniteSet(ToSet(s))
    <2>1. IsFiniteSet((-m)..m)
      BY FS_Interval
    <2>2. ToSet(s) \in SUBSET ((-m)..m)
      BY <1>3 DEF LitsOf
    <2>. QED
      BY <2>1, <2>2, FS_Subset
  <1>5. IsFiniteSet(Of(ToSet(s)))
    <2>1. Of(ToSet(s)) \in SUBSET ToSet(s)
      OBVIOUS
    <2> HIDE DEF Of
    <2>. QED
      BY <1>4, <2>1, FS_Subset
  <1>6. Count(s, v) = Cardinality(Of(ToSet(s))) /\ Count(Append(s, l), v) = Cardinality(Of(ToSet(s) \cup {l}))
    BY <1>3 DEF Count
  <1>7. ASSUME l \notin ToSet(s)
        PROVE  Count(Append(s, l), v) = Count(s, v) + (IF v = vidx(l) THEN 1 ELSE 0)
    <2>1. CASE v = vidx(l)
      <3>1. Of(ToSet(s) \cup {l}) = Of(ToSet(s)) \cup {l} /\ l \notin Of(ToSet(s))
        BY <1>7, <2>1
      <3> HIDE DEF Of
      <3>2. Cardinality(Of(ToSet(s) \cup {l})) = Cardinality(Of(ToSet(s))) + 1
        BY <1>5, <3>1, FS_AddElement
      <3>3. Count(Append(s, l), v) = Count(s, v) + 1
        BY <1>6, <3>2
      <3>. QED
        BY <2>1, <3>3
    <2>2. CASE v # vidx(l)
      <3>1. Of(ToSet(s) \cup {l}) = Of(ToSet(s))
        BY <2>2
      <3> HIDE DEF Of
      <3>2. Cardinality(Of(ToSet(s))) \in Nat
        BY <1>5, FS_CardinalityType
      <3>. QED
        BY <1>6, <2>2, <3>1, <3>2
    <2>. QED
      BY <2>1, <2>2
  <1>8. Count(s, v) \in Nat
    <2> HIDE DEF Of
    <2>. QED
      BY <1>5, <1>6, FS_CardinalityType
  <1>9. Count(s, v) = 0 <=> Of(ToSet(s)) = {}
    <2> HIDE DEF Of
    <2>. QED
      BY <1>5, <1>6, FS_EmptySet
  <1>. QED
    BY <1>1, <1>3, <1>7, <1>8, <1>9

\* An assumption counts once however often it is made.
LEMMA AssumeInRight ==
  ASSUME N \in Nat, NEW m \in 0..N, NEW L \in SUBSET LitsOf(m),
         NEW s \in Seq(L), NEW F \in [1..N -> Nat], NEW l \in L
  PROVE  \E u \in Seq(L), G \in [1..N -> Nat] :
            /\ assume_in([assumptions |-> s, frozentab |-> F], l) = [assumptions |-> u, frozentab |-> G]
            /\ ToSet(u) = ToSet(s) \cup {l}
            /\ \A v \in 1..N : /\ G[v] + Count(s, v) = F[v] + Count(u, v)
                               /\ Count(u, v) \in Nat /\ Count(s, v) \in Nat
                               /\ v # vidx(l) => G[v] = F[v]
PROOF
  <1> DEFINE R == [assumptions |-> s, frozentab |-> F]
  <1>1. Contains(s, l) <=> l \in ToSet(s)
    BY LenProperties DEF Contains, ToSet
  <1>2. m \in Nat
    OBVIOUS
  <1>3. \A v : /\ ToSet(Append(s, l)) = ToSet(s) \cup {l} /\ Append(s, l) \in Seq(L)
               /\ Count(s, v) \in Nat
               /\ l \notin ToSet(s) => Count(Append(s, l), v) = Count(s, v) + (IF v = vidx(l) THEN 1 ELSE 0)
    <2> SUFFICES ASSUME NEW v
                 PROVE  /\ ToSet(Append(s, l)) = ToSet(s) \cup {l} /\ Append(s, l) \in Seq(L)
                        /\ Count(s, v) \in Nat
                        /\ l \notin ToSet(s) => Count(Append(s, l), v) = Count(s, v) + (IF v = vidx(l) THEN 1 ELSE 0)
      OBVIOUS
    <2>. QED
      BY <1>2, CountMore
  <1>4. CASE l \in ToSet(s)
    <2>1. assume_in(R, l) = R
      BY <1>1, <1>4 DEF assume_in
    <2>2. ToSet(s) = ToSet(s) \cup {l}
      BY <1>4
    <2>. QED
      BY <1>3, <2>1, <2>2
  <1>5. CASE l \notin ToSet(s)
    <2> DEFINE u == Append(s, l)
               G == [F EXCEPT ![vidx(l)] = @ + 1]
    <2>1. assume_in(R, l) = [assumptions |-> u, frozentab |-> G]
      BY <1>1, <1>5 DEF assume_in
    <2>2. vidx(l) \in 1..N
      BY DEF vidx, LitsOf
    <2>3. G \in [1..N -> Nat] /\ \A v \in 1..N : G[v] = F[v] + (IF v = vidx(l) THEN 1 ELSE 0)
      BY <2>2
    <2>4. u \in Seq(L) /\ ToSet(u) = ToSet(s) \cup {l}
      BY <1>3
    <2>5. \A v \in 1..N : Count(s, v) \in Nat /\ Count(u, v) = Count(s, v) + (IF v = vidx(l) THEN 1 ELSE 0)
      BY <1>3, <1>5
    <2> HIDE DEF G, u, R
    <2>6. \A v \in 1..N : /\ G[v] + Count(s, v) = F[v] + Count(u, v)
                          /\ Count(u, v) \in Nat /\ Count(s, v) \in Nat
                          /\ v # vidx(l) => G[v] = F[v]
      <3> SUFFICES ASSUME NEW v \in 1..N
                   PROVE  /\ G[v] + Count(s, v) = F[v] + Count(u, v)
                          /\ Count(u, v) \in Nat /\ Count(s, v) \in Nat
                          /\ v # vidx(l) => G[v] = F[v]
        OBVIOUS
      <3>1. F[v] \in Nat /\ G[v] = F[v] + (IF v = vidx(l) THEN 1 ELSE 0)
        BY <2>3
      <3>2. Count(s, v) \in Nat /\ Count(u, v) = Count(s, v) + (IF v = vidx(l) THEN 1 ELSE 0)
        BY <2>5
      <3>3. CASE v = vidx(l)
        <4>1. G[v] = F[v] + 1 /\ Count(u, v) = Count(s, v) + 1
          BY <3>1, <3>2, <3>3
        <4>2. G[v] + Count(s, v) = F[v] + Count(u, v) /\ Count(u, v) \in Nat
          <5>1. F[v] \in Nat /\ Count(s, v) \in Nat
            BY <3>1, <3>2
          <5> DEFINE a == F[v]
                     b == Count(s, v)
                     c == G[v]
                     d == Count(u, v)
          <5>2. a \in Nat /\ b \in Nat /\ c = a + 1 /\ d = b + 1
            BY <4>1, <5>1
          <5> HIDE DEF a, b, c, d
          <5>3. c + b = a + d /\ d \in Nat
            BY <5>2
          <5>. QED
            BY <5>3 DEF a, b, c, d
        <4>. QED
          BY <3>2, <3>3, <4>2
      <3>4. CASE v # vidx(l)
        BY <3>1, <3>2, <3>4
      <3>. QED
        BY <3>3, <3>4
    <2>7. assume_in(R, l) = [assumptions |-> u, frozentab |-> G] /\ G \in [1..N -> Nat]
      BY <2>1, <2>3
    <2>. QED
      BY <2>4, <2>6, <2>7 DEF R
  <1>. QED
    BY <1>4, <1>5

\* The literals of the solver are those up to its largest variable.
LEMMA ILitsAre == ILits = LitsOf(max_var)
PROOF
  <1>1. \A l : l \in ILits <=> l \in LitsOf(max_var)
    BY DEF ILits, LitsOf
  <1>. QED
    BY <1>1

\* An assumption of the user.
LEMMA AssumeRight ==
  ASSUME CInv, NEW elit \in setup.assumable, assume(elit)
  PROVE  CInv'
PROOF
  <1> DEFINE l == internal(elit)
             R == assume_in([assumptions |-> assumptions, frozentab |-> frozentab], l)
  <1>1. /\ e2i[vidx(elit)] # 0 /\ vidx(l) \notin inactive
        /\ assumptions' = R.assumptions /\ frozentab' = R.frozentab
        /\ assumed' = Append(assumed, elit)
        /\ UNCHANGED <<setup, max_var, e2i, i2e, root, inactive, clauses, given, values, freezes>>
    BY DEF assume, Usable, vars
  <1>2. CTyped /\ Paired /\ FixedRight /\ ClausesSame /\ Referenced
    BY DEF CInv
  <1>3. elit \in ExtLits
    BY <1>2, CompactAssumption DEF CTyped
  <1>4. l # 0 /\ l \in ILits
    BY <1>1, <1>2, <1>3, InternalRight
  <1>5. N \in Nat /\ max_var \in 0..N /\ assumptions \in Seq(ILits) /\ frozentab \in [1..N -> Nat]
        /\ assumed \in Seq(ExtLits)
    BY <1>2, CompactAssumption DEF CTyped
  <1>6. PICK u \in Seq(ILits), G \in [1..N -> Nat] :
            /\ R = [assumptions |-> u, frozentab |-> G]
            /\ ToSet(u) = ToSet(assumptions) \cup {l}
            /\ \A v \in 1..N : /\ G[v] + Count(assumptions, v) = frozentab[v] + Count(u, v)
                               /\ Count(u, v) \in Nat /\ Count(assumptions, v) \in Nat
                               /\ v # vidx(l) => G[v] = frozentab[v]
    <2>1. ILits \in SUBSET LitsOf(max_var)
      BY ILitsAre
    <2> HIDE DEF l
    <2>. QED
      BY <1>4, <1>5, <2>1, AssumeInRight DEF R
  <1>7. assumptions' = u /\ frozentab' = G
    BY <1>1, <1>6
  <1>8. vidx(l) \in Vars /\ vidx(l) \in 1..N
    BY <1>4, <1>5, ILiteral DEF Vars
  <1> HIDE DEF l, R
  <1>9. Append(assumed, elit) \in Seq(ExtLits) /\ ToSet(Append(assumed, elit)) = ToSet(assumed) \cup {elit}
    <2>1. /\ Append(assumed, elit) \in Seq(ExtLits)
          /\ DOMAIN Append(assumed, elit) = 1..(Len(assumed) + 1)
          /\ DOMAIN assumed = 1..Len(assumed)
          /\ Len(assumed) \in Nat
          /\ \A i \in 1..Len(assumed) : Append(assumed, elit)[i] = assumed[i]
          /\ Append(assumed, elit)[Len(assumed) + 1] = elit
      BY <1>3, <1>5, AppendProperties, LenProperties
    <2>2. 1..(Len(assumed) + 1) = (1..Len(assumed)) \cup {Len(assumed) + 1}
      BY <2>1
    <2>. QED
      BY <2>1, <2>2 DEF ToSet
  <1>10. CTyped'
    <2>1. ILits' = ILits /\ Vars' = Vars
      BY <1>1 DEF ILits, Vars
    <2>. QED
      BY <1>1, <1>2, <1>6, <1>7, <1>9, <2>1 DEF CTyped
  <1>11. Paired' /\ FixedRight' /\ ClausesSame'
    <2>1. Paired'
      BY <1>1, <1>2 DEF Paired, Vars, FixedVars
    <2>2. FixedRight'
      BY <1>1, <1>2 DEF FixedRight, FixedVars, internal
    <2>3. ClausesSame'
      BY <1>1, <1>2 DEF ClausesSame, external
    <2>. QED
      BY <2>1, <2>2, <2>3
  <1>12. Referenced'
    <2>1. ToSet(assumptions') = {internal(x)' : x \in ToSet(assumed')}
      <3>1. ToSet(assumptions) = {internal(x) : x \in ToSet(assumed)}
        BY <1>2 DEF Referenced
      <3>2. ToSet(u) = {internal(x) : x \in ToSet(assumed) \cup {elit}}
        BY <1>6, <3>1 DEF l
      <3>3. {internal(x)' : x \in ToSet(assumed')} = {internal(x) : x \in ToSet(assumed')}
        BY <1>1 DEF internal
      <3>. QED
        BY <1>1, <1>7, <1>9, <3>2, <3>3
    <2>2. \A v \in Vars : Numbered(v)' = Numbered(v)
      BY <1>1 DEF Numbered
    <2>3. ASSUME NEW v \in Vars PROVE G[v] = Count(u, v) + Total(freezes, ExtMax, Numbered(v))
      <3>1. v \in 1..N
        BY <1>5 DEF Vars
      <3>2. frozentab[v] = Count(assumptions, v) + Total(freezes, ExtMax, Numbered(v))
        BY <1>2 DEF Referenced
      <3>3. Total(freezes, ExtMax, Numbered(v)) \in Nat
        BY <1>2, CompactAssumption, TotalStep DEF CTyped, ExtVars
      <3>4. /\ G[v] + Count(assumptions, v) = frozentab[v] + Count(u, v)
            /\ Count(u, v) \in Nat /\ Count(assumptions, v) \in Nat /\ G[v] \in Nat
        BY <1>6, <3>1
      <3>. QED
        BY <3>2, <3>3, <3>4
    <2>4. ASSUME NEW v \in 1..N, v \notin Vars \/ v \in inactive PROVE G[v] = 0
      <3>1. v # vidx(l)
        BY <1>1, <1>8, <2>4 DEF l
      <3>2. frozentab[v] = 0
        BY <1>2, <2>4 DEF Referenced
      <3>. QED
        BY <1>6, <3>1, <3>2
    <2>5. \A e \in ExtVars : e2i[e] = 0 => freezes[e] = 0
      BY <1>2 DEF Referenced
    <2>6. Vars' = Vars
      BY <1>1 DEF Vars
    <2>7. \A v \in Vars' : frozentab'[v] = Count(assumptions', v) + Total(freezes', ExtMax, Numbered(v)')
      BY <1>1, <1>7, <2>2, <2>3, <2>6
    <2>8. \A v \in 1..N : v \notin Vars' \/ v \in inactive' => frozentab'[v] = 0
      BY <1>1, <1>7, <2>4, <2>6
    <2>9. \A e \in ExtVars : e2i'[e] = 0 => freezes'[e] = 0
      BY <1>1, <2>5
    <2>10. \A v : Count(assumptions, v)' = Count(assumptions', v)
      BY DEF Count
    <2>. QED
      BY <2>1, <2>7, <2>8, <2>9, <2>10 DEF Referenced
  <1>. QED
    BY <1>10, <1>11, <1>12 DEF CInv

\* A variable is frozen once more.
LEMMA FreezeRight ==
  ASSUME CInv, NEW e \in ExtVars, freeze(e)
  PROVE  CInv'
PROOF
  <1> DEFINE x == vidx(internal(e))
  <1>1. /\ e2i[vidx(e)] # 0 /\ x \notin inactive
        /\ frozentab' = [frozentab EXCEPT ![x] = @ + 1]
        /\ freezes' = [freezes EXCEPT ![e] = @ + 1]
        /\ UNCHANGED <<setup, max_var, e2i, i2e, root, inactive, clauses, assumptions, given, values, assumed>>
    BY DEF freeze, Usable, vars
  <1>2. CTyped /\ Paired /\ FixedRight /\ ClausesSame /\ Referenced
    BY DEF CInv
  <1>3. e \in ExtLits /\ vidx(e) = e /\ e \in 1..ExtMax
    BY CompactAssumption DEF ExtVars, ExtLits, vidx
  <1>4. N \in Nat /\ ExtMax \in Nat /\ max_var \in 0..N /\ frozentab \in [1..N -> Nat] /\ freezes \in [1..ExtMax -> Nat]
    BY <1>2, CompactAssumption DEF CTyped, ExtVars
  <1>5. x = vidx(e2i[e]) /\ x \in Vars /\ x \in 1..N
    <2>1. internal(e) \in ILits /\ x = vidx(e2i[e])
      BY <1>1, <1>2, <1>3, InternalRight
    <2>2. x \in Vars
      BY <1>4, <2>1, ILiteral
    <2>. QED
      BY <1>4, <2>1, <2>2 DEF Vars
  <1> HIDE DEF x
  <1>6. /\ frozentab' \in [1..N -> Nat] /\ freezes' \in [1..ExtMax -> Nat]
        /\ \A v \in 1..N : frozentab'[v] = frozentab[v] + (IF v = x THEN 1 ELSE 0)
        /\ \A i \in 1..ExtMax : freezes'[i] = freezes[i] + (IF i = e THEN 1 ELSE 0)
    <2>1. frozentab' \in [1..N -> Nat] /\ \A v \in 1..N : frozentab'[v] = frozentab[v] + (IF v = x THEN 1 ELSE 0)
      BY <1>1, <1>4, <1>5
    <2>2. freezes' \in [1..ExtMax -> Nat] /\ \A i \in 1..ExtMax : freezes'[i] = freezes[i] + (IF i = e THEN 1 ELSE 0)
      BY <1>1, <1>3, <1>4
    <2>. QED
      BY <2>1, <2>2
  <1>7. CTyped'
    <2>1. ILits' = ILits /\ Vars' = Vars
      BY <1>1 DEF ILits, Vars
    <2>. QED
      BY <1>1, <1>2, <1>6, <2>1 DEF CTyped, ExtVars
  <1>8. Paired' /\ FixedRight' /\ ClausesSame'
    <2>1. Paired'
      BY <1>1, <1>2 DEF Paired, Vars, FixedVars
    <2>2. FixedRight'
      BY <1>1, <1>2 DEF FixedRight, FixedVars, internal
    <2>3. ClausesSame'
      BY <1>1, <1>2 DEF ClausesSame, external
    <2>. QED
      BY <2>1, <2>2, <2>3
  <1>9. Referenced'
    <2>1. ToSet(assumptions') = {internal(y)' : y \in ToSet(assumed')}
      BY <1>1, <1>2 DEF Referenced, internal
    <2>2. ASSUME NEW v \in Vars
          PROVE  frozentab'[v] = Count(assumptions, v) + Total(freezes', ExtMax, Numbered(v))
      <3>1. v \in 1..N
        BY <1>4 DEF Vars
      <3>2. frozentab[v] = Count(assumptions, v) + Total(freezes, ExtMax, Numbered(v))
        BY <1>2 DEF Referenced
      <3>3. Total(freezes, ExtMax, Numbered(v)) \in Nat
        BY <1>4, TotalStep
      <3>4. e \in Numbered(v) <=> v = x
        BY <1>5 DEF Numbered
      <3>5. Total(freezes', ExtMax, Numbered(v))
            = Total(freezes, ExtMax, Numbered(v)) + (IF e \in Numbered(v) /\ e \in 1..ExtMax THEN 1 ELSE 0)
        <4> DEFINE one == 1
                   S == Numbered(v)
                   u == freezes'
        <4>1. \A i \in 1..ExtMax : freezes[i] \in Nat /\ u[i] = freezes[i] + (IF i = e THEN one ELSE 0)
          BY <1>4, <1>6
        <4>2. one \in Nat /\ ExtMax \in Nat
          BY <1>4
        <4> HIDE DEF one, S, u
        <4>3. Total(u, ExtMax, S) = Total(freezes, ExtMax, S) + (IF e \in S /\ e \in 1..ExtMax THEN one ELSE 0)
          BY <4>1, <4>2, TotalMore
        <4>. QED
          BY <4>3 DEF one, S, u
      <3>6. Count(assumptions, v) \in Nat
        <4>1. assumptions \in Seq(ILits) /\ ILits \in SUBSET LitsOf(max_var) /\ max_var \in Nat
          BY <1>2, <1>4, ILitsAre DEF CTyped
        <4>2. internal(e) \in ILits
          BY <1>1, <1>2, <1>3, InternalRight
        <4>. QED
          BY <4>1, <4>2, CountMore
      <3>7. frozentab'[v] = frozentab[v] + (IF v = x THEN 1 ELSE 0)
        BY <1>6, <3>1
      <3>8. CASE v = x
        <4>1. /\ Total(freezes', ExtMax, Numbered(v)) = Total(freezes, ExtMax, Numbered(v)) + 1
              /\ frozentab'[v] = frozentab[v] + 1
          <5>1. e \in Numbered(v)
            BY <3>4, <3>8
          <5>. QED
            BY <1>3, <3>5, <3>7, <3>8, <5>1
        <4>. QED
          BY <3>2, <3>3, <3>6, <4>1
      <3>9. CASE v # x
        <4>1. /\ Total(freezes', ExtMax, Numbered(v)) = Total(freezes, ExtMax, Numbered(v))
              /\ frozentab'[v] = frozentab[v]
          BY <3>2, <3>3, <3>4, <3>5, <3>6, <3>7, <3>9
        <4>. QED
          BY <3>2, <4>1
      <3>. QED
        BY <3>8, <3>9
    <2>3. ASSUME NEW v \in 1..N, v \notin Vars \/ v \in inactive PROVE frozentab'[v] = 0
      <3>1. v # x
        BY <1>1, <1>5, <2>3 DEF x
      <3>2. frozentab[v] = 0
        BY <1>2, <2>3 DEF Referenced
      <3>. QED
        BY <1>6, <3>1, <3>2
    <2>4. ASSUME NEW i \in ExtVars, e2i[i] = 0 PROVE freezes'[i] = 0
      <3>1. i # e /\ freezes[i] = 0
        BY <1>1, <1>2, <1>3, <2>4 DEF Referenced
      <3>. QED
        BY <1>1, <1>4, <3>1 DEF ExtVars
    <2>5. Vars' = Vars /\ \A v : Numbered(v)' = Numbered(v) /\ Count(assumptions, v)' = Count(assumptions, v)
      BY <1>1 DEF Vars, Numbered, Count
    <2>6. \A v \in Vars' : frozentab'[v] = Count(assumptions, v)' + Total(freezes', ExtMax, Numbered(v)')
      BY <2>2, <2>5
    <2>7. \A v \in 1..N : v \notin Vars' \/ v \in inactive' => frozentab'[v] = 0
      BY <1>1, <2>3, <2>5
    <2>8. \A i \in ExtVars : e2i'[i] = 0 => freezes'[i] = 0
      BY <1>1, <2>4
    <2>. QED
      BY <2>1, <2>6, <2>7, <2>8 DEF Referenced
  <1>. QED
    BY <1>7, <1>8, <1>9 DEF CInv

-----------------------------------------------------------------------------
(***************************************************************************)
(* Learned units, elimination and first uses.                              *)
(***************************************************************************)
\* A unit is learned.
LEMMA FixRight ==
  ASSUME CInv, NEW l \in ILits, fix(l)
  PROVE  CInv'
PROOF
  <1>1. /\ vidx(l) \in Active
        /\ root' = root \cup {l} /\ values' = values \cup {external(l)}
        /\ UNCHANGED <<setup, max_var, e2i, i2e, inactive, clauses, frozentab, assumptions, given, assumed, freezes>>
    BY DEF fix, assign
  <1>2. CTyped /\ Paired /\ FixedRight /\ ClausesSame /\ Referenced
    BY DEF CInv
  <1>3. Mappable /\ max_var \in Nat /\ root \subseteq ILits
    BY <1>2, InvMappable DEF CTyped
  <1>4. /\ l \in Int /\ -l \in ILits /\ -(-l) = l /\ -l # l /\ vidx(l) \in Vars /\ l \in ALits /\ -l \in ALits
        /\ vidx(l) \notin FixedVars /\ vidx(l) \notin inactive
    <2>1. l \in Int /\ -l \in ILits /\ -(-l) = l /\ -l # l /\ vidx(l) \in Vars /\ vidx(-l) = vidx(l)
      BY <1>3, ILiteral
    <2>2. vidx(l) \notin FixedVars /\ vidx(l) \notin inactive
      BY <1>1, <1>3, FixedLiteral
    <2>. QED
      BY <1>1, <2>1, <2>2 DEF ALits
  <1>5. l \notin root /\ -l \notin root
    BY <1>3, <1>4, FixedLiteral
  <1>6. external(l) \in ExtLits /\ internal(external(l)) = l /\ external(-l) = -external(l)
    BY <1>2, <1>4, ExternalRight
  <1> DEFINE x == external(l)
  <1>7. x \in Int /\ -x \in ExtLits
    BY <1>6, ExtLiteral
  <1>8. x \notin values /\ -x \notin values
    <2>1. (x \in values <=> internal(x) \in root) /\ (-x \in values <=> -internal(x) \in root)
      BY <1>2, <1>6, InternalRight
    <2>. QED
      BY <1>5, <1>6, <2>1
  <1>9. CTyped'
    <2>1. ILits' = ILits /\ Vars' = Vars
      BY <1>1 DEF ILits, Vars
    <2>. QED
      BY <1>1, <1>2, <1>6, <2>1 DEF CTyped
  <1>10. FixedVars' = FixedVars \cup {vidx(l)}
    BY <1>1 DEF FixedVars
  <1>11. Paired'
    BY <1>1, <1>2, <1>10 DEF Paired, Vars
  <1>12. FixedRight'
    <2>1. \A k \in root' : -k \notin root'
      <3> SUFFICES ASSUME NEW k \in root', -k \in root' PROVE FALSE
        OBVIOUS
      <3>1. k \in Int /\ -(-k) = k
        BY <1>1, <1>3, ILiteral
      <3>2. CASE k \in root
        <4>1. -k = l
          BY <1>1, <1>2, <3>2 DEF FixedRight
        <4>2. k = -l
          BY <3>1, <4>1
        <4>. QED
          BY <1>5, <3>2, <4>2
      <3>3. CASE k = l
        BY <1>1, <1>4, <1>5, <3>3
      <3>. QED
        BY <1>1, <3>2, <3>3
    <2>2. FixedVars' \cap inactive' = {}
      BY <1>1, <1>2, <1>4, <1>10 DEF FixedRight
    <2>3. ASSUME NEW elit \in ExtLits PROVE elit \in values' <=> internal(elit) \in root'
      <3>1. /\ elit \in values <=> internal(elit) \in root
            /\ internal(elit) # 0 /\ vidx(internal(elit)) \notin FixedVars => external(internal(elit)) = elit
        BY <1>2, InternalRight
      <3>2. ASSUME internal(elit) = l PROVE elit = x
        <4>1. internal(elit) # 0
          BY <1>3, <3>2, ILiteral
        <4>. QED
          BY <1>4, <3>1, <3>2, <4>1
      <3>. QED
        BY <1>1, <1>6, <3>1, <3>2
    <2>4. \A elit : internal(elit)' = internal(elit)
      BY <1>1 DEF internal
    <2>. QED
      BY <2>1, <2>2, <2>3, <2>4 DEF FixedRight
  <1>13. ClausesSame'
    <2> DEFINE S == Simplified(clauses, root)
               U == Simplified(given, values)
    <2>1. S \in SUBSET SUBSET ALits /\ Renamed(outer, S) = U
      BY <1>2, Remaining, ClausesRenamed
    <2>2. Simplified(clauses', root') = Dropped(S, l, -l)
      <3>1. /\ ILits \in SUBSET Int /\ clauses \in SUBSET SUBSET ILits /\ root \in SUBSET ILits
        BY <1>2 DEF CTyped, ILits
      <3>2. Simplified(clauses, root \cup {l}) = Dropped(Simplified(clauses, root), l, -l)
        BY <1>5, <3>1, SimplifiedFixed
      <3>. QED
        BY <1>1, <3>2
    <2>3. Simplified(given', values') = Dropped(U, x, -x)
      <3>1. /\ ExtLits \in SUBSET Int /\ given \in SUBSET SUBSET ExtLits /\ values \in SUBSET ExtLits
        BY <1>2, ExtLiteral DEF CTyped
      <3> HIDE DEF x
      <3>2. x \in ExtLits
        BY <1>6 DEF x
      <3>3. Simplified(given, values \cup {x}) = Dropped(Simplified(given, values), x, -x)
        BY <1>8, <3>1, <3>2, SimplifiedFixed
      <3>. QED
        BY <1>1, <3>3 DEF x
    <2>4. outer[l] = x /\ outer[-l] = -x /\ \A k, j \in ALits : outer[k] = outer[j] => k = j
      BY <1>2, <1>4, <1>6, OuterRight
    <2> HIDE DEF S, U, x
    <2>5. Renamed(outer, Dropped(S, l, -l))
          = Dropped(Renamed(outer, S), outer[l], outer[-l])
      <3> DEFINE m == -l
      <3>1. m \in ALits /\ l \in ALits /\ \A k, j \in ALits : outer[k] = outer[j] => k = j
        BY <1>4, <2>4
      <3> HIDE DEF m
      <3>2. Renamed(outer, Dropped(S, l, m)) = Dropped(Renamed(outer, S), outer[l], outer[m])
        BY <2>1, <3>1, RenamedFixed
      <3>. QED
        BY <3>2 DEF m
    <2>6. Renamed(outer, Dropped(S, l, -l)) = Dropped(U, x, -x)
      BY <2>1, <2>4, <2>5
    <2>7. \A c \in clauses' : \A k \in c : vidx(k) \notin inactive'
      BY <1>1, <1>2 DEF ClausesSame
    <2>8. {{external(k)' : k \in d} : d \in Simplified(clauses', root')}
          = Renamed(outer, Simplified(clauses', root'))
      <3> DEFINE V == Simplified(clauses', root')
      <3>1. V \in SUBSET SUBSET ALits
        BY <2>1, <2>2 DEF Dropped
      <3> HIDE DEF V
      <3>2. \A k \in ALits : external(k)' = outer[k]
        BY <1>1 DEF external, outer
      <3>3. \A d \in V : {external(k)' : k \in d} = {outer[k] : k \in d}
        BY <3>1, <3>2
      <3>4. {{external(k)' : k \in d} : d \in V} = Renamed(outer, V)
        BY <3>3 DEF Renamed
      <3>. QED
        BY <3>4 DEF V
    <2>9. {{external(k)' : k \in d} : d \in Simplified(clauses', root')} = Simplified(given', values')
      BY <2>2, <2>3, <2>6, <2>8
    <2>. QED
      BY <2>7, <2>9 DEF ClausesSame
  <1>14. Referenced'
    BY <1>1, <1>2 DEF Referenced, Numbered, internal, Vars, Count
  <1>. QED
    BY <1>9, <1>11, <1>12, <1>13, <1>14 DEF CInv

\* A variable is eliminated with its clauses.
LEMMA EliminateRight ==
  ASSUME CInv, NEW v \in Vars, eliminate(v)
  PROVE  CInv'
PROOF
  <1> DEFINE e == i2e[v]
  <1>1. /\ v \in Active /\ frozentab[v] = 0
        /\ inactive' = inactive \cup {v}
        /\ clauses' = {c \in clauses : {v, -v} \cap c = {}}
        /\ given' = {c \in given : {e, -e} \cap c = {}}
        /\ UNCHANGED <<setup, max_var, e2i, i2e, root, frozentab, assumptions, values, assumed, freezes>>
    BY DEF eliminate, vars
  <1>2. CTyped /\ Paired /\ FixedRight /\ ClausesSame /\ Referenced
    BY DEF CInv
  <1>3. Mappable /\ max_var \in Nat
    BY <1>2, InvMappable DEF CTyped
  <1>4. v \in ILits /\ vidx(v) = v /\ v \in Int /\ v > 0
    BY <1>3 DEF Vars, ILits, vidx
  <1>5. -v \in ILits /\ vidx(-v) = v /\ -(-v) = v /\ v \in ALits /\ -v \in ALits /\ v \notin FixedVars
    <2>1. -v \in ILits /\ vidx(-v) = v /\ -(-v) = v
      BY <1>3, <1>4, ILiteral
    <2>. QED
      BY <1>1, <1>3, <1>4, <2>1, FixedLiteral DEF ALits
  <1>6. v \notin root /\ -v \notin root
    BY <1>3, <1>4, <1>5, FixedLiteral
  <1>7. external(v) = e /\ external(-v) = -e /\ e \in ExtLits /\ internal(e) = v
    <2>1. external(v) = e
      BY <1>4 DEF external, Signed
    <2>2. external(v) \in ExtLits /\ internal(external(v)) = v /\ external(-v) = -external(v)
      BY <1>2, <1>4, <1>5, ExternalRight
    <2>. QED
      BY <2>1, <2>2
  <1>8. e \notin values /\ -e \notin values /\ e \in Int
    <2>1. (e \in values <=> internal(e) \in root) /\ (-e \in values <=> -internal(e) \in root)
      BY <1>2, <1>7, InternalRight
    <2>. QED
      BY <1>6, <1>7, <2>1, ExtLiteral
  <1> HIDE DEF e
  <1>9. CTyped'
    <2>1. ILits' = ILits /\ Vars' = Vars
      BY <1>1 DEF ILits, Vars
    <2>. QED
      BY <1>1, <1>2, <2>1 DEF CTyped
  <1>10. Paired'
    BY <1>1, <1>2 DEF Paired, Vars, FixedVars
  <1>11. FixedRight'
    BY <1>1, <1>2, <1>5 DEF FixedRight, FixedVars, internal
  <1>12. ClausesSame'
    <2> DEFINE S == Simplified(clauses, root)
               U == Simplified(given, values)
    <2>1. S \in SUBSET SUBSET ALits /\ Renamed(outer, S) = U
      BY <1>2, Remaining, ClausesRenamed
    <2>2. Simplified(clauses', root') = Fewer(S, v, -v)
      <3>1. v \notin Negated(root) /\ -v \notin Negated(root)
        <4>1. root \in SUBSET Int
          BY <1>2 DEF CTyped, ILits
        <4>. QED
          BY <1>4, <1>5, <1>6, <4>1, NegatedMember
      <3>2. Simplified(Fewer(clauses, v, -v), root)
            = Fewer(Simplified(clauses, root), v, -v)
        BY <3>1, SimplifiedFewer
      <3>. QED
        BY <1>1, <3>2 DEF Fewer
    <2>3. Simplified(given', values') = Fewer(U, e, -e)
      <3>1. e \notin Negated(values) /\ -e \notin Negated(values)
        <4>1. values \in SUBSET Int
          BY <1>2, ExtLiteral DEF CTyped
        <4>2. -e \in Int /\ -(-e) = e
          BY <1>8
        <4>. QED
          BY <1>8, <4>1, <4>2, NegatedMember
      <3>2. Simplified(Fewer(given, e, -e), values)
            = Fewer(Simplified(given, values), e, -e)
        BY <3>1, SimplifiedFewer
      <3>. QED
        BY <1>1, <3>2 DEF Fewer
    <2>4. outer[v] = e /\ outer[-v] = -e /\ \A k, j \in ALits : outer[k] = outer[j] => k = j
      BY <1>2, <1>5, <1>7, OuterRight
    <2> HIDE DEF S, U
    <2>5. Renamed(outer, Fewer(S, v, -v))
          = Fewer(Renamed(outer, S), outer[v], outer[-v])
      BY <1>5, <2>1, <2>4, RenamedFewer
    <2>6. \A c \in clauses' : \A k \in c : vidx(k) \notin inactive'
      <3> SUFFICES ASSUME NEW c \in clauses', NEW k \in c PROVE vidx(k) \notin inactive'
        OBVIOUS
      <3>1. c \in clauses /\ k # v /\ k # -v
        BY <1>1
      <3>2. vidx(k) \notin inactive /\ k \in Int
        BY <1>2, <3>1 DEF ClausesSame, CTyped, ILits
      <3>3. vidx(k) # v
        BY <3>1, <3>2 DEF vidx
      <3>. QED
        BY <1>1, <3>2, <3>3
    <2>7. {{external(k)' : k \in d} : d \in Simplified(clauses', root')}
          = Renamed(outer, Simplified(clauses', root'))
      <3> DEFINE V == Simplified(clauses', root')
      <3>1. V \in SUBSET SUBSET ALits
        BY <2>1, <2>2 DEF Fewer
      <3> HIDE DEF V
      <3>2. \A k \in ALits : external(k)' = outer[k]
        BY <1>1 DEF external, outer
      <3>3. \A d \in V : {external(k)' : k \in d} = {outer[k] : k \in d}
        BY <3>1, <3>2
      <3>4. {{external(k)' : k \in d} : d \in V} = Renamed(outer, V)
        BY <3>3 DEF Renamed
      <3>. QED
        BY <3>4 DEF V
    <2>8. {{external(k)' : k \in d} : d \in Simplified(clauses', root')} = Simplified(given', values')
      BY <2>1, <2>2, <2>3, <2>4, <2>5, <2>7
    <2>. QED
      BY <2>6, <2>8 DEF ClausesSame
  <1>13. Referenced'
    <2>1. \A u \in 1..N : u \notin Vars' \/ u \in inactive' => frozentab'[u] = 0
      BY <1>1, <1>2 DEF Referenced, Vars
    <2>. QED
      BY <1>1, <1>2, <2>1 DEF Referenced, Numbered, internal, Vars, Count
  <1>. QED
    BY <1>9, <1>10, <1>11, <1>12, <1>13 DEF CInv

\* The first use of a variable of the user, or one after it was given up.
LEMMA InternalizeRight ==
  ASSUME CInv, NEW e \in ExtVars, internalize(e)
  PROVE  CInv'
PROOF
  <1>1. CTyped /\ Paired /\ FixedRight /\ ClausesSame /\ Referenced
    BY DEF CInv
  <1>2. N \in Nat /\ ExtMax \in Nat /\ max_var \in 0..N /\ max_var \in Nat
    BY <1>1, CompactAssumption DEF CTyped
  <1>3. CASE UNCHANGED <<vars, e2i, i2e, root, clauses, frozentab, assumptions, outside>>
             /\ inactive' = inactive \ {vidx(e2i[e])}
    <2>1. UNCHANGED <<setup, max_var, e2i, i2e, root, clauses, frozentab, assumptions, given, values, assumed, freezes>>
      BY <1>3 DEF vars, outside
    <2>2. CTyped'
      BY <1>1, <1>3, <2>1 DEF CTyped, ILits, Vars
    <2>3. Paired'
      BY <1>1, <2>1 DEF Paired, Vars, FixedVars
    <2>4. FixedRight'
      BY <1>1, <1>3, <2>1 DEF FixedRight, FixedVars, internal
    <2>5. ClausesSame'
      BY <1>1, <1>3, <2>1 DEF ClausesSame, external
    <2>6. Referenced'
      BY <1>1, <1>3, <2>1 DEF Referenced, Numbered, internal, Vars, Count
    <2>. QED
      BY <2>2, <2>3, <2>4, <2>5, <2>6 DEF CInv
  <1>4. CASE /\ e2i[e] = 0 /\ max_var < N
             /\ init_vars(max_var + 1, Assigned \ FixedVars)
             /\ e2i' = [e2i EXCEPT ![e] = max_var + 1]
             /\ i2e' = [i2e EXCEPT ![max_var + 1] = e]
             /\ UNCHANGED <<root, inactive, clauses, frozentab, assumptions, outside>>
    <2> DEFINE n == max_var + 1
    <2>1. /\ max_var' = n /\ setup' = setup
          /\ UNCHANGED <<root, inactive, clauses, frozentab, assumptions, given, values, assumed, freezes>>
      BY <1>4 DEF init_vars, outside
    <2>2. n \in 1..N /\ n \notin Vars /\ n # 0 /\ Vars' = Vars \cup {n} /\ n \in Int /\ vidx(n) = n
      BY <1>2, <1>4, <2>1 DEF Vars, vidx
    <2>3. /\ e2i \in [ExtVars -> (-max_var)..max_var] /\ i2e \in [1..N -> 0..ExtMax]
          /\ root \subseteq ILits /\ assumptions \in Seq(ILits) /\ clauses \subseteq SUBSET ILits
      BY <1>1 DEF CTyped
    <2>4. /\ e2i' \in [ExtVars -> (-n)..n] /\ e2i'[e] = n
          /\ \A i \in ExtVars : i # e => e2i'[i] = e2i[i]
      <3>1. \A k \in (-max_var)..max_var : k \in (-n)..n
        BY <1>2
      <3>2. n \in (-n)..n
        BY <1>2
      <3>. QED
        BY <1>4, <2>3, <3>1, <3>2
    <2>5. i2e' \in [1..N -> 0..ExtMax] /\ i2e'[n] = e /\ \A v \in Vars : i2e'[v] = i2e[v]
      <3>1. e \in 0..ExtMax
        BY <1>2 DEF ExtVars
      <3>2. Vars \subseteq 1..N
        BY <1>2 DEF Vars
      <3>. QED
        BY <1>4, <2>2, <2>3, <3>1, <3>2
    <2> HIDE DEF n
    <2>6. ILits \subseteq ILits'
      BY <1>2, <2>1 DEF ILits, n
    <2>7. FixedVars' = FixedVars /\ FixedVars \subseteq Vars
      BY <1>2, <2>1, <2>3, FirstFixed DEF FixedVars
    <2>8. CTyped'
      <3>1. assumptions' \in Seq(ILits')
        BY <2>1, <2>3, <2>6
      <3>2. inactive' \subseteq Vars'
        BY <1>1, <2>1, <2>2 DEF CTyped
      <3>3. max_var' \in 0..N /\ e2i' \in [ExtVars -> (-max_var')..max_var']
        BY <1>2, <2>1, <2>2, <2>4
      <3>4. root' \subseteq ILits' /\ clauses' \subseteq SUBSET ILits'
        BY <2>1, <2>3, <2>6
      <3>. QED
        BY <1>1, <2>1, <2>5, <3>1, <3>2, <3>3, <3>4 DEF CTyped
    <2>9. Paired'
      <3>1. ASSUME NEW v \in Vars' \ FixedVars' PROVE i2e'[v] \in ExtVars /\ e2i'[i2e'[v]] = v
        <4>1. CASE v = n
          BY <2>4, <2>5, <4>1
        <4>2. CASE v \in Vars
          <5>1. i2e[v] \in ExtVars /\ e2i[i2e[v]] = v
            BY <1>1, <2>7, <3>1, <4>2 DEF Paired
          <5>2. v # 0
            BY <4>2 DEF Vars
          <5>3. i2e[v] # e
            BY <1>4, <5>1, <5>2
          <5>. QED
            BY <2>4, <2>5, <4>2, <5>1, <5>3
        <4>. QED
          BY <2>2, <4>1, <4>2
      <3>2. ASSUME NEW i \in ExtVars, e2i'[i] # 0, vidx(e2i'[i]) \notin FixedVars'
            PROVE  e2i'[i] \in Vars' /\ i2e'[e2i'[i]] = i
        <4>1. CASE i = e
          BY <2>2, <2>4, <2>5, <4>1
        <4>2. CASE i # e
          <5>1. e2i[i] \in Vars /\ i2e[e2i[i]] = i /\ e2i'[i] = e2i[i]
            BY <1>1, <2>4, <2>7, <3>2, <4>2 DEF Paired
          <5>. QED
            BY <2>2, <2>5, <5>1
        <4>. QED
          BY <4>1, <4>2
      <3>. QED
        BY <3>1, <3>2 DEF Paired
    <2>10. ASSUME NEW elit \in ExtLits, vidx(elit) # e PROVE internal(elit)' = internal(elit)
      <3>1. vidx(elit) \in ExtVars
        BY ExtLiteral
      <3>2. e2i'[vidx(elit)] = e2i[vidx(elit)]
        BY <2>4, <2>10, <3>1
      <3>. QED
        BY <3>2 DEF internal
    <2>11. ASSUME NEW elit \in ExtLits, vidx(elit) = e
           PROVE  internal(elit) = 0 /\ (internal(elit)' = n \/ internal(elit)' = -n)
      <3>1. internal(elit) = 0
        BY <1>1, <1>4, <2>11, InternalRight
      <3>2. internal(elit)' = Signed(n, elit)
        BY <2>4, <2>11 DEF internal
      <3>. QED
        BY <3>1, <3>2 DEF Signed
    <2>12. FixedRight'
      <3>1. ASSUME NEW elit \in ExtLits PROVE elit \in values' <=> internal(elit)' \in root'
        <4>1. elit \in values <=> internal(elit) \in root
          BY <1>1 DEF FixedRight
        <4>2. CASE vidx(elit) # e
          BY <2>1, <2>10, <4>1, <4>2
        <4>3. CASE vidx(elit) = e
          <5>1. 0 \notin root /\ n \notin root /\ -n \notin root
            BY <1>2, <2>3 DEF ILits, n
          <5>. QED
            BY <2>1, <2>11, <4>1, <4>3, <5>1
        <4>. QED
          BY <4>2, <4>3
      <3>. QED
        BY <1>1, <2>1, <2>7, <3>1 DEF FixedRight
    <2>13. ClausesSame'
      <3> DEFINE S == Simplified(clauses, root)
      <3>1. S \in SUBSET SUBSET ILits
        <4>1. S \in SUBSET SUBSET ALits
          BY <1>1, Remaining
        <4>. QED
          BY <4>1 DEF ALits
      <3>2. ASSUME NEW l \in ILits PROVE external(l)' = external(l)
        <4>1. vidx(l) \in Vars
          BY <1>2, ILiteral
        <4>. QED
          BY <2>5, <4>1 DEF external
      <3>3. {{external(l) : l \in d} : d \in S} = Simplified(given, values)
        BY <1>1 DEF ClausesSame
      <3> HIDE DEF S
      <3>4. \A d \in S : {external(l)' : l \in d} = {external(l) : l \in d}
        BY <3>1, <3>2
      <3>5. {{external(l)' : l \in d} : d \in S} = Simplified(given, values)
        BY <3>3, <3>4
      <3>. QED
        BY <1>1, <2>1, <3>5 DEF ClausesSame, S
    <2>14. Referenced'
      <3>1. ToSet(assumptions') = {internal(elit)' : elit \in ToSet(assumed')}
        <4>1. ToSet(assumptions) \subseteq ILits
          BY <2>3, LenProperties DEF ToSet
        <4>2. ToSet(assumed) \subseteq ExtLits
          BY <1>1, LenProperties DEF ToSet, CTyped
        <4>3. ToSet(assumptions) = {internal(elit) : elit \in ToSet(assumed)}
          BY <1>1 DEF Referenced
        <4>4. ASSUME NEW elit \in ToSet(assumed) PROVE internal(elit)' = internal(elit)
          <5>1. internal(elit) \in ILits /\ elit \in ExtLits
            BY <4>1, <4>2, <4>3
          <5>2. internal(elit) # 0
            BY <5>1 DEF ILits
          <5>. QED
            BY <2>10, <2>11, <5>1, <5>2
        <4>. QED
          BY <2>1, <4>3, <4>4
      <3>2. ASSUME NEW v \in Vars'
            PROVE  frozentab'[v] = Count(assumptions', v) + Total(freezes', ExtMax, Numbered(v)')
        <4>1. CASE v \in Vars
          <5>1. v # 0 /\ v # n
            BY <2>2, <4>1 DEF Vars
          <5>2. ASSUME NEW i \in ExtVars PROVE vidx(e2i'[i]) = v <=> vidx(e2i[i]) = v
            <6>1. CASE i = e
              <7>1. vidx(e2i'[i]) = n /\ vidx(e2i[i]) = 0
                BY <1>4, <2>2, <2>4, <6>1 DEF vidx
              <7>. QED
                BY <5>1, <7>1
            <6>2. CASE i # e
              BY <2>4, <6>2
            <6>. QED
              BY <6>1, <6>2
          <5>3. Numbered(v)' = Numbered(v)
            BY <5>2 DEF Numbered
          <5>. QED
            BY <1>1, <2>1, <4>1, <5>3 DEF Referenced
        <4>2. CASE v = n
          <5>1. frozentab'[n] = 0
            BY <1>1, <2>1, <2>2 DEF Referenced
          <5>2. Count(assumptions, n) = 0
            <6>1. max_var \in Nat /\ ILits \in SUBSET LitsOf(max_var)
              BY <1>2, ILitsAre
            <6>2. \A k \in ToSet(assumptions) : vidx(k) # n
              <7>1. ToSet(assumptions) \subseteq ILits
                BY <2>3, LenProperties DEF ToSet
              <7>. QED
                BY <1>2, <2>2, <7>1, ILiteral
            <6>3. CASE ILits = {}
              <7>1. ToSet(assumptions) = {}
                BY <2>3, <6>3, LenProperties DEF ToSet
              <7>2. {l \in ToSet(assumptions) : vidx(l) = n} = {}
                BY <7>1
              <7>. QED
                BY <7>2, FS_EmptySet DEF Count
            <6>4. CASE ILits # {}
              BY <2>3, <6>1, <6>2, <6>4, CountMore
            <6>. QED
              BY <6>3, <6>4
          <5> DEFINE P == {i \in ExtVars : vidx(e2i'[i]) = n}
          <5>3. ASSUME NEW i \in ExtVars, vidx(e2i'[i]) = n PROVE freezes[i] = 0
            <6>1. i = e
              <7> SUFFICES ASSUME i # e PROVE FALSE
                OBVIOUS
              <7>1. e2i'[i] = e2i[i] /\ e2i[i] \in (-max_var)..max_var
                BY <2>3, <2>4
              <7>. QED
                BY <1>2, <5>3, <7>1 DEF vidx, n
            <6>. QED
              BY <1>1, <1>4, <6>1 DEF Referenced
          <5>4. Total(freezes, ExtMax, P) = 0
            <6>1. \A i \in 1..ExtMax : freezes[i] \in Nat
              BY <1>1 DEF CTyped, ExtVars
            <6>2. \A i \in 1..ExtMax : i \in P => freezes[i] = 0
              BY <5>3
            <6> HIDE DEF P
            <6>. QED
              BY <1>2, <6>1, <6>2, TotalNone
          <5>5. Numbered(v)' = P
            BY <4>2 DEF Numbered
          <5> HIDE DEF P
          <5>6. Total(freezes', ExtMax, Numbered(v)') = 0
            BY <2>1, <5>4, <5>5
          <5>7. Count(assumptions', v) = 0 /\ frozentab'[v] = 0
            BY <2>1, <4>2, <5>1, <5>2
          <5>. QED
            BY <5>6, <5>7
        <4>. QED
          BY <2>2, <4>1, <4>2
      <3>3. \A v \in 1..N : v \notin Vars' \/ v \in inactive' => frozentab'[v] = 0
        BY <1>1, <2>1, <2>2 DEF Referenced
      <3>4. \A i \in ExtVars : e2i'[i] = 0 => freezes'[i] = 0
        BY <1>1, <2>1, <2>2, <2>4 DEF Referenced
      <3>5. \A v : Count(assumptions, v)' = Count(assumptions', v)
        BY DEF Count
      <3>. QED
        BY <3>1, <3>2, <3>3, <3>4, <3>5 DEF Referenced
    <2>. QED
      BY <2>8, <2>9, <2>12, <2>13, <2>14 DEF CInv
  <1>. QED
    BY <1>3, <1>4 DEF internalize


-----------------------------------------------------------------------------
(***************************************************************************)
(* Compaction.                                                             *)
(***************************************************************************)
\* The i-th assumption under the numbers of map, and what the loop that makes
\* them again has after its i-th turn.
Again(map, i) == Signed(map[vidx(assumed[i])], assumed[i])
Turn(map, g, i) ==
    IF i = 0 THEN [assumptions |-> <<>>, frozentab |-> MappedFrozen]
    ELSE assume_in(g[i - 1], Again(map, i))

\* The loop runs.
LEMMA ReassumedRuns ==
  ASSUME NEW map, assumed \in Seq(ExtLits)
  PROVE  \E R : R = [i \in 0..Len(assumed) |-> Turn(map, R, i)] /\ reassumed(map) = R[Len(assumed)]
PROOF
  <1> DEFINE n == Len(assumed)
             Good == {m \in Nat : m <= n => \E f : f = [i \in 0..m |-> Turn(map, f, i)]}
             R == CHOOSE g : g = [i \in 0..n |-> Turn(map, g, i)]
  <1>1. n \in Nat
    BY LenProperties
  <1>2. 0 \in Good
    <2> DEFINE x == [assumptions |-> <<>>, frozentab |-> MappedFrozen]
               f == [i \in 0..0 |-> x]
    <2> HIDE DEF x
    <2>1. \A i \in 0..0 : f[i] = Turn(map, f, i)
      BY DEF Turn, x
    <2>2. f = [i \in 0..0 |-> f[i]]
      OBVIOUS
    <2> HIDE DEF f
    <2>3. f = [i \in 0..0 |-> Turn(map, f, i)]
      BY <2>1, <2>2
    <2>. QED
      BY <2>3
  <1>3. ASSUME NEW m \in Nat, m \in Good PROVE m + 1 \in Good
    <2> SUFFICES ASSUME m + 1 <= n PROVE \E g : g = [i \in 0..(m + 1) |-> Turn(map, g, i)]
      OBVIOUS
    <2>1. PICK f : f = [i \in 0..m |-> Turn(map, f, i)]
      BY <1>3
    <2> DEFINE x == assume_in(f[m], Again(map, m + 1))
               g == [i \in 0..(m + 1) |-> IF i = m + 1 THEN x ELSE f[i]]
    <2>2. \A i \in 0..m : f[i] = Turn(map, f, i)
      BY <2>1
    <2> HIDE DEF x
    <2>3. \A i \in 0..m : g[i] = f[i] /\ (i > 0 => g[i - 1] = f[i - 1])
      OBVIOUS
    <2>4. g[m + 1] = x /\ (m + 1) - 1 = m /\ m + 1 # 0 /\ m \in 0..m
      OBVIOUS
    <2>5. g = [i \in 0..(m + 1) |-> g[i]]
      OBVIOUS
    <2> HIDE DEF g
    <2>6. g[m + 1] = Turn(map, g, m + 1)
      BY <2>3, <2>4 DEF Turn, x
    <2>7. \A i \in 0..m : g[i] = Turn(map, g, i)
      <3> SUFFICES ASSUME NEW i \in 0..m PROVE g[i] = Turn(map, g, i)
        OBVIOUS
      <3>1. Turn(map, g, i) = Turn(map, f, i)
        <4>1. CASE i = 0
          BY <4>1 DEF Turn
        <4>2. CASE i > 0
          <5>1. g[i - 1] = f[i - 1]
            BY <2>3, <4>2
          <5>. QED
            BY <5>1 DEF Turn
        <4>. QED
          BY <4>1, <4>2
      <3>. QED
        BY <2>2, <2>3, <3>1
    <2>8. \A i \in 0..(m + 1) : g[i] = Turn(map, g, i)
      <3>1. \A i \in 0..(m + 1) : i = m + 1 \/ i \in 0..m
        OBVIOUS
      <3>. QED
        BY <2>6, <2>7, <3>1
    <2>9. g = [i \in 0..(m + 1) |-> Turn(map, g, i)]
      BY <2>5, <2>8
    <2>. QED
      BY <2>9
  <1> HIDE DEF Good
  <1>4. n \in Good
    BY <1>1, <1>2, <1>3, NatInd
  <1>5. \E f : f = [i \in 0..n |-> Turn(map, f, i)]
    BY <1>1, <1>4 DEF Good
  <1>6. R = [i \in 0..n |-> Turn(map, R, i)]
    <2> HIDE DEF n
    <2>. QED
      BY <1>5
  <1>7. reassumed(map) = R[n]
    BY DEF reassumed, Turn, Again
  <1> HIDE DEF R
  <1>. QED
    BY <1>6, <1>7

\* Nothing is assumed: nothing counts.
LEMMA CountNone ==
  ASSUME NEW v
  PROVE  Count(<<>>, v) = 0 /\ ToSet(<<>>) = {}
PROOF
  <1>1. ToSet(<<>>) = {}
    BY DEF ToSet
  <1>2. {l \in ToSet(<<>>) : vidx(l) = v} = {}
    BY <1>1
  <1>. QED
    BY <1>1, <1>2, FS_EmptySet DEF Count

\* What making assumption l does: what AssumeInRight says, and what it says of
\* counts that were right before.
Made(s, F, l, L) ==
    \E u \in Seq(L), G \in [1..N -> Nat] :
        /\ assume_in([assumptions |-> s, frozentab |-> F], l) = [assumptions |-> u, frozentab |-> G]
        /\ ToSet(u) = ToSet(s) \cup {l}
        /\ \A v \in 1..N : /\ G[v] + Count(s, v) = F[v] + Count(u, v)
                           /\ Count(u, v) \in Nat /\ Count(s, v) \in Nat
                           /\ v # vidx(l) => G[v] = F[v]
Counted(s, F, E) == \A v \in 1..N : F[v] = E[v] + Count(s, v) /\ Count(s, v) \in Nat
MadeCounted(s, F, E, l, L) ==
    \E u \in Seq(L), G \in [1..N -> Nat] :
        /\ assume_in([assumptions |-> s, frozentab |-> F], l) = [assumptions |-> u, frozentab |-> G]
        /\ ToSet(u) = ToSet(s) \cup {l}
        /\ Counted(u, G, E)

\* One assumption is made.
LEMMA AssumeMade ==
  ASSUME N \in Nat, NEW m \in 0..N, NEW L \in SUBSET LitsOf(m),
         NEW s \in Seq(L), NEW F \in [1..N -> Nat], NEW l \in L
  PROVE  Made(s, F, l, L)
BY AssumeInRight DEF Made

\* One more assumption is made.
LEMMA AssumeNext ==
  ASSUME N \in Nat, NEW k \in 0..N, NEW L \in SUBSET LitsOf(k),
         NEW s \in Seq(L), NEW F \in [1..N -> Nat], NEW E \in [1..N -> Nat], NEW l \in L,
         Counted(s, F, E)
  PROVE  MadeCounted(s, F, E, l, L)
PROOF
  <1>0. Made(s, F, l, L)
    BY AssumeMade
  <1>1. PICK u \in Seq(L), G \in [1..N -> Nat] :
            /\ assume_in([assumptions |-> s, frozentab |-> F], l) = [assumptions |-> u, frozentab |-> G]
            /\ ToSet(u) = ToSet(s) \cup {l}
            /\ \A v \in 1..N : /\ G[v] + Count(s, v) = F[v] + Count(u, v)
                               /\ Count(u, v) \in Nat /\ Count(s, v) \in Nat
                               /\ v # vidx(l) => G[v] = F[v]
    BY <1>0 DEF Made
  <1>2. ASSUME NEW v \in 1..N PROVE G[v] = E[v] + Count(u, v) /\ Count(u, v) \in Nat
    <2> DEFINE a == F[v]
               b == E[v]
               c == Count(s, v)
               d == G[v]
               e == Count(u, v)
    <2>1. a \in Nat /\ b \in Nat /\ c \in Nat /\ d \in Nat /\ e \in Nat
      BY <1>1
    <2>2. a = b + c
      BY DEF Counted
    <2>3. d + c = a + e
      BY <1>1
    <2> HIDE DEF a, b, c, d, e
    <2>4. d = b + e
      BY <2>1, <2>2, <2>3
    <2>. QED
      BY <2>1, <2>4 DEF b, d, e
  <1>3. Counted(u, G, E)
    BY <1>2 DEF Counted
  <1>. QED
    BY <1>1, <1>3 DEF MadeCounted

\* Every assumption is made again, once, and counted.
LEMMA ReassumedRight ==
  ASSUME N \in Nat, NEW k \in 0..N, NEW map, assumed \in Seq(ExtLits),
         MappedFrozen \in [1..N -> Nat],
         \A i \in 1..Len(assumed) : Again(map, i) \in LitsOf(k)
  PROVE  \E u \in Seq(LitsOf(k)), G \in [1..N -> Nat] :
            /\ reassumed(map) = [assumptions |-> u, frozentab |-> G]
            /\ ToSet(u) = {Again(map, i) : i \in 1..Len(assumed)}
            /\ Counted(u, G, MappedFrozen)
PROOF
  <1> DEFINE n == Len(assumed)
             K == LitsOf(k)
             Fine(r, i) == \E u \in Seq(K), G \in [1..N -> Nat] :
                 /\ r = [assumptions |-> u, frozentab |-> G]
                 /\ ToSet(u) = {Again(map, j) : j \in 1..i}
                 /\ Counted(u, G, MappedFrozen)
  <1>1. PICK R : R = [i \in 0..n |-> Turn(map, R, i)] /\ reassumed(map) = R[n]
    BY ReassumedRuns
  <1>2. n \in Nat
    BY LenProperties
  <1>3. \A i \in 0..n : R[i] = Turn(map, R, i)
    BY <1>1
  <1> DEFINE Good == {q \in Nat : q <= n => Fine(R[q], q)}
  <1>4. 0 \in Good
    <2>1. R[0] = [assumptions |-> <<>>, frozentab |-> MappedFrozen]
      BY <1>2, <1>3 DEF Turn
    <2>2. <<>> \in Seq(K) /\ ToSet(<<>>) = {Again(map, j) : j \in 1..0}
      BY CountNone
    <2>3. Counted(<<>>, MappedFrozen, MappedFrozen)
      BY CountNone DEF Counted
    <2> HIDE DEF K
    <2>. QED
      BY <2>1, <2>2, <2>3
  <1>5. ASSUME NEW q \in Nat, q \in Good PROVE q + 1 \in Good
    <2> HIDE DEF Fine, K
    <2> SUFFICES ASSUME q + 1 <= n PROVE Fine(R[q + 1], q + 1)
      OBVIOUS
    <2>0. q <= n
      BY <1>2
    <2>1. PICK a \in Seq(K), A \in [1..N -> Nat] :
             /\ R[q] = [assumptions |-> a, frozentab |-> A]
             /\ ToSet(a) = {Again(map, j) : j \in 1..q}
             /\ Counted(a, A, MappedFrozen)
      <3>1. Fine(R[q], q)
        BY <1>5, <2>0
      <3>. QED
        BY <3>1 DEF Fine
    <2> DEFINE x == Again(map, q + 1)
    <2>2. x \in K
      <3>1. q + 1 \in 1..n
        OBVIOUS
      <3>. QED
        BY <3>1 DEF K
    <2>3. R[q + 1] = assume_in([assumptions |-> a, frozentab |-> A], x)
      <3>1. q + 1 \in 0..n /\ q + 1 # 0 /\ (q + 1) - 1 = q
        OBVIOUS
      <3>. QED
        BY <1>3, <2>1, <3>1 DEF Turn
    <2> HIDE DEF x
    <2>4. PICK b \in Seq(K), B \in [1..N -> Nat] :
             /\ assume_in([assumptions |-> a, frozentab |-> A], x) = [assumptions |-> b, frozentab |-> B]
             /\ ToSet(b) = ToSet(a) \cup {x}
             /\ Counted(b, B, MappedFrozen)
      <3>1. K \in SUBSET LitsOf(k)
        BY DEF K
      <3>2. Counted(a, A, MappedFrozen)
        BY <2>1
      <3>3. MadeCounted(a, A, MappedFrozen, x, K)
        BY <2>2, <3>1, <3>2, AssumeNext
      <3>. QED
        BY <3>3 DEF MadeCounted
    <2>5. ToSet(b) = {Again(map, j) : j \in 1..(q + 1)}
      <3>1. \A j : j \in 1..(q + 1) <=> j \in 1..q \/ j = q + 1
        OBVIOUS
      <3>. QED
        BY <2>1, <2>4, <3>1 DEF x
    <2>7. R[q + 1] = [assumptions |-> b, frozentab |-> B]
      BY <2>3, <2>4
    <2>. QED
      BY <2>4, <2>5, <2>7 DEF Fine
  <1> HIDE DEF Good, Fine
  <1>6. n \in Good
    BY <1>2, <1>4, <1>5, NatInd
  <1>7. Fine(R[n], n)
    BY <1>2, <1>6 DEF Good
  <1>. QED
    BY <1>1, <1>7 DEF Fine

\* The external variables under their new numbers.
NewE == [e \in ExtVars |-> IF e2i[e] = 0 THEN 0 ELSE map_lit(e2i[e])]

\* A literal that is not of an eliminated variable has a number.
LEMMA MapLitIn ==
  ASSUME Mappable, NEW l \in ILits, vidx(l) \notin inactive
  PROVE  map_lit(l) \in LitsOf(new_max_var)
BY MapLitCases DEF LitsOf

\* The numbers of the external literals.
LEMMA NewERight ==
  ASSUME CInv
  PROVE  /\ NewE \in [ExtVars -> (-new_max_var)..new_max_var]
         /\ \A elit \in ExtLits : Signed(NewE[vidx(elit)], elit) =
                IF internal(elit) = 0 THEN 0 ELSE map_lit(internal(elit))
PROOF
  <1>1. CTyped /\ Paired /\ FixedRight /\ Mappable
    BY InvMappable DEF CInv
  <1>2. max_var \in Nat /\ e2i \in [ExtVars -> (-max_var)..max_var] /\ new_max_var \in Nat
    <2>1. max_var \in Nat /\ root \subseteq ILits
      BY <1>1 DEF Mappable
    <2>2. new_max_var \in 0..max_var
      BY <2>1, MapperRight
    <2>. QED
      BY <1>1, <2>1, <2>2 DEF CTyped
  <1>3. ASSUME NEW e \in ExtVars, e2i[e] # 0 PROVE e2i[e] \in ILits
    BY <1>2, <1>3 DEF ILits
  <1>4. NewE \in [ExtVars -> (-new_max_var)..new_max_var]
    <2>1. ASSUME NEW e \in ExtVars
          PROVE  (IF e2i[e] = 0 THEN 0 ELSE map_lit(e2i[e])) \in (-new_max_var)..new_max_var
      <3>1. CASE e2i[e] = 0
        BY <1>2, <3>1
      <3>2. CASE e2i[e] # 0
        <4>1. map_lit(e2i[e]) \in (-new_max_var)..new_max_var
          BY <1>1, <1>3, <3>2, MapLitCases
        <4>. QED
          BY <3>2, <4>1
      <3>. QED
        BY <3>1, <3>2
    <2>. QED
      BY <2>1 DEF NewE
  <1>5. ASSUME NEW elit \in ExtLits
        PROVE  Signed(NewE[vidx(elit)], elit) =
                   IF internal(elit) = 0 THEN 0 ELSE map_lit(internal(elit))
    <2> DEFINE e == vidx(elit)
               x == e2i[e]
    <2>1. e \in ExtVars
      BY ExtLiteral
    <2>2. internal(elit) = 0 <=> x = 0
      BY <1>1, InternalRight
    <2>3. NewE[e] = IF x = 0 THEN 0 ELSE map_lit(x)
      BY <2>1 DEF NewE
    <2>4. internal(elit) = IF elit < 0 THEN -x ELSE x
      BY DEF internal, Signed
    <2>5. CASE x = 0
      <3>1. NewE[e] = 0
        BY <2>3, <2>5
      <3>2. Signed(NewE[e], elit) = 0
        <4> DEFINE y == NewE[e]
        <4>1. elit \in Int
          BY ExtLiteral
        <4>2. y \in Int /\ y = 0
          BY <3>1
        <4> HIDE DEF y
        <4>3. Signed(y, elit) = 0
          BY <4>1, <4>2, SignedRight
        <4>. QED
          BY <4>3 DEF y
      <3>. QED
        BY <2>2, <2>5, <3>2
    <2>6. CASE x # 0
      <3>1. x \in ILits
        BY <1>3, <2>1, <2>6
      <3>2. map_lit(-x) = -map_lit(x)
        BY <1>1, <3>1, MapLitCases
      <3>3. Signed(NewE[e], elit) = IF elit < 0 THEN -map_lit(x) ELSE map_lit(x)
        BY <2>3, <2>6 DEF Signed
      <3> HIDE DEF x
      <3>4. map_lit(internal(elit)) = IF elit < 0 THEN map_lit(-x) ELSE map_lit(x)
        BY <2>4
      <3>. QED
        BY <2>2, <2>6, <3>2, <3>3, <3>4
    <2>. QED
      BY <2>5, <2>6
  <1>. QED
    BY <1>4, <1>5

\* Where a new number comes from.
LEMMA SourceRight ==
  ASSUME Mappable, NEW d \in 1..new_max_var, root = {} \/ d # vidx(Top)
  PROVE  Source(d) \in Active /\ map_idx(Source(d)) = d
PROOF
  <1>1. max_var \in Nat /\ root \subseteq ILits
    BY DEF Mappable
  <1>2. Source(d) \in Kept /\ map_idx(Source(d)) = d
    BY <1>1, MapperRight
  <1>3. ASSUME Source(d) = first_fixed, first_fixed # 0 PROVE FALSE
    <2>1. root # {}
      BY <1>1, <1>3, FirstFixed
    <2>2. PICK l \in root : TRUE
      BY <2>1
    <2>3. vidx(Top) = map_idx(first_fixed)
      BY <1>1, <2>1, <2>2, MapLitRight
    <2>. QED
      BY <1>2, <1>3, <2>1, <2>3
  <1>. QED
    BY <1>2, <1>3 DEF Kept

\* The tables after a compaction.
LEMMA CompactTables ==
  ASSUME CInv, compact
  PROVE  /\ max_var' = new_max_var /\ inactive' = {}
         /\ UNCHANGED <<setup, given, values, assumed, freezes>>
         /\ e2i' = NewE /\ i2e' = map_vector(i2e, 0)
         /\ root' = IF root = {} THEN {} ELSE {Top}
         /\ clauses' = {{map_lit(l) : l \in c} : c \in Simplified(clauses, root)}
         /\ frozentab' = reassumed(NewE).frozentab /\ assumptions' = reassumed(NewE).assumptions
PROOF
  <1>1. Mappable /\ max_var \in Nat /\ root \subseteq ILits
    BY InvMappable DEF CInv, Mappable
  <1> DEFINE f == CHOOSE l \in root : vidx(l) = first_fixed
  <1>2. ASSUME root # {} PROVE map_lit(f) = Top
    <2>1. first_fixed \in FixedVars
      BY <1>1, <1>2, FirstFixed
    <2>2. \E l \in root : vidx(l) = first_fixed
      BY <2>1 DEF FixedVars
    <2>3. f \in root
      BY <2>2
    <2> HIDE DEF f
    <2>. QED
      BY <1>1, <2>3, MapLitRight
  <1>3. /\ max_var' = new_max_var /\ inactive' = {}
        /\ UNCHANGED <<setup, given, values, assumed, freezes>>
        /\ i2e' = map_vector(i2e, 0)
        /\ clauses' = {{map_lit(l) : l \in c} : c \in Simplified(clauses, root)}
    BY DEF compact
  <1>4. e2i' = NewE /\ frozentab' = reassumed(NewE).frozentab /\ assumptions' = reassumed(NewE).assumptions
    BY DEF compact, NewE
  <1>5. root' = IF root = {} THEN {} ELSE {map_lit(f)}
    BY DEF compact
  <1> HIDE DEF f
  <1>6. root' = IF root = {} THEN {} ELSE {Top}
    BY <1>2, <1>5
  <1>. QED
    BY <1>3, <1>4, <1>6

\* After a compaction a variable that is not fixed and its external variable
\* are each other's.
LEMMA CompactPaired ==
  ASSUME CInv, compact
  PROVE  Paired'
PROOF
  <1>1. CTyped /\ Paired /\ FixedRight /\ Mappable
    BY InvMappable DEF CInv
  <1>2. /\ max_var \in Nat /\ N \in Nat /\ max_var <= N /\ root \subseteq ILits
        /\ e2i \in [ExtVars -> (-max_var)..max_var] /\ i2e \in [1..N -> 0..ExtMax]
        /\ new_max_var \in 0..max_var
    <2>1. max_var \in Nat /\ root \subseteq ILits
      BY <1>1 DEF Mappable
    <2>2. new_max_var \in 0..max_var
      BY <2>1, MapperRight
    <2>. QED
      BY <1>1, <2>1, <2>2, CompactAssumption DEF CTyped
  <1>3. Vars' = 1..new_max_var /\ FixedVars' = IF root = {} THEN {} ELSE {vidx(Top)}
    <2>1. max_var' = new_max_var /\ root' = IF root = {} THEN {} ELSE {Top}
      BY CompactTables
    <2>. QED
      BY <2>1 DEF Vars, FixedVars
  <1>4. ASSUME NEW d \in 1..new_max_var PROVE i2e'[d] = i2e[Source(d)]
    <2>1. i2e' = map_vector(i2e, 0)
      BY CompactTables
    <2>2. d \in 1..N
      BY <1>2
    <2>. QED
      BY <2>1, <2>2 DEF map_vector
  <1>5. ASSUME NEW e \in ExtVars PROVE e2i'[e] = IF e2i[e] = 0 THEN 0 ELSE map_lit(e2i[e])
    <2>1. e2i' = NewE
      BY CompactTables
    <2>. QED
      BY <2>1 DEF NewE
  <1>6. ASSUME NEW v \in Active
        PROVE  /\ v \in Vars \ FixedVars /\ v \in ILits /\ vidx(v) = v /\ v # 0
               /\ map_lit(v) = map_idx(v) /\ map_idx(v) \in 1..new_max_var /\ Source(map_idx(v)) = v
    <2>1. v \in Vars \ FixedVars
      BY DEF Active
    <2>2. v \in ILits /\ vidx(v) = v /\ v > 0 /\ v \in Int
      BY <1>2, <2>1 DEF Vars, ILits, vidx
    <2>3. map_lit(v) = Signed(map_idx(v), v) /\ map_idx(v) \in 1..new_max_var
      BY <1>1, <2>2, MapLitRight
    <2>4. Source(map_idx(v)) = v
      BY <1>2, MapperRight
    <2>5. ~ (v < 0)
      BY <2>2
    <2>6. map_lit(v) = map_idx(v)
      BY <2>3, <2>5 DEF Signed
    <2>. QED
      BY <2>1, <2>2, <2>3, <2>4, <2>6
  <1>7. ASSUME NEW d \in Vars' \ FixedVars' PROVE i2e'[d] \in ExtVars /\ e2i'[i2e'[d]] = d
    <2>1. d \in 1..new_max_var /\ (root = {} \/ d # vidx(Top))
      BY <1>3
    <2>2. PICK v \in Active : v = Source(d) /\ map_idx(v) = d
      BY <1>1, <2>1, SourceRight
    <2>3. v \in Vars \ FixedVars /\ v # 0 /\ map_lit(v) = d
      BY <1>6, <2>2
    <2>4. i2e[v] \in ExtVars /\ e2i[i2e[v]] = v
      BY <1>1, <2>3 DEF Paired
    <2>5. i2e'[d] = i2e[v]
      BY <1>4, <2>1, <2>2
    <2>6. e2i'[i2e[v]] = map_lit(v)
      BY <1>5, <2>3, <2>4
    <2>. QED
      BY <2>3, <2>4, <2>5, <2>6
  <1>8. ASSUME NEW e \in ExtVars, e2i'[e] # 0, vidx(e2i'[e]) \notin FixedVars'
        PROVE  e2i'[e] \in Vars' /\ i2e'[e2i'[e]] = e
    <2>1. PICK l : l = e2i[e]
      OBVIOUS
    <2>2. l # 0 /\ e2i'[e] = map_lit(l)
      BY <1>5, <1>8, <2>1
    <2>3. l \in ILits
      BY <1>2, <2>1, <2>2 DEF ILits
    <2>4. vidx(l) \notin inactive
      BY <1>1, <1>8, <2>2, <2>3, MapLitCases
    <2>5. vidx(l) \notin FixedVars
      <3> SUFFICES ASSUME vidx(l) \in FixedVars PROVE FALSE
        OBVIOUS
      <3>1. root # {}
        BY DEF FixedVars
      <3>2. vidx(map_lit(l)) = vidx(Top)
        BY <1>1, <2>3, MapLitCases
      <3>. QED
        BY <1>3, <1>8, <2>2, <3>1, <3>2
    <2>6. l \in Vars /\ i2e[l] = e
      BY <1>1, <2>1, <2>2, <2>5 DEF Paired
    <2>7. vidx(l) = l
      BY <2>6 DEF vidx, Vars
    <2>8. l \in Active
      BY <2>4, <2>5, <2>6, <2>7 DEF Active
    <2>9. map_lit(l) \in 1..new_max_var /\ Source(map_lit(l)) = l
      BY <1>6, <2>8
    <2>10. i2e'[map_lit(l)] = i2e[l]
      BY <1>4, <2>9
    <2>. QED
      BY <1>3, <2>2, <2>6, <2>9, <2>10
  <1>. QED
    BY <1>7, <1>8 DEF Paired

\* After a compaction the fixed literals are those the user was told.
LEMMA CompactFixed ==
  ASSUME CInv, compact
  PROVE  FixedRight'
PROOF
  <1>1. CTyped /\ Paired /\ FixedRight /\ Mappable
    BY InvMappable DEF CInv
  <1>2. /\ root' = IF root = {} THEN {} ELSE {Top}
        /\ inactive' = {} /\ values' = values /\ e2i' = NewE
    BY CompactTables
  <1>3. ASSUME root # {} PROVE Top \in Int /\ -Top # Top /\ Top # 0
    <2>1. PICK l \in root : TRUE
      BY <1>3
    <2>2. l \in ILits
      BY <1>1 DEF Mappable
    <2>3. vidx(Top) = map_idx(first_fixed) /\ Top \in Int /\ map_idx(first_fixed) \in 1..new_max_var
      BY <1>1, <1>3, <2>2, MapLitRight
    <2>4. new_max_var \in Nat
      <3>1. max_var \in Nat /\ root \subseteq ILits
        BY <1>1 DEF Mappable
      <3>. QED
        BY <3>1, MapperRight
    <2>5. vidx(Top) # 0
      BY <2>3, <2>4
    <2>6. Top # 0
      BY <2>3, <2>5, VidxRight
    <2>. QED
      BY <2>3, <2>6
  <1>4. \A l \in root' : -l \notin root'
    BY <1>2, <1>3
  <1>5. ASSUME NEW elit \in ExtLits PROVE elit \in values' <=> internal(elit)' \in root'
    <2>1. PICK l : l = internal(elit)
      OBVIOUS
    <2>2. internal(elit)' = IF l = 0 THEN 0 ELSE map_lit(l)
      <3>1. internal(elit)' = Signed(NewE[vidx(elit)], elit)
        BY <1>2 DEF internal
      <3>. QED
        BY <2>1, <3>1, NewERight
    <2>3. (l # 0 => l \in ILits) /\ (elit \in values <=> l \in root)
      BY <1>1, <2>1, InternalRight
    <2>4. ASSUME l \in root PROVE internal(elit)' \in root'
      <3>1. l \in ILits /\ l # 0
        BY <1>1, <2>4 DEF Mappable, ILits
      <3>2. map_lit(l) = Top
        BY <1>1, <2>4, <3>1, MapLitRight
      <3>. QED
        BY <1>2, <2>2, <2>4, <3>1, <3>2
    <2>5. ASSUME internal(elit)' \in root' PROVE l \in root
      <3>1. root # {} /\ internal(elit)' = Top
        BY <1>2, <2>5
      <3>2. l # 0 /\ map_lit(l) = Top
        BY <1>3, <2>2, <3>1
      <3>3. l \in ILits
        BY <2>3, <3>2
      <3>4. vidx(l) \notin Active
        BY <1>1, <3>2, <3>3, MapLitCases
      <3>5. vidx(l) \notin inactive
        BY <1>1, <1>3, <3>1, <3>2, <3>3, MapLitCases
      <3>6. l \in root \/ -l \in root
        BY <1>1, <3>3, <3>4, <3>5, FixedLiteral
      <3>7. -l \in root => map_lit(l) = -Top
        BY <1>1, <3>3, MapLitRight
      <3>. QED
        BY <1>3, <3>1, <3>2, <3>6, <3>7
    <2>. QED
      BY <1>2, <2>3, <2>4, <2>5
  <1>. QED
    BY <1>2, <1>4, <1>5 DEF FixedRight

\* After a compaction the clauses without what is fixed are the user's clauses.
LEMMA CompactClauses ==
  ASSUME CInv, compact
  PROVE  ClausesSame'
PROOF
  <1> DEFINE S == Simplified(clauses, root)
             new(k) == Signed(i2e'[vidx(k)], k)
  <1>1. CTyped /\ Paired /\ FixedRight /\ ClausesSame /\ Mappable
    BY InvMappable DEF CInv
  <1>2. /\ root' = IF root = {} THEN {} ELSE {Top}
        /\ inactive' = {} /\ values' = values /\ given' = given /\ i2e' = map_vector(i2e, 0)
        /\ clauses' = {{map_lit(l) : l \in c} : c \in S}
    BY CompactTables
  <1>3. \A c \in S : c \subseteq ALits
    BY <1>1, Remaining
  <1>4. {{external(l) : l \in c} : c \in S} = Simplified(given, values)
    BY <1>1 DEF ClausesSame
  <1>5. /\ max_var \in Nat /\ N \in Nat /\ max_var <= N /\ root \subseteq ILits
        /\ new_max_var \in 0..max_var
    <2>1. max_var \in Nat /\ root \subseteq ILits
      BY <1>1 DEF Mappable
    <2>2. new_max_var \in 0..max_var
      BY <2>1, MapperRight
    <2>. QED
      BY <1>1, <2>1, <2>2, CompactAssumption DEF CTyped
  <1>6. ASSUME NEW l \in ALits
        PROVE  map_lit(l) # Top /\ map_lit(l) # -Top /\ new(map_lit(l)) = external(l)
    <2>1. l \in ILits /\ vidx(l) \in Active /\ vidx(l) \in Vars
      BY <1>5, ILiteral DEF ALits
    <2> DEFINE v == vidx(l)
               d == map_idx(v)
               k == map_lit(l)
    <2>2. l \in Int /\ l # 0
      BY <1>5, <2>1, ILiteral
    <2>3. k = Signed(d, l) /\ vidx(k) = d /\ d \in 1..new_max_var
      BY <1>1, <2>1, MapLitRight
    <2>4. Source(d) = v
      BY <1>5, <2>1, MapperRight
    <2>5. i2e'[d] = i2e[v]
      <3>1. d \in 1..N /\ d <= new_max_var
        BY <1>5, <2>3
      <3> HIDE DEF d, v
      <3>. QED
        BY <1>2, <2>4, <3>1 DEF map_vector
    <2>6. k < 0 <=> l < 0
      <3>1. d \in Nat /\ d > 0
        BY <1>5, <2>3
      <3> HIDE DEF d, k
      <3>. QED
        BY <2>2, <2>3, <3>1 DEF Signed
    <2>7. new(k) = Signed(i2e'[vidx(k)], k)
      OBVIOUS
    <2>8. external(l) = Signed(i2e[v], l)
      BY DEF external
    <2>9. new(k) = external(l)
      <3>1. new(k) = Signed(i2e[v], k)
        BY <2>3, <2>5, <2>7
      <3> HIDE DEF k, v, new
      <3>. QED
        BY <2>6, <2>8, <3>1 DEF Signed
    <2>10. k # Top /\ k # -Top
      BY <1>1, <2>1, MapLitCases
    <2>. QED
      BY <2>9, <2>10
  <1> HIDE DEF S, new
  <1>7. ASSUME NEW c \in clauses' PROVE c \cap root' = {} /\ c \ Negated(root') = c
    <2>1. PICK b \in S : c = {map_lit(l) : l \in b}
      BY <1>2
    <2>2. Top \notin c /\ -Top \notin c
      BY <1>3, <1>6, <2>1
    <2>3. Negated(root') = IF root = {} THEN {} ELSE {-Top}
      BY <1>2 DEF Negated
    <2>. QED
      BY <1>2, <2>2, <2>3
  <1>8. Simplified(clauses', root') = clauses'
    <2>1. ASSUME NEW d \in clauses' PROVE d \in Simplified(clauses', root')
      BY <1>7, <2>1, SimplifiedMember
    <2>2. ASSUME NEW d \in Simplified(clauses', root') PROVE d \in clauses'
      <3>1. PICK c \in clauses' : c \cap root' = {} /\ d = c \ Negated(root')
        BY <2>2, SimplifiedMember
      <3>. QED
        BY <1>7, <3>1
    <2>. QED
      BY <2>1, <2>2
  <1>9. ASSUME NEW c \in S PROVE {new(k) : k \in {map_lit(l) : l \in c}} = {external(l) : l \in c}
    <2>1. \A l \in c : new(map_lit(l)) = external(l)
      BY <1>3, <1>6
    <2>. QED
      BY <2>1
  <1>10. {{new(k) : k \in d} : d \in clauses'} = {{external(l) : l \in c} : c \in S}
    BY <1>2, <1>9
  <1>11. {{external(k)' : k \in d} : d \in Simplified(clauses', root')} = Simplified(given', values')
    <2>1. {{new(k) : k \in d} : d \in Simplified(clauses', root')} = Simplified(given', values')
      BY <1>2, <1>4, <1>8, <1>10
    <2>. QED
      BY <2>1 DEF new, external
  <1>12. \A c \in clauses' : \A l \in c : vidx(l) \notin inactive'
    BY <1>2
  <1>. QED
    BY <1>11, <1>12 DEF ClausesSame

\* The references the user has to a variable under its new number, before the
\* assumptions are made again.
NewNumbered(d) == {e \in ExtVars : vidx(NewE[e]) = d}

\* Where the numbers are.
LEMMA CompactBounds ==
  ASSUME CInv
  PROVE  /\ CTyped /\ Paired /\ FixedRight /\ Referenced /\ Mappable
         /\ N \in Nat /\ ExtMax \in Nat /\ max_var \in Nat /\ max_var \in 0..N /\ Vars \subseteq 1..N
         /\ root \subseteq ILits /\ e2i \in [ExtVars -> (-max_var)..max_var]
         /\ new_max_var \in 0..max_var /\ new_max_var \in 0..N /\ new_max_var \in Nat
         /\ \A e \in ExtVars : e2i[e] # 0 => e2i[e] \in ILits
PROOF
  <1>1. CTyped /\ Paired /\ FixedRight /\ Referenced /\ Mappable
    BY InvMappable DEF CInv
  <1>2. N \in Nat /\ ExtMax \in Nat /\ max_var \in Nat /\ max_var \in 0..N /\ root \subseteq ILits
        /\ e2i \in [ExtVars -> (-max_var)..max_var]
    BY <1>1, CompactAssumption DEF CTyped
  <1>3. new_max_var \in 0..max_var
    BY <1>2, MapperRight
  <1>4. Vars \subseteq 1..N
    BY <1>2 DEF Vars
  <1>5. \A e \in ExtVars : e2i[e] # 0 => e2i[e] \in ILits
    BY <1>2 DEF ILits
  <1>. QED
    BY <1>1, <1>2, <1>3, <1>4, <1>5

\* The reference counts of the fixed variables are added up.
LEMMA MappedFrozenRight ==
  ASSUME CInv
  PROVE  /\ MappedFrozen \in [1..N -> Nat]
         /\ \A d \in 1..N : MappedFrozen[d] = Total(freezes, ExtMax, NewNumbered(d))
PROOF
  <1> DEFINE counts == [v \in 1..N |-> frozentab[v] - Count(assumptions, v)]
             p == [e \in ExtVars |-> vidx(e2i[e])]
             M(d) == {v \in Vars : vidx(map_lit(v)) = d}
  <1>1. CTyped /\ Paired /\ FixedRight /\ Referenced /\ Mappable
    BY CompactBounds
  <1>2. N \in Nat /\ ExtMax \in Nat /\ max_var \in Nat /\ Vars \subseteq 1..N
        /\ e2i \in [ExtVars -> (-max_var)..max_var]
        /\ (\A e \in ExtVars : e2i[e] # 0 => e2i[e] \in ILits)
    BY CompactBounds
  <1>3. freezes \in [ExtVars -> Nat] /\ frozentab \in [1..N -> Nat] /\ assumptions \in Seq(ILits)
    BY <1>1 DEF CTyped
  <1>4. ASSUME NEW S PROVE Total(freezes, ExtMax, S) \in Nat
    <2>1. \A i \in 1..ExtMax : freezes[i] \in Nat
      BY <1>3 DEF ExtVars
    <2>. QED
      BY <1>2, <2>1, TotalStep
  <1>5. ASSUME NEW v \in 1..N PROVE Count(assumptions, v) \in Nat
    <2>1. CASE ToSet(assumptions) = {}
      <3>1. {l \in ToSet(assumptions) : vidx(l) = v} = {}
        BY <2>1
      <3>2. Cardinality({}) = 0
        BY FS_EmptySet
      <3>. QED
        BY <3>1, <3>2 DEF Count
    <2>2. CASE ToSet(assumptions) # {}
      <3>1. PICK i \in DOMAIN assumptions : TRUE
        BY <2>2 DEF ToSet
      <3>2. assumptions[i] \in ILits
        BY <1>3, <3>1, LenProperties
      <3>3. ILits \in SUBSET LitsOf(max_var)
        BY ILitsAre
      <3>. QED
        BY <1>2, <1>3, <3>2, <3>3, CountMore
    <2>. QED
      BY <2>1, <2>2
  <1>6. ASSUME NEW v \in 1..N, v \notin Vars PROVE Count(assumptions, v) = 0
    <2>1. ToSet(assumptions) \subseteq ILits
      BY <1>3, LenProperties DEF ToSet
    <2>2. {l \in ToSet(assumptions) : vidx(l) = v} = {}
      BY <1>2, <1>6, <2>1, ILiteral
    <2>. QED
      BY <2>2, FS_EmptySet DEF Count
  <1>7. ASSUME NEW v \in Vars PROVE counts[v] = Total(freezes, ExtMax, Numbered(v))
    <2> DEFINE a == frozentab[v]
               b == Count(assumptions, v)
               c == Total(freezes, ExtMax, Numbered(v))
    <2>1. v \in 1..N
      BY <1>2
    <2>2. a = b + c
      BY <1>1 DEF Referenced
    <2>3. b \in Nat /\ c \in Nat
      BY <1>4, <1>5, <2>1
    <2>4. counts[v] = a - b
      BY <2>1
    <2> HIDE DEF a, b, c, counts
    <2>5. counts[v] = c
      BY <2>2, <2>3, <2>4
    <2>. QED
      BY <2>5 DEF c
  <1>8. ASSUME NEW v \in 1..N PROVE counts[v] \in Nat
    <2>1. CASE v \in Vars
      BY <1>4, <1>7, <2>1
    <2>2. CASE v \notin Vars
      <3>1. frozentab[v] = 0
        BY <1>1, <2>2 DEF Referenced
      <3>. QED
        BY <1>6, <2>2, <3>1
    <2>. QED
      BY <2>1, <2>2
  <1>9. MappedFrozen = [d \in 1..N |-> Total(counts, N, M(d))]
    BY DEF MappedFrozen, Count
  <1>10. ASSUME NEW e \in ExtVars, NEW d \in 1..N PROVE p[e] \in M(d) <=> vidx(NewE[e]) = d
    <2>1. NewE[e] = IF e2i[e] = 0 THEN 0 ELSE map_lit(e2i[e])
      BY DEF NewE
    <2>2. CASE e2i[e] = 0
      <3>1. p[e] = 0 /\ vidx(NewE[e]) = 0
        BY <2>1, <2>2 DEF vidx
      <3>2. 0 \notin Vars /\ d # 0
        BY <1>2
      <3>. QED
        BY <3>1, <3>2
    <2>3. CASE e2i[e] # 0
      <3>1. PICK l \in ILits : l = e2i[e]
        BY <1>2, <2>3
      <3>2. l \in Int /\ vidx(l) \in Vars /\ -l \in ILits
        BY <1>2, ILiteral
      <3>3. vidx(l) \in ILits /\ (l = vidx(l) \/ l = -vidx(l))
        <4>1. l = vidx(l) \/ l = -vidx(l)
          BY <3>2, VidxRight
        <4>2. vidx(l) = l \/ vidx(l) = -l
          BY <3>2 DEF vidx
        <4>. QED
          BY <3>2, <4>1, <4>2
      <3>4. vidx(map_lit(vidx(l))) = vidx(map_lit(l))
        <4>1. CASE l = vidx(l)
          BY <4>1
        <4>2. CASE l = -vidx(l)
          <5> DEFINE k == vidx(l)
          <5>1. map_lit(-k) = -map_lit(k) /\ map_lit(k) \in Int
            <6> HIDE DEF k
            <6>1. k \in ILits
              BY <3>3 DEF k
            <6>2. map_lit(k) \in (-new_max_var)..new_max_var /\ map_lit(-k) = -map_lit(k)
              BY <1>1, <6>1, MapLitCases
            <6>. QED
              BY <6>2, CompactBounds
          <5>2. vidx(-map_lit(k)) = vidx(map_lit(k))
            <6> HIDE DEF k
            <6>. QED
              BY <5>1, VidxRight
          <5>3. map_lit(l) = -map_lit(k)
            BY <4>2, <5>1
          <5>. QED
            BY <5>2, <5>3
        <4>. QED
          BY <3>3, <4>1, <4>2
      <3>5. p[e] = vidx(l) /\ NewE[e] = map_lit(l)
        BY <2>1, <2>3, <3>1
      <3>. QED
        BY <3>2, <3>4, <3>5
    <2>. QED
      BY <2>2, <2>3
  <1>11. ASSUME NEW d \in 1..N
         PROVE  /\ MappedFrozen[d] = Total(freezes, ExtMax, NewNumbered(d))
                /\ MappedFrozen[d] \in Nat
    <2>1. MappedFrozen[d] = Total(counts, N, M(d))
      BY <1>9
    <2> DEFINE G == M(d)
    <2>2. G \in SUBSET (1..N) /\ \A v \in G : v \in Vars
      BY <1>2
    <2>3. \A v \in G : counts[v] = Total(freezes, ExtMax, Group(p, ExtMax, v))
      <3> SUFFICES ASSUME NEW v \in G
                   PROVE  counts[v] = Total(freezes, ExtMax, Group(p, ExtMax, v))
        OBVIOUS
      <3>1. Numbered(v) = Group(p, ExtMax, v)
        BY DEF Numbered, ExtVars, Group
      <3>. QED
        BY <1>7, <2>2, <3>1
    <2>4. Groups(p, ExtMax, G) = NewNumbered(d)
      BY <1>10 DEF NewNumbered, ExtVars, Groups
    <2>5. (\A i \in 1..ExtMax : freezes[i] \in Nat) /\ (\A v \in 1..N : counts[v] \in Nat)
      BY <1>3, <1>8 DEF ExtVars
    <2> HIDE DEF counts, p, G
    <2>6. Total(counts, N, G) = Total(freezes, ExtMax, Groups(p, ExtMax, G))
      <3>1. N \in Nat /\ ExtMax \in Nat
        BY <1>2
      <3>. QED
        BY <2>2, <2>3, <2>5, <3>1, TotalGroups
    <2>. QED
      BY <1>4, <2>1, <2>4, <2>6 DEF G
  <1>12. MappedFrozen \in [1..N -> Nat]
    <2>1. DOMAIN MappedFrozen = 1..N /\ MappedFrozen = [d \in 1..N |-> MappedFrozen[d]]
      BY <1>9
    <2>. QED
      BY <1>11, <2>1
  <1>. QED
    BY <1>11, <1>12

\* After a compaction every table has the size the numbers of variables ask for.
LEMMA CompactTyped ==
  ASSUME CInv, compact
  PROVE  /\ CTyped' /\ Referenced'
PROOF
  <1>1. CTyped /\ Paired /\ FixedRight /\ Referenced /\ Mappable
    BY CompactBounds
  <1>2. N \in Nat /\ ExtMax \in Nat /\ max_var \in Nat /\ Vars \subseteq 1..N /\ root \subseteq ILits
        /\ new_max_var \in 0..max_var /\ new_max_var \in 0..N /\ new_max_var \in Nat
        /\ (\A e \in ExtVars : e2i[e] # 0 => e2i[e] \in ILits)
    BY CompactBounds
  <1>3. /\ max_var' = new_max_var /\ inactive' = {}
        /\ UNCHANGED <<setup, given, values, assumed, freezes>>
        /\ e2i' = NewE /\ i2e' = map_vector(i2e, 0)
        /\ root' = IF root = {} THEN {} ELSE {Top}
        /\ clauses' = {{map_lit(l) : l \in c} : c \in Simplified(clauses, root)}
        /\ frozentab' = reassumed(NewE).frozentab /\ assumptions' = reassumed(NewE).assumptions
    BY CompactTables
  <1>4. freezes \in [ExtVars -> Nat] /\ frozentab \in [1..N -> Nat] /\ assumptions \in Seq(ILits)
        /\ assumed \in Seq(ExtLits) /\ i2e \in [1..N -> 0..ExtMax]
    BY <1>1 DEF CTyped
  <1>5. ASSUME NEW S PROVE Total(freezes, ExtMax, S) \in Nat
    <2>1. \A i \in 1..ExtMax : freezes[i] \in Nat
      BY <1>4 DEF ExtVars
    <2>. QED
      BY <1>2, <2>1, TotalStep
  <1>a. ASSUME NEW w, Count(assumptions, w) = 0, NEW y \in ILits, y \in ToSet(assumptions) PROVE vidx(y) # w
    <2>1. ILits \in SUBSET LitsOf(max_var) /\ max_var \in Nat /\ assumptions \in Seq(ILits)
      BY <1>2, <1>4, ILitsAre
    <2>2. Count(assumptions, w) = 0 => \A j \in ToSet(assumptions) : vidx(j) # w
      BY <2>1, CountMore
    <2>. QED
      BY <1>a, <2>2
  <1>6. ASSUME NEW v \in Vars, frozentab[v] = 0
        PROVE  /\ \A k \in ToSet(assumptions) : vidx(k) # v
               /\ \A e \in Numbered(v) : freezes[e] = 0
    <2> DEFINE b == Count(assumptions, v)
               c == Total(freezes, ExtMax, Numbered(v))
    <2>1. ASSUME NEW k \in ToSet(assumptions) PROVE b \in Nat
      <3>1. PICK i \in DOMAIN assumptions : k = assumptions[i]
        BY DEF ToSet
      <3>2. k \in ILits
        BY <1>4, <3>1, LenProperties
      <3>3. ILits \in SUBSET LitsOf(max_var)
        BY ILitsAre
      <3>. QED
        BY <1>2, <1>4, <3>2, <3>3, CountMore
    <2>2. b \in Nat
      <3>1. CASE ToSet(assumptions) = {}
        <4>1. {l \in ToSet(assumptions) : vidx(l) = v} = {}
          BY <3>1
        <4>2. Cardinality({}) = 0
          BY FS_EmptySet
        <4>. QED
          BY <4>1, <4>2 DEF Count
      <3>. QED
        BY <2>1, <3>1
    <2>3. c \in Nat
      BY <1>5
    <2>4. frozentab[v] = b + c
      BY <1>1 DEF Referenced
    <2>5. b = 0 /\ c = 0
      <3> HIDE DEF b, c
      <3>. QED
        BY <1>6, <2>2, <2>3, <2>4
    <2>6. ASSUME NEW k \in ToSet(assumptions) PROVE vidx(k) # v
      <3>1. PICK i \in DOMAIN assumptions : k = assumptions[i]
        BY DEF ToSet
      <3>2. k \in ILits
        BY <1>4, <3>1, LenProperties
      <3>. QED
        BY <1>a, <2>5, <3>2
    <2>7. ASSUME NEW e \in Numbered(v) PROVE freezes[e] = 0
      <3>1. \A i \in 1..ExtMax : freezes[i] \in Nat
        BY <1>4 DEF ExtVars
      <3>2. e \in 1..ExtMax
        BY DEF Numbered, ExtVars
      <3>3. freezes[e] <= c
        <4>1. ExtMax \in Nat
          BY <1>2
        <4>. QED
          BY <3>1, <3>2, <4>1, TotalAtLeast
      <3>. QED
        BY <2>5, <3>1, <3>2, <3>3
    <2>. QED
      BY <2>6, <2>7
  <1>7. ASSUME NEW i \in 1..Len(assumed)
        PROVE  Again(NewE, i) = map_lit(internal(assumed[i])) /\ Again(NewE, i) \in LitsOf(new_max_var)
    <2> DEFINE l == internal(assumed[i])
    <2>1. assumed[i] \in ExtLits /\ assumed[i] \in ToSet(assumed)
      BY <1>4, LenProperties DEF ToSet
    <2>2. l \in ToSet(assumptions)
      BY <1>1, <2>1 DEF Referenced
    <2>3. l \in ILits
      BY <1>4, <2>2, LenProperties DEF ToSet
    <2>4. vidx(l) \in Vars /\ l # 0
      BY <1>2, <2>3, ILiteral
    <2>5. vidx(l) \notin inactive
      <3> SUFFICES ASSUME vidx(l) \in inactive PROVE FALSE
        OBVIOUS
      <3>1. frozentab[vidx(l)] = 0
        BY <1>1, <1>2, <2>4 DEF Referenced
      <3> HIDE DEF l
      <3>. QED
        BY <1>6, <2>2, <2>4, <3>1
    <2>6. Again(NewE, i) = map_lit(l)
      BY <2>1, <2>4, NewERight DEF Again
    <2>7. map_lit(l) \in LitsOf(new_max_var)
      <3> HIDE DEF l
      <3>. QED
        BY <1>1, <2>3, <2>5, MapLitIn
    <2>. QED
      BY <2>6, <2>7
  <1>8. PICK u \in Seq(LitsOf(new_max_var)), G \in [1..N -> Nat] :
            /\ reassumed(NewE) = [assumptions |-> u, frozentab |-> G]
            /\ ToSet(u) = {Again(NewE, i) : i \in 1..Len(assumed)}
            /\ Counted(u, G, MappedFrozen)
    <2>1. \A i \in 1..Len(assumed) : Again(NewE, i) \in LitsOf(new_max_var)
      BY <1>7
    <2>2. MappedFrozen \in [1..N -> Nat]
      BY MappedFrozenRight
    <2>3. N \in Nat /\ new_max_var \in 0..N /\ assumed \in Seq(ExtLits)
      BY <1>2, <1>4
    <2>. QED
      BY <2>1, <2>2, <2>3, ReassumedRight
  <1>9. assumptions' = u /\ frozentab' = G
    BY <1>3, <1>8
  <1>10. ILits' = LitsOf(new_max_var) /\ Vars' = 1..new_max_var
    BY <1>3 DEF ILits, LitsOf, Vars
  <1>11. CTyped'
    <2>1. max_var' \in 0..N /\ setup' \in Setups /\ given' \subseteq SUBSET ExtLits
          /\ values' \subseteq ExtLits /\ assumed' \in Seq(ExtLits) /\ freezes' \in [ExtVars -> Nat]
      BY <1>1, <1>2, <1>3 DEF CTyped
    <2>2. e2i' \in [ExtVars -> (-max_var')..max_var']
      BY <1>3, NewERight
    <2>3. i2e' \in [1..N -> 0..ExtMax]
      <3>1. ASSUME NEW v \in 1..N
            PROVE  (IF v <= new_max_var THEN i2e[Source(v)] ELSE 0) \in 0..ExtMax
        <4>1. CASE v <= new_max_var
          <5>1. v \in 1..new_max_var
            BY <1>2, <4>1
          <5>2. Source(v) \in Kept /\ Kept \subseteq Vars
            BY <1>2, <5>1, MapperRight
          <5>3. Source(v) \in 1..N
            BY <1>2, <5>2
          <5>. QED
            BY <1>4, <4>1, <5>3
        <4>2. CASE ~ (v <= new_max_var)
          BY <1>2, <4>2
        <4>. QED
          BY <4>1, <4>2
      <3>. QED
        BY <1>3, <3>1 DEF map_vector
    <2>4. root' \subseteq ILits'
      <3> SUFFICES ASSUME root # {} PROVE Top \in ILits'
        BY <1>3
      <3>1. PICK l \in root : TRUE
        OBVIOUS
      <3>2. l \in ILits
        BY <1>2, <3>1
      <3>3. map_lit(l) = Top
        BY <1>1, <3>1, <3>2, MapLitRight
      <3>4. vidx(l) \notin inactive
        BY <1>1, <3>1, <3>2, FixedLiteral
      <3>. QED
        BY <1>1, <1>10, <3>2, <3>3, <3>4, MapLitIn
    <2>5. clauses' \subseteq SUBSET ILits'
      <3>1. \A c \in Simplified(clauses, root) : c \subseteq ALits
        BY Remaining DEF CInv
      <3>2. ASSUME NEW l \in ALits PROVE map_lit(l) \in ILits'
        <4>1. l \in ILits /\ vidx(l) \in Active
          BY DEF ALits
        <4>2. vidx(l) \notin inactive
          BY <4>1 DEF Active
        <4>. QED
          BY <1>1, <1>10, <4>1, <4>2, MapLitIn
      <3>. QED
        BY <1>3, <3>1, <3>2
    <2>6. inactive' \subseteq Vars' /\ frozentab' \in [1..N -> Nat] /\ assumptions' \in Seq(ILits')
      BY <1>3, <1>9, <1>10
    <2>. QED
      BY <2>1, <2>2, <2>3, <2>4, <2>5, <2>6 DEF CTyped
  <1>12. ToSet(assumptions') = {internal(elit)' : elit \in ToSet(assumed')}
    <2> DEFINE new(elit) == Signed(NewE[vidx(elit)], elit)
    <2>1. ToSet(u) = {new(elit) : elit \in ToSet(assumed)}
      <3>1. DOMAIN assumed = 1..Len(assumed)
        BY <1>4, LenProperties
      <3>2. \A i \in 1..Len(assumed) : Again(NewE, i) = new(assumed[i])
        BY DEF Again
      <3> HIDE DEF new
      <3>3. ToSet(assumed) = {assumed[i] : i \in 1..Len(assumed)}
        BY <3>1 DEF ToSet
      <3>. QED
        BY <1>8, <3>2, <3>3
    <2>2. {internal(elit)' : elit \in ToSet(assumed')} = {new(elit) : elit \in ToSet(assumed)}
      BY <1>3 DEF internal
    <2>. QED
      BY <1>9, <2>1, <2>2
  <1>13. ASSUME NEW v \in Vars' PROVE Numbered(v)' = NewNumbered(v)
    BY <1>3 DEF Numbered, NewNumbered
  <1>14. ASSUME NEW v \in 1..N
         PROVE  /\ frozentab'[v] = Total(freezes, ExtMax, NewNumbered(v)) + Count(u, v)
                /\ Count(u, v) \in Nat
    <2>1. MappedFrozen[v] = Total(freezes, ExtMax, NewNumbered(v))
      BY MappedFrozenRight
    <2>2. G[v] = MappedFrozen[v] + Count(u, v) /\ Count(u, v) \in Nat
      BY <1>8 DEF Counted
    <2>. QED
      BY <1>9, <2>1, <2>2
  <1>15. ASSUME NEW v \in Vars'
         PROVE  frozentab'[v] = Count(assumptions', v) + Total(freezes', ExtMax, Numbered(v)')
    <2>1. v \in 1..N
      BY <1>2, <1>10
    <2> DEFINE a == frozentab'[v]
               b == Count(u, v)
               c == Total(freezes, ExtMax, NewNumbered(v))
    <2>2. a = c + b /\ b \in Nat /\ c \in Nat
      BY <1>5, <1>14, <2>1
    <2> HIDE DEF a, b, c
    <2>3. a = b + c
      BY <2>2
    <2>. QED
      BY <1>3, <1>9, <1>13, <2>3 DEF a, b, c
  <1>16. ASSUME NEW v \in 1..N, v \notin Vars' PROVE frozentab'[v] = 0
    <2>1. v > new_max_var
      BY <1>2, <1>10, <1>16
    <2>2. NewNumbered(v) = {}
      <3>1. ASSUME NEW e \in ExtVars, vidx(NewE[e]) = v PROVE FALSE
        <4>1. NewE[e] \in (-new_max_var)..new_max_var
          BY NewERight
        <4>. QED
          BY <1>2, <2>1, <3>1, <4>1 DEF vidx
      <3>. QED
        BY <3>1 DEF NewNumbered
    <2>3. Total(freezes, ExtMax, NewNumbered(v)) = 0
      <3> DEFINE P == NewNumbered(v)
      <3>1. \A i \in 1..ExtMax : freezes[i] \in Nat
        BY <1>4 DEF ExtVars
      <3>2. ExtMax \in Nat /\ \A i \in 1..ExtMax : i \in P => freezes[i] = 0
        BY <1>2, <2>2
      <3> HIDE DEF P
      <3>3. Total(freezes, ExtMax, P) = 0
        BY <3>1, <3>2, TotalNone
      <3>. QED
        BY <3>3 DEF P
    <2>4. Count(u, v) = 0
      <3>1. ToSet(u) \subseteq LitsOf(new_max_var)
        BY <1>8, LenProperties DEF ToSet
      <3>2. {l \in ToSet(u) : vidx(l) = v} = {}
        BY <1>2, <2>1, <3>1 DEF LitsOf, vidx
      <3>. QED
        BY <3>2, FS_EmptySet DEF Count
    <2> DEFINE b == Count(u, v)
               c == Total(freezes, ExtMax, NewNumbered(v))
    <2>5. frozentab'[v] = c + b /\ b = 0 /\ c = 0
      BY <1>14, <2>3, <2>4
    <2> HIDE DEF b, c
    <2>. QED
      BY <2>5
  <1>17. ASSUME NEW e \in ExtVars, e2i'[e] = 0 PROVE freezes'[e] = 0
    <2>1. IF e2i[e] = 0 THEN TRUE ELSE map_lit(e2i[e]) = 0
      BY <1>3, <1>17 DEF NewE
    <2>2. CASE e2i[e] = 0
      BY <1>1, <1>3, <2>2 DEF Referenced
    <2>3. CASE e2i[e] # 0
      <3>1. PICK l \in ILits : l = e2i[e]
        BY <1>2, <2>3
      <3>2. vidx(l) \in inactive
        BY <1>1, <2>1, <2>3, <3>1, MapLitCases
      <3>3. vidx(l) \in Vars
        BY <1>2, ILiteral
      <3>4. frozentab[vidx(l)] = 0
        BY <1>1, <1>2, <3>2, <3>3 DEF Referenced
      <3>5. e \in Numbered(vidx(l))
        BY <3>1 DEF Numbered
      <3>. QED
        BY <1>3, <1>6, <3>3, <3>4, <3>5
    <2>. QED
      BY <2>2, <2>3
  <1>18. Referenced'
    <2>1. \A v : Count(assumptions, v)' = Count(assumptions', v)
      BY DEF Count
    <2>2. \A v \in Vars' : Total(freezes, ExtMax, Numbered(v))' = Total(freezes', ExtMax, Numbered(v)')
      BY DEF Total
    <2>. QED
      BY <1>3, <1>12, <1>15, <1>16, <1>17, <2>1 DEF Referenced
  <1>. QED
    BY <1>11, <1>18

\* Compaction keeps the invariant.
LEMMA CompactRight ==
  ASSUME CInv, compact
  PROVE  CInv'
BY CompactPaired, CompactFixed, CompactClauses, CompactTyped DEF CInv

\* Every step keeps the invariant.
LEMMA NextRight ==
  ASSUME CInv, [CNext]_allvars
  PROVE  CInv'
PROOF
  <1>1. CASE \E e \in ExtVars : internalize(e) \/ freeze(e)
    BY <1>1, InternalizeRight, FreezeRight
  <1>2. CASE \E c \in setup.clauses : add(c)
    BY <1>2, AddRight
  <1>3. CASE \E elit \in setup.assumable : assume(elit)
    BY <1>3, AssumeRight
  <1>4. CASE \E v \in Vars : fix(v) \/ fix(-v) \/ eliminate(v)
    <2>1. PICK v \in Vars : fix(v) \/ fix(-v) \/ eliminate(v)
      BY <1>4
    <2>2. v \in ILits /\ -v \in ILits
      <3>1. max_var \in Nat
        BY CompactAssumption DEF CInv, CTyped
      <3>. QED
        BY <3>1 DEF Vars, ILits
    <2>3. CASE fix(v)
      BY <2>2, <2>3, FixRight
    <2>4. CASE fix(-v)
      BY <2>2, <2>4, FixRight
    <2>5. CASE eliminate(v)
      BY <2>5, EliminateRight
    <2>. QED
      BY <2>1, <2>3, <2>4, <2>5
  <1>5. CASE compact
    BY <1>5, CompactRight
  <1>6. CASE Search \/ UNCHANGED allvars
    BY <1>6, SearchTables, TabledRight
  <1>. QED
    BY <1>1, <1>2, <1>3, <1>4, <1>5, <1>6 DEF CNext

\* The invariant of the tables holds in every state: the external and the internal
\* variables that are not fixed are each other's, the fixed literals are those the
\* user was told, and every reference is counted.
THEOREM TablesRight == CSpec => []CInv
PROOF
  <1>1. CInit => CInv
    BY InitRight
  <1>2. CInv /\ [CNext]_allvars => CInv'
    BY NextRight
  <1>. QED
    BY <1>1, <1>2, PTL DEF CSpec

\* Renumbering the variables (compact.cpp, Mapper and Internal::compact) changes
\* nothing the user can see: for every number of variables and every session, the
\* clauses and the fixed literals read through the tables are the user's.
THEOREM MeaningStays == CSpec => []MeaningKept
PROOF
  <1>1. CInv => MeaningKept
    BY InvImplies
  <1>. QED
    BY <1>1, TablesRight, PTL

\* The internal assumptions are the user's, and frozentab counts every reference,
\* also where several fixed variables became one.
THEOREM ReferencesCounted == CSpec => []ReferencesKept
PROOF
  <1>1. CInv => ReferencesKept
    BY InvImplies
  <1>. QED
    BY <1>1, TablesRight, PTL
=============================================================================
