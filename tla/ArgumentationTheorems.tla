----------------------- MODULE ArgumentationTheorems -----------------------
(***************************************************************************)
(* Facts of argumentation theory the correctness of the solver rests on,   *)
(* proved for every attack relation, what they make of the promise of      *)
(* preprocessing, and the exactness of the SAT encoding; before them, what *)
(* the proofs need to know of lists.  A is a set of arguments, att the     *)
(* attacks among them.                                                     *)
(***************************************************************************)
EXTENDS PreProcContract, Encoding, SequencesExt, SequenceTheorems, FiniteSetTheorems,
        WellFoundedInduction, TLAPS

-----------------------------------------------------------------------------
(***************************************************************************)
(* Induction, for sets in the place of predicates.                         *)
(***************************************************************************)
\* Induction over the naturals, for a set in the place of a predicate.
LEMMA NatInd ==
  ASSUME NEW Good, 0 \in Good, \A n \in Nat : n \in Good => n + 1 \in Good
  PROVE  Nat \subseteq Good
PROOF
  <1> DEFINE Bad == Nat \ Good
             Less == {p \in Nat \X Nat : p[1] < p[2]}
  <1>1. IsWellFoundedOn(Less, Nat)
    BY NatLessThanWellFounded DEF OpToRel
  <1>2. SUFFICES ASSUME Bad # {} PROVE FALSE
    OBVIOUS
  <1>3. PICK n \in Bad : \A m \in Bad : <<m, n>> \notin Less
    BY <1>1, <1>2, WFMin
  <1>4. n # 0 /\ n - 1 \in Nat
    OBVIOUS
  <1>5. n - 1 \in Good
    <2>1. <<n - 1, n>> \in Less
      BY <1>4
    <2>. QED
      BY <1>3, <1>4, <2>1
  <1>. QED
    BY <1>4, <1>5

\* The same for finite sequences, which grow at the end.
LEMMA SeqInd ==
  ASSUME NEW T, NEW Good, <<>> \in Good,
         \A s \in Seq(T), e \in T : s \in Good => Append(s, e) \in Good
  PROVE  Seq(T) \subseteq Good
PROOF
  <1> DEFINE Short == {n \in Nat : \A s \in Seq(T) : Len(s) = n => s \in Good}
  <1>1. 0 \in Short
    OBVIOUS
  <1>2. ASSUME NEW n \in Nat, n \in Short PROVE n + 1 \in Short
    <2> SUFFICES ASSUME NEW s \in Seq(T), Len(s) = n + 1 PROVE s \in Good
      OBVIOUS
    <2>1. s # <<>>
      OBVIOUS
    <2>2. PICK t \in Seq(T), e \in T : s = Append(t, e)
      BY <2>1, SequenceEmptyOrAppend
    <2>3. Len(t) = n
      BY <2>2
    <2>. QED
      BY <1>2, <2>2, <2>3
  <1> HIDE DEF Short
  <1>3. Nat \subseteq Short
    BY <1>1, <1>2, NatInd
  <1>. QED
    BY <1>3 DEF Short

-----------------------------------------------------------------------------
(***************************************************************************)
(* Lists as sets: an element added, a list added.                          *)
(***************************************************************************)
\* The members of a list after push_back.
LEMMA SetOfAppend ==
  ASSUME NEW T, NEW s \in Seq(T), NEW e \in T
  PROVE  ToSet(Append(s, e)) = ToSet(s) \cup {e}
PROOF
  <1>1. /\ Append(s, e) \in Seq(T)
        /\ DOMAIN Append(s, e) = 1..(Len(s) + 1)
        /\ DOMAIN s = 1..Len(s)
        /\ Len(s) \in Nat
        /\ \A i \in 1..Len(s) : Append(s, e)[i] = s[i]
        /\ Append(s, e)[Len(s) + 1] = e
    BY AppendProperties, LenProperties
  <1>2. 1..(Len(s) + 1) = (1..Len(s)) \cup {Len(s) + 1}
    BY <1>1
  <1>. QED
    BY <1>1, <1>2 DEF ToSet

\* The members of a list after a whole list was appended.
LEMMA SetOfConcat ==
  ASSUME NEW T, NEW s \in Seq(T), NEW t \in Seq(T)
  PROVE  /\ s \o t \in Seq(T)
         /\ ToSet(s \o t) = ToSet(s) \cup ToSet(t)
PROOF
  <1>1. /\ s \o t \in Seq(T)
        /\ DOMAIN (s \o t) = 1..(Len(s) + Len(t))
        /\ DOMAIN s = 1..Len(s) /\ DOMAIN t = 1..Len(t)
        /\ Len(s) \in Nat /\ Len(t) \in Nat
        /\ \A i \in 1..(Len(s) + Len(t)) :
             (s \o t)[i] = IF i <= Len(s) THEN s[i] ELSE t[i - Len(s)]
    BY ConcatProperties, LenProperties
  <1>2. ASSUME NEW i \in 1..Len(s) PROVE s[i] \in ToSet(s \o t)
    <2>1. i \in 1..(Len(s) + Len(t)) /\ (s \o t)[i] = s[i]
      BY <1>1
    <2>. QED
      BY <1>1, <2>1 DEF ToSet
  <1>3. ASSUME NEW i \in 1..Len(t) PROVE t[i] \in ToSet(s \o t)
    <2>1. Len(s) + i \in 1..(Len(s) + Len(t)) /\ (s \o t)[Len(s) + i] = t[i]
      BY <1>1
    <2>. QED
      BY <1>1, <2>1 DEF ToSet
  <1>4. ASSUME NEW i \in 1..(Len(s) + Len(t)) PROVE (s \o t)[i] \in ToSet(s) \cup ToSet(t)
    <2>1. CASE i \in 1..Len(s)
      BY <1>1, <2>1 DEF ToSet
    <2>2. CASE i \notin 1..Len(s)
      <3>1. i - Len(s) \in 1..Len(t) /\ (s \o t)[i] = t[i - Len(s)]
        BY <1>1, <2>2
      <3>. QED
        BY <1>1, <3>1 DEF ToSet
    <2>. QED
      BY <2>1, <2>2
  <1>5. ToSet(s \o t) \subseteq ToSet(s) \cup ToSet(t)
    BY <1>1, <1>4 DEF ToSet
  <1>6. ToSet(s) \cup ToSet(t) \subseteq ToSet(s \o t)
    BY <1>1, <1>2, <1>3 DEF ToSet
  <1>. QED
    BY <1>1, <1>5, <1>6

\* When a list that grows still lists everything once.
LEMMA InjectiveAppend ==
  ASSUME NEW T, NEW s \in Seq(T), NEW e \in T
  PROVE  IsInjective(Append(s, e)) <=> IsInjective(s) /\ e \notin ToSet(s)
PROOF
  <1>1. /\ DOMAIN Append(s, e) = 1..(Len(s) + 1)
        /\ DOMAIN s = 1..Len(s)
        /\ Len(s) \in Nat
        /\ \A i \in 1..Len(s) : Append(s, e)[i] = s[i]
        /\ Append(s, e)[Len(s) + 1] = e
    BY AppendProperties, LenProperties
  <1>2. 1..(Len(s) + 1) = (1..Len(s)) \cup {Len(s) + 1} /\ Len(s) + 1 \notin 1..Len(s)
    BY <1>1
  <1>. QED
    BY <1>1, <1>2 DEF ToSet, IsInjective

\* Two lists of different elements, one behind the other, list each once.
LEMMA InjectiveConcat ==
  ASSUME NEW T, NEW s \in Seq(T), NEW t \in Seq(T),
         IsInjective(s), IsInjective(t), ToSet(s) \cap ToSet(t) = {}
  PROVE  IsInjective(s \o t)
PROOF
  <1>1. /\ DOMAIN (s \o t) = 1..(Len(s) + Len(t))
        /\ DOMAIN s = 1..Len(s) /\ DOMAIN t = 1..Len(t)
        /\ Len(s) \in Nat /\ Len(t) \in Nat
        /\ \A i \in 1..(Len(s) + Len(t)) :
             (s \o t)[i] = IF i <= Len(s) THEN s[i] ELSE t[i - Len(s)]
    BY ConcatProperties, LenProperties
  <1> SUFFICES ASSUME NEW i \in 1..(Len(s) + Len(t)), NEW j \in 1..(Len(s) + Len(t)),
                      (s \o t)[i] = (s \o t)[j]
               PROVE  i = j
    BY <1>1 DEF IsInjective
  <1>2. CASE i <= Len(s) /\ j <= Len(s)
    BY <1>1, <1>2 DEF IsInjective
  <1>3. CASE i > Len(s) /\ j > Len(s)
    <2>1. i - Len(s) \in 1..Len(t) /\ j - Len(s) \in 1..Len(t)
      BY <1>1, <1>3
    <2>2. t[i - Len(s)] = t[j - Len(s)]
      BY <1>1, <1>3
    <2>3. i - Len(s) = j - Len(s)
      BY <1>1, <2>1, <2>2 DEF IsInjective
    <2>. QED
      BY <1>1, <2>3
  <1>4. CASE i <= Len(s) /\ j > Len(s)
    <2>1. i \in 1..Len(s) /\ j - Len(s) \in 1..Len(t) /\ s[i] = t[j - Len(s)]
      BY <1>1, <1>4
    <2>. QED
      BY <1>1, <2>1 DEF ToSet
  <1>5. CASE i > Len(s) /\ j <= Len(s)
    <2>1. j \in 1..Len(s) /\ i - Len(s) \in 1..Len(t) /\ s[j] = t[i - Len(s)]
      BY <1>1, <1>5
    <2>. QED
      BY <1>1, <2>1 DEF ToSet
  <1>. QED
    BY <1>1, <1>2, <1>3, <1>4, <1>5

\* A list without repetitions is as long as its set.
LEMMA InjectiveLength ==
  ASSUME NEW T, NEW s \in Seq(T), IsInjective(s)
  PROVE  /\ IsFiniteSet(ToSet(s))
         /\ Cardinality(ToSet(s)) = Len(s)
PROOF
  <1> DEFINE Good == {t \in Seq(T) : IsInjective(t) =>
                        IsFiniteSet(ToSet(t)) /\ Cardinality(ToSet(t)) = Len(t)}
  <1>1. <<>> \in Good
    <2>1. ToSet(<<>>) = {} /\ <<>> \in Seq(T) /\ Len(<<>>) = 0
      BY DEF ToSet
    <2>. QED
      BY <2>1, FS_EmptySet
  <1>2. ASSUME NEW t \in Seq(T), NEW e \in T, t \in Good
        PROVE  Append(t, e) \in Good
    <2> SUFFICES ASSUME IsInjective(Append(t, e))
                 PROVE  /\ IsFiniteSet(ToSet(Append(t, e)))
                        /\ Cardinality(ToSet(Append(t, e))) = Len(Append(t, e))
      OBVIOUS
    <2>1. IsInjective(t) /\ e \notin ToSet(t)
      BY InjectiveAppend
    <2>2. IsFiniteSet(ToSet(t)) /\ Cardinality(ToSet(t)) = Len(t)
      BY <1>2, <2>1
    <2>3. ToSet(Append(t, e)) = ToSet(t) \cup {e}
      BY SetOfAppend
    <2>4. Len(Append(t, e)) = Len(t) + 1
      OBVIOUS
    <2>. QED
      BY <2>1, <2>2, <2>3, <2>4, FS_AddElement
  <1> HIDE DEF Good
  <1>3. Seq(T) \subseteq Good
    BY <1>1, <1>2, SeqInd
  <1>. QED
    BY <1>3 DEF Good

-----------------------------------------------------------------------------
(***************************************************************************)
(* The reduct.                                                             *)
(***************************************************************************)

\* An admissible set of the reduct extends what the reduct was built from
\* (why a task may pass extension_build plus the set it found to a child).
LEMMA ReductExtends ==
  ASSUME NEW att, NEW A, NEW B, NEW S,
         Admissible(att, A, B),
         Admissible(att, get_reduct_set(A, att, B), S)
  PROVE  Admissible(att, A, B \cup S)
PROOF
  <1> DEFINE R == get_reduct_set(A, att, B)
  <1>1. \A x : x \in R <=> x \in A /\ x \notin B /\ \A b \in B : <<b, x>> \notin att
    BY DEF get_reduct_set
  <1>2. S \subseteq R /\ B \subseteq A
    BY DEF Admissible
  <1>3. \A a \in S, b \in B : <<a, b>> \notin att
    BY <1>1, <1>2 DEF Admissible, Defends
  <1>4. ConflictFree(att, B \cup S)
    BY <1>1, <1>2, <1>3 DEF Admissible, ConflictFree
  <1>5. ASSUME NEW a \in B \cup S, NEW b \in A, <<b, a>> \in att
        PROVE  \E c \in B \cup S : <<c, b>> \in att
    <2>1. CASE a \in B
      BY <1>5, <2>1 DEF Admissible, Defends
    <2>2. CASE a \in S /\ b \in R
      BY <1>5, <2>2 DEF Admissible, Defends
    <2>3. CASE a \in S /\ b \notin R
      <3>1. b \notin B
        BY <1>1, <1>2, <1>5, <2>3
      <3>. QED
        BY <1>1, <2>3, <3>1
    <2>. QED
      BY <2>1, <2>2, <2>3
  <1>. QED
    BY <1>1, <1>2, <1>4, <1>5 DEF Admissible, Defends

\* What an admissible set adds to a part of it is admissible in the reduct.
LEMMA ReductRest ==
  ASSUME NEW att, NEW A, NEW B, NEW T,
         Admissible(att, A, T), B \subseteq T
  PROVE  Admissible(att, get_reduct_set(A, att, B), T \ B)
PROOF
  <1> DEFINE R == get_reduct_set(A, att, B)
  <1>1. \A x : x \in R <=> x \in A /\ x \notin B /\ \A b \in B : <<b, x>> \notin att
    BY DEF get_reduct_set
  <1>2. T \ B \subseteq R
    BY <1>1 DEF Admissible, ConflictFree
  <1>3. ConflictFree(att, T \ B)
    BY DEF Admissible, ConflictFree
  <1>4. \A a \in T \ B : \A b \in R : <<b, a>> \in att => \E c \in T \ B : <<c, b>> \in att
    BY <1>1 DEF Admissible, Defends
  <1>. QED
    BY <1>2, <1>3, <1>4 DEF Admissible, Defends

\* A set whose reduct has no non-empty admissible set cannot grow.
LEMMA ReductEmpty ==
  ASSUME NEW att, NEW A, NEW B, NEW T,
         \A S \in SUBSET get_reduct_set(A, att, B) :
           Admissible(att, get_reduct_set(A, att, B), S) => S = {},
         Admissible(att, A, T), B \subseteq T
  PROVE  T = B
PROOF
  <1>1. Admissible(att, get_reduct_set(A, att, B), T \ B)
    BY ReductRest
  <1>. QED
    BY <1>1 DEF Admissible

\* Reducing in one step or in two.
LEMMA ReductOfUnion ==
  ASSUME NEW att, NEW A, NEW B, NEW S
  PROVE  get_reduct_set(A, att, B \cup S)
           = get_reduct_set(get_reduct_set(A, att, B), att, S)
BY DEF get_reduct_set

-----------------------------------------------------------------------------
(***************************************************************************)
(* Refutations and preferred extensions.                                   *)
(***************************************************************************)

\* Above every admissible set of a finite framework lies a preferred one.
LEMMA PreferredAbove ==
  ASSUME NEW att, NEW A, IsFiniteSet(A), NEW E, Admissible(att, A, E)
  PROVE  \E P \in SUBSET A : Preferred(att, A, P) /\ E \subseteq P
PROOF
  <1> DEFINE Above == {P \in SUBSET A : Admissible(att, A, P) /\ E \subseteq P}
             Rests == {A \ P : P \in Above}
  <1>1. Rests \subseteq FiniteSubsetsOf(A)
    BY FS_Subset DEF FiniteSubsetsOf
  <1>2. Rests # {}
    BY DEF Admissible
  <1>3. IsWellFoundedOn(StrictSubsetOrdering(A), FiniteSubsetsOf(A))
    BY FS_StrictSubsetOrderingWellFounded
  <1>4. PICK X \in Rests : \A Y \in Rests : ~(<<Y, X>> \in StrictSubsetOrdering(A))
    BY <1>1, <1>2, <1>3, WFMin
  <1>5. PICK P \in Above : X = A \ P
    BY <1>4
  <1>6. ASSUME NEW T \in SUBSET A, Admissible(att, A, T), P \subseteq T
        PROVE  T = P
    <2>1. A \ T \in Rests
      BY <1>5, <1>6
    <2>2. ~(<<A \ T, A \ P>> \in StrictSubsetOrdering(A))
      BY <1>4, <1>5, <2>1
    <2>3. A \ T \subseteq A \ P
      BY <1>6
    <2>4. A \ T = A \ P
      BY <2>2, <2>3 DEF StrictSubsetOrdering
    <2>. QED
      BY <1>6, <2>4
  <1>. QED
    BY <1>5, <1>6 DEF Preferred

\* The empty set, with which the search starts, is admissible.
LEMMA EmptyAdmissible ==
  ASSUME NEW att, NEW A
  PROVE  Admissible(att, A, {})
BY DEF Admissible, ConflictFree

\* To answer NO is to have a refutation: the search of the solver looks for
\* one and never computes a preferred extension.
THEOREM RefutableIffNotAccepted ==
  ASSUME NEW att, NEW A, IsFiniteSet(A), NEW q
  PROVE  Refutable(att, A, q) <=> ~SkepticallyAccepted(att, A, q)
PROOF
  <1>1. ASSUME NEW E \in SUBSET A, Refutes(att, A, q, E)
        PROVE  ~SkepticallyAccepted(att, A, q)
    <2>1. PICK P \in SUBSET A : Preferred(att, A, P) /\ E \subseteq P
      BY <1>1, PreferredAbove DEF Refutes
    <2>2. q \notin P
      BY <1>1, <2>1 DEF Refutes, Preferred
    <2>. QED
      BY <2>1, <2>2 DEF SkepticallyAccepted
  <1>2. ASSUME NEW E \in SUBSET A, Preferred(att, A, E), q \notin E
        PROVE  Refutes(att, A, q, E)
    BY <1>2 DEF Refutes, Preferred
  <1>. QED
    BY <1>1, <1>2 DEF Refutable, SkepticallyAccepted

-----------------------------------------------------------------------------
(***************************************************************************)
(* The cone of influence.  All that is used of it is that it holds the     *)
(* query and the attackers of its members.                                 *)
(***************************************************************************)
AttackerClosed(att, A, C) ==
  C \subseteq A /\ \A b \in C, c \in A : <<c, b>> \in att => c \in C

\* The cone of influence holds the query and every attacker of its members.
LEMMA ConeClosed ==
  ASSUME NEW att, NEW A, NEW q \in A
  PROVE  AttackerClosed(att, A, ConeOf(att, A, q)) /\ q \in ConeOf(att, A, q)
BY DEF AttackerClosed, ConeOf

\* Admissibility does not change when the framework is cut down to a part
\* that holds all attackers of its members.
LEMMA ClosedAdmissible ==
  ASSUME NEW att, NEW A, NEW C, AttackerClosed(att, A, C), NEW E
  PROVE  /\ Admissible(att, C, E) => Admissible(att, A, E)
         /\ Admissible(att, A, E) => Admissible(att, C, E \cap C)
PROOF
  <1>1. ASSUME Admissible(att, C, E) PROVE Admissible(att, A, E)
    BY <1>1 DEF Admissible, Defends, AttackerClosed
  <1>2. ASSUME Admissible(att, A, E) PROVE Admissible(att, C, E \cap C)
    BY <1>2 DEF Admissible, Defends, ConflictFree, AttackerClosed
  <1>. QED
    BY <1>1, <1>2

\* An admissible set grows by whatever its part in C can grow by.
LEMMA ClosedExtends ==
  ASSUME NEW att, NEW A, NEW C, AttackerClosed(att, A, C), NEW E, NEW T,
         Admissible(att, A, E), Admissible(att, C, T), E \cap C \subseteq T
  PROVE  Admissible(att, A, E \cup T)
PROOF
  <1>1. T \subseteq C /\ C \subseteq A /\ E \subseteq A
    BY DEF Admissible, AttackerClosed
  <1>2. \A a \in E, b \in T : <<a, b>> \notin att
    BY <1>1 DEF Admissible, ConflictFree, AttackerClosed
  <1>3. \A a \in T, b \in E : <<a, b>> \notin att
    BY <1>1, <1>2 DEF Admissible, Defends
  <1>4. Admissible(att, A, T)
    BY ClosedAdmissible
  <1>. QED
    BY <1>1, <1>2, <1>3, <1>4 DEF Admissible, ConflictFree, Defends

\* The question can be asked within the cone (calculate_cone_influence).
THEOREM ClosedRefutable ==
  ASSUME NEW att, NEW A, NEW C, AttackerClosed(att, A, C), NEW q \in C
  PROVE  Refutable(att, C, q) <=> Refutable(att, A, q)
PROOF
  <1>0. C \subseteq A
    BY DEF AttackerClosed
  <1>1. ASSUME NEW E \in SUBSET C, Refutes(att, C, q, E)
        PROVE  Refutes(att, A, q, E)
    <2>1. Admissible(att, A, E)
      BY <1>1, ClosedAdmissible DEF Refutes
    <2>2. ASSUME NEW T \in SUBSET A, Admissible(att, A, T), E \subseteq T
          PROVE  q \notin T
      <3>1. Admissible(att, C, T \cap C)
        BY <2>2, ClosedAdmissible
      <3>2. q \notin T \cap C
        BY <1>1, <2>2, <3>1 DEF Refutes
      <3>. QED
        BY <3>2
    <2>. QED
      BY <2>1, <2>2 DEF Refutes
  <1>2. ASSUME NEW E \in SUBSET A, Refutes(att, A, q, E)
        PROVE  Refutes(att, C, q, E \cap C)
    <2>1. Admissible(att, C, E \cap C)
      BY <1>2, ClosedAdmissible DEF Refutes
    <2>2. ASSUME NEW T \in SUBSET C, Admissible(att, C, T), E \cap C \subseteq T
          PROVE  q \notin T
      <3>1. Admissible(att, A, E \cup T)
        BY <1>2, <2>2, ClosedExtends DEF Refutes
      <3>2. q \notin E \cup T
        BY <1>0, <1>2, <3>1 DEF Refutes
      <3>. QED
        BY <3>2
    <2>. QED
      BY <2>1, <2>2 DEF Refutes
  <1>. QED
    BY <1>0, <1>1, <1>2 DEF Refutable

-----------------------------------------------------------------------------
(***************************************************************************)
(* The grounded extension.                                                 *)
(***************************************************************************)
DefenceClosed(att, A, S) == \A b \in A : Defends(att, A, S, b) => b \in S

\* It lies in every set that contains what it defends, and is one itself.
LEMMA GroundedLeast ==
  ASSUME NEW att, NEW A
  PROVE  /\ Grounded(att, A) \subseteq A
         /\ \A S \in SUBSET A : DefenceClosed(att, A, S) => Grounded(att, A) \subseteq S
         /\ DefenceClosed(att, A, Grounded(att, A))
PROOF
  <1>1. Grounded(att, A) \subseteq A
    BY DEF Grounded
  <1>2. \A S \in SUBSET A : DefenceClosed(att, A, S) => Grounded(att, A) \subseteq S
    BY DEF Grounded, DefenceClosed
  <1>3. ASSUME NEW b \in A, Defends(att, A, Grounded(att, A), b)
        PROVE  b \in Grounded(att, A)
    <2>1. ASSUME NEW S \in SUBSET A, DefenceClosed(att, A, S)
          PROVE  b \in S
      <3>1. Defends(att, A, S, b)
        BY <1>2, <1>3, <2>1 DEF Defends
      <3>. QED
        BY <2>1, <3>1 DEF DefenceClosed
    <2>. QED
      BY <2>1 DEF Grounded, DefenceClosed
  <1>. QED
    BY <1>1, <1>2, <1>3 DEF DefenceClosed

\* The grounded extension defends each of its members.
LEMMA GroundedDefended ==
  ASSUME NEW att, NEW A, NEW a \in Grounded(att, A)
  PROVE  Defends(att, A, Grounded(att, A), a)
PROOF
  <1> DEFINE G == Grounded(att, A)
             F == {x \in A : Defends(att, A, G, x)}
  <1>1. F \subseteq G
    BY GroundedLeast DEF DefenceClosed
  <1>2. DefenceClosed(att, A, F)
    <2> SUFFICES ASSUME NEW x \in A, Defends(att, A, F, x)
                 PROVE  Defends(att, A, G, x)
      BY DEF DefenceClosed
    <2>. QED
      BY <1>1 DEF Defends
  <1>. QED
    BY <1>2, GroundedLeast

\* Nothing in the grounded extension attacks an admissible set or is
\* attacked by it.
LEMMA GroundedCompatible ==
  ASSUME NEW att, NEW A, NEW E, Admissible(att, A, E),
         NEW g \in Grounded(att, A), NEW e \in E
  PROVE  <<g, e>> \notin att /\ <<e, g>> \notin att
PROOF
  <1> DEFINE G == Grounded(att, A)
             H == {x \in G : \A y \in E : <<x, y>> \notin att /\ <<y, x>> \notin att}
  <1>0. \A S \in SUBSET A : DefenceClosed(att, A, S) => G \subseteq S
    BY GroundedLeast
  <1>1. H \in SUBSET A /\ E \subseteq A
    BY GroundedLeast DEF Admissible
  <1>2. ASSUME NEW x \in A, Defends(att, A, H, x)
        PROVE  x \in H
    <2>1. Defends(att, A, G, x)
      BY <1>2 DEF Defends
    <2>2. x \in G
      BY <2>1, GroundedLeast DEF DefenceClosed
    <2>3. \A y \in E : <<y, x>> \notin att
      BY <1>1, <1>2 DEF Defends
    <2>4. \A y \in E : <<x, y>> \notin att
      BY <2>3 DEF Admissible, Defends
    <2>. QED
      BY <2>2, <2>3, <2>4
  <1>3. G \subseteq H
    <2>1. DefenceClosed(att, A, H)
      BY <1>2 DEF DefenceClosed
    <2> HIDE DEF G, H
    <2>. QED
      BY <1>0, <1>1, <2>1
  <1>. QED
    BY <1>3

\* The grounded extension, by which reduce_by_grounded reduces, is admissible.
LEMMA GroundedAdmissible ==
  ASSUME NEW att, NEW A
  PROVE  Admissible(att, A, Grounded(att, A))
PROOF
  <1> DEFINE G == Grounded(att, A)
             H == {x \in G : \A y \in G : <<y, x>> \notin att}
  <1>1. G \subseteq A /\ \A a \in G : Defends(att, A, G, a)
    BY GroundedLeast, GroundedDefended
  <1>2. ASSUME NEW x \in A, Defends(att, A, H, x)
        PROVE  x \in H
    <2>1. Defends(att, A, G, x)
      BY <1>2 DEF Defends
    <2>2. x \in G
      BY <2>1, GroundedLeast DEF DefenceClosed
    <2>3. ASSUME NEW y \in G, <<y, x>> \in att PROVE FALSE
      <3>1. PICK c \in H : <<c, y>> \in att
        BY <1>1, <1>2, <2>3 DEF Defends
      <3>2. PICK d \in G : <<d, c>> \in att
        BY <1>1, <3>1 DEF Defends
      <3>. QED
        BY <3>1, <3>2
    <2>. QED
      BY <2>2, <2>3
  <1>3. G \subseteq H
    BY <1>1, <1>2, GroundedLeast DEF DefenceClosed
  <1>. QED
    BY <1>1, <1>3 DEF Admissible, ConflictFree

\* Every admissible set can take in the whole grounded extension.
LEMMA GroundedJoins ==
  ASSUME NEW att, NEW A, NEW E, Admissible(att, A, E)
  PROVE  Admissible(att, A, E \cup Grounded(att, A))
PROOF
  <1> DEFINE G == Grounded(att, A)
  <1>1. Admissible(att, A, G)
    BY GroundedAdmissible
  <1>2. \A g \in G, e \in E : <<g, e>> \notin att /\ <<e, g>> \notin att
    BY GroundedCompatible
  <1> HIDE DEF G
  <1>3. E \cup G \subseteq A /\ ConflictFree(att, E \cup G)
    BY <1>1, <1>2 DEF Admissible, ConflictFree
  <1>4. \A a \in E \cup G : Defends(att, A, E \cup G, a)
    BY <1>1 DEF Admissible, Defends
  <1>. QED
    BY <1>3, <1>4 DEF Admissible, G

\* The question can be asked in the reduct by the grounded extension
\* (reduce_by_grounded).
THEOREM GroundedRefutable ==
  ASSUME NEW att, NEW A, NEW q,
         q \in get_reduct_set(A, att, Grounded(att, A))
  PROVE  Refutable(att, get_reduct_set(A, att, Grounded(att, A)), q)
           <=> Refutable(att, A, q)
PROOF
  <1> DEFINE G == Grounded(att, A)
             R == get_reduct_set(A, att, G)
  <1>0. R \subseteq A /\ G \subseteq A /\ q \in A /\ q \notin G
    BY GroundedLeast DEF get_reduct_set
  <1>1. Admissible(att, A, G)
    BY GroundedAdmissible
  <1> HIDE DEF G
  <1>2. ASSUME NEW E \in SUBSET R, Refutes(att, R, q, E)
        PROVE  Refutes(att, A, q, G \cup E)
    <2>1. Admissible(att, A, G \cup E)
      BY <1>1, <1>2, ReductExtends DEF Refutes
    <2>2. ASSUME NEW T \in SUBSET A, Admissible(att, A, T), G \cup E \subseteq T
          PROVE  q \notin T
      <3>1. Admissible(att, R, T \ G)
        BY <2>2, ReductRest
      <3>2. E \subseteq T \ G
        BY <2>2 DEF get_reduct_set
      <3>3. T \ G \in SUBSET R
        BY <3>1 DEF Admissible
      <3>4. q \notin T \ G
        BY <1>2, <3>1, <3>2, <3>3 DEF Refutes
      <3>. QED
        BY <1>0, <3>4
    <2>. QED
      BY <2>1, <2>2 DEF Refutes
  <1>3. ASSUME NEW E \in SUBSET A, Refutes(att, A, q, E)
        PROVE  Refutes(att, R, q, E \ G) /\ E \ G \in SUBSET R
    <2>1. Admissible(att, A, E \cup G)
      BY <1>3, GroundedJoins DEF Refutes, G
    <2>2. Admissible(att, R, E \ G)
      <3>1. Admissible(att, R, (E \cup G) \ G)
        BY <2>1, ReductRest
      <3>2. (E \cup G) \ G = E \ G
        OBVIOUS
      <3>. QED
        BY <3>1, <3>2
    <2>3. ASSUME NEW T \in SUBSET R, Admissible(att, R, T), E \ G \subseteq T
          PROVE  q \notin T
      <3>1. Admissible(att, A, G \cup T)
        BY <1>1, <2>3, ReductExtends
      <3>2. E \subseteq G \cup T /\ G \cup T \in SUBSET A
        BY <1>0, <2>3
      <3>3. q \notin G \cup T
        BY <1>3, <3>1, <3>2 DEF Refutes
      <3>. QED
        BY <3>3
    <2>. QED
      BY <2>2, <2>3 DEF Refutes, Admissible
  <1>4. ASSUME NEW E \in SUBSET R PROVE G \cup E \in SUBSET A
    BY <1>0
  <1>. QED
    BY <1>2, <1>3, <1>4 DEF Refutable, G

-----------------------------------------------------------------------------
(***************************************************************************)
(* What PreProc_DS_PR::process promises is right: its decisions are the    *)
(* answer, and the reduct it hands on has the answer of the framework.     *)
(***************************************************************************)

\* process returns one of the three values of pre_proc_result.
LEMMA ProcessResultValues ==
  ASSUME NEW att, NEW A, NEW q
  PROVE  process_result(att, A, q) \in {"accepted", "rejected", "unknown"}
BY DEF process_result

\* No admissible set holds a query that attacks itself or that the grounded
\* extension of its cone attacks: process answers "rejected".
LEMMA RejectedNowhere ==
  ASSUME NEW att, NEW A, NEW q \in A, process_result(att, A, q) = "rejected",
         NEW T, Admissible(att, A, T)
  PROVE  q \notin T
PROOF
  <1> DEFINE C == ConeOf(att, A, q)
  <1>1. AttackerClosed(att, A, C) /\ q \in C
    BY ConeClosed
  <1>2. <<q, q>> \in att \/ \E g \in Grounded(att, C) : <<g, q>> \in att
    BY DEF process_result
  <1>3. CASE <<q, q>> \in att
    BY <1>3 DEF Admissible, ConflictFree
  <1>4. ASSUME NEW g \in Grounded(att, C), <<g, q>> \in att
        PROVE  q \notin T
    <2>1. Admissible(att, C, T \cap C)
      BY <1>1, ClosedAdmissible
    <2>2. q \notin T \cap C
      BY <1>4, <2>1, GroundedCompatible
    <2>. QED
      BY <1>1, <2>2
  <1>. QED
    BY <1>2, <1>3, <1>4

\* Every admissible set can take in a query that nothing attacks or that is
\* grounded in its cone: process answers "accepted".
LEMMA AcceptedJoins ==
  ASSUME NEW att, NEW A, att \in SUBSET (A \X A), NEW q \in A,
         process_result(att, A, q) = "accepted",
         NEW T, Admissible(att, A, T)
  PROVE  \E P \in SUBSET A : Admissible(att, A, P) /\ T \subseteq P /\ q \in P
PROOF
  <1> DEFINE C == ConeOf(att, A, q)
             G == Grounded(att, C)
  <1>1. AttackerClosed(att, A, C) /\ q \in C
    BY ConeClosed
  <1>2. q \in G
    <2>1. attackers(att, q) = {} \/ q \in G
      BY DEF process_result
    <2>2. CASE attackers(att, q) = {}
      <3>1. \A b : <<b, q>> \notin att
        BY <2>2 DEF attackers
      <3>2. Defends(att, C, G, q)
        BY <3>1 DEF Defends
      <3>. QED
        BY <1>1, <3>2, GroundedLeast DEF DefenceClosed
    <2>. QED
      BY <2>1, <2>2
  <1>3. Admissible(att, C, (T \cap C) \cup G)
    BY <1>1, ClosedAdmissible, GroundedJoins
  <1>4. Admissible(att, A, T \cup ((T \cap C) \cup G))
    BY <1>1, <1>3, ClosedExtends
  <1>. QED
    BY <1>2, <1>4 DEF Admissible

\* The decisions of process are the answer of DS-PR, and the reduct it hands
\* to the search has the refutations of the framework (self-attack and
\* no-attacker shortcuts, calculate_cone_influence, reduce_by_grounded).
THEOREM ContractSound ==
  ASSUME NEW att, NEW A, IsFiniteSet(A), att \in SUBSET (A \X A), NEW q \in A
  PROVE  /\ process_result(att, A, q) = "accepted" => SkepticallyAccepted(att, A, q)
         /\ process_result(att, A, q) = "rejected" => ~SkepticallyAccepted(att, A, q)
         /\ process_result(att, A, q) = "unknown" =>
              /\ process_reduct(att, A, q) \subseteq A
              /\ q \in process_reduct(att, A, q)
              /\ Refutable(att, process_reduct(att, A, q), q)
                   <=> Refutable(att, A, q)
PROOF
  <1>1. ASSUME process_result(att, A, q) = "accepted"
        PROVE  SkepticallyAccepted(att, A, q)
    BY <1>1, AcceptedJoins DEF SkepticallyAccepted, Preferred
  <1>2. ASSUME process_result(att, A, q) = "rejected"
        PROVE  ~SkepticallyAccepted(att, A, q)
    <2>1. Refutes(att, A, q, {})
      BY <1>2, RejectedNowhere, EmptyAdmissible DEF Refutes
    <2>2. Refutable(att, A, q)
      BY <2>1 DEF Refutable
    <2>. QED
      BY <2>2, RefutableIffNotAccepted
  <1>3. ASSUME process_result(att, A, q) = "unknown"
        PROVE  /\ process_reduct(att, A, q) \subseteq A
               /\ q \in process_reduct(att, A, q)
               /\ Refutable(att, process_reduct(att, A, q), q)
                    <=> Refutable(att, A, q)
    <2> DEFINE C == ConeOf(att, A, q)
               G == Grounded(att, C)
    <2>1. AttackerClosed(att, A, C) /\ q \in C
      BY ConeClosed
    <2>2. q \notin G /\ \A g \in G : <<g, q>> \notin att
      BY <1>3 DEF process_result
    <2>3. process_reduct(att, A, q) = get_reduct_set(C, att, G)
      BY DEF process_reduct
    <2>4. q \in get_reduct_set(C, att, G) /\ get_reduct_set(C, att, G) \subseteq A
      BY <2>1, <2>2 DEF get_reduct_set, AttackerClosed
    <2>5. Refutable(att, get_reduct_set(C, att, G), q) <=> Refutable(att, C, q)
      BY <2>4, GroundedRefutable
    <2>6. Refutable(att, C, q) <=> Refutable(att, A, q)
      BY <2>1, ClosedRefutable
    <2>. QED
      BY <2>3, <2>4, <2>5, <2>6
  <1>. QED
    BY <1>1, <1>2, <1>3

-----------------------------------------------------------------------------
(***************************************************************************)
(* The SAT encoding of Encoding.cpp is exact, for every framework and      *)
(* every set R of active arguments: decoding a solution of the clauses     *)
(* yields a non-empty admissible set of (R, att), and each such set is     *)
(* decoded from a solution.                                                *)
(***************************************************************************)

\* The truth of the literals of an argument.
LEMMA LiteralTruth ==
  ASSUME NEW n \in Nat, NEW a \in 1..n, NEW m
  PROVE  /\ Holds(m, a) <=> a \in m
         /\ Holds(m, -a) <=> a \notin m
         /\ Holds(m, a + n) <=> a + n \in m
         /\ Holds(m, -(a + n)) <=> a + n \notin m
PROOF
  <1>1. a > 0 /\ ~(-a > 0) /\ a + n > 0 /\ ~(-(a + n) > 0)
    OBVIOUS
  <1>2. -(-a) = a /\ -(-(a + n)) = a + n
    OBVIOUS
  <1>. QED
    BY <1>1, <1>2 DEF Holds

\* AF::attackers[a] lists exactly the arguments with an attack on a.
LEMMA AttackersPairs ==
  ASSUME NEW A, NEW att \in SUBSET (A \X A), NEW a, NEW b
  PROVE  b \in attackers(att, a) <=> <<b, a>> \in att
BY DEF attackers

\* The clauses for one active argument, spelt out.
ClauseShape(n, att, R, a, c) ==
  \/ c = {-(a + n), -a}
  \/ c = {-(a + n)} \cup {b \in R : <<b, a>> \in att}
  \/ \E b \in R : /\ <<b, a>> \in att
                  /\ \/ c = {a + n, -b}
                     \/ c = {-a, -b}
                     \/ a # b /\ c = {-a, b + n}

\* add_admissible adds clauses of these shapes and no others.
LEMMA ArgumentClauses ==
  ASSUME NEW n \in Nat, NEW att \in SUBSET ((1..n) \X (1..n)),
         NEW R \in SUBSET (1..n), NEW a \in R, NEW c
  PROVE  c \in add_admissible(n, att, R, a) <=> ClauseShape(n, att, R, a, c)
PROOF
  <1>1. \A b : b \in attackers(att, a) \cap R <=> b \in R /\ <<b, a>> \in att
    BY AttackersPairs
  <1>2. rejection_reason_clause(n, att, R, a)
          = {-(a + n)} \cup {b \in R : <<b, a>> \in att}
    BY <1>1 DEF rejection_reason_clause, get_literal_rejected, get_literal_accepted
  <1>3. add_rejected_clauses(n, a) = {{-(a + n), -a}}
    BY DEF add_rejected_clauses, get_literal_rejected, get_literal_accepted
  <1> DEFINE PerAttacker(b) ==
        add_rejected_clauses_per_attacker(n, a, b)
          \cup add_conflict_free_per_attacker(a, b)
          \cup add_defense_per_attacker(n, a, b)
  <1>4. \A b : c \in PerAttacker(b) <=>
                 \/ c = {a + n, -b}
                 \/ c = {-a, -b}
                 \/ a # b /\ c = {-a, b + n}
    BY DEF add_rejected_clauses_per_attacker, add_conflict_free_per_attacker,
           add_defense_per_attacker, get_literal_rejected, get_literal_accepted
  <1>5. c \in add_admissible(n, att, R, a) <=>
          \/ c \in add_rejected_clauses(n, a)
          \/ \E b \in attackers(att, a) \cap R : c \in PerAttacker(b)
          \/ c = rejection_reason_clause(n, att, R, a)
    BY DEF add_admissible
  <1> HIDE DEF PerAttacker
  <1>. QED
    BY <1>1, <1>2, <1>3, <1>4, <1>5 DEF ClauseShape

\* The literals of the clause for non-emptiness are the active arguments.
LEMMA NonEmptyClause ==
  ASSUME NEW R
  PROVE  non_empty_clause(R) = R
BY DEF non_empty_clause, get_literal_accepted

\* The clauses of each active argument are all there, and nothing else is
\* but the clause for non-emptiness.
LEMMA EncodingClauses ==
  ASSUME NEW n, NEW att, NEW R, NEW c
  PROVE  c \in add_clauses_nonempty_admissible_set(n, att, R) <=>
           \/ c = R
           \/ \E a \in R : c \in add_admissible(n, att, R, a)
BY NonEmptyClause DEF add_clauses_nonempty_admissible_set

\* What the solver finds is a non-empty admissible set of the active part
\* of the framework (Encoding::add_clauses_nonempty_admissible_set with
\* Decoding::get_set_from_solver).
THEOREM EncodingSound ==
  ASSUME NEW n \in Nat, NEW att \in SUBSET ((1..n) \X (1..n)),
         NEW R \in SUBSET (1..n), NEW m,
         Satisfies(m, add_clauses_nonempty_admissible_set(n, att, R))
  PROVE  /\ get_set_from_solver(m, R) # {}
         /\ Admissible(att, R, get_set_from_solver(m, R))
PROOF
  <1> DEFINE S == get_set_from_solver(m, R)
             Enc == add_clauses_nonempty_admissible_set(n, att, R)
  <1>1. \A a : a \in S <=> a \in R /\ a \in m
    BY DEF get_set_from_solver
  <1>2. \A c \in Enc : \E l \in c : Holds(m, l)
    BY DEF Satisfies
  <1>3. S # {}
    <2>1. R \in Enc
      BY EncodingClauses
    <2>2. PICK l \in R : Holds(m, l)
      BY <1>2, <2>1
    <2>. QED
      BY <1>1, <2>2, LiteralTruth
  <1>4. ASSUME NEW a \in S, NEW b \in S, <<a, b>> \in att
        PROVE  FALSE
    <2>1. a \in R /\ b \in R /\ a \in m /\ b \in m
      BY <1>1
    <2>2. {-b, -a} \in Enc
      BY <1>4, <2>1, ArgumentClauses, EncodingClauses DEF ClauseShape
    <2>3. Holds(m, -b) \/ Holds(m, -a)
      BY <1>2, <2>2
    <2>. QED
      BY <2>1, <2>3, LiteralTruth
  <1>5. ASSUME NEW a \in S, NEW b \in R, <<b, a>> \in att
        PROVE  \E c \in S : <<c, b>> \in att
    <2>1. a \in R /\ a \in m
      BY <1>1
    <2>2. a # b
      BY <1>4, <1>5
    <2>3. {-a, b + n} \in Enc
      BY <1>5, <2>1, <2>2, ArgumentClauses, EncodingClauses DEF ClauseShape
    <2>4. Holds(m, -a) \/ Holds(m, b + n)
      BY <1>2, <2>3
    <2>5. b + n \in m
      BY <2>1, <2>4, LiteralTruth
    <2>6. {-(b + n)} \cup {c \in R : <<c, b>> \in att} \in Enc
      <3> DEFINE reason == {-(b + n)} \cup {c \in R : <<c, b>> \in att}
      <3>1. ClauseShape(n, att, R, b, reason)
        BY DEF ClauseShape
      <3> HIDE DEF reason
      <3>2. reason \in add_admissible(n, att, R, b)
        BY <3>1, ArgumentClauses
      <3>3. reason \in Enc
        BY <3>2, EncodingClauses
      <3>. QED
        BY <3>3 DEF reason
    <2>7. PICK l \in {-(b + n)} \cup {c \in R : <<c, b>> \in att} : Holds(m, l)
      BY <1>2, <2>6
    <2>8. l # -(b + n)
      BY <2>5, <2>7, LiteralTruth
    <2>. QED
      BY <1>1, <2>7, <2>8, LiteralTruth
  <1>. QED
    BY <1>1, <1>3, <1>4, <1>5 DEF Admissible, ConflictFree, Defends

\* What the model that stands for a set says of an active argument.
LEMMA SetModelMembers ==
  ASSUME NEW n \in Nat, NEW att, NEW R \in SUBSET (1..n), NEW S \in SUBSET R,
         NEW a \in R
  PROVE  /\ a \in SetModel(n, att, R, S) <=> a \in S
         /\ a + n \in SetModel(n, att, R, S) <=> \E b \in S : <<b, a>> \in att
PROOF
  <1>1. \A x \in R : x # a + n /\ x + n # a /\ (x + n = a + n => x = a)
    OBVIOUS
  <1>. QED
    BY <1>1 DEF SetModel

\* No admissible set is missed: each is decoded from a model of the clauses.
THEOREM EncodingComplete ==
  ASSUME NEW n \in Nat, NEW att \in SUBSET ((1..n) \X (1..n)),
         NEW R \in SUBSET (1..n), NEW S \in SUBSET R, S # {},
         Admissible(att, R, S)
  PROVE  /\ SetModel(n, att, R, S) \in SUBSET Variables(n, R)
         /\ get_set_from_solver(SetModel(n, att, R, S), R) = S
         /\ Satisfies(SetModel(n, att, R, S),
                      add_clauses_nonempty_admissible_set(n, att, R))
PROOF
  <1> DEFINE m == SetModel(n, att, R, S)
             Hit(x) == \E b \in S : <<b, x>> \in att
  <1>1. \A a \in R : /\ Holds(m, a) <=> a \in S
                     /\ Holds(m, -a) <=> a \notin S
                     /\ Holds(m, a + n) <=> Hit(a)
                     /\ Holds(m, -(a + n)) <=> ~Hit(a)
    <2> TAKE a \in R
    <2> HIDE DEF m
    <2>1. /\ Holds(m, a) <=> a \in m
          /\ Holds(m, -a) <=> a \notin m
          /\ Holds(m, a + n) <=> a + n \in m
          /\ Holds(m, -(a + n)) <=> a + n \notin m
      BY LiteralTruth
    <2>2. (a \in m <=> a \in S) /\ (a + n \in m <=> Hit(a))
      BY SetModelMembers DEF m
    <2>. QED
      BY <2>1, <2>2
  <1>2. m \in SUBSET Variables(n, R)
    BY DEF SetModel, Variables
  <1>3. get_set_from_solver(m, R) = S
    BY SetModelMembers DEF get_set_from_solver
  <1>4. \E l \in R : Holds(m, l)
    BY <1>1
  <1>5. ASSUME NEW a \in R, NEW c \in add_admissible(n, att, R, a)
        PROVE  \E l \in c : Holds(m, l)
    <2> HIDE DEF m
    <2>0. ClauseShape(n, att, R, a, c)
      BY <1>5, ArgumentClauses
    <2>1. CASE c = {-(a + n), -a}
      <3>1. a \in S => ~Hit(a)
        BY DEF Admissible, ConflictFree
      <3>. QED
        BY <1>1, <2>1, <3>1
    <2>2. CASE c = {-(a + n)} \cup {b \in R : <<b, a>> \in att}
      <3>1. CASE Hit(a)
        BY <1>1, <2>2, <3>1
      <3>2. CASE ~Hit(a)
        BY <1>1, <2>2, <3>2
      <3>. QED
        BY <3>1, <3>2
    <2>3. ASSUME NEW b \in R, <<b, a>> \in att, c = {a + n, -b}
          PROVE  \E l \in c : Holds(m, l)
      BY <1>1, <2>3
    <2>4. ASSUME NEW b \in R, <<b, a>> \in att, c = {-a, -b}
          PROVE  \E l \in c : Holds(m, l)
      BY <1>1, <2>4 DEF Admissible, ConflictFree
    <2>5. ASSUME NEW b \in R, <<b, a>> \in att, c = {-a, b + n}
          PROVE  \E l \in c : Holds(m, l)
      BY <1>1, <2>5 DEF Admissible, Defends
    <2>. QED
      BY <2>0, <2>1, <2>2, <2>3, <2>4, <2>5 DEF ClauseShape
  <1>. QED
    BY <1>2, <1>3, <1>4, <1>5, EncodingClauses DEF Satisfies

\* The complement clause excludes exactly the supersets of the set found.
LEMMA ComplementClause ==
  ASSUME NEW n \in Nat, NEW R \in SUBSET (1..n), NEW m, NEW m2
  PROVE  Satisfies(m2, add_complement_clause(m, R)) <=>
           ~(get_set_from_solver(m, R) \subseteq m2)
PROOF
  <1>1. add_complement_clause(m, R) = {{-a : a \in get_set_from_solver(m, R)}}
    BY DEF add_complement_clause, get_literal_accepted
  <1>2. Satisfies(m2, add_complement_clause(m, R)) <=>
          \E a \in get_set_from_solver(m, R) : Holds(m2, -a)
    BY <1>1 DEF Satisfies
  <1>3. \A a \in get_set_from_solver(m, R) : Holds(m2, -a) <=> a \notin m2
    BY LiteralTruth DEF get_set_from_solver
  <1>. QED
    BY <1>2, <1>3
=============================================================================
