--------------------- MODULE PreProcessor_DS_PR_proofs ---------------------
(***************************************************************************)
(* What PreProc_DS_PR::process returns is what PreProcContract promises,   *)
(* for every framework: the loops end with the cone of influence and the   *)
(* grounded extension of their closed forms.                               *)
(***************************************************************************)
EXTENDS TaskLists, ArgumentationTheorems

-----------------------------------------------------------------------------
(***************************************************************************)
(* Keep: the loop that filters a vector.                                   *)
(***************************************************************************)
KeepLoop(s, S, n, kept) ==
  kept = [i \in 0..n |->
            IF i = 0 THEN <<>>
            ELSE IF s[i] \in S THEN Append(kept[i - 1], s[i])
            ELSE kept[i - 1]]

\* Its turns: the first i members are read.
KeepTurn(s, S, kept, i) ==
  kept[i] = IF s[i] \in S THEN Append(kept[i - 1], s[i]) ELSE kept[i - 1]

\* Each turn of the loop reads one element and keeps or drops it.
LEMMA KeepTurns ==
  ASSUME NEW s, NEW S, NEW n \in Nat, NEW kept, KeepLoop(s, S, n, kept)
  PROVE  kept[0] = <<>> /\ \A i \in 1..n : KeepTurn(s, S, kept, i)
PROOF
  <1> DEFINE Step(f, i) == IF i = 0 THEN <<>>
                           ELSE IF s[i] \in S THEN Append(f[i - 1], s[i])
                           ELSE f[i - 1]
  <1>1. kept = [i \in 0..n |-> Step(kept, i)]
    BY DEF KeepLoop
  <1>2. \A i \in 0..n : kept[i] = Step(kept, i)
    <2> HIDE DEF Step
    <2>. QED
      BY <1>1
  <1>3. 0 \in 0..n /\ \A i \in 1..n : i \in 0..n /\ i # 0
    OBVIOUS
  <1>4. \A i \in 1..n : kept[i] = Step(kept, i)
    <2> HIDE DEF Step
    <2>. QED
      BY <1>2, <1>3
  <1>5. kept[0] = Step(kept, 0)
    BY <1>2, <1>3
  <1>. QED
    BY <1>3, <1>4, <1>5 DEF KeepTurn

\* The loop has a result.
LEMMA KeepLoopEnds ==
  ASSUME NEW s, NEW S, NEW n \in Nat
  PROVE  \E kept : KeepLoop(s, S, n, kept)
PROOF
  <1> DEFINE Good == {m \in Nat : \E kept : KeepLoop(s, S, m, kept)}
  <1>1. 0 \in Good
    <2>1. KeepLoop(s, S, 0, [i \in 0..0 |-> <<>>])
      BY DEF KeepLoop
    <2>. QED
      BY <2>1
  <1>2. ASSUME NEW m \in Nat, m \in Good PROVE m + 1 \in Good
    <2>1. PICK kept : KeepLoop(s, S, m, kept)
      BY <1>2
    <2> DEFINE Step(f, i) == IF i = 0 THEN <<>>
                             ELSE IF s[i] \in S THEN Append(f[i - 1], s[i])
                             ELSE f[i - 1]
               longer == [i \in 0..(m + 1) |-> Step(kept, i)]
    <2>2. \A i \in 0..m : longer[i] = kept[i]
      <3>1. kept = [i \in 0..m |-> Step(kept, i)]
        BY <2>1 DEF KeepLoop
      <3> HIDE DEF Step
      <3>. QED
        BY <3>1
    <2>3. longer = [i \in 0..(m + 1) |-> Step(longer, i)]
      <3>1. \A i \in 0..(m + 1) : i # 0 => longer[i - 1] = kept[i - 1]
        <4> HIDE DEF longer
        <4>. QED
          BY <2>2
      <3>2. \A i \in 0..(m + 1) : Step(longer, i) = Step(kept, i)
        <4> HIDE DEF longer
        <4>. QED
          BY <3>1
      <3> HIDE DEF Step
      <3>. QED
        BY <3>2
    <2>4. KeepLoop(s, S, m + 1, longer)
      BY <2>3 DEF KeepLoop
    <2>. QED
      BY <2>4
  <1> HIDE DEF Good
  <1>3. Nat \subseteq Good
    BY <1>1, <1>2, NatInd
  <1>. QED
    BY <1>3 DEF Good

\* ... and Keep is what it ends with.
LEMMA KeepIsLoop ==
  ASSUME NEW s, NEW S, Len(s) \in Nat
  PROVE  \E kept : KeepLoop(s, S, Len(s), kept) /\ Keep(s, S) = kept[Len(s)]
PROOF
  <1> DEFINE chosen == CHOOSE kept : KeepLoop(s, S, Len(s), kept)
  <1>1. KeepLoop(s, S, Len(s), chosen)
    BY KeepLoopEnds
  <1>2. Keep(s, S) = chosen[Len(s)]
    BY DEF Keep, KeepLoop
  <1>. QED
    BY <1>1, <1>2

\* The loop, one turn at a time.
LEMMA KeepEmpty ==
  ASSUME NEW S
  PROVE  Keep(<<>>, S) = <<>>
PROOF
  <1> SUFFICES ASSUME NEW s, s = <<>> PROVE Keep(s, S) = <<>>
    OBVIOUS
  <1>1. Len(s) = 0 /\ 0 \in Nat
    OBVIOUS
  <1>2. PICK kept : KeepLoop(s, S, Len(s), kept) /\ Keep(s, S) = kept[Len(s)]
    BY <1>1, KeepIsLoop
  <1>3. kept[0] = <<>>
    BY <1>1, <1>2, KeepTurns
  <1>. QED
    BY <1>1, <1>2, <1>3

\* An element more to read is one turn more.
LEMMA KeepAppend ==
  ASSUME NEW T, NEW s \in Seq(T), NEW e \in T, NEW S
  PROVE  Keep(Append(s, e), S) = IF e \in S THEN Append(Keep(s, S), e) ELSE Keep(s, S)
PROOF
  <1> SUFFICES ASSUME NEW t, t = Append(s, e),
                      NEW n, n = Len(s), NEW m, m = n + 1
               PROVE  Keep(t, S) = IF e \in S THEN Append(Keep(s, S), e) ELSE Keep(s, S)
    OBVIOUS
  <1>0. /\ n \in Nat /\ m \in Nat /\ Len(t) = m /\ t[m] = e
        /\ \A i \in 1..n : t[i] = s[i]
    BY AppendProperties, LenProperties
  <1>1. PICK f : KeepLoop(s, S, n, f) /\ Keep(s, S) = f[n]
    BY <1>0, KeepIsLoop
  <1>2. PICK g : KeepLoop(t, S, m, g) /\ Keep(t, S) = g[m]
    BY <1>0, KeepIsLoop
  <1>3. /\ f[0] = <<>>
        /\ \A i \in 1..n : KeepTurn(s, S, f, i)
    BY <1>0, <1>1, KeepTurns
  <1>4. /\ g[0] = <<>>
        /\ \A i \in 1..m : KeepTurn(t, S, g, i)
    BY <1>0, <1>2, KeepTurns
  <1> DEFINE Good == {i \in Nat : i <= n => g[i] = f[i]}
  <1>5. 0 \in Good
    BY <1>3, <1>4
  <1>6. ASSUME NEW i \in Nat, i \in Good PROVE i + 1 \in Good
    <2> SUFFICES ASSUME i + 1 <= n PROVE g[i + 1] = f[i + 1]
      OBVIOUS
    <2>1. i + 1 \in 1..n /\ i + 1 \in 1..m /\ (i + 1) - 1 = i /\ g[i] = f[i]
      BY <1>0, <1>6
    <2>. QED
      BY <1>0, <1>3, <1>4, <2>1 DEF KeepTurn
  <1> HIDE DEF Good
  <1>7. Nat \subseteq Good
    BY <1>5, <1>6, NatInd
  <1>8. g[n] = f[n]
    BY <1>0, <1>7 DEF Good
  <1>9. m - 1 = n /\ m \in 1..m
    BY <1>0
  <1>10. g[m] = IF e \in S THEN Append(g[n], e) ELSE g[n]
    BY <1>0, <1>4, <1>9 DEF KeepTurn
  <1>. QED
    BY <1>1, <1>2, <1>8, <1>10

\* Keep returns the members of S, in a list of the same type, and no longer
\* than the list it reads.
LEMMA KeepMembers ==
  ASSUME NEW T, NEW s \in Seq(T), NEW S
  PROVE  /\ Keep(s, S) \in Seq(T)
         /\ ToSet(Keep(s, S)) = ToSet(s) \cap S
PROOF
  <1> DEFINE Good == {t \in Seq(T) : /\ Keep(t, S) \in Seq(T)
                                     /\ ToSet(Keep(t, S)) = ToSet(t) \cap S}
  <1>1. <<>> \in Good
    <2>1. ToSet(<<>>) = {} /\ <<>> \in Seq(T)
      BY DEF ToSet
    <2>. QED
      BY <2>1, KeepEmpty
  <1>2. ASSUME NEW t \in Seq(T), NEW e \in T, t \in Good
        PROVE  Append(t, e) \in Good
    <2>1. Keep(t, S) \in Seq(T) /\ ToSet(Keep(t, S)) = ToSet(t) \cap S
      BY <1>2
    <2>2. ToSet(Append(t, e)) = ToSet(t) \cup {e}
      BY SetOfAppend
    <2>3. ToSet(Append(Keep(t, S), e)) = ToSet(Keep(t, S)) \cup {e}
      BY <2>1, SetOfAppend
    <2>4. Append(t, e) \in Seq(T) /\ Append(Keep(t, S), e) \in Seq(T)
      BY <2>1
    <2>5. Keep(Append(t, e), S) = IF e \in S THEN Append(Keep(t, S), e) ELSE Keep(t, S)
      BY KeepAppend
    <2>. QED
      BY <2>1, <2>2, <2>3, <2>4, <2>5
  <1> HIDE DEF Good
  <1>3. Seq(T) \subseteq Good
    BY <1>1, <1>2, SeqInd
  <1>. QED
    BY <1>3 DEF Good

\* A vector without repetitions stays one.
LEMMA KeepInjective ==
  ASSUME NEW T, NEW s \in Seq(T), IsInjective(s), NEW S
  PROVE  IsInjective(Keep(s, S))
PROOF
  <1> DEFINE Good == {t \in Seq(T) : IsInjective(t) => IsInjective(Keep(t, S))}
  <1>1. <<>> \in Good
    BY KeepEmpty
  <1>2. ASSUME NEW t \in Seq(T), NEW e \in T, t \in Good
        PROVE  Append(t, e) \in Good
    <2> SUFFICES ASSUME IsInjective(Append(t, e))
                 PROVE  IsInjective(Keep(Append(t, e), S))
      OBVIOUS
    <2>1. IsInjective(t) /\ e \notin ToSet(t)
      BY InjectiveAppend
    <2>2. IsInjective(Keep(t, S)) /\ Keep(t, S) \in Seq(T) /\ e \notin ToSet(Keep(t, S))
      BY <1>2, <2>1, KeepMembers
    <2>3. IsInjective(Append(Keep(t, S), e))
      BY <2>2, InjectiveAppend
    <2>. QED
      BY <2>2, <2>3, KeepAppend
  <1> HIDE DEF Good
  <1>3. Seq(T) \subseteq Good
    BY <1>1, <1>2, SeqInd
  <1>. QED
    BY <1>3 DEF Good

\* Two loops in a row keep what both keep, in the old order.
LEMMA KeepTwice ==
  ASSUME NEW T, NEW s \in Seq(T), NEW S1, NEW S2
  PROVE  Keep(Keep(s, S1), S2) = Keep(s, S1 \cap S2)
PROOF
  <1> DEFINE Good == {t \in Seq(T) : Keep(Keep(t, S1), S2) = Keep(t, S1 \cap S2)}
  <1>1. <<>> \in Good
    BY KeepEmpty
  <1>2. ASSUME NEW t \in Seq(T), NEW e \in T, t \in Good
        PROVE  Append(t, e) \in Good
    <2>1. Keep(t, S1) \in Seq(T)
      BY KeepMembers
    <2>2. Keep(Append(Keep(t, S1), e), S2)
            = IF e \in S2 THEN Append(Keep(Keep(t, S1), S2), e) ELSE Keep(Keep(t, S1), S2)
      BY <2>1, KeepAppend
    <2>3. Keep(Append(t, e), S1) = IF e \in S1 THEN Append(Keep(t, S1), e) ELSE Keep(t, S1)
      BY KeepAppend
    <2>4. Keep(Append(t, e), S1 \cap S2)
            = IF e \in S1 \cap S2 THEN Append(Keep(t, S1 \cap S2), e) ELSE Keep(t, S1 \cap S2)
      BY KeepAppend
    <2>5. Keep(Keep(t, S1), S2) = Keep(t, S1 \cap S2)
      BY <1>2
    <2>6. Append(t, e) \in Seq(T)
      OBVIOUS
    <2>7. Keep(Keep(Append(t, e), S1), S2) = Keep(Append(t, e), S1 \cap S2)
      <3>1. CASE e \in S1
        <4>1. Keep(Keep(Append(t, e), S1), S2) = Keep(Append(Keep(t, S1), e), S2)
          BY <2>3, <3>1
        <4>2. e \in S1 \cap S2 <=> e \in S2
          BY <3>1
        <4>. QED
          BY <2>2, <2>4, <2>5, <4>1, <4>2, Zenon
      <3>2. CASE e \notin S1
        BY <2>3, <2>4, <2>5, <3>2
      <3>. QED
        BY <3>1, <3>2
    <2>. QED
      BY <2>6, <2>7
  <1> HIDE DEF Good
  <1>3. Seq(T) \subseteq Good
    BY <1>1, <1>2, SeqInd
  <1>. QED
    BY <1>3 DEF Good

\* A loop that drops nothing copies.
LEMMA KeepAll ==
  ASSUME NEW T, NEW s \in Seq(T), NEW S, ToSet(s) \subseteq S
  PROVE  Keep(s, S) = s
PROOF
  <1> DEFINE Good == {t \in Seq(T) : ToSet(t) \subseteq S => Keep(t, S) = t}
  <1>1. <<>> \in Good
    BY KeepEmpty
  <1>2. ASSUME NEW t \in Seq(T), NEW e \in T, t \in Good
        PROVE  Append(t, e) \in Good
    <2>1. ToSet(Append(t, e)) = ToSet(t) \cup {e}
      BY SetOfAppend
    <2>. QED
      BY <1>2, <2>1, KeepAppend
  <1> HIDE DEF Good
  <1>3. Seq(T) \subseteq Good
    BY <1>1, <1>2, SeqInd
  <1>. QED
    BY <1>3 DEF Good

-----------------------------------------------------------------------------
(***************************************************************************)
(* Merge: std::list::merge on lists in any order.                          *)
(***************************************************************************)
MergeLoop(l1, l2, n, state) ==
  state = [k \in 0..n |->
             IF k = 0 THEN MergeStart ELSE MergeTurn(l1, l2, state[k - 1])]

\* Each turn of merge takes one element.
LEMMA MergeTurns ==
  ASSUME NEW l1, NEW l2, NEW n \in Nat, NEW state, MergeLoop(l1, l2, n, state)
  PROVE  /\ state[0] = MergeStart
         /\ \A k \in 1..n : state[k] = MergeTurn(l1, l2, state[k - 1])
BY DEF MergeLoop

\* The loop has a result.
LEMMA MergeLoopEnds ==
  ASSUME NEW l1, NEW l2, NEW n \in Nat
  PROVE  \E state : MergeLoop(l1, l2, n, state)
PROOF
  <1> DEFINE Good == {m \in Nat : \E state : MergeLoop(l1, l2, m, state)}
  <1>1. 0 \in Good
    <2>1. MergeLoop(l1, l2, 0, [k \in 0..0 |-> MergeStart])
      BY DEF MergeLoop
    <2>. QED
      BY <2>1
  <1>2. ASSUME NEW m \in Nat, m \in Good PROVE m + 1 \in Good
    <2>1. PICK state : MergeLoop(l1, l2, m, state)
      BY <1>2
    <2> DEFINE longer == [k \in 0..(m + 1) |->
                            IF k = 0 THEN MergeStart ELSE MergeTurn(l1, l2, state[k - 1])]
    <2>2. \A k \in 0..m : longer[k] = state[k]
      BY <2>1 DEF MergeLoop
    <2>3. \A k \in 0..(m + 1) : k # 0 => longer[k - 1] = state[k - 1]
      <3> HIDE DEF longer
      <3>. QED
        BY <2>2
    <2>4. longer = [k \in 0..(m + 1) |->
                      IF k = 0 THEN MergeStart ELSE MergeTurn(l1, l2, longer[k - 1])]
      BY <2>3
    <2> HIDE DEF longer
    <2>5. MergeLoop(l1, l2, m + 1, longer)
      BY <2>4 DEF MergeLoop
    <2>. QED
      BY <2>5
  <1> HIDE DEF Good
  <1>3. Nat \subseteq Good
    BY <1>1, <1>2, NatInd
  <1>. QED
    BY <1>3 DEF Good

\* ... and Merge is what it ends with.
LEMMA MergeIsLoop ==
  ASSUME NEW l1, NEW l2, NEW n \in Nat, n = Len(l1) + Len(l2)
  PROVE  \E state : MergeLoop(l1, l2, n, state) /\ Merge(l1, l2) = state[n].out
PROOF
  <1> DEFINE chosen == CHOOSE state : MergeLoop(l1, l2, n, state)
  <1>1. MergeLoop(l1, l2, n, chosen)
    BY MergeLoopEnds
  <1>2. Merge(l1, l2) = chosen[n].out
    BY DEF Merge, MergeLoop
  <1>. QED
    BY <1>1, <1>2

\* What is merged after k turns: the first i - 1 of the one list and the
\* first j - 1 of the other.
Merged(l1, l2, T, k, st) ==
  /\ st \in [out : Seq(T), i : Nat, j : Nat]
  /\ st.i \in 1..(Len(l1) + 1)
  /\ st.j \in 1..(Len(l2) + 1)
  /\ st.i + st.j = k + 2
  /\ Len(st.out) = k
  /\ ToSet(st.out) = {l1[x] : x \in 1..(st.i - 1)} \cup {l2[x] : x \in 1..(st.j - 1)}

\* A turn of merge takes the next element of one of the lists, and the
\* elements taken stay the elements put out.
LEMMA MergeTurnRight ==
  ASSUME NEW T, NEW l1 \in Seq(T), NEW l2 \in Seq(T),
         NEW k \in Nat, k < Len(l1) + Len(l2), NEW st, Merged(l1, l2, T, k, st)
  PROVE  Merged(l1, l2, T, k + 1, MergeTurn(l1, l2, st))
PROOF
  <1> SUFFICES ASSUME NEW new, new = MergeTurn(l1, l2, st)
               PROVE  Merged(l1, l2, T, k + 1, new)
    OBVIOUS
  <1>0. /\ Len(l1) \in Nat /\ Len(l2) \in Nat
        /\ st.out \in Seq(T) /\ st.i \in 1..(Len(l1) + 1) /\ st.j \in 1..(Len(l2) + 1)
        /\ st.i + st.j = k + 2 /\ Len(st.out) = k
        /\ ToSet(st.out) = {l1[x] : x \in 1..(st.i - 1)} \cup {l2[x] : x \in 1..(st.j - 1)}
    BY LenProperties DEF Merged
  <1>a. st.out \in Seq(T) /\ Len(st.out) = k
    BY <1>0
  <1>b. /\ Len(l1) \in Nat /\ Len(l2) \in Nat
        /\ st.i \in 1..(Len(l1) + 1) /\ st.j \in 1..(Len(l2) + 1)
        /\ st.i + st.j = k + 2
    BY <1>0
  <1>1. CASE st.i > Len(l1) \/ (st.j <= Len(l2) /\ l2[st.j] < l1[st.i])
    <2>1. st.j \in 1..Len(l2)
      BY <1>b, <1>1
    <2>2. l2[st.j] \in T
      BY <2>1
    <2>3. new = [out |-> Append(st.out, l2[st.j]), i |-> st.i, j |-> st.j + 1]
      BY <1>1 DEF MergeTurn
    <2>4. new.out = Append(st.out, l2[st.j])
      BY <2>3
    <2>i. new.i = st.i /\ new.j = st.j + 1
      BY <2>3
    <2>5. ToSet(new.out) = ToSet(st.out) \cup {l2[st.j]}
      BY <1>a, <2>2, <2>4, SetOfAppend
    <2>6. 1..(new.j - 1) = 1..(st.j - 1) \cup {st.j}
      BY <2>1, <2>i
    <2>7. Len(new.out) = k + 1 /\ new.out \in Seq(T)
      BY <1>a, <2>2, <2>4, AppendProperties
    <2>8. {l2[x] : x \in 1..(new.j - 1)} = {l2[x] : x \in 1..(st.j - 1)} \cup {l2[st.j]}
      BY <2>6
    <2>9. ToSet(new.out) = {l1[x] : x \in 1..(new.i - 1)} \cup {l2[x] : x \in 1..(new.j - 1)}
      BY <1>0, <2>i, <2>5, <2>8
    <2>10. /\ new.i \in 1..(Len(l1) + 1)
           /\ new.j \in 1..(Len(l2) + 1)
           /\ new.i + new.j = (k + 1) + 2
      <3>1. new.i \in 1..(Len(l1) + 1)
        BY <1>b, <2>1, <2>i
      <3>2. new.j \in 1..(Len(l2) + 1)
        BY <1>b, <2>1, <2>i
      <3>3. new.i + new.j = (st.i + st.j) + 1
        BY <1>b, <2>i
      <3>. QED
        BY <1>b, <3>1, <3>2, <3>3
    <2>11. new \in [out : Seq(T), i : Nat, j : Nat]
      <3>1. new.i \in Nat /\ new.j \in Nat
        BY <1>0, <2>10
      <3>. QED
        BY <2>3, <2>7, <3>1
    <2>. QED
      BY <2>7, <2>9, <2>10, <2>11 DEF Merged
  <1>2. CASE ~(st.i > Len(l1) \/ (st.j <= Len(l2) /\ l2[st.j] < l1[st.i]))
    <2>1. st.i \in 1..Len(l1)
      BY <1>b, <1>2
    <2>2. l1[st.i] \in T
      BY <2>1
    <2>3. new = [out |-> Append(st.out, l1[st.i]), i |-> st.i + 1, j |-> st.j]
      BY <1>2 DEF MergeTurn
    <2>4. new.out = Append(st.out, l1[st.i])
      BY <2>3
    <2>i. new.i = st.i + 1 /\ new.j = st.j
      BY <2>3
    <2>5. ToSet(new.out) = ToSet(st.out) \cup {l1[st.i]}
      BY <1>a, <2>2, <2>4, SetOfAppend
    <2>6. 1..(new.i - 1) = 1..(st.i - 1) \cup {st.i}
      BY <2>1, <2>i
    <2>7. Len(new.out) = k + 1 /\ new.out \in Seq(T)
      BY <1>a, <2>2, <2>4, AppendProperties
    <2>8. {l1[x] : x \in 1..(new.i - 1)} = {l1[x] : x \in 1..(st.i - 1)} \cup {l1[st.i]}
      BY <2>6
    <2>9. ToSet(new.out) = {l1[x] : x \in 1..(new.i - 1)} \cup {l2[x] : x \in 1..(new.j - 1)}
      BY <1>0, <2>i, <2>5, <2>8
    <2>10. /\ new.i \in 1..(Len(l1) + 1)
           /\ new.j \in 1..(Len(l2) + 1)
           /\ new.i + new.j = (k + 1) + 2
      <3>1. new.i \in 1..(Len(l1) + 1)
        BY <1>b, <2>1, <2>i
      <3>2. new.j \in 1..(Len(l2) + 1)
        BY <1>b, <2>1, <2>i
      <3>3. new.i + new.j = (st.i + st.j) + 1
        BY <1>b, <2>i
      <3>. QED
        BY <1>b, <3>1, <3>2, <3>3
    <2>11. new \in [out : Seq(T), i : Nat, j : Nat]
      <3>1. new.i \in Nat /\ new.j \in Nat
        BY <1>0, <2>10
      <3>. QED
        BY <2>3, <2>7, <3>1
    <2>. QED
      BY <2>7, <2>9, <2>10, <2>11 DEF Merged
  <1>. QED
    BY <1>1, <1>2

\* merge loses no element and doubles none, although the lists are in the
\* order in which the cone was searched (Reduct.cpp merges extension_build
\* with the set found).
LEMMA MergeKeepsAll ==
  ASSUME NEW T, NEW l1 \in Seq(T), NEW l2 \in Seq(T)
  PROVE  /\ Merge(l1, l2) \in Seq(T)
         /\ ToSet(Merge(l1, l2)) = ToSet(l1) \cup ToSet(l2)
         /\ Len(Merge(l1, l2)) = Len(l1) + Len(l2)
PROOF
  <1> SUFFICES ASSUME NEW n, n = Len(l1) + Len(l2)
               PROVE  /\ Merge(l1, l2) \in Seq(T)
                      /\ ToSet(Merge(l1, l2)) = ToSet(l1) \cup ToSet(l2)
                      /\ Len(Merge(l1, l2)) = n
    OBVIOUS
  <1>0. Len(l1) \in Nat /\ Len(l2) \in Nat /\ n \in Nat
    BY LenProperties
  <1>1. PICK state : MergeLoop(l1, l2, n, state) /\ Merge(l1, l2) = state[n].out
    BY <1>0, MergeIsLoop
  <1>2. /\ state[0] = MergeStart
        /\ \A k \in 1..n : state[k] = MergeTurn(l1, l2, state[k - 1])
    BY <1>0, <1>1, MergeTurns
  <1> DEFINE Good == {k \in Nat : k <= n => Merged(l1, l2, T, k, state[k])}
  <1>3. 0 \in Good
    <2>1. Merged(l1, l2, T, 0, MergeStart)
      BY <1>0 DEF Merged, MergeStart, ToSet
    <2>. QED
      BY <1>2, <2>1
  <1>4. ASSUME NEW k \in Nat, k \in Good PROVE k + 1 \in Good
    <2> SUFFICES ASSUME k + 1 <= n PROVE Merged(l1, l2, T, k + 1, state[k + 1])
      OBVIOUS
    <2>1. Merged(l1, l2, T, k, state[k]) /\ k < Len(l1) + Len(l2)
      BY <1>0, <1>4
    <2>2. state[k + 1] = MergeTurn(l1, l2, state[k])
      <3>1. k + 1 \in 1..n /\ (k + 1) - 1 = k
        BY <1>0
      <3>. QED
        BY <1>2, <3>1
    <2>. QED
      BY <2>1, <2>2, MergeTurnRight
  <1> HIDE DEF Good
  <1>5. Nat \subseteq Good
    BY <1>3, <1>4, NatInd
  <1>6. Merged(l1, l2, T, n, state[n])
    BY <1>0, <1>5 DEF Good
  <1>7. state[n].i - 1 = Len(l1) /\ state[n].j - 1 = Len(l2)
    BY <1>0, <1>6 DEF Merged
  <1>8. ToSet(l1) = {l1[x] : x \in 1..Len(l1)} /\ ToSet(l2) = {l2[x] : x \in 1..Len(l2)}
    BY LenProperties DEF ToSet
  <1>9. state[n].out \in Seq(T) /\ Len(state[n].out) = n
    BY <1>6 DEF Merged
  <1>10. ToSet(state[n].out) = {l1[x] : x \in 1..(state[n].i - 1)}
                                \cup {l2[x] : x \in 1..(state[n].j - 1)}
    BY <1>6 DEF Merged
  <1>. QED
    BY <1>1, <1>7, <1>8, <1>9, <1>10

-----------------------------------------------------------------------------
(***************************************************************************)
(* The preprocessor.                                                       *)
(***************************************************************************)
\* The vector of the cone as a set, and the unattacked arguments whose turn
\* is over.
cone      == ToSet(active_args)
Processed == {unattacked[i] : i \in 1..(at - 1)}

\* The distance of the i-th argument of the cone, and the places of the
\* arguments whose attackers have been looked at.
dist(i) == distance_to_query[active_args[i]]
Visited == 1..(IF pc = "cone" THEN at - 1 ELSE Len(active_args))

-----------------------------------------------------------------------------
(***************************************************************************)
(* The inductive invariant.                                                *)
(***************************************************************************)
Types ==
  /\ attacks \in Frameworks
  /\ distance_to_query \in [Args -> 0..(NumArgs - 1)]
  /\ query \in Args
  /\ calls \in 0..MaxCalls(attacks)
  /\ pc \in {"ready", "cone", "grounded", "returned"}
  /\ active_args \in Seq(Args) /\ IsInjective(active_args)
  /\ unattacked \in Seq(Args) /\ IsInjective(unattacked)
  /\ at \in Nat \ {0}
  /\ num_attacker \in [Args -> 0..(2^UIntWidth - 1)]
  /\ out_reduct \in SUBSET cone
  /\ result \in {"none", "accepted", "rejected", "unknown"}

Control ==
  /\ pc = "ready" => /\ calls = 0
                     /\ distance_to_query = [a \in Args |-> 0]
                     /\ active_args = <<>>
  /\ pc # "ready" => calls > 0
  /\ result = "unknown" => active_args # <<>>
  /\ pc \in {"cone", "grounded"} => /\ active_args # <<>>
                                    /\ result = "none"
                                    /\ <<query, query>> \notin attacks
                                    /\ attackers(attacks, query) # {}
  /\ pc = "cone" => at <= Len(active_args) + 1 /\ unattacked = <<>> /\ out_reduct = {}
  /\ pc # "cone" => at <= Len(unattacked) + 1

\* The cone is searched in the order of the distances: no argument further
\* away than one step more than the one whose turn it is has been seen.
Queue ==
  active_args # <<>> =>
    /\ active_args[1] = query /\ distance_to_query[query] = 0
    /\ \A a \in cone \ {query} : distance_to_query[a] > 0
    /\ \A i \in 1..Len(active_args) : dist(i) <= i - 1
    /\ \A i, j \in 1..Len(active_args) : i <= j => dist(i) <= dist(j)
    /\ pc = "cone" /\ at <= Len(active_args) =>
         \A i \in 1..Len(active_args) : dist(i) <= dist(at) + 1
    /\ \A a \in cone \ {query} : \E b \in cone :
         <<a, b>> \in attacks /\ distance_to_query[a] = distance_to_query[b] + 1

\* On a framework not searched before, a distance above zero means that the
\* argument is listed, so no attacker is missed.
FirstSearch ==
  active_args # <<>> /\ calls = 1 =>
    /\ \A a \in Args : distance_to_query[a] > 0 => a \in cone
    /\ \A i \in Visited : \A b \in attackers(attacks, active_args[i]) :
         b \in cone /\ distance_to_query[b] <= dist(i) + 1
    /\ cone \subseteq ConeOf(attacks, Args, query)

\* An argument in play is queued when its last attacker leaves; what is in
\* the queue and has not had its turn is in play and unattacked there.
GroundedLoop ==
  pc = "grounded" =>
    /\ ToSet(unattacked) \subseteq cone
    /\ query \in out_reduct
    /\ out_reduct = get_reduct_set(cone, attacks, Processed)
    /\ CounterExact
    /\ \A v \in out_reduct : num_attacker[v] = 0 => v \in ToSet(unattacked)
    /\ \A i \in at..Len(unattacked) :
         unattacked[i] \in out_reduct /\ num_attacker[unattacked[i]] = 0
    /\ calls = 1 => ToSet(unattacked) \subseteq Grounded(attacks, cone)

IInv == Types /\ Control /\ Queue /\ FirstSearch /\ GroundedLoop /\ DeliversContract

-----------------------------------------------------------------------------
(***************************************************************************)
(* The constants, lists of arguments and counters.                         *)
(***************************************************************************)
\* There are num_args arguments.
LEMMA ArgsFinite == IsFiniteSet(Args) /\ Cardinality(Args) = NumArgs
BY PreProcAssumption, FS_Interval DEF Args

\* A vector that lists no argument twice has at most num_args elements.
LEMMA ListFits ==
  ASSUME NEW s \in Seq(Args), IsInjective(s)
  PROVE  Len(s) \in 0..NumArgs
PROOF
  <1>1. ToSet(s) \subseteq Args
    BY LenProperties DEF ToSet
  <1>2. Cardinality(ToSet(s)) = Len(s) /\ Cardinality(ToSet(s)) <= Cardinality(Args)
    BY <1>1, ArgsFinite, InjectiveLength, FS_Subset
  <1>. QED
    BY <1>2, ArgsFinite, LenProperties, PreProcAssumption

\* The iteration orders of an unordered_set list each element once.
LEMMA AnyOrderLists ==
  ASSUME NEW S \in SUBSET Args, NEW order \in AnyOrder(S)
  PROVE  order \in Seq(Args) /\ ToSet(order) = S /\ IsInjective(order)
PROOF
  <1>1. IsFiniteSet(S) /\ Cardinality(S) \in Nat
    BY ArgsFinite, FS_Subset, FS_CardinalityType
  <1>2. /\ order \in [1..Cardinality(S) -> S]
        /\ \A i, j \in 1..Cardinality(S) : i # j => order[i] # order[j]
    BY DEF AnyOrder, SetToSeqs
  <1>3. order \in Seq(S) /\ Len(order) = Cardinality(S)
    BY <1>1, <1>2
  <1>4. IsInjective(order)
    BY <1>2 DEF IsInjective
  <1>5. IsFiniteSet(ToSet(order)) /\ Cardinality(ToSet(order)) = Cardinality(S)
    BY <1>3, <1>4, InjectiveLength
  <1>6. ToSet(order) \subseteq S
    BY <1>2 DEF ToSet
  <1>7. ToSet(order) = S
    BY <1>1, <1>5, <1>6, FS_Subset
  <1>8. order \in Seq(Args)
    BY <1>3, SeqMonotonic
  <1>. QED
    BY <1>4, <1>7, <1>8

\* What a counter holds is far from the end of its type.
LEMMA CounterFits ==
  ASSUME NEW n \in 0..NumArgs
  PROVE  n \in 0..(2^UIntWidth - 1) /\ n % 2^UIntWidth = n
BY PreProcAssumption

\* Any set of attackers fits into num_args.
LEMMA AttackersFinite ==
  ASSUME NEW att \in SUBSET (Args \X Args), NEW a, NEW S \in SUBSET attackers(att, a)
  PROVE  /\ S \subseteq Args /\ IsFiniteSet(S) /\ Cardinality(S) \in 0..NumArgs
         /\ attackers(att, a) = {b \in Args : <<b, a>> \in att}
PROOF
  <1>1. attackers(att, a) = {b \in Args : <<b, a>> \in att}
    BY DEF attackers
  <1>2. S \subseteq Args
    BY <1>1
  <1>3. IsFiniteSet(S) /\ Cardinality(S) <= NumArgs /\ Cardinality(S) \in Nat
    BY <1>2, ArgsFinite, FS_Subset, FS_CardinalityType
  <1>. QED
    BY <1>1, <1>2, <1>3, PreProcAssumption

-----------------------------------------------------------------------------
(***************************************************************************)
(* Every step keeps the invariant.                                         *)
(***************************************************************************)
\* A framework not asked about yet.
LEMMA InitIInv == Init => IInv
PROOF
  <1> SUFFICES ASSUME Init PROVE IInv
    OBVIOUS
  <1> USE DEF Init
  <1>1. ToSet(<<>>) = {} /\ IsInjective(<<>>) /\ <<>> \in Seq(Args) /\ Len(<<>>) = 0
    BY DEF ToSet, IsInjective
  <1>2. Types
    <2>1. query \in Args /\ calls \in 0..MaxCalls(attacks)
      BY PreProcAssumption
    <2>2. \A a \in Args : 0 \in 0..(NumArgs - 1) /\ 0 \in 0..(2^UIntWidth - 1)
      BY PreProcAssumption, CounterFits
    <2>. QED
      BY <1>1, <2>1, <2>2 DEF Types, cone
  <1>3. Control
    BY <1>1 DEF Control
  <1>. QED
    BY <1>2, <1>3 DEF IInv, Queue, FirstSearch, GroundedLoop, DeliversContract

\* A call that one of the shortcuts answers.
LEMMA ShortcutStep ==
  ASSUME IInv, NEW q \in Queries, Shortcut(q)
  PROVE  IInv'
PROOF
  <1> USE DEF Shortcut, Called, frameworkVars
  <1>1. ToSet(<<>>) = {} /\ IsInjective(<<>>) /\ <<>> \in Seq(Args) /\ Len(<<>>) = 0
    BY DEF ToSet, IsInjective
  <1>2. Types'
    <2>1. q \in Args /\ calls + 1 \in 0..MaxCalls(attacks)
      BY PreProcAssumption DEF IInv, Types
    <2>2. 0 \in 0..(2^UIntWidth - 1)
      BY PreProcAssumption, CounterFits
    <2>3. cone' = {} /\ out_reduct' = {}
      BY <1>1 DEF cone
    <2>. QED
      BY <1>1, <2>1, <2>2, <2>3 DEF IInv, Types
  <1>3. Control'
    BY <1>1 DEF Control, IInv, Types
  <1>4. DeliversContract'
    <2>1. attackers(attacks, q) = {} => <<q, q>> \notin attacks
      <3>1. attacks \in SUBSET (Args \X Args) /\ q \in Args
        BY PreProcAssumption DEF IInv, Types
      <3>2. attackers(attacks, q) = {b \in Args : <<b, q>> \in attacks}
        BY <3>1, AttackersFinite
      <3>. QED
        BY <3>1, <3>2
    <2>2. result' = process_result(attacks, Args, q) /\ result' # "unknown"
      BY <2>1 DEF process_result
    <2>. QED
      BY <2>2 DEF DeliversContract
  <1>. QED
    BY <1>2, <1>3, <1>4 DEF IInv, Queue, FirstSearch, GroundedLoop

\* A call that starts the search of the cone.
LEMMA StartConeStep ==
  ASSUME IInv, NEW q \in Queries, StartCone(q)
  PROVE  IInv'
PROOF
  <1> USE DEF StartCone, Called
  <1>0. q \in Args /\ calls + 1 \in 0..MaxCalls(attacks) /\ calls \in Nat
    BY PreProcAssumption DEF IInv, Types
  <1>1. /\ active_args' \in Seq(Args) /\ Len(active_args') = 1 /\ active_args'[1] = q
        /\ cone' = {q} /\ IsInjective(active_args') /\ active_args' # <<>>
    BY <1>0 DEF cone, ToSet, IsInjective
  <1>2. /\ distance_to_query' \in [Args -> 0..(NumArgs - 1)]
        /\ distance_to_query'[q] = 0
        /\ calls = 0 => \A a \in Args : distance_to_query'[a] = 0
    BY <1>0, PreProcAssumption DEF IInv, Types, Control
  <1>3. Types'
    <2>1. 0 \in 0..(2^UIntWidth - 1)
      BY PreProcAssumption, CounterFits
    <2>2. <<>> \in Seq(Args) /\ IsInjective(<<>>)
      BY DEF IsInjective
    <2>. QED
      BY <1>0, <1>1, <1>2, <2>1, <2>2 DEF IInv, Types
  <1>4. Control'
    BY <1>0, <1>1 DEF Control
  <1>5. Queue'
    BY <1>1, <1>2 DEF Queue, dist
  <1>6. FirstSearch'
    <2>1. q \in ConeOf(attacks, Args, q)
      BY <1>0 DEF ConeOf
    <2>2. Visited' = {}
      BY DEF Visited
    <2>. QED
      BY <1>0, <1>1, <1>2, <2>1, <2>2 DEF FirstSearch
  <1>. QED
    BY <1>3, <1>4, <1>5, <1>6 DEF IInv, GroundedLoop, DeliversContract

\* The list of the cone after the attackers of one argument were looked at:
\* what is new to it was not listed, and comes behind everything listed.
LEMMA VisitExtends ==
  ASSUME IInv, VisitArgument
  PROVE  \E new \in SUBSET Args : \E order \in Seq(Args) :
           /\ new = {a \in attackers(attacks, active_args[at]) : ~visited(a)}
           /\ ToSet(order) = new /\ IsInjective(order)
           /\ active_args' = active_args \o order
           /\ new \cap cone = {}
           /\ cone' = cone \cup new
           /\ active_args' \in Seq(Args) /\ IsInjective(active_args')
           /\ Len(active_args') = Len(active_args) + Len(order)
           /\ \A i \in 1..Len(active_args) : active_args'[i] = active_args[i]
           /\ \A i \in (Len(active_args) + 1)..Len(active_args') : active_args'[i] \in new
PROOF
  <1> USE DEF VisitArgument
  <1> DEFINE new == {a \in attackers(attacks, active_args[at]) : ~visited(a)}
  <1>0. /\ active_args \in Seq(Args) /\ IsInjective(active_args) /\ active_args # <<>>
        /\ attacks \in SUBSET (Args \X Args)
        /\ \A a \in cone \ {query} : distance_to_query[a] > 0
    BY PreProcAssumption DEF IInv, Types, Control, Queue
  <1>1. new \in SUBSET Args
    BY <1>0, AttackersFinite
  <1>2. PICK order \in AnyOrder(new) : active_args' = active_args \o order
    OBVIOUS
  <1>3. order \in Seq(Args) /\ ToSet(order) = new /\ IsInjective(order)
    BY <1>1, <1>2, AnyOrderLists
  <1>4. new \cap cone = {}
    BY <1>0 DEF visited
  <1> HIDE DEF new
  <1>5. active_args' \in Seq(Args) /\ cone' = cone \cup new
    BY <1>0, <1>2, <1>3, SetOfConcat DEF cone
  <1>6. IsInjective(active_args')
    BY <1>0, <1>2, <1>3, <1>4, InjectiveConcat DEF cone
  <1>7. /\ Len(active_args') = Len(active_args) + Len(order)
        /\ Len(active_args) \in Nat /\ Len(order) \in Nat
        /\ \A i \in 1..(Len(active_args) + Len(order)) :
             active_args'[i] = IF i <= Len(active_args) THEN active_args[i]
                               ELSE order[i - Len(active_args)]
    BY <1>0, <1>2, <1>3, ConcatProperties, LenProperties
  <1>8. \A i \in 1..Len(active_args) : active_args'[i] = active_args[i]
    BY <1>7
  <1>9. ASSUME NEW i \in (Len(active_args) + 1)..Len(active_args')
        PROVE  active_args'[i] \in new
    <2>1. i - Len(active_args) \in 1..Len(order) /\ active_args'[i] = order[i - Len(active_args)]
      BY <1>7
    <2>2. order[i - Len(active_args)] \in ToSet(order)
      BY <1>3, <2>1, LenProperties DEF ToSet
    <2>. QED
      BY <1>3, <2>1, <2>2
  <1>. QED
    BY <1>1, <1>2, <1>3, <1>4, <1>5, <1>6, <1>7, <1>8, <1>9 DEF new

\* Distances at the end of the list, one more than that of the k-th argument,
\* keep it in the order of the distances.
LEMMA DistancesOrdered ==
  ASSUME NEW n \in Nat, NEW m \in Nat, n <= m, NEW k \in 1..n,
         NEW D \in [1..n -> Nat], NEW E \in [1..m -> Nat],
         \A i \in 1..n : E[i] = D[i],
         \A i \in (n + 1)..m : E[i] = D[k] + 1,
         \A i \in 1..n : D[i] <= i - 1,
         \A i \in 1..n : D[i] <= D[k] + 1,
         \A i, j \in 1..n : i <= j => D[i] <= D[j]
  PROVE  /\ \A i \in 1..m : E[i] <= i - 1
         /\ \A i, j \in 1..m : i <= j => E[i] <= E[j]
         /\ k + 1 <= m => \A i \in 1..m : E[i] <= E[k + 1] + 1
PROOF
  <1>0. D[k] \in Nat /\ \A i \in 1..m : E[i] \in Nat /\ (i \in 1..n \/ i \in (n + 1)..m)
    OBVIOUS
  <1>1. ASSUME NEW i \in 1..m
        PROVE  E[i] <= D[k] + 1 /\ E[i] <= i - 1
    <2>1. CASE i \in 1..n
      BY <2>1
    <2>2. CASE i \in (n + 1)..m
      <3>1. E[i] = D[k] + 1 /\ D[k] <= k - 1 /\ k < i /\ i \in Int
        BY <2>2
      <3>. QED
        BY <1>0, <3>1
    <2>. QED
      BY <1>0, <2>1, <2>2
  <1>3. ASSUME NEW i \in 1..m, NEW j \in 1..m, i <= j
        PROVE  E[i] <= E[j]
    <2>1. CASE j \in 1..n
      <3>1. i \in 1..n
        BY <1>3, <2>1
      <3>. QED
        BY <1>3, <2>1, <3>1
    <2>2. CASE j \in (n + 1)..m
      BY <1>1, <2>2
    <2>. QED
      BY <1>0, <2>1, <2>2
  <1>4. ASSUME k + 1 <= m, NEW i \in 1..m
        PROVE  E[i] <= E[k + 1] + 1
    <2>1. k \in 1..m /\ k + 1 \in 1..m /\ E[k] = D[k]
      BY <1>4
    <2>2. E[k] <= E[k + 1]
      BY <1>3, <2>1
    <2>. QED
      BY <1>0, <1>1, <2>1, <2>2
  <1>. QED
    BY <1>1, <1>3, <1>4

\* One turn of the search of the cone.
LEMMA VisitArgumentStep ==
  ASSUME IInv, VisitArgument
  PROVE  IInv'
PROOF
  <1> USE DEF VisitArgument
  <1>1. PICK new \in SUBSET Args, order \in Seq(Args) :
           /\ new = {a \in attackers(attacks, active_args[at]) : ~visited(a)}
           /\ ToSet(order) = new /\ IsInjective(order)
           /\ active_args' = active_args \o order
           /\ new \cap cone = {}
           /\ cone' = cone \cup new
           /\ active_args' \in Seq(Args) /\ IsInjective(active_args')
           /\ Len(active_args') = Len(active_args) + Len(order)
           /\ \A i \in 1..Len(active_args) : active_args'[i] = active_args[i]
           /\ \A i \in (Len(active_args) + 1)..Len(active_args') : active_args'[i] \in new
    BY VisitExtends
  <1> DEFINE n == Len(active_args)
             m == Len(active_args')
             arg == active_args[at]
             d == distance_to_query
             e == distance_to_query'
  <1>2. /\ active_args \in Seq(Args) /\ IsInjective(active_args)
        /\ n \in Nat /\ m \in Nat /\ n <= m /\ m <= NumArgs
        /\ at \in 1..n /\ active_args # <<>> /\ active_args' # <<>>
        /\ \A i \in 1..n : active_args[i] \in cone /\ active_args[i] \in Args
        /\ \A i \in 1..m : active_args'[i] \in Args
        /\ cone \subseteq Args
    <2>1. active_args \in Seq(Args) /\ IsInjective(active_args) /\ active_args # <<>>
      BY DEF IInv, Types, Control
    <2>2. n \in Nat /\ m \in 0..NumArgs /\ Len(order) \in Nat
      BY <1>1, <2>1, ListFits, LenProperties
    <2>3. at \in 1..n
      BY DEF IInv, Types
    <2>. QED
      BY <1>1, <2>1, <2>2, <2>3, LenProperties, ElementOfSeq, PreProcAssumption DEF cone, ToSet
  <1>3. /\ d \in [Args -> 0..(NumArgs - 1)]
        /\ \A a \in Args : e[a] = IF a \in new THEN d[arg] + 1 ELSE d[a]
        /\ e = [a \in Args |-> IF a \in new THEN d[arg] + 1 ELSE d[a]]
        /\ arg \in cone /\ arg \in Args
    BY <1>1, <1>2 DEF IInv, Types
  <1>4. /\ \A a \in attackers(attacks, arg) : a \in Args /\ <<a, arg>> \in attacks
        /\ \A a \in Args : a \in new <=> a \in attackers(attacks, arg) /\ ~(d[a] > 0 \/ a = query)
    <2>1. attacks \in SUBSET (Args \X Args)
      BY PreProcAssumption DEF IInv, Types
    <2>2. attackers(attacks, arg) = {b \in Args : <<b, arg>> \in attacks}
      BY <2>1, AttackersFinite
    <2>. QED
      BY <1>1, <1>3, <2>2 DEF visited
  <1>5. /\ d[arg] \in 0..(at - 1)
        /\ query \in cone /\ active_args[1] = query /\ d[query] = 0
        /\ \A a \in cone \ {query} : d[a] > 0
        /\ \A i \in 1..n : d[active_args[i]] <= i - 1
        /\ \A i \in 1..n : d[active_args[i]] <= d[arg] + 1
        /\ \A i, j \in 1..n : i <= j => d[active_args[i]] <= d[active_args[j]]
        /\ \A a \in cone \ {query} : \E b \in cone :
             <<a, b>> \in attacks /\ d[a] = d[b] + 1
    <2>1. Queue /\ pc = "cone" /\ at <= n
      BY DEF IInv
    <2>2. active_args[1] = query /\ d[query] = 0
      BY <1>2, <2>1 DEF Queue
    <2>3. 1 \in 1..n
      BY <1>2
    <2>4. query \in cone
      BY <1>2, <2>2, <2>3
    <2>5. \A i \in 1..n : d[active_args[i]] <= i - 1
      BY <1>2, <2>1 DEF Queue, dist
    <2>6. d[arg] \in 0..(NumArgs - 1) /\ d[arg] <= at - 1
      BY <1>2, <1>3, <2>5
    <2>7. d[arg] \in 0..(at - 1)
      BY <1>2, <2>6, PreProcAssumption
    <2>8. \A i \in 1..n : d[active_args[i]] <= d[arg] + 1
      BY <1>2, <2>1 DEF Queue, dist
    <2>. QED
      BY <1>2, <2>1, <2>2, <2>4, <2>5, <2>7, <2>8 DEF Queue, dist
  <1>6. /\ \A a \in cone : e[a] = d[a]
        /\ \A i \in 1..n : e[active_args'[i]] = d[active_args[i]]
        /\ \A i \in (n + 1)..m : e[active_args'[i]] = d[arg] + 1
    BY <1>1, <1>2, <1>3
  <1>7. new # {} => d[arg] + 1 \in 0..(NumArgs - 1)
    <2> SUFFICES ASSUME new # {} PROVE d[arg] + 1 \in 0..(NumArgs - 1)
      OBVIOUS
    <2>1. order # <<>>
      BY <1>1 DEF ToSet
    <2>2. n + 1 <= m
      BY <1>1, <1>2, <2>1, EmptySeq, LenProperties
    <2>. QED
      BY <1>2, <1>5, <2>2, PreProcAssumption
  <1> HIDE DEF n, m, arg, d, e
  <1>8. Types'
    <2>1. e \in [Args -> 0..(NumArgs - 1)]
      BY <1>3, <1>7
    <2>2. out_reduct \in SUBSET cone'
      BY <1>1 DEF IInv, Types
    <2>3. at + 1 \in Nat \ {0}
      BY <1>2 DEF n
    <2>. QED
      BY <1>1, <2>1, <2>2, <2>3 DEF IInv, Types, e
  <1>9. Control'
    BY <1>1, <1>2 DEF IInv, Control, Types, n, m
  <1>10. Queue'
    <2>1. active_args'[1] = query /\ e[query] = 0
      BY <1>1, <1>2, <1>5, <1>6 DEF n
    <2>2. ASSUME NEW a \in cone', a # query PROVE e[a] > 0
      <3>1. CASE a \in new
        <4>1. e[a] = d[arg] + 1
          BY <1>3, <3>1
        <4>. QED
          BY <1>2, <1>5, <4>1
      <3>2. CASE a \in cone
        BY <1>5, <1>6, <2>2, <3>2
      <3>. QED
        BY <1>1, <3>1, <3>2
    <2>3. /\ \A i \in 1..m : e[active_args'[i]] <= i - 1
          /\ \A i, j \in 1..m : i <= j => e[active_args'[i]] <= e[active_args'[j]]
          /\ at + 1 <= m => \A i \in 1..m : e[active_args'[i]] <= e[active_args'[at + 1]] + 1
      <3> DEFINE D == [i \in 1..n |-> d[active_args[i]]]
                 E == [i \in 1..m |-> e[active_args'[i]]]
      <3>1. D \in [1..n -> Nat] /\ \A i \in 1..n : D[i] = d[active_args[i]]
        BY <1>2, <1>3
      <3>2. E \in [1..m -> Nat] /\ \A i \in 1..m : E[i] = e[active_args'[i]]
        <4>1. e \in [Args -> 0..(NumArgs - 1)]
          BY <1>8 DEF Types, e
        <4>2. ASSUME NEW i \in 1..m PROVE e[active_args'[i]] \in Nat
          <5>1. active_args'[i] \in Args
            BY <1>2
          <5>2. \A a \in Args : e[a] \in Nat
            BY <4>1, PreProcAssumption
          <5>. QED
            BY <5>1, <5>2
        <4>. QED
          BY <4>2
      <3>3. D[at] = d[arg] /\ \A i \in (n + 1)..m : i \in 1..m
        BY <1>2, <3>1 DEF arg
      <3>4. \A i \in 1..n : i \in 1..m
        BY <1>2
      <3> HIDE DEF D, E
      <3>5. /\ \A i \in 1..n : E[i] = D[i]
            /\ \A i \in (n + 1)..m : E[i] = D[at] + 1
            /\ \A i \in 1..n : D[i] <= i - 1
            /\ \A i \in 1..n : D[i] <= D[at] + 1
            /\ \A i, j \in 1..n : i <= j => D[i] <= D[j]
        BY <1>5, <1>6, <3>1, <3>2, <3>3, <3>4
      <3>6. /\ \A i \in 1..m : E[i] <= i - 1
            /\ \A i, j \in 1..m : i <= j => E[i] <= E[j]
            /\ at + 1 <= m => \A i \in 1..m : E[i] <= E[at + 1] + 1
        BY <1>2, <3>1, <3>2, <3>5, DistancesOrdered
      <3>7. at + 1 <= m => at + 1 \in 1..m
        BY <1>2
      <3>. QED
        BY <3>2, <3>6, <3>7
    <2>6. \A a \in cone' \ {query} : \E b \in cone' : <<a, b>> \in attacks /\ e[a] = e[b] + 1
      <3> SUFFICES ASSUME NEW a \in cone', a # query
                   PROVE  \E b \in cone' : <<a, b>> \in attacks /\ e[a] = e[b] + 1
        OBVIOUS
      <3>1. CASE a \in new
        <4>1. <<a, arg>> \in attacks
          BY <1>4, <3>1
        <4>2. e[a] = e[arg] + 1
          BY <1>3, <1>6, <3>1
        <4>. QED
          BY <1>1, <1>3, <4>1, <4>2
      <3>2. CASE a \in cone
        <4>1. PICK b \in cone : <<a, b>> \in attacks /\ d[a] = d[b] + 1
          BY <1>5, <3>2
        <4>. QED
          BY <1>1, <1>6, <3>2, <4>1
      <3>. QED
        BY <1>1, <3>1, <3>2
    <2>. QED
      BY <2>1, <2>2, <2>3, <2>6 DEF Queue, dist, e, m
  <1>11. FirstSearch'
    <2>0. Visited' = 1..at
      BY <1>2 DEF Visited, n
    <2> SUFFICES ASSUME calls = 1
                 PROVE  /\ \A a \in Args : e[a] > 0 => a \in cone'
                        /\ \A i \in 1..at : \A b \in attackers(attacks, active_args'[i]) :
                             b \in cone' /\ e[b] <= e[active_args'[i]] + 1
                        /\ cone' \subseteq ConeOf(attacks, Args, query)
      BY <2>0 DEF FirstSearch, dist, e
    <2>1. /\ \A a \in Args : d[a] > 0 => a \in cone
          /\ \A i \in 1..(at - 1) : \A b \in attackers(attacks, active_args[i]) :
               b \in cone /\ d[b] <= d[active_args[i]] + 1
          /\ cone \subseteq ConeOf(attacks, Args, query)
      BY <1>2 DEF IInv, FirstSearch, Visited, dist, d
    <2>2. \A a \in Args : e[a] > 0 => a \in cone'
      BY <1>1, <1>3, <2>1
    <2>3. ASSUME NEW i \in 1..at, NEW b \in attackers(attacks, active_args'[i])
          PROVE  b \in cone' /\ e[b] <= e[active_args'[i]] + 1
      <3>1. i \in 1..n /\ active_args'[i] = active_args[i]
        BY <1>1, <1>2 DEF n
      <3>2. CASE i \in 1..(at - 1)
        <4>1. b \in cone /\ d[b] <= d[active_args[i]] + 1
          BY <2>1, <3>1, <3>2
        <4>2. e[b] = d[b] /\ e[active_args'[i]] = d[active_args[i]]
          BY <1>6, <3>1, <4>1
        <4>. QED
          BY <1>1, <4>1, <4>2
      <3>3. CASE i = at
        <4>1. b \in attackers(attacks, arg) /\ e[active_args'[i]] = d[arg]
          BY <1>6, <3>1, <3>3 DEF arg
        <4>2. CASE b \in new
          <5>1. e[b] = d[arg] + 1 /\ b \in cone'
            BY <1>1, <1>3, <4>2
          <5>. QED
            BY <1>5, <4>1, <5>1
        <4>3. CASE b \notin new
          <5>1. d[b] > 0 \/ b = query
            BY <1>4, <4>1, <4>3
          <5>2. b \in Args
            BY <1>4, <4>1
          <5>3. b \in cone
            BY <1>5, <2>1, <5>1, <5>2
          <5>4. PICK k \in 1..n : b = active_args[k]
            BY <5>3, <1>2, LenProperties DEF cone, ToSet, n
          <5>5. d[b] <= d[arg] + 1
            BY <1>5, <5>4
          <5>. QED
            BY <1>1, <1>6, <4>1, <5>3, <5>5
        <4>. QED
          BY <4>2, <4>3
      <3>. QED
        BY <1>2, <3>2, <3>3
    <2>4. cone' \subseteq ConeOf(attacks, Args, query)
      <3>1. AttackerClosed(attacks, Args, ConeOf(attacks, Args, query))
        BY <1>5, <1>2, ConeClosed
      <3>2. new \subseteq ConeOf(attacks, Args, query)
        <4>1. attacks \in SUBSET (Args \X Args) /\ arg \in ConeOf(attacks, Args, query)
          BY <1>3, <2>1, PreProcAssumption DEF IInv, Types
        <4>2. \A a \in new : a \in Args /\ <<a, arg>> \in attacks
          BY <1>4
        <4>. QED
          BY <3>1, <4>1, <4>2 DEF AttackerClosed
      <3>. QED
        BY <1>1, <2>1, <3>2
    <2>. QED
      BY <2>2, <2>3, <2>4
  <1>. QED
    BY <1>8, <1>9, <1>10, <1>11 DEF IInv, GroundedLoop, DeliversContract

\* When every argument of the list has been visited, the list is the cone of
\* influence of the query.
LEMMA ConeComplete ==
  ASSUME IInv, active_args # <<>>, calls = 1, Visited = 1..Len(active_args)
  PROVE  /\ AttackerClosed(attacks, Args, cone)
         /\ cone = ConeOf(attacks, Args, query)
PROOF
  <1>1. /\ active_args \in Seq(Args) /\ query \in Args /\ attacks \in SUBSET (Args \X Args)
        /\ cone \subseteq ConeOf(attacks, Args, query)
        /\ \A i \in 1..Len(active_args) : \A b \in attackers(attacks, active_args[i]) : b \in cone
    BY PreProcAssumption DEF IInv, Types, FirstSearch
  <1>2. query \in cone /\ cone \subseteq Args
    <2>1. active_args[1] = query
      BY DEF IInv, Queue
    <2>. QED
      BY <1>1, <2>1, LenProperties, ElementOfSeq, EmptySeq DEF cone, ToSet
  <1>3. ASSUME NEW b \in cone, NEW c \in Args, <<c, b>> \in attacks
        PROVE  c \in cone
    <2>1. PICK i \in 1..Len(active_args) : b = active_args[i]
      BY <1>1, LenProperties DEF cone, ToSet
    <2>2. attackers(attacks, b) = {x \in Args : <<x, b>> \in attacks}
      BY <1>1, AttackersFinite
    <2>. QED
      BY <1>1, <1>3, <2>1, <2>2
  <1>. QED
    BY <1>1, <1>2, <1>3 DEF ConeOf, AttackerClosed

\* The search of the cone ends and the counters are set.
LEMMA StartGroundedStep ==
  ASSUME IInv, StartGrounded
  PROVE  IInv'
PROOF
  <1> USE DEF StartGrounded, frameworkVars
  <1> DEFINE free == {a \in Args : attackers(attacks, a) = {}}
  <1>1. /\ attacks \in SUBSET (Args \X Args)
        /\ active_args \in Seq(Args) /\ IsInjective(active_args) /\ active_args # <<>>
        /\ Len(active_args) \in Nat /\ at = Len(active_args) + 1
        /\ cone \subseteq Args
    <2>1. /\ attacks \in SUBSET (Args \X Args)
          /\ active_args \in Seq(Args) /\ IsInjective(active_args) /\ active_args # <<>>
      BY PreProcAssumption DEF IInv, Types, Control
    <2>2. Len(active_args) \in Nat /\ cone \subseteq Args
      BY <2>1, LenProperties, ElementOfSeq DEF cone, ToSet
    <2>3. at \in Nat /\ at <= Len(active_args) + 1
      BY DEF IInv, Types, Control
    <2>. QED
      BY <2>1, <2>2, <2>3
  <1>2. /\ unattacked' \in Seq(Args) /\ IsInjective(unattacked')
        /\ ToSet(unattacked') = cone \cap free
    BY <1>1, KeepMembers, KeepInjective DEF cone
  <1>3. /\ out_reduct' = cone /\ cone' = cone
        /\ num_attacker' = [a \in Args |-> IF a \in cone
                                           THEN Cardinality(attackers(attacks, a)) ELSE 0]
    BY DEF cone
  <1>4. /\ \A a \in Args : num_attacker'[a] \in 0..(2^UIntWidth - 1)
        /\ \A a \in cone : num_attacker'[a] = Cardinality(attackers(attacks, a))
        /\ \A a \in cone : num_attacker'[a] = 0 <=> a \in free
    <2>1. \A a \in Args : attackers(attacks, a) \in SUBSET attackers(attacks, a)
      OBVIOUS
    <2>2. \A a \in Args : /\ IsFiniteSet(attackers(attacks, a))
                          /\ Cardinality(attackers(attacks, a)) \in 0..NumArgs
      BY <1>1, <2>1, AttackersFinite
    <2>3. \A a \in Args : Cardinality(attackers(attacks, a)) \in 0..(2^UIntWidth - 1)
      BY <2>2, CounterFits
    <2>4. 0 \in 0..(2^UIntWidth - 1)
      BY PreProcAssumption, CounterFits
    <2>5. \A a \in Args : Cardinality(attackers(attacks, a)) = 0 <=> attackers(attacks, a) = {}
      BY <2>2, FS_EmptySet
    <2>. QED
      BY <1>1, <1>3, <2>3, <2>4, <2>5
  <1> HIDE DEF free
  <1>5. Types'
    <2>1. num_attacker' \in [Args -> 0..(2^UIntWidth - 1)]
      BY <1>3, <1>4
    <2>. QED
      BY <1>2, <1>3, <2>1 DEF IInv, Types
  <1>6. Control'
    <2>1. Len(unattacked') \in Nat
      BY <1>2, LenProperties
    <2>. QED
      BY <2>1 DEF IInv, Control
  <1>7. Queue'
    BY <1>3 DEF IInv, Queue, dist
  <1>8. FirstSearch'
    <2>1. Visited' = Visited
      BY <1>1 DEF Visited
    <2>. QED
      BY <1>3, <2>1 DEF IInv, FirstSearch, dist
  <1>9. GroundedLoop'
    <2>1. query \in cone
      <3>1. active_args[1] = query
        BY <1>1 DEF IInv, Queue
      <3>. QED
        BY <1>1, <3>1, EmptySeq, LenProperties DEF cone, ToSet
    <2>2. Processed' = {}
      BY DEF Processed
    <2>3. out_reduct' = get_reduct_set(cone', attacks', Processed')
      BY <1>3, <2>2 DEF get_reduct_set
    <2>4. CounterExact'
      <3>1. \A v \in cone : {b \in attackers(attacks, v) : b \in cone \/ b \notin cone}
                              = attackers(attacks, v)
        OBVIOUS
      <3>. QED
        BY <1>3, <1>4, <3>1 DEF CounterExact, cone
    <2>5. \A v \in out_reduct' : num_attacker'[v] = 0 => v \in ToSet(unattacked')
      BY <1>2, <1>3, <1>4
    <2>6. \A i \in at'..Len(unattacked') :
            unattacked'[i] \in out_reduct' /\ num_attacker'[unattacked'[i]] = 0
      <3>1. \A i \in 1..Len(unattacked') : unattacked'[i] \in cone \cap free
        BY <1>2, LenProperties DEF ToSet
      <3>. QED
        BY <1>3, <1>4, <3>1
    <2>7. ToSet(unattacked') \subseteq Grounded(attacks, cone)
      <3>1. ASSUME NEW a \in cone \cap free PROVE Defends(attacks, cone, Grounded(attacks, cone), a)
        <4>1. attackers(attacks, a) = {b \in Args : <<b, a>> \in attacks}
          BY <1>1, AttackersFinite
        <4>. QED
          BY <1>1, <4>1 DEF Defends, free
      <3>. QED
        BY <1>2, <3>1, GroundedLeast DEF DefenceClosed
    <2>. QED
      BY <1>2, <1>3, <2>1, <2>3, <2>4, <2>5, <2>6, <2>7 DEF GroundedLoop
  <1>. QED
    BY <1>5, <1>6, <1>7, <1>8, <1>9 DEF IInv, DeliversContract

\* What the invariant says while the counters are counted down.
LEMMA GroundedFacts ==
  ASSUME IInv, pc = "grounded"
  PROVE  /\ attacks \in SUBSET (Args \X Args) /\ query \in Args
         /\ active_args # <<>> /\ cone \subseteq Args
         /\ unattacked \in Seq(Args) /\ IsInjective(unattacked) /\ Len(unattacked) \in Nat
         /\ at \in 1..(Len(unattacked) + 1)
         /\ \A i \in 1..Len(unattacked) : unattacked[i] \in cone
         /\ ToSet(unattacked) = {unattacked[i] : i \in 1..Len(unattacked)}
         /\ Processed \subseteq cone
         /\ out_reduct \subseteq cone
PROOF
  <1>1. /\ attacks \in SUBSET (Args \X Args) /\ query \in Args
        /\ active_args \in Seq(Args) /\ active_args # <<>>
        /\ unattacked \in Seq(Args) /\ IsInjective(unattacked)
        /\ at \in Nat \ {0} /\ at <= Len(unattacked) + 1
        /\ out_reduct \subseteq cone
        /\ ToSet(unattacked) \subseteq cone
    BY PreProcAssumption DEF IInv, Types, Control, GroundedLoop
  <1>2. cone \subseteq Args /\ Len(unattacked) \in Nat
    BY <1>1, LenProperties, ElementOfSeq DEF cone, ToSet
  <1>3. /\ \A i \in 1..Len(unattacked) : unattacked[i] \in cone
        /\ ToSet(unattacked) = {unattacked[i] : i \in 1..Len(unattacked)}
    BY <1>1, LenProperties DEF ToSet
  <1>4. at \in 1..(Len(unattacked) + 1)
    BY <1>1, <1>2
  <1>5. Processed \subseteq cone
    BY <1>2, <1>3, <1>4 DEF Processed
  <1>. QED
    BY <1>1, <1>2, <1>3, <1>4, <1>5

\* On a framework not searched before, what the loop has queued is in the
\* grounded extension of the cone of influence, and no two of it attack each
\* other.
LEMMA QueuedGrounded ==
  ASSUME IInv, pc = "grounded", calls = 1
  PROVE  /\ AttackerClosed(attacks, Args, cone)
         /\ cone = ConeOf(attacks, Args, query)
         /\ ToSet(unattacked) \subseteq Grounded(attacks, cone)
         /\ ConflictFree(attacks, Grounded(attacks, cone))
PROOF
  <1>1. Visited = 1..Len(active_args)
    BY DEF Visited
  <1>2. AttackerClosed(attacks, Args, cone) /\ cone = ConeOf(attacks, Args, query)
    BY <1>1, ConeComplete, GroundedFacts
  <1>. QED
    BY <1>2, GroundedAdmissible DEF IInv, GroundedLoop, Admissible

\* A call that ends in the second loop.
LEMMA DecideStep ==
  ASSUME IInv, Decide
  PROVE  IInv'
PROOF
  <1> USE DEF Decide, frameworkVars
  <1>1. Types' /\ Control' /\ Queue'
    <2>1. Types'
      BY DEF IInv, Types, cone
    <2>2. Control'
      BY DEF IInv, Control
    <2>3. Queue'
      BY DEF IInv, Queue, dist, cone
    <2>. QED
      BY <2>1, <2>2, <2>3
  <1>2. FirstSearch'
    BY DEF IInv, FirstSearch, Visited, dist, cone
  <1>3. DeliversContract'
    <2> SUFFICES ASSUME calls = 1
                 PROVE  result' = process_result(attacks, Args, query) /\ result' # "unknown"
      BY DEF DeliversContract
    <2> DEFINE G == Grounded(attacks, cone)
    <2>1. unattacked[at] \in G /\ query \in Args
      BY QueuedGrounded, GroundedFacts
    <2>2. cone = ConeOf(attacks, Args, query) /\ ConflictFree(attacks, G)
      BY QueuedGrounded
    <2>3. <<query, query>> \notin attacks /\ attackers(attacks, query) # {}
      BY DEF IInv, Control
    <2>4. CASE unattacked[at] = query /\ result' = "accepted"
      BY <2>1, <2>2, <2>3, <2>4 DEF process_result
    <2>5. CASE <<unattacked[at], query>> \in attacks /\ result' = "rejected"
      <3>1. query \notin G
        BY <2>1, <2>2, <2>5 DEF ConflictFree
      <3>. QED
        BY <2>1, <2>2, <2>3, <2>5, <3>1 DEF process_result
    <2>. QED
      BY <2>4, <2>5
  <1>. QED
    BY <1>1, <1>2, <1>3 DEF IInv, GroundedLoop

\* When the queue is empty, what had its turn is the grounded extension: an
\* argument that it defends has no attacker left in play, so it was queued.
LEMMA LoopComputesGrounded ==
  ASSUME IInv, pc = "grounded", calls = 1, at > Len(unattacked)
  PROVE  Processed = Grounded(attacks, cone)
PROOF
  <1> DEFINE G == Grounded(attacks, cone)
  <1>1. Processed = ToSet(unattacked)
    BY GroundedFacts DEF Processed
  <1>2. Processed \subseteq G /\ ConflictFree(attacks, G) /\ Processed \subseteq cone
    BY <1>1, QueuedGrounded, GroundedFacts
  <1>3. ASSUME NEW b \in cone, Defends(attacks, cone, Processed, b), b \notin Processed
        PROVE  FALSE
    <2>1. b \in out_reduct
      <3>1. ASSUME NEW p \in Processed, <<p, b>> \in attacks PROVE FALSE
        <4>1. PICK r \in Processed : <<r, p>> \in attacks
          BY <1>2, <1>3, <3>1 DEF Defends
        <4>. QED
          BY <1>2, <3>1, <4>1 DEF ConflictFree
      <3>. QED
        BY <1>3, <3>1 DEF IInv, GroundedLoop, get_reduct_set
    <2>2. {c \in attackers(attacks, b) : c \in out_reduct \/ c \notin ToSet(active_args)} = {}
      <3> SUFFICES ASSUME NEW c \in attackers(attacks, b),
                          c \in out_reduct \/ c \notin ToSet(active_args)
                   PROVE  FALSE
        OBVIOUS
      <3>1. c \in Args /\ <<c, b>> \in attacks
        BY <1>3, GroundedFacts, AttackersFinite
      <3>2. c \in cone
        BY <1>3, <3>1, QueuedGrounded DEF AttackerClosed
      <3>3. PICK p \in Processed : <<p, c>> \in attacks
        BY <1>3, <3>1, <3>2 DEF Defends
      <3>4. c \notin out_reduct
        BY <3>3 DEF IInv, GroundedLoop, get_reduct_set
      <3>. QED
        BY <3>2, <3>4 DEF cone
    <2>3. num_attacker[b] = 0
      BY <2>1, <2>2, FS_EmptySet DEF IInv, GroundedLoop, CounterExact
    <2>. QED
      BY <1>1, <1>3, <2>1, <2>3 DEF IInv, GroundedLoop
  <1>4. DefenceClosed(attacks, cone, Processed)
    BY <1>3 DEF DefenceClosed
  <1>. QED
    BY <1>2, <1>4, GroundedLeast

\* The second loop ends without a decision.
LEMMA ReturnUnknownStep ==
  ASSUME IInv, ReturnUnknown
  PROVE  IInv'
PROOF
  <1> USE DEF ReturnUnknown, frameworkVars
  <1>1. Types' /\ Control' /\ Queue'
    <2>1. Types'
      BY DEF IInv, Types, cone
    <2>2. Control'
      BY DEF IInv, Control
    <2>3. Queue'
      BY DEF IInv, Queue, dist, cone
    <2>. QED
      BY <2>1, <2>2, <2>3
  <1>2. FirstSearch'
    BY DEF IInv, FirstSearch, Visited, dist, cone
  <1>3. DeliversContract'
    <2> SUFFICES ASSUME calls = 1
                 PROVE  /\ process_result(attacks, Args, query) = "unknown"
                        /\ out_reduct = process_reduct(attacks, Args, query)
      BY DEF DeliversContract
    <2> DEFINE G == Grounded(attacks, cone)
    <2>1. cone = ConeOf(attacks, Args, query)
      BY QueuedGrounded
    <2>2. Processed = G
      BY GroundedFacts, LoopComputesGrounded
    <2>3. query \in out_reduct /\ out_reduct = get_reduct_set(cone, attacks, G)
      BY <2>2 DEF IInv, GroundedLoop
    <2>4. query \notin G /\ \A g \in G : <<g, query>> \notin attacks
      BY <2>3 DEF get_reduct_set
    <2>5. <<query, query>> \notin attacks /\ attackers(attacks, query) # {}
      BY DEF IInv, Control
    <2> HIDE DEF G
    <2>6. process_result(attacks, Args, query) = "unknown"
      BY <2>1, <2>4, <2>5 DEF process_result, G
    <2>. QED
      BY <2>1, <2>3, <2>6 DEF process_reduct, G
  <1>. QED
    BY <1>1, <1>2, <1>3 DEF IInv, GroundedLoop

\* The attackers that a counter counts, and the ones among them that leave
\* with an unattacked argument.
counted(v) == {b \in attackers(attacks, v) : b \in out_reduct \/ b \notin cone}

\* A counter of an argument in play is the number of the attackers counted.
LEMMA CountedExact ==
  ASSUME IInv, pc = "grounded", NEW v \in out_reduct
  PROVE  /\ v \in Args /\ IsFiniteSet(counted(v)) /\ counted(v) \subseteq Args
         /\ num_attacker[v] = Cardinality(counted(v))
         /\ num_attacker[v] \in 0..NumArgs
         /\ num_attacker[v] = 0 <=> counted(v) = {}
         /\ \A b \in Args : b \in counted(v)
              <=> <<b, v>> \in attacks /\ (b \in out_reduct \/ b \notin cone)
PROOF
  <1>1. v \in Args /\ attacks \in SUBSET (Args \X Args)
    BY GroundedFacts
  <1>2. counted(v) \in SUBSET attackers(attacks, v)
    BY DEF counted
  <1>3. /\ IsFiniteSet(counted(v)) /\ counted(v) \subseteq Args
        /\ Cardinality(counted(v)) \in 0..NumArgs
        /\ attackers(attacks, v) = {b \in Args : <<b, v>> \in attacks}
    BY <1>1, <1>2, AttackersFinite
  <1>4. num_attacker[v] = Cardinality(counted(v))
    BY DEF IInv, GroundedLoop, CounterExact, counted, cone
  <1>5. Cardinality(counted(v)) = 0 <=> counted(v) = {}
    BY <1>3, FS_EmptySet
  <1>. QED
    BY <1>1, <1>3, <1>4, <1>5 DEF counted

\* The argument whose turn it is, what its turn frees, and the attackers of v
\* that are left after it.
ua      == unattacked[at]
freed   == {v \in out_reduct : num_attacker[v] \in 1..Cardinality(lost(ua, v))}
rest    == get_reduct(out_reduct, attacks, ua)
left(v) == {b \in attackers(attacks, v) : b \in rest \/ b \notin cone}

\* What one turn does to a counter that stays in play: the attackers lost
\* were counted and are all that leaves.
LEMMA LostCounted ==
  ASSUME IInv, pc = "grounded", at <= Len(unattacked)
  PROVE  /\ ua \in out_reduct /\ ua \in Args /\ counted(ua) = {}
         /\ \A v \in out_reduct :
              /\ \A w \in lost(ua, v) : <<ua, w>> \in attacks
              /\ lost(ua, v) \subseteq counted(v)
              /\ IsFiniteSet(lost(ua, v))
              /\ Cardinality(lost(ua, v)) \in 0..NumArgs
              /\ Cardinality(lost(ua, v)) <= num_attacker[v]
         /\ \A v \in rest : v \in out_reduct /\ lost(ua, v) = counted(v) \ left(v)
PROOF
  <1>1. ua \in out_reduct /\ num_attacker[ua] = 0 /\ ua \in Args
    BY GroundedFacts DEF IInv, GroundedLoop, ua
  <1>2. counted(ua) = {}
    BY <1>1, CountedExact
  <1>3. /\ attacks \in SUBSET (Args \X Args) /\ out_reduct \subseteq cone /\ cone \subseteq Args
        /\ victims(attacks, ua) = {w \in Args : <<ua, w>> \in attacks}
    <2>1. attacks \in SUBSET (Args \X Args) /\ out_reduct \subseteq cone /\ cone \subseteq Args
      BY GroundedFacts
    <2>2. victims(attacks, ua) = {w \in Args : <<ua, w>> \in attacks}
      BY <2>1 DEF victims
    <2>. QED
      BY <2>1, <2>2
  <1>4. \A v \in out_reduct : \A w : w \in lost(ua, v)
          <=> w \in out_reduct /\ <<ua, w>> \in attacks /\ <<w, v>> \in attacks
    BY <1>3 DEF lost
  <1>5. ASSUME NEW v \in out_reduct
        PROVE  /\ lost(ua, v) \subseteq counted(v)
               /\ IsFiniteSet(lost(ua, v))
               /\ Cardinality(lost(ua, v)) \in 0..NumArgs
               /\ Cardinality(lost(ua, v)) <= num_attacker[v]
    <2>1. lost(ua, v) \subseteq counted(v)
      BY <1>3, <1>4, CountedExact
    <2>2. /\ IsFiniteSet(lost(ua, v)) /\ Cardinality(lost(ua, v)) \in Nat
          /\ Cardinality(lost(ua, v)) <= Cardinality(counted(v))
      BY <2>1, CountedExact, FS_Subset, FS_CardinalityType
    <2>3. num_attacker[v] = Cardinality(counted(v)) /\ num_attacker[v] \in 0..NumArgs
      BY CountedExact
    <2>4. NumArgs \in Nat
      BY PreProcAssumption
    <2>. QED
      BY <2>1, <2>2, <2>3, <2>4
  <1>6. ASSUME NEW v \in rest
        PROVE  v \in out_reduct /\ lost(ua, v) = counted(v) \ left(v)
    <2>1. v \in out_reduct /\ <<ua, v>> \notin attacks
      BY DEF rest, get_reduct
    <2>2. attackers(attacks, v) = {b \in Args : <<b, v>> \in attacks}
      BY <1>3, <2>1, AttackersFinite
    <2>. QED
      BY <1>3, <1>4, <2>1, <2>2 DEF counted, left, rest, get_reduct
  <1>. QED
    BY <1>1, <1>2, <1>4, <1>5, <1>6

\* The step that does it.
LEMMA ReduceByIs ==
  ASSUME ReduceBy
  PROVE  /\ pc = "grounded" /\ at <= Len(unattacked)
         /\ ua # query /\ <<ua, query>> \notin attacks
         /\ num_attacker' =
              [v \in Args |-> IF v \in out_reduct
                              THEN (num_attacker[v] - Cardinality(lost(ua, v))) % 2^UIntWidth
                              ELSE num_attacker[v]]
         /\ \E order \in AnyOrder(freed) : unattacked' = unattacked \o order
         /\ out_reduct' = rest /\ rest \subseteq out_reduct
         /\ at' = at + 1
         /\ UNCHANGED <<attacks, distance_to_query, query, calls, pc, active_args, result>>
BY DEF ReduceBy, ua, freed, rest, get_reduct, frameworkVars

\* One argument of the queue removes itself and its victims: the counters
\* stay exact, and what they free was not queued before.
LEMMA ReduceByCounts ==
  ASSUME IInv, ReduceBy
  PROVE  /\ out_reduct' = rest /\ rest \subseteq out_reduct
         /\ \A v \in rest :
              /\ num_attacker'[v] = Cardinality(left(v))
              /\ num_attacker'[v] = 0 <=> left(v) = {}
              /\ num_attacker'[v] = 0 <=> num_attacker[v] = 0 \/ v \in freed
         /\ freed \subseteq rest
         /\ freed \cap ToSet(unattacked) = {}
PROOF
  <1>. pc = "grounded" /\ at <= Len(unattacked)
    BY ReduceByIs
  <1>0. /\ ua \in out_reduct /\ ua \in Args /\ counted(ua) = {}
        /\ \A v \in out_reduct :
             /\ \A w \in lost(ua, v) : <<ua, w>> \in attacks
             /\ lost(ua, v) \subseteq counted(v)
             /\ IsFiniteSet(lost(ua, v))
             /\ Cardinality(lost(ua, v)) \in 0..NumArgs
             /\ Cardinality(lost(ua, v)) <= num_attacker[v]
        /\ \A v \in rest : v \in out_reduct /\ lost(ua, v) = counted(v) \ left(v)
    BY LostCounted
  <1>1. out_reduct' = rest /\ rest \subseteq out_reduct
    BY ReduceByIs
  <1>2. \A v \in out_reduct : num_attacker[v] \in 0..NumArgs /\ v \in Args
    BY CountedExact
  <1>3. ASSUME NEW v \in rest
        PROVE  /\ num_attacker'[v] = Cardinality(left(v))
               /\ num_attacker'[v] = 0 <=> left(v) = {}
               /\ num_attacker'[v] = 0 <=> num_attacker[v] = 0 \/ v \in freed
    <2>1. v \in out_reduct /\ v \in Args
      BY <1>1, <1>2, <1>3
    <2>2. left(v) \subseteq counted(v) /\ IsFiniteSet(counted(v)) /\ counted(v) \ left(v) = lost(ua, v)
      BY <1>0, <1>1, <2>1, CountedExact DEF counted, left
    <2>3. /\ IsFiniteSet(left(v)) /\ Cardinality(left(v)) \in Nat
          /\ Cardinality(lost(ua, v)) = Cardinality(counted(v)) - Cardinality(left(v))
      <3>1. counted(v) \cap left(v) = left(v)
        BY <2>2
      <3>. QED
        BY <2>2, <3>1, FS_Difference, FS_Subset, FS_CardinalityType
    <2>4. /\ num_attacker[v] \in 0..NumArgs /\ Cardinality(lost(ua, v)) \in 0..NumArgs
          /\ Cardinality(lost(ua, v)) <= num_attacker[v]
          /\ num_attacker[v] = Cardinality(counted(v))
      BY <1>0, <2>1, CountedExact
    <2>5. num_attacker[v] - Cardinality(lost(ua, v)) \in 0..NumArgs
      BY <2>4, PreProcAssumption
    <2>6. num_attacker'[v] = (num_attacker[v] - Cardinality(lost(ua, v))) % 2^UIntWidth
      BY <2>1, ReduceByIs
    <2>7. num_attacker'[v] = num_attacker[v] - Cardinality(lost(ua, v))
      BY <2>5, <2>6, CounterFits
    <2>8. num_attacker'[v] = Cardinality(left(v))
      BY <2>3, <2>4, <2>7
    <2>9. Cardinality(left(v)) = 0 <=> left(v) = {}
      BY <2>3, FS_EmptySet
    <2>10. v \in freed <=> num_attacker[v] \in 1..Cardinality(lost(ua, v))
      BY <2>1 DEF freed
    <2>. QED
      BY <2>4, <2>7, <2>8, <2>9, <2>10
  <1>4. ASSUME NEW v \in freed PROVE v \in rest /\ v \notin ToSet(unattacked)
    <2>1. v \in out_reduct /\ num_attacker[v] \in 1..Cardinality(lost(ua, v))
      BY DEF freed
    <2>2. /\ lost(ua, v) \subseteq counted(v) /\ IsFiniteSet(counted(v))
          /\ num_attacker[v] = Cardinality(counted(v))
          /\ Cardinality(lost(ua, v)) <= num_attacker[v]
          /\ Cardinality(lost(ua, v)) \in Nat
      BY <1>0, <2>1, CountedExact
    <2>3. lost(ua, v) = counted(v) /\ num_attacker[v] # 0 /\ counted(v) # {}
      <3>1. Cardinality(lost(ua, v)) = Cardinality(counted(v)) /\ num_attacker[v] # 0
        BY <2>1, <2>2
      <3>. QED
        BY <2>1, <2>2, <3>1, FS_Subset, CountedExact
    <2>4. v # ua
      BY <1>0, <2>3
    <2>5. <<ua, v>> \notin attacks
      <3> SUFFICES ASSUME <<ua, v>> \in attacks PROVE FALSE
        OBVIOUS
      <3>1. ua \in counted(v)
        BY <1>0, <2>1, CountedExact
      <3>2. <<ua, ua>> \in attacks
        BY <1>0, <2>1, <2>3, <3>1
      <3>3. ua \in counted(ua)
        BY <1>0, <3>2, CountedExact
      <3>. QED
        BY <1>0, <3>3
    <2>6. v \in rest
      BY <2>1, <2>4, <2>5 DEF rest, get_reduct
    <2>7. ASSUME NEW i \in 1..Len(unattacked), v = unattacked[i] PROVE FALSE
      <3>1. CASE i \in at..Len(unattacked)
        BY <2>3, <2>7, <3>1 DEF IInv, GroundedLoop
      <3>2. CASE i \in 1..(at - 1)
        <4>1. v \in Processed
          BY <2>7, <3>2 DEF Processed
        <4>. QED
          BY <2>1, <4>1 DEF IInv, GroundedLoop, get_reduct_set
      <3>. QED
        BY <3>1, <3>2, GroundedFacts
    <2>. QED
      BY <2>6, <2>7, GroundedFacts
  <1>. QED
    BY <1>1, <1>3, <1>4

\* A turn of the loop of reduce_by_grounded.
LEMMA ReduceByStep ==
  ASSUME IInv, ReduceBy
  PROVE  IInv'
PROOF
  <1>1. /\ out_reduct' = rest /\ rest \subseteq out_reduct
        /\ \A v \in rest :
             /\ num_attacker'[v] = Cardinality(left(v))
             /\ num_attacker'[v] = 0 <=> left(v) = {}
             /\ num_attacker'[v] = 0 <=> num_attacker[v] = 0 \/ v \in freed
        /\ freed \subseteq rest
        /\ freed \cap ToSet(unattacked) = {}
    BY ReduceByCounts
  <1>. /\ pc = "grounded" /\ at <= Len(unattacked)
       /\ ua # query /\ <<ua, query>> \notin attacks
       /\ at' = at + 1
       /\ UNCHANGED <<attacks, distance_to_query, query, calls, pc, active_args, result>>
    BY ReduceByIs
  <1>0. /\ attacks \in SUBSET (Args \X Args) /\ query \in Args
        /\ active_args # <<>> /\ cone \subseteq Args
        /\ unattacked \in Seq(Args) /\ IsInjective(unattacked) /\ Len(unattacked) \in Nat
        /\ at \in 1..Len(unattacked)
        /\ \A i \in 1..Len(unattacked) : unattacked[i] \in cone
        /\ ToSet(unattacked) = {unattacked[i] : i \in 1..Len(unattacked)}
        /\ out_reduct \subseteq cone
    BY GroundedFacts
  <1>2. PICK order \in AnyOrder(freed) : unattacked' = unattacked \o order
    BY ReduceByIs
  <1>3. freed \subseteq cone /\ freed \subseteq Args
    BY <1>0, <1>1
  <1>4. order \in Seq(Args) /\ ToSet(order) = freed /\ IsInjective(order)
    BY <1>2, <1>3, AnyOrderLists
  <1>5. /\ unattacked' \in Seq(Args) /\ IsInjective(unattacked')
        /\ ToSet(unattacked') = ToSet(unattacked) \cup freed
    BY <1>0, <1>1, <1>2, <1>4, SetOfConcat, InjectiveConcat
  <1>6. /\ Len(unattacked') \in Nat /\ Len(unattacked) <= Len(unattacked')
        /\ \A i \in 1..Len(unattacked) : unattacked'[i] = unattacked[i]
        /\ \A i \in (Len(unattacked) + 1)..Len(unattacked') : unattacked'[i] \in freed
    <2>1. /\ Len(order) \in Nat /\ Len(unattacked') = Len(unattacked) + Len(order)
          /\ \A i \in 1..(Len(unattacked) + Len(order)) :
               unattacked'[i] = IF i <= Len(unattacked) THEN unattacked[i]
                                ELSE order[i - Len(unattacked)]
      BY <1>0, <1>2, <1>4, ConcatProperties, LenProperties
    <2>2. ASSUME NEW i \in (Len(unattacked) + 1)..Len(unattacked')
          PROVE  unattacked'[i] \in freed
      <3>1. i - Len(unattacked) \in 1..Len(order) /\ unattacked'[i] = order[i - Len(unattacked)]
        BY <1>0, <2>1
      <3>2. order[i - Len(unattacked)] \in ToSet(order)
        BY <1>4, <3>1, LenProperties DEF ToSet
      <3>. QED
        BY <1>4, <3>1, <3>2
    <2>. QED
      BY <1>0, <2>1, <2>2
  <1>7. Types'
    <2>1. num_attacker' \in [Args -> 0..(2^UIntWidth - 1)]
      <3>1. ASSUME NEW v \in Args PROVE num_attacker'[v] \in 0..(2^UIntWidth - 1)
        <4>1. CASE v \in out_reduct
          <5>1. num_attacker[v] - Cardinality(lost(ua, v)) \in Int
            BY <4>1, LostCounted, CountedExact, PreProcAssumption
          <5>2. num_attacker'[v] = (num_attacker[v] - Cardinality(lost(ua, v))) % 2^UIntWidth
            BY <4>1, ReduceByIs
          <5>. QED
            BY <5>1, <5>2, PreProcAssumption
        <4>2. CASE v \notin out_reduct
          BY <4>2, ReduceByIs DEF IInv, Types
        <4>. QED
          BY <4>1, <4>2
      <3>. QED
        BY <3>1, ReduceByIs
    <2>2. out_reduct' \subseteq cone /\ cone' = cone
      BY <1>0, <1>1 DEF cone
    <2>3. at + 1 \in Nat \ {0}
      BY <1>0
    <2>. QED
      BY <1>5, <2>1, <2>2, <2>3 DEF IInv, Types
  <1>8. Control'
    BY <1>0, <1>6 DEF IInv, Control
  <1>9. Queue' /\ FirstSearch'
    BY DEF IInv, Queue, FirstSearch, Visited, dist, cone
  <1>10. Processed' = Processed \cup {ua} /\ cone' = cone
    <2>1. cone' = cone
      BY DEF cone
    <2>2. Processed' = {unattacked'[i] : i \in 1..at}
      BY <1>0 DEF Processed
    <2>3. 1..at = (1..(at - 1)) \cup {at} /\ \A i \in 1..at : unattacked'[i] = unattacked[i]
      BY <1>0, <1>6
    <2>. QED
      BY <2>1, <2>2, <2>3 DEF Processed, ua
  <1>11. out_reduct' = get_reduct_set(cone, attacks, Processed')
    <2>1. out_reduct = get_reduct_set(cone, attacks, Processed)
      BY DEF IInv, GroundedLoop
    <2>. QED
      BY <1>1, <1>10, <2>1 DEF get_reduct_set, get_reduct, rest
  <1>12. query \in out_reduct'
    BY <1>1 DEF IInv, GroundedLoop, get_reduct, rest, ua
  <1>13. CounterExact'
    BY <1>1 DEF CounterExact, cone, left
  <1>14. \A v \in out_reduct' : num_attacker'[v] = 0 => v \in ToSet(unattacked')
    BY <1>1, <1>5 DEF IInv, GroundedLoop
  <1>15. ASSUME NEW i \in (at + 1)..Len(unattacked')
         PROVE  unattacked'[i] \in out_reduct' /\ num_attacker'[unattacked'[i]] = 0
    <2>1. CASE i \in 1..Len(unattacked)
      <3>1. /\ unattacked'[i] = unattacked[i] /\ i \in at..Len(unattacked) /\ i # at
            /\ i \in DOMAIN unattacked /\ at \in DOMAIN unattacked
        BY <1>0, <1>6, <1>15, <2>1, LenProperties
      <3>2. unattacked[i] \in out_reduct /\ num_attacker[unattacked[i]] = 0
        BY <3>1 DEF IInv, GroundedLoop
      <3>3. unattacked[i] # ua
        BY <1>0, <3>1 DEF IsInjective, ua
      <3>4. <<ua, unattacked[i]>> \notin attacks
        <4>1. ua \in out_reduct /\ ua \in Args
          BY LostCounted
        <4>2. counted(unattacked[i]) = {}
          BY <3>2, CountedExact
        <4>. QED
          BY <3>2, <4>1, <4>2, CountedExact
      <3>5. unattacked[i] \in out_reduct'
        BY <1>1, <3>2, <3>3, <3>4 DEF get_reduct, rest
      <3>. QED
        BY <1>1, <3>1, <3>2, <3>5
    <2>2. CASE i \in (Len(unattacked) + 1)..Len(unattacked')
      BY <1>1, <1>6, <2>2
    <2>. QED
      BY <1>0, <1>6, <1>15, <2>1, <2>2
  <1>16. ASSUME calls = 1
         PROVE  ToSet(unattacked') \subseteq Grounded(attacks, cone)
    <2> DEFINE G == Grounded(attacks, cone)
    <2>1. /\ ToSet(unattacked) \subseteq G /\ AttackerClosed(attacks, Args, cone)
      BY <1>16, QueuedGrounded
    <2>2. Processed' \subseteq G
      <3>1. Processed \subseteq ToSet(unattacked) /\ ua \in ToSet(unattacked)
        BY <1>0 DEF Processed, ua
      <3>. QED
        BY <1>10, <2>1, <3>1
    <2>3. ASSUME NEW v \in freed PROVE v \in G
      <3>1. v \in out_reduct' /\ num_attacker'[v] = 0
        BY <1>1, <2>3
      <3>2. {b \in attackers(attacks, v) : b \in out_reduct' \/ b \notin cone} = {}
        BY <1>1, <3>1 DEF left
      <3>3. ASSUME NEW b \in cone, <<b, v>> \in attacks
            PROVE  \E p \in G : <<p, b>> \in attacks
        <4>1. b \notin out_reduct'
          <5>1. b \in attackers(attacks, v)
            BY <1>0, <1>3, <3>3, <2>3, AttackersFinite
          <5>. QED
            BY <3>2, <5>1
        <4>2. b \notin Processed'
          BY <1>11, <3>1, <3>3 DEF get_reduct_set
        <4>3. PICK p \in Processed' : <<p, b>> \in attacks
          BY <1>11, <3>3, <4>1, <4>2 DEF get_reduct_set
        <4>. QED
          BY <2>2, <4>3
      <3>4. Defends(attacks, cone, G, v)
        BY <3>3 DEF Defends
      <3>. QED
        BY <1>3, <2>3, <3>4, GroundedLeast DEF DefenceClosed
    <2>. QED
      BY <1>5, <2>1, <2>3
  <1>17. GroundedLoop'
    <2>1. ToSet(unattacked') \subseteq cone
      BY <1>0, <1>3, <1>5
    <2>. QED
      BY <1>10, <1>11, <1>12, <1>13, <1>14, <1>15, <1>16, <2>1 DEF GroundedLoop
  <1>. QED
    BY <1>7, <1>8, <1>9, <1>17 DEF IInv, DeliversContract

\* Nothing else changes what the invariant speaks of.
LEMMA ProcessStep ==
  ASSUME IInv, process
  PROVE  IInv'
PROOF
  <1>1. CASE \E q \in Queries : Shortcut(q) \/ StartCone(q)
    BY <1>1, ShortcutStep, StartConeStep
  <1>2. CASE VisitArgument \/ StartGrounded \/ Decide \/ ReduceBy \/ ReturnUnknown
    BY <1>2, VisitArgumentStep, StartGroundedStep, DecideStep, ReduceByStep, ReturnUnknownStep
  <1>. QED
    BY <1>1, <1>2 DEF process

\* A step that leaves preprocessing alone.
LEMMA StutterStep ==
  ASSUME IInv, UNCHANGED vars
  PROVE  IInv'
PROOF
  <1> USE DEF vars, frameworkVars
  <1>1. Types' /\ Control' /\ Queue'
    <2>1. Types'
      BY DEF IInv, Types, cone
    <2>2. Control'
      BY DEF IInv, Control
    <2>3. Queue'
      BY DEF IInv, Queue, dist, cone
    <2>. QED
      BY <2>1, <2>2, <2>3
  <1>2. FirstSearch'
    BY DEF IInv, FirstSearch, Visited, dist, cone
  <1>3. GroundedLoop'
    BY DEF IInv, GroundedLoop, CounterExact, Processed, cone
  <1>4. DeliversContract'
    BY DEF IInv, DeliversContract
  <1>. QED
    BY <1>1, <1>2, <1>3, <1>4 DEF IInv

\* The invariant holds of every state that process reaches.
THEOREM IInvHolds == Spec => []IInv
PROOF
  <1>1. Init => IInv
    BY InitIInv
  <1>2. IInv /\ [Next]_vars => IInv'
    BY ProcessStep, StutterStep DEF Next, Terminated
  <1>. QED
    BY <1>1, <1>2, PTL DEF Spec

-----------------------------------------------------------------------------
(***************************************************************************)
(* The sets of arguments that reach the query in at most k attacks.        *)
(***************************************************************************)
\* One more attack, and the function that collects them.
Reaching(S) == S \cup {e[1] : e \in {x \in attacks : x[2] \in S}}
WithinLoop(n, W) == W = [k \in 0..n |-> IF k = 0 THEN {query} ELSE Reaching(W[k - 1])]

\* The recursive function Within exists ...
LEMMA WithinLoopEnds ==
  ASSUME NEW n \in Nat
  PROVE  \E W : WithinLoop(n, W)
PROOF
  <1> DEFINE Good == {m \in Nat : \E W : WithinLoop(m, W)}
  <1>1. 0 \in Good
    <2>1. WithinLoop(0, [k \in 0..0 |-> {query}])
      BY DEF WithinLoop
    <2>. QED
      BY <2>1
  <1>2. ASSUME NEW m \in Nat, m \in Good PROVE m + 1 \in Good
    <2>1. PICK W : WithinLoop(m, W)
      BY <1>2
    <2> DEFINE longer == [k \in 0..(m + 1) |-> IF k = 0 THEN {query} ELSE Reaching(W[k - 1])]
    <2>2. \A k \in 0..m : longer[k] = W[k]
      <3>1. W = [k \in 0..m |-> IF k = 0 THEN {query} ELSE Reaching(W[k - 1])]
        BY <2>1 DEF WithinLoop
      <3>2. \A k \in 0..m : W[k] = IF k = 0 THEN {query} ELSE Reaching(W[k - 1])
        BY <3>1
      <3>3. \A k \in 0..m : longer[k] = IF k = 0 THEN {query} ELSE Reaching(W[k - 1])
        OBVIOUS
      <3> HIDE DEF longer
      <3>. QED
        BY <3>2, <3>3
    <2>3. \A k \in 0..(m + 1) : k # 0 => longer[k - 1] = W[k - 1]
      <3> HIDE DEF longer
      <3>. QED
        BY <2>2
    <2>4. longer = [k \in 0..(m + 1) |-> IF k = 0 THEN {query} ELSE Reaching(longer[k - 1])]
      BY <2>3
    <2> HIDE DEF longer
    <2>5. WithinLoop(m + 1, longer)
      BY <2>4 DEF WithinLoop
    <2>. QED
      BY <2>5
  <1> HIDE DEF Good
  <1>3. Nat \subseteq Good
    BY <1>1, <1>2, NatInd
  <1>. QED
    BY <1>3 DEF Good

\* ... and does at k + 1 what its definition says.
LEMMA WithinSteps ==
  /\ Within[0] = {query}
  /\ \A k \in Nat : k + 1 <= NumArgs => Within[k + 1] = Reaching(Within[k])
PROOF
  <1>0. NumArgs \in Nat
    BY PreProcAssumption
  <1>1. Within = CHOOSE W : WithinLoop(NumArgs, W)
    BY DEF Within, WithinLoop, Reaching
  <1>2. WithinLoop(NumArgs, Within)
    BY <1>0, <1>1, WithinLoopEnds
  <1>3. \A k \in 0..NumArgs : Within[k] = IF k = 0 THEN {query} ELSE Reaching(Within[k - 1])
    BY <1>2 DEF WithinLoop
  <1>. QED
    BY <1>0, <1>3

\* After the first search of a framework the distances are the lengths of
\* shortest paths: the attack that discovered an argument is one step of a
\* path that long, and no shorter path can have been missed.
LEMMA ShortestDistances == IInv => DistanceIsShortest
PROOF
  <1> SUFFICES ASSUME IInv, pc = "grounded", calls = 1
               PROVE  \A a \in cone :
                        /\ a \in Within[distance_to_query[a]]
                        /\ distance_to_query[a] > 0
                             => a \notin Within[distance_to_query[a] - 1]
    BY DEF DistanceIsShortest, cone
  <1> DEFINE d == distance_to_query
  <1>1. /\ attacks \in SUBSET (Args \X Args) /\ active_args # <<>> /\ cone \subseteq Args
        /\ active_args \in Seq(Args)
        /\ d \in [Args -> 0..(NumArgs - 1)] /\ NumArgs \in Nat
    BY GroundedFacts, PreProcAssumption DEF IInv, Types
  <1>2. \A a \in cone : d[a] \in 0..(NumArgs - 1)
    BY <1>1
  <1>3. /\ d[query] = 0
        /\ \A a \in cone \ {query} : d[a] > 0
        /\ \A a \in cone \ {query} : \E b \in cone : <<a, b>> \in attacks /\ d[a] = d[b] + 1
    BY <1>1 DEF IInv, Queue
  <1>4. query \in cone
    BY <1>1, EmptySeq, LenProperties DEF IInv, Queue, cone, ToSet
  <1>5. ASSUME NEW b \in cone, NEW c, <<c, b>> \in attacks
        PROVE  c \in cone /\ d[c] <= d[b] + 1
    <2>1. PICK i \in 1..Len(active_args) : b = active_args[i]
      BY <1>1, LenProperties DEF cone, ToSet
    <2>2. c \in attackers(attacks, b)
      BY <1>1, <1>5, AttackersFinite
    <2>. QED
      BY <1>1, <2>1, <2>2 DEF IInv, FirstSearch, Visited, dist
  <1> HIDE DEF d
  <1>6. \A a \in cone : a \in Within[d[a]]
    <2> DEFINE Good == {n \in Nat : \A a \in cone : d[a] = n => a \in Within[n]}
    <2>1. 0 \in Good
      BY <1>3, WithinSteps
    <2>2. ASSUME NEW n \in Nat, n \in Good PROVE n + 1 \in Good
      <3> SUFFICES ASSUME NEW a \in cone, d[a] = n + 1 PROVE a \in Within[n + 1]
        OBVIOUS
      <3>1. a # query
        BY <1>3
      <3>2. PICK b \in cone : <<a, b>> \in attacks /\ d[a] = d[b] + 1
        BY <1>3, <3>1
      <3>3. d[b] = n
        BY <1>1, <1>2, <3>2
      <3>4. b \in Within[n]
        BY <2>2, <3>3
      <3>5. n + 1 <= NumArgs
        BY <1>1, <1>2
      <3>6. Within[n + 1] = Reaching(Within[n])
        BY <3>5, WithinSteps
      <3>. QED
        BY <3>2, <3>4, <3>6 DEF Reaching
    <2> HIDE DEF Good
    <2>3. Nat \subseteq Good
      BY <2>1, <2>2, NatInd
    <2>. QED
      BY <1>1, <1>2, <2>3 DEF Good
  <1>7. \A k \in 0..NumArgs : \A a \in Within[k] : a \in cone /\ d[a] <= k
    <2> DEFINE Good == {n \in Nat : n <= NumArgs => \A a \in Within[n] : a \in cone /\ d[a] <= n}
    <2>1. 0 \in Good
      BY <1>3, <1>4, WithinSteps
    <2>2. ASSUME NEW n \in Nat, n \in Good PROVE n + 1 \in Good
      <3> SUFFICES ASSUME n + 1 <= NumArgs, NEW a \in Within[n + 1]
                   PROVE  a \in cone /\ d[a] <= n + 1
        OBVIOUS
      <3>1. a \in Reaching(Within[n]) /\ n <= NumArgs
        BY <1>1, WithinSteps
      <3>2. CASE a \in Within[n]
        BY <1>1, <1>2, <2>2, <3>1, <3>2
      <3>3. CASE a \notin Within[n]
        <4>1. PICK e \in attacks : e[2] \in Within[n] /\ a = e[1]
          BY <3>1, <3>3 DEF Reaching
        <4>2. e = <<a, e[2]>>
          BY <1>1, <4>1
        <4>3. e[2] \in cone /\ d[e[2]] <= n
          BY <2>2, <3>1, <4>1
        <4>4. a \in cone /\ d[a] <= d[e[2]] + 1
          BY <1>5, <4>2, <4>3
        <4>. QED
          BY <1>1, <1>2, <4>3, <4>4
      <3>. QED
        BY <3>2, <3>3
    <2> HIDE DEF Good
    <2>3. Nat \subseteq Good
      BY <2>1, <2>2, NatInd
    <2>. QED
      BY <1>1, <2>3 DEF Good
  <1>8. ASSUME NEW a \in cone, d[a] > 0 PROVE a \notin Within[d[a] - 1]
    <2>1. d[a] - 1 \in 0..NumArgs /\ ~(d[a] <= d[a] - 1)
      BY <1>1, <1>2, <1>8
    <2>. QED
      BY <1>7, <2>1
  <1>. QED
    BY <1>6, <1>8 DEF d

-----------------------------------------------------------------------------
(***************************************************************************)
(* What the invariant says to the caller.                                  *)
(***************************************************************************)
\* The vectors, iterators and counters stay in their bounds.
LEMMA IInvTypes == IInv => TypeOK
PROOF
  <1> SUFFICES ASSUME IInv PROVE TypeOK
    OBVIOUS
  <1>1. /\ active_args \in Seq(Args) /\ IsInjective(active_args)
        /\ unattacked \in Seq(Args) /\ IsInjective(unattacked)
    BY DEF IInv, Types
  <1>2. ToSet(active_args) \subseteq Args /\ ToSet(unattacked) \subseteq Args
    BY <1>1, LenProperties, ElementOfSeq DEF ToSet
  <1>3. at \in 1..(NumArgs + 1)
    <2>1. Len(active_args) \in 0..NumArgs /\ Len(unattacked) \in 0..NumArgs
      BY <1>1, ListFits
    <2>2. at \in Nat \ {0} /\ (at <= Len(active_args) + 1 \/ at <= Len(unattacked) + 1)
      BY DEF IInv, Types, Control
    <2>. QED
      BY <2>1, <2>2, PreProcAssumption
  <1>4. attacks \in SUBSET (Args \X Args)
    BY PreProcAssumption DEF IInv, Types
  <1>. QED
    BY <1>2, <1>3, <1>4 DEF IInv, Types, TypeOK, cone

\* The worklists, counters and distances are exact.
LEMMA IInvLoops == IInv => LoopsExact
PROOF
  <1> SUFFICES ASSUME IInv PROVE LoopsExact
    OBVIOUS
  <1>1. ListedOnce
    BY DEF IInv, Types, ListedOnce
  <1>2. CounterExact
    BY DEF IInv, GroundedLoop, CounterExact
  <1>. QED
    BY <1>1, <1>2, ShortestDistances DEF LoopsExact

\* The greatest of a set of numbers that the choice set_arguments gives.
LEMMA GreatestOf ==
  ASSUME NEW lo \in Nat, NEW hi \in Nat, NEW S \in SUBSET (lo..hi), S # {}
  PROVE  Max(S) \in S
PROOF
  <1> DEFINE Good == {n \in Nat : \A T \in SUBSET (lo..hi) :
                        (\E x \in T : x + n >= hi) => \E x \in T : \A y \in T : x >= y}
  <1>1. 0 \in Good
    OBVIOUS
  <1>2. ASSUME NEW n \in Nat, n \in Good PROVE n + 1 \in Good
    <2> SUFFICES ASSUME NEW T \in SUBSET (lo..hi), NEW x \in T, x + (n + 1) >= hi
                 PROVE  \E z \in T : \A y \in T : z >= y
      OBVIOUS
    <2>1. CASE \E y \in T : ~(x >= y)
      <3>1. PICK y \in T : ~(x >= y)
        BY <2>1
      <3>2. y + n >= hi
        BY <3>1
      <3>. QED
        BY <1>2, <3>2
    <2>2. CASE \A y \in T : x >= y
      BY <2>2
    <2>. QED
      BY <2>1, <2>2
  <1> HIDE DEF Good
  <1>3. Nat \subseteq Good
    BY <1>1, <1>2, NatInd
  <1>4. hi \in Good /\ \A x \in S : x + hi >= hi
    BY <1>3
  <1>5. \E x \in S : \A y \in S : x >= y
    BY <1>4 DEF Good
  <1>. QED
    BY <1>5 DEF Max

\* The difference that calculate_priority takes is of numbers that fit.
LEMMA IInvPriorities == IInv => PriorityInRange
PROOF
  <1> SUFFICES ASSUME IInv, result = "unknown", NEW S \in SUBSET out_reduct, S # {}
               PROVE  /\ calculate_priority(S) \in 1..NumArgs
                      /\ query \notin S => calculate_priority(S) < NumArgs
    BY DEF PriorityInRange
  <1> DEFINE P == {(NumArgs - distance_to_query[a]) % 2^UIntWidth : a \in S}
  <1>1. /\ active_args # <<>> /\ active_args \in Seq(Args) /\ out_reduct \subseteq cone
        /\ distance_to_query \in [Args -> 0..(NumArgs - 1)]
    BY DEF IInv, Types, Control
  <1>2. cone \subseteq Args
    BY <1>1, LenProperties, ElementOfSeq DEF cone, ToSet
  <1>3. \A a \in cone \ {query} : distance_to_query[a] > 0
    BY <1>1 DEF IInv, Queue
  <1>4. ASSUME NEW a \in S
        PROVE  /\ (NumArgs - distance_to_query[a]) % 2^UIntWidth \in 1..NumArgs
               /\ a # query => (NumArgs - distance_to_query[a]) % 2^UIntWidth < NumArgs
    <2>1. distance_to_query[a] \in 0..(NumArgs - 1)
      BY <1>1, <1>2
    <2>2. NumArgs - distance_to_query[a] \in 0..NumArgs
      BY <2>1, PreProcAssumption
    <2>3. (NumArgs - distance_to_query[a]) % 2^UIntWidth = NumArgs - distance_to_query[a]
      BY <2>2, CounterFits
    <2>4. a # query => distance_to_query[a] > 0
      BY <1>1, <1>3
    <2>. QED
      BY <2>1, <2>3, <2>4, PreProcAssumption
  <1>5. P \subseteq 1..NumArgs /\ P # {}
    BY <1>4
  <1>6. Max(P) \in P
    BY <1>5, GreatestOf, PreProcAssumption
  <1>7. calculate_priority(S) \in P
    BY <1>6 DEF calculate_priority
  <1>. QED
    BY <1>4, <1>5, <1>7

-----------------------------------------------------------------------------
(***************************************************************************)
(* The containers along a path of tasks.                                   *)
(***************************************************************************)
\* The members of extension_build whose turn is over, what a set of arguments
\* leaves of out_reduct, and that as a vector.
taken        == {extension_build[i] : i \in 1..(place - 1)}
leftOver(S)  == get_reduct_set(out_reduct, attacks, S)
vectorFor(S) == Keep(active_args, leftOver(S))

\* The vector of the reduct holds what the members taken so far leave, in the
\* order of active_args_vector.
PathInv ==
  /\ path \in {"none", "start", "reduct", "ready", "done"}
  /\ path # "none" => HandsOn
  /\ extension_build \in Seq(Args)
  /\ Len(extension_build) = Cardinality(ToSet(extension_build))
  /\ path = "reduct" => /\ place \in 2..(Len(extension_build) + 1)
                        /\ reduct = VectorBitSet(vectorFor(taken))
  /\ path = "ready" => reduct = VectorBitSet(vectorFor(ToSet(extension_build)))

\* The loops over vectors on which the tasks work.
LEMMA VectorFacts ==
  ASSUME IInv, NEW S
  PROVE  /\ active_args \in Seq(Args) /\ IsInjective(active_args)
         /\ attacks \in SUBSET (Args \X Args) /\ out_reduct \subseteq Args
         /\ activeArgs = VectorBitSet(Keep(active_args, out_reduct))
         /\ activeArgs.vector = Keep(active_args, out_reduct)
         /\ activeArgs.vector \in Seq(Args) /\ IsInjective(activeArgs.vector)
         /\ leftOver(S) \subseteq out_reduct
         /\ vectorFor(S) \in Seq(Args) /\ IsInjective(vectorFor(S))
         /\ ToSet(vectorFor(S)) = leftOver(S)
         /\ Keep(activeArgs.vector, leftOver(S)) = vectorFor(S)
PROOF
  <1>1. /\ active_args \in Seq(Args) /\ IsInjective(active_args)
        /\ attacks \in SUBSET (Args \X Args) /\ out_reduct \subseteq cone
    BY PreProcAssumption DEF IInv, Types
  <1>2. cone \subseteq Args
    BY <1>1, LenProperties, ElementOfSeq DEF cone, ToSet
  <1>3. /\ activeArgs = VectorBitSet(Keep(active_args, out_reduct))
        /\ activeArgs.vector = Keep(active_args, out_reduct)
    BY DEF activeArgs, VectorBitSet
  <1>4. activeArgs.vector \in Seq(Args) /\ IsInjective(activeArgs.vector)
    BY <1>1, <1>3, KeepMembers, KeepInjective
  <1>5. leftOver(S) \subseteq out_reduct
    BY DEF leftOver, get_reduct_set
  <1>6. /\ vectorFor(S) \in Seq(Args) /\ IsInjective(vectorFor(S))
        /\ ToSet(vectorFor(S)) = cone \cap leftOver(S)
    BY <1>1, KeepMembers, KeepInjective DEF vectorFor, cone
  <1>7. Keep(activeArgs.vector, leftOver(S)) = vectorFor(S)
    <2>1. out_reduct \cap leftOver(S) = leftOver(S)
      BY <1>5
    <2>. QED
      BY <1>1, <1>3, <2>1, KeepTwice DEF vectorFor
  <1>. QED
    BY <1>1, <1>2, <1>3, <1>4, <1>5, <1>6, <1>7

\* Reduct::get_reduct on the vector for S takes one more argument into S.
LEMMA ReductStepIs ==
  ASSUME IInv, NEW S, NEW vb, vb.vector = vectorFor(S), NEW a
  PROVE  reduct_step(vb, a) = VectorBitSet(vectorFor(S \cup {a}))
PROOF
  <1> DEFINE kept == {b \in Args : b # a /\ <<a, b>> \notin attacks}
  <1>1. leftOver(S) \cap kept = leftOver(S \cup {a})
    <2>1. out_reduct \subseteq Args
      BY VectorFacts
    <2>. QED
      BY <2>1 DEF leftOver, get_reduct_set
  <1>2. reduct_step(vb, a) = VectorBitSet(Keep(vectorFor(S), kept))
    BY DEF reduct_step
  <1> HIDE DEF kept
  <1>3. active_args \in Seq(Args)
    BY VectorFacts
  <1>4. Keep(vectorFor(S), kept) = Keep(active_args, leftOver(S) \cap kept)
    BY <1>3, KeepTwice DEF vectorFor
  <1>. QED
    BY <1>1, <1>2, <1>4 DEF vectorFor

\* VectorBitSet::copy copies everything: the vector is no longer than the
\* loop over the bitset, num_args + 1 places.
LEMMA CopyIs ==
  ASSUME IInv
  PROVE  copy(activeArgs) = activeArgs
PROOF
  <1> DEFINE v == activeArgs.vector
  <1>1. v \in Seq(Args) /\ IsInjective(v) /\ activeArgs = [vector |-> v, bitset |-> activeArgs.bitset]
    BY VectorFacts DEF activeArgs, VectorBitSet
  <1> HIDE DEF v
  <1>2. Len(v) \in 0..NumArgs /\ NumArgs \in Nat
    BY <1>1, ListFits, PreProcAssumption
  <1>3. Min({Len(v), NumArgs + 1}) = Len(v)
    BY <1>2 DEF Min
  <1>4. SubSeq(v, 1, Len(v)) = v
    BY <1>1, SubSeqFull
  <1>. QED
    BY <1>1, <1>3, <1>4 DEF copy, v

\* The child's list: the parent's and the set found, each argument once.
LEMMA DescendExtends ==
  ASSUME IInv, PathInv, NEW S \in SUBSET Args, Descend(S)
  PROVE  /\ extension_build' \in Seq(Args)
         /\ ToSet(extension_build') = ToSet(extension_build) \cup S
         /\ Len(extension_build') = Len(extension_build) + Cardinality(S)
         /\ Len(extension_build') = Cardinality(ToSet(extension_build'))
PROOF
  <1> SUFFICES ASSUME NEW E, E = ToSet(extension_build),
                      NEW found, found = get_set_list(S)
               PROVE  /\ extension_build' \in Seq(Args)
                      /\ ToSet(extension_build') = E \cup S
                      /\ Len(extension_build') = Len(extension_build) + Cardinality(S)
                      /\ Len(extension_build') = Cardinality(ToSet(extension_build'))
    OBVIOUS
  <1>1. /\ extension_build \in Seq(Args) /\ Len(extension_build) = Cardinality(E)
        /\ reduct.vector = vectorFor(E)
        /\ S \subseteq ToSet(reduct.vector)
        /\ extension_build' = Merge(extension_build, found)
    BY DEF PathInv, Descend, ExtendExtension, VectorBitSet
  <1>2. reduct.vector \in Seq(Args) /\ IsInjective(reduct.vector) /\ S \subseteq leftOver(E)
    BY <1>1, VectorFacts
  <1>3. found \in Seq(Args) /\ IsInjective(found) /\ ToSet(found) = S
    <2>1. found = Keep(reduct.vector, S)
      BY DEF get_set_list
    <2>2. ToSet(reduct.vector) \cap S = S
      BY <1>1
    <2>3. Keep(reduct.vector, S) \in Seq(Args) /\ ToSet(Keep(reduct.vector, S)) = S
      BY <1>2, <2>2, KeepMembers
    <2>4. IsInjective(Keep(reduct.vector, S))
      BY <1>2, KeepInjective
    <2>. QED
      BY <2>1, <2>3, <2>4
  <1>4. Len(found) = Cardinality(S) /\ IsFiniteSet(S)
    BY <1>3, InjectiveLength
  <1>5. /\ extension_build' \in Seq(Args)
        /\ ToSet(extension_build') = E \cup S
        /\ Len(extension_build') = Len(extension_build) + Cardinality(S)
    <2>1. /\ Merge(extension_build, found) \in Seq(Args)
          /\ ToSet(Merge(extension_build, found)) = ToSet(extension_build) \cup ToSet(found)
          /\ Len(Merge(extension_build, found)) = Len(extension_build) + Len(found)
      <3>1. extension_build \in Seq(Args) /\ found \in Seq(Args)
        BY <1>1, <1>3
      <3>2. Merge(extension_build, found) \in Seq(Args)
        BY <3>1, MergeKeepsAll
      <3>3. ToSet(Merge(extension_build, found)) = ToSet(extension_build) \cup ToSet(found)
        BY ONLY <3>1, MergeKeepsAll
      <3>4. Len(Merge(extension_build, found)) = Len(extension_build) + Len(found)
        BY <3>1, MergeKeepsAll
      <3>. QED
        BY <3>2, <3>3, <3>4
    <2>. QED
      BY <1>1, <1>3, <1>4, <2>1
  <1>6. E \cap S = {}
    BY <1>2 DEF leftOver, get_reduct_set
  <1>7. IsFiniteSet(E)
    <2>1. E \subseteq Args
      BY <1>1, LenProperties, ElementOfSeq DEF ToSet
    <2>. QED
      BY <2>1, ArgsFinite, FS_Subset
  <1>8. Cardinality(E \cup S) = Cardinality(E) + Cardinality(S)
    <2>1. Cardinality(E \cap S) = 0
      BY <1>6, FS_EmptySet
    <2>2. Cardinality(E) \in Nat /\ Cardinality(S) \in Nat
      BY <1>4, <1>7, FS_CardinalityType
    <2>3. Cardinality(E \cup S) = Cardinality(E) + Cardinality(S) - Cardinality(E \cap S)
      BY <1>4, <1>7, FS_Union
    <2>. QED
      BY <2>1, <2>2, <2>3
  <1>. QED
    BY <1>1, <1>5, <1>8

\* Every step of a path keeps the path's invariant.
LEMMA PathStep ==
  ASSUME IInv, PathInv, [SolveNext]_solveVars
  PROVE  PathInv'
PROOF
  <1> USE DEF PathInv
  <1>1. CASE PreProcess
    <2>1. <<>> \in Seq(Args) /\ Len(<<>>) = 0 /\ ToSet(<<>>) = {}
      BY DEF ToSet
    <2>2. Cardinality({}) = 0
      BY FS_EmptySet
    <2>. QED
      BY <1>1, <2>1, <2>2 DEF PreProcess
  <1>2. ASSUME UNCHANGED vars
        PROVE  /\ HandsOn' = HandsOn
               /\ \A S : vectorFor(S)' = vectorFor(S)
    <2>1. HandsOn' = HandsOn
      BY <1>2 DEF HandsOn, vars, frameworkVars
    <2>2. ASSUME NEW S PROVE vectorFor(S)' = vectorFor(S)
      BY <1>2 DEF vectorFor, leftOver, vars, frameworkVars
    <2>. QED
      BY <2>1, <2>2
  <1>3. extension_build \in Seq(Args) /\ Len(extension_build) \in Nat
    BY LenProperties
  <1>4. CASE StartPath
    BY <1>2, <1>4 DEF StartPath
  <1>5. CASE StartWithCopy
    <2>1. extension_build = <<>> /\ ToSet(<<>>) = {}
      BY <1>5 DEF StartWithCopy, ToSet
    <2>2. leftOver({}) = out_reduct
      BY DEF leftOver, get_reduct_set
    <2>3. reduct' = VectorBitSet(vectorFor({}))
      BY <1>5, <2>2, CopyIs, VectorFacts DEF StartWithCopy, vectorFor
    <2>. QED
      BY <1>2, <1>5, <2>1, <2>3 DEF StartWithCopy
  <1>6. CASE StartReduct
    <2>1. reduct' = reduct_step(activeArgs, extension_build[1])
      BY <1>6 DEF StartReduct
    <2>2. leftOver({}) = out_reduct
      BY DEF leftOver, get_reduct_set
    <2>3. activeArgs.vector = vectorFor({})
      BY <2>2, VectorFacts DEF vectorFor
    <2>4. reduct' = VectorBitSet(vectorFor({extension_build[1]}))
      BY <2>1, <2>3, ReductStepIs
    <2>5. taken' = {extension_build[1]}
      <3>1. 1..(2 - 1) = {1}
        OBVIOUS
      <3>. QED
        BY <1>6, <3>1 DEF taken, StartReduct
    <2>6. 2 \in 2..(Len(extension_build) + 1)
      BY <1>3, <1>6, EmptySeq DEF StartReduct
    <2>. QED
      BY <1>2, <1>6, <2>4, <2>5, <2>6 DEF StartReduct
  <1>7. CASE NextReduct
    <2>1. /\ place \in 2..Len(extension_build)
          /\ reduct = VectorBitSet(vectorFor(taken))
      BY <1>3, <1>7 DEF NextReduct
    <2>2. reduct.vector = vectorFor(taken)
      BY <2>1 DEF VectorBitSet
    <2>3. reduct' = VectorBitSet(vectorFor(taken \cup {extension_build[place]}))
      BY <1>7, <2>2, ReductStepIs DEF NextReduct
    <2>4. taken' = taken \cup {extension_build[place]}
      <3>1. 1..place = (1..(place - 1)) \cup {place}
        BY <2>1
      <3>. QED
        BY <1>7, <2>1, <3>1 DEF taken, NextReduct
    <2>5. place' \in 2..(Len(extension_build) + 1)
      BY <1>3, <1>7, <2>1 DEF NextReduct
    <2>. QED
      BY <1>2, <1>7, <2>3, <2>4, <2>5 DEF NextReduct
  <1>8. CASE ReductReady
    <2>1. /\ place \in 2..(Len(extension_build) + 1)
          /\ reduct = VectorBitSet(vectorFor(taken))
          /\ place > Len(extension_build) \/ reduct.vector = <<>>
      BY <1>8 DEF ReductReady
    <2>2. ToSet(extension_build) = {extension_build[i] : i \in 1..Len(extension_build)}
      BY <1>3, LenProperties DEF ToSet
    <2>3. CASE place > Len(extension_build)
      <3>1. place - 1 = Len(extension_build)
        BY <1>3, <2>1, <2>3
      <3>2. taken = ToSet(extension_build)
        BY <2>2, <3>1 DEF taken
      <3>. QED
        BY <1>2, <1>8, <2>1, <3>2 DEF ReductReady
    <2>4. CASE reduct.vector = <<>>
      <3>1. leftOver(taken) = {}
        <4>1. vectorFor(taken) = <<>>
          BY <2>1, <2>4 DEF VectorBitSet
        <4>. QED
          BY <4>1, VectorFacts DEF ToSet
      <3>2. taken \subseteq ToSet(extension_build)
        <4>1. \A i \in 1..(place - 1) : i \in 1..Len(extension_build)
          BY <1>3, <2>1
        <4>. QED
          BY <2>2, <4>1 DEF taken
      <3>3. leftOver(ToSet(extension_build)) = {}
        BY <3>1, <3>2 DEF leftOver, get_reduct_set
      <3>4. reduct = VectorBitSet(vectorFor(ToSet(extension_build)))
        BY <2>1, <3>1, <3>3 DEF vectorFor
      <3>. QED
        BY <1>2, <1>8, <3>4 DEF ReductReady
    <2>. QED
      BY <2>1, <2>3, <2>4
  <1>9. CASE \E S \in SUBSET Args : Descend(S)
    <2>1. PICK S \in SUBSET Args : Descend(S)
      BY <1>9
    <2>2. /\ extension_build' \in Seq(Args)
          /\ Len(extension_build') = Cardinality(ToSet(extension_build'))
      BY <2>1, DescendExtends
    <2>. QED
      BY <1>2, <2>1, <2>2 DEF Descend
  <1>10. CASE PathEnds
    BY <1>2, <1>10 DEF PathEnds
  <1>11. CASE UNCHANGED solveVars
    <2>1. UNCHANGED vars /\ UNCHANGED <<path, extension_build, reduct, place>>
      BY <1>11 DEF solveVars, pathVars
    <2>2. taken' = taken
      BY <2>1 DEF taken
    <2>. QED
      BY <1>2, <2>1, <2>2
  <1>12. SolveTerminated => UNCHANGED solveVars
    BY DEF SolveTerminated, Terminated, solveVars
  <1>. QED
    BY <1>1, <1>4, <1>5, <1>6, <1>7, <1>8, <1>9, <1>10, <1>11, <1>12 DEF SolveNext

\* Before the first task.
LEMMA InitPathInv == SolveInit => PathInv
PROOF
  <1>1. <<>> \in Seq(Args) /\ Len(<<>>) = 0 /\ ToSet(<<>>) = {} /\ Cardinality({}) = 0
    BY FS_EmptySet DEF ToSet
  <1>. QED
    BY <1>1 DEF SolveInit, InitPath, PathInv

\* What the loop over the members has kept is the reduct.
LEMMA PathInvReduct == IInv /\ PathInv => ReductIsClosedForm
PROOF
  <1> SUFFICES ASSUME IInv, PathInv, path = "ready",
                      NEW E, E = ToSet(extension_build)
               PROVE  /\ ToSet(reduct.vector) = get_reduct_set(out_reduct, attacks, E)
                      /\ reduct.bitset = ToSet(reduct.vector)
                      /\ reduct.vector = Keep(activeArgs.vector, reduct.bitset)
    BY DEF ReductIsClosedForm
  <1>1. reduct.vector = vectorFor(E) /\ reduct.bitset = ToSet(vectorFor(E))
    BY DEF PathInv, VectorBitSet
  <1>2. ToSet(vectorFor(E)) = leftOver(E) /\ Keep(activeArgs.vector, leftOver(E)) = vectorFor(E)
    BY VectorFacts
  <1>. QED
    BY <1>1, <1>2 DEF leftOver

-----------------------------------------------------------------------------
(***************************************************************************)
(* The results.                                                            *)
(***************************************************************************)
\* The tasks read what preprocessing leaves and change none of it: the path
\* of tasks runs preprocessing step by step, or leaves it alone.
THEOREM TasksKeepPreProcessing == SolveSpec => Spec
PROOF
  <1>1. SolveInit => Init
    BY DEF SolveInit
  <1>2. [SolveNext]_solveVars => [Next]_vars
    BY DEF SolveNext, PreProcess, StartPath, StartWithCopy, StartReduct, NextReduct,
           ReductReady, Descend, PathEnds, SolveTerminated, Next, solveVars
  <1>. QED
    BY <1>1, <1>2, PTL DEF SolveSpec, Spec

\* Every variable of preprocessing keeps its C++ type: num_attacker and the
\* distances never leave uint32_t, no iterator runs past its vector's end.
THEOREM TypesHold == (Spec => []TypeOK) /\ (SolveSpec => []TypeOK)
BY IInvHolds, IInvTypes, TasksKeepPreProcessing, PTL

\* The two worklists list nothing twice, the counters of reduce_by_grounded
\* count the attackers that are left, and the first search of a framework
\* finds the length of a shortest path (calculate_cone_influence).
THEOREM LoopsAreExact == (Spec => []LoopsExact) /\ (SolveSpec => []LoopsExact)
BY IInvHolds, IInvLoops, TasksKeepPreProcessing, PTL

\* num_args - distance never wraps (Prioritizer::calculate_priority), on a
\* framework searched before, too.
THEOREM PrioritiesInRange == (Spec => []PriorityInRange) /\ (SolveSpec => []PriorityInRange)
BY IInvHolds, IInvPriorities, TasksKeepPreProcessing, PTL

\* The loops of process deliver the closed form of PreProcContract on the
\* first call: the cone of influence, its grounded extension, the reduct.
THEOREM ContractDelivered == (Spec => []DeliversContract) /\ (SolveSpec => []DeliversContract)
PROOF
  <1>1. IInv => DeliversContract
    BY DEF IInv
  <1>. QED
    BY <1>1, IInvHolds, TasksKeepPreProcessing, PTL

\* The answer of the first call on a framework is the answer of the question
\* asked, and what it hands on to the search has the same answer.
THEOREM FirstCallPreserves == Spec => [](calls = 1 => AnswerPreserved)
PROOF
  <1>1. IInv => (calls = 1 => AnswerPreserved)
    <2> SUFFICES ASSUME IInv, calls = 1, pc = "returned" PROVE AnswerPreserved
      BY DEF AnswerPreserved
    <2>1. /\ attacks \in SUBSET (Args \X Args) /\ query \in Args /\ IsFiniteSet(Args)
          /\ result = process_result(attacks, Args, query)
          /\ result = "unknown" => out_reduct = process_reduct(attacks, Args, query)
      BY PreProcAssumption, ArgsFinite DEF IInv, Types, DeliversContract
    <2>2. /\ result = "accepted" => SkepticallyAccepted(attacks, Args, query)
          /\ result = "rejected" => ~SkepticallyAccepted(attacks, Args, query)
          /\ result = "unknown" =>
               /\ out_reduct \subseteq Args
               /\ query \in out_reduct
               /\ Refutable(attacks, out_reduct, query) <=> Refutable(attacks, Args, query)
      BY <2>1, ContractSound
    <2>3. result = "unknown" =>
            (SkepticallyAccepted(attacks, out_reduct, query)
               <=> SkepticallyAccepted(attacks, Args, query))
      <3> SUFFICES ASSUME result = "unknown"
                   PROVE  SkepticallyAccepted(attacks, out_reduct, query)
                            <=> SkepticallyAccepted(attacks, Args, query)
        OBVIOUS
      <3>1. IsFiniteSet(out_reduct)
        BY <2>1, <2>2, FS_Subset
      <3>2. Refutable(attacks, out_reduct, query) <=> ~SkepticallyAccepted(attacks, out_reduct, query)
        BY <3>1, RefutableIffNotAccepted
      <3>3. Refutable(attacks, Args, query) <=> ~SkepticallyAccepted(attacks, Args, query)
        BY <2>1, RefutableIffNotAccepted
      <3>. QED
        BY <2>2, <3>2, <3>3
    <2>4. result \in {"accepted", "rejected", "unknown"}
      BY <2>1, ProcessResultValues
    <2>. QED
      BY <2>2, <2>3, <2>4 DEF AnswerPreserved
  <1>. QED
    BY <1>1, IInvHolds, PTL

\* The invariant of a path of tasks.
LEMMA PathInvHolds == SolveSpec => [](IInv /\ PathInv)
PROOF
  <1>1. IInv /\ PathInv /\ [SolveNext]_solveVars => PathInv'
    BY PathStep
  <1>2. SolveSpec => []IInv
    BY IInvHolds, TasksKeepPreProcessing, PTL
  <1>. QED
    BY <1>1, <1>2, InitPathInv, PTL DEF SolveSpec

\* get_reduct_set, member by member over vectors and bitsets, computes the
\* reduct of Solver_DS_PR in the order of active_args_vector (Reduct.cpp).
THEOREM ReductsClosed == SolveSpec => []ReductIsClosedForm
BY PathInvHolds, PathInvReduct, PTL

\* A child's list is its parent's and the set found, each argument once
\* (ExtendExtension in Solver_DS_PR.cpp merges lists that are not sorted).
THEOREM ExtensionsGrow == SolveSpec => ExtensionGrows
PROOF
  <1>1. IInv /\ PathInv /\ [SolveNext]_solveVars =>
          [\A S \in SUBSET Args : Descend(S) =>
             /\ ToSet(extension_build') = ToSet(extension_build) \cup S
             /\ Len(extension_build') = Len(extension_build) + Cardinality(S)]_solveVars
    BY DescendExtends
  <1>. QED
    BY <1>1, PathInvHolds, PTL DEF SolveSpec, ExtensionGrows
=============================================================================
