--------------------------- MODULE Argumentation ---------------------------
(***************************************************************************)
(* Dung's abstract argumentation, the theory the solver decides.  An       *)
(* attack relation att is a set of pairs <<attacker, victim>>; A is the    *)
(* set of arguments of the (sub)framework under consideration.  Nothing    *)
(* here models code: these are the reference definitions the program's     *)
(* answers are compared with.                                              *)
(***************************************************************************)

ConflictFree(att, S) == \A a \in S, b \in S : <<a, b>> \notin att

\* S counter-attacks every attacker of a inside the framework (A, att).
Defends(att, A, S, a) ==
  \A b \in A : <<b, a>> \in att => \E c \in S : <<c, b>> \in att

Admissible(att, A, S) ==
  /\ S \subseteq A
  /\ ConflictFree(att, S)
  /\ \A a \in S : Defends(att, A, S, a)

\* A preferred extension is an admissible set that no admissible set exceeds.
Preferred(att, A, E) ==
  /\ Admissible(att, A, E)
  /\ \A T \in SUBSET A : Admissible(att, A, T) /\ E \subseteq T => T = E

\* The question DS-PR asks: is q in every preferred extension?
SkepticallyAccepted(att, A, q) ==
  \A E \in SUBSET A : Preferred(att, A, E) => q \in E

\* E refutes q: E is admissible and no admissible set above it contains q.
\* A preferred extension without q is such a set, and every such set lies
\* below a preferred extension without q.
Refutes(att, A, q, E) ==
  /\ Admissible(att, A, E)
  /\ \A T \in SUBSET A : Admissible(att, A, T) /\ E \subseteq T => q \notin T

Refutable(att, A, q) == \E E \in SUBSET A : Refutes(att, A, q, E)

\* The least set that contains every argument it defends: the grounded
\* extension, as the intersection of all sets closed under defence.
Grounded(att, A) ==
  {a \in A : \A S \in SUBSET A :
               (\A b \in A : Defends(att, A, S, b) => b \in S) => a \in S}

\* The arguments with a directed path to q: the least set that contains q
\* and every attacker of its members.
ConeOf(att, A, q) ==
  {a \in A : \A S \in SUBSET A :
               (q \in S /\ \A b \in S, c \in A : <<c, b>> \in att => c \in S)
                 => a \in S}

=============================================================================
