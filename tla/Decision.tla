------------------------------ MODULE Decision ------------------------------
(***************************************************************************)
(* What Solver_DS_PR::solve promises its caller (Solver_DS_PR.h): asked    *)
(* whether the query is sceptically accepted it answers once, correctly,   *)
(* and after it has found a refutation it answers "rejected".  Nothing     *)
(* here says how: no tasks, no reduct, no SAT solver.                      *)
(***************************************************************************)
EXTENDS Argumentation

CONSTANTS Args, Frameworks, Queries

VARIABLES
  attacks, query,   \* the question
  refuted,          \* a refutation has been found
  answer            \* "none" until the answer is given

vars == <<attacks, query, refuted, answer>>

Accepted == SkepticallyAccepted(attacks, Args, query)

Init ==
  /\ attacks \in Frameworks
  /\ query \in Queries
  /\ refuted = FALSE
  /\ answer = "none"

\* A refutation turns up; there may be several, but one is enough.
Refute ==
  /\ answer = "none"
  /\ ~Accepted
  /\ refuted' = TRUE
  /\ UNCHANGED <<attacks, query, answer>>

Answer ==
  /\ answer = "none"
  /\ answer' = IF Accepted THEN "accepted" ELSE "rejected"
  /\ UNCHANGED <<attacks, query, refuted>>

Next == Refute \/ Answer

Spec == Init /\ [][Next]_vars

FairSpec == Spec /\ WF_vars(Answer)
=============================================================================
