-------------------------- MODULE PreProcContract --------------------------
(***************************************************************************)
(* What PreProc_DS_PR::process promises its caller, in closed form.  The   *)
(* loops that compute it are in module PreProcessor_DS_PR, which is shown  *)
(* to deliver exactly this for a framework whose distances are all zero.   *)
(***************************************************************************)
EXTENDS Argumentation, Framework

\* pre_proc_result: the self-attack and no-attacker shortcuts, then the
\* exits of reduce_by_grounded on the cone of influence of the query.
process_result(att, A, q) ==
  LET cone     == ConeOf(att, A, q)
      grounded == Grounded(att, cone)
  IN  IF <<q, q>> \in att THEN "rejected"
      ELSE IF attackers(att, q) = {} \/ q \in grounded THEN "accepted"
      ELSE IF \E g \in grounded : <<g, q>> \in att THEN "rejected"
      ELSE "unknown"

\* out_reduct, when the result is unknown.
process_reduct(att, A, q) ==
  LET cone == ConeOf(att, A, q)
  IN  get_reduct_set(cone, att, Grounded(att, cone))
=============================================================================
