------------------------- MODULE PreProcessor_DS_PR -------------------------
(***************************************************************************)
(* PreProcessor_DS_PR.cpp: process, calculate_cone_influence and           *)
(* reduce_by_grounded, one step per turn of an outer loop, and             *)
(* Prioritizer.cpp, which reads the distances they leave behind.           *)
(*                                                                         *)
(* The framework object outlives a call: its distance_to_query is the only *)
(* state a call leaves for the next one.  Main makes one call on a         *)
(* framework; runParallel in Tests.cpp makes several.                      *)
(***************************************************************************)
EXTENDS PreProcContract, Lists

CONSTANTS
  NumArgs,      \* framework.num_args
  Frameworks,   \* the attack relations considered
  Queries,      \* the arguments asked for
  MaxCalls(_),  \* bound on the calls of process on a framework
  UIntWidth     \* bits of a uint32_t: enough to tell a wrapped counter

Args == 1..NumArgs

ASSUME PreProcAssumption ==
  /\ NumArgs \in Nat \ {0}
  /\ Frameworks \subseteq SUBSET (Args \X Args)
  /\ Queries \subseteq Args
  /\ \A att \in Frameworks : MaxCalls(att) \in Nat \ {0}
  /\ UIntWidth \in Nat /\ 2^UIntWidth > 2 * NumArgs

VARIABLES
  attacks,              \* the framework's attacks
  distance_to_query,    \* framework.distance_to_query
  query, calls,         \* the argument of this call, the calls made
  pc,                   \* "ready", "cone", "grounded" or "returned"
  active_args,          \* ls_args_unprocessed and active_args_vector: they
                        \* grow together and are never shortened
  unattacked,           \* ls_unattacked_unprocessed
  at,                   \* the iterator of the loop that runs
  num_attacker, out_reduct, result

frameworkVars == <<attacks, distance_to_query>>
vars == <<frameworkVars, query, calls, pc, active_args, unattacked, at,
          num_attacker, out_reduct, result>>

Init ==
  /\ attacks \in Frameworks
  /\ distance_to_query = [a \in Args |-> 0]     \* AF::initialize
  /\ query \in Queries
  /\ calls = 0
  /\ pc = "ready"
  /\ active_args = <<>>
  /\ unattacked = <<>>
  /\ at = 1
  /\ num_attacker = [a \in Args |-> 0]
  /\ out_reduct = {}
  /\ result = "none"

(***************************************************************************)
(* process: the two shortcuts, or the head of calculate_cone_influence.    *)
(***************************************************************************)
Called(q) ==
  /\ pc \in {"ready", "returned"}
  /\ calls < MaxCalls(attacks)
  /\ calls' = calls + 1
  /\ query' = q
  /\ out_reduct' = {}
  /\ num_attacker' = [a \in Args |-> 0]
  /\ unattacked' = <<>>
  /\ at' = 1

Shortcut(q) ==
  /\ Called(q)
  /\ \/ <<q, q>> \in attacks /\ result' = "rejected"
     \/ attackers(attacks, q) = {} /\ result' = "accepted"
  /\ pc' = "returned"
  /\ active_args' = <<>>
  /\ UNCHANGED frameworkVars

StartCone(q) ==
  /\ Called(q)
  /\ <<q, q>> \notin attacks
  /\ attackers(attacks, q) # {}
  /\ distance_to_query' = [distance_to_query EXCEPT ![q] = 0]
  /\ active_args' = <<q>>
  /\ pc' = "cone"
  /\ result' = "none"
  /\ UNCHANGED attacks

\* The order of the elements of AF::attackers[a] and AF::victims[a] is the
\* iteration order of an unordered_set: any order.
AnyOrder(S) == SetToSeqs(S)

\* Faulty variant: the query, at distance zero, is taken for a new argument.
visited_by_distance(a) == distance_to_query[a] > 0

\* An attacker is new if its distance is still zero and it is not the query.
visited(a) == distance_to_query[a] > 0 \/ a = query

VisitArgument ==
  /\ pc = "cone"
  /\ at <= Len(active_args)
  /\ LET argument == active_args[at]
         new      == {a \in attackers(attacks, argument) : ~visited(a)} IN
     /\ distance_to_query' =
          [a \in Args |-> IF a \in new THEN distance_to_query[argument] + 1
                          ELSE distance_to_query[a]]
     /\ \E order \in AnyOrder(new) : active_args' = active_args \o order
  /\ at' = at + 1
  /\ UNCHANGED <<attacks, query, calls, pc, unattacked, num_attacker, out_reduct, result>>

(***************************************************************************)
(* reduce_by_grounded.                                                     *)
(***************************************************************************)
StartGrounded ==
  /\ pc = "cone"
  /\ at > Len(active_args)
  /\ out_reduct' = ToSet(active_args)
  /\ unattacked' = Keep(active_args, {a \in Args : attackers(attacks, a) = {}})
  /\ num_attacker' = [a \in Args |-> IF a \in ToSet(active_args)
                                     THEN Cardinality(attackers(attacks, a)) ELSE 0]
  /\ at' = 1
  /\ pc' = "grounded"
  /\ UNCHANGED <<frameworkVars, query, calls, active_args, result>>

\* The query itself is unattacked, or is attacked by an unattacked argument.
Decide ==
  /\ pc = "grounded"
  /\ at <= Len(unattacked)
  /\ LET ua == unattacked[at] IN
     \/ ua = query /\ result' = "accepted"
     \/ ua # query /\ <<ua, query>> \in attacks /\ result' = "rejected"
  /\ pc' = "returned"
  /\ UNCHANGED <<frameworkVars, query, calls, active_args, unattacked, at,
                 num_attacker, out_reduct>>

\* Faulty variant: victims removed before are counted again.
lost_again(ua, v) == {w \in victims(attacks, ua) : <<w, v>> \in attacks}

\* The attackers of v that drop out with ua: its active victims.
lost(ua, v) == {w \in victims(attacks, ua) \cap out_reduct : <<w, v>> \in attacks}

\* Each active victim of an active victim of ua loses an attacker and is
\* queued when its counter passes zero; then ua and its victims leave.
ReduceBy ==
  /\ pc = "grounded"
  /\ at <= Len(unattacked)
  /\ LET ua == unattacked[at]
         freed == {v \in out_reduct : num_attacker[v] \in 1..Cardinality(lost(ua, v))} IN
     /\ ua # query
     /\ <<ua, query>> \notin attacks
     /\ num_attacker' =
          [v \in Args |-> IF v \in out_reduct
                          THEN (num_attacker[v] - Cardinality(lost(ua, v))) % 2^UIntWidth
                          ELSE num_attacker[v]]
     /\ \E order \in AnyOrder(freed) : unattacked' = unattacked \o order
     /\ out_reduct' = get_reduct(out_reduct, attacks, ua)
  /\ at' = at + 1
  /\ UNCHANGED <<frameworkVars, query, calls, pc, active_args, result>>

ReturnUnknown ==
  /\ pc = "grounded"
  /\ at > Len(unattacked)
  /\ result' = "unknown"
  /\ pc' = "returned"
  /\ UNCHANGED <<frameworkVars, query, calls, active_args, unattacked, at,
                 num_attacker, out_reduct>>

Terminated == pc = "returned" /\ calls = MaxCalls(attacks) /\ UNCHANGED vars

process ==
  \/ \E q \in Queries : Shortcut(q) \/ StartCone(q)
  \/ VisitArgument
  \/ StartGrounded
  \/ Decide
  \/ ReduceBy
  \/ ReturnUnknown

Next == process \/ Terminated

Spec == Init /\ [][Next]_vars

\* Faulty variant: the operands are swapped.
calculate_priority_swapped(set_arguments) ==
  Max({(distance_to_query[a] - NumArgs) % 2^UIntWidth : a \in set_arguments})

(***************************************************************************)
(* Prioritizer::calculate_priority: the greatest num_args - distance of    *)
(* the set, in uint32_t arithmetic.                                        *)
(***************************************************************************)
calculate_priority(set_arguments) ==
  Max({(NumArgs - distance_to_query[a]) % 2^UIntWidth : a \in set_arguments})

-----------------------------------------------------------------------------
(***************************************************************************)
(* Properties.                                                             *)
(***************************************************************************)
\* Every variable keeps its C++ type, counters included.
TypeOK ==
  /\ attacks \in SUBSET (Args \X Args)
  /\ distance_to_query \in [Args -> 0..(NumArgs - 1)]
  /\ query \in Args
  /\ calls \in 0..MaxCalls(attacks)
  /\ pc \in {"ready", "cone", "grounded", "returned"}
  /\ ToSet(active_args) \subseteq Args
  /\ ToSet(unattacked) \subseteq Args
  /\ at \in 1..(NumArgs + 1)
  /\ num_attacker \in [Args -> 0..(2^UIntWidth - 1)]
  /\ out_reduct \in SUBSET Args
  /\ result \in {"none", "accepted", "rejected", "unknown"}

\* The first call of process on a framework returns what PreProcContract
\* promises the solver.
DeliversContract ==
  pc = "returned" /\ calls = 1 =>
    /\ result = process_result(attacks, Args, query)
    /\ result = "unknown" => out_reduct = process_reduct(attacks, Args, query)

\* The decision of process, or the smaller question it hands on, has the
\* answer of the original question: the query is in every preferred
\* extension of the reduct iff it is in every one of the framework
\* (Solver_DS_PR.h: "TRUE iff the argument is sceptical accepted").
AnswerPreserved ==
  pc = "returned" =>
    LET truth == SkepticallyAccepted(attacks, Args, query) IN
    CASE result = "accepted" -> truth
      [] result = "rejected" -> ~truth
      [] OTHER -> /\ query \in out_reduct
                  /\ SkepticallyAccepted(attacks, out_reduct, query) <=> truth

\* The vectors of the cone and of the unattacked arguments never list an
\* argument twice, although the framework may be full of cycles: a duplicate
\* would be counted twice by size() and processed twice by the loops.
ListedOnce == IsInjective(active_args) /\ IsInjective(unattacked)

\* num_attacker[v] of an argument still in play is the number of its
\* attackers that are still in play or were never in the cone: no removed
\* attacker is subtracted twice or forgotten, and the counter never wraps.
CounterExact ==
  pc = "grounded" =>
    \A v \in out_reduct :
      num_attacker[v] = Cardinality({b \in attackers(attacks, v) :
                                       b \in out_reduct \/ b \notin ToSet(active_args)})

\* The arguments from which the query can be reached in at most k attacks.
Within[k \in 0..NumArgs] ==
  IF k = 0 THEN {query}
  ELSE Within[k - 1] \cup {e[1] : e \in {x \in attacks : x[2] \in Within[k - 1]}}

\* After the first search distance_to_query is the length of a shortest
\* attack path to the query.
DistanceIsShortest ==
  pc = "grounded" /\ calls = 1 =>
    \A a \in ToSet(active_args) :
      /\ a \in Within[distance_to_query[a]]
      /\ distance_to_query[a] > 0 => a \notin Within[distance_to_query[a] - 1]

\* What the two loops keep at every turn: they end, count and order only
\* because of it.
LoopsExact == ListedOnce /\ CounterExact /\ DistanceIsShortest

\* num_args - distance never wraps, also on a framework that was searched
\* before: a set is preferred the closer it is to the query, and only a set
\* with the query itself would get the top priority num_args.
PriorityInRange ==
  result = "unknown" =>
    \A S \in (SUBSET out_reduct) \ {{}} :
      /\ calculate_priority(S) \in 1..NumArgs
      /\ query \notin S /\ calls = 1 => calculate_priority(S) < NumArgs

\* process returns from every call, whatever cycles the framework has.
ProcessReturns == (pc = "cone") ~> (pc = "returned")
=============================================================================
