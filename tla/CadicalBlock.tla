---------------------------- MODULE CadicalBlock ----------------------------
(***************************************************************************)
(* Clause elimination of CaDiCaL that needs witnesses: blocked clauses     *)
(* (block.cpp), covered clauses (cover.cpp) and globally blocked clauses   *)
(* (condition.cpp).  All of them are off by default (options.hpp).         *)
(***************************************************************************)
EXTENDS CadicalFormula

CONSTANTS
    BlockMaxClsLim,  \* opts.blockmaxclslim, largest clause that is looked at
    BlockOccLim      \* opts.blockocclim, most negative occurrences

ASSUME BlockAssumption == BlockOccLim \in Nat

BlockMinClsLim == 2

(* What a technique returns: the database and the entries for the stack. *)
Weakened(F, C, w) ==
    LET cs == Listed(C)
    IN  [db |-> [F EXCEPT !.irr = @ \ C], pushed |-> [i \in 1..Len(cs) |-> Pushed({w}, cs[i])]]

-----------------------------------------------------------------------------
(* Blocked clauses. *)

(* Every resolvent of c on lit is a tautology. *)
is_blocked_clause(F, c, lit) ==
    \A d \in occs(F, -lit) : \E other \in d \ {-lit} : -other \in c

RightSize(c) == Cardinality(c) \in BlockMinClsLim..BlockMaxClsLim

block_pure_literal(F, lit) == Weakened(F, occs(F, lit), lit)

(* The one clause with -lit clashes with the blocked clauses. *)
block_literal_with_one_negative_occ(F, lit) ==
    LET d == CHOOSE x \in occs(F, -lit) : TRUE
        blocked == {c \in occs(F, lit) : RightSize(c) /\ \E other \in c \ {lit} : -other \in d}
    IN  Weakened(F, IF RightSize(d) THEN blocked ELSE {}, lit)

(* Clauses with lit that clash with at least one of the clauses with -lit. *)
block_candidates(F, lit) ==
    {c \in occs(F, lit) : RightSize(c) /\ \E other \in c \ {lit} : \E d \in occs(F, -lit) : -other \in d}

(* A clause with -lit that clashes with no candidate rules all of them out. *)
block_impossible(F, lit) ==
    \E d \in occs(F, -lit) : \A c \in block_candidates(F, lit) : \A other \in d \ {-lit} : -other \notin c

block_literal_with_at_least_two_negative_occs(F, lit) ==
    LET candidates == block_candidates(F, lit)
        skipped == \/ \E d \in occs(F, -lit) : Cardinality(d) > BlockMaxClsLim
                   \/ Cardinality(candidates) > 1 /\ block_impossible(F, lit)
    IN  Weakened(F, IF skipped THEN {} ELSE {c \in candidates : is_blocked_clause(F, c, lit)}, lit)

(* One scheduled literal.  pure tells whether its variable left the formula. *)
block_literal(F, lit) ==
    LET negative == Cardinality(occs(F, -lit))
    IN  IF negative > BlockOccLim THEN Weakened(F, {}, lit)
        ELSE IF negative = 0 THEN block_pure_literal(F, lit)
        ELSE IF occs(F, lit) = {} THEN Weakened(F, {}, lit)
        ELSE IF negative = 1 THEN block_literal_with_one_negative_occ(F, lit)
        ELSE block_literal_with_at_least_two_negative_occs(F, lit)

-----------------------------------------------------------------------------
(* Covered clauses.  The literals in added are assigned false; a literal is
   added asymmetrically when another clause would force its negation. *)

(* All asymmetric additions; subsumed when a clause has become false. *)
cover_propagate_asymmetric(F, c, added) ==
    LET forced == Propagation(F.irr \ {c}, Negated(added) \cup F.units)
    IN  [added |-> Negated(forced), subsumed |-> Conflicting(F.irr \ {c}, Negated(added) \cup F.units)]

(* Clauses to resolve with on lit, and the literals common to all of them. *)
ResolutionCandidates(F, lit, added) ==
    {d \in occs(F, -lit) : (d \ {-lit}) \cap (Negated(added) \cup F.units) = {}}
CoveredBy(F, lit, added) ==
    {l \in Lits : /\ l # -lit /\ l \notin added /\ -l \notin F.units
                  /\ \A d \in ResolutionCandidates(F, lit, added) : l \in d}

(* Covered literal addition on lit: the clause so far goes to the pending
   entries with lit as witness; without a clause to resolve with, the clause
   is blocked. *)
cover_propagate_covered(F, lit, s) ==
    LET blocked == ResolutionCandidates(F, lit, s.added) = {}
        new == IF blocked THEN {} ELSE CoveredBy(F, lit, s.added)
    IN  [added |-> s.added \cup new, covered |-> s.covered \cup new,
         extend |-> Append(s.extend, Pushed({lit}, s.covered)), tautological |-> blocked]

(* One turn of the loop of cover_clause: asymmetric additions first, then a
   covered literal that makes progress, until the clause is a tautology or
   nothing can be added. *)
cover_round(F, c, frozen, s) ==
    LET ala == cover_propagate_asymmetric(F, c, s.added)
        t == [s EXCEPT !.added = ala.added]
        useful == {l \in s.covered :
                     /\ vidx(l) \notin frozen
                     /\ \/ ResolutionCandidates(F, l, t.added) = {}
                        \/ CoveredBy(F, l, t.added) # {}}
    IN  IF s.tautological THEN s
        ELSE IF ala.subsumed THEN [t EXCEPT !.tautological = TRUE]
        ELSE IF useful = {} THEN t
        ELSE cover_propagate_covered(F, CHOOSE l \in useful : TRUE, t)

CoverLoop(F, c, frozen) ==
    LET start == [added |-> Remaining(F, c), covered |-> Remaining(F, c),
                  extend |-> <<>>, tautological |-> FALSE]
        round[n \in 0..(2 * N)] ==
            IF n = 0 THEN start ELSE cover_round(F, c, frozen, round[n - 1])
    IN  round[2 * N]

(* One scheduled clause.  A tautology that needed a covered literal is
   removed, and its pending entries - but the last, with the falsified
   literals of the clause - are pushed; an asymmetric tautology stays. *)
cover_clause(F, c, frozen) ==
    LET Entries(stack) ==
            [i \in 1..Len(stack) |->
                IF i = Len(stack) THEN stack[i]
                ELSE [stack[i] EXCEPT !.clause = @ \cup (c \cap Negated(F.units))]]
        Removed(pushed) == [db |-> mark_garbage(F, c), pushed |-> pushed]
        After(s) == IF s.tautological /\ s.extend # <<>> THEN Removed(Entries(s.extend))
                    ELSE [db |-> F, pushed |-> <<>>]
    IN  IF fixedTrue(F, c) THEN Removed(<<>>) ELSE After(CoverLoop(F, c, frozen))

-----------------------------------------------------------------------------
(* Globally blocked clauses, for an assignment alpha of the active variables
   that are neither fixed nor frozen. *)

(* The conditional literals at the start: those that alpha falsifies in a
   clause without satisfying it. *)
InitialConditional(F, alpha) ==
    {l \in alpha : \E d \in F.irr : ~fixedTrue(F, d) /\ d \cap alpha = {} /\ -l \in d}

(* Refinement for the candidate c.  A conditional literal that does not
   occur negated in c is unassigned; a clause that loses its last true
   literal makes the autarky literals it falsifies conditional. *)
Refined(F, alpha, c) ==
    LET round[n \in 0..(2 * N)] ==
            IF n = 0 THEN [conditional |-> InitialConditional(F, alpha), unassigned |-> {}]
            ELSE LET s == round[n - 1]
                     u == s.unassigned \cup (s.conditional \ Negated(c))
                     left == alpha \ u
                     broken == {d \in F.irr : ~fixedTrue(F, d) /\ d \cap alpha # {} /\ d \cap left = {}}
                 IN  [conditional |-> s.conditional \cup {l \in left : \E d \in broken : -l \in d},
                      unassigned |-> u]
    IN  round[2 * N]

(* A clause that keeps an autarky literal is removed, with the whole autarky
   as its witness. *)
condition_candidate(F, alpha, c) ==
    LET r == Refined(F, alpha, c)
        autarky == alpha \ (r.conditional \cup r.unassigned)
    IN  IF fixedTrue(F, c) THEN [db |-> mark_garbage(F, c), pushed |-> <<>>]
        ELSE IF c \cap autarky # {}
             THEN [db |-> mark_garbage(F, c), pushed |-> <<Pushed(autarky, c)>>]
        ELSE [db |-> F, pushed |-> <<>>]

=============================================================================
