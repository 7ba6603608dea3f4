------------------------- MODULE CadicalTechniques -------------------------
(***************************************************************************)
(* The techniques of CaDiCaL that decide and propagate for themselves      *)
(* before or between searches, each from the trail of level zero: lucky    *)
(* phases, failed literal probing and vivification.  A behaviour runs one  *)
(* of them; the variables of the others stay as they are.  They share the  *)
(* state of the search and the promises towards it.                        *)
(***************************************************************************)
EXTENDS CadicalAnalyze

CONSTANTS
    LuckyFormulas,                \* as Formulas in CadicalLucky
    Assumable, Constraints,       \* as in CadicalLucky
    ProbeFormulas, MaxRounds,     \* as Formulas and MaxRounds in CadicalProbe
    VivifyFormulas, VivifyInst    \* as Formulas and VivifyInst in CadicalVivify

VARIABLES
    technique,   \* lucky, probe or vivify
    S, original, phase,
    root, assumptions, constraint, strategy, left, todo, result,
    hbr, probes, probe, pending2, pending, lits, work, rounds, failed,
    mode, order, schedule, c, sorted, next, subsume, remove, derived, binary, visits, strengthened

lucky_vars == <<root, assumptions, constraint, strategy, left, todo, result>>
probe_vars == <<hbr, probes, probe, pending2, pending, lits, work, rounds, failed>>
vivify_vars == <<mode, order, schedule, c, sorted, next, subsume, remove, derived, binary, visits,
                 strengthened>>
vars == <<technique, S, original, phase, lucky_vars, probe_vars, vivify_vars>>

Lucky == INSTANCE CadicalLucky WITH Formulas <- LuckyFormulas
Probe == INSTANCE CadicalProbe WITH Formulas <- ProbeFormulas
Vivify == INSTANCE CadicalVivify WITH Formulas <- VivifyFormulas

LuckyIdle ==
    /\ root = <<>> /\ assumptions = {} /\ constraint = {} /\ strategy = 1
    /\ left = {} /\ todo = <<>> /\ result = 1

ProbeIdle ==
    /\ hbr = FALSE /\ probes = <<>> /\ probe = 0 /\ pending2 = {} /\ pending = {} /\ lits = <<0, 0>>
    /\ work = <<>> /\ rounds = 0 /\ failed = FALSE

VivifyIdle ==
    /\ mode = "done" /\ order = <<>> /\ schedule = {} /\ c = {} /\ sorted = <<>> /\ next = 1
    /\ subsume = 0 /\ remove = 0 /\ derived = {} /\ binary = FALSE /\ visits = {}
    /\ strengthened = {}

Init ==
    \/ /\ technique = "lucky" /\ Lucky!Init /\ ProbeIdle /\ VivifyIdle
       /\ original = S.clauses \cup {Clause(<<l>>, FALSE) : l \in ToSet(root)}
    \/ technique = "probe" /\ Probe!Init /\ LuckyIdle /\ VivifyIdle
    \/ technique = "vivify" /\ Vivify!Init /\ LuckyIdle /\ ProbeIdle

LuckyStep == technique = "lucky" /\ Lucky!Next /\ UNCHANGED <<technique, original, probe_vars, vivify_vars>>
ProbeStep == technique = "probe" /\ Probe!Next /\ UNCHANGED <<technique, lucky_vars, vivify_vars>>
VivifyStep == technique = "vivify" /\ Vivify!Next /\ UNCHANGED <<technique, lucky_vars, probe_vars>>

Next == LuckyStep \/ ProbeStep \/ VivifyStep

Spec == Init /\ [][Next]_vars

(* The solver does not stop within a round of probing: weak fairness of
   ProbeStep, whose enabling condition is written out. *)
FairSpec == Spec /\ ([]<>(technique # "probe" \/ phase = "idle") \/ []<><<ProbeStep>>_vars)

-----------------------------------------------------------------------------
(* What the techniques promise to the search. *)

(* A lucky answer is a model of every clause under the assumptions, and without
   an answer the search finds the trail, the watches and no conflict. *)
LuckyHarmless == technique = "lucky" => Lucky!LuckyCorrect /\ Lucky!NothingLeft

(* Every clause and unit that probing or vivification derives follows from the
   formula, and the irredundant clauses with the units imply the irredundant
   clauses it started with: no clause went that only itself, another one that
   went or a redundant one justified. *)
FormulaKept ==
    LET Irredundant(C) == {ToSet(d.lits) : d \in {e \in C : ~e.red /\ ~e.garbage}}
        units == {{l} : l \in Fixed(S)}
        now == {ToSet(d.lits) : d \in {e \in S.clauses : ~e.garbage}} \cup units
    IN  /\ Entails(Irredundant(original), now)
        /\ S.unsat => Models(Irredundant(original)) = {}
        /\ S.unsat \/ Entails(Irredundant(S.clauses) \cup units, Irredundant(original))

(* Between two probes and when vivification is done all units are propagated:
   no clause is falsified or has one literal left. *)
RootPropagated ==
    /\ \/ technique = "probe" /\ phase \in {"next", "idle"}
       \/ technique = "vivify" /\ mode = "done"
    /\ ~S.unsat
    =>
        \A d \in {ToSet(e.lits) : e \in {f \in S.clauses : ~f.garbage}} :
            d \cap Fixed(S) # {} \/ Cardinality(d \ Negated(Fixed(S))) > 1

(* The parent of a probed literal implies it alone, and a literal that is skipped
   by probing would not fail. *)
ProbingJustified == technique = "probe" => Probe!ParentImplies /\ Probe!SkippedHarmless

(* Probing ends: every round pops its schedule, and a schedule is generated
   again only from literals that are due. *)
RoundEnds == (technique = "probe" /\ phase = "next") ~> phase = "idle"

(* What vivification decides last, and where it puts in a shorter clause. *)
VivifyTrailRight == technique = "vivify" => Vivify!InstantiatesLast /\ Vivify!NewClauseWatched

=============================================================================
