---------------------------- MODULE CadicalSearch ----------------------------
(***************************************************************************)
(* Incremental search of CaDiCaL: the loop of cdcl_loop_with_inprocessing  *)
(* over propagation, conflict analysis, decisions, restarts and reductions *)
(* of the clause database, and what the user does between two calls of     *)
(* solve.  With opts.ilb the trail of the last call survives: clauses are  *)
(* added, literals assumed and values flipped while it is assigned.        *)
(***************************************************************************)
EXTENDS CadicalAnalyze

CONSTANTS
    Sessions,        \* what the user does, see below
    Ilb,             \* opts.ilb
    IlbAssumptions   \* opts.ilbassumptions

VARIABLES
    session,      \* one of Sessions
    S,            \* the search state, see CadicalAnalyze
    pending,      \* clauses whose watch of the current literal is not visited
    original,     \* the clauses the user added
    assumptions,  \* the assumed literals, in the order they are decided
    constraint,   \* the constraint that is left, {} when there is none
    wanted,       \* the constraint as the user gave it
    failedConstraint, \* unsat_constraint
    status,       \* input, solving, sat, unsat or unknown
    core,         \* the failed assumptions
    fresh,        \* whether there was a conflict since the last restart
    solves, reductions, flips

vars == <<session, S, pending, original, assumptions, constraint, wanted, failedConstraint, status,
          core, fresh, solves, reductions, flips>>
user == <<session, original, assumptions, constraint, wanted, solves, flips>>

(* A session is a record: formula, the clauses of the user as sequences of
   literals; addable and constraints, clauses he may add and constrain between
   two calls of solve; assumable and flippable, literals and variables;
   restarts, opts.restart; max_var, the largest variable; and bounds on the
   calls of solve, on the reductions and rephasings of a call, and on flips. *)

-----------------------------------------------------------------------------
(* Complete propagation at level zero, in one of the possible orders. *)

RECURSIVE propagate_root(_)
propagate_root(T) ==
    LET lit == -T.trail[T.propagated + 1]
        Visit(U, c) == IF U.conflict # <<>> THEN U
                       ELSE propagate_watch(U, c, lit, CHOOSE r \in Replacements(U, c, lit) : TRUE)
        visited == FoldSet(LAMBDA c, U : Visit(U, c), T, {c \in T.clauses : lit \in Watched(c)})
    IN  IF T.conflict # <<>> THEN [learn_empty_clause(T) EXCEPT !.conflict = <<>>]
        ELSE IF T.propagated = Len(T.trail) THEN T
        ELSE propagate_root([visited EXCEPT !.propagated = @ + 1])

(* A clause of the user, filtered as if at level zero. *)
Filtered(T, lits) ==
    LET Keep(s, l) == IF l \in Negated(Fixed(T)) \cup ToSet(s) THEN s ELSE Append(s, l)
    IN  FoldLeft(Keep, <<>>, lits)

(* Position i gets a true literal of lowest level, else an unassigned one,
   else a false one of highest level. *)
move_literal_to_watch(T, lits, i) ==
    LET Better(j, k) == \* the literal at j replaces the one at k
            LET a == lits[j] b == lits[k]
            IN  IF a \in False(T) THEN b \in False(T) /\ lev(T, a) > lev(T, b)
                ELSE IF a \in True(T) THEN b \notin True(T) \/ lev(T, a) < lev(T, b)
                ELSE b \in False(T)
        best == FoldLeft(LAMBDA k, j : IF Better(j, k) THEN j ELSE k, i,
                         [j \in 1..(Len(lits) - i) |-> j + i])
    IN  IF level(T) = 0 THEN lits ELSE [lits EXCEPT ![i] = lits[best], ![best] = lits[i]]

(* A new clause that is falsified or unit under the trail. *)
handle_external_clause(T, lits) ==
    LET pos0 == lits[1]
        pos1 == lits[2]
        l1 == lev(T, pos1)
        U == IF Chrono = 0 THEN backtrack(T, l1) ELSE T
    IN  IF level(T) = 0 \/ pos1 \notin False(T) \/ pos0 \in True(T) THEN T
        ELSE IF pos0 \in False(U) THEN backtrack(U, l1 - 1)
        ELSE search_assign(U, pos0, lits)

TrailToAdd(T) ==
    IF level(T) > 0 /\ ~Ilb THEN backtrack(T, 0)
    ELSE IF T.tainted # 0 THEN backtrack(T, lev(T, T.tainted) - 1) ELSE T

add_original(T0, lits) ==
    LET T == TrailToAdd(T0)
        c == Filtered(T, lits)
        watched == move_literal_to_watch(T, move_literal_to_watch(T, c, 1), 2)
    IN  IF T.unsat \/ (\E l \in ToSet(lits) : -l \in ToSet(lits)) \/ ToSet(lits) \cap Fixed(T) # {}
        THEN T
        ELSE IF c = <<>> THEN [T EXCEPT !.unsat = TRUE]
        ELSE IF Len(c) = 1 THEN propagate_root(search_assign(backtrack(T, 0), c[1], <<>>))
        ELSE handle_external_clause([T EXCEPT !.clauses = @ \cup {Clause(watched, FALSE)}], watched)

-----------------------------------------------------------------------------
(* Between two calls of solve.  The first of these calls after a result ends
   the assumptions and the constraint of the last one. *)

Init ==
    /\ session \in Sessions
    /\ S = [NewState EXCEPT !.clauses = {Clause(c, FALSE) : c \in session.formula}]
    /\ original = {ToSet(c) : c \in session.formula}
    /\ pending = {}
    /\ assumptions = <<>>
    /\ constraint = {} /\ wanted = {}
    /\ failedConstraint = FALSE
    /\ status = "input"
    /\ core = {}
    /\ fresh = FALSE
    /\ solves = 0 /\ reductions = 0 /\ flips = 0

Old == status \in {"sat", "unsat"}
Assumptions == IF Old THEN <<>> ELSE assumptions

KeepConstraint ==
    /\ constraint' = IF Old THEN {} ELSE constraint
    /\ wanted' = IF Old THEN {} ELSE wanted
    /\ failedConstraint' = (failedConstraint /\ ~Old)

ToInput ==
    /\ status # "solving" /\ solves < session.solves
    /\ status' = "input"
    /\ core' = {}
    /\ UNCHANGED <<session, pending, fresh, solves, reductions, flips>>

add(lits) ==
    /\ ToInput
    /\ ToSet(lits) \notin original
    /\ S' = add_original(S, lits)
    /\ original' = original \cup {ToSet(lits)}
    /\ assumptions' = Assumptions
    /\ KeepConstraint

(* A literal that is assumed already is not assumed twice, but takes the trail
   back all the same. *)
assume(lit) ==
    /\ ToInput
    /\ S' = IF ~IlbAssumptions THEN backtrack(S, 0)
            ELSE IF lit \in False(S) THEN backtrack(S, MaxOf({lev(S, lit) - 1})) ELSE S
    /\ assumptions' = IF lit \in ToSet(Assumptions) THEN Assumptions ELSE Append(Assumptions, lit)
    /\ KeepConstraint
    /\ UNCHANGED original

(* A constraint that is satisfied at level zero or a tautology is dropped, one
   without an unassigned literal makes the next call fail. *)
constrain(lits) ==
    LET T == backtrack(S, 0)
        left == lits \ False(T)
        dropped == lits \cap True(T) # {} \/ lits \cap Negated(lits) # {}
    IN  /\ ToInput
        /\ S' = T
        /\ wanted' = lits
        /\ constraint' = IF dropped THEN {} ELSE left
        /\ failedConstraint' = (~dropped /\ left = {})
        /\ assumptions' = Assumptions
        /\ UNCHANGED original

(* Every clause that is not satisfied by its watches gets a true literal as a
   watch in place of a false one. *)
propergate(T) ==
    LET Fix(c) ==
            LET lit == CHOOSE l \in Watched(c) : l \in False(T)
                k == CHOOSE i \in 3..Len(c.lits) : c.lits[i] \notin False(T)
            IN  IF c.garbage \/ Len(c.lits) = 2 \/ Watched(c) \cap True(T) # {} THEN c
                ELSE Moved(c, lit, k)
    IN  [T EXCEPT !.clauses = {Fix(c) : c \in @}]

(* A literal is flipped when none of the clauses that watch it is left without
   another true literal.  A longer clause that is stops the loop over the
   watches, and those visited before have moved. *)
flip(v) ==
    LET T == propergate(S)
        lit == T.trail[pos(T, v)]
        watching == {c \in T.clauses : lit \in Watched(c) /\ (~c.garbage \/ Len(c.lits) = 2)}
        stuck == {c \in watching : (ToSet(c.lits) \ {lit}) \cap True(T) = {}}
        visited == IF \E c \in stuck : Len(c.lits) = 2 THEN {} ELSE watching \ stuck
        Away(c) ==
            LET k == CHOOSE i \in 3..Len(c.lits) : c.lits[i] \in True(T)
            IN  IF OtherWatch(c, lit) \in True(T) THEN c ELSE Moved(c, lit, k)
        Leaving(cs) == [T EXCEPT !.clauses = (@ \ cs) \cup {Away(c) : c \in cs}]
    IN  /\ status = "sat" /\ flips < session.flips
        /\ T.level[v] > 0
        /\ \/ /\ stuck = {}
              /\ S' = [Leaving(watching) EXCEPT
                          !.trail = [@ EXCEPT ![pos(T, v)] = -lit],
                          !.tainted = IF @ = 0 \/ T.level[v] < T.level[@] THEN v ELSE @]
           \/ stuck # {} /\ \E cs \in SUBSET visited : S' = Leaving(cs)
        /\ flips' = flips + 1
        /\ UNCHANGED <<session, pending, original, assumptions, constraint, wanted, failedConstraint,
                       status, core, fresh, solves, reductions>>

-----------------------------------------------------------------------------
(* The start of solve. *)

(* The level is shifted out of the int the rank is returned in. *)
rank(T, lit) == IF lit \in Unassigned(T) THEN vidx(lit) ELSE pos(T, lit) - 1

sorted_assumptions(T, A) == SortSeq(A, LAMBDA a, b : rank(T, a) < rank(T, b))

(* The level up to which the decisions of the trail are those of the sorted
   assumptions. *)
reused_level(T, A) ==
    LET prefix == {k \in 1..Len(A) : \A j \in 1..k : A[j] \notin Unassigned(T)}
        max_level == IF prefix = {} THEN 0 ELSE lev(T, A[Max(prefix)])
        Match[i \in 1..(level(T) + 1), j \in 1..(Len(A) + 1)] ==
            IF i > Min({level(T), max_level}) THEN i - 2
            ELSE IF A[j] \notin Unassigned(T) /\ lev(T, A[j]) < i
            THEN Match[i, j + 1]
            ELSE IF T.control[i].decision = A[j] THEN Match[i + 1, j + 1]
            ELSE i - 1
    IN  MaxOf({Match[1, 1]})

(* Faulty variant: the trail of the last call is reused whatever is assumed. *)
reuse_all(T, A) == T

sort_and_reuse_assumptions(T, A) ==
    IF A = <<>> \/ ~Ilb \/ ~IlbAssumptions THEN T ELSE backtrack(T, reused_level(T, A))

(* Failed solving leaves its answer and the failed assumptions. *)
Answer(answer, failing) ==
    /\ status' = answer
    /\ core' = failing

solve ==
    LET A == Assumptions
        sorted == IF Ilb /\ IlbAssumptions THEN sorted_assumptions(S, A) ELSE A
        T == sort_and_reuse_assumptions(S, sorted)
        U == IF Ilb THEN T ELSE backtrack(T, 0)
        V == IF level(U) = 0 THEN propagate_root(U) ELSE U
    IN  /\ status # "solving" /\ solves < session.solves
        /\ solves' = solves + 1
        /\ reductions' = 0
        /\ assumptions' = sorted
        /\ KeepConstraint
        /\ IF S.unsat \/ failedConstraint' THEN S' = T /\ Answer("unsat", {})
           ELSE S' = V /\ Answer(IF V.unsat THEN "unsat" ELSE "solving", {})
        /\ UNCHANGED <<session, pending, original, fresh, flips>>

-----------------------------------------------------------------------------
(* The loop of cdcl_loop_with_inprocessing. *)

InLoop == status = "solving" /\ ~S.unsat
Propagated == pending = {} /\ S.conflict = <<>> /\ S.propagated = Len(S.trail)
Above == level(S) >= Len(assumptions) + (IF constraint = {} THEN 0 ELSE 1)
Open == {l \in Unassigned(S) : vidx(l) <= session.max_var}
satisfied == Above /\ Open = {}

PropagateNext ==
    /\ InLoop /\ pending = {} /\ S.conflict = <<>> /\ S.propagated < Len(S.trail)
    /\ S' = [S EXCEPT !.propagated = @ + 1]
    /\ pending' = {c \in S.clauses : -S.trail[S.propagated + 1] \in Watched(c)}
    /\ UNCHANGED <<user, failedConstraint, status, core, fresh, reductions>>

(* After a conflict only binary watches are still visited, until the first
   longer one. *)
PropagateWatch(c) ==
    LET lit == -S.trail[S.propagated]
    IN  /\ InLoop
        /\ S.conflict = <<>> \/ Len(c.lits) = 2
        /\ \E r \in Replacements(S, c, lit) : S' = propagate_watch(S, c, lit, r)
        /\ pending' = pending \ {c}
        /\ UNCHANGED <<user, failedConstraint, status, core, fresh, reductions>>

Driven(T, lit) == [search_assign(T, lit, T.conflict) EXCEPT !.conflict = <<>>]

(* A conflict whose highest level has one literal forces that literal. *)
AnalyzeForced ==
    LET T == find_conflict_level(S)
    IN  /\ InLoop /\ S.conflict # <<>> /\ Chrono > 0
        /\ pending = {} \/ \E c \in pending : Len(c.lits) > 2
        /\ Cardinality(OnConflictLevel(S)) = 1
        /\ S' = Driven(backtrack(T, conflict_level(T) - 1), CHOOSE l \in OnConflictLevel(T) : TRUE)
        /\ pending' = {}
        /\ fresh' = TRUE
        /\ UNCHANGED <<user, failedConstraint, status, core, reductions>>

Learned(a) ==
    IF Cardinality(a.clause) = 1 THEN a.clause
    ELSE shrink_and_minimize_clause(a.S, a.clause, a.uip, a.ever \cup a.seen)

(* The state the analysis a of a conflict ends in: a strengthened clause, a
   unit, or a learned clause forces a literal. *)
Learn(a, lits, new_level) ==
    LET B == backtrack(a.S, new_level)
    IN  IF a.forced # 0 THEN Driven(B, a.forced)
        ELSE IF Len(lits) = 1 THEN [search_assign(B, -a.uip, <<>>) EXCEPT !.conflict = <<>>]
        ELSE [eagerly_subsume_recently_learned_clauses(
                 search_assign([B EXCEPT !.clauses = @ \cup {Clause(lits, TRUE)}], -a.uip, lits), lits)
                 EXCEPT !.conflict = <<>>]

Jump(a, lits) ==
    IF a.forced # 0 THEN MaxOf({lev(a.S, l) : l \in ToSet(a.S.conflict) \ {a.forced}})
    ELSE IF Len(lits) = 1 THEN 0 ELSE lev(a.S, lits[2])

AnalysisDue ==
    /\ InLoop /\ S.conflict # <<>>
    /\ pending = {} \/ \E c \in pending : Len(c.lits) > 2
    /\ Chrono > 0 => Cardinality(OnConflictLevel(S)) > 1

Analyze ==
    /\ AnalysisDue
    /\ \E U \in {IF Chrono = 0 THEN S ELSE backtrack(find_conflict_level(S), conflict_level(S))} :
           IF level(U) = 0 THEN S' = [learn_empty_clause(U) EXCEPT !.conflict = <<>>]
           ELSE \E a \in {Resolve(StartAnalysis(U, Len(U.trail) + 1, {}))} :
                \E lits \in {IF a.forced # 0 THEN <<>> ELSE new_driving_clause(a.S, Learned(a))} :
                \E new_level \in determine_actual_backtrack_level(a.S, Jump(a, lits), assumptions) :
                   S' = Learn(a, lits, new_level)
    /\ pending' = {}
    /\ fresh' = TRUE
    /\ UNCHANGED <<user, failedConstraint, status, core, reductions>>

(* The true literals a set of true literals follows from through reasons, and
   among them the decisions. *)
Ancestors(T, lits) ==
    LET Closure[n \in 0..N] ==
            IF n = 0 THEN lits
            ELSE Closure[n - 1] \cup UNION {Negated(T.reason[vidx(l)] \ {l}) : l \in Closure[n - 1]}
    IN  Closure[N]

Decisions(T, lits) == {l \in Ancestors(T, lits) : lev(T, l) > 0 /\ T.reason[vidx(l)] = {}}

(* The failed assumptions: one that is false at level zero, two that clash,
   or the one falsified at the lowest level and the decisions that falsify
   it. *)
failing(T) ==
    LET falsified == {l \in ToSet(assumptions) : l \in False(T)}
        unit == {l \in falsified : lev(T, l) = 0}
        clashing == {l \in falsified : T.reason[vidx(l)] = {}}
        first == CHOOSE l \in falsified : \A m \in falsified : lev(T, l) <= lev(T, m)
        some == CHOOSE l \in unit : TRUE
        clash == CHOOSE l \in clashing : TRUE
    IN  IF unit # {} THEN {some}
        ELSE IF clashing # {} THEN {clash, -clash}
        ELSE {first} \cup Decisions(T, {-first})

(* Whether every decision level holds its assumption, which is decided, true
   already, or false. *)
DecideAssumption ==
    LET lit == assumptions[level(S) + 1]
    IN  /\ InLoop /\ Propagated /\ level(S) < Len(assumptions)
        /\ IF lit \in False(S) THEN S' = S /\ Answer("unsat", failing(S))
           ELSE /\ S' = IF lit \in True(S) THEN new_trail_level(S, 0)
                        ELSE search_assume_decision(S, lit)
                /\ UNCHANGED <<status, core>>
        /\ UNCHANGED <<user, failedConstraint, pending, fresh, reductions>>

(* The level above the assumptions is that of the constraint. *)
DecideConstraint ==
    /\ InLoop /\ Propagated /\ level(S) = Len(assumptions) /\ constraint # {}
    /\ IF constraint \cap True(S) # {}
       THEN S' = new_trail_level(S, 0) /\ UNCHANGED <<status, core, failedConstraint>>
       ELSE IF constraint \subseteq False(S)
       THEN /\ S' = S
            /\ Answer("unsat", Decisions(S, Negated(constraint)))
            /\ failedConstraint' = TRUE
       ELSE /\ \E lit \in constraint \cap Unassigned(S) : S' = search_assume_decision(S, lit)
            /\ UNCHANGED <<status, core, failedConstraint>>
    /\ UNCHANGED <<user, pending, fresh, reductions>>

(* Scores, queue and phases choose a literal; any may be. *)
Decide(lit) ==
    /\ InLoop /\ Propagated /\ Above
    /\ lit \in Open
    /\ S' = search_assume_decision(S, lit)
    /\ UNCHANGED <<user, failedConstraint, status, core, pending, fresh, reductions>>

Satisfied ==
    /\ InLoop /\ Propagated /\ satisfied
    /\ Answer("sat", {})
    /\ UNCHANGED <<S, user, failedConstraint, pending, fresh, reductions>>

Unsatisfiable ==
    /\ status = "solving" /\ S.unsat
    /\ Answer("unsat", {})
    /\ UNCHANGED <<S, user, failedConstraint, pending, fresh, reductions>>

(* A limit or the terminator ends the call without an answer, and with it the
   assumptions and the constraint. *)
Interrupt ==
    /\ InLoop /\ Propagated /\ ~satisfied
    /\ Answer("unknown", {})
    /\ assumptions' = <<>>
    /\ constraint' = {} /\ wanted' = {} /\ failedConstraint' = FALSE
    /\ UNCHANGED <<session, S, original, solves, flips, pending, fresh, reductions>>

(* Faulty variant: the limit on the conflicts is not set anew. *)
restart_limit_kept == session.restarts /\ InLoop /\ Propagated /\ ~satisfied /\ fresh /\ fresh' = fresh

(* A restart needs a conflict after the last one. *)
restart_limit == session.restarts /\ InLoop /\ Propagated /\ ~satisfied /\ fresh /\ fresh' = FALSE

(* The levels of the assumptions stay, and those whose decision would be made
   again. *)
restart ==
    LET trivial == Len(assumptions)
                     + (IF S.control[Len(assumptions) + 1].decision = 0 THEN 1 ELSE 0)
    IN  /\ restart_limit
        /\ level(S) >= Len(assumptions) + 2
        /\ \E res \in trivial..level(S) :
               /\ \A k \in (trivial + 1)..res : S.control[k].decision # 0
               /\ S' = backtrack(S, res)
        /\ UNCHANGED <<user, failedConstraint, status, core, pending, reductions>>

Reducing == InLoop /\ Propagated /\ ~satisfied
            /\ reductions < session.reductions /\ reductions' = reductions + 1
            /\ UNCHANGED <<user, failedConstraint, status, core, pending, fresh>>

(* Rephasing and every inprocessing technique start at level zero. *)
rephase == Reducing /\ level(S) > 0 /\ S' = backtrack(S, 0)

protected(T) == {T.reason[v] : v \in Vars} \ {{}}

propagate_out_of_order_units(T) ==
    IF level(T) > 0 /\ \E i \in (T.control[1].trail + 1)..Len(T.trail) : lev(T, T.trail[i]) = 0
    THEN propagate_root(backtrack(T, 0)) ELSE T

(* Clauses satisfied at level zero become garbage, false literals go from the
   others as long as two literals are left. *)
mark_satisfied_clauses_as_garbage(T) ==
    LET Left(c) == SelectSeq(c.lits, LAMBDA l : l \notin Negated(Fixed(T)))
        Strip(c) == IF c.garbage THEN c
                    ELSE IF ToSet(c.lits) \cap Fixed(T) # {} THEN [c EXCEPT !.garbage = TRUE]
                    ELSE IF Len(Left(c)) < 2 THEN c ELSE [c EXCEPT !.lits = Left(c)]
        Stripped(r) == IF r = {} THEN r ELSE ToSet(Strip(Holding(T, r)).lits)
    IN  [T EXCEPT !.clauses = {Strip(c) : c \in @},
                  !.reason = [v \in Vars |-> Stripped(@[v])]]

(* Faulty variant: clauses are deleted although a literal needs them. *)
reduce_unprotected ==
    LET T == mark_satisfied_clauses_as_garbage(propagate_out_of_order_units(S))
    IN  /\ Reducing
        /\ \E c \in T.clauses : c.red
        /\ \E useless \in SUBSET {c \in T.clauses : c.red /\ ~c.garbage} :
               S' = [T EXCEPT !.clauses = {c \in @ \ useless : ~c.garbage}]

(* Any of the redundant clauses that are no reason may be the useless ones;
   garbage collection deletes all garbage that is no reason. *)
reduce ==
    LET T == mark_satisfied_clauses_as_garbage(propagate_out_of_order_units(S))
        Protected(c) == ToSet(c.lits) \in protected(T)
    IN  /\ Reducing
        /\ \E c \in S.clauses : c.red
        /\ \E useless \in SUBSET {c \in T.clauses : c.red /\ ~c.garbage /\ ~Protected(c)} :
               S' = IF T.unsat THEN T
                    ELSE [T EXCEPT !.clauses = {c \in @ \ useless : c.garbage => Protected(c)}]

Propagate == PropagateNext \/ \E c \in pending : PropagateWatch(c)
Step ==
    \/ Propagate \/ AnalyzeForced
    \/ DecideAssumption \/ DecideConstraint \/ \E lit \in Lits : Decide(lit)
    \/ Satisfied \/ Unsatisfiable

Next ==
    \/ \E lits \in session.addable : add(lits)
    \/ \E lit \in session.assumable : assume(lit)
    \/ \E lits \in session.constraints : constrain(lits)
    \/ \E v \in session.flippable : flip(v)
    \/ solve
    \/ Step \/ Analyze \/ restart \/ rephase \/ reduce \/ Interrupt

Spec == Init /\ [][Next]_vars

(* The thread that calls solve runs until it has an answer. *)
FairSpec ==
    /\ Spec
    /\ WF_vars(Step)
    /\ []<>~AnalysisDue \/ []<><<Analyze>>_vars    \* WF_vars(Analyze)

-----------------------------------------------------------------------------
(* Every clause over the literals, flags and records the code keeps. *)
TypeOK ==
    /\ \A c \in S.clauses : c.lits \in Seq(Lits) /\ Len(c.lits) >= 2 /\ IsClause(ToSet(c.lits))
    /\ S.trail \in Seq(Lits) /\ Cardinality({vidx(l) : l \in True(S)}) = Len(S.trail)
    /\ S.propagated \in 0..Len(S.trail)
    /\ \A v \in Vars : S.level[v] \in 0..level(S) /\ S.reason[v] \subseteq Lits
    /\ status \in {"input", "solving", "sat", "unsat", "unknown"}
    /\ pending \subseteq S.clauses

(* search_assign and backtrack: the reason of a literal is a clause of the
   database in which every other literal was falsified before it, on the
   level of the literal at the latest; below a flipped literal this holds
   again. *)
ReasonsJustify ==
    S.tainted = 0 =>
      \A i \in 1..Len(S.trail) :
        LET l == S.trail[i]
            r == S.reason[vidx(l)]
        IN  r # {} => /\ \E c \in S.clauses : ToSet(c.lits) = r
                      /\ l \in r
                      /\ \A o \in r \ {l} : -o \in True(S) /\ pos(S, o) < i /\ lev(S, o) <= lev(S, l)

(* propagate, with watches that backtracking and lazy addition leave behind:
   a clause all of whose literals are false is the conflict, or one of its
   watches is still to be visited. *)
FalsifiedNoticed ==
    S.conflict = <<>> =>
      \A c \in S.clauses :
        (~c.garbage /\ ToSet(c.lits) \subseteq False(S)) =>
          c \in pending \/ \E l \in Watched(c) : pos(S, l) > S.propagated

(* backtrack: literals that stay assigned on a lower level are propagated
   again, so that after complete propagation no clause has one literal left
   that is unassigned.  A clause added while the trail is kept may miss this:
   satisfied when it is added, unit after the next backtracking. *)
UnitsNoticed ==
    (InLoop /\ Propagated /\ original = {ToSet(c) : c \in session.formula}) =>
      \A c \in S.clauses :
        ~c.garbage => Cardinality(ToSet(c.lits) \ False(S)) # 1 \/ ToSet(c.lits) \cap True(S) # {}

(* analyze, minimize, shrink and on-the-fly strengthening: what is learned
   follows from the clauses of the user, and so does every fixed literal. *)
LearnedImplied ==
  pending = {} =>
    /\ Entails(original, {ToSet(c.lits) : c \in S.clauses} \cup {{l} : l \in Fixed(S)})
    /\ S.unsat => Models(original) = {}

(* Only redundant clauses are forgotten: the irredundant ones and the fixed
   literals are still the formula of the user. *)
FormulaKept ==
    pending = {} /\ ~S.unsat => Entails({ToSet(c.lits) : c \in {d \in S.clauses : ~d.red /\ ~d.garbage}}
                           \cup {{l} : l \in Fixed(S)}, original)

(* satisfied: the answer 10 comes with a model of the clauses, the assumptions
   and the constraint of this call, and flips keep it one. *)
ModelCorrect ==
    status = "sat" => /\ Satisfies(True(S), original)
                      /\ flips = 0 => ToSet(assumptions) \subseteq True(S)
                      /\ (flips = 0 /\ wanted # {}) => wanted \cap True(S) # {}

(* failing: the answer 20 is right, and the failed assumptions alone refute the
   formula together with the constraint, if it failed. *)
CoreCorrect ==
    status = "unsat" =>
      /\ core \subseteq ToSet(assumptions)
      /\ Models(original \cup {{l} : l \in core}
                   \cup (IF failedConstraint THEN {wanted} ELSE {})) = {}

(* remove_falsified_literals leaves the watch lists alone, so no watched
   literal of a clause it strips may be fixed false: FW1 in flush_watches. *)
FixedWatches ==
    (InLoop /\ Propagated /\ propagate_out_of_order_units(S) = S) =>
      \A c \in S.clauses :
        (~c.garbage /\ ToSet(c.lits) \cap Fixed(S) = {}) => Watched(c) \cap Negated(Fixed(S)) = {}

(* Every call of solve comes to an answer. *)
Terminates == status = "solving" ~> status # "solving"

(* The parts that only hold together: learning is right as long as the irredundant
   clauses are the formula, propagation is complete only with right watches,
   and each answer of solve is justified. *)
ClausesRight == LearnedImplied /\ FormulaKept
PropagationComplete == UnitsNoticed /\ FalsifiedNoticed /\ FixedWatches
AnswersRight == ModelCorrect /\ CoreCorrect
=============================================================================
