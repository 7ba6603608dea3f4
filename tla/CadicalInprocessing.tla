------------------------ MODULE CadicalInprocessing -------------------------
(***************************************************************************)
(* The life of a formula in CaDiCaL: the user adds clauses, assumes and    *)
(* freezes literals and asks to solve; the search learns clauses and is    *)
(* interrupted by inprocessing, which removes variables and clauses and    *)
(* leaves witnesses for them on the extension stack; clauses whose witness *)
(* was touched by the user are restored at the next call of solve.         *)
(*                                                                         *)
(* The search is abstracted to what it does to the formula.  A technique   *)
(* works at decision level zero; it can stop after any of its steps, since *)
(* all of them have limits on the effort spent.                            *)
(***************************************************************************)
EXTENDS CadicalElim, CadicalBlock, CadicalSubsume

CONSTANT
    Sessions   \* pairs of a set of formulas and of what happens to them, see session

(* What is given to the solver is made of its literals, and conflict analysis
   derives clauses without opposite ones. *)
ASSUME SessionsAssumption ==
    \A s \in Sessions : /\ s[1] \subseteq SUBSET SUBSET Lits
                        /\ s[2].addable \subseteq SUBSET Lits
                        /\ s[2].assumable \subseteq Lits
                        /\ s[2].freezable \subseteq Vars /\ s[2].frozen \subseteq Vars
                        /\ \A c \in s[2].learnable : IsClause(c)

VARIABLES
    session,      \* addable, assumable, freezable: clauses, literals and variables the
                  \* user may add, assume and freeze; frozen: variables frozen at first;
                  \* learnable: clauses the search may learn when they are implied;
                  \* enabled: the techniques whose option is set; solves, phases, rounds:
                  \* bounds on the calls of solve, the inprocessing phases of a call and
                  \* the rounds of elimination (opts.elimrounds)
    original,     \* ghost: the clauses the user has added
    db,           \* the clause database
    status,       \* flags of the variables
    frozentab,    \* variables frozen by the user
    assumptions,  \* literals assumed for the next or current call
    extension,    \* the extension stack
    tainted,      \* literals used since the last restore
    todo,         \* techniques of the current phase still to run, in order
    solving,      \* TRUE inside of solve
    solves,       \* calls of solve so far
    phases,       \* inprocessing phases so far
    rounds        \* rounds of elimination in the current phase

vars == <<session, original, db, status, frozentab, assumptions, extension, tainted, todo,
          solving, solves, phases, rounds>>

active == {v \in Vars : status[v] = "active"}
ActiveLits == {l \in Lits : vidx(l) \in active}
Gone == {v \in Vars : status[v] \in {"eliminated", "substituted", "pure"}}
frozen == frozentab \cup {vidx(l) : l \in assumptions}
At(technique) == solving /\ todo # <<>> /\ Head(todo) = technique /\ ~db.unsat

(* The flags after a step with database F that removed the variables out. *)
Marked(st, F, out, why) ==
    [v \in Vars |-> IF v \in out THEN why
                    ELSE IF {v, -v} \cap F.units # {} THEN "fixed" ELSE st[v]]

(* Faulty variant: no literal is tainted. *)
internalize_untainted(L) == tainted

(* The flags and the tainted literals after the literals L were used. *)
Reactivated(st, L) ==
    [v \in Vars |-> IF {v, -v} \cap L # {} /\ st[v] # "fixed" THEN "active" ELSE st[v]]
internalize(L) == tainted \cup (L \cap Negated(WitnessLiterals(extension)))

Simplify(F, pushed, out, why) ==
    /\ db' = F
    /\ extension' = extension \o pushed
    /\ status' = Marked(status, F, out, why)

Rewrite(F) == Simplify(F, <<>>, {}, "")
UserUnchanged == UNCHANGED <<session, original, frozentab, assumptions, tainted, solving, solves>>
PhaseUnchanged == UNCHANGED <<todo, phases, rounds>>

-----------------------------------------------------------------------------
(* The interface, while solve is not running. *)

Init ==
    /\ \E s \in Sessions : original \in s[1] /\ session = s[2]
    /\ LET F == Folded(add_new_original_clause, EmptyDb, Listed(original))
       IN  /\ db = F
           /\ status = Marked([v \in Vars |-> IF \E c \in original : {v, -v} \cap c # {}
                                              THEN "active" ELSE "unused"], F, {}, "")
    /\ frozentab = session.frozen /\ assumptions = {} /\ extension = <<>> /\ tainted = {}
    /\ todo = <<>> /\ solving = FALSE /\ solves = 0 /\ phases = 0 /\ rounds = 0

add(c) ==
    /\ ~solving /\ solves \in 1..(session.solves - 1) /\ c \notin original
    /\ original' = original \cup {c}
    /\ db' = add_new_original_clause(db, c)
    /\ tainted' = internalize(c)
    /\ status' = Marked(Reactivated(status, c), db', {}, "")
    /\ PhaseUnchanged /\ UNCHANGED <<session, frozentab, assumptions, extension, solving, solves>>

assume(l) ==
    /\ ~solving /\ solves < session.solves /\ {l, -l} \cap assumptions = {}
    /\ assumptions' = assumptions \cup {l}
    /\ tainted' = internalize({l})
    /\ status' = Reactivated(status, {l})
    /\ PhaseUnchanged /\ UNCHANGED <<session, original, db, frozentab, extension, solving, solves>>

freeze(v) ==
    /\ ~solving /\ solves < session.solves /\ v \notin frozentab
    /\ frozentab' = frozentab \cup {v}
    /\ tainted' = internalize({v})
    /\ status' = Reactivated(status, {v})
    /\ PhaseUnchanged /\ UNCHANGED <<session, original, db, assumptions, extension, solving, solves>>

melt(v) ==
    /\ ~solving /\ solves < session.solves /\ v \in frozentab
    /\ frozentab' = frozentab \ {v}
    /\ tainted' = internalize({v})
    /\ status' = Reactivated(status, {v})
    /\ PhaseUnchanged /\ UNCHANGED <<session, original, db, assumptions, extension, solving, solves>>

(* solve propagates, and restores the clauses whose witness is tainted. *)
solve ==
    /\ ~solving /\ solves < session.solves
    /\ \E p \in {propagate(db)} : \E r \in {restore_clauses(p, extension, tainted, FALSE)} :
       LET restored == tainted # {} /\ ~p.unsat
           F == IF restored THEN propagate(r.db) ELSE p
       IN  /\ db' = F
           /\ extension' = IF restored THEN r.stack ELSE extension
           /\ tainted' = IF restored THEN {} ELSE tainted
           /\ status' = Marked(IF restored THEN Reactivated(status, r.lits) ELSE status, F, {}, "")
    /\ solving' = TRUE /\ solves' = solves + 1
    /\ phases' = 0
    /\ UNCHANGED <<session, original, frozentab, assumptions, todo, rounds>>

(* solve returns, with or without an answer; the assumptions are dropped. *)
Return ==
    /\ solving /\ (todo = <<>> \/ db.unsat)
    /\ solving' = FALSE /\ todo' = <<>>
    /\ assumptions' = {}
    /\ UNCHANGED <<session, original, db, status, frozentab, extension, tainted, solves, phases, rounds>>

-----------------------------------------------------------------------------
(* The search. *)

Searching == solving /\ todo = <<>> /\ ~db.unsat

(* Conflict analysis adds a clause that the database implies. *)
Learn(c) ==
    /\ Searching
    /\ c \notin AllClauses(db) /\ c \subseteq ActiveLits
    /\ Entails(AllClauses(db) \cup UnitClauses(db), {c})
    /\ Rewrite(propagate(new_clause(db, c, TRUE)))
    /\ UserUnchanged /\ PhaseUnchanged

(* reduce deletes redundant clauses, collect satisfied ones and false
   literals. *)
Reduce(c) ==
    /\ Searching
    /\ Rewrite([db EXCEPT !.red = @ \ {c}])
    /\ UserUnchanged /\ PhaseUnchanged

Collect ==
    /\ Searching
    /\ garbage_collection(db) # db
    /\ Rewrite(garbage_collection(db))
    /\ UserUnchanged /\ PhaseUnchanged

-----------------------------------------------------------------------------
(* Inprocessing phases: which techniques run, and in which order. *)

Run(stages) == SelectSeq(stages, LAMBDA s : s \in session.enabled)

StartPhase(stages) ==
    /\ Searching /\ phases < session.phases /\ stages # <<>>
    /\ phases' = phases + 1 /\ rounds' = 1
    /\ Rewrite(propagate(db))
    /\ todo' = IF propagate(db).unsat THEN <<>> ELSE stages
    /\ UserUnchanged

probe == StartPhase(Run(<<"decompose", "ternary", "decompose", "deduplicate", "decompose">>))
subsume == StartPhase(Run(<<"subsume", "transred">>))
elim == StartPhase(Run(<<"subsume", "transred", "elim", "instantiate", "subsume", "block", "cover">>))

(* Work at the end of a technique. *)
Leave(technique, F) ==
    IF technique \in {"ternary", "subsume", "instantiate"} THEN propagate(F)
    ELSE IF technique \in {"elim", "block"}
    THEN mark_redundant_clauses_with_eliminated_variables_as_garbage(F,
            {v \in Vars : status[v] \in {"eliminated", "pure"}})
    ELSE F

(* Work at the start of one: elimination deletes the satisfied irredundant
   clauses, block and cover propagate before they do. *)
Enter(technique, F) ==
    LET Clean(G) == [G EXCEPT !.irr = {c \in @ : ~fixedTrue(G, c)}]
    IN  IF technique = "elim" THEN Clean(F)
        ELSE IF technique \in {"block", "cover"} THEN Clean(propagate(F))
        ELSE IF technique = "instantiate" \/ technique = "" THEN propagate(F)
        ELSE F
FirstOf(stages) == IF stages = <<>> THEN "" ELSE Head(stages)

NextTechnique ==
    /\ solving /\ todo # <<>> /\ ~db.unsat
    /\ todo' = Tail(todo)
    /\ \E F \in {Leave(Head(todo), db)} : Rewrite(Enter(FirstOf(todo'), F))
    /\ UserUnchanged /\ UNCHANGED <<phases, rounds>>

(* A round of elimination that made progress is followed by another one. *)
ContinueElim ==
    /\ \/ At("block") \/ At("cover")
    /\ rounds < session.rounds
    /\ rounds' = rounds + 1
    /\ todo' = Run(<<"elim", "instantiate", "subsume", "block", "cover">>)
    /\ \E F \in {Leave(Head(todo), db)} : Rewrite(Enter(FirstOf(todo'), F))
    /\ UserUnchanged /\ UNCHANGED phases

-----------------------------------------------------------------------------
(* Steps of the techniques. *)

Decompose ==
    /\ At("decompose")
    /\ \E d \in {decompose_round(db, ActiveLits, frozen)} :
           /\ d.db # db \/ d.pushed # <<>>
           /\ Simplify(d.db, d.pushed, d.substituted, "substituted")
    /\ UserUnchanged /\ PhaseUnchanged

Ternary(pivot) ==
    /\ At("ternary")
    /\ \E cred, dred \in BOOLEAN : \E c \in Of(db, cred) : \E d \in Of(db, dred) :
          /\ pivot \in c /\ -pivot \in d
          /\ Cardinality(c) = 3 /\ Cardinality(d) = 3
          /\ ~assigned(db, c) /\ ~assigned(db, d)
          /\ hyper_ternary_resolve(db, c, pivot, d)
          /\ Rewrite(ternary_lit(db, c, cred, pivot, d, dred))
    /\ UserUnchanged /\ PhaseUnchanged

Deduplicate(idx) ==
    /\ At("deduplicate") /\ idx \in active
    /\ mark_duplicated_binary_clauses_as_garbage(db, idx) # db
    /\ Rewrite(mark_duplicated_binary_clauses_as_garbage(db, idx))
    /\ UserUnchanged /\ PhaseUnchanged

Subsume ==
    /\ At("subsume")
    /\ \E cred, dred \in BOOLEAN : \E c \in Of(db, cred) : \E d \in Of(db, dred) :
          /\ Connected(db, d, dred, c, cred)
          /\ subsume_check(d, c)
          /\ Rewrite(try_to_subsume_clause(db, d, dred, c, cred))
    /\ UserUnchanged /\ PhaseUnchanged

Transred ==
    /\ At("transred")
    /\ \E red \in BOOLEAN : \E c \in Of(db, red) :
          /\ Cardinality(c) = 2 /\ ~assigned(db, c)
          /\ \E src \in Negated(c) : LET dst == CHOOSE l \in c : l # -src IN
                \/ /\ transitive(db, c, red, src, dst)
                   /\ Rewrite(Deleted(db, c, red))
                \/ /\ failed(db, c, red, src, dst)
                   /\ Rewrite(propagate(assign_unit(db, -src)))
    /\ UserUnchanged /\ PhaseUnchanged

Eliminate(idx) ==
    /\ At("elim") /\ idx \in active \ frozen
    /\ \E e \in {try_to_eliminate_variable(db, idx)} :
           /\ e.eliminated \/ e.db # db
           /\ Simplify(e.db, e.pushed, IF e.eliminated THEN {idx} ELSE {}, "eliminated")
    /\ UserUnchanged /\ PhaseUnchanged

Instantiate(lit) ==
    /\ At("instantiate") /\ vidx(lit) \in active \ frozen
    /\ \E c \in collect_instantiation_candidates(db, lit) :
          /\ ~inst_propagate(db, lit, c)
          /\ Rewrite(instantiate_candidate(db, lit, c))
    /\ UserUnchanged /\ PhaseUnchanged

Block(lit) ==
    /\ At("block") /\ vidx(lit) \in active \ frozen
    /\ \E b \in {block_literal(db, lit)}, pure \in {occs(db, -lit) = {}} :
           /\ pure \/ b.db # db
           /\ Simplify(b.db, b.pushed, IF pure THEN {vidx(lit)} ELSE {}, "pure")
    /\ UserUnchanged /\ PhaseUnchanged

Cover(c) ==
    /\ At("cover")
    /\ \E r \in {cover_clause(db, c, frozen)} : r.db # db /\ Simplify(r.db, r.pushed, {}, "")
    /\ UserUnchanged /\ PhaseUnchanged

(* Conditioning runs during search, for the assignment of the trail; here a
   candidate counts as a phase. *)
Condition(alpha, c) ==
    /\ Searching /\ "condition" \in session.enabled /\ phases < session.phases
    /\ LET p == propagate(db)
           free == {l \in alpha : vidx(l) \in active \ frozen /\ {l, -l} \cap p.units = {}}
           k == condition_candidate(p, free, c)
       IN  /\ ~p.unsat /\ c \in p.irr /\ k.db # p
           /\ Simplify(k.db, k.pushed, {}, "")
    /\ phases' = phases + 1
    /\ UserUnchanged /\ UNCHANGED <<todo, rounds>>

Next ==
    \/ \E c \in session.addable : add(c)
    \/ \E l \in session.assumable : assume(l)
    \/ \E v \in session.freezable : freeze(v) \/ melt(v)
    \/ solve \/ Return
    \/ \E c \in session.learnable : Learn(c)
    \/ \E c \in db.red : Reduce(c)
    \/ Collect
    \/ probe \/ subsume \/ elim \/ NextTechnique \/ ContinueElim
    \/ Decompose \/ Subsume \/ Transred
    \/ \E l \in Lits : Ternary(l) \/ Instantiate(l) \/ Block(l)
    \/ \E v \in Vars : Deduplicate(v) \/ Eliminate(v)
    \/ \E c \in db.irr : Cover(c)
    \/ \E alpha \in Assignments : \E c \in db.irr : Condition(alpha, c)

Spec == Init /\ [][Next]_vars

-----------------------------------------------------------------------------
(* The state: clauses have two or more literals, the flags are consistent
   with the trail and the literals on the stack have a witness among the
   literals of their clause. *)
TypeOK ==
    /\ \A c \in AllClauses(db) : IsClause(c) /\ Cardinality(c) >= 2
    /\ db.units \subseteq Lits /\ db.unsat \in BOOLEAN
    /\ \A v \in Vars : status[v] \in {"unused", "active", "fixed", "eliminated", "substituted", "pure"}
    /\ \A e \in ToSet(extension) : IsClause(e.clause) /\ e.witness \cap e.clause # {}

(* Extending a model of the clauses that are left by the stack gives a model
   of everything the user has added, whatever the values of the variables that
   are not in the formula any more (external->extend is what Solver::val
   reads). *)
Reconstructs ==
    solving /\ ~db.unsat =>
        \A A \in Models(db.irr \cup UnitClauses(db)) : Satisfies(extend(extension, A), original)

(* The extension does not undo an assumption of the call. *)
AssumptionsKept ==
    solving /\ ~db.unsat =>
        \A A \in Models(db.irr \cup UnitClauses(db)) :
            assumptions \subseteq A => assumptions \subseteq extend(extension, A)

(* The formula follows from what the user has added, so that an empty clause
   means that the user's formula has no model; the clauses on the stack follow
   as well, and may be restored at any time. *)
OriginalImplies ==
    /\ Entails(original, AllClauses(db) \cup UnitClauses(db) \cup StackClauses(extension))
    /\ db.unsat => Models(original) = {}

(* Outside of a phase no clause and no fixed literal mentions a variable that
   has left the formula: a decision on it would be lost, a clause with it
   never satisfied. *)
GoneVariablesLeft ==
    Searching => /\ \A c \in AllClauses(db) : \A l \in c : vidx(l) \notin Gone
                 /\ \A l \in db.units : vidx(l) \notin Gone

(* A variable the user has frozen or assumed stays in the formula. *)
FrozenStay == frozen \cap Gone = {}

(* What happens to variables: one that is gone is in no clause, one that is
   frozen or assumed is not gone, and reconstruction leaves assumptions alone. *)
VariablesRight == GoneVariablesLeft /\ FrozenStay /\ AssumptionsKept
=============================================================================
