-------------------------- MODULE CadicalApi_proofs --------------------------
(***************************************************************************)
(* The interface of CaDiCaL answers for the clauses, the assumptions and   *)
(* the constraint of its user, whatever was eliminated and restored in     *)
(* between; and the wrapper of the search hands over the right clauses.    *)
(*                                                                         *)
(* The invariant says what the stack is for: the user's formula means what *)
(* the database and the clauses of the stack mean together, and an entry   *)
(* whose witness no tainted literal contradicts can be repaired without    *)
(* breaking anything else.                                                 *)
(***************************************************************************)
EXTENDS SatSolver_cadical, CadicalTheorems

-----------------------------------------------------------------------------
(***************************************************************************)
(* The invariant of the interface.                                         *)
(***************************************************************************)
ApiType ==
  /\ session \in Sessions
  /\ state \in VALID \cup {"SOLVING", "DELETING"}
  /\ adding_clause \in BOOLEAN /\ adding_constraint \in BOOLEAN
  /\ original \in SUBSET Lits /\ given \in SUBSET Lits
  /\ formula \in SUBSET Clauses
  /\ assumptions \in SUBSET Lits /\ constraint \in SUBSET Lits /\ closed \in BOOLEAN
  /\ db \in Dbs /\ stack \in Seq(Entries) /\ tainted \in SUBSET Lits
  /\ extended \in BOOLEAN
  /\ result \in {NoResult, 0, 10, 20}

\* What the states of the interface mean for the rest.
Protocol ==
  /\ original = given
  /\ given # {} => adding_clause
  /\ ~(adding_clause /\ adding_constraint)
  /\ adding_clause \/ adding_constraint => state \in {"ADDING", "DELETING"}
  /\ closed => constraint # {}
  /\ result # NoResult => state = "SOLVING"
  /\ state = "SOLVING" => ~extended
  /\ state \in {"SOLVING", "SATISFIED"} => tainted = {}

\* The literals whose variables an answer must not lose.
InUse == original \cup assumptions \cup constraint

\* What the stack is for.
Reconstructible ==
  /\ db.red = {}
  /\ Models(formula) = Left(DbModels(db), stack, 0)
  /\ Repairable(DbModels(db), stack, tainted)
  /\ \A l \in InUse : -l \in WitnessLiterals(stack) => l \in tainted

\* The answers of the internal solver, before and after they are returned.
Answers ==
  /\ result = 10 => vals \in Models(Asked(assumptions))
  /\ result = 20 => core \subseteq assumptions /\ Models(Asked(core)) = {}
  /\ state = "SATISFIED" => /\ vals \in DbModels(db)
                            /\ extended => evals = extend(stack, vals)

ApiInv == ApiType /\ Protocol /\ Reconstructible /\ Answers

-----------------------------------------------------------------------------
(***************************************************************************)
(* The invariant of the wrapper.                                           *)
(***************************************************************************)
\* A call that hands over a clause ends with a zero, and has no other.
Handing(t) ==
  /\ t \in Seq(Lits \cup {0})
  /\ t # <<>> => t[Len(t)] = 0
  /\ \A i \in 1..Len(t) : t[i] = 0 => i = Len(t)

WrappedInv ==
  /\ assumptions = {} /\ constraint = {} /\ ~closed /\ ~adding_constraint
  /\ ~termination_forced /\ ~limited /\ result # 0
  /\ Handing(todo)
  /\ todo = <<>> => intended = formula
  /\ todo # <<>> => intended = formula \cup {given \cup (ToSet(todo) \ {0})}
  /\ state = "SOLVING" => todo = <<>> /\ reply = "none"
  /\ reply = "yes" => state = "SATISFIED" /\ todo = <<>>
  /\ reply = "no" => Models(intended) = {} /\ todo = <<>>

WrapperInv == IF session.wrapped THEN WrappedInv ELSE reply = "none"

-----------------------------------------------------------------------------
(***************************************************************************)
(* Facts the actions share.                                                *)
(***************************************************************************)
\* What a session allows are literals and clauses.
LEMMA InSession ==
  ASSUME ApiType
  PROVE  /\ \A c \in session.addable : c \in SUBSET Lits
         /\ \A c \in session.constraints : c \in SUBSET Lits /\ c # {}
         /\ \A l \in session.assumable \cup session.flippable : l \in Lits
PROOF
  <1>1. /\ session.addable \subseteq SUBSET Lits
        /\ session.constraints \subseteq (SUBSET Lits) \ {{}}
        /\ session.assumable \subseteq Lits /\ session.flippable \subseteq Lits
    BY SessionAssumption DEF ApiType
  <1>2. ASSUME NEW c \in session.constraints PROVE c \in SUBSET Lits /\ c # {}
    <2>1. c \in (SUBSET Lits) \ {{}}
      BY <1>1
    <2>. QED
      BY ONLY <2>1
  <1>. QED
    BY <1>1, <1>2

\* What is left of the question once an answer is left.
LEMMA Steady ==
  ASSUME ApiType, Protocol
  PROVE  LET T == transition_to_steady_state
         IN  /\ T = [assumptions |-> T.assumptions, constraint |-> T.constraint, closed |-> T.closed]
             /\ T.assumptions \in SUBSET assumptions /\ T.constraint \in SUBSET constraint
             /\ T.closed \in BOOLEAN /\ (T.closed => T.constraint # {})
             /\ ~Answered => /\ T.assumptions = assumptions /\ T.constraint = constraint
                             /\ T.closed = closed
BY DEF transition_to_steady_state, ApiType, Protocol

\* The models of a formula with some literals and perhaps a constraint.
LEMMA QuestionModel ==
  ASSUME NEW C, NEW S \in SUBSET Lits, NEW K, NEW A
  PROVE  A \in Models(C \cup {{l} : l \in S} \cup K)
           <=> A \in Models(C) /\ S \subseteq A /\ Satisfies(A, K)
PROOF
  <1> DEFINE U == {{l} : l \in S}
  <1>1. Satisfies(A, U) <=> S \subseteq A
    <2>1. \A l \in S : {l} \cap A # {} <=> l \in A
      OBVIOUS
    <2>2. Satisfies(A, U) <=> \A l \in S : {l} \cap A # {}
      BY DEF Satisfies
    <2>. QED
      BY <2>1, <2>2
  <1> HIDE DEF U
  <1>2. Satisfies(A, C \cup U \cup K) <=> Satisfies(A, C) /\ Satisfies(A, U) /\ Satisfies(A, K)
    BY DEF Satisfies
  <1>3. A \in Models(C \cup U \cup K) <=> A \in Assignments /\ Satisfies(A, C \cup U \cup K)
    BY DEF Models
  <1>4. A \in Models(C) <=> A \in Assignments /\ Satisfies(A, C)
    BY DEF Models
  <1>. QED
    BY <1>1, <1>2, <1>3, <1>4 DEF U

\* What the internal solver is asked.
LEMMA AskedModel ==
  ASSUME NEW S \in SUBSET Lits, NEW A
  PROVE  A \in Models(Asked(S)) <=> /\ A \in DbModels(db) /\ S \subseteq A
                                    /\ closed => constraint \cap A # {}
PROOF
  <1> DEFINE K == IF closed THEN {constraint} ELSE {}
  <1>1. Asked(S) = Meaning(db) \cup {{l} : l \in S} \cup K
    BY DEF Asked, Meaning
  <1>2. Satisfies(A, K) <=> (closed => constraint \cap A # {})
    BY DEF Satisfies
  <1> HIDE DEF K
  <1>. QED
    BY <1>1, <1>2, QuestionModel DEF DbModels

\* A step that leaves the formula, the database and the stack alone, and
\* taints what comes into use.
LEMMA QuietStep ==
  ASSUME ApiType, Reconstructible, UNCHANGED <<formula, db, stack>>,
         tainted \subseteq tainted',
         \A l \in InUse' \ InUse : -l \in WitnessLiterals(stack) => l \in tainted'
  PROVE  Reconstructible'
PROOF
  <1>1. Negated(tainted) \subseteq Negated(tainted')
    BY DEF Negated
  <1>2. Repairable(DbModels(db), stack, tainted')
    BY <1>1 DEF Reconstructible, Repairable
  <1>3. \A l \in InUse' : -l \in WitnessLiterals(stack) => l \in tainted'
    BY DEF Reconstructible
  <1>. QED
    BY <1>2, <1>3 DEF Reconstructible

\* The same without new literals in use.
LEMMA SameUse ==
  ASSUME ApiType, Reconstructible, UNCHANGED <<formula, db, stack, tainted>>, InUse' \subseteq InUse
  PROVE  Reconstructible'
BY QuietStep

\* The same for a literal that is internalized.
LEMMA NewUse ==
  ASSUME ApiType, Reconstructible, UNCHANGED <<formula, db, stack>>,
         NEW lit \in Lits, internalize(lit), InUse' \subseteq InUse \cup {lit}
  PROVE  Reconstructible' /\ tainted' \in SUBSET Lits
PROOF
  <1>1. tainted \subseteq tainted' /\ tainted' \in SUBSET Lits
    BY DEF internalize, ApiType
  <1>2. -lit \in WitnessLiterals(stack) => lit \in tainted'
    BY DEF internalize
  <1>. QED
    BY <1>1, <1>2, QuietStep

-----------------------------------------------------------------------------
(***************************************************************************)
(* The steps keep the invariant.                                           *)
(***************************************************************************)
\* A step to a state without an answer.
LEMMA Unanswered ==
  ASSUME Protocol, state' \notin {"SOLVING", "SATISFIED"}, UNCHANGED result,
         state # "SOLVING"
  PROVE  Answers' /\ result' = NoResult
BY DEF Protocol, Answers, NoResult

LEMMA AddKeeps ==
  ASSUME ApiInv, NEW lit \in Lits, add(lit)
  PROVE  ApiInv'
PROOF
  <1> USE DEF ApiInv
  <1>0. /\ state \in VALID /\ ~adding_constraint /\ Retain(transition_to_steady_state)
        /\ original' = original \cup {lit} /\ given' = given \cup {lit}
        /\ internalize(lit) /\ adding_clause' = TRUE /\ state' = "ADDING"
        /\ extended' = FALSE
        /\ UNCHANGED <<session, adding_constraint, formula, db, stack, vals, evals, result>>
    BY DEF add, reset_extended, Untouched
  <1>1. /\ assumptions' \in SUBSET assumptions /\ constraint' \in SUBSET constraint
        /\ closed' \in BOOLEAN /\ (closed' => constraint' # {})
    BY <1>0, Steady DEF Retain
  <1>2. Reconstructible' /\ tainted' \in SUBSET Lits
    <2>1. InUse' \subseteq InUse \cup {lit}
      BY <1>0, <1>1 DEF InUse
    <2>. QED
      BY <1>0, <2>1, NewUse
  <1>3. ApiType'
    BY <1>0, <1>1, <1>2 DEF ApiType, VALID
  <1>4. Protocol'
    BY <1>0, <1>1 DEF Protocol, VALID, READY
  <1>5. Answers'
    BY <1>0, Unanswered DEF VALID, READY
  <1>. QED
    BY <1>2, <1>3, <1>4, <1>5

LEMMA ConstrainKeeps ==
  ASSUME ApiInv, NEW lit \in Lits, constrain(lit)
  PROVE  ApiInv'
PROOF
  <1> USE DEF ApiInv
  <1>0. /\ state \in VALID /\ ~adding_clause
        /\ assumptions' = transition_to_steady_state.assumptions
        /\ constraint' = (IF transition_to_steady_state.closed THEN {}
                          ELSE transition_to_steady_state.constraint) \cup {lit}
        /\ closed' = FALSE
        /\ internalize(lit) /\ adding_constraint' = TRUE /\ state' = "ADDING"
        /\ extended' = FALSE
        /\ UNCHANGED <<session, adding_clause, original, given, formula, db, stack, vals, evals, result>>
    BY DEF constrain, reset_extended, Untouched
  <1>1. assumptions' \in SUBSET assumptions /\ constraint' \in SUBSET (constraint \cup {lit})
    BY <1>0, Steady
  <1>2. Reconstructible' /\ tainted' \in SUBSET Lits
    <2>1. InUse' \subseteq InUse \cup {lit}
      BY <1>0, <1>1 DEF InUse
    <2>. QED
      BY <1>0, <2>1, NewUse
  <1>3. ApiType'
    BY <1>0, <1>1, <1>2 DEF ApiType, VALID
  <1>4. Protocol'
    BY <1>0, <1>1 DEF Protocol, VALID, READY
  <1>5. Answers'
    BY <1>0, Unanswered DEF VALID, READY
  <1>. QED
    BY <1>2, <1>3, <1>4, <1>5

LEMMA ConstrainZeroKeeps ==
  ASSUME ApiInv, constrain_zero
  PROVE  ApiInv'
PROOF
  <1> USE DEF ApiInv
  <1>0. /\ state \in VALID /\ adding_constraint /\ constraint \in session.constraints
        /\ Retain([transition_to_steady_state EXCEPT !.closed = TRUE])
        /\ adding_constraint' = FALSE /\ state' = "STEADY" /\ extended' = FALSE
        /\ UNCHANGED <<session, adding_clause, original, given, formula, db, stack, tainted, vals, evals, result>>
    BY DEF constrain_zero, reset_extended, Untouched
  <1>1. state = "ADDING" /\ ~Answered /\ constraint # {}
    BY <1>0, InSession DEF Protocol, VALID, READY, Answered
  <1>2. assumptions' = assumptions /\ constraint' = constraint /\ closed' = TRUE
    BY <1>0, <1>1 DEF Retain, transition_to_steady_state
  <1>3. Reconstructible'
    <2>1. InUse' \subseteq InUse
      BY <1>0, <1>2 DEF InUse
    <2>. QED
      BY <1>0, <2>1, SameUse
  <1>4. ApiType'
    BY <1>0, <1>2 DEF ApiType, VALID, READY
  <1>5. Protocol'
    BY <1>0, <1>1, <1>2 DEF Protocol, VALID, READY
  <1>6. Answers'
    BY <1>0, <1>1, Unanswered
  <1>. QED
    BY <1>3, <1>4, <1>5, <1>6


\* The database gets the clause, and keeps what the stack needs.
LEMMA AddZeroKeeps ==
  ASSUME ApiInv, add_zero
  PROVE  ApiInv'
PROOF
  <1> USE DEF ApiInv
  <1>0. /\ state \in VALID /\ ~adding_constraint /\ given \in session.addable
        /\ Retain(transition_to_steady_state)
        /\ db' = add_new_original_clause(db, original) /\ formula' = formula \cup {given}
        /\ original' = {} /\ given' = {} /\ adding_clause' = FALSE /\ state' = "STEADY"
        /\ extended' = FALSE
        /\ UNCHANGED <<session, adding_constraint, stack, tainted, vals, evals, result>>
    BY DEF add_zero, reset_extended, Untouched
  <1>1. /\ assumptions' \in SUBSET assumptions /\ constraint' \in SUBSET constraint
        /\ closed' \in BOOLEAN /\ (closed' => constraint' # {})
    BY <1>0, Steady DEF Retain
  <1>2. /\ original \in SUBSET Lits /\ given = original /\ db \in Dbs /\ stack \in Seq(Entries)
        /\ tainted \in SUBSET Lits
    BY DEF ApiType, Protocol
  <1>3. /\ db' \in Dbs /\ db'.red = db.red
        /\ \A A : A \in DbModels(db') <=> A \in DbModels(db) /\ original \cap A # {}
    BY <1>0, <1>2, OriginalClauseMeans
  <1>4. Models(formula') = Left(DbModels(db'), stack, 0)
    <2>1. \A A : A \in Models(formula') <=> A \in Models(formula) /\ original \cap A # {}
      BY <1>0, <1>2 DEF Models, Satisfies
    <2>2. \A A : A \in Left(DbModels(db'), stack, 0)
                   <=> A \in Left(DbModels(db), stack, 0) /\ original \cap A # {}
      BY <1>3 DEF Left
    <2>3. Models(formula) = Left(DbModels(db), stack, 0)
      BY DEF Reconstructible
    <2>4. \A A : A \in Models(formula') <=> A \in Left(DbModels(db'), stack, 0)
      BY <2>1, <2>2, <2>3
    <2>. QED
      BY <2>4 DEF Models, Left
  <1>5. ASSUME NEW j \in Places(stack), stack[j].witness \cap Negated(tainted) = {}
        PROVE  Repairs(DbModels(db'), stack, j)
    <2>1. Repairs(DbModels(db), stack, j)
      BY <1>5 DEF Reconstructible, Repairable
    <2>2. stack[j].witness \cap Negated(original) = {}
      <3> SUFFICES ASSUME NEW w \in stack[j].witness, w \in Negated(original) PROVE FALSE
        OBVIOUS
      <3>1. w \in Lits
        BY <1>2 DEF Entries, Places
      <3>2. -w \in original /\ -(-w) = w
        BY <1>2, <3>1, Literal, NegatedMember
      <3>3. -(-w) \in WitnessLiterals(stack)
        BY <1>2, <3>2, WitnessMember DEF Places
      <3>4. -w \in tainted
        BY <3>2, <3>3 DEF Reconstructible, InUse
      <3>. QED
        BY <1>2, <1>5, <3>1, <3>4, NegatedMember
    <2>3. DbModels(db) \in SUBSET Assignments
      BY DEF DbModels, Models
    <2>4. Repairs({A \in DbModels(db) : original \cap A # {}}, stack, j)
      BY <1>2, <2>1, <2>2, <2>3, RepairsMore
    <2>5. DbModels(db') = {A \in DbModels(db) : original \cap A # {}}
      BY <1>3
    <2>. QED
      BY <2>4, <2>5
  <1>6. Reconstructible'
    <2>1. InUse' \subseteq InUse
      BY <1>0, <1>1 DEF InUse
    <2>2. \A l \in InUse' : -l \in WitnessLiterals(stack) => l \in tainted
      BY <2>1 DEF Reconstructible
    <2>3. db'.red = {}
      BY <1>3 DEF Reconstructible
    <2>4. stack' = stack /\ tainted' = tainted
      BY <1>0
    <2>. QED
      BY <1>4, <1>5, <2>2, <2>3, <2>4 DEF Reconstructible, Repairable
  <1>7. ApiType'
    <2>1. formula' \in SUBSET Clauses
      BY <1>0, <1>2 DEF ApiType, Clauses
    <2>. QED
      BY <1>0, <1>1, <1>3, <2>1 DEF ApiType, VALID, READY
  <1>8. Protocol'
    BY <1>0, <1>1 DEF Protocol, VALID, READY
  <1>9. Answers'
    BY <1>0, Unanswered DEF VALID, READY
  <1>. QED
    BY <1>6, <1>7, <1>8, <1>9

LEMMA AssumeKeeps ==
  ASSUME ApiInv, NEW lit \in session.assumable, assume(lit)
  PROVE  ApiInv'
PROOF
  <1> USE DEF ApiInv
  <1>0. /\ state \in READY
        /\ Retain([transition_to_steady_state EXCEPT !.assumptions = @ \cup {lit}])
        /\ internalize(lit) /\ state' = "STEADY" /\ extended' = FALSE
        /\ UNCHANGED <<session, adding_clause, adding_constraint, original, given, formula, db, stack,
                       vals, evals, result>>
    BY DEF assume, reset_extended, Untouched
  <1>1. lit \in Lits
    BY InSession
  <1>2. /\ assumptions' \in SUBSET (assumptions \cup {lit}) /\ constraint' \in SUBSET constraint
        /\ closed' \in BOOLEAN /\ (closed' => constraint' # {})
    BY <1>0, Steady DEF Retain
  <1>3. Reconstructible' /\ tainted' \in SUBSET Lits
    <2>1. InUse' \subseteq InUse \cup {lit}
      BY <1>0, <1>2 DEF InUse
    <2>. QED
      BY <1>0, <1>1, <2>1, NewUse
  <1>4. ApiType'
    BY <1>0, <1>1, <1>2, <1>3 DEF ApiType, VALID, READY
  <1>5. Protocol'
    BY <1>0, <1>2 DEF Protocol, VALID, READY
  <1>6. Answers'
    BY <1>0, Unanswered DEF READY
  <1>. QED
    BY <1>3, <1>4, <1>5, <1>6

\* The calls that end the assumptions, the constraint, or both.
LEMMA EndKeeps ==
  ASSUME ApiInv, reset_assumptions \/ reset_constraint \/ delete
  PROVE  ApiInv'
PROOF
  <1> USE DEF ApiInv
  <1>0. /\ state \in VALID /\ state' \in {"STEADY", "DELETING"}
        /\ state' = "STEADY" => state \in READY
        /\ assumptions' \in SUBSET assumptions /\ constraint' \in SUBSET constraint
        /\ closed' \in BOOLEAN /\ (closed' => constraint' # {})
        /\ UNCHANGED <<session, adding_clause, adding_constraint, original, given, formula, db, stack, tainted,
                       vals, extended, evals, result>>
    <2>1. CASE reset_assumptions
      BY <2>1, Steady DEF reset_assumptions, Retain, Untouched, VALID
    <2>2. CASE reset_constraint
      BY <2>2, Steady DEF reset_constraint, Retain, Untouched, VALID
    <2>3. CASE delete
      BY <2>3 DEF delete, Retain
    <2>. QED
      BY <2>1, <2>2, <2>3
  <1>1. Reconstructible'
    <2>1. InUse' \subseteq InUse
      BY <1>0 DEF InUse
    <2>. QED
      BY <1>0, <2>1, SameUse
  <1>2. ApiType'
    BY <1>0 DEF ApiType, VALID, READY
  <1>3. Protocol'
    BY <1>0 DEF Protocol, VALID, READY
  <1>4. Answers'
    BY <1>0, Unanswered DEF VALID, READY
  <1>. QED
    BY <1>1, <1>2, <1>3, <1>4

\* Limits and the terminator change nothing the invariant is about.
LEMMA LimitKeeps ==
  ASSUME ApiInv, limit \/ terminate
  PROVE  ApiInv'
PROOF
  <1>1. UNCHANGED <<session, state, adding_clause, adding_constraint, original, given, formula, assumptions,
                    constraint, closed, db, stack, tainted, vals, extended, evals, core, result>>
    BY DEF limit, terminate
  <1>. QED
    BY <1>1 DEF ApiInv, ApiType, Protocol, Reconstructible, InUse, Answers, Asked

\* A call of solve restores the clauses whose witness is touched, and then
\* every entry left repairs and none of them can change what is in use.
LEMMA StartKeeps ==
  ASSUME ApiInv, Start
  PROVE  ApiInv'
PROOF
  <1> USE DEF ApiInv
  <1> DEFINE F == propagate(db)
             r == restore_clauses(F, stack, tainted, FALSE)
  <1>0. /\ state \in READY /\ Retain(transition_to_steady_state) /\ state' = "SOLVING"
        /\ db' = propagate(r.db) /\ stack' = r.stack /\ tainted' = {}
        /\ extended' = FALSE
        /\ UNCHANGED <<session, adding_clause, adding_constraint, original, given, formula, vals, evals, result>>
    BY DEF Start, reset_extended
  <1>1. /\ assumptions' \in SUBSET assumptions /\ constraint' \in SUBSET constraint
        /\ closed' \in BOOLEAN /\ (closed' => constraint' # {})
    BY <1>0, Steady DEF Retain
  <1>2. db \in Dbs /\ stack \in Seq(Entries) /\ tainted \in SUBSET Lits
    BY DEF ApiType
  <1>3. F \in Dbs /\ F.red = {} /\ DbModels(F) = DbModels(db)
    BY <1>2, PropagateKeeps DEF Reconstructible
  <1>4. Repairable(DbModels(F), stack, tainted)
    BY <1>3 DEF Reconstructible
  <1> HIDE DEF F
  <1>a. r = restore_clauses(F, stack, tainted, FALSE)
    OBVIOUS
  <1> HIDE DEF r
  <1>5. Restored(F, stack, tainted, r)
    BY <1>a, <1>2, <1>3, <1>4, RestoreRight
  <1>6. db' \in Dbs /\ db'.red = {} /\ DbModels(db') = DbModels(r.db)
    BY <1>0, <1>3, <1>5, PropagateKeeps DEF Restored
  <1>7. ASSUME NEW l \in InUse' PROVE -l \notin WitnessLiterals(stack')
    <2> SUFFICES ASSUME -l \in WitnessLiterals(stack') PROVE FALSE
      OBVIOUS
    <2>1. l \in InUse /\ l \in Lits
      BY <1>0, <1>1 DEF InUse, ApiType
    <2>2. PICK j \in Places(r.stack) : -l \in r.stack[j].witness
      BY <1>0, <1>5, WitnessMember DEF Places, Restored
    <2>3. PICK k \in Places(stack) : r.stack[j] = stack[k]
      BY <1>5 DEF Restored
    <2>4. -l \in WitnessLiterals(stack)
      BY <1>2, <2>2, <2>3, WitnessMember DEF Places
    <2>5. l \in tainted
      BY <2>1, <2>4 DEF Reconstructible
    <2>6. -l \in Negated(tainted)
      BY <2>5 DEF Negated
    <2>. QED
      BY <1>5, <2>2, <2>6 DEF Restored
  <1>8. Reconstructible'
    <2>1. Models(formula') = Left(DbModels(db'), stack', 0)
      BY <1>0, <1>3, <1>5, <1>6 DEF Reconstructible, Restored
    <2>2. Repairable(DbModels(db'), stack', tainted')
      BY <1>0, <1>5, <1>6 DEF Repairable, Restored
    <2>. QED
      BY <1>6, <1>7, <2>1, <2>2 DEF Reconstructible
  <1>9. ApiType'
    BY <1>0, <1>1, <1>5, <1>6 DEF ApiType, Restored
  <1>10. Protocol'
    BY <1>0, <1>1 DEF Protocol, READY
  <1>11. Answers'
    <2>1. result = NoResult
      BY <1>0 DEF Protocol, READY
    <2>. QED
      BY <1>0, <2>1 DEF Answers, NoResult
  <1>. QED
    BY <1>8, <1>9, <1>10, <1>11

\* Blocked clauses go to the stack, on a literal that is not in use.
LEMMA InprocessKeeps ==
  ASSUME ApiInv, NEW lit \in Lits, Inprocess(lit)
  PROVE  ApiInv'
PROOF
  <1> USE DEF ApiInv
  <1> DEFINE b == block_literal(db, lit)
  <1>0. /\ state = "SOLVING" /\ result = NoResult
        /\ vidx(lit) \notin Used /\ {lit, -lit} \cap db.units = {}
        /\ db' = b.db /\ stack' = stack \o b.pushed
        /\ UNCHANGED <<session, state, adding_clause, adding_constraint, original, given, formula, assumptions,
                       constraint, closed, tainted, vals, extended, evals, core, result>>
    BY DEF Inprocess, Solving
  <1>1. /\ db \in Dbs /\ db.red = {} /\ stack \in Seq(Entries) /\ tainted = {}
        /\ assumptions \in SUBSET Lits /\ constraint \in SUBSET Lits
    BY <1>0 DEF ApiType, Reconstructible, Protocol
  <1>2. /\ b.db \in Dbs /\ b.db.red = {}
        /\ b.pushed \in Seq(Entries)
        /\ DbModels(db) = Left(DbModels(b.db), b.pushed, 0)
        /\ \A p \in Places(b.pushed) : /\ Repairs(DbModels(b.db), b.pushed, p)
                                       /\ b.pushed[p].witness = {lit}
    BY <1>0, <1>1, BlockingRight
  <1> HIDE DEF b
  <1>3. /\ stack' \in Seq(Entries)
        /\ Left(DbModels(db'), stack', 0) = Left(DbModels(db), stack, 0)
        /\ \A j \in Places(stack) : Repairs(DbModels(db), stack, j) => Repairs(DbModels(db'), stack', j)
        /\ \A p \in Places(b.pushed) :
             Repairs(DbModels(db'), b.pushed, p) => Repairs(DbModels(db'), stack', Len(stack) + p)
        /\ \A j \in Places(stack') :
             \/ j \in Places(stack) /\ stack'[j] = stack[j]
             \/ \E p \in Places(b.pushed) : j = Len(stack) + p /\ stack'[j] = b.pushed[p]
    <2> DEFINE M == DbModels(b.db)
               s == stack \o b.pushed
    <2>1. /\ s \in Seq(Entries)
          /\ Left(M, s, 0) = Left(Left(M, b.pushed, 0), stack, 0)
          /\ \A j \in Places(stack) : Repairs(Left(M, b.pushed, 0), stack, j) => Repairs(M, s, j)
          /\ \A p \in Places(b.pushed) : Repairs(M, b.pushed, p) => Repairs(M, s, Len(stack) + p)
          /\ \A j \in Places(s) :
               \/ j \in Places(stack) /\ s[j] = stack[j]
               \/ \E p \in Places(b.pushed) : j = Len(stack) + p /\ s[j] = b.pushed[p]
      <3> HIDE DEF M
      <3>. QED
        BY ONLY <1>1, <1>2, PushedMore
    <2>2. M = DbModels(db') /\ s = stack' /\ Left(M, b.pushed, 0) = DbModels(db)
      BY <1>0, <1>2
    <2> HIDE DEF M, s
    <2>. QED
      BY <2>1, <2>2
  <1>4. \A j \in Places(stack) : Repairs(DbModels(db), stack, j)
    BY <1>1 DEF Reconstructible, Repairable, Negated
  <1>5. ASSUME NEW j \in Places(stack') PROVE Repairs(DbModels(db'), stack', j)
    <2>1. CASE j \in Places(stack)
      BY <1>3, <1>4, <2>1
    <2>2. ASSUME NEW p \in Places(b.pushed), j = Len(stack) + p
          PROVE  Repairs(DbModels(db'), stack', j)
      BY <1>0, <1>2, <1>3, <2>2
    <2>. QED
      BY <1>3, <2>1, <2>2
  <1>6. ASSUME NEW l \in InUse' PROVE -l \notin WitnessLiterals(stack')
    <2> SUFFICES ASSUME -l \in WitnessLiterals(stack') PROVE FALSE
      OBVIOUS
    <2>1. l \in assumptions \cup constraint /\ l \in Lits /\ l \in InUse
      BY <1>0, <1>1 DEF InUse, Protocol
    <2>2. PICK j \in Places(stack') : -l \in stack'[j].witness
      BY <1>3, WitnessMember DEF Places
    <2>3. CASE j \in Places(stack) /\ stack'[j] = stack[j]
      <3>1. -l \in WitnessLiterals(stack)
        BY <1>1, <2>2, <2>3, WitnessMember DEF Places
      <3>. QED
        BY <1>1, <2>1, <3>1 DEF Reconstructible
    <2>4. ASSUME NEW p \in Places(b.pushed), stack'[j] = b.pushed[p] PROVE FALSE
      <3>1. -l = lit
        BY <1>2, <2>2, <2>4
      <3>2. vidx(l) = vidx(lit)
        BY <2>1, <3>1, Literal DEF vidx
      <3>. QED
        BY <1>0, <2>1, <3>2 DEF Used
    <2>. QED
      BY <1>3, <2>3, <2>4
  <1>7. Reconstructible'
    <2>1. Models(formula') = Left(DbModels(db'), stack', 0)
      BY <1>0, <1>3 DEF Reconstructible
    <2>. QED
      BY <1>0, <1>2, <1>5, <1>6, <2>1 DEF Reconstructible, Repairable
  <1>8. ApiType'
    BY <1>0, <1>2, <1>3 DEF ApiType
  <1>9. Protocol'
    BY <1>0 DEF Protocol
  <1>10. Answers'
    BY <1>0 DEF Answers, NoResult
  <1>. QED
    BY <1>7, <1>8, <1>9, <1>10

\* The internal solver returns.
LEMMA FoundKeeps ==
  ASSUME ApiInv, Found
  PROVE  ApiInv'
PROOF
  <1> USE DEF ApiInv
  <1>0. /\ state = "SOLVING"
        /\ UNCHANGED <<session, state, adding_clause, adding_constraint, original, given, formula, assumptions,
                       constraint, closed, db, stack, tainted, extended, evals>>
        /\ \/ vals' \in Models(Asked(assumptions)) /\ result' = 10
           \/ core' \in SUBSET assumptions /\ Models(Asked(core')) = {} /\ result' = 20
           \/ result' = 0
    BY DEF Found, Solving
  <1>1. Reconstructible'
    <2>1. InUse' = InUse
      BY <1>0 DEF InUse
    <2>. QED
      BY <1>0, <2>1, SameUse
  <1>2. ApiType'
    BY <1>0 DEF ApiType
  <1>3. Protocol'
    BY <1>0 DEF Protocol
  <1>4. Answers'
    BY <1>0 DEF Answers, Asked
  <1>. QED
    BY <1>1, <1>2, <1>3, <1>4

\* Its answer becomes the one of the interface.
LEMMA ReturnKeeps ==
  ASSUME ApiInv, Return
  PROVE  ApiInv'
PROOF
  <1> USE DEF ApiInv
  <1>0. /\ state = "SOLVING" /\ result # NoResult /\ result' = NoResult
        /\ state' = IF result = 10 THEN "SATISFIED" ELSE IF result = 20 THEN "UNSATISFIED" ELSE "STEADY"
        /\ \/ assumptions' = {} /\ constraint' = {} /\ closed' = FALSE
           \/ UNCHANGED <<assumptions, constraint, closed>>
        /\ UNCHANGED <<session, adding_clause, adding_constraint, original, given, formula, db, stack, tainted,
                       vals, extended, evals, core>>
    BY DEF Return, Retain
  <1>1. Reconstructible'
    <2>1. InUse' \subseteq InUse
      BY <1>0 DEF InUse
    <2>. QED
      BY <1>0, <2>1, SameUse
  <1>2. ApiType'
    BY <1>0 DEF ApiType, VALID, READY
  <1>3. Protocol'
    BY <1>0 DEF Protocol
  <1>4. Answers'
    <2>1. result = 10 => vals \in DbModels(db)
      BY AskedModel DEF Answers, ApiType
    <2>. QED
      BY <1>0, <2>1 DEF Answers, Protocol, NoResult
  <1>. QED
    BY <1>1, <1>2, <1>3, <1>4

\* Reading a value extends the model once.
LEMMA ValKeeps ==
  ASSUME ApiInv, val
  PROVE  ApiInv'
PROOF
  <1>1. /\ state = "SATISFIED" /\ extended' = TRUE /\ evals' = extend(stack, vals)
        /\ UNCHANGED <<session, state, adding_clause, adding_constraint, original, given, formula, assumptions,
                       constraint, closed, db, stack, tainted, vals, core, result>>
    BY DEF val
  <1>2. ApiType'
    BY <1>1 DEF ApiInv, ApiType
  <1>3. Protocol' /\ Reconstructible'
    BY <1>1 DEF ApiInv, Protocol, Reconstructible, InUse
  <1>4. Answers'
    BY <1>1 DEF ApiInv, Protocol, Answers, NoResult, Asked
  <1>. QED
    BY <1>2, <1>3, <1>4 DEF ApiInv

\* Flipping a value of an assignment gives an assignment.
LEMMA FlippedValue ==
  ASSUME NEW A \in Assignments, NEW lit \in Lits
  PROVE  (A \ {lit, -lit}) \cup ({lit, -lit} \ A) \in Assignments
PROOF
  <1> DEFINE B == (A \ {lit, -lit}) \cup ({lit, -lit} \ A)
  <1>1. A \in SUBSET Lits /\ (\A l \in Lits : l \in A <=> -l \notin A)
    BY AssignmentIff
  <1>2. -lit \in Lits /\ -(-lit) = lit
    BY Literal
  <1>3. B \in SUBSET Lits
    BY <1>1, <1>2
  <1>4. ASSUME NEW l \in Lits PROVE l \in B <=> -l \notin B
    <2>1. -l \in Lits /\ -(-l) = l
      BY Literal
    <2>2. l \in {lit, -lit} <=> -l \in {lit, -lit}
      BY <1>2, <2>1
    <2>3. l \in A <=> -l \notin A
      BY <1>1
    <2>. QED
      BY <2>2, <2>3
  <1> HIDE DEF B
  <1>5. B \in Assignments
    BY <1>3, <1>4, AssignmentIff
  <1>. QED
    BY <1>5 DEF B

\* The flipped assignment is another model of the database.
LEMMA FlipKeeps ==
  ASSUME ApiInv, NEW lit \in session.flippable, flip(lit)
  PROVE  ApiInv' /\ vals' \in DbModels(db)
PROOF
  <1> DEFINE B == (vals \ {lit, -lit}) \cup ({lit, -lit} \ vals)
  <1>1. /\ state = "SATISFIED" /\ extended' = FALSE /\ vals' = B
        /\ Satisfies(B, AllClauses(db) \cup UnitClauses(db))
        /\ UNCHANGED <<session, state, adding_clause, adding_constraint, original, given, formula, assumptions,
                       constraint, closed, db, stack, tainted, evals, core, result>>
    BY DEF flip
  <1>2. vals \in DbModels(db) /\ db \in Dbs /\ lit \in Lits
    BY <1>1, InSession DEF ApiInv, Answers, ApiType
  <1>3. vals \in Assignments /\ ~db.unsat
    BY <1>2, DbModel
  <1>4. B \in Assignments
    BY <1>2, <1>3, FlippedValue
  <1> HIDE DEF B
  <1>5. B \in DbModels(db)
    <2>1. Meaning(db) = AllClauses(db) \cup UnitClauses(db)
      BY <1>3 DEF Meaning
    <2>. QED
      BY <1>1, <1>4, <2>1 DEF DbModels, Models
  <1>6. ApiType'
    BY <1>1 DEF ApiInv, ApiType
  <1>7. Protocol' /\ Reconstructible'
    BY <1>1 DEF ApiInv, Protocol, Reconstructible, InUse
  <1>8. Answers'
    BY <1>1, <1>5 DEF ApiInv, Protocol, Answers, NoResult
  <1>. QED
    BY <1>1, <1>5, <1>6, <1>7, <1>8 DEF ApiInv

\* It holds at the start, where every assignment is a model.
LEMMA ApiInit ==
  ASSUME Init
  PROVE  ApiInv
PROOF
  <1>0. <<>> \in Seq(Entries) /\ Len(<<>>) = 0 /\ Places(<<>>) = {} /\ EmptyDb \in Dbs
    BY DEF Places, Dbs, EmptyDb
  <1>1. ApiType
    BY <1>0 DEF Init, ApiType, VALID, READY
  <1>2. Protocol
    BY DEF Init, Protocol, NoResult
  <1>3. \A A : A \in DbModels(EmptyDb) <=> A \in Assignments
    BY <1>0, DbModel DEF EmptyDb
  <1>4. Models({}) = Left(DbModels(EmptyDb), <<>>, 0)
    BY <1>0, <1>3 DEF Models, Satisfies, Left, DbModels
  <1>5. Reconstructible
    <2>1. db = EmptyDb /\ stack = <<>> /\ InUse = {} /\ formula = {}
      BY DEF Init, InUse
    <2>2. EmptyDb.red = {}
      BY DEF EmptyDb
    <2>. QED
      BY <1>0, <1>4, <2>1, <2>2 DEF Reconstructible, Repairable
  <1>6. Answers
    BY DEF Init, Answers, NoResult
  <1>. QED
    BY <1>1, <1>2, <1>5, <1>6 DEF ApiInv

\* Every step keeps the invariant.
LEMMA ApiStep ==
  ASSUME ApiInv, [Next]_vars
  PROVE  ApiInv'
PROOF
  <1>1. ASSUME NEW lit \in Lits, add(lit) \/ constrain(lit) PROVE ApiInv'
    BY <1>1, AddKeeps, ConstrainKeeps
  <1>2. CASE add_zero \/ constrain_zero
    BY <1>2, AddZeroKeeps, ConstrainZeroKeeps
  <1>3. ASSUME NEW lit \in session.assumable, assume(lit) PROVE ApiInv'
    BY <1>3, AssumeKeeps
  <1>4. CASE reset_assumptions \/ reset_constraint \/ delete
    BY <1>4, EndKeeps
  <1>5. CASE limit \/ terminate
    BY <1>5, LimitKeeps
  <1>6. CASE solve \/ simplify
    BY <1>6, StartKeeps DEF solve, simplify
  <1>7. ASSUME NEW lit \in Lits, Inprocess(lit) PROVE ApiInv'
    BY <1>7, InprocessKeeps
  <1>8. CASE Engine
    BY <1>8, FoundKeeps, ReturnKeeps DEF Engine
  <1>9. CASE val
    BY <1>9, ValKeeps
  <1>10. ASSUME NEW lit \in session.flippable, flip(lit) PROVE ApiInv'
    BY <1>10, FlipKeeps
  <1>11. CASE UNCHANGED vars
    BY <1>11 DEF vars, ApiInv, ApiType, Protocol, Reconstructible, InUse, Answers, Asked
  <1>. QED
    BY <1>1, <1>2, <1>3, <1>4, <1>5, <1>6, <1>7, <1>8, <1>9, <1>10, <1>11 DEF Next

\* The invariant of the interface.
THEOREM ApiInvariant == Spec => []ApiInv
PROOF
  <1>1. Init => ApiInv
    BY ApiInit
  <1>2. ApiInv /\ [Next]_vars => ApiInv'
    BY ApiStep
  <1>. QED
    BY <1>1, <1>2, PTL DEF Spec

-----------------------------------------------------------------------------
(***************************************************************************)
(* The interface keeps its promise.                                        *)
(***************************************************************************)
\* The model that val returns, or would return, is one of the user's formula
\* and keeps what the assignment makes true of the literals in use.
LEMMA ModelRight ==
  ASSUME ApiInv, tainted = {}, NEW A \in DbModels(db)
  PROVE  /\ extend(stack, A) \in Models(formula)
         /\ \A l \in InUse : l \in A => l \in extend(stack, A)
PROOF
  <1>1. /\ stack \in Seq(Entries) /\ db \in Dbs
        /\ assumptions \in SUBSET Lits /\ constraint \in SUBSET Lits /\ original \in SUBSET Lits
    BY DEF ApiInv, ApiType
  <1>2. DbModels(db) \in SUBSET Assignments /\ A \in SUBSET Lits
    BY AssignmentIff DEF DbModels, Models
  <1>3. \A j \in Places(stack) : Repairs(DbModels(db), stack, j)
    BY DEF ApiInv, Reconstructible, Repairable, Negated
  <1>4. extend(stack, A) \in Left(DbModels(db), stack, 0)
    BY <1>1, <1>2, <1>3, ExtendRight
  <1>5. ASSUME NEW l \in InUse, l \in A PROVE l \in extend(stack, A)
    <2>1. -l \notin WitnessLiterals(stack)
      BY DEF ApiInv, Reconstructible
    <2>2. {l} \in SUBSET A /\ \A k \in {l} : -k \notin WitnessLiterals(stack)
      BY <1>5, <2>1
    <2>3. {l} \subseteq extend(stack, A)
      BY <1>1, <1>2, <2>2, ExtendKeeps
    <2>. QED
      BY <2>3
  <1>. QED
    BY <1>4, <1>5 DEF ApiInv, Reconstructible

\* The formula has no model but those of the database.
LEMMA NoMore ==
  ASSUME ApiInv, NEW A \in Models(formula)
  PROVE  A \in DbModels(db)
BY DEF ApiInv, Reconstructible, Left

\* The promise is about the same assignments.
LEMMA SamePromise ==
  /\ Ipasir!Lits = Lits
  /\ \A C : Ipasir!Models(C) = Models(C)
BY DEF Ipasir!Lits, Ipasir!Vars, Ipasir!Models, Ipasir!Assignments, Ipasir!Satisfies,
       Lits, Vars, Models, Assignments, Satisfies

Asking == IF closed THEN constraint ELSE {}

\* What the promise asks.
LEMMA PromisedModel ==
  ASSUME ApiInv, NEW S \in SUBSET Lits, NEW A
  PROVE  A \in Models(Ipasir!Question(S)) <=> /\ A \in Models(formula) /\ S \subseteq A
                                              /\ closed => constraint \cap A # {}
PROOF
  <1> DEFINE K == IF Asking = {} THEN {} ELSE {Asking}
  <1>1. Ipasir!Question(S) = formula \cup {{l} : l \in S} \cup K
    BY DEF Ipasir!Question, Asking
  <1>2. closed => constraint # {}
    BY DEF ApiInv, Protocol
  <1>3. Satisfies(A, K) <=> (closed => constraint \cap A # {})
    BY <1>2 DEF Satisfies, Asking
  <1> HIDE DEF K
  <1>. QED
    BY <1>1, <1>3, QuestionModel

\* Leaving an answer, or having none.
LEMMA Withdrawn ==
  ASSUME state' \notin {"SATISFIED", "UNSATISFIED"}
  PROVE  Ipasir!Withdraw
BY DEF Ipasir!Withdraw, Model

\* What the promise keeps of the question is what the interface keeps.
LEMMA KeptQuestion ==
  LET T == transition_to_steady_state
  IN  /\ T = [assumptions |-> Ipasir!Left(assumptions), constraint |-> Ipasir!Left(constraint),
              closed |-> closed /\ ~Answered]
      /\ Ipasir!Left(Asking) = IF closed /\ ~Answered THEN constraint ELSE {}
      /\ ~Answered => Ipasir!Left(assumptions) = assumptions /\ Ipasir!Left(constraint) = constraint
BY DEF transition_to_steady_state, Ipasir!Left, Asking, Answered

\* What happens while the solver has no answer, and leaves the question alone.
LEMMA Unnoticed ==
  ASSUME UNCHANGED <<formula, assumptions, constraint, closed, state>>,
         state \notin {"SATISFIED", "UNSATISFIED"}
  PROVE  UNCHANGED Ipasir!vars
BY DEF Ipasir!vars, Model

\* Literals, limits and the start of solve prepare a call.
LEMMA PrepareStep ==
  ASSUME ApiInv, state \in VALID, state' \notin {"SATISFIED", "UNSATISFIED"},
         Retain(transition_to_steady_state), UNCHANGED formula
  PROVE  Ipasir!Prepare
PROOF
  <1>1. Ipasir!Withdraw
    BY Withdrawn
  <1>2. /\ assumptions' = Ipasir!Left(assumptions)
        /\ Asking' = Ipasir!Left(Asking)
    BY KeptQuestion DEF Retain, Asking, Ipasir!Left, Answered
  <1>. QED
    BY <1>1, <1>2 DEF Ipasir!Prepare, Asking

LEMMA AddClauseStep ==
  ASSUME ApiInv, add_zero
  PROVE  \E c \in SUBSET Lits : Ipasir!AddClause(c)
PROOF
  <1>1. /\ state' = "STEADY" /\ Retain(transition_to_steady_state)
        /\ formula' = formula \cup {given} /\ given \in SUBSET Lits
    BY DEF add_zero, ApiInv, ApiType
  <1>2. Ipasir!Withdraw
    BY <1>1, Withdrawn
  <1>3. /\ assumptions' = Ipasir!Left(assumptions)
        /\ Asking' = Ipasir!Left(Asking)
    BY <1>1, KeptQuestion DEF Retain, Asking, Ipasir!Left, Answered
  <1>. QED
    BY <1>1, <1>2, <1>3 DEF Ipasir!AddClause, Asking

LEMMA ConstrainStep ==
  ASSUME ApiInv, NEW lit \in Lits, constrain(lit)
  PROVE  Ipasir!ResetConstraint
PROOF
  <1>1. /\ state' = "ADDING" /\ closed' = FALSE /\ UNCHANGED formula
        /\ assumptions' = transition_to_steady_state.assumptions
    BY DEF constrain
  <1>2. Ipasir!Withdraw
    BY <1>1, Withdrawn
  <1>3. assumptions' = Ipasir!Left(assumptions)
    BY <1>1, KeptQuestion
  <1>. QED
    BY <1>1, <1>2, <1>3 DEF Ipasir!ResetConstraint

LEMMA ConstrainZeroStep ==
  ASSUME ApiInv, constrain_zero
  PROVE  \E c \in SUBSET Lits : Ipasir!Constrain(c)
PROOF
  <1>1. /\ state' = "STEADY" /\ adding_constraint /\ UNCHANGED formula /\ state \in VALID
        /\ Retain([transition_to_steady_state EXCEPT !.closed = TRUE])
    BY DEF constrain_zero
  <1>2. Ipasir!Withdraw
    BY <1>1, Withdrawn
  <1>3. ~Answered /\ constraint \in SUBSET Lits
    BY <1>1 DEF ApiInv, ApiType, Protocol, Answered
  <1>4. assumptions' = Ipasir!Left(assumptions) /\ constraint' = constraint /\ closed' = TRUE
    BY <1>1, <1>3, KeptQuestion DEF Retain
  <1>. QED
    BY <1>1, <1>2, <1>3, <1>4 DEF Ipasir!Constrain

LEMMA AssumeStep ==
  ASSUME ApiInv, NEW lit \in session.assumable, assume(lit)
  PROVE  lit \in Lits /\ Ipasir!Assume(lit)
PROOF
  <1>1. /\ state' = "STEADY" /\ UNCHANGED formula /\ state \in READY
        /\ Retain([transition_to_steady_state EXCEPT !.assumptions = @ \cup {lit}])
    BY DEF assume
  <1>2. Ipasir!Withdraw
    BY <1>1, Withdrawn
  <1>3. assumptions' = Ipasir!Left(assumptions) \cup {lit} /\ Asking' = Ipasir!Left(Asking)
    BY <1>1, KeptQuestion DEF Retain, Asking, Ipasir!Left, Answered
  <1>4. lit \in Lits
    BY InSession DEF ApiInv
  <1>. QED
    BY <1>1, <1>2, <1>3, <1>4 DEF Ipasir!Assume, Asking

LEMMA ResetStep ==
  ASSUME ApiInv
  PROVE  /\ reset_assumptions => Ipasir!ResetAssumptions
         /\ reset_constraint => Ipasir!ResetConstraint
PROOF
  <1>1. ASSUME reset_assumptions PROVE Ipasir!ResetAssumptions
    <2>1. /\ state' = "STEADY" /\ UNCHANGED formula
          /\ Retain([transition_to_steady_state EXCEPT !.assumptions = {}])
      BY <1>1 DEF reset_assumptions
    <2>2. Ipasir!Withdraw
      BY <2>1, Withdrawn
    <2>3. assumptions' = {} /\ Asking' = Ipasir!Left(Asking)
      BY <2>1, KeptQuestion DEF Retain, Asking, Ipasir!Left, Answered
    <2>. QED
      BY <2>1, <2>2, <2>3 DEF Ipasir!ResetAssumptions, Asking
  <1>2. ASSUME reset_constraint PROVE Ipasir!ResetConstraint
    <2>1. /\ state' = "STEADY" /\ UNCHANGED formula
          /\ Retain([transition_to_steady_state EXCEPT !.constraint = {}, !.closed = FALSE])
      BY <1>2 DEF reset_constraint
    <2>2. Ipasir!Withdraw
      BY <2>1, Withdrawn
    <2>3. assumptions' = Ipasir!Left(assumptions) /\ closed' = FALSE
      BY <2>1, KeptQuestion DEF Retain
    <2>. QED
      BY <2>1, <2>2, <2>3 DEF Ipasir!ResetConstraint
  <1>. QED
    BY <1>1, <1>2

\* An answer is right for what was asked.
LEMMA AnswerStep ==
  ASSUME ApiInv, Return
  PROVE  Ipasir!AnswerSat \/ Ipasir!AnswerUnsat \/ Ipasir!GiveUp
PROOF
  <1>0. /\ state = "SOLVING" /\ result # NoResult
        /\ state' = IF result = 10 THEN "SATISFIED" ELSE IF result = 20 THEN "UNSATISFIED" ELSE "STEADY"
        /\ UNCHANGED <<formula, stack, vals, extended, core>>
        /\ ~extended /\ tainted = {} /\ assumptions \in SUBSET Lits
        /\ result \in {0, 10, 20}
    BY DEF Return, ApiInv, ApiType, Protocol
  <1>1. CASE result = 10
    <2> DEFINE B == extend(stack, vals)
    <2>1. state' = "SATISFIED" /\ UNCHANGED <<assumptions, constraint, closed>> /\ Model' = B
      BY <1>0, <1>1 DEF Return, Model
    <2>2. /\ vals \in DbModels(db) /\ assumptions \subseteq vals
          /\ closed => constraint \cap vals # {}
      BY <1>0, <1>1, AskedModel DEF ApiInv, ApiType, Answers
    <2>3. B \in Models(formula) /\ \A l \in InUse : l \in vals => l \in B
      BY <1>0, <2>2, ModelRight
    <2>4. assumptions \subseteq B /\ (closed => constraint \cap B # {})
      BY <2>2, <2>3 DEF InUse
    <2> HIDE DEF B
    <2>5. B \in Ipasir!Models(Ipasir!Question(assumptions))
      BY <1>0, <2>3, <2>4, PromisedModel, SamePromise
    <2>. QED
      BY <1>0, <2>1, <2>5 DEF Ipasir!AnswerSat
  <1>2. CASE result = 20
    <2>1. state' = "UNSATISFIED" /\ UNCHANGED <<assumptions, constraint, closed>>
      BY <1>0, <1>2 DEF Return
    <2>2. core \in SUBSET assumptions /\ core \in SUBSET Lits /\ Models(Asked(core)) = {}
      BY <1>0, <1>2 DEF ApiInv, Answers
    <2>3. Models(Ipasir!Question(core)) = {}
      <3> SUFFICES ASSUME NEW A \in Models(Ipasir!Question(core)) PROVE FALSE
        OBVIOUS
      <3>1. /\ A \in Models(formula) /\ core \subseteq A
            /\ closed => constraint \cap A # {}
        BY <2>2, PromisedModel
      <3>2. A \in DbModels(db)
        BY <3>1, NoMore
      <3>. QED
        BY <2>2, <3>1, <3>2, AskedModel DEF ApiInv, ApiType
    <2>4. Ipasir!Models(Ipasir!Question(core)) = {}
      BY <2>3, SamePromise
    <2>. QED
      BY <1>0, <2>1, <2>2, <2>4 DEF Ipasir!AnswerUnsat, Model
  <1>3. CASE result = 0
    <2>1. state' = "STEADY" /\ assumptions' = {} /\ closed' = FALSE
      BY <1>0, <1>3 DEF Return, Retain
    <2>. QED
      BY <1>0, <2>1 DEF Ipasir!GiveUp, Model
  <1>. QED
    BY <1>0, <1>1, <1>2, <1>3

\* Flipping a value answers with another model of the formula.
LEMMA FlipStep ==
  ASSUME ApiInv, NEW lit \in session.flippable, flip(lit)
  PROVE  Ipasir!Flip
PROOF
  <1>1. /\ state = "SATISFIED" /\ extended' = FALSE
        /\ UNCHANGED <<state, formula, assumptions, constraint, closed, stack>>
    BY DEF flip
  <1>2. vals' \in DbModels(db) /\ tainted = {}
    BY <1>1, FlipKeeps DEF ApiInv, Protocol
  <1>3. extend(stack, vals') \in Models(formula)
    BY <1>2, ModelRight
  <1>4. Model' = extend(stack, vals')
    BY <1>1 DEF Model
  <1>. QED
    BY <1>1, <1>3, <1>4, SamePromise DEF Ipasir!Flip

\* Every step is one the promise allows, or none.
LEMMA ImplementsStep ==
  ASSUME ApiInv, [Next]_vars
  PROVE  [Ipasir!Next]_Ipasir!vars
PROOF
  <1>1. ASSUME NEW lit \in Lits, add(lit) PROVE Ipasir!Next
    <2>1. Ipasir!Prepare
      BY <1>1, PrepareStep DEF add
    <2>. QED
      BY <2>1 DEF Ipasir!Next
  <1>2. ASSUME NEW lit \in Lits, constrain(lit) PROVE Ipasir!Next
    BY <1>2, ConstrainStep DEF Ipasir!Next
  <1>3. CASE add_zero \/ constrain_zero
    BY <1>3, AddClauseStep, ConstrainZeroStep, SamePromise DEF Ipasir!Next
  <1>4. ASSUME NEW lit \in session.assumable, assume(lit) PROVE Ipasir!Next
    BY <1>4, AssumeStep, SamePromise DEF Ipasir!Next
  <1>5. CASE reset_assumptions \/ reset_constraint
    BY <1>5, ResetStep DEF Ipasir!Next
  <1>6. CASE limit \/ terminate
    <2>1. UNCHANGED <<formula, assumptions, constraint, closed, state, stack, vals, extended, evals, core>>
      BY <1>6 DEF limit, terminate
    <2>. QED
      BY <2>1 DEF Ipasir!vars, Model
  <1>7. CASE solve \/ simplify
    <2>1. Ipasir!Prepare
      BY <1>7, PrepareStep DEF solve, simplify, Start, VALID
    <2>. QED
      BY <2>1 DEF Ipasir!Next
  <1>8. ASSUME NEW lit \in Lits, Inprocess(lit) PROVE UNCHANGED Ipasir!vars
    BY <1>8, Unnoticed DEF Inprocess, Solving
  <1>9. CASE Found
    BY <1>9, Unnoticed DEF Found, Solving
  <1>10. CASE Return
    BY <1>10, AnswerStep DEF Ipasir!Next
  <1>11. CASE val
    <2>1. /\ state = "SATISFIED" /\ ~extended /\ extended' = TRUE /\ evals' = extend(stack, vals)
          /\ UNCHANGED <<formula, assumptions, constraint, closed, state>>
      BY <1>11 DEF val
    <2>. QED
      BY <2>1 DEF Ipasir!vars, Model
  <1>12. ASSUME NEW lit \in session.flippable, flip(lit) PROVE Ipasir!Next
    BY <1>12, FlipStep DEF Ipasir!Next
  <1>13. CASE delete
    <2>1. /\ state' = "DELETING" /\ assumptions' = {} /\ closed' = FALSE /\ UNCHANGED <<formula, core>>
      BY <1>13 DEF delete, Retain
    <2>2. CASE Answered
      <3>1. Ipasir!Prepare
        BY <2>1, <2>2, Withdrawn DEF Ipasir!Prepare, Ipasir!Left, Answered
      <3>. QED
        BY <3>1 DEF Ipasir!Next
    <2>3. CASE ~Answered
      <3>1. Ipasir!GiveUp
        BY <2>1, <2>3 DEF Ipasir!GiveUp, Answered, Model
      <3>. QED
        BY <3>1 DEF Ipasir!Next
    <2>. QED
      BY <2>2, <2>3
  <1>14. CASE UNCHANGED vars
    BY <1>14 DEF vars, Ipasir!vars, Model
  <1>. QED
    BY <1>1, <1>2, <1>3, <1>4, <1>5, <1>6, <1>7, <1>8, <1>9, <1>10, <1>11, <1>12, <1>13, <1>14
       DEF Next, Engine

\* The class Solver keeps the promise of an incremental SAT solver.
THEOREM ApiImplements == Spec => Implements
PROOF
  <1>1. Init => Ipasir!Init
    BY DEF Init, Ipasir!Init, Model
  <1>2. ApiInv /\ [Next]_vars => [Ipasir!Next]_Ipasir!vars
    BY ImplementsStep
  <1>. QED
    BY <1>1, <1>2, ApiInvariant, PTL DEF Spec, Implements, Ipasir!Spec

\* Values read after flip are those of the flipped model.
THEOREM ApiValuesFresh == Spec => []ValuesFresh
PROOF
  <1>1. ApiInv => ValuesFresh
    BY DEF ApiInv, Answers, ValuesFresh
  <1>. QED
    BY <1>1, ApiInvariant, PTL

-----------------------------------------------------------------------------
(***************************************************************************)
(* The wrapper.                                                            *)
(***************************************************************************)
\* The wrapper calls the interface as its contract says.
LEMMA WrapperCalls ==
  ASSUME ApiInv, [NextSat]_allvars
  PROVE  [Next]_vars
PROOF
  <1>1. CASE NextWrapped
    <2>1. CASE PassOn
      <3>1. CASE Head(todo) = 0
        BY <2>1, <3>1 DEF PassOn, Next
      <3>2. CASE Head(todo) # 0
        <4>1. add(Head(todo))
          BY <2>1, <3>2 DEF PassOn
        <4>2. Head(todo) \in Lits
          BY <4>1, InSession DEF add, ApiInv
        <4>. QED
          BY <4>1, <4>2 DEF Next
      <3>. QED
        BY <3>1, <3>2
    <2>2. CASE solve_sat \/ ReturnSat \/ check_var_model
      BY <2>2 DEF solve_sat, ReturnSat, check_var_model, Next, Engine
    <2>3. CASE (\E lit \in Lits : Inprocess(lit)) \/ Found
      BY <2>3 DEF Next, Engine
    <2>4. ASSUME NEW c, add_clause(c) PROVE UNCHANGED vars
      BY <2>4 DEF add_clause
    <2>5. ASSUME NEW a, NEW b, add_clause_short(a, b) PROVE UNCHANGED vars
      BY <2>5 DEF add_clause_short
    <2>. QED
      BY <1>1, <2>1, <2>2, <2>3, <2>4, <2>5 DEF NextWrapped
  <1>2. CASE UNCHANGED allvars
    BY <1>2 DEF allvars
  <1>. QED
    BY <1>1, <1>2 DEF NextSat

\* What happens below the wrapper is what the interface does.
THEOREM WrapperRefines == SpecSat => Spec /\ []ApiInv
PROOF
  <1>1. InitSat => Init /\ ApiInv
    BY ApiInit DEF InitSat
  <1>2. ApiInv /\ [NextSat]_allvars => [Next]_vars
    BY WrapperCalls
  <1>3. ApiInv /\ [Next]_vars => ApiInv'
    BY ApiStep
  <1>. QED
    BY <1>1, <1>2, <1>3, PTL DEF SpecSat, Spec

\* The literals of a call that hands over a clause.
LEMMA HandingSteps ==
  ASSUME NEW t, Handing(t), t # <<>>
  PROVE  /\ Handing(Tail(t))
         /\ Head(t) \in Lits \cup {0}
         /\ ToSet(t) = {Head(t)} \cup ToSet(Tail(t))
         /\ Head(t) = 0 => Tail(t) = <<>> /\ ToSet(t) \ {0} = {}
         /\ Head(t) # 0 => Tail(t) # <<>>
PROOF
  <1> DEFINE n == Len(t)
             u == Tail(t)
  <1>1. /\ t \in Seq(Lits \cup {0}) /\ n \in Nat /\ n > 0 /\ t[n] = 0
        /\ \A i \in 1..n : t[i] = 0 => i = n
    BY DEF Handing
  <1>2. /\ u \in Seq(Lits \cup {0}) /\ Len(u) = n - 1 /\ Head(t) = t[1]
        /\ \A i \in 1..(n - 1) : u[i] = t[i + 1]
    BY <1>1
  <1> HIDE DEF n, u
  <1>3. \A i \in 1..(n - 1) : i + 1 \in 1..n
    BY <1>1
  <1>4. 1 \in 1..n /\ \A i \in 1..n : i = 1 \/ (i - 1 \in 1..(n - 1) /\ (i - 1) + 1 = i)
    BY <1>1
  <1>5. u # <<>> => u[Len(u)] = 0
    <2> SUFFICES ASSUME u # <<>> PROVE u[Len(u)] = 0
      OBVIOUS
    <2>1. n - 1 \in 1..(n - 1) /\ (n - 1) + 1 = n
      BY <1>1, <1>2
    <2>. QED
      BY <1>1, <1>2, <2>1
  <1>6. \A i \in 1..Len(u) : u[i] = 0 => i = Len(u)
    <2> SUFFICES ASSUME NEW i \in 1..(n - 1), u[i] = 0 PROVE i = n - 1
      BY <1>2
    <2>1. i + 1 = n
      BY <1>1, <1>2, <1>3
    <2>. QED
      BY <1>1, <2>1
  <1>7. ToSet(t) = {t[1]} \cup ToSet(u)
    <2>1. ToSet(t) = {t[i] : i \in 1..n} /\ ToSet(u) = {u[i] : i \in 1..(n - 1)}
      BY <1>2 DEF ToSet, n
    <2>2. ASSUME NEW i \in 1..n PROVE t[i] \in {t[1]} \cup {u[k] : k \in 1..(n - 1)}
      <3>1. CASE i = 1
        BY <3>1
      <3>2. CASE i - 1 \in 1..(n - 1) /\ (i - 1) + 1 = i
        <4>1. t[i] = u[i - 1]
          BY <1>2, <3>2
        <4>. QED
          BY <3>2, <4>1
      <3>. QED
        BY <1>4, <3>1, <3>2
    <2>3. ASSUME NEW k \in 1..(n - 1) PROVE u[k] \in {t[i] : i \in 1..n}
      BY <1>2, <1>3
    <2>. QED
      BY <1>4, <2>1, <2>2, <2>3
  <1>8. ASSUME t[1] = 0 PROVE u = <<>> /\ ToSet(t) \ {0} = {}
    <2>1. n = 1
      BY <1>1, <1>4, <1>8
    <2>2. u = <<>>
      BY <1>2, <2>1
    <2>3. ToSet(u) = {}
      BY <2>2 DEF ToSet
    <2>. QED
      BY <1>7, <1>8, <2>2, <2>3
  <1>9. ASSUME t[1] # 0 PROVE u # <<>>
    <2>1. n # 1
      BY <1>1, <1>9
    <2>. QED
      BY <1>1, <1>2, <2>1
  <1>10. t[1] \in Lits \cup {0}
    BY <1>1 DEF n
  <1>. QED
    BY <1>2, <1>5, <1>6, <1>7, <1>8, <1>9, <1>10 DEF Handing, u

\* A clause of the caller, handed over with its zero.
LEMMA LongHanded ==
  ASSUME NEW clause \in Seq(Lits)
  PROVE  /\ Handing(Append(clause, 0)) /\ Append(clause, 0) # <<>>
         /\ ToSet(Append(clause, 0)) \ {0} = ToSet(clause)
PROOF
  <1> DEFINE t == Append(clause, 0)
             m == Len(clause)
  <1>0. 0 \notin Lits /\ clause \in Seq(Lits \cup {0})
    BY Literal
  <1>1. /\ m \in Nat /\ t \in Seq(Lits \cup {0}) /\ Len(t) = m + 1 /\ t[m + 1] = 0
        /\ \A i \in 1..m : t[i] = clause[i] /\ clause[i] \in Lits
    BY <1>0
  <1> HIDE DEF t, m
  <1>2. \A i \in 1..(m + 1) : i \in 1..m \/ i = m + 1
    BY <1>1
  <1>3. \A i \in 1..m : i \in 1..(m + 1)
    BY <1>1
  <1>4. m + 1 \in 1..(m + 1) /\ t # <<>>
    BY <1>1
  <1>5. Handing(t)
    BY <1>0, <1>1, <1>2 DEF Handing
  <1>6. ToSet(t) = {t[i] : i \in 1..(m + 1)} /\ ToSet(clause) = {clause[i] : i \in 1..m}
    BY <1>1 DEF ToSet, m
  <1>7. ToSet(t) \ {0} = ToSet(clause)
    BY <1>0, <1>1, <1>2, <1>3, <1>6
  <1>. QED
    BY <1>4, <1>5, <1>7 DEF t

\* A short clause, with one literal or two.
LEMMA ShortHanded ==
  ASSUME NEW a \in Lits, NEW b \in Lits \cup {0}
  PROVE  /\ Handing(short_literals(a, b)) /\ short_literals(a, b) # <<>>
         /\ ToSet(short_literals(a, b)) \ {0} = {a, b} \ {0}
PROOF
  <1>1. 0 \notin Lits
    BY Literal
  <1>2. CASE b = 0
    <2> DEFINE t == <<a, 0>>
    <2>1. short_literals(a, b) = t
      BY <1>2 DEF short_literals
    <2>2. t \in Seq(Lits \cup {0}) /\ Len(t) = 2 /\ t[1] = a /\ t[2] = 0 /\ 1..2 = {1, 2}
      OBVIOUS
    <2> HIDE DEF t
    <2>3. ToSet(t) = {a, 0}
      BY <2>2 DEF ToSet
    <2>4. Handing(t) /\ t # <<>>
      BY <1>1, <2>2 DEF Handing
    <2>. QED
      BY <1>2, <2>1, <2>3, <2>4
  <1>3. CASE b # 0
    <2> DEFINE t == <<a, b, 0>>
    <2>1. short_literals(a, b) = t
      BY <1>3 DEF short_literals
    <2>2. /\ t \in Seq(Lits \cup {0}) /\ Len(t) = 3 /\ t[1] = a /\ t[2] = b /\ t[3] = 0
          /\ 1..3 = {1, 2, 3}
      OBVIOUS
    <2> HIDE DEF t
    <2>3. ToSet(t) = {a, b, 0}
      BY <2>2 DEF ToSet
    <2>4. t # <<>>
      BY <2>2
    <2>5. \A i \in 1..3 : t[i] = 0 => i = 3
      BY <1>1, <1>3, <2>2
    <2>6. Handing(t)
      BY <2>2, <2>5 DEF Handing
    <2>. QED
      BY <1>1, <2>1, <2>3, <2>4, <2>6
  <1>. QED
    BY <1>2, <1>3

\* A call that hands over a clause.
LEMMA CallKeeps ==
  ASSUME ApiInv, WrappedInv, session.wrapped,
         \/ \E clause \in session.long : add_clause(clause)
         \/ \E pair \in session.short : add_clause_short(pair[1], pair[2])
  PROVE  WrappedInv'
PROOF
  <1>1. /\ session.long \subseteq Seq(Lits) /\ session.short \subseteq Lits \X (Lits \cup {0})
    BY WrapperAssumption DEF ApiInv, ApiType
  <1>2. ASSUME NEW t, NEW c, Idle, todo' = t, intended' = intended \cup {c}, reply' = "none",
               UNCHANGED vars, Handing(t), t # <<>>, ToSet(t) \ {0} = c
        PROVE  WrappedInv'
    <2>1. todo = <<>> /\ state \in READY /\ given = {}
      BY <1>2 DEF Idle, READY, ApiInv, Protocol
    <2>2. intended' = formula \cup {given \cup (ToSet(t) \ {0})}
      BY <1>2, <2>1 DEF WrappedInv
    <2>3. state # "SOLVING"
      BY <2>1 DEF READY
    <2>. QED
      BY <1>2, <2>2, <2>3 DEF WrappedInv, vars
  <1>3. ASSUME NEW clause \in session.long, add_clause(clause) PROVE WrappedInv'
    <2>1. clause \in Seq(Lits)
      BY <1>1
    <2>. QED
      BY <1>2, <1>3, <2>1, LongHanded DEF add_clause
  <1>4. ASSUME NEW pair \in session.short, add_clause_short(pair[1], pair[2]) PROVE WrappedInv'
    <2>1. pair[1] \in Lits /\ pair[2] \in Lits \cup {0}
      BY <1>1
    <2> DEFINE t == short_literals(pair[1], pair[2])
    <2>2. Handing(t) /\ t # <<>> /\ ToSet(t) \ {0} = {pair[1], pair[2]} \ {0}
      BY <2>1, ShortHanded
    <2>3. /\ Idle /\ todo' = t /\ intended' = intended \cup {{pair[1], pair[2]} \ {0}}
          /\ reply' = "none" /\ UNCHANGED vars
      BY <1>4 DEF add_clause_short
    <2> HIDE DEF t
    <2>. QED
      BY <1>2, <2>2, <2>3
  <1>. QED
    BY <1>3, <1>4

\* A literal or a zero that is passed on.
LEMMA PassOnKeeps ==
  ASSUME ApiInv, WrappedInv, PassOn
  PROVE  WrappedInv'
PROOF
  <1>0. /\ todo # <<>> /\ todo' = Tail(todo) /\ UNCHANGED <<intended, reply>>
        /\ Handing(todo) /\ intended = formula \cup {given \cup (ToSet(todo) \ {0})}
        /\ reply \notin {"yes", "no"}
    BY DEF PassOn, WrappedInv
  <1>1. /\ Handing(Tail(todo))
        /\ ToSet(todo) = {Head(todo)} \cup ToSet(Tail(todo))
        /\ Head(todo) = 0 => Tail(todo) = <<>> /\ ToSet(todo) \ {0} = {}
        /\ Head(todo) # 0 => Tail(todo) # <<>>
    BY <1>0, HandingSteps
  <1>2. CASE Head(todo) = 0
    <2>1. add_zero
      BY <1>2 DEF PassOn
    <2>2. /\ state' = "STEADY" /\ formula' = formula \cup {given} /\ given' = {}
          /\ Retain(transition_to_steady_state)
          /\ UNCHANGED <<adding_constraint, termination_forced, limited, result>>
      BY <2>1 DEF add_zero, Untouched
    <2>3. assumptions' = {} /\ constraint' = {} /\ closed' = FALSE
      BY <2>2 DEF Retain, transition_to_steady_state, WrappedInv
    <2>4. intended' = formula' /\ todo' = <<>>
      BY <1>0, <1>1, <1>2, <2>2
    <2>. QED
      BY <1>0, <1>1, <2>2, <2>3, <2>4 DEF WrappedInv
  <1>3. CASE Head(todo) # 0
    <2>1. add(Head(todo))
      BY <1>3 DEF PassOn
    <2>2. /\ state' = "ADDING" /\ formula' = formula /\ given' = given \cup {Head(todo)}
          /\ Retain(transition_to_steady_state)
          /\ UNCHANGED <<adding_constraint, termination_forced, limited, result>>
      BY <2>1 DEF add, Untouched
    <2>3. assumptions' = {} /\ constraint' = {} /\ closed' = FALSE
      BY <2>2 DEF Retain, transition_to_steady_state, WrappedInv
    <2>4. intended' = formula' \cup {given' \cup (ToSet(todo') \ {0})} /\ todo' # <<>>
      BY <1>0, <1>1, <1>3, <2>2
    <2>. QED
      BY <1>0, <1>1, <2>2, <2>3, <2>4 DEF WrappedInv
  <1>. QED
    BY <1>2, <1>3

\* solve starts without assumptions.
LEMMA SolveSatKeeps ==
  ASSUME ApiInv, WrappedInv, solve_sat
  PROVE  WrappedInv'
PROOF
  <1>1. /\ todo = <<>> /\ reply' = "none" /\ UNCHANGED <<todo, intended>>
        /\ state' = "SOLVING" /\ Retain(transition_to_steady_state)
        /\ UNCHANGED <<formula, given, adding_constraint, termination_forced, limited, result>>
    BY DEF solve_sat, Idle, solve, Start
  <1>2. assumptions' = {} /\ constraint' = {} /\ closed' = FALSE
    BY <1>1 DEF Retain, transition_to_steady_state, WrappedInv
  <1>. QED
    BY <1>1, <1>2 DEF WrappedInv

\* Without a limit every call returns an answer; no means that the clauses
\* handed over have no model.
LEMMA ReturnSatKeeps ==
  ASSUME ApiInv, WrappedInv, ReturnSat
  PROVE  WrappedInv'
PROOF
  <1>1. /\ state = "SOLVING" /\ result # NoResult /\ result' = NoResult /\ limited' = FALSE
        /\ UNCHANGED <<formula, given, adding_constraint, termination_forced, todo, intended>>
        /\ reply' = IF result = 10 THEN "yes" ELSE "no"
        /\ state' = IF result = 10 THEN "SATISFIED" ELSE IF result = 20 THEN "UNSATISFIED" ELSE "STEADY"
        /\ \/ assumptions' = {} /\ constraint' = {} /\ closed' = FALSE
           \/ UNCHANGED <<assumptions, constraint, closed>>
    BY DEF ReturnSat, Return, Retain
  <1>2. todo = <<>> /\ intended = formula /\ (result = 10 \/ result = 20)
    BY <1>1 DEF WrappedInv, ApiInv, ApiType
  <1>3. assumptions' = {} /\ constraint' = {} /\ ~closed'
    BY <1>1 DEF WrappedInv
  <1>4. result = 20 => Models(intended) = {}
    <2> SUFFICES ASSUME result = 20, NEW A \in Models(formula) PROVE FALSE
      BY <1>2
    <2>1. core = {} /\ Models(Asked({})) = {} /\ ~closed
      BY DEF ApiInv, Answers, WrappedInv
    <2>2. A \in DbModels(db)
      BY NoMore
    <2>. QED
      BY <2>1, <2>2, AskedModel
  <1>. QED
    BY <1>1, <1>2, <1>3, <1>4 DEF WrappedInv, NoResult

\* Every step of the wrapper keeps its invariant.
LEMMA WrapperStep ==
  ASSUME ApiInv, WrapperInv, [NextSat]_allvars
  PROVE  WrapperInv'
PROOF
  <1>1. UNCHANGED session
    <2>1. [Next]_vars
      BY WrapperCalls
    <2>2. CASE Next
      BY <2>2 DEF Next, add, constrain, add_zero, constrain_zero, assume, reset_assumptions,
         reset_constraint, limit, solve, simplify, Start, Inprocess, Engine, Found, Return, terminate,
         val, flip, delete
    <2>3. CASE UNCHANGED vars
      BY <2>3 DEF vars
    <2>. QED
      BY <2>1, <2>2, <2>3
  <1>2. CASE session.wrapped
    <2>0. WrappedInv
      BY <1>2 DEF WrapperInv
    <2> SUFFICES WrappedInv'
      BY <1>1, <1>2 DEF WrapperInv
    <2>1. CASE \/ \E clause \in session.long : add_clause(clause)
               \/ \E pair \in session.short : add_clause_short(pair[1], pair[2])
      BY <1>2, <2>0, <2>1, CallKeeps
    <2>2. CASE PassOn
      BY <2>0, <2>2, PassOnKeeps
    <2>3. CASE solve_sat
      BY <2>0, <2>3, SolveSatKeeps
    <2>4. CASE ReturnSat
      BY <2>0, <2>4, ReturnSatKeeps
    <2>5. CASE check_var_model
      <3>1. UNCHANGED <<assumptions, constraint, closed, adding_constraint, termination_forced, limited,
                        result, todo, intended, formula, given, state, reply>>
        BY <2>5 DEF check_var_model, val, wrapper
      <3>. QED
        BY <2>0, <3>1 DEF WrappedInv
    <2>6. ASSUME NEW lit \in Lits, Inprocess(lit) /\ UNCHANGED wrapper PROVE WrappedInv'
      <3>1. UNCHANGED <<assumptions, constraint, closed, adding_constraint, termination_forced, limited,
                        result, todo, intended, formula, given, state, reply>>
        BY <2>6 DEF Inprocess, wrapper
      <3>. QED
        BY <2>0, <3>1 DEF WrappedInv
    <2>7. CASE Found /\ UNCHANGED wrapper
      <3>1. /\ UNCHANGED <<assumptions, constraint, closed, adding_constraint, limited,
                           todo, intended, formula, given, state, reply>>
            /\ termination_forced' = FALSE
            /\ result' \in {10, 20} \/ (termination_forced \/ limited)
        BY <2>7 DEF Found, wrapper
      <3>. QED
        BY <2>0, <3>1 DEF WrappedInv
    <2>8. CASE UNCHANGED allvars
      <3>1. UNCHANGED <<assumptions, constraint, closed, adding_constraint, termination_forced, limited,
                        result, todo, intended, formula, given, state, reply>>
        BY <2>8 DEF allvars, vars, wrapper
      <3>. QED
        BY <2>0, <3>1 DEF WrappedInv
    <2>. QED
      BY <1>2, <2>1, <2>2, <2>3, <2>4, <2>5, <2>6, <2>7, <2>8 DEF NextSat, NextWrapped
  <1>3. CASE ~session.wrapped
    <2>1. UNCHANGED reply
      BY <1>3 DEF NextSat, allvars, wrapper
    <2>. QED
      BY <1>1, <1>3, <2>1 DEF WrapperInv
  <1>. QED
    BY <1>2, <1>3

\* The two invariants together, for the wrapper and for a direct user.
THEOREM WrapperInvariant == SpecSat => [](ApiInv /\ WrapperInv)
PROOF
  <1>1. InitSat => ApiInv /\ WrapperInv
    <2> SUFFICES ASSUME InitSat PROVE ApiInv /\ WrapperInv
      OBVIOUS
    <2>1. ApiInv
      BY ApiInit DEF InitSat
    <2>2. Handing(<<>>)
      BY DEF Handing
    <2>. QED
      BY <2>1, <2>2 DEF InitSat, Init, WrapperInv, WrappedInv, NoResult
  <1>2. ApiInv /\ WrapperInv /\ [NextSat]_allvars => ApiInv' /\ WrapperInv'
    BY WrapperCalls, ApiStep, WrapperStep
  <1>. QED
    BY <1>1, <1>2, PTL DEF SpecSat

\* The search is told yes exactly when the clauses of all its calls have a
\* common model, and reads the values of one.
THEOREM WrapperReplyRight == SpecSat => []ReplyRight
PROOF
  <1>1. ApiInv /\ WrapperInv => ReplyRight
    <2> SUFFICES ASSUME ApiInv, WrapperInv PROVE ReplyRight
      OBVIOUS
    <2>1. CASE ~session.wrapped
      BY <2>1 DEF WrapperInv, ReplyRight
    <2>2. CASE session.wrapped
      <3>1. reply = "no" => Models(intended) = {}
        BY <2>2 DEF WrapperInv, WrappedInv
      <3>2. ASSUME reply = "yes" PROVE Satisfies(Model, intended)
        <4>1. state = "SATISFIED" /\ intended = formula
          BY <2>2, <3>2 DEF WrapperInv, WrappedInv
        <4>2. vals \in DbModels(db) /\ tainted = {} /\ Model = extend(stack, vals)
          BY <4>1 DEF ApiInv, Answers, Protocol, Model
        <4>3. extend(stack, vals) \in Models(formula)
          BY <4>2, ModelRight
        <4>. QED
          BY <4>1, <4>2, <4>3 DEF Models
      <3>. QED
        BY <3>1, <3>2 DEF ReplyRight
    <2>. QED
      BY <2>1, <2>2
  <1>. QED
    BY <1>1, WrapperInvariant, PTL

\* Under the wrapper the interface keeps its promise all the same, and the
\* values it returns are fresh.
THEOREM WrapperPromise == SpecSat => Implements /\ []ValuesFresh
BY WrapperRefines, ApiImplements, ApiValuesFresh, PTL
=============================================================================
