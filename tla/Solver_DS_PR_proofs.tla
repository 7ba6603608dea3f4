------------------------ MODULE Solver_DS_PR_proofs ------------------------
(***************************************************************************)
(* Theorems about Solver_DS_PR, for every number of arguments, every set   *)
(* of frameworks and queries, every bound on the tasks and every team of   *)
(* threads.                                                                *)
(***************************************************************************)
EXTENDS Solver_DS_PR, ArgumentationTheorems

-----------------------------------------------------------------------------
(***************************************************************************)
(* Type correctness.                                                       *)
(***************************************************************************)

\* Every clause the encoding writes is a set of integers.
LEMMA EncodingType ==
  ASSUME NEW att \in SUBSET (Args \X Args), NEW R \in SUBSET Args
  PROVE  add_clauses_nonempty_admissible_set(NumArgs, att, R) \in SUBSET SUBSET Int
PROOF
  <1> USE SolverAssumption DEF Args
  <1>1. \A a \in R : add_admissible(NumArgs, att, R, a) \in SUBSET SUBSET Int
    <2>1. ASSUME NEW a \in R, NEW c \in add_admissible(NumArgs, att, R, a)
          PROVE  c \in SUBSET Int
      <3>1. ClauseShape(NumArgs, att, R, a, c)
        BY <2>1, ArgumentClauses
      <3>2. NumArgs \in Int /\ R \subseteq Int
        OBVIOUS
      <3>3. \A b \in R : -b \in Int /\ b + NumArgs \in Int /\ -(b + NumArgs) \in Int
        BY <3>2
      <3>4. {b \in R : <<b, a>> \in att} \subseteq Int
        BY <3>2
      <3> HIDE SolverAssumption DEF Args
      <3>5. CASE c = {-(a + NumArgs), -a}
        BY <3>3, <3>5
      <3>6. CASE c = {-(a + NumArgs)} \cup {b \in R : <<b, a>> \in att}
        BY <3>3, <3>4, <3>6
      <3>7. ASSUME NEW b \in R,
                   \/ c = {a + NumArgs, -b}
                   \/ c = {-a, -b}
                   \/ c = {-a, b + NumArgs}
            PROVE  c \in SUBSET Int
        BY <3>3, <3>7
      <3>. QED
        BY <3>1, <3>5, <3>6, <3>7 DEF ClauseShape
    <2>. QED
      BY <2>1
  <1>2. non_empty_clause(R) \in SUBSET Int
    BY DEF non_empty_clause, get_literal_accepted
  <1>. QED
    BY <1>1, <1>2 DEF add_clauses_nonempty_admissible_set

\* So is the complement clause, and a model holds integers only.
LEMMA FormulaType ==
  ASSUME TypeOK, NEW t \in TaskId
  PROVE  /\ Formula(t) \in SUBSET SUBSET Int
         /\ \A m \in Models(NumArgs, frame[t].reduct, Formula(t)) :
              /\ m \in SUBSET Int
              /\ get_set_from_solver(m, frame[t].reduct) \in SUBSET Args
PROOF
  <1> USE SolverAssumption DEF Args
  <1>1. frame[t] \in Frame
    BY DEF TypeOK
  <1>2. frame[t].reduct \in SUBSET Args /\ frame[t].clauses \in SUBSET SUBSET Int
    BY <1>1 DEF Frame
  <1>3. add_complement_clause(frame[t].model, frame[t].reduct) \in SUBSET SUBSET Int
    BY <1>2 DEF add_complement_clause, get_literal_accepted, get_set_from_solver
  <1>4. Formula(t) \in SUBSET SUBSET Int
    BY <1>2, <1>3 DEF Formula
  <1>5. Variables(NumArgs, frame[t].reduct) \in SUBSET Int
    BY <1>2 DEF Variables
  <1>. QED
    BY <1>2, <1>4, <1>5 DEF Models, get_set_from_solver

\* The reduct of a task consists of arguments.
LEMMA ReductType ==
  ASSUME TypeOK, NEW t \in TaskId
  PROVE  ReductOf(t) \in SUBSET Args
BY DEF TypeOK, ReductOf, get_reduct_set

\* ExtendExtension merges two lists of arguments.
LEMMA ExtendType ==
  ASSUME TypeOK, NEW t \in TaskId
  PROVE  ExtendExtension(t) \in SUBSET Args
PROOF
  <1>1. frame[t] \in Frame
    BY DEF TypeOK
  <1>. QED
    BY <1>1 DEF ExtendExtension, Frame

\* The locals of a task that has not started have their types.
LEMMA NoFrameType == NoFrame \in Frame
BY DEF NoFrame, Frame

\* The variables have their types when solve is called.
LEMMA InitTypeOK == Init => TypeOK
BY SolverAssumption, NoFrameType
   DEF Init, TypeOK, TaskId, Labels, input

\* A return keeps the types of what it assigns.
LEMMA ReturnType ==
  ASSUME TypeOK, NEW t \in TaskId, Return(t)
  PROVE  /\ pc' \in [TaskId -> Labels]
         /\ frame' \in [TaskId -> Frame]
         /\ worker' \in [TaskId -> Threads \cup {NoThread}]
         /\ waits_for' \in [TaskId -> TaskId \cup {NoTask}]
BY NoFrameType DEF TypeOK, Return, Goto, Labels

\* The conjuncts of TypeOK a step of one task can disturb.
TaskTypes ==
  /\ pc \in [TaskId -> Labels]
  /\ frame \in [TaskId -> Frame]
  /\ worker \in [TaskId -> Threads \cup {NoThread}]
  /\ waits_for \in [TaskId -> TaskId \cup {NoTask}]
  /\ isRejected \in BOOLEAN
  /\ output_extension \in SUBSET Args

\* Every step of a task keeps the types of what it may assign.
LEMMA TaskStepType ==
  ASSUME TypeOK, NEW t \in TaskId, TaskStep(t)
  PROVE  TaskTypes'
PROOF
  <1> USE DEF TaskTypes
  <1>0. TaskTypes /\ frame[t] \in Frame
    BY DEF TypeOK
  <1>1. CASE StartReturns(t)
    BY <1>0, <1>1, ReturnType DEF StartReturns
  <1>2. CASE StartEncodes(t)
    <2>1. ReductOf(t) \in SUBSET Args
      BY ReductType
    <2>2. add_clauses_nonempty_admissible_set(NumArgs, attacks, ReductOf(t))
            \in SUBSET SUBSET Int
      BY <2>1, EncodingType DEF TypeOK
    <2>3. frame' \in [TaskId -> Frame]
      BY <1>0, <1>2, <2>1, <2>2 DEF StartEncodes, Frame
    <2>. QED
      BY <1>0, <1>2, <2>3 DEF StartEncodes, Goto, Labels, sched
  <1>3. CASE Recheck(t)
    BY <1>0, <1>3, ReturnType DEF Recheck, Goto, Labels, sched
  <1>4. CASE SolveSat(t)
    <2>1. PICK m \in Models(NumArgs, frame[t].reduct, Formula(t)) :
            /\ frame' = [frame EXCEPT
                 ![t].clauses = Formula(t),
                 ![t].isSolved = TRUE,
                 ![t].model = m,
                 ![t].initial_set = get_set_from_solver(m, frame[t].reduct),
                 ![t].isFirstCalculation =
                    @ /\ get_set_from_solver(m, frame[t].reduct) = {}]
            /\ Goto(t, AfterSolve(frame[t].argument, frame[t].isFirstCalculation,
                                  get_set_from_solver(m, frame[t].reduct)))
      BY <1>4 DEF SolveSat
    <2>2. /\ Formula(t) \in SUBSET SUBSET Int
          /\ m \in SUBSET Int
          /\ get_set_from_solver(m, frame[t].reduct) \in SUBSET Args
      BY FormulaType
    <2>3. frame' \in [TaskId -> Frame]
      BY <1>0, <2>1, <2>2 DEF Frame
    <2>4. pc' \in [TaskId -> Labels]
      BY <1>0, <2>1 DEF Goto, AfterSolve, Labels
    <2>. QED
      BY <1>0, <1>4, <2>3, <2>4 DEF SolveSat, sched
  <1>5. CASE SolveUnsat(t)
    BY <1>0, <1>5, ReturnType DEF SolveUnsat, Goto, Labels, sched
  <1>6. CASE RejectEmpty(t)
    BY <1>0, <1>6, ReturnType DEF RejectEmpty, RaiseFlag, Frame
  <1>7. CASE Reject(t)
    BY <1>0, <1>7 DEF Reject, RaiseFlag, Frame, Goto, Labels, sched
  <1>8. CASE AssignOutput(t)
    <2>1. ExtendExtension(t) \in SUBSET Args
      BY ExtendType
    <2>a. PICK kept \in SUBSET ExtendExtension(t) :
            /\ frame' = [frame EXCEPT ![t].rest = ExtendExtension(t) \ kept]
            /\ output_extension' \in SUBSET (kept \cup output_extension)
      BY <1>8 DEF AssignOutput
    <2>b. ExtendExtension(t) \ kept \in SUBSET Args
      BY <2>1
    <2>c. frame' \in [TaskId -> Frame]
      BY <1>0, <2>a, <2>b DEF Frame
    <2>2. frame' \in [TaskId -> Frame] /\ output_extension' \in SUBSET Args
      BY <1>0, <2>1, <2>a, <2>c
    <2>. QED
      BY <1>0, <1>8, <2>2 DEF AssignOutput, Goto, Labels, sched
  <1>9. CASE AppendOutput(t)
    <2>1. frame[t].rest \in SUBSET Args
      BY <1>0 DEF Frame
    <2>. QED
      BY <1>0, <1>9, <2>1, ReturnType DEF AppendOutput
  <1>10. ASSUME NEW c \in TaskId, SpawnDeferred(t, c) \/ SpawnUndeferred(t, c)
         PROVE  TaskTypes'
    <2>1. ExtendExtension(t) \in SUBSET Args
      BY ExtendType
    <2>a. Spawn(t, c)
      BY <1>10 DEF SpawnDeferred, SpawnUndeferred
    <2>2. frame' \in [TaskId -> Frame]
      <3>1. frame[c] \in Frame
        BY <1>0
      <3>2. [frame[c] EXCEPT !.extension_build = ExtendExtension(t),
                             !.argument = frame[t].argument,
                             !.points = frame[t].points,
                             !.creator = IF ByReference THEN t ELSE NoTask] \in Frame
        BY <1>0, <2>1, <3>1 DEF Frame
      <3>. QED
        BY <1>0, <2>a, <3>2 DEF Spawn
    <2>3. pc' \in [TaskId -> Labels]
      BY <1>0, <1>10 DEF SpawnDeferred, SpawnUndeferred, Spawn, Labels
    <2>. QED
      BY <1>0, <1>10, <2>2, <2>3 DEF SpawnDeferred, SpawnUndeferred, sched
  <1>11. CASE Loop(t)
    <2>1. ReductOf(t) \in SUBSET Args
      BY ReductType
    <2>2. CASE Return(t)
      BY <1>0, <1>11, <2>2, ReturnType DEF Loop
    <2>3. CASE /\ frame' = [frame EXCEPT ![t].reduct = ReductOf(t)]
               /\ Goto(t, "solve") /\ UNCHANGED sched
      <3>0. [frame[t] EXCEPT !.reduct = ReductOf(t)] \in Frame
        BY <1>0, <2>1 DEF Frame
      <3>1. frame' \in [TaskId -> Frame]
        BY <1>0, <2>3, <3>0
      <3>. QED
        BY <1>0, <1>11, <2>3, <3>1 DEF Loop, Goto, Labels, sched
    <2>. QED
      BY <1>11, <2>2, <2>3 DEF Loop
  <1>. QED
    BY <1>1, <1>2, <1>3, <1>4, <1>5, <1>6, <1>7, <1>8, <1>9, <1>10, <1>11 DEF TaskStep

\* A step of a task leaves the input and the progress of solve alone, and
\* reads no parameter of another activation: that happens when it is taken.
LEMMA TaskStepFrame ==
  ASSUME NEW t \in TaskId, TaskStep(t)
  PROVE  UNCHANGED <<attacks, query, phase, result, activeArgs, dangling>>
BY DEF TaskStep, StartReturns, StartEncodes, Recheck, SolveSat, SolveUnsat, RejectEmpty,
       Reject, AssignOutput, AppendOutput, SpawnDeferred, SpawnUndeferred, Loop, input

\* Every step keeps the types.
LEMMA NextTypeOK ==
  ASSUME TypeOK, [Next]_vars
  PROVE  TypeOK'
PROOF
  <1>1. CASE PreProcessDecides
    <2>1. process_result(attacks, Args, query) \in {"accepted", "rejected"}
      BY <1>1, ProcessResultValues DEF PreProcessDecides
    <2>. QED
      BY <1>1, <2>1 DEF PreProcessDecides, TypeOK, input, sched
  <1>2. ASSUME NEW th \in Threads, PreProcessUnknown(th)
        PROVE  TypeOK'
    <2>1. process_reduct(attacks, Args, query) \in SUBSET Args
      BY DEF process_reduct, get_reduct_set, ConeOf
    <2>2. frame' \in [TaskId -> Frame]
      <3>1. Root \in TaskId
        BY SolverAssumption DEF Root, TaskId
      <3>a. frame[Root] \in Frame /\ query \in Args \cup {0}
        BY <3>1 DEF TypeOK
      <3>2. [frame[Root] EXCEPT !.argument = query, !.points = TRUE] \in Frame
        BY <3>a DEF Frame
      <3>. QED
        BY <1>2, <3>2 DEF PreProcessUnknown, TypeOK
    <2>. QED
      BY <1>2, <2>1, <2>2 DEF PreProcessUnknown, TypeOK, Labels, input
  <1>3. ASSUME NEW th \in Threads, NEW t \in TaskId, TakeTask(th, t)
        PROVE  TypeOK'
    <2>1. frame' \in [TaskId -> Frame] /\ dangling' \in BOOLEAN
      <3>1. CASE Stray(t)
        <4>1. PICK a \in Args, p \in BOOLEAN :
                frame' = [frame EXCEPT ![t].argument = a, ![t].points = p]
          BY <1>3, <3>1 DEF TakeTask
        <4>a. frame[t] \in Frame /\ a \in Args \cup {0}
          BY DEF TypeOK
        <4>2. [frame[t] EXCEPT !.argument = a, !.points = p] \in Frame
          BY <4>a DEF Frame
        <4>. QED
          BY <1>3, <3>1, <4>1, <4>2 DEF TakeTask, TypeOK
      <3>. QED
        BY <1>3, <3>1 DEF TakeTask, TypeOK
    <2>. QED
      BY <1>3, <2>1 DEF TakeTask, TypeOK, input
  <1>4. ASSUME NEW t \in TaskId, TaskStep(t)
        PROVE  TypeOK'
    <2>1. TaskTypes'
      BY <1>4, TaskStepType
    <2>2. UNCHANGED <<attacks, query, phase, result, activeArgs, dangling>>
      BY <1>4, TaskStepFrame
    <2>. QED
      BY <2>1, <2>2 DEF TypeOK, TaskTypes
  <1>5. CASE Finish
    BY <1>5 DEF Finish, TypeOK, input, sched
  <1>6. CASE UNCHANGED vars
    BY <1>6 DEF vars, TypeOK, input, sched
  <1>. QED
    BY <1>1, <1>2, <1>3, <1>4, <1>5, <1>6 DEF Next, Terminated

\* Every variable of the search keeps its C++ type, whatever the framework
\* and the schedule.
THEOREM TypeCorrect == Spec => []TypeOK
PROOF
  <1>1. Init => TypeOK
    BY InitTypeOK
  <1>2. TypeOK /\ [Next]_vars => TypeOK'
    BY NextTypeOK
  <1>. QED
    BY <1>1, <1>2, PTL DEF Spec

-----------------------------------------------------------------------------
(***************************************************************************)
(* The answer of the parallel search is right, for every framework, every  *)
(* number of tasks and threads and every choice of models by the SAT       *)
(* solver, on every schedule in which no task takes its parameters from an *)
(* activation that is gone; where the compiler copies them that is every   *)
(* schedule.  The inductive invariant is TypeOK, LoopInvariant and         *)
(* PhaseInvariant, and, as long as nothing dangles, QueryStaysOpen,        *)
(* FlagMeans, RefutationCovered and AnswerCorrect.                         *)
(***************************************************************************)

\* The part of the invariant that speaks of one task.
TaskInv(t) == LoopState(t) /\ (~dangling /\ Live(t) => PathOpen(t))

TaskInvariant == \A t \in TaskId : TaskInv(t)

-----------------------------------------------------------------------------
(***************************************************************************)
(* Facts about one task.                                                   *)
(***************************************************************************)

\* A step of one task does not disturb what another one knows.
LEMMA Untouched ==
  ASSUME NEW u \in TaskId, TaskInv(u),
         UNCHANGED <<attacks, query, activeArgs>>,
         pc'[u] = pc[u], frame'[u] = frame[u], isRejected => isRejected',
         dangling => dangling'
  PROVE  TaskInv(u)'
PROOF
  <1>1. ReductOf(u)' = ReductOf(u)
    BY DEF ReductOf
  <1>2. EncodingOf(u)' = EncodingOf(u)
    BY DEF EncodingOf
  <1>3. Live(u)' = Live(u)
    BY DEF Live
  <1>4. (~dangling /\ Live(u) => PathOpen(u))'
    BY <1>1, <1>3 DEF TaskInv, PathOpen
  <1>5. LoopState(u)'
    BY <1>1, <1>2, <1>3 DEF TaskInv, LoopState
  <1>. QED
    BY <1>4, <1>5 DEF TaskInv

\* The special case of an empty extension_build is the reduct by nothing.
LEMMA ReductIsReduct ==
  ASSUME NEW t \in TaskId
  PROVE  ReductOf(t) = get_reduct_set(activeArgs, attacks, frame[t].extension_build)
BY DEF ReductOf, get_reduct_set

\* A task that returns has nothing left to keep.
LEMMA ReturnTask ==
  ASSUME TypeOK, NEW t \in TaskId, Return(t)
  PROVE  /\ TaskInv(t)' /\ pc'[t] = "done"
         /\ \A u \in TaskId : u # t => pc'[u] = pc[u] /\ frame'[u] = frame[u]
PROOF
  <1>1. pc'[t] = "done"
    BY DEF Return, Goto, TypeOK
  <1>2. \A u \in TaskId : u # t => pc'[u] = pc[u] /\ frame'[u] = frame[u]
    BY DEF Return, Goto, TypeOK
  <1>3. TaskInv(t)'
    BY <1>1 DEF TaskInv, LoopState, Live
  <1>. QED
    BY <1>1, <1>2, <1>3

\* The framework of a run is one of the inputs, and its arguments are finite.
LEMMA InputFacts ==
  ASSUME TypeOK
  PROVE  /\ NumArgs \in Nat /\ Args = 1..NumArgs /\ IsFiniteSet(Args)
         /\ attacks \in SUBSET ((1..NumArgs) \X (1..NumArgs))
         /\ activeArgs \in SUBSET (1..NumArgs)
BY SolverAssumption, FS_Interval DEF TypeOK, Args

\* What solve() finds is a non-empty admissible set of the task's reduct.
LEMMA ModelFound ==
  ASSUME TypeOK, NEW t \in TaskId, LoopState(t), pc[t] = "solve",
         NEW m \in Models(NumArgs, frame[t].reduct, Formula(t))
  PROVE  /\ get_set_from_solver(m, frame[t].reduct) # {}
         /\ Admissible(attacks, frame[t].reduct, get_set_from_solver(m, frame[t].reduct))
PROOF
  <1>1. frame[t].reduct \in SUBSET (1..NumArgs)
    BY DEF TypeOK, Frame, Args
  <1>2. EncodingOf(t) \subseteq Formula(t)
    BY DEF LoopState, Live, Formula
  <1>3. Satisfies(m, EncodingOf(t))
    BY <1>2 DEF Models, Satisfies
  <1>. QED
    BY <1>1, <1>3, InputFacts, EncodingSound DEF EncodingOf

\* If the encoding has no model, nothing can be added to extension_build.
LEMMA NoModel ==
  ASSUME TypeOK, NEW t \in TaskId, LoopState(t), pc[t] = "solve",
         frame[t].isFirstCalculation,
         Models(NumArgs, frame[t].reduct, Formula(t)) = {}
  PROVE  \A S \in SUBSET frame[t].reduct :
           Admissible(attacks, frame[t].reduct, S) => S = {}
PROOF
  <1>1. frame[t].reduct \in SUBSET (1..NumArgs) /\ frame[t].isSolved \in BOOLEAN
    BY DEF TypeOK, Frame, Args
  <1>2. Formula(t) = EncodingOf(t)
    BY <1>1 DEF LoopState, Formula
  <1>3. ASSUME NEW S \in SUBSET frame[t].reduct, Admissible(attacks, frame[t].reduct, S),
               S # {}
        PROVE  FALSE
    <2> DEFINE m == SetModel(NumArgs, attacks, frame[t].reduct, S)
    <2>1. m \in SUBSET Variables(NumArgs, frame[t].reduct) /\ Satisfies(m, EncodingOf(t))
      BY <1>1, <1>3, InputFacts, EncodingComplete DEF EncodingOf
    <2> HIDE DEF m
    <2>2. m \in Models(NumArgs, frame[t].reduct, Formula(t))
      BY <1>2, <2>1 DEF Models
    <2>. QED
      BY <2>2
  <1>. QED
    BY <1>3

-----------------------------------------------------------------------------
(***************************************************************************)
(* Each step of a task preserves what the tasks know.                      *)
(***************************************************************************)

\* The loop body between solve() and the next access to shared state.
LEMMA SolveSatEffect ==
  ASSUME TypeOK, TaskInvariant, NEW t \in TaskId, SolveSat(t)
  PROVE  \E m \in Models(NumArgs, frame[t].reduct, Formula(t)),
            S \in SUBSET frame[t].reduct :
           /\ S = get_set_from_solver(m, frame[t].reduct)
           /\ S # {} /\ Admissible(attacks, frame[t].reduct, S)
           /\ frame'[t].extension_build = frame[t].extension_build
           /\ frame'[t].argument = frame[t].argument
           /\ frame'[t].points = frame[t].points
           /\ frame'[t].reduct = frame[t].reduct
           /\ frame'[t].clauses = Formula(t)
           /\ frame'[t].isSolved = TRUE
           /\ frame'[t].model = m
           /\ frame'[t].initial_set = S
           /\ frame'[t].isFirstCalculation = FALSE
           /\ pc'[t] \in {"reject", "solve", "spawn"}
           /\ pc'[t] = "reject" => check_rejection(frame[t].argument, S, attacks)
           /\ pc'[t] = "solve" => frame[t].argument \in S
           /\ pc'[t] = "spawn" => /\ frame[t].argument \notin S
                                  /\ ~check_rejection(frame[t].argument, S, attacks)
PROOF
  <1>0. pc[t] = "solve" /\ LoopState(t) /\ frame[t] \in Frame
    BY DEF SolveSat, Runs, TaskInvariant, TaskInv, TypeOK
  <1>1. PICK m \in Models(NumArgs, frame[t].reduct, Formula(t)) :
          /\ frame' = [frame EXCEPT
               ![t].clauses = Formula(t),
               ![t].isSolved = TRUE,
               ![t].model = m,
               ![t].initial_set = get_set_from_solver(m, frame[t].reduct),
               ![t].isFirstCalculation =
                  @ /\ get_set_from_solver(m, frame[t].reduct) = {}]
          /\ Goto(t, AfterSolve(frame[t].argument, frame[t].isFirstCalculation,
                                get_set_from_solver(m, frame[t].reduct)))
    BY DEF SolveSat
  <1> DEFINE S == get_set_from_solver(m, frame[t].reduct)
  <1>2. S # {} /\ Admissible(attacks, frame[t].reduct, S)
    BY <1>0, ModelFound
  <1> HIDE DEF S
  <1>3. /\ frame'[t].extension_build = frame[t].extension_build
        /\ frame'[t].argument = frame[t].argument
        /\ frame'[t].points = frame[t].points
        /\ frame'[t].reduct = frame[t].reduct
        /\ frame'[t].clauses = Formula(t)
        /\ frame'[t].isSolved = TRUE
        /\ frame'[t].model = m
        /\ frame'[t].initial_set = S
        /\ frame'[t].isFirstCalculation = FALSE
    BY <1>0, <1>1, <1>2 DEF TypeOK, Frame, S
  <1>4. pc'[t] = AfterSolve(frame[t].argument, frame[t].isFirstCalculation, S)
    BY <1>1 DEF Goto, TypeOK, S
  <1>5. /\ pc'[t] \in {"reject", "solve", "spawn"}
        /\ pc'[t] = "reject" => check_rejection(frame[t].argument, S, attacks)
        /\ pc'[t] = "solve" => frame[t].argument \in S
        /\ pc'[t] = "spawn" => /\ frame[t].argument \notin S
                               /\ ~check_rejection(frame[t].argument, S, attacks)
    BY <1>2, <1>4 DEF AfterSolve, check_terminate_extension_build
  <1>6. S = get_set_from_solver(m, frame[t].reduct) /\ S \in SUBSET frame[t].reduct
    BY <1>2 DEF S, Admissible
  <1>. QED
    BY <1>2, <1>3, <1>5, <1>6

\* A solve() that finds a set keeps what its task knows.
LEMMA SolveSatTask ==
  ASSUME TypeOK, TaskInvariant, NEW t \in TaskId, SolveSat(t)
  PROVE  /\ TaskInv(t)'
         /\ \A u \in TaskId : u # t => pc'[u] = pc[u] /\ frame'[u] = frame[u]
PROOF
  <1>0. /\ pc[t] = "solve" /\ LoopState(t) /\ (~dangling => PathOpen(t))
        /\ UNCHANGED <<attacks, query, activeArgs, isRejected, dangling>>
    BY DEF SolveSat, Runs, TaskInvariant, TaskInv, Live, input
  <1>1. PICK S :
          /\ Admissible(attacks, frame[t].reduct, S)
          /\ frame'[t].extension_build = frame[t].extension_build
          /\ frame'[t].argument = frame[t].argument
          /\ frame'[t].points = frame[t].points
          /\ frame'[t].reduct = frame[t].reduct
          /\ frame'[t].clauses = Formula(t)
          /\ frame'[t].isSolved = TRUE
          /\ frame'[t].initial_set = S
          /\ frame'[t].isFirstCalculation = FALSE
          /\ pc'[t] \in {"reject", "solve", "spawn"}
          /\ pc'[t] = "reject" => check_rejection(frame[t].argument, S, attacks)
          /\ pc'[t] = "spawn" => /\ frame[t].argument \notin S
                                 /\ ~check_rejection(frame[t].argument, S, attacks)
    BY SolveSatEffect
  <1>2. EncodingOf(t) \subseteq Formula(t) /\ frame[t].reduct = ReductOf(t)
    BY <1>0 DEF LoopState, Live, Formula
  <1>3. \A u \in TaskId : u # t => pc'[u] = pc[u] /\ frame'[u] = frame[u]
    BY DEF SolveSat, Goto, TypeOK
  <1>4. ReductOf(t)' = ReductOf(t) /\ EncodingOf(t)' = EncodingOf(t)
    BY <1>0, <1>1 DEF ReductOf, EncodingOf
  <1>5. ~dangling' => PathOpen(t)'
    BY <1>0, <1>1, <1>4 DEF PathOpen
  <1>6. LoopState(t)'
    BY <1>0, <1>1, <1>2, <1>4 DEF LoopState, Live
  <1>. QED
    BY <1>3, <1>5, <1>6 DEF TaskInv

\* What extension_build and the set found make together is admissible.
LEMMA ExtensionAdmissible ==
  ASSUME NEW t \in TaskId, PathOpen(t), frame[t].reduct = ReductOf(t),
         Admissible(attacks, frame[t].reduct, frame[t].initial_set)
  PROVE  Admissible(attacks, activeArgs, ExtendExtension(t))
BY ReductIsReduct, ReductExtends DEF PathOpen, ExtendExtension

\* Creating a child: its extension is admissible and the query open.
LEMMA SpawnTask ==
  ASSUME TypeOK, TaskInvariant, NEW t \in TaskId, NEW c \in TaskId, Spawn(t, c),
         UNCHANGED <<attacks, query, activeArgs, isRejected, dangling>>
  PROVE  /\ TaskInv(t)' /\ TaskInv(c)'
         /\ pc[t] = "spawn" /\ pc[c] = "none" /\ pc'[t] = "loop" /\ pc'[c] = "start"
         /\ frame'[t] = frame[t] /\ frame'[c].extension_build = ExtendExtension(t)
         /\ \A u \in TaskId : u # t /\ u # c => pc'[u] = pc[u] /\ frame'[u] = frame[u]
PROOF
  <1>0. /\ pc[t] = "spawn" /\ pc[c] = "none"
        /\ TaskInv(t) /\ TaskInv(c) /\ frame[c] \in Frame
    BY DEF Spawn, NextFree, Runs, TaskInvariant, TypeOK
  <1>1. (~dangling => PathOpen(t)) /\ LoopState(t)
    BY <1>0 DEF TaskInv, Live
  <1>2. /\ pc'[t] = "loop" /\ pc'[c] = "start"
        /\ \A u \in TaskId : u # t /\ u # c => pc'[u] = pc[u]
    BY <1>0 DEF Spawn, TypeOK
  <1>3. \A u \in TaskId : u # c => frame'[u] = frame[u]
    BY DEF Spawn, TypeOK
  <1>4. frame'[t] = frame[t]
    BY <1>0, <1>3
  <1>5. /\ frame'[c].extension_build = ExtendExtension(t)
        /\ frame'[c].argument = frame[t].argument
        /\ frame'[c].points = frame[t].points
        /\ frame'[c].isSolved = frame[c].isSolved
        /\ frame'[c].isFirstCalculation = frame[c].isFirstCalculation
    BY <1>0 DEF Spawn, TypeOK, Frame
  <1>6. TaskInv(t)'
    <2>1. ReductOf(t)' = ReductOf(t) /\ EncodingOf(t)' = EncodingOf(t)
      BY <1>4 DEF ReductOf, EncodingOf
    <2>2. ~dangling' => PathOpen(t)'
      BY <1>1, <1>4, <2>1 DEF PathOpen
    <2>3. LoopState(t)'
      BY <1>0, <1>1, <1>2, <1>4, <2>1 DEF LoopState, Live
    <2>. QED
      BY <2>2, <2>3 DEF TaskInv
  <1>7. TaskInv(c)'
    <2>1. /\ frame[t].reduct = ReductOf(t)
          /\ Admissible(attacks, frame[t].reduct, frame[t].initial_set)
          /\ frame[t].argument \notin frame[t].initial_set
          /\ ~check_rejection(frame[t].argument, frame[t].initial_set, attacks)
      BY <1>0, <1>1 DEF LoopState, Live
    <2>4. ReductOf(c)' = get_reduct_set(activeArgs, attacks, ExtendExtension(t))
      BY <1>5 DEF ReductOf, get_reduct_set
    <2>5. ASSUME ~dangling
          PROVE  PathOpen(c)'
      <3>1. PathOpen(t)
        BY <1>1, <2>5
      <3>2. Admissible(attacks, activeArgs, ExtendExtension(t))
        BY <2>1, <3>1, ExtensionAdmissible
      <3>3. query \in get_reduct_set(activeArgs, attacks, ExtendExtension(t))
        BY <2>1, <3>1, ReductIsReduct
           DEF PathOpen, get_reduct_set, check_rejection, ExtendExtension
      <3>. QED
        BY <1>5, <2>4, <3>1, <3>2, <3>3 DEF PathOpen
    <2>6. LoopState(c)'
      BY <1>0, <1>2, <1>5 DEF LoopState, TaskInv
    <2>. QED
      BY <2>5, <2>6 DEF TaskInv
  <1>. QED
    BY <1>0, <1>2, <1>3, <1>4, <1>5, <1>6, <1>7

\* The steps that leave a task at another point of its code with the same
\* extension_build: what has to hold there.
LEMMA Moved ==
  ASSUME NEW t \in TaskId, TaskInv(t), Live(t),
         UNCHANGED <<attacks, query, activeArgs, dangling>>,
         frame'[t].argument = frame[t].argument, frame'[t].points = frame[t].points,
         frame'[t].extension_build = frame[t].extension_build
  PROVE  (~dangling' => PathOpen(t)') /\ ReductOf(t)' = ReductOf(t)
BY DEF TaskInv, PathOpen, ReductOf

\* No step of any task disturbs what the tasks know.
LEMMA TaskStepTask ==
  ASSUME TypeOK, TaskInvariant, NEW t \in TaskId, TaskStep(t)
  PROVE  TaskInvariant'
PROOF
  <1>0. /\ TaskInv(t) /\ frame[t] \in Frame
        /\ UNCHANGED <<attacks, query, activeArgs, dangling>>
    BY TaskStepFrame DEF TaskInvariant, TypeOK
  <1>a. ASSUME TaskInv(t)', isRejected => isRejected',
               \A u \in TaskId : u # t => pc'[u] = pc[u] /\ frame'[u] = frame[u]
        PROVE  TaskInvariant'
    BY <1>0, <1>a, Untouched DEF TaskInvariant
  <1>1. CASE StartReturns(t)
    BY <1>1, <1>a, ReturnTask DEF StartReturns
  <1>2. CASE StartEncodes(t)
    <2>1. /\ pc[t] = "start" /\ pc'[t] = "recheck" /\ isRejected' = isRejected
          /\ \A u \in TaskId : u # t => pc'[u] = pc[u] /\ frame'[u] = frame[u]
      BY <1>2 DEF StartEncodes, Runs, Goto, TypeOK
    <2>2. /\ frame'[t].extension_build = frame[t].extension_build
          /\ frame'[t].argument = frame[t].argument /\ frame'[t].points = frame[t].points
          /\ frame'[t].reduct = ReductOf(t)
          /\ frame'[t].clauses =
               add_clauses_nonempty_admissible_set(NumArgs, attacks, ReductOf(t))
          /\ frame'[t].isSolved = frame[t].isSolved
          /\ frame'[t].isFirstCalculation = frame[t].isFirstCalculation
      BY <1>0, <1>2 DEF StartEncodes, TypeOK, Frame
    <2>3. (~dangling' => PathOpen(t)') /\ ReductOf(t)' = ReductOf(t)
      BY <1>0, <2>1, <2>2, Moved DEF Live
    <2>4. EncodingOf(t)' = frame'[t].clauses
      BY <1>0, <2>2 DEF EncodingOf
    <2>5. LoopState(t)'
      BY <1>0, <2>1, <2>2, <2>3, <2>4 DEF LoopState, TaskInv, Live
    <2>. QED
      BY <1>a, <2>1, <2>3, <2>5 DEF TaskInv
  <1>3. CASE Recheck(t)
    <2>1. CASE Return(t)
      BY <1>3, <1>a, <2>1, ReturnTask DEF Recheck
    <2>2. CASE Goto(t, "solve") /\ UNCHANGED frame
      <3>1. /\ pc[t] = "recheck" /\ pc'[t] = "solve" /\ frame' = frame
            /\ isRejected' = isRejected
            /\ \A u \in TaskId : u # t => pc'[u] = pc[u] /\ frame'[u] = frame[u]
        BY <1>3, <2>2 DEF Recheck, Runs, Goto, TypeOK
      <3>2. (~dangling' => PathOpen(t)') /\ ReductOf(t)' = ReductOf(t) /\ EncodingOf(t)' = EncodingOf(t)
        BY <1>0, <3>1, Moved DEF Live, EncodingOf
      <3>3. LoopState(t)'
        BY <1>0, <3>1, <3>2 DEF LoopState, TaskInv, Live
      <3>. QED
        BY <1>a, <3>1, <3>2, <3>3 DEF TaskInv
    <2>. QED
      BY <1>3, <2>1, <2>2 DEF Recheck
  <1>4. CASE SolveSat(t)
    BY <1>4, <1>a, SolveSatTask DEF SolveSat
  <1>5. CASE SolveUnsat(t)
    <2>1. pc[t] = "solve" /\ isRejected' = isRejected
      BY <1>5 DEF SolveUnsat, Runs
    <2>2. CASE frame[t].isFirstCalculation
      <3>1. /\ pc'[t] = "rejectEmpty" /\ frame' = frame
            /\ \A u \in TaskId : u # t => pc'[u] = pc[u] /\ frame'[u] = frame[u]
        BY <1>5, <2>2 DEF SolveUnsat, Goto, TypeOK
      <3>2. (~dangling' => PathOpen(t)') /\ ReductOf(t)' = ReductOf(t) /\ EncodingOf(t)' = EncodingOf(t)
        BY <1>0, <2>1, <3>1, Moved DEF Live, EncodingOf
      <3>3. \A S \in SUBSET frame[t].reduct :
              Admissible(attacks, frame[t].reduct, S) => S = {}
        BY <1>0, <1>5, <2>1, <2>2, NoModel DEF SolveUnsat, TaskInv
      <3>4. LoopState(t)'
        BY <1>0, <2>1, <3>1, <3>2, <3>3 DEF LoopState, TaskInv, Live
      <3>. QED
        BY <1>a, <2>1, <3>1, <3>2, <3>4 DEF TaskInv
    <2>3. CASE ~frame[t].isFirstCalculation
      BY <1>5, <1>a, <2>1, <2>3, ReturnTask DEF SolveUnsat
    <2>. QED
      BY <2>2, <2>3
  <1>6. CASE RejectEmpty(t)
    BY <1>6, <1>a, ReturnTask DEF RejectEmpty, RaiseFlag
  <1>7. CASE Reject(t)
    <2>1. /\ pc[t] = "reject" /\ pc'[t] = "assign" /\ frame' = frame
          /\ isRejected' = (isRejected \/ frame[t].points)
          /\ \A u \in TaskId : u # t => pc'[u] = pc[u] /\ frame'[u] = frame[u]
      BY <1>7 DEF Reject, RaiseFlag, Runs, Goto, TypeOK
    <2>2. (~dangling' => PathOpen(t)') /\ ReductOf(t)' = ReductOf(t) /\ EncodingOf(t)' = EncodingOf(t)
      BY <1>0, <2>1, Moved DEF Live, EncodingOf
    <2>3. LoopState(t)'
      BY <1>0, <2>1, <2>2 DEF LoopState, TaskInv, Live
    <2>. QED
      BY <1>a, <2>1, <2>2, <2>3 DEF TaskInv
  <1>8. CASE AssignOutput(t)
    <2>1. /\ pc[t] = "assign" /\ pc'[t] = "append" /\ isRejected' = isRejected
          /\ \A u \in TaskId : u # t => pc'[u] = pc[u] /\ frame'[u] = frame[u]
      BY <1>8 DEF AssignOutput, Runs, Goto, TypeOK
    <2>2. PICK rest : frame' = [frame EXCEPT ![t].rest = rest]
      BY <1>8 DEF AssignOutput
    <2>3. /\ frame'[t].extension_build = frame[t].extension_build
          /\ frame'[t].argument = frame[t].argument /\ frame'[t].points = frame[t].points
          /\ frame'[t].reduct = frame[t].reduct
          /\ frame'[t].clauses = frame[t].clauses
          /\ frame'[t].initial_set = frame[t].initial_set
      BY <1>0, <2>2 DEF TypeOK, Frame
    <2>4. (~dangling' => PathOpen(t)') /\ ReductOf(t)' = ReductOf(t) /\ EncodingOf(t)' = EncodingOf(t)
      BY <1>0, <2>1, <2>3, Moved DEF Live, EncodingOf
    <2>5. LoopState(t)'
      BY <1>0, <2>1, <2>3, <2>4 DEF LoopState, TaskInv, Live
    <2>. QED
      BY <1>a, <2>1, <2>4, <2>5 DEF TaskInv
  <1>9. CASE AppendOutput(t)
    BY <1>9, <1>a, ReturnTask DEF AppendOutput
  <1>10. ASSUME NEW c \in TaskId, SpawnDeferred(t, c) \/ SpawnUndeferred(t, c)
         PROVE  TaskInvariant'
    <2>1. Spawn(t, c) /\ isRejected' = isRejected
      BY <1>10 DEF SpawnDeferred, SpawnUndeferred
    <2>2. /\ TaskInv(t)' /\ TaskInv(c)'
          /\ \A u \in TaskId : u # t /\ u # c => pc'[u] = pc[u] /\ frame'[u] = frame[u]
      BY <1>0, <2>1, SpawnTask
    <2>. QED
      BY <1>0, <2>1, <2>2, Untouched DEF TaskInvariant
  <1>11. CASE Loop(t)
    <2>1. CASE Return(t)
      BY <1>11, <1>a, <2>1, ReturnTask DEF Loop
    <2>2. CASE frame' = [frame EXCEPT ![t].reduct = ReductOf(t)] /\ Goto(t, "solve")
      <3>1. /\ pc[t] = "loop" /\ pc'[t] = "solve" /\ isRejected' = isRejected
            /\ \A u \in TaskId : u # t => pc'[u] = pc[u] /\ frame'[u] = frame[u]
        BY <1>11, <2>2 DEF Loop, Runs, Goto, TypeOK
      <3>2. /\ frame'[t].extension_build = frame[t].extension_build
            /\ frame'[t].argument = frame[t].argument /\ frame'[t].points = frame[t].points
            /\ frame'[t].reduct = ReductOf(t)
            /\ frame'[t].clauses = frame[t].clauses
            /\ frame'[t].isSolved = frame[t].isSolved
            /\ frame'[t].isFirstCalculation = frame[t].isFirstCalculation
        BY <1>0, <1>11, <2>2 DEF Loop, TypeOK, Frame
      <3>3. frame[t].reduct = ReductOf(t)
        BY <1>0, <3>1 DEF TaskInv, LoopState, Live
      <3>4. (~dangling' => PathOpen(t)') /\ ReductOf(t)' = ReductOf(t) /\ EncodingOf(t)' = EncodingOf(t)
        BY <1>0, <3>1, <3>2, <3>3, Moved DEF Live, EncodingOf
      <3>5. LoopState(t)'
        BY <1>0, <3>1, <3>2, <3>3, <3>4 DEF LoopState, TaskInv, Live
      <3>. QED
        BY <1>a, <3>1, <3>4, <3>5 DEF TaskInv
    <2>. QED
      BY <1>11, <2>1, <2>2 DEF Loop
  <1>. QED
    BY <1>1, <1>2, <1>3, <1>4, <1>5, <1>6, <1>7, <1>8, <1>9, <1>10, <1>11 DEF TaskStep

-----------------------------------------------------------------------------
(***************************************************************************)
(* Soundness: the flag is raised only for a query that can be refuted.     *)
(***************************************************************************)

\* Only a task that has started and not returned takes steps.
LEMMA StepsAreLive ==
  ASSUME NEW t \in TaskId, TaskStep(t)
  PROVE  Live(t)
BY DEF TaskStep, StartReturns, StartEncodes, Recheck, SolveSat, SolveUnsat, RejectEmpty,
       Reject, AssignOutput, AppendOutput, SpawnDeferred, SpawnUndeferred, Spawn, Loop,
       Runs, Live

\* A set that attacks the query proves the rejection.
LEMMA RejectRefutes ==
  ASSUME NEW t \in TaskId, TaskInv(t), ~dangling, pc[t] = "reject"
  PROVE  Refutes(attacks, activeArgs, query, ExtendExtension(t))
PROOF
  <1>1. /\ PathOpen(t) /\ frame[t].reduct = ReductOf(t)
        /\ Admissible(attacks, frame[t].reduct, frame[t].initial_set)
        /\ check_rejection(query, frame[t].initial_set, attacks)
    BY DEF TaskInv, LoopState, PathOpen, Live
  <1>2. Admissible(attacks, activeArgs, ExtendExtension(t))
    BY <1>1, ExtensionAdmissible
  <1>3. PICK a \in ExtendExtension(t) : <<a, query>> \in attacks
    BY <1>1 DEF check_rejection, ExtendExtension
  <1>. QED
    BY <1>2, <1>3 DEF Refutes, Admissible, ConflictFree

\* So does an extension to which nothing can be added and that leaves the
\* query out.
LEMMA RejectEmptyRefutes ==
  ASSUME NEW t \in TaskId, TaskInv(t), ~dangling, pc[t] = "rejectEmpty"
  PROVE  Refutes(attacks, activeArgs, query, frame[t].extension_build)
PROOF
  <1> DEFINE B == frame[t].extension_build
             R == get_reduct_set(activeArgs, attacks, B)
  <1>1. /\ PathOpen(t) /\ frame[t].reduct = R
        /\ \A S \in SUBSET R : Admissible(attacks, R, S) => S = {}
    BY ReductIsReduct DEF TaskInv, LoopState, Live
  <1>2. query \notin B
    BY <1>1, ReductIsReduct DEF PathOpen, get_reduct_set
  <1>3. ASSUME NEW T \in SUBSET activeArgs, Admissible(attacks, activeArgs, T), B \subseteq T
        PROVE  query \notin T
    BY <1>1, <1>2, <1>3, ReductEmpty
  <1>. QED
    BY <1>1, <1>3 DEF Refutes, PathOpen

\* The flag is never taken down, and as long as nothing dangles it goes up
\* only with a refutation.
LEMMA FlagSound ==
  ASSUME TypeOK, TaskInvariant, NEW t \in TaskId, TaskStep(t)
  PROVE  /\ isRejected => isRejected'
         /\ ~dangling /\ isRejected' => isRejected \/ Refutable(attacks, activeArgs, query)
PROOF
  <1>0. frame[t].points \in BOOLEAN /\ isRejected \in BOOLEAN
    BY DEF TypeOK, Frame
  <1>1. /\ isRejected => isRejected'
        /\ \/ isRejected' = isRejected
           \/ pc[t] = "reject"
           \/ pc[t] = "rejectEmpty"
    BY <1>0 DEF TaskStep, StartReturns, StartEncodes, Recheck, SolveSat, SolveUnsat,
           RejectEmpty, Reject, AssignOutput, AppendOutput, SpawnDeferred,
           SpawnUndeferred, Loop, Runs, RaiseFlag
  <1> SUFFICES ASSUME ~dangling, isRejected'
               PROVE  isRejected \/ Refutable(attacks, activeArgs, query)
    BY <1>1
  <1>2. CASE pc[t] = "reject"
    <2>1. Refutes(attacks, activeArgs, query, ExtendExtension(t))
      BY <1>2, RejectRefutes DEF TaskInvariant
    <2>2. Refutable(attacks, activeArgs, query)
      BY <2>1 DEF Refutable, Refutes, Admissible
    <2>. QED
      BY <1>1, <2>2
  <1>3. CASE pc[t] = "rejectEmpty"
    <2>1. Refutes(attacks, activeArgs, query, frame[t].extension_build)
      BY <1>3, RejectEmptyRefutes DEF TaskInvariant
    <2>2. Refutable(attacks, activeArgs, query)
      BY <2>1 DEF Refutable, Refutes, Admissible
    <2>. QED
      BY <1>1, <2>2
  <1>. QED
    BY <1>1, <1>2, <1>3

\* A step of a task keeps PhaseInvariant and happens in the parallel region.
LEMMA TaskStepPhase ==
  ASSUME PhaseInvariant, NEW t \in TaskId, TaskStep(t)
  PROVE  PhaseInvariant' /\ phase = "parallel"
PROOF
  <1>1. phase = "parallel"
    BY StepsAreLive DEF PhaseInvariant
  <1>2. UNCHANGED <<attacks, query, phase, result, activeArgs>>
    BY TaskStepFrame
  <1>. QED
    BY <1>1, <1>2 DEF PhaseInvariant

\* As long as nothing dangles the flag keeps its meaning.
LEMMA TaskStepFlag ==
  ASSUME TypeOK, TaskInvariant, FlagMeans, ~dangling, NEW t \in TaskId, TaskStep(t)
  PROVE  FlagMeans'
BY TaskStepFrame, FlagSound DEF FlagMeans

-----------------------------------------------------------------------------
(***************************************************************************)
(* Completeness: a refutation is never lost.                               *)
(***************************************************************************)

\* Only a live task covers a refutation: at the barrier none does.
LEMMA CoversLive ==
  ASSUME NEW t \in TaskId, NEW W, Covers(t, W)
  PROVE  Live(t)
BY DEF Covers, Live

\* A step of one task does not take a refutation from another one.
LEMMA CoversUntouched ==
  ASSUME NEW u \in TaskId, NEW W, Covers(u, W),
         UNCHANGED <<attacks, activeArgs>>,
         pc'[u] = pc[u], frame'[u] = frame[u]
  PROVE  Covers(u, W)'
PROOF
  <1>1. Formula(u)' = Formula(u) /\ ExtendExtension(u)' = ExtendExtension(u)
    BY DEF Formula, ExtendExtension
  <1>2. StillOpen(u, W)' = StillOpen(u, W)
    BY <1>1 DEF StillOpen
  <1>. QED
    BY <1>1, <1>2 DEF Covers

\* A reduct of one argument is the query, which then can be added: the early
\* return of a task loses nothing.
LEMMA SmallReduct ==
  ASSUME TypeOK, NEW t \in TaskId, PathOpen(t), Cardinality(ReductOf(t)) < 2,
         process_result(attacks, Args, query) = "unknown",
         NEW W \in SUBSET activeArgs, frame[t].extension_build \subseteq W
  PROVE  ~Refutes(attacks, activeArgs, query, W)
PROOF
  <1> DEFINE B == frame[t].extension_build
             R == ReductOf(t)
  <1>1. R = get_reduct_set(activeArgs, attacks, B) /\ query \in R
    BY ReductIsReduct DEF PathOpen
  <1>2. <<query, query>> \notin attacks
    BY DEF process_result
  <1>3. R = {query}
    <2>1. IsFiniteSet(R)
      BY InputFacts, ReductType, FS_Subset
    <2>2. ASSUME NEW x \in R, x # query PROVE FALSE
      <3>1. {query, x} \subseteq R
        BY <1>1, <2>2
      <3>2. Cardinality({query, x}) <= Cardinality(R) /\ IsFiniteSet({query, x})
        BY <2>1, <3>1, FS_Subset
      <3>3. Cardinality({query, x}) = 2
        <4>1. IsFiniteSet({x}) /\ Cardinality({x}) = 1
          BY FS_Singleton
        <4>2. Cardinality({x} \cup {query}) = Cardinality({x}) + 1
          BY <2>2, <4>1, FS_AddElement
        <4>3. {x} \cup {query} = {query, x}
          OBVIOUS
        <4>. QED
          BY <4>1, <4>2, <4>3
      <3>4. Cardinality(R) \in Nat
        BY <2>1, FS_CardinalityType
      <3>. QED
        BY <3>2, <3>3, <3>4
    <2>. QED
      BY <1>1, <2>2
  <1>4. Admissible(attacks, R, {query})
    BY <1>2, <1>3 DEF Admissible, ConflictFree, Defends
  <1>5. Admissible(attacks, activeArgs, B \cup {query})
    BY <1>1, <1>4, ReductExtends DEF PathOpen
  <1>6. ASSUME Refutes(attacks, activeArgs, query, W) PROVE FALSE
    <2>1. Admissible(attacks, activeArgs, W) /\ query \notin W
      BY <1>6 DEF Refutes
    <2>2. Admissible(attacks, R, W \ B)
      BY <1>1, <2>1, ReductRest
    <2>3. W \ B \subseteq {query}
      BY <1>3, <2>2 DEF Admissible
    <2>4. W = B
      BY <2>1, <2>3
    <2>5. B \cup {query} \in SUBSET activeArgs
      BY <1>5 DEF Admissible
    <2>. QED
      BY <1>5, <1>6, <2>4, <2>5 DEF Refutes
  <1>. QED
    BY <1>6

\* What a refutation adds to extension_build is a model of the encoding.
LEMMA RefutationModel ==
  ASSUME TypeOK, NEW t \in TaskId, TaskInv(t), pc[t] = "solve",
         NEW W \in SUBSET activeArgs, Refutes(attacks, activeArgs, query, W),
         frame[t].extension_build \subseteq W, W # frame[t].extension_build
  PROVE  LET added == W \ frame[t].extension_build
             m == SetModel(NumArgs, attacks, frame[t].reduct, added)
         IN  /\ added # {} /\ added \in SUBSET frame[t].reduct
             /\ m \in SUBSET Variables(NumArgs, frame[t].reduct)
             /\ Satisfies(m, EncodingOf(t))
PROOF
  <1> DEFINE B == frame[t].extension_build
             R == frame[t].reduct
             added == W \ B
  <1>1. R = get_reduct_set(activeArgs, attacks, B) /\ R \in SUBSET (1..NumArgs)
    BY ReductIsReduct DEF TaskInv, LoopState, Live, TypeOK, Frame, Args
  <1>2. Admissible(attacks, R, added)
    BY <1>1, ReductRest DEF Refutes
  <1>3. added # {} /\ added \in SUBSET R
    BY <1>2 DEF Admissible
  <1> HIDE DEF added, R
  <1>4. /\ SetModel(NumArgs, attacks, R, added) \in SUBSET Variables(NumArgs, R)
        /\ Satisfies(SetModel(NumArgs, attacks, R, added),
                     add_clauses_nonempty_admissible_set(NumArgs, attacks, R))
    BY <1>1, <1>2, <1>3, InputFacts, EncodingComplete
  <1>. QED
    BY <1>3, <1>4 DEF EncodingOf, added, R

\* At the loop head a covering task has the whole encoding before it, or a
\* refutation that satisfies its formula.
LEMMA OpenAtSolve ==
  ASSUME TypeOK, NEW t \in TaskId, TaskInv(t), pc[t] = "solve",
         NEW W \in SUBSET activeArgs, Refutes(attacks, activeArgs, query, W),
         Covers(t, W), W # frame[t].extension_build
  PROVE  /\ frame[t].extension_build \subseteq W
         /\ W \ frame[t].extension_build # {}
         /\ W \ frame[t].extension_build \in SUBSET frame[t].reduct
         /\ SetModel(NumArgs, attacks, frame[t].reduct, W \ frame[t].extension_build)
              \in Models(NumArgs, frame[t].reduct, Formula(t))
PROOF
  <1> DEFINE added == W \ frame[t].extension_build
             m == SetModel(NumArgs, attacks, frame[t].reduct, added)
  <1>1. /\ frame[t].extension_build \subseteq W
        /\ ~frame[t].isSolved \/ StillOpen(t, W)
    BY DEF Covers
  <1>2. /\ added # {} /\ added \in SUBSET frame[t].reduct
        /\ m \in SUBSET Variables(NumArgs, frame[t].reduct)
        /\ Satisfies(m, EncodingOf(t))
    BY <1>1, RefutationModel
  <1>3. CASE StillOpen(t, W)
    <2>1. Satisfies(m, Formula(t))
      BY <1>3 DEF StillOpen
    <2>. QED
      BY <1>1, <1>2, <2>1 DEF Models
  <1>4. CASE ~frame[t].isSolved
    <2>1. Formula(t) = EncodingOf(t)
      BY <1>4 DEF TaskInv, LoopState, Formula
    <2>. QED
      BY <1>1, <1>2, <2>1 DEF Models
  <1>. QED
    BY <1>1, <1>3, <1>4

\* After solve() the task rejects, hands a refutation to a child, or has one
\* left that the complement clause does not exclude.
LEMMA SolveSatCovers ==
  ASSUME TypeOK, TaskInvariant, ~dangling, NEW t \in TaskId, SolveSat(t),
         NEW W \in SUBSET activeArgs, Refutes(attacks, activeArgs, query, W),
         Covers(t, W)
  PROVE  \E V \in SUBSET activeArgs :
           Refutes(attacks, activeArgs, query, V) /\ Covers(t, V)'
PROOF
  <1> DEFINE B == frame[t].extension_build
             R == frame[t].reduct
  <1>0. /\ pc[t] = "solve" /\ TaskInv(t) /\ UNCHANGED <<attacks, query, activeArgs>>
        /\ frame[t].argument = query
    BY DEF SolveSat, Runs, TaskInvariant, TaskInv, PathOpen, Live, input
  <1>1. PICK m \in Models(NumArgs, R, Formula(t)), S \in SUBSET R :
          /\ S = get_set_from_solver(m, R)
          /\ S # {} /\ Admissible(attacks, R, S)
          /\ frame'[t].extension_build = B
          /\ frame'[t].reduct = R
          /\ frame'[t].clauses = Formula(t)
          /\ frame'[t].isSolved = TRUE
          /\ frame'[t].model = m
          /\ frame'[t].initial_set = S
          /\ pc'[t] \in {"reject", "solve", "spawn"}
          /\ pc'[t] = "solve" => query \in S
    BY <1>0, SolveSatEffect
  <1>2. /\ B \subseteq W /\ R = get_reduct_set(activeArgs, attacks, B)
        /\ Admissible(attacks, activeArgs, B) /\ R \in SUBSET (1..NumArgs)
    BY <1>0, ReductIsReduct
       DEF Covers, TaskInv, LoopState, PathOpen, Live, TypeOK, Frame, Args
  <1>3. Admissible(attacks, activeArgs, B \cup S)
    BY <1>1, <1>2, ReductExtends
  <1>4. B \cup S \in SUBSET activeArgs
    BY <1>3 DEF Admissible
  <1>5. ExtendExtension(t)' = B \cup S
    BY <1>1 DEF ExtendExtension
  <1>6. CASE pc'[t] = "reject"
    BY <1>6 DEF Covers
  <1>7. CASE pc'[t] = "spawn" /\ S \subseteq W
    <2>1. Covers(t, W)'
      BY <1>2, <1>5, <1>7 DEF Covers
    <2>. QED
      BY <2>1
  <1>8. CASE pc'[t] = "spawn" /\ W = B
    <2>0. PICK V \in SUBSET activeArgs : V = B \cup S
      BY <1>4
    <2>1. Refutes(attacks, activeArgs, query, V)
      BY <1>3, <1>8, <2>0 DEF Refutes
    <2>2. ExtendExtension(t)' = V
      BY <1>5, <2>0
    <2>3. Covers(t, V)'
      BY <1>8, <2>2 DEF Covers
    <2>. QED
      BY <2>1, <2>3
  <1>9. CASE pc'[t] \in {"solve", "spawn"} /\ W # B /\ ~(S \subseteq W)
    <2> DEFINE added == W \ B
               M == SetModel(NumArgs, attacks, R, added)
    <2>1. added # {} /\ added \in SUBSET R /\ M \in Models(NumArgs, R, Formula(t))
      BY <1>0, <1>9, OpenAtSolve
    <2>2. Satisfies(M, Formula(t))
      BY <2>1 DEF Models
    <2>3. PICK x \in S : x \notin W
      BY <1>9
    <2>4. x \in R
      BY <1>1, <2>3 DEF Admissible
    <2>5. x \notin M
      <3>1. x \notin added
        BY <2>3
      <3>2. added \in SUBSET R
        BY <2>1
      <3> HIDE DEF added, R
      <3>. QED
        BY <1>2, <2>4, <3>1, <3>2, InputFacts, SetModelMembers
    <2> HIDE DEF M
    <2>6. Satisfies(M, add_complement_clause(m, R))
      <3>1. x \in get_set_from_solver(m, R)
        BY <1>1, <2>3
      <3>2. NumArgs \in Nat /\ R \in SUBSET (1..NumArgs)
        BY <1>2, InputFacts
      <3> HIDE DEF R
      <3>. QED
        BY <2>5, <3>1, <3>2, ComplementClause
    <2>7. Formula(t)' = Formula(t) \cup add_complement_clause(m, R)
      BY <1>1 DEF Formula
    <2>8. Satisfies(M, Formula(t)')
      BY <2>2, <2>6, <2>7 DEF Satisfies
    <2>9. StillOpen(t, W)'
      BY <1>0, <1>1, <2>1, <2>8 DEF StillOpen, M
    <2>10. Covers(t, W)'
      BY <1>1, <1>2, <1>9, <2>9 DEF Covers
    <2>. QED
      BY <2>10
  <1>10. CASE pc'[t] = "solve"
    <2>1. query \in S /\ query \notin W
      BY <1>1, <1>10 DEF Refutes
    <2>2. W # B
      BY <1>3, <1>4, <2>1 DEF Refutes
    <2>. QED
      BY <1>9, <1>10, <2>1, <2>2
  <1>. QED
    BY <1>1, <1>6, <1>7, <1>8, <1>9, <1>10

\* If solve() finds nothing more, the task had no refutation left, or finds
\* that its extension is one.
LEMMA SolveUnsatCovers ==
  ASSUME TypeOK, TaskInvariant, NEW t \in TaskId, SolveUnsat(t),
         NEW W \in SUBSET activeArgs, Refutes(attacks, activeArgs, query, W),
         Covers(t, W)
  PROVE  Covers(t, W)'
PROOF
  <1>0. pc[t] = "solve" /\ TaskInv(t) /\ Models(NumArgs, frame[t].reduct, Formula(t)) = {}
    BY DEF SolveUnsat, Runs, TaskInvariant
  <1>1. W = frame[t].extension_build
    BY <1>0, OpenAtSolve
  <1>2. frame[t].isFirstCalculation
    <2>1. ~StillOpen(t, W)
      BY <1>1 DEF StillOpen
    <2>2. ~frame[t].isSolved
      BY <1>0, <2>1 DEF Covers
    <2>. QED
      BY <1>0, <2>2 DEF TaskInv, LoopState
  <1>3. pc'[t] = "rejectEmpty"
    BY <1>2 DEF SolveUnsat, Goto, TypeOK
  <1>. QED
    BY <1>3 DEF Covers

\* No step of a task loses the last refutation.
LEMMA TaskStepCovers ==
  ASSUME TypeOK, TaskInvariant, PhaseInvariant, RefutationCovered, ~dangling,
         NEW t \in TaskId, TaskStep(t)
  PROVE  RefutationCovered'
PROOF
  <1>0. /\ TaskInv(t) /\ Live(t) /\ phase = "parallel" /\ frame[t] \in Frame
        /\ UNCHANGED <<attacks, query, phase, activeArgs, dangling>>
        /\ process_result(attacks, Args, query) = "unknown"
        /\ PathOpen(t)
    BY TaskStepFrame, StepsAreLive DEF TaskInvariant, TaskInv, PhaseInvariant, TypeOK
  <1> SUFFICES ASSUME ~isRejected', Refutable(attacks, activeArgs, query)
               PROVE  \E u \in TaskId, V \in SUBSET activeArgs :
                        Refutes(attacks, activeArgs, query, V) /\ Covers(u, V)'
    BY <1>0 DEF RefutationCovered
  <1>1. ~isRejected
    BY FlagSound
  <1>2. PICK v \in TaskId, W \in SUBSET activeArgs :
          Refutes(attacks, activeArgs, query, W) /\ Covers(v, W)
    BY <1>0, <1>1 DEF RefutationCovered
  <1>3. CASE v # t
    <2>1. pc'[v] = pc[v] /\ frame'[v] = frame[v]
      <3>1. ASSUME NEW c \in TaskId, SpawnDeferred(t, c) \/ SpawnUndeferred(t, c)
            PROVE  pc'[v] = pc[v] /\ frame'[v] = frame[v]
        <4>1. pc[c] = "none" /\ Spawn(t, c)
          BY <3>1 DEF SpawnDeferred, SpawnUndeferred, Spawn, NextFree
        <4>2. v # c
          BY <1>2, <4>1, CoversLive DEF Live
        <4>. QED
          BY <1>3, <4>1, <4>2 DEF Spawn, TypeOK
      <3>. QED
        BY <1>3, <3>1
           DEF TaskStep, StartReturns, StartEncodes, Recheck, SolveSat, SolveUnsat,
               RejectEmpty, Reject, AssignOutput, AppendOutput, Loop, Goto, Return, TypeOK
    <2>2. Covers(v, W)'
      BY <1>0, <1>2, <2>1, CoversUntouched
    <2>. QED
      BY <1>2, <2>2
  <1>4. CASE v = t
    <2> DEFINE B == frame[t].extension_build
    <2>0. Covers(t, W) /\ PathOpen(t)
      BY <1>0, <1>2, <1>4
    <2>b. ~MayRead(t, TRUE)
      BY <1>1, <2>0 DEF MayRead, PathOpen
    <2>a. ASSUME Covers(t, W)'
          PROVE  \E u \in TaskId, V \in SUBSET activeArgs :
                   Refutes(attacks, activeArgs, query, V) /\ Covers(u, V)'
      BY <1>2, <2>a
    <2>1. CASE StartReturns(t)
      <3>1. pc[t] = "start" /\ Cardinality(ReductOf(t)) < 2
        BY <2>b, <2>1 DEF StartReturns, Runs
      <3>2. B \subseteq W
        BY <2>0, <3>1 DEF Covers
      <3>. QED
        BY <1>0, <1>2, <2>0, <3>1, <3>2, SmallReduct
    <2>2. CASE StartEncodes(t)
      <3>1. /\ pc[t] = "start" /\ pc'[t] = "recheck"
            /\ frame'[t].extension_build = B
        BY <1>0, <2>2 DEF StartEncodes, Runs, Goto, TypeOK, Frame
      <3>. QED
        BY <2>0, <2>a, <3>1 DEF Covers
    <2>3. CASE Recheck(t)
      <3>1. pc[t] = "recheck" /\ pc'[t] = "solve" /\ frame' = frame
        BY <2>b, <2>3 DEF Recheck, Runs, Goto, TypeOK
      <3>2. ~frame[t].isSolved
        BY <1>0, <3>1 DEF TaskInv, LoopState
      <3>. QED
        BY <2>0, <2>a, <3>1, <3>2 DEF Covers
    <2>4. CASE SolveSat(t)
      BY <1>2, <2>0, <2>4, SolveSatCovers
    <2>5. CASE SolveUnsat(t)
      BY <1>2, <2>0, <2>a, <2>5, SolveUnsatCovers
    <2>6. CASE RejectEmpty(t) \/ Reject(t)
      BY <2>0, <2>6 DEF RejectEmpty, Reject, RaiseFlag, PathOpen
    <2>7. CASE AssignOutput(t) \/ AppendOutput(t)
      <3>1. pc[t] \in {"assign", "append"}
        BY <2>7 DEF AssignOutput, AppendOutput, Runs
      <3>. QED
        BY <1>0, <1>1, <3>1 DEF TaskInv, LoopState, PathOpen
    <2>8. ASSUME NEW c \in TaskId, SpawnDeferred(t, c) \/ SpawnUndeferred(t, c)
          PROVE  \E u \in TaskId, V \in SUBSET activeArgs :
                   Refutes(attacks, activeArgs, query, V) /\ Covers(u, V)'
      <3>1. Spawn(t, c) /\ isRejected' = isRejected
        BY <1>0, <2>8 DEF SpawnDeferred, SpawnUndeferred
      <3>2. /\ pc[t] = "spawn" /\ pc'[t] = "loop" /\ pc'[c] = "start"
            /\ frame'[t] = frame[t] /\ frame'[c].extension_build = ExtendExtension(t)
        BY <1>0, <3>1, SpawnTask
      <3>3. CASE ExtendExtension(t) \subseteq W
        <4>1. Covers(c, W)'
          BY <3>2, <3>3 DEF Covers
        <4>. QED
          BY <1>2, <4>1
      <3>4. CASE B \subseteq W /\ StillOpen(t, W)
        <4>1. Formula(t)' = Formula(t)
          BY <3>2 DEF Formula
        <4>2. StillOpen(t, W)'
          BY <1>0, <3>2, <3>4, <4>1 DEF StillOpen
        <4>. QED
          BY <2>a, <3>2, <3>4, <4>2 DEF Covers
      <3>. QED
        BY <2>0, <3>2, <3>3, <3>4 DEF Covers
    <2>9. CASE Loop(t)
      <3>1. /\ pc[t] = "loop" /\ pc'[t] = "solve"
            /\ frame' = [frame EXCEPT ![t].reduct = ReductOf(t)]
        BY <2>b, <2>9 DEF Loop, Runs, Goto, TypeOK
      <3>2. frame[t].reduct = ReductOf(t)
        BY <1>0, <3>1 DEF TaskInv, LoopState
      <3>3. /\ frame'[t].extension_build = B
            /\ frame'[t].reduct = frame[t].reduct
            /\ frame'[t].clauses = frame[t].clauses
            /\ frame'[t].isSolved = frame[t].isSolved
            /\ frame'[t].model = frame[t].model
        BY <1>0, <3>1, <3>2 DEF TypeOK, Frame
      <3>4. Formula(t)' = Formula(t)
        BY <3>3 DEF Formula
      <3>5. B \subseteq W /\ StillOpen(t, W)
        BY <2>0, <3>1 DEF Covers
      <3>6. StillOpen(t, W)'
        BY <1>0, <3>3, <3>4, <3>5 DEF StillOpen
      <3>. QED
        BY <2>a, <3>1, <3>3, <3>5, <3>6 DEF Covers
    <2>. QED
      BY <2>1, <2>2, <2>3, <2>4, <2>5, <2>6, <2>7, <2>8, <2>9 DEF TaskStep
  <1>. QED
    BY <1>3, <1>4
-----------------------------------------------------------------------------
(***************************************************************************)
(* The whole of solve.                                                     *)
(***************************************************************************)

\* Before the parallel region no task has run.
Untried ==
  phase = "preprocess" => \A t \in TaskId : pc[t] = "none" /\ frame[t] = NoFrame

\* The inductive invariant.
IInv ==
  /\ TypeOK
  /\ TaskInvariant
  /\ PhaseInvariant
  /\ Untried
  /\ ~dangling => FlagMeans /\ RefutationCovered /\ AnswerCorrect

\* The invariant holds when solve is called.
LEMMA InitIInv == Init => IInv
PROOF
  <1> SUFFICES ASSUME Init PROVE IInv
    OBVIOUS
  <1>1. TypeOK
    BY InitTypeOK
  <1>2. \A t \in TaskId : pc[t] = "none" /\ frame[t] = NoFrame
    BY DEF Init
  <1>3. phase = "preprocess" /\ isRejected = FALSE
    BY DEF Init
  <1>4. TaskInvariant
    BY <1>2 DEF TaskInvariant, TaskInv, LoopState, Live, NoFrame
  <1>5. PhaseInvariant
    BY <1>2, <1>3 DEF PhaseInvariant, Live
  <1>. QED
    BY <1>1, <1>2, <1>3, <1>4, <1>5
       DEF IInv, FlagMeans, RefutationCovered, Untried, AnswerCorrect

\* A step that touches no task and neither the input nor the flag.
LEMMA Quiet ==
  ASSUME TaskInvariant,
         UNCHANGED <<attacks, query, activeArgs, isRejected, pc, frame, dangling>>
  PROVE  TaskInvariant'
PROOF
  <1> SUFFICES ASSUME NEW u \in TaskId PROVE TaskInv(u)'
    BY DEF TaskInvariant
  <1>1. TaskInv(u)
    BY DEF TaskInvariant
  <1>. QED
    BY <1>1, Untouched

\* What preprocessing means for the answer: it is right, or the search in
\* the reduct decides.
LEMMA PreProcessed ==
  ASSUME TypeOK
  PROVE  /\ process_result(attacks, Args, query) = "accepted"
              => SkepticallyAccepted(attacks, Args, query)
         /\ process_result(attacks, Args, query) = "rejected"
              => ~SkepticallyAccepted(attacks, Args, query)
         /\ process_result(attacks, Args, query) = "unknown" =>
              /\ query \in process_reduct(attacks, Args, query)
              /\ Refutable(attacks, process_reduct(attacks, Args, query), query)
                   <=> ~SkepticallyAccepted(attacks, Args, query)
PROOF
  <1>1. IsFiniteSet(Args) /\ attacks \in SUBSET (Args \X Args) /\ query \in Args
    BY InputFacts DEF TypeOK
  <1>2. Refutable(attacks, Args, query) <=> ~SkepticallyAccepted(attacks, Args, query)
    BY <1>1, RefutableIffNotAccepted
  <1>. QED
    BY <1>1, <1>2, ContractSound

\* solve returns what preprocessing decided.
LEMMA DecidesIInv ==
  ASSUME IInv, PreProcessDecides
  PROVE  IInv'
PROOF
  <1>1. /\ UNCHANGED <<attacks, query, activeArgs, isRejected, pc, frame, dangling>>
        /\ phase = "preprocess" /\ phase' = "done"
        /\ result' = process_result(attacks, Args, query)
        /\ result' \in {"accepted", "rejected"}
    BY ProcessResultValues DEF PreProcessDecides, input
  <1>2. TypeOK'
    BY NextTypeOK DEF IInv, Next
  <1>3. TaskInvariant'
    BY <1>1, Quiet DEF IInv
  <1>4. PhaseInvariant'
    BY <1>1 DEF IInv, PhaseInvariant, Untried, Live
  <1>5. AnswerCorrect'
    BY <1>1, PreProcessed DEF IInv, AnswerCorrect
  <1>6. FlagMeans'
    BY <1>1 DEF IInv, PhaseInvariant, FlagMeans
  <1>. QED
    BY <1>1, <1>2, <1>3, <1>4, <1>5, <1>6 DEF IInv, RefutationCovered, Untried

\* The first task starts with nothing built, so it covers every refutation.
LEMMA UnknownIInv ==
  ASSUME IInv, NEW th \in Threads, PreProcessUnknown(th)
  PROVE  IInv'
PROOF
  <1>0. Root \in TaskId /\ NoFrame.extension_build = {}
    BY SolverAssumption DEF Root, TaskId, NoFrame
  <1>1. /\ UNCHANGED <<attacks, query, isRejected, dangling>>
        /\ phase = "preprocess" /\ phase' = "parallel"
        /\ process_result(attacks, Args, query) = "unknown"
        /\ activeArgs' = process_reduct(attacks, Args, query)
        /\ pc' = [pc EXCEPT ![Root] = "start"]
    BY DEF PreProcessUnknown, input
  <1>2. TypeOK'
    BY NextTypeOK DEF IInv, Next
  <1>3. /\ \A t \in TaskId : pc[t] = "none" /\ frame[t] = NoFrame
        /\ \A t \in TaskId : pc'[t] = IF t = Root THEN "start" ELSE "none"
    BY <1>0, <1>1 DEF IInv, Untried, TypeOK
  <1>a. /\ frame'[Root].argument = query' /\ frame'[Root].points
        /\ \A t \in TaskId :
             /\ frame'[t].extension_build = {}
             /\ ~frame'[t].isSolved /\ frame'[t].isFirstCalculation
    BY <1>0, <1>1, <1>3 DEF PreProcessUnknown, NoFrame, IInv, TypeOK
  <1>4. ~isRejected'
    BY <1>1 DEF IInv, PhaseInvariant
  <1>5. TaskInvariant'
    <2> SUFFICES ASSUME NEW t \in TaskId PROVE TaskInv(t)'
      BY DEF TaskInvariant
    <2>1. LoopState(t)'
      BY <1>3, <1>a DEF LoopState, Live
    <2>2. ReductOf(t)' = activeArgs' /\ frame'[t].extension_build = {}
      BY <1>a DEF ReductOf
    <2>3. query' \in activeArgs'
      BY <1>1, PreProcessed DEF IInv
    <2>4. Live(t)' => PathOpen(t)'
      BY <1>3, <1>a, <2>2, <2>3, EmptyAdmissible DEF PathOpen, Live
    <2>. QED
      BY <2>1, <2>4 DEF TaskInv
  <1>6. PhaseInvariant'
    BY <1>1, <1>4 DEF PhaseInvariant
  <1>7. RefutationCovered'
    <2> SUFFICES ASSUME Refutable(attacks, activeArgs, query)'
                 PROVE  \E W \in SUBSET activeArgs' :
                          Refutes(attacks', activeArgs', query', W) /\ Covers(Root, W)'
      BY <1>0 DEF RefutationCovered
    <2>1. PICK W \in SUBSET activeArgs' : Refutes(attacks', activeArgs', query', W)
      BY DEF Refutable
    <2>2. Covers(Root, W)'
      BY <1>0, <1>3, <1>a DEF Covers
    <2>. QED
      BY <2>1, <2>2
  <1>. QED
    BY <1>1, <1>2, <1>4, <1>5, <1>6, <1>7 DEF IInv, Untried, FlagMeans, AnswerCorrect

\* A step that changes at most who executes a task.
LEMMA IdleIInv ==
  ASSUME IInv, TypeOK',
         UNCHANGED <<input, phase, result, activeArgs, isRejected, pc, frame, dangling>>
  PROVE  IInv'
PROOF
  <1>0. /\ UNCHANGED <<attacks, query, phase, result, activeArgs, isRejected>>
        /\ UNCHANGED <<pc, frame, dangling>>
    BY DEF input
  <1>1. TaskInvariant'
    BY <1>0, Quiet DEF IInv
  <1>2. PhaseInvariant' /\ Untried' /\ (~dangling => AnswerCorrect' /\ FlagMeans')
    BY <1>0 DEF IInv, PhaseInvariant, Untried, AnswerCorrect, FlagMeans, Live
  <1>3. ~dangling => RefutationCovered'
    <2> SUFFICES ASSUME ~dangling, phase = "parallel", ~isRejected,
                        Refutable(attacks, activeArgs, query)
                 PROVE  \E t \in TaskId, W \in SUBSET activeArgs :
                          Refutes(attacks, activeArgs, query, W) /\ Covers(t, W)'
      BY <1>0 DEF RefutationCovered
    <2>1. PICK t \in TaskId, W \in SUBSET activeArgs :
            Refutes(attacks, activeArgs, query, W) /\ Covers(t, W)
      BY DEF IInv, RefutationCovered
    <2>2. Covers(t, W)'
      BY <1>0, <2>1, CoversUntouched
    <2>. QED
      BY <2>1, <2>2
  <1>. QED
    BY <1>0, <1>1, <1>2, <1>3 DEF IInv

\* A thread that takes a task reads the parameters in the creator's
\* activation; if that is gone, the task has only its own loop to rely on.
LEMMA TakeIInv ==
  ASSUME IInv, TypeOK', NEW th \in Threads, NEW t \in TaskId, TakeTask(th, t)
  PROVE  IInv'
PROOF
  <1>1. CASE ~Stray(t)
    BY <1>1, IdleIInv DEF TakeTask
  <1>2. CASE Stray(t)
    <2>1. /\ UNCHANGED <<attacks, query, phase, result, activeArgs, isRejected, pc>>
          /\ dangling' = TRUE /\ pc[t] = "start"
      BY <1>2 DEF TakeTask, input
    <2>2. PICK a \in Args, p \in BOOLEAN :
            frame' = [frame EXCEPT ![t].argument = a, ![t].points = p]
      BY <1>2 DEF TakeTask
    <2>3. /\ \A u \in TaskId : u # t => frame'[u] = frame[u]
          /\ frame'[t].isSolved = frame[t].isSolved
          /\ frame'[t].isFirstCalculation = frame[t].isFirstCalculation
      BY <2>2 DEF IInv, TypeOK, Frame
    <2>4. TaskInvariant'
      <3>1. TaskInv(t)'
        BY <2>1, <2>3 DEF IInv, TaskInvariant, TaskInv, LoopState, Live
      <3>. QED
        BY <2>1, <2>3, <3>1, Untouched DEF IInv, TaskInvariant
    <2>5. PhaseInvariant' /\ Untried'
      BY <2>1 DEF IInv, PhaseInvariant, Untried, Live
    <2>. QED
      BY <2>1, <2>4, <2>5 DEF IInv
  <1>. QED
    BY <1>1, <1>2

\* At the barrier no task is left; without the flag there was no refutation,
\* with it there is one.
LEMMA FinishIInv ==
  ASSUME IInv, Finish
  PROVE  IInv'
PROOF
  <1>1. /\ UNCHANGED <<attacks, query, activeArgs, isRejected, pc, frame, dangling>>
        /\ phase = "parallel" /\ phase' = "done"
        /\ result' = IF isRejected THEN "rejected" ELSE "accepted"
        /\ \A t \in TaskId : ~Live(t)
    BY DEF Finish, input, Live
  <1>2. TypeOK'
    BY NextTypeOK DEF IInv, Next
  <1>3. TaskInvariant'
    BY <1>1, Quiet DEF IInv
  <1>4. PhaseInvariant'
    BY <1>1 DEF IInv, PhaseInvariant, Live
  <1>5. ASSUME ~dangling
        PROVE  isRejected <=> Refutable(attacks, activeArgs, query)
    <2>1. isRejected => Refutable(attacks, activeArgs, query)
      BY <1>5 DEF IInv, FlagMeans
    <2>2. ASSUME ~isRejected, Refutable(attacks, activeArgs, query) PROVE FALSE
      BY <1>1, <1>5, <2>2, CoversLive DEF IInv, RefutationCovered
    <2>. QED
      BY <2>1, <2>2
  <1>6. ~dangling => (isRejected <=> ~SkepticallyAccepted(attacks, Args, query))
    BY <1>1, <1>5, PreProcessed DEF IInv, PhaseInvariant
  <1>7. ~dangling => AnswerCorrect' /\ FlagMeans'
    BY <1>1, <1>6 DEF AnswerCorrect, IInv, FlagMeans
  <1>. QED
    BY <1>1, <1>2, <1>3, <1>4, <1>7 DEF IInv, RefutationCovered, Untried

\* Every step keeps the invariant.
LEMMA NextIInv ==
  ASSUME IInv, [Next]_vars
  PROVE  IInv'
PROOF
  <1>0. TypeOK'
    BY NextTypeOK DEF IInv
  <1>1. CASE PreProcessDecides
    BY <1>1, DecidesIInv
  <1>2. ASSUME NEW th \in Threads, PreProcessUnknown(th) PROVE IInv'
    BY <1>2, UnknownIInv
  <1>3. ASSUME NEW th \in Threads, NEW t \in TaskId, TakeTask(th, t) PROVE IInv'
    BY <1>0, <1>3, TakeIInv
  <1>4. ASSUME NEW t \in TaskId, TaskStep(t) PROVE IInv'
    <2>1. phase = "parallel" /\ phase' = "parallel" /\ PhaseInvariant'
      BY <1>4, TaskStepPhase, TaskStepFrame DEF IInv
    <2>2. TaskInvariant' /\ dangling' = dangling
      BY <1>4, TaskStepTask, TaskStepFrame DEF IInv
    <2>3. ~dangling => RefutationCovered' /\ FlagMeans'
      BY <1>4, TaskStepCovers, TaskStepFlag DEF IInv
    <2>. QED
      BY <1>0, <2>1, <2>2, <2>3 DEF IInv, Untried, AnswerCorrect
  <1>5. CASE Finish
    BY <1>5, FinishIInv
  <1>6. CASE UNCHANGED vars
    BY <1>0, <1>6, IdleIInv DEF vars
  <1>. QED
    BY <1>1, <1>2, <1>3, <1>4, <1>5, <1>6 DEF Next, Terminated

\* The invariant holds throughout.
LEMMA IInvHolds == Spec => []IInv
PROOF
  <1>1. Init => IInv
    BY InitIInv
  <1>2. IInv /\ [Next]_vars => IInv'
    BY NextIInv
  <1>. QED
    BY <1>1, <1>2, PTL DEF Spec

\* solve answers DS-PR: for every framework, every query, every team, every
\* choice of models by the SAT solver and every schedule of the tasks on
\* which none takes argument and isRejected from an activation that is gone.
THEOREM Correct == Spec => [](~dangling => AnswerCorrect)
PROOF
  <1>1. IInv => (~dangling => AnswerCorrect)
    BY DEF IInv
  <1>. QED
    BY <1>1, IInvHolds, PTL

\* While the query can be refuted and the flag is down, some task is on the
\* way to a refutation: the complement clauses, the paths given up and the
\* early return for a reduct of one argument lose none.  What could lose one
\* is a task that takes another flag for the one of the search.
THEOREM NothingLost == Spec => [](~dangling => RefutationCovered)
PROOF
  <1>1. IInv => (~dangling => RefutationCovered)
    BY DEF IInv
  <1>. QED
    BY <1>1, IInvHolds, PTL

\* As long as no task took its parameters from an activation that is gone,
\* every task has the query and the flag of the search, and what its path
\* has built is admissible and leaves the query open, which is what the
\* early return for a reduct of one argument relies on.
THEOREM PathsOpen == Spec => [](~dangling => QueryStaysOpen)
PROOF
  <1>1. IInv => (~dangling => QueryStaysOpen)
    BY DEF IInv, TaskInvariant, TaskInv, QueryStaysOpen
  <1>. QED
    BY <1>1, IInvHolds, PTL

\* What a task knows at each point of its loop, about the argument and the
\* flag it was called with, holds whatever those are: the exit(1) that the
\* code calls impossible is, also in a task that read them from an
\* activation that was gone.
THEOREM LoopSound == Spec => []LoopInvariant
PROOF
  <1>1. IInv => LoopInvariant
    BY DEF IInv, TaskInvariant, TaskInv, LoopInvariant
  <1>. QED
    BY <1>1, IInvHolds, PTL

\* As long as nothing dangles the flag is raised only for a query that is not
\* sceptically accepted in the whole framework, although the tasks see only
\* its reduct.
THEOREM FlagCorrect == Spec => [](~dangling => RejectionSound)
PROOF
  <1>1. IInv => (~dangling => RejectionSound)
    BY PreProcessed DEF IInv, PhaseInvariant, FlagMeans, RejectionSound
  <1>. QED
    BY <1>1, IInvHolds, PTL

\* Tasks live only inside the parallel region, on the reduct preprocessing
\* delivered, and a raised flag was raised there, whatever the tasks read.
THEOREM PhasesSound == Spec => []PhaseInvariant
PROOF
  <1>1. IInv => PhaseInvariant
    BY DEF IInv
  <1>. QED
    BY <1>1, IInvHolds, PTL

\* The parts together, as the runs check them.
THEOREM InvariantHolds == Spec => [](~dangling => SearchInvariant)
PROOF
  <1>1. IInv => (~dangling => SearchInvariant)
    BY DEF IInv, TaskInvariant, TaskInv, QueryStaysOpen, LoopInvariant, SearchInvariant
  <1>. QED
    BY <1>1, IInvHolds, PTL

-----------------------------------------------------------------------------
(***************************************************************************)
(* When nothing dangles.                                                   *)
(***************************************************************************)

\* A task with copies of its parameters looks nothing up in its creator.
NothingBorrowed ==
  ~ByReference => /\ ~dangling
                  /\ \A t \in TaskId : frame[t].creator = NoTask

\* Only a child that looks its parameters up in its creator can find the
\* creator gone: if the compiler copies argument and isRejected into the
\* task, no schedule makes one dangle.
THEOREM CopiesNeverDangle == Spec => [](~ByReference => ~dangling)
PROOF
  <1>1. Init => NothingBorrowed
    BY DEF Init, NothingBorrowed, NoFrame
  <1>2. TypeOK /\ NothingBorrowed /\ [Next]_vars => NothingBorrowed'
    <2> SUFFICES ASSUME TypeOK, NothingBorrowed, [Next]_vars, ~ByReference
                 PROVE  NothingBorrowed'
      BY DEF NothingBorrowed
    <2>0. ~dangling /\ \A t \in TaskId : frame[t].creator = NoTask
      BY DEF NothingBorrowed
    <2>1. ASSUME NEW t \in TaskId, TaskStep(t) PROVE NothingBorrowed'
      <3>1. dangling' = dangling
        BY <2>1, TaskStepFrame
      <3>2. ASSUME NEW u \in TaskId PROVE frame'[u].creator = NoTask
        <4>0. frame[u] \in Frame /\ frame[t] \in Frame /\ frame[u].creator = NoTask
          BY <2>0 DEF TypeOK
        <4>1. CASE Return(t)
          BY <2>0, <4>1 DEF Return, NoFrame, TypeOK
        <4>2. CASE UNCHANGED frame
          BY <2>0, <4>2
        <4>3. CASE StartEncodes(t)
          BY <4>0, <4>3 DEF StartEncodes, TypeOK, Frame
        <4>4. CASE SolveSat(t)
          BY <4>0, <4>4 DEF SolveSat, TypeOK, Frame
        <4>5. CASE AssignOutput(t)
          BY <4>0, <4>5 DEF AssignOutput, TypeOK, Frame
        <4>6. ASSUME NEW c \in TaskId, Spawn(t, c) PROVE frame'[u].creator = NoTask
          BY <4>0, <4>6 DEF Spawn, TypeOK, Frame
        <4>7. CASE frame' = [frame EXCEPT ![t].reduct = ReductOf(t)]
          BY <4>0, <4>7 DEF TypeOK, Frame
        <4>. QED
          BY <2>1, <4>1, <4>2, <4>3, <4>4, <4>5, <4>6, <4>7
             DEF TaskStep, StartReturns, Recheck, SolveUnsat, RejectEmpty, Reject,
                 AppendOutput, SpawnDeferred, SpawnUndeferred, Loop
      <3>. QED
        BY <2>0, <3>1, <3>2 DEF NothingBorrowed
    <2>2. ASSUME NEW th \in Threads, PreProcessUnknown(th) PROVE NothingBorrowed'
      BY <2>0, <2>2 DEF PreProcessUnknown, NothingBorrowed, TypeOK, Frame
    <2>3. ASSUME NEW th \in Threads, NEW t \in TaskId, TakeTask(th, t)
          PROVE  NothingBorrowed'
      BY <2>0, <2>3 DEF TakeTask, Stray, NothingBorrowed
    <2>4. CASE UNCHANGED <<frame, dangling>>
      BY <2>0, <2>4 DEF NothingBorrowed
    <2>. QED
      BY <2>1, <2>2, <2>3, <2>4 DEF Next, PreProcessDecides, Finish, Terminated, vars
  <1>3. NothingBorrowed => (~ByReference => ~dangling)
    BY DEF NothingBorrowed
  <1>. QED
    BY <1>1, <1>2, <1>3, TypeCorrect, PTL DEF Spec

-----------------------------------------------------------------------------
(***************************************************************************)
(* The sets a task finds, one after the other.                             *)
(***************************************************************************)
\* The set a task holds is the one its complement clause will exclude.
HoldsDecoded(t) ==
  Live(t) /\ frame[t].isSolved =>
    frame[t].initial_set = get_set_from_solver(frame[t].model, frame[t].reduct)

HoldDecoded == \A t \in TaskId : HoldsDecoded(t)

\* A task holds what it decoded until it decodes anew or returns: the reduct
\* computed again at the end of the loop body is the one the model is for.
LEMMA HoldDecodedStep ==
  ASSUME IInv, HoldDecoded, NEW t \in TaskId, TaskStep(t)
  PROVE  HoldDecoded'
PROOF
  <1>0. TypeOK /\ TaskInvariant
    BY DEF IInv
  <1>1. ASSUME NEW u \in TaskId, pc'[u] = pc[u], frame'[u] = frame[u]
        PROVE  HoldsDecoded(u)'
    BY <1>1 DEF HoldDecoded, HoldsDecoded, Live
  <1>2. ASSUME Return(t) PROVE HoldDecoded'
    <2>1. pc'[t] = "done" /\ \A u \in TaskId : u # t => pc'[u] = pc[u] /\ frame'[u] = frame[u]
      BY <1>0, <1>2, ReturnTask
    <2>2. HoldsDecoded(t)'
      BY <2>1 DEF HoldsDecoded, Live
    <2>. QED
      BY <1>1, <2>1, <2>2 DEF HoldDecoded
  <1>3. ASSUME NEW label, Goto(t, label), UNCHANGED frame, Live(t) PROVE HoldDecoded'
    BY <1>0, <1>3 DEF Goto, HoldDecoded, HoldsDecoded, Live, TypeOK
  <1>4. CASE StartReturns(t) \/ RejectEmpty(t) \/ AppendOutput(t)
    BY <1>2, <1>4 DEF StartReturns, RejectEmpty, AppendOutput
  <1>5. CASE StartEncodes(t)
    <2>1. ~frame[t].isSolved
      BY <1>0, <1>5 DEF StartEncodes, Runs, TaskInvariant, TaskInv, LoopState
    <2>2. /\ frame'[t].isSolved = frame[t].isSolved
          /\ \A u \in TaskId : u # t => pc'[u] = pc[u] /\ frame'[u] = frame[u]
      BY <1>0, <1>5 DEF StartEncodes, Goto, TypeOK, Frame
    <2>3. HoldsDecoded(t)'
      BY <2>1, <2>2 DEF HoldsDecoded
    <2>. QED
      BY <1>1, <2>2, <2>3 DEF HoldDecoded
  <1>6. CASE Recheck(t)
    BY <1>2, <1>3, <1>6 DEF Recheck, Runs, Live
  <1>7. CASE SolveSat(t)
    <2>1. HoldsDecoded(t)'
      BY <1>0, <1>7, SolveSatEffect DEF HoldsDecoded
    <2>2. \A u \in TaskId : u # t => pc'[u] = pc[u] /\ frame'[u] = frame[u]
      BY <1>0, <1>7 DEF SolveSat, Goto, TypeOK
    <2>. QED
      BY <1>1, <2>1, <2>2 DEF HoldDecoded
  <1>8. CASE SolveUnsat(t)
    BY <1>2, <1>3, <1>8 DEF SolveUnsat, Runs, Live
  <1>9. CASE Reject(t)
    BY <1>3, <1>9 DEF Reject, Runs, Live
  <1>10. CASE AssignOutput(t)
    <2>1. /\ frame'[t].isSolved = frame[t].isSolved /\ frame'[t].model = frame[t].model
          /\ frame'[t].reduct = frame[t].reduct
          /\ frame'[t].initial_set = frame[t].initial_set
      BY <1>0, <1>10 DEF AssignOutput, TypeOK, Frame
    <2>2. \A u \in TaskId : u # t => pc'[u] = pc[u] /\ frame'[u] = frame[u]
      BY <1>0, <1>10 DEF AssignOutput, Goto, TypeOK
    <2>3. Live(t)
      BY <1>10 DEF AssignOutput, Runs, Live
    <2>4. HoldsDecoded(t)'
      BY <2>1, <2>3 DEF HoldDecoded, HoldsDecoded
    <2>. QED
      BY <1>1, <2>2, <2>4 DEF HoldDecoded
  <1>11. ASSUME NEW c \in TaskId, Spawn(t, c) PROVE HoldDecoded'
    <2>1. pc[c] = "none" /\ pc[t] = "spawn" /\ c # t
      BY <1>11 DEF Spawn, NextFree, Runs
    <2>2. ~frame[c].isSolved
      BY <1>0, <2>1 DEF TaskInvariant, TaskInv, LoopState
    <2>3. frame'[c].isSolved = frame[c].isSolved /\ frame'[t] = frame[t]
      BY <1>0, <1>11, <2>1 DEF Spawn, TypeOK, Frame
    <2>4. \A u \in TaskId \ {t, c} : pc'[u] = pc[u] /\ frame'[u] = frame[u]
      BY <1>0, <1>11 DEF Spawn, TypeOK
    <2>5. HoldsDecoded(c)'
      BY <2>2, <2>3 DEF HoldsDecoded
    <2>6. HoldsDecoded(t)'
      BY <2>1, <2>3 DEF HoldDecoded, HoldsDecoded, Live
    <2>. QED
      BY <1>1, <2>4, <2>5, <2>6 DEF HoldDecoded
  <1>12. CASE Loop(t)
    <2>1. CASE Return(t)
      BY <1>2, <2>1
    <2>2. CASE frame' = [frame EXCEPT ![t].reduct = ReductOf(t)] /\ Goto(t, "solve")
      <3>1. Live(t) /\ frame[t].reduct = ReductOf(t)
        BY <1>0, <1>12 DEF Loop, Runs, Live, TaskInvariant, TaskInv, LoopState
      <3>2. /\ frame'[t].isSolved = frame[t].isSolved /\ frame'[t].model = frame[t].model
            /\ frame'[t].reduct = frame[t].reduct
            /\ frame'[t].initial_set = frame[t].initial_set
        BY <1>0, <1>12, <2>2, <3>1 DEF Loop, TypeOK, Frame
      <3>3. \A u \in TaskId : u # t => pc'[u] = pc[u] /\ frame'[u] = frame[u]
        BY <1>0, <1>12, <2>2 DEF Loop, Goto, TypeOK
      <3>4. HoldsDecoded(t)'
        BY <3>1, <3>2 DEF HoldDecoded, HoldsDecoded
      <3>. QED
        BY <1>1, <3>3, <3>4 DEF HoldDecoded
    <2>. QED
      BY <1>12, <2>1, <2>2 DEF Loop
  <1>. QED
    BY <1>4, <1>5, <1>6, <1>7, <1>8, <1>9, <1>10, <1>11, <1>12
       DEF TaskStep, SpawnDeferred, SpawnUndeferred

\* The steps outside the tasks leave alone what a task holds.
LEMMA HoldDecodedHolds == Spec => []HoldDecoded
PROOF
  <1>1. Init => HoldDecoded
    BY DEF Init, HoldDecoded, HoldsDecoded, Live
  <1>2. IInv /\ HoldDecoded /\ [Next]_vars => HoldDecoded'
    <2> SUFFICES ASSUME IInv, HoldDecoded, [Next]_vars PROVE HoldDecoded'
      OBVIOUS
    <2>1. CASE \E t \in TaskId : TaskStep(t)
      BY <2>1, HoldDecodedStep
    <2>2. CASE UNCHANGED <<pc, frame>>
      BY <2>2 DEF HoldDecoded, HoldsDecoded, Live
    <2>3. ASSUME NEW th \in Threads, PreProcessUnknown(th) PROVE HoldDecoded'
      <3>1. \A t \in TaskId : ~frame[t].isSolved
        BY <2>3 DEF IInv, Untried, PreProcessUnknown, NoFrame
      <3>2. \A t \in TaskId : ~frame'[t].isSolved
        BY <2>3, <3>1 DEF PreProcessUnknown, IInv, TypeOK, Frame
      <3>. QED
        BY <3>2 DEF HoldDecoded, HoldsDecoded
    <2>4. ASSUME NEW th \in Threads, NEW t \in TaskId, TakeTask(th, t), Stray(t)
          PROVE  HoldDecoded'
      <3>1. ~frame[t].isSolved /\ frame[t] \in Frame
        BY <2>4 DEF TakeTask, IInv, TypeOK, TaskInvariant, TaskInv, LoopState
      <3>2. PICK a \in Args, p \in BOOLEAN :
              frame' = [frame EXCEPT ![t].argument = a, ![t].points = p]
        BY <2>4 DEF TakeTask
      <3>3. /\ \A u \in TaskId : u # t => frame'[u] = frame[u]
            /\ ~frame'[t].isSolved
        BY <3>1, <3>2 DEF IInv, TypeOK, Frame
      <3>4. pc' = pc
        BY <2>4 DEF TakeTask
      <3>. QED
        BY <3>3, <3>4 DEF HoldDecoded, HoldsDecoded, Live
    <2>. QED
      BY <2>1, <2>2, <2>3, <2>4
         DEF Next, Terminated, vars, PreProcessDecides, TakeTask, Finish
  <1>. QED
    BY <1>1, <1>2, IInvHolds, PTL DEF Spec

\* The next model leaves out an argument of the set found last, whatever the
\* solver returns: the loop of a task never finds a superset of it again.
THEOREM EnumerationNeverRepeats == Spec => EnumerationAdvances
PROOF
  <1> DEFINE Advance(t) == SolveSat(t) /\ frame[t].isSolved
                             => ~(frame[t].initial_set \subseteq frame'[t].initial_set)
  <1>1. ASSUME IInv, HoldDecoded, NEW t \in TaskId, SolveSat(t), frame[t].isSolved
        PROVE  ~(frame[t].initial_set \subseteq frame'[t].initial_set)
    <2> DEFINE R == frame[t].reduct
    <2>1. PICK m \in Models(NumArgs, R, Formula(t)), S \in SUBSET R :
            S = get_set_from_solver(m, R) /\ frame'[t].initial_set = S
      BY <1>1, SolveSatEffect DEF IInv
    <2>2. frame[t].initial_set = get_set_from_solver(frame[t].model, R)
      BY <1>1 DEF HoldDecoded, HoldsDecoded, SolveSat, Runs, Live
    <2>3. Satisfies(m, add_complement_clause(frame[t].model, R))
      BY <1>1, <2>1 DEF Models, Formula, Satisfies
    <2>4. R \in SUBSET (1..NumArgs) /\ NumArgs \in Nat
      BY <1>1, SolverAssumption DEF IInv, TypeOK, Frame, Args
    <2>5. ~(frame[t].initial_set \subseteq m)
      BY <2>2, <2>3, <2>4, ComplementClause
    <2>. QED
      BY <2>1, <2>5 DEF get_set_from_solver
  <1>2. IInv /\ HoldDecoded => \A t \in TaskId : Advance(t)
    BY <1>1
  <1>3. IInv /\ HoldDecoded => [\A t \in TaskId : Advance(t)]_vars
    BY <1>2
  <1>. QED
    BY <1>3, IInvHolds, HoldDecodedHolds, PTL DEF EnumerationAdvances

-----------------------------------------------------------------------------
(***************************************************************************)
(* The team of tasks implements the decision procedure (module Decision).  *)
(***************************************************************************)
\* solve has not returned.
NoAnswerYet == phase # "done" => result = "none"

\* There is no answer before solve returns.
LEMMA NoAnswerYetHolds == Spec => []NoAnswerYet
PROOF
  <1>1. Init => NoAnswerYet
    BY DEF Init, NoAnswerYet
  <1>2. NoAnswerYet /\ [Next]_vars => NoAnswerYet'
    BY TaskStepFrame
       DEF NoAnswerYet, Next, PreProcessDecides, PreProcessUnknown, TakeTask, Finish,
           Terminated, vars
  <1>. QED
    BY <1>1, <1>2, PTL DEF Spec

\* The abstract specification judges answers by the same reference.
LEMMA SameReference ==
  Promise!Accepted <=> SkepticallyAccepted(attacks, Args, query)
PROOF
  <1>1. \A A, S : Promise!Admissible(attacks, A, S) <=> Admissible(attacks, A, S)
    BY DEF Admissible, Promise!Admissible, ConflictFree, Promise!ConflictFree, Defends,
           Promise!Defends
  <1>2. \A A, E : Promise!Preferred(attacks, A, E) <=> Preferred(attacks, A, E)
    BY <1>1 DEF Preferred, Promise!Preferred
  <1>. QED
    BY <1>2 DEF Promise!Accepted, SkepticallyAccepted, Promise!SkepticallyAccepted

\* A task answers nothing; when it raises the flag it refutes the query.
LEMMA TaskStepRefutes ==
  ASSUME IInv, IInv', ~dangling', NoAnswerYet, NEW t \in TaskId, TaskStep(t)
  PROVE  Promise!Refute \/ UNCHANGED <<attacks, query, isRejected, result>>
PROOF
  <1>1. UNCHANGED <<attacks, query, phase, result>>
    BY TaskStepFrame
  <1>2. CASE isRejected' = TRUE
    <2>1. result = "none"
      BY StepsAreLive DEF NoAnswerYet, IInv, PhaseInvariant
    <2>2. ~SkepticallyAccepted(attacks, Args, query)
      BY <1>1, <1>2, PreProcessed DEF IInv, PhaseInvariant, FlagMeans
    <2>. QED
      BY <1>1, <1>2, <2>1, <2>2, SameReference DEF Promise!Refute
  <1>3. CASE UNCHANGED isRejected
    BY <1>1, <1>3
  <1>4. CASE RejectEmpty(t) \/ Reject(t)
    <2>1. isRejected \in BOOLEAN /\ frame[t].points \in BOOLEAN
      BY DEF IInv, TypeOK, Frame
    <2>2. isRejected' = TRUE \/ isRejected' = isRejected
      BY <1>4, <2>1 DEF RejectEmpty, Reject, RaiseFlag
    <2>. QED
      BY <1>2, <1>3, <2>2
  <1>5. CASE StartReturns(t) \/ StartEncodes(t) \/ Recheck(t)
    BY <1>3, <1>5 DEF StartReturns, StartEncodes, Recheck
  <1>6. CASE SolveSat(t) \/ SolveUnsat(t)
    <2>1. UNCHANGED isRejected
      BY <1>6, Zenon DEF SolveSat, SolveUnsat
    <2>. QED
      BY <1>3, <2>1
  <1>7. CASE AssignOutput(t) \/ AppendOutput(t)
    BY <1>3, <1>7 DEF AssignOutput, AppendOutput
  <1>8. CASE \E c \in TaskId : SpawnDeferred(t, c) \/ SpawnUndeferred(t, c)
    BY <1>3, <1>8 DEF SpawnDeferred, SpawnUndeferred
  <1>9. CASE Loop(t)
    BY <1>3, <1>9 DEF Loop
  <1>. QED
    BY <1>4, <1>5, <1>6, <1>7, <1>8, <1>9 DEF TaskStep

\* As long as no task takes its parameters from an activation that is gone,
\* solve keeps what Decision promises, its liveness aside: it starts with the
\* question, raises the flag only for a query that is not accepted and never
\* takes it back, and answers once, rightly; every other step of a task, of
\* preprocessing or of the runtime is invisible.
THEOREM KeepsPromiseSafely == Spec /\ []~dangling => Promise!Spec
PROOF
  <1>1. Init => Promise!Init
    BY DEF Init, Promise!Init
  <1>2. ASSUME IInv, IInv', ~dangling', NoAnswerYet, [Next]_vars
        PROVE  [Promise!Next]_(Promise!vars)
    <2>1. ASSUME phase # "done", phase' = "done", result' \in {"accepted", "rejected"},
                 UNCHANGED <<attacks, query, isRejected>>
          PROVE  Promise!Answer
      <3>1. result = "none"
        BY <1>2, <2>1 DEF NoAnswerYet
      <3>2. result' = "accepted" <=> SkepticallyAccepted(attacks, Args, query)
        BY <1>2, <2>1 DEF IInv, AnswerCorrect
      <3>. QED
        BY <2>1, <3>1, <3>2, SameReference DEF Promise!Answer
    <2>2. CASE PreProcessDecides
      <3>1. /\ phase = "preprocess" /\ phase' = "done"
            /\ UNCHANGED <<attacks, query, isRejected>>
        BY <2>2 DEF PreProcessDecides, input
      <3>2. result' \in {"accepted", "rejected"}
        BY <2>2 DEF PreProcessDecides, process_result
      <3>. QED
        BY <2>1, <3>1, <3>2 DEF Promise!Next
    <2>3. ASSUME NEW th \in Threads, PreProcessUnknown(th)
          PROVE  UNCHANGED Promise!vars
      BY <2>3 DEF PreProcessUnknown, input, Promise!vars
    <2>4. ASSUME NEW th \in Threads, NEW t \in TaskId, TakeTask(th, t)
          PROVE  UNCHANGED Promise!vars
      BY <2>4 DEF TakeTask, input, Promise!vars
    <2>5. ASSUME NEW t \in TaskId, TaskStep(t)
          PROVE  [Promise!Next]_(Promise!vars)
      BY <1>2, <2>5, TaskStepRefutes DEF Promise!Next, Promise!vars
    <2>6. CASE Finish
      BY <2>1, <2>6 DEF Finish, input, Promise!Next
    <2>7. CASE UNCHANGED vars
      BY <2>7 DEF vars, input, Promise!vars
    <2>. QED
      BY <1>2, <2>2, <2>3, <2>4, <2>5, <2>6, <2>7 DEF Next, Terminated
  <1>. QED
    BY <1>1, <1>2, IInvHolds, NoAnswerYetHolds, PTL DEF Spec, Promise!Spec

\* A compiler that copies argument and isRejected into the tasks, as GCC
\* does, turns the source into a program that answers rightly on every
\* schedule; "shared" alone does not promise as much.
THEOREM CopiesSuffice ==
  ASSUME ~ByReference
  PROVE  Spec => []AnswerCorrect /\ Promise!Spec
PROOF
  <1>1. (~ByReference => ~dangling) => ~dangling
    OBVIOUS
  <1>2. (~dangling => AnswerCorrect) /\ ~dangling => AnswerCorrect
    OBVIOUS
  <1>. QED
    BY <1>1, <1>2, CopiesNeverDangle, Correct, KeepsPromiseSafely, PTL

=============================================================================
