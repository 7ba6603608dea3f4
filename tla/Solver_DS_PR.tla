---------------------------- MODULE Solver_DS_PR ----------------------------
(***************************************************************************)
(* Solver_DS_PR.cpp: solve, check_rejection_parallel and the recursive     *)
(* OpenMP task check_rejection_parallel_recursiv.                          *)
(*                                                                         *)
(* A task is one activation of check_rejection_parallel_recursiv.  Its     *)
(* local variables are the record frame[t]; pc[t] names the next access to *)
(* state that other tasks see (isRejected, output_extension, the task      *)
(* pool) or the next SAT call; the purely local code between two of these  *)
(* belongs to the step before it.  A thread of the team executes tasks     *)
(* from the pool, or runs a task it creates at once (an undeferred task),  *)
(* in which case the creating task waits for it.                           *)
(*                                                                         *)
(* The parameters argument and isRejected are shared with the child task   *)
(* but live in the activation that creates it, which returns without       *)
(* waiting for its children.  Whether a child that starts later still      *)
(* finds them depends on the compiler: see ByReference.                    *)
(***************************************************************************)
EXTENDS PreProcContract, Encoding

CONSTANTS
  NumArgs,      \* framework.num_args
  Frameworks,   \* the attack relations considered
  Queries,      \* the arguments asked for
  MaxTasks,     \* bound on the number of tasks ever created
  Threads,      \* the OpenMP team
  NoThread,
  ByReference   \* a compiled task reads the shared parameters argument and
                \* isRejected in its creator's activation, as "shared" says;
                \* otherwise it has copies (GCC, for scalars no task assigns)

Args   == 1..NumArgs
TaskId == 1..MaxTasks
Root   == 1             \* the call made inside "omp single"
NoTask == 0

ASSUME SolverAssumption ==
  /\ NumArgs \in Nat \ {0}
  /\ MaxTasks \in Nat \ {0}
  /\ Frameworks \subseteq SUBSET (Args \X Args)
  /\ Queries \subseteq Args
  /\ NoThread \notin Threads
  /\ ByReference \in BOOLEAN

VARIABLES
  attacks, query,     \* the arguments of solve; nothing assigns them
  phase, result,      \* progress and return value of solve
  activeArgs,         \* initial_reduct, shared by all tasks
  isRejected,         \* the shared flag check_rejection_parallel allocates
  output_extension,   \* proof_extension, shared and written without a lock
  pc, frame,          \* per task: control state and local variables
  worker,             \* per task: the thread executing it
  waits_for,          \* per task: the undeferred child it waits for
  dangling            \* some task has read its parameters where the activation
                      \* that held them was gone

input == <<attacks, query>>
sched == <<worker, waits_for>>
vars  == <<input, phase, result, activeArgs, isRejected, output_extension,
           pc, frame, sched, dangling>>

\* points: the parameter isRejected of the activation leads to the flag.
\* creator: the task in whose activation argument and isRejected are looked up.
NoFrame == [argument |-> 0, points |-> FALSE, creator |-> NoTask,
            extension_build |-> {}, reduct |-> {}, clauses |-> {}, model |-> {},
            isSolved |-> FALSE, isFirstCalculation |-> TRUE,
            initial_set |-> {}, rest |-> {}]

Init ==
  /\ attacks \in Frameworks
  /\ query \in Queries
  /\ phase = "preprocess"
  /\ result = "none"
  /\ activeArgs = {}
  /\ isRejected = FALSE
  /\ output_extension = {}
  /\ pc = [t \in TaskId |-> "none"]
  /\ frame = [t \in TaskId |-> NoFrame]
  /\ worker = [t \in TaskId |-> NoThread]
  /\ waits_for = [t \in TaskId |-> NoTask]
  /\ dangling = FALSE

(***************************************************************************)
(* solve: preprocessing decides, or hands the reduct to the search.        *)
(***************************************************************************)
PreProcessDecides ==
  /\ phase = "preprocess"
  /\ process_result(attacks, Args, query) # "unknown"
  /\ result' = process_result(attacks, Args, query)
  /\ phase' = "done"
  /\ UNCHANGED <<input, activeArgs, isRejected, output_extension, pc, frame, sched, dangling>>

\* check_rejection_parallel up to the single region, run by one of the team.
PreProcessUnknown(th) ==
  /\ phase = "preprocess"
  /\ process_result(attacks, Args, query) = "unknown"
  /\ activeArgs' = process_reduct(attacks, Args, query)
  /\ phase' = "parallel"
  /\ pc' = [pc EXCEPT ![Root] = "start"]
  /\ worker' = [worker EXCEPT ![Root] = th]
  /\ frame' = [frame EXCEPT ![Root].argument = query, ![Root].points = TRUE]
  /\ UNCHANGED <<input, result, isRejected, output_extension, waits_for, dangling>>

(***************************************************************************)
(* The OpenMP runtime, external.                                           *)
(***************************************************************************)
Runs(t, label) ==
  pc[t] = label /\ worker[t] # NoThread /\ waits_for[t] = NoTask

\* The activation that holds the parameters task t is about to read is gone.
Stray(t) == frame[t].creator # NoTask /\ pc[frame[t].creator] = "done"

\* A thread with nothing to do takes a deferred task from the pool and calls
\* the function with what it finds for argument and isRejected.  After the
\* creator has returned that is whatever its stack holds by then.
TakeTask(th, t) ==
  /\ pc[t] = "start"
  /\ worker[t] = NoThread
  /\ \A u \in TaskId : worker[u] # th
  /\ worker' = [worker EXCEPT ![t] = th]
  /\ IF Stray(t)
     THEN /\ \E a \in Args, p \in BOOLEAN :
               frame' = [frame EXCEPT ![t].argument = a, ![t].points = p]
          /\ dangling' = TRUE
     ELSE UNCHANGED <<frame, dangling>>
  /\ UNCHANGED <<input, phase, result, activeArgs, isRejected, output_extension,
                 pc, waits_for>>

(***************************************************************************)
(* One activation of check_rejection_parallel_recursiv.                    *)
(***************************************************************************)
Goto(t, label) == pc' = [pc EXCEPT ![t] = label]

\* Return frees the locals; a task that waited for t continues.
Return(t) ==
  /\ Goto(t, "done")
  /\ frame' = [frame EXCEPT ![t] = NoFrame]
  /\ worker' = [worker EXCEPT ![t] = NoThread]
  /\ waits_for' = [u \in TaskId |-> IF waits_for[u] = t THEN NoTask ELSE waits_for[u]]

\* What an atomic read of *isRejected may return to task t, and what its
\* atomic write leaves in the flag.
MayRead(t, value) == frame[t].points => isRejected = value
RaiseFlag(t) == isRejected' = (isRejected \/ frame[t].points)

ReductOf(t) ==
  IF frame[t].extension_build = {} THEN activeArgs
  ELSE get_reduct_set(activeArgs, attacks, frame[t].extension_build)

\* Faulty variant: a reduct of two arguments is skipped too.
StartReturnsEarly(t) ==
  /\ Runs(t, "start")
  /\ MayRead(t, TRUE) \/ Cardinality(ReductOf(t)) < 3
  /\ Return(t)
  /\ UNCHANGED <<input, phase, result, activeArgs, isRejected, output_extension, dangling>>

\* The first read of the flag, and the exit for a reduct of one argument.
StartReturns(t) ==
  /\ Runs(t, "start")
  /\ MayRead(t, TRUE) \/ Cardinality(ReductOf(t)) < 2
  /\ Return(t)
  /\ UNCHANGED <<input, phase, result, activeArgs, isRejected, output_extension, dangling>>

StartEncodes(t) ==
  /\ Runs(t, "start")
  /\ MayRead(t, FALSE)
  /\ Cardinality(ReductOf(t)) >= 2
  /\ frame' = [frame EXCEPT
       ![t].reduct  = ReductOf(t),
       ![t].clauses = add_clauses_nonempty_admissible_set(NumArgs, attacks, ReductOf(t))]
  /\ Goto(t, "recheck")
  /\ UNCHANGED <<input, phase, result, activeArgs, isRejected, output_extension, sched, dangling>>

\* The second read of the flag, after the encoding.
Recheck(t) ==
  /\ Runs(t, "recheck")
  /\ \/ MayRead(t, TRUE) /\ Return(t)
     \/ MayRead(t, FALSE) /\ Goto(t, "solve") /\ UNCHANGED <<frame, sched>>
  /\ UNCHANGED <<input, phase, result, activeArgs, isRejected, output_extension, dangling>>

\* The formula solve() is called with: the head of the loop adds the
\* complement of the model found last.
Formula(t) ==
  IF frame[t].isSolved
  THEN frame[t].clauses \cup add_complement_clause(frame[t].model, frame[t].reduct)
  ELSE frame[t].clauses

\* Where the loop body goes with the decoded set; "exit" is the exit(1) the
\* code calls impossible.  The continue of an aborted path goes back to the
\* loop head with the value of the flag it read before, which was FALSE.
AfterSolve(argument, isFirst, S) ==
  IF S = {} THEN IF isFirst THEN "rejectEmpty" ELSE "exit"
  ELSE IF check_rejection(argument, S, attacks) THEN "reject"
  ELSE IF check_terminate_extension_build(argument, S) THEN "solve"
  ELSE "spawn"

\* Faulty variant: *isSolved is set at the end of the loop body, which the
\* continue of an aborted path skips.
SolveSatLate(t) ==
  /\ Runs(t, "solve")
  /\ \E m \in Models(NumArgs, frame[t].reduct, Formula(t)) :
       LET S == get_set_from_solver(m, frame[t].reduct) IN
       /\ frame' = [frame EXCEPT
            ![t].clauses = Formula(t),
            ![t].isSolved = AfterSolve(frame[t].argument, FALSE, S) # "solve",
            ![t].model = m,
            ![t].initial_set = S,
            ![t].isFirstCalculation = @ /\ S = {}]
       /\ Goto(t, AfterSolve(frame[t].argument, frame[t].isFirstCalculation, S))
  /\ UNCHANGED <<input, phase, result, activeArgs, isRejected, output_extension, sched, dangling>>

SolveSat(t) ==
  /\ Runs(t, "solve")
  /\ \E m \in Models(NumArgs, frame[t].reduct, Formula(t)) :
       LET S == get_set_from_solver(m, frame[t].reduct) IN
       /\ frame' = [frame EXCEPT
            ![t].clauses = Formula(t),
            ![t].isSolved = TRUE,
            ![t].model = m,
            ![t].initial_set = S,
            ![t].isFirstCalculation = @ /\ S = {}]
       /\ Goto(t, AfterSolve(frame[t].argument, frame[t].isFirstCalculation, S))
  /\ UNCHANGED <<input, phase, result, activeArgs, isRejected, output_extension, sched, dangling>>

SolveUnsat(t) ==
  /\ Runs(t, "solve")
  /\ Models(NumArgs, frame[t].reduct, Formula(t)) = {}
  /\ IF frame[t].isFirstCalculation
     THEN Goto(t, "rejectEmpty") /\ UNCHANGED <<frame, sched>>
     ELSE Return(t)
  /\ UNCHANGED <<input, phase, result, activeArgs, isRejected, output_extension, dangling>>

\* Nothing can be added to extension_build: the query is rejected.
RejectEmpty(t) ==
  /\ Runs(t, "rejectEmpty")
  /\ RaiseFlag(t)
  /\ Return(t)
  /\ UNCHANGED <<input, phase, result, activeArgs, output_extension, dangling>>

\* The initial set attacks the query: first the flag, then the proof.
Reject(t) ==
  /\ Runs(t, "reject")
  /\ RaiseFlag(t)
  /\ Goto(t, "assign")
  /\ UNCHANGED <<input, phase, result, activeArgs, output_extension, frame, sched, dangling>>

\* ExtendExtension: the merged list holds the members of both.
ExtendExtension(t) == frame[t].extension_build \cup frame[t].initial_set

Lesser(i, j) == IF i < j THEN i ELSE j

\* output_extension = new_extension_build.  "#pragma atomic write" lacks
\* "omp" and has no effect, so two tasks may be inside std::list::operator=
\* at once.  It overwrites the elements that are there and drops the surplus
\* (AssignOutput), then splices in what is missing (AppendOutput).  While
\* another task is inside too, this is a data race on the nodes of the list
\* and any of the elements in play may be lost.
Inside(u) == pc[u] \in {"assign", "append"}
Races(t)  == \E u \in TaskId : u # t /\ Inside(u)

AssignOutput(t) ==
  /\ Runs(t, "assign")
  /\ \E kept \in SUBSET ExtendExtension(t) :
       /\ Cardinality(kept) =
            Lesser(Cardinality(output_extension), Cardinality(ExtendExtension(t)))
       /\ frame' = [frame EXCEPT ![t].rest = ExtendExtension(t) \ kept]
       /\ \/ output_extension' = kept
          \/ Races(t) /\ output_extension' \in SUBSET (kept \cup output_extension)
  /\ Goto(t, "append")
  /\ UNCHANGED <<input, phase, result, activeArgs, isRejected, sched, dangling>>

AppendOutput(t) ==
  /\ Runs(t, "append")
  /\ LET spliced == output_extension \cup frame[t].rest IN
       \/ output_extension' = spliced
       \/ Races(t) /\ output_extension' \in SUBSET spliced
  /\ Return(t)
  /\ UNCHANGED <<input, phase, result, activeArgs, isRejected, dangling>>

\* "omp task": the child copies new_extension_build (firstprivate), shares
\* argument and isRejected (the values if the compiler copies them, else the
\* way to t's activation too), and is put in the pool, or is run at once by
\* the creating thread.  priority() is a hint and restricts nothing.
NextFree(c) == pc[c] = "none" /\ \A d \in TaskId : d < c => pc[d] # "none"

Spawn(t, c) ==
  /\ NextFree(c)
  /\ Runs(t, "spawn")
  /\ pc' = [pc EXCEPT ![t] = "loop", ![c] = "start"]
  /\ frame' = [frame EXCEPT
       ![c].extension_build = ExtendExtension(t),
       ![c].argument = frame[t].argument,
       ![c].points = frame[t].points,
       ![c].creator = IF ByReference THEN t ELSE NoTask]

SpawnDeferred(t, c) ==
  /\ Spawn(t, c)
  /\ UNCHANGED <<input, phase, result, activeArgs, isRejected, output_extension, sched, dangling>>

SpawnUndeferred(t, c) ==
  /\ Spawn(t, c)
  /\ worker' = [worker EXCEPT ![c] = worker[t]]
  /\ waits_for' = [waits_for EXCEPT ![t] = c]
  /\ UNCHANGED <<input, phase, result, activeArgs, isRejected, output_extension, dangling>>

\* The end of the loop body: recompute the reduct, read the flag.
Loop(t) ==
  /\ Runs(t, "loop")
  /\ \/ MayRead(t, TRUE) /\ Return(t)
     \/ /\ MayRead(t, FALSE)
        /\ frame' = [frame EXCEPT ![t].reduct = ReductOf(t)]
        /\ Goto(t, "solve")
        /\ UNCHANGED sched
  /\ UNCHANGED <<input, phase, result, activeArgs, isRejected, output_extension, dangling>>

(***************************************************************************)
(* The barrier that ends the parallel region waits for every task; then    *)
(* check_rejection_parallel reads the flag and solve negates it.           *)
(***************************************************************************)
Finish ==
  /\ phase = "parallel"
  /\ \A t \in TaskId : pc[t] \in {"none", "done"}
  /\ phase' = "done"
  /\ result' = IF isRejected THEN "rejected" ELSE "accepted"
  /\ UNCHANGED <<input, activeArgs, isRejected, output_extension, pc, frame, sched, dangling>>

\* solve has returned.
Terminated == phase = "done" /\ UNCHANGED vars

TaskStep(t) ==
  \/ StartReturns(t) \/ StartEncodes(t) \/ Recheck(t)
  \/ SolveSat(t) \/ SolveUnsat(t)
  \/ RejectEmpty(t) \/ Reject(t) \/ AssignOutput(t) \/ AppendOutput(t)
  \/ (\E c \in TaskId : SpawnDeferred(t, c) \/ SpawnUndeferred(t, c))
  \/ Loop(t)

Next ==
  \/ PreProcessDecides
  \/ \E th \in Threads : PreProcessUnknown(th)
  \/ \E th \in Threads, t \in TaskId : TakeTask(th, t)
  \/ \E t \in TaskId : TaskStep(t)
  \/ Finish
  \/ Terminated

Spec == Init /\ [][Next]_vars

\* The operating system keeps running the team as long as it has work.
FairSpec == Spec /\ WF_vars(Next)

-----------------------------------------------------------------------------
(***************************************************************************)
(* Properties.                                                             *)
(***************************************************************************)
Labels == {"none", "start", "recheck", "solve", "rejectEmpty", "reject", "assign",
           "append", "spawn", "loop", "exit", "done"}

Frame == [argument : Args \cup {0}, points : BOOLEAN, creator : TaskId \cup {NoTask},
          extension_build : SUBSET Args, reduct : SUBSET Args,
          clauses : SUBSET SUBSET Int, model : SUBSET Int,
          isSolved : BOOLEAN, isFirstCalculation : BOOLEAN,
          initial_set : SUBSET Args, rest : SUBSET Args]

\* Every variable keeps its C++ type.
TypeOK ==
  /\ attacks \in SUBSET (Args \X Args)
  /\ query \in Args
  /\ phase \in {"preprocess", "parallel", "done"}
  /\ result \in {"none", "accepted", "rejected"}
  /\ activeArgs \in SUBSET Args
  /\ isRejected \in BOOLEAN
  /\ output_extension \in SUBSET Args
  /\ pc \in [TaskId -> Labels]
  /\ frame \in [TaskId -> Frame]
  /\ worker \in [TaskId -> Threads \cup {NoThread}]
  /\ waits_for \in [TaskId -> TaskId \cup {NoTask}]
  /\ dangling \in BOOLEAN

\* solve returns true iff the query is in every preferred extension of the
\* whole framework, whatever the SAT solver returns and however the tasks
\* interleave (Solver_DS_PR.h: "TRUE iff the argument is sceptical accepted").
\* With ByReference it needs more: that no task starts after the activation
\* that created it is gone.
AnswerCorrect ==
  phase = "done" =>
    (result = "accepted" <=> SkepticallyAccepted(attacks, Args, query))

\* The tasks that have work to do or to hand on.
Live(t) == pc[t] \notin {"none", "done"}

\* Every path keeps the query open: the task has the query and the flag of
\* the search, what it has built is admissible in the preprocessed framework,
\* and the query is still in its reduct, so a
\* reduct of one argument is the query ("this has to be the argument to
\* check", comment at the early return).
PathOpen(t) ==
  /\ frame[t].argument = query
  /\ frame[t].points
  /\ Admissible(attacks, activeArgs, frame[t].extension_build)
  /\ query \in ReductOf(t)

QueryStaysOpen == \A t \in TaskId : Live(t) => PathOpen(t)

\* The clauses of the encoding of the reduct a task works on.
EncodingOf(t) == add_clauses_nonempty_admissible_set(NumArgs, attacks, frame[t].reduct)

\* What a task knows at each point of its loop: the clauses still encode the
\* reduct of what it built, the two flags tell whether a model was found,
\* the set it holds is admissible, and where it goes follows from that set.
\* In particular exit(1) at "impossible that empty IS calculated and is not
\* first calculation" is never reached.
LoopState(t) ==
  /\ pc[t] # "exit"
  /\ pc[t] \in {"none", "start", "recheck"} =>
       ~frame[t].isSolved /\ frame[t].isFirstCalculation
  /\ Live(t) /\ pc[t] # "start" =>
       frame[t].reduct = ReductOf(t) /\ EncodingOf(t) \subseteq frame[t].clauses
  /\ pc[t] \in {"recheck", "solve"} /\ ~frame[t].isSolved =>
       frame[t].isFirstCalculation /\ frame[t].clauses = EncodingOf(t)
  /\ pc[t] = "solve" /\ frame[t].isSolved => ~frame[t].isFirstCalculation
  /\ pc[t] \in {"spawn", "loop"} => frame[t].isSolved /\ ~frame[t].isFirstCalculation
  /\ pc[t] \in {"spawn", "reject", "assign", "append"} =>
       Admissible(attacks, frame[t].reduct, frame[t].initial_set)
  /\ pc[t] = "spawn" =>
       /\ frame[t].argument \notin frame[t].initial_set
       /\ ~check_rejection(frame[t].argument, frame[t].initial_set, attacks)
  /\ pc[t] = "reject" => check_rejection(frame[t].argument, frame[t].initial_set, attacks)
  /\ pc[t] = "rejectEmpty" =>
       \A S \in SUBSET frame[t].reduct : Admissible(attacks, frame[t].reduct, S) => S = {}
  /\ pc[t] \in {"assign", "append"} /\ frame[t].points => isRejected

LoopInvariant == \A t \in TaskId : LoopState(t)

\* Tasks live only between preprocessing and the return of solve, on the
\* reduct preprocessing delivered.
PhaseInvariant ==
  /\ \A t \in TaskId : Live(t) => phase = "parallel"
  /\ phase = "preprocess" => ~isRejected
  /\ phase = "parallel" \/ isRejected =>
       /\ process_result(attacks, Args, query) = "unknown"
       /\ activeArgs = process_reduct(attacks, Args, query)

\* The flag is up only for a query that can be refuted in the reduct.
FlagMeans == isRejected => Refutable(attacks, activeArgs, query)

\* W is a refutation of the query that task t will still come across: t has
\* not blocked it, or is about to hand it to a child, or is about to reject.
StillOpen(t, W) ==
  LET added == W \ frame[t].extension_build IN
  added # {} /\ Satisfies(SetModel(NumArgs, attacks, frame[t].reduct, added), Formula(t))

Covers(t, W) ==
  \/ pc[t] \in {"reject", "rejectEmpty"}
  \/ pc[t] = "spawn" /\ ExtendExtension(t) \subseteq W
  \/ /\ frame[t].extension_build \subseteq W
     /\ \/ pc[t] \in {"start", "recheck"}
        \/ pc[t] = "solve" /\ ~frame[t].isSolved
        \/ pc[t] \in {"solve", "spawn", "loop"} /\ StillOpen(t, W)

\* No refutation is ever lost: while the query can be refuted and the flag
\* is not up, some task is on the way to a refutation.
RefutationCovered ==
  phase = "parallel" /\ ~isRejected /\ Refutable(attacks, activeArgs, query)
    => \E t \in TaskId, W \in SUBSET activeArgs :
         Refutes(attacks, activeArgs, query, W) /\ Covers(t, W)

\* The flag is raised only for a query that some preferred extension of the
\* whole framework leaves out.
RejectionSound ==
  isRejected => ~SkepticallyAccepted(attacks, Args, query)

\* What holds at every point of every task, whatever the others do.
SearchInvariant == QueryStaysOpen /\ LoopInvariant /\ PhaseInvariant /\ FlagMeans

\* The set a task decodes never contains the one it decoded before: the
\* complement clause rules out the supersets of an explored set too.
EnumerationAdvances ==
  [][\A t \in TaskId :
       SolveSat(t) /\ frame[t].isSolved
         => ~(frame[t].initial_set \subseteq frame'[t].initial_set)]_vars

\* The list solve hands back with a rejection, when it hands back one, is
\* part of a preferred extension that attacks the query.
ProofExtensionSound ==
  phase = "done" /\ output_extension # {} =>
    /\ result = "rejected"
    /\ \E a \in output_extension : <<a, query>> \in attacks
    /\ \E E \in SUBSET Args : /\ Preferred(attacks, Args, E)
                             /\ output_extension \subseteq E

\* The team of tasks, seen through the flag and the value returned, is the
\* decision procedure solve promises.
Promise == INSTANCE Decision WITH refuted <- isRejected, answer <- result

\* It answers once and correctly, the flag goes up only for a query with a
\* refutation and never down again, and no schedule of the team and no
\* choice of models keeps the search going for ever.
KeepsPromise == Promise!FairSpec
=============================================================================
