# AF_Analyzer in TLA+

AF_Analyzer decides one question, DS-PR: given an abstract argumentation
framework (a set of arguments and an attack relation) and a query argument, is
the query in *every* preferred extension?  The program answers `YES` or `NO`;
with `NO` it hands back a list of arguments meant to prove the answer.  It
parses a file, preprocesses the framework, and lets OpenMP tasks enumerate
admissible sets with a SAT solver each.  The SAT solver, CaDiCaL, is part of the
repository (`src/lib/cadical`) and by far the largest part of its code.

This directory models the program from the command line to the search of the
SAT solver, checks the models with TLC, and proves with TLAPS the main properties of the
program's own search and of what CaDiCaL does to a formula.

## 1. Inventory

### The program (`src/src`, `src/include`)

| Component | State | Operations | Works with |
|---|---|---|---|
| `Solver_DS_PR.cpp` | flag `*isRejected`, list `output_extension`, both shared by all tasks; per task `extension_build`, `reduct`, a SAT solver, `*isSolved`, `initial_set` | `solve`, `check_rejection_parallel`, the recursive task `check_rejection_parallel_recursiv` | calls all of the following; OpenMP runs the tasks |
| `PreProcessor_DS_PR.cpp` | `AF::distance_to_query` (survives the call), list of the cone, `num_attacker`, queue of unattacked arguments, `out_reduct` | `process`, `calculate_cone_influence`, `reduce_by_grounded` | called by `solve`; reads and marks the framework |
| `Encoding.cpp`, `Decoding.cpp` | none (adds clauses to the task's solver) | clauses for non-empty admissible sets, complement clause, decoding | called by the task |
| `SatSolver_cadical.cpp` | none of its own | `add_clause`, `add_clause_short`, `solve`, `check_var_model` | wraps the class `Solver` of CaDiCaL |
| `Reduct.cpp`, `ScepticalCheck.cpp`, `Prioritizer.cpp`, `VectorBitSet.h` | vectors and bitsets of the same members | `get_reduct`, `get_reduct_set`, `check_rejection`, `check_terminate_extension_build`, `calculate_priority` | called by the task and by preprocessing |
| `AF.cpp` | attacks, attackers, victims, distances | `initialize`, `add_attack`, `finish_initilization` | filled by the parser, read by everything |
| `Parser_iccma.cpp` | the file position | `parse_af` | fills the framework |
| `Main.cpp`, `Enums.cpp` | command line options | `execute`, `main` | parse, solve, print |
| `Tests.cpp` | none | runs `solve` for several queries on one framework | a second caller of `solve`; not modelled |
| `Printer.cpp`, `MemoryWatchDog.c` | none | output, resource readings | not modelled |

### The SAT solver (`src/lib/cadical/src`)

| Component | State | Operations |
|---|---|---|
| interface (`solver.cpp`, `external.cpp`) | state of the class, the clause or constraint being added, assumptions, the extended model | `add`, `assume`, `constrain`, `solve`, `simplify`, `limit`, `terminate`, `val`, `flip`, resets, destruction |
| search (`internal.cpp`, `propagate.cpp`, `analyze.cpp`, `minimize.cpp`, `shrink.cpp`, `backtrack.cpp`, `assume.cpp`, `constrain.cpp`, `restart.cpp`, `reduce.cpp`, `clause.cpp`, `flip.cpp`, ...) | trail, levels, reasons, watches, conflict, clauses | the CDCL loop, incremental |
| decisions (`decide.cpp`, `queue.cpp`, `score.cpp`, `heap.hpp`, `bins.cpp`, ...) | VMTF queue, score heap | bump, rescale, shuffle, pick |
| elimination and reconstruction (`elim.cpp`, `gates.cpp`, `backward.cpp`, `block.cpp`, `cover.cpp`, `condition.cpp`, `extend.cpp`, `restore.cpp`) | clauses, extension stack, witness and tainted marks | remove clauses and variables, extend models, restore |
| subsumption and equivalences (`subsume.cpp`, `ternary.cpp`, `deduplicate.cpp`, `transred.cpp`, `decompose.cpp`, `instantiate.cpp`) | clauses | strengthen, delete, substitute |
| probing (`probe.cpp`), vivification (`vivify.cpp`), lucky phases (`lucky.cpp`) | the search's trail, a schedule | decide and propagate on their own |
| compaction (`compact.cpp`) | every table indexed by variables | renumber |
| proofs and checkers, external propagator, local search and lookahead, arena, options, statistics, stand-alone programs | | not modelled, see section 6 |

### What is hard here

- *Concurrency.*  Each task enumerates admissible sets of its reduct and spawns
  an OpenMP task for each; all of them read and write one flag and write one
  list.  The pragmas in front of the writes read `#pragma atomic write` (no
  `omp`) and do nothing.  A task may be deferred, or be run at once by the
  creating thread while the creating task waits.  Another thread may ask CaDiCaL
  to terminate at any moment.
- *Lifetimes.*  A child task shares the by-value parameters `argument` and
  `isRejected` of the activation that creates it, which returns without waiting for
  its children.
- *Search completeness.*  A task gives up for five different reasons (flag seen,
  reduct too small, enumeration exhausted, rejection, path with the query), and
  every complement clause excludes more than the set that caused it.  That no
  refutation is lost is a property of all tasks together.
- *Loops that extend the list they iterate over*, on cyclic graphs, with
  counters in unsigned arithmetic, and a visited mark kept in the framework.
- *Incrementality of the SAT solver.*  A task adds a clause, solves, reads single
  values, adds the next clause.  Between the calls the solver keeps a trail,
  clauses it has learned, a formula from which clauses and variables are gone,
  and a stack that must undo their removal; a new clause may contradict any of
  these.
- *Caches of the SAT solver* that are valid only until something else changes:
  the extended model, `queue.unassigned`, stamps of probed literals, decisions
  reused by vivification and by restarts, numbers of variables.

`PROJECT.json` lists each hazard at its line with the properties aimed at it.

## 2. Modules

| Module | Models |
|---|---|
| `Argumentation` | reference definitions (admissible, preferred, sceptical acceptance, refutation, grounded extension, cone); models no code |
| `Framework` | `AF` as seen by readers, `Reduct`, `ScepticalCheck`, in closed form |
| `Encoding` | `Encoding`, `Decoding`: a clause is a set of integer literals, a model the set of true variables |
| `PreProcContract` | what `process` promises `solve`, in closed form |
| `Decision` | abstract specification: a procedure that answers DS-PR once and rightly |
| `Solver_DS_PR` | `solve`, the parallel region and the tasks; implements `Decision` |
| `Lists` | the loops that filter a vector and merge two lists, as recursive functions |
| `PreProcessor_DS_PR` | the loops of `process` step by step, `Prioritizer` |
| `TaskLists` | EXTENDS `PreProcessor_DS_PR`: the vectors, bitsets and lists along one path of tasks, `get_reduct_set` member by member |
| `Parser_iccma` | `parse_af` and the construction of `AF` |
| `Main` | EXTENDS `Parser_iccma`: `execute` and `main` |
| `IncrementalSat` | abstract specification: what an incremental SAT solver promises |
| `CadicalApi` | the class `Solver` and `External`; implements `IncrementalSat` |
| `SatSolver_cadical` | EXTENDS `CadicalApi`: the wrapper the tasks use |
| `CadicalFormula` | clauses as sets, units, the extension stack and its replay, restoration |
| `CadicalElim`, `CadicalBlock`, `CadicalSubsume` | the techniques that rewrite the formula, as operators on it |
| `CadicalInprocessing` | the life of a formula: user, search and techniques interleaved |
| `CadicalAnalyze` | trail, watches, propagation, backtracking, conflict analysis, as operators on a search state |
| `CadicalSearch` | the incremental CDCL loop |
| `CadicalLucky`, `CadicalProbe`, `CadicalVivify` | techniques that decide for themselves, on the same search state |
| `CadicalTechniques` | puts the last three side by side (INSTANCE) with their common promises |
| `CadicalDecisions`, `CadicalCompact` | queue and scores; the renumbering of every table |
| `MC_*` | instances for TLC |
| `ArgumentationTheorems`, `CadicalTheorems` | theorems about the operators (the first has those on the encoding and on lists too) |
| `Solver_DS_PR_proofs` | typing and correctness of the search, and that it implements `Decision` |
| `PreProcessor_DS_PR_proofs` | the loops of preprocessing and the path of tasks |
| `Main_proofs` | parser and command line |
| `CadicalApi_proofs` | the interface of CaDiCaL implements `IncrementalSat`, and the wrapper uses it rightly |
| `CadicalInprocessing_proofs` | every technique that rewrites the formula keeps what formula and stack mean |
| `CadicalCompact_proofs` | renumbering the variables keeps the meaning of clauses, units and assumptions, and counts every reference |

Definitions keep the names of the functions they translate.  A definition
introduced as a *faulty variant* belongs to no specification: it is what a
plausible bug would make of the definition after it, and each property a run
checks is broken by one.

### The search: `Solver_DS_PR`

A task is one activation of `check_rejection_parallel_recursiv`.  `frame[t]`
holds its locals, `pc[t]` the next access to state that others see, or the next
SAT call.  Local code in between belongs to the step before it.

| Action | Lines of `Solver_DS_PR.cpp` |
|---|---|
| `PreProcessDecides`, `PreProcessUnknown` | 352-371 and 290-334: preprocessing answers, or the single region starts the first task |
| `StartReturns`, `StartEncodes` | 24-75: first read of the flag, reduct, exit for fewer than two arguments, encoding |
| `Recheck` | 79-88: second read of the flag |
| `SolveSat`, `SolveUnsat` | 93-203: complement clause of the last model, `solve()`, decoding and the decisions about the decoded set |
| `RejectEmpty` | 113-130, 144-162: nothing can be added, raise the flag |
| `Reject`, `AssignOutput`, `AppendOutput` | 172-194: raise the flag, then assign the list |
| `SpawnDeferred`, `SpawnUndeferred` | 205-260: the `omp task` |
| `Loop` | 263-272: reduct recomputed, flag read, loop condition |
| `TakeTask` | 240-247: a thread takes a deferred task from the OpenMP pool (external) and the task reads its parameters |
| `Finish` | 335-347, 371: barrier, result |

Choices worth knowing:

- `solve()` returns any model of the clauses (`\E m \in Models(...)`), so
  everything shown holds for every SAT solver that is right.  What "right" means
  is `IncrementalSat`, and `CadicalApi` is checked against it.
- *The parameters of a child.*  The task clause (240-247) says
  `shared(argument, ..., isRejected, ...)`: both are by-value parameters of the
  activation that creates the task (18-19), and no `taskwait` precedes its returns
  (129, 193, 284).  A child taken from the pool after that reads them where they no
  longer are.  What happens then depends on the compiler, and `ByReference`
  says which it is.  If it is `TRUE`, "shared" is taken at its word: `creator` names
  the activation the child looks in, and if that is done (`Stray`), `TakeTask` may
  find any argument, and a pointer that leads to the flag or anywhere (`points`);
  reads through a stray pointer return any value (`MayRead`), writes through it
  miss the flag (`RaiseFlag`), and `dangling` records that it happened.  If it is
  `FALSE`, the child has copies of the two values, which is what
  `firstprivate(argument, isRejected)` would ask for and what GCC makes of a
  shared scalar that nothing assigns (its task function reads both out of the block
  filled when the task was created; version 12.2, with and without optimization).
  `CMakeLists.txt` fixes no compiler.  The run `search` has copies; the run
  `lifetimes` shows what becomes of the answer without them; the theorems hold for
  both, with the condition `~dangling` where it is needed.  The other
  shared variables are references to objects that live until the barrier.
- The flag is a `bool` written only with `true`.  The write lacks `omp atomic`,
  but a plain byte store has no other outcome than the value written, so the
  model keeps it a single step.
- `output_extension = new_extension_build` is a real data race.
  `std::list::operator=` overwrites the nodes that exist, erases a surplus and
  splices in the rest: two steps, and while another task is inside too, any of
  the elements in play may be lost.  A crash of the program by that race is not
  an outcome of the model.
- `continue` (202) tests the loop condition with the flag value read before.
  That value was false, or the loop had ended, so the step goes to the loop
  head without a read.
- `priority()` is a hint: every schedule is allowed.
- The list of an extension and a `VectorBitSet` are sets here; `TaskLists` shows
  that what the program keeps in vectors, bitsets and lists is these sets.

`KeepsPromise` is the refinement: with `isRejected` for `refuted` and `result` for
`answer`, the team of tasks implements `Decision!FairSpec`, its liveness included.

### Preprocessing and the path of tasks: `PreProcessor_DS_PR`, `TaskLists`

One step per turn of an outer loop: `Shortcut` (117-125), `StartCone`,
`VisitArgument` (the cone, 3-37), `StartGrounded`, `Decide`, `ReduceBy`,
`ReturnUnknown` (43-109).  The order in which attackers and victims are listed
comes from an `unordered_set` and is any order (`AnyOrder`).  `num_attacker` is
kept modulo `2^UIntWidth`; the width is lowered to 8 bits, enough to tell a
wrapped counter from one in range.  The framework keeps `distance_to_query`
over calls; `MaxCalls` says how many calls are made on one framework (`Main`
makes one, `Tests.cpp` several).

`TaskLists` goes on from a call of `process` (`PreProcess`) that decided nothing
(`HandsOn`), the composition `solve` is, and follows one path of tasks to its end
(`PathEnds`): for each task `StartPath` or `StartWithCopy`, `StartReduct`, `NextReduct` (one
member of `get_reduct_set`, with the early exit), `ReductReady`, and `Descend`,
which merges the decoded set into `extension_build` the way `std::list::merge`
does although the lists are not sorted.  The loops that append the members of a set in
the order of an old vector, and the merge, are `Keep` and `Merge` of `Lists`.  `DeliversContract` and
`ReductIsClosedForm` tie this level to the closed forms that `Solver_DS_PR` is
written with.

### Parser and command line: `Parser_iccma`, `Main`

A file is a header and a sequence of lines, a line a sequence of tokens, numbers
or `Word`.  A token that cannot be read leaves 0 or whatever the stack slot held
(`Extracted`), and the attack is added all the same.  `TransferAttack` fills the
tables in any order; a number above `num_args` writes outside the vectors, after
which nothing is known (`TransferOutside`, state `undefined`).  `Main` has the
checks of `execute` in their order, before and after parsing, the call of the
solver by its contract, what the search prints to stdout before the answer (the
priorities, 214-216, not commented out), and `main`, which drops the value `execute` returns.

### The SAT solver: `Cadical*`

Two views of the same program, because no instance holds both at once:

- *The formula* (`CadicalFormula`, `CadicalElim`, `CadicalBlock`, `CadicalSubsume`,
  `CadicalInprocessing`).  A clause is a set of literals, the database the
  irredundant and redundant clauses and the units.  One iteration of a
  technique's loop is one action; limits on effort become the freedom to stop
  after any step.  The search is what it may do to a formula: learn an implied
  clause, forget a redundant one.  Actions are guarded by the phase (`todo`), in the
  order `probe`, `subsume` and `elim` call the techniques.
- *The trail* (`CadicalAnalyze`, `CadicalSearch`, `CadicalLucky`, `CadicalProbe`,
  `CadicalVivify`).  A clause is a sequence of literals of which the first two
  are watched.  A step of `CadicalSearch` visits one watch, analyses a conflict, or
  makes one decision of `cdcl_loop_with_inprocessing`; analysis is one action
  because nothing else reads the state in between.  With `opts.ilb` the trail of
  the last call survives and clauses are added while it is assigned.

`CadicalApi` stands above both.  Literals of clauses and constraints come one by
one, `solve` runs between `solve` and `Return`, another thread may call
`terminate` at any time, the model is extended when the first value is read.
`Implements` is its refinement of `IncrementalSat`: a clause counts when its zero was
added, the model is the one `val` returns or would return.

`CadicalDecisions` has the doubly linked queue and the binary heap with every
operation on them, in the middle of which scores are rescaled; scores are natural
numbers and rescaling rounds, as double precision does at the far end of its
range.  `CadicalCompact` renumbers queue, heap, clauses, units, reference counts,
maps and assumptions.

Abstractions, common to these modules: which clause, literal or decision comes
next is a nondeterministic choice wherever the code decides by activity, glue, a
limit or an average, unless a property is about it (the queue, the heap, the order
of assumptions, the parent of a probed literal).  LRAT chains, statistics and
pointers are left out.  A call that violates its contract aborts the program
(`REQUIRE`) and is not an enabled action.

Simplifications of single functions:

- `CadicalApi`: the user completes what he has begun.  The code accepts `constrain`,
  `assume` and the resets in the middle of a clause and `add` in the middle of a
  constraint (`solver.cpp:602-660`, a valid state is all it asks for); here `add`,
  `constrain`, `assume`, `reset_assumptions` and `reset_constraint` wait for the zero.
  The wrapper, the only user in this program, keeps to that.
- `elim_propagate` propagates every unit that is known, the code the one it was
  called for (`elim.cpp:142-199`); units learned in a trial without eager propagation
  are therefore noticed a little earlier.
- `elim_backward_clause` visits the clauses of the rarest literal by size, and counts
  only those that are not garbage towards `elimocclim`; the code goes in the order in
  which they were connected and counts garbage too (`backward.cpp:59`, 76).  `backward`
  does not depend on it: the flag is stale in any order.
- `CadicalCompact` has the assumptions but no constraint; the code takes the constraint
  back and makes it again around the renumbering, with its freezes, as it does the
  assumptions (`compact.cpp:196-201`, 417-436).

## 3. Runs

| Run | Instance | Shows |
|---|---|---|
| `search` | all 512 frameworks of 3 arguments, 54 of 4 arguments that reach the search whole (at most five attacks, up to names), five that reach every exit of a task; 2 threads, fair | `TypeOK`, `AnswerCorrect`, `RejectionSound`, `SearchInvariant`, `RefutationCovered`, `EnumerationAdvances`, `KeepsPromise` |
| `race` | the five frameworks, 2 threads | **violated** `ProofExtensionSound` |
| `lifetimes` | the five frameworks, 2 threads, `ByReference` | **violated** `AnswerCorrect` |
| `pre` | every framework of 4 arguments up to names, one call; every one of 3, two calls; any queries, fair | `TypeOK`, `LoopsExact`, `PriorityInRange`, `DeliversContract`, `ReductIsClosedForm`, `ExtensionGrows`, `PathsEnd` |
| `pre_reuse` | all frameworks of 3 arguments, two calls | **violated** `AnswerPreserved` |
| `main_requests` | all well-formed files of up to 3 lines over 2 or 3 arguments and the malformed ones, each with one complete request; one file of each kind with all 1153 combinations of options | `FrameworkRead`, `AnswerDescribesFile`, `RequestHonoured` |
| `api` | 2 or 3 variables, up to 3 clauses, 2 calls of solve: a direct user, one that is terminated, one whose clauses get blocked, and the wrapper | `ValuesFresh`, `ReplyRight`, `Implements`, `SolveReturns` |
| `cdcl_sessions` | 3 to 5 variables, up to 2 calls: lazily added clauses, assumptions and constraints, learning, strengthening, flipping | `TypeOK`, `ClausesRight`, `PropagationComplete`, `ReasonsJustify`, `AnswersRight`, `Terminates` |
| `inprocessing` | families of formulas over 3 variables and of gates over 4, up to 2 phases, rounds and calls | `TypeOK`, `Reconstructs`, `OriginalImplies`, `VariablesRight` |
| `backward` | one formula of 10 variables | **violated** `Reconstructs` |
| `techniques` | families of formulas over 4 or 5 variables for each of lucky phases, probing (2 rounds, with and without hyper binary resolution) and vivification | `LuckyHarmless`, `FormulaKept`, `RootPropagated`, `ProbingJustified`, `VivifyTrailRight`, `RoundEnds` |
| `numbering` | 3 variables, scores up to 3 in units of 2: decisions and conflicts alone, around a compaction, and two compactions with every table in use | `MeaningKept`, `ReferencesKept`, `DecidesBestVariable` |

`TypeOK` apart, what these say:

- `RefutationCovered`: while the query can be refuted and the flag is down, some
  task is on the way to a refutation.  `SearchInvariant` is what every task may
  rely on at every point (`QueryStaysOpen`, `LoopInvariant`, `PhaseInvariant`,
  `FlagMeans`): that it has the query and the flag of the search is the first part.
- `LoopsExact`: no argument is listed twice, a counter is the number of attackers
  left, a distance that of a shortest path.  `ExtensionGrows`: merging unsorted
  lists neither loses nor doubles an argument.
- `FrameworkRead`: both tables list what the set of attacks has, once each, and no
  attack that a readable line states is missing.  `AnswerDescribesFile`: the text
  printed is the answer for the framework in the file.  `RequestHonoured`:
  complete requests are answered, all others are told of an error, never both.
- `Reconstructs`: the extension stack turns every model of the formula that is
  left into one of what the user has added.  `OriginalImplies`: the formula and
  the clauses on the stack follow from it.  `VariablesRight`: a variable that is
  gone is in no clause, frozen and assumed ones stay, and reconstruction does not
  undo an assumption.
- `PropagationComplete`: after propagation no clause is falsified or unit without
  notice, also those added above level zero and those on a trail that chronological
  backtracking has put out of order.  `ClausesRight`: learned clauses follow, the
  irredundant ones with the units are still the formula.  `AnswersRight`: models,
  failed assumptions and a failed constraint justify the answer.
- `LuckyHarmless`, `RootPropagated`, `VivifyTrailRight`: what the techniques leave
  to the search.  `ProbingJustified`: parents imply their children alone, and no
  literal that would fail is skipped.
- `DecidesBestVariable`: the queue pointer has no unassigned variable behind it,
  the list is linked both ways in order, the heap yields a best unassigned
  variable also after scores became equal by rounding.

*Bounds.*  The query is argument 1 in the runs of the search: frameworks are
closed under renaming.  Three arguments are enough for every exit of
preprocessing and for a search of depth one, four for a child that itself
spawns and for two tasks that reject at once with different extensions.  Two
threads are enough for two tasks inside the assignment.  `MaxTasks` is never
exhausted: a spawn without a free task would be a deadlock, which TLC checks.
One framework of four arguments and five attacks (`TwoDefenders`: two arguments
in mutual attack with the only attacker of the query) has more states than all
others together and is left out.  `MaxNumber` lets a file and a stack slot hold
a number in range, the query, 0, and one out of range.  In the runs of CaDiCaL
`N` is the number of variables, `ElimBound`, `ElimClsLim`, `ElimOccLim`,
`ElimBackward`, `BlockMaxClsLim` and `BlockOccLim` are options of the code, `Chrono`, `Otfs`, `Ilb`,
`IlbAssumptions` and `VivifyInst` too, and a session names the calls a user may
make and how often (`solves`, `phases`, `rounds`, `reductions`, `flips`, `clauses`,
`bumps`, `compacts`).  Formulas are chosen so that every technique finds what it
looks for; every action of every specification is taken in some run.

*Deadlock* is checked in the runs of the program itself, which stutter only when
they are done.  A session of CaDiCaL ends when its bounds are reached, so its runs
do not check it; that calls return is `Terminates`, `SolveReturns` and `RoundEnds`.

*Fairness.*  In each case only that the program does not stop while it can take a
step, and nothing about users or other threads:

- `Solver_DS_PR`: `WF_vars(Next)`, the operating system keeps running the team.  No
  fairness towards one thread or task is needed.
- `TaskLists`: `WF_solveVars(SolveNext)`, one thread runs the loops.
- `CadicalSearch`: weak fairness of the solver's steps, conflict analysis written
  out with its enabling condition (`AnalysisDue`).  `SatSolver_cadical`: of the
  engine, not of the user's calls nor of `terminate`.  `CadicalTechniques`: of the
  steps of probing, with the condition written out.

*What the violations show.*

1. `race`: `Solver_DS_PR.h:36` promises an "Extension proving, that the argument
   cannot be sceptically accepted."  Two tasks that reject at once race on the
   list, which may end as part of no preferred extension.  The answer is right.
2. `lifetimes`: `Solver_DS_PR.cpp:243` shares parameters with tasks that may outlive
   them.  The root defers a child, finds nothing more and returns; the child
   reads a stray flag pointer, takes the search for decided and gives up the
   refutation it carries; `solve` answers `true`, where `Solver_DS_PR.h:38` says
   "TRUE iff the argument is sceptical accepted."  A stray `argument` can raise the
   flag without cause as well.  Programs compiled with GCC have copies and
   are not concerned; the source does not ask for them.
3. `pre_reuse`: `calculate_cone_influence` resets only the query's distance.  A
   framework used for a second query, as `Tests.cpp:22` does, gives wrong
   answers.  `Main` makes one call per framework and is not concerned.
4. `backward`: `elim_backward_clause` sets `satisfied` for one clause and never
   resets it for the next ones (`backward.cpp:49`, 88, 106, 136); clauses that are
   neither satisfied nor subsumed are deleted.

*Met while modelling, without a run of their own:*

- A rejection by preprocessing, or because nothing can be added
  (`Solver_DS_PR.cpp:121`), leaves the proof list empty.
- `Parser_iccma.cpp:43` adds an attack for a line that could not be read, from or to
  argument 0 or whatever the stack slots held, where `Parser_iccma.h:29` promises the
  framework the file describes: `NoAttackInvented` fails on the malformed files of
  `main_requests`, and `WellFormedExact` proves it of the others.
- The search prints every child with its priority on stdout (`Solver_DS_PR.cpp:214`,
  marked as debug output), so `YES` or `NO` need not be the first line.
- `Encoding.h:22` speaks of "an initial set", a minimal non-empty admissible set;
  the clauses (`Encoding.cpp:128`) have all non-empty admissible sets as models.
  The answer is right; the search does more work.
- `Main.cpp:156` does not compare the query with the number of arguments; query 0,
  which no attack mentions, is answered `YES`.
- `main` drops the value of `execute` (`Main.cpp:209`), so errors end with status 0,
  where `Main.h:78` documents a status.
- `assume` and `constrain` are accepted in the middle of a clause
  (`solver.cpp:617`).
- The comment at `vivify.cpp:323` announces that the schedule is flushed of
  clauses subsumed by a prefix; the direction of the comparison (`vivify.cpp:339`)
  makes it find identical clauses only.

## 4. Proofs

All for every number of arguments, every set of frameworks and queries, every
team and every bound.  The assumptions on constants give them their types and
no more: `SolverAssumption` and `PreProcAssumption` (frameworks are attack
relations on `1..NumArgs`, a counter is wide enough for `NumArgs` as the
`uint32_t` of the code is for what fits into memory), `ParserAssumption` (a file is a
header and a sequence of lines of tokens), `CommandLineAssumption` (which
options there are, and that an option that ends `execute` at once is not also
malformed), `NAssumption`, `SessionAssumption`, `SessionsAssumption` and
`WrapperAssumption` (there is a variable; what a user may add, assume, freeze and flip
are literals or variables, constraints have one, and no learned clause has a literal
with its negation), `CompactAssumption` (what a user may add and assume are literals of
the variables 1 to `ExtMax`), `BackwardAssumption` and `BlockAssumption` (the ranges of two
options).

The algorithms:

- `EncodingSound`, `EncodingComplete`: the models of the clauses and the
  non-empty admissible sets of the reduct correspond.
- `RefutableIffNotAccepted`: the query is sceptically accepted iff it has no
  *refutation*, an admissible set no admissible superset of which holds the
  query.  This replaces preferred extensions, which the search never computes,
  by something every partial extension can be compared with.
- `ClosedRefutable`, `GroundedRefutable`, `ContractSound`: cutting down to the
  cone and reducing by the grounded extension keep the answer.
- `KeepMembers`, `MergeKeepsAll` and the other lemmas on lists (in
  `PreProcessor_DS_PR_proofs` and `ArgumentationTheorems`): what the loops over vectors return.  These are recursive functions, so they need induction;
  the induction theorems of the library cannot be instantiated, and `NatInd` and
  `SeqInd` derive the same from the well-ordering of the natural numbers for a
  *set* of numbers or sequences.

Preprocessing (`PreProcessor_DS_PR_proofs`), for `process` alone and, by
`TasksKeepPreProcessing`, with the path of tasks behind it:

- `TypesHold`, `LoopsAreExact`, `PrioritiesInRange`: `TypeOK`, `LoopsExact` and
  `PriorityInRange`.
- `ContractDelivered`: the loops deliver `PreProcContract` on the first call, and
  `FirstCallPreserves`: that call keeps the answer.  (The second call does not,
  see `pre_reuse`.)
- `ReductsClosed`, `ExtensionsGrow`: the vectors and lists of a task are the closed
  forms `Solver_DS_PR` is written with.

The search (`Solver_DS_PR_proofs`):

- `TypeCorrect`: `Spec => []TypeOK`.
- `Correct`: `Spec => [](~dangling => AnswerCorrect)`, the answer is right as long as
  no task has read its parameters from a dead activation; under the same condition
  `NothingLost` (`RefutationCovered`), `FlagCorrect` (`RejectionSound`), `PathsOpen`
  (`QueryStaysOpen`) and `InvariantHolds` (`SearchInvariant`).  The condition is
  needed: the run `lifetimes` violates `AnswerCorrect`.
- `LoopSound` (`LoopInvariant`) and `PhasesSound` (`PhaseInvariant`) hold without it:
  whatever a stray task takes for the query, its own loop stays consistent.
- `CopiesNeverDangle`: with copies (`~ByReference`) the condition always holds; hence
  `CopiesSuffice`: then `Spec => []AnswerCorrect` and `Spec => Promise!Spec`, on every
  schedule.
- `EnumerationNeverRepeats`: `Spec => EnumerationAdvances`.
- `KeepsPromiseSafely`: `Spec /\ []~dangling => Promise!Spec`, the refinement of
  `Decision` without its fairness.

Parser and command line (`Main_proofs`):

- `FrameworkIsRead` (`FrameworkRead`), and `WellFormedExact`: on a file all lines of which
  can be read no attack is invented (on others one may be, see section 3).
- `RequestsHonoured` (`RequestHonoured`), `AnswersDescribeFiles` (`AnswerDescribesFile`).

Together: for a well-formed file and a complete request with a query that is an
argument, what is printed is the answer for the framework in the file, as far as
`solve` is right; `solve` is right if preprocessing delivers its contract, which it
does, the compiler gives tasks copies of their parameters, and the SAT solver is right.  Of the latter the wrapper and the interface are
proved, for any internal search that answers for its own formula, and the techniques
that rewrite that formula; the search itself is model-checked.

The SAT solver (`CadicalTheorems`, `CadicalApi_proofs`), for any number of variables,
any session and any limits on the clauses looked at:

- `BlockingRight`, `RestoreRight`, `ExtendRight`: removing the blocked clauses of a
  literal keeps what formula and stack mean together; so does bringing back clauses
  whose witness a new literal contradicts; and replaying the stack then yields a model
  of all that was removed.
- `ApiInvariant`: the inductive invariant below.  `ApiImplements`: `Implements`, the
  refinement of `IncrementalSat`.  `ApiValuesFresh`: `ValuesFresh`.
- `WrapperRefines`: the wrapper is a user that keeps the contract, so all of the above
  holds with it (`WrapperPromise`).  `WrapperInvariant` and `WrapperReplyRight`
  (`ReplyRight`): the answers are about the clauses the tasks asked for.

The formula of CaDiCaL (`CadicalTheorems`, `CadicalInprocessing_proofs`), for any
number of variables, any sessions and any limits of the techniques:

- `FormulaLife`: the inductive invariant `LifeInv` below, and from it `Typing`
  (`TypeOK`), `Derived` (`OriginalImplies`: what the solver keeps, learns or may
  restore follows from what the user added) and `VariablesStay` (`VariablesRight`).
- `ModelsReconstructed`: `Reconstructs`, with backward subsumption turned off
  (`~ElimBackward`).  With it the property is false, as `backward` shows; everything
  else is proved with and without.
- On the way, a theorem for each of the harder techniques: `EliminateMeans`,
  `FindGatesMeans`, `BlockMeans`, `CoverMeans`, `ConditionMeans`, `DecomposeMeans` and
  `RestoredRight` say what eliminating a variable, looking for a gate, removing blocked,
  covered and globally blocked clauses, replacing equivalent literals and restoring
  clauses do to the formula and its models; `LayeredExtend` is the use of the layers below.

Compaction (`CadicalCompact_proofs`), for any number of internal and external variables,
any sessions, and decisions, conflicts and shuffles in between:

- `TablesRight`: the inductive invariant `CInv` below.
- `MeaningStays` (`MeaningKept`): clauses and units, read from outside, are what the
  user gave and was told.
- `ReferencesCounted` (`ReferencesKept`): the assumptions are the user's, and each
  reference count is the number of assumptions and freezes it stands for.

*The argument for compaction.*  TLC checked `CInv` on all states of `numbering` first.
`MeaningKept` alone is not inductive: it does not say that two literals stay different
when they get other numbers, nor that a value the user was not told is not fixed inside
either.  `CInv` has the parts

- `Paired`: an internal variable that is not fixed and its external variable are each
  other's, eliminated ones included, since these come back when they are used again;
- `FixedRight`: a literal of the user is among the values told iff its internal literal
  is fixed, and not with its negation.  *All* fixed external variables may share one
  internal variable, each with a sign of its own;
- `ClausesSame`: the clauses without satisfied ones and falsified literals are the same
  inside and outside, and no clause has a variable that is gone;
- `Referenced`: `ReferencesKept`, that a number not in use or given up counts nothing,
  and that an external variable without a number is not frozen;
- `CTyped`, the types.

The mapper sends the active variables one-to-one onto the new numbers and every fixed literal
to the one of the first fixed variable that has its value (`MapLitCases`), so
a clause without fixed literals keeps its size and its external reading
(`CompactClauses`).  The counts are the hard step (`MappedFrozenRight`): a sum over the
old numbers that become a new one equals a sum over the external variables of that
number, and the sets of these are disjoint.  Assumptions are taken out of the counts
before and come back one by one, each counted once, although two assumptions of fixed
variables may now be the same literal (`ReassumedRight`).

*The argument for the life of a formula.*  `LifeInv` has the parts

- `Typed`, the types; `Orderly`: nothing is tainted while `solve` runs, the search sees a
  formula that is propagated;
- `Implied`: the models of the user's formula are models of the database and of every
  clause on the stack;
- `Fits`: flags and clauses agree.  A fixed literal is flagged so, irredundant clauses
  have literals of variables that are there, and a redundant clause may have one that is
  gone only while a technique runs that deletes those at its end (`Late`);
- `Untouched`: frozen variables stay, and a witness that contradicts an assumption is
  tainted;
- `Layering`, what reconstruction needs: there are sets of assignments m[0], ..., m[n],
  one for each height of the stack.  m[0] has models of the user's formula only, m[n] has
  all models of the irredundant clauses and units, and replaying entry i takes an
  assignment of m[i] to one of m[i - 1], as long as the entry's witness is not tainted.
  The models of formula *and* stack, which the proof of the interface goes by, would not
  do: replacing equivalent literals and eliminating a variable push entries whose
  clauses are not repaired in isolation.

A technique has to show that what it derives follows (`Follows`), that its entries
follow and spare what is frozen (`Pushes`), and that from the new formula
they lead back to the old (`Kept`); `SimplifyRight` does the rest for all.  The
hard one is elimination.  The trial and the addition of resolvents learn units, strengthen
parents and remove satisfied clauses while they count, so a pair tried early is settled
only in a sense that survives what happens later (`Either`: what is left of one of
the two clauses without the pivot is true whenever the formula is).  `Chained` is
what holds between any two points of these loops.  With a gate only the pairs with one
clause of it are resolved, and `GateOf` says why that is enough: the clauses of
the gate resolve among themselves to nothing new, and whatever the other
variables are, one of them fixes the pivot.  Queues, sorted lists
and fixpoints of the code are recursive functions; lemmas such as `TrialTurns`
say once that such a loop stays within every set it is closed under, so that a loop needs
an invariant and no induction of its own.

*The argument for the loops.*  The inductive invariant of `process` (`IInv` of
`PreProcessor_DS_PR_proofs`) has the parts

- `Queue`: the cone is a breadth-first search: distances in the vector never
  decrease, none exceeds that of the argument whose turn it is by more than one, and
  each argument but the query attacks one that is a step nearer.  It holds on
  every call and bounds distances by places, hence priorities;
- `FirstSearch`: on the first call a distance above zero means that the argument is
  listed, so no attacker is missed: this is what the second call loses.  When the
  loop ends, the vector is closed under attackers, so it is the cone;
- `GroundedLoop`: what is in play is the reduct by the unattacked arguments that
  have had their turn (`Processed`), a counter is the number of attackers in play,
  an argument is queued when its counter reaches zero, and everything queued is
  grounded.  When the queue is empty nothing in play is unattacked, so the
  arguments processed are the grounded extension;
- `Types`, `Control`, and `DeliversContract` itself, for the calls after the first.

`PathInv` relates the vector of a task's reduct to what the members taken so
far (`taken`) leave of the parent's.

*The argument for the command line.*  `ParserInv` says that the lists and bitsets
hold exactly the attacks transferred so far, each once (`TablesFilled`), and that every
line read has left its attack (`LinesRead`).  Row 0 exists, so a file may name
argument 0; `AnswerDescribesFile` still speaks of the arguments from 1 on because
these are closed under attackers in a well-formed file (`ClosedRefutable`).
`MainInv` adds that once `execute` has decided, exactly one of an answer on stdout and
an error has been given.

*The argument for `Correct`.*  `AnswerCorrect` speaks of the end only.  The
inductive invariant `IInv` has these parts.  `PathOpen`, `FlagMeans`,
`RefutationCovered` and `AnswerCorrect` are asked for while `~dangling` only:

- `TaskInvariant` (`QueryStaysOpen` and `LoopInvariant`, task by task): a live task has
  the query and the pointer to the flag of the search, what it has built is
  admissible and the query is in its reduct (`PathOpen`); the clauses contain the
  encoding of the reduct, and the control state fits the decoded set;
- `PhaseInvariant` and `FlagMeans`: tasks live in the parallel region, on the reduct
  preprocessing delivered, and the flag means that the query can be refuted there;
- `RefutationCovered`: if the query can be refuted and the flag is down, some
  task is on the way to a refutation `W`: it has not started its enumeration
  and has built a part of `W`; or `W` still satisfies its formula; or it is
  about to spawn a child with a part of `W`; or it is about to reject;
- `Untried`: before the parallel region no task has run.

The hard step is `SolveSat` (`SolveSatCovers`).  If the set `S` found is part of
`W`, the child gets `W`.  If not, some member of `S` is outside `W`, so the
complement clause does not exclude `W`.  If `W` is what was built already, the
set built plus `S` is a refutation too.  The exit for fewer than two arguments
(`SmallReduct`) uses that a preprocessed query does not attack itself.  At the
barrier no task is live, so nothing is covered, so without the flag there is no
refutation.

*The argument for the interface of CaDiCaL.*  `ApiInv` has the parts

- `Reconstructible`: the models of the user's formula are those of the database
  *together with* the clauses on the stack (`Left`).  A model of the database alone
  need not satisfy these, so each entry must *repair* its clause (`Repairs`): in a
  model of the database and of the entries above it that falsifies the clause, making
  the witness true gives a model of these again and of the clause.  This
  holds only while no clause added later speaks against the witness.  Hence
  `Repairable` asks it of the entries with no tainted witness only, and a literal of
  the clause in progress, the assumptions or the constraint whose negation is a
  witness must be tainted;
- `Protocol`: the states of the interface, among them that nothing is tainted when
  the search starts: `solve` restores first, so then every entry repairs;
- `Answers`: what `vals`, `core` and the extended model are at each state;
- `ApiType`, the types.

Restoring is the hard step (`RestoreRight`).  One pass along the stack
keeps some entries and adds the clauses of others to the formula, tainting on the way
the literals of what it brings back.  `Passing` is what holds in the middle of the pass:
formula, entries kept and entries still ahead mean the same as before.  An entry that
is kept repaired its clause among more entries than are left; it still does,
because the clauses that have moved into the formula do not hold the negation of its
witness, or the entry would have been restored too.

`WrapperInv` relates the literals a call has still to pass on (`todo`) to the clause
it was called for: `intended` is the formula of the solver, and while a clause is on
its way also the literals given and those to come.  The answer `no` of the last call
stays true because every call that adds a clause withdraws the reply first.

## 5. Only model-checked

- Liveness under fairness, which is out of the prover's reach: `PathsEnd`,
  `Terminates`, `SolveReturns`, `RoundEnds`, and the fairness in `KeepsPromise`.
- CaDiCaL on the trail.  The modules of its search and of the techniques that decide for
  themselves have recursive operators, which the prover does not take
  (`CadicalAnalyze`, `CadicalLucky`, `CadicalProbe`, `CadicalVivify`, `CadicalSearch`,
  `CadicalTechniques`): `ClausesRight`, `PropagationComplete`, `ReasonsJustify`,
  `AnswersRight`, `LuckyHarmless`, `FormulaKept`, `RootPropagated`, `ProbingJustified`,
  `VivifyTrailRight` and the `TypeOK` of the search.
- `DecidesBestVariable`: the order of queue and heap.  Its proof would need the list that
  the links stand for and sifting in the heap through eight loops; `MeaningStays` and
  `ReferencesCounted` do not depend on it.
- `AnswerPreserved` on later calls, `AnswerCorrect` with stray parameters,
  `NoAttackInvented` on malformed files, `ProofExtensionSound` and `Reconstructs` with backward subsumption do not hold,
  see section 3.

## 6. Not modelled

- `Tests.cpp`: a caller only; its reuse of a framework is `MaxCalls` above one.
  `Printer`, `MemoryWatchDog`: no state the answer depends on.  Memory exhaustion.
- CaDiCaL: proof output and the checkers that read it (the program turns none on);
  the external propagator (none is connected; `CadicalSearch` has the shared
  functions without one); local search (its phases are a choice the models leave
  open) and lookahead (called for cubes only); the arenas (a pointer has no value
  here); the stand-alone solver, the fuzzer and the bindings; options, limits,
  averages and statistics (they decide when a technique runs: the models let it
  run at any time within named bounds).
- In the parts listed as partly modelled: configuration, traversal and copying in
  the interface; phases, ids of units, relevance counts and the constraint in compaction.

## 7. Plan

Done: the search, the encoding and the correctness theorem; preprocessing, composed
with the path of tasks; parser, framework and command line; the refinements of
`Decision` and `IncrementalSat`; the SAT solver from its interface to its search,
techniques and tables; the proofs of all safety properties that hold of the program
outside CaDiCaL, of the interface of CaDiCaL, of its formula and of compaction.  Next:

1. `CadicalSearch` together with probing and inprocessing in one specification,
   over smaller formulas, so that learned clauses, units and removed variables
   meet on one trail.
2. `CadicalAnalyze` with recursive functions in the place of its recursive operators,
   and the invariant of the watches (`PropagationComplete`) proved.
3. `DecidesBestVariable` proved: the queue as a list, the heap as an order.
4. Phases, unit ids and the constraint in `CadicalCompact`; copying and traversal in `CadicalApi`.
