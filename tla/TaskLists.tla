----------------------------- MODULE TaskLists -----------------------------
(***************************************************************************)
(* The containers behind the sets of Solver_DS_PR, on what preprocessing   *)
(* hands over: Reduct.cpp and VectorBitSet.h as loops over vectors,        *)
(* Decoding.cpp and ExtendExtension on lists, along one path of tasks from *)
(* the root to a leaf.  extension_build is put together by                 *)
(* std::list::merge, which asks for sorted lists; the lists here are in    *)
(* the order in which the cone of influence was searched.                  *)
(***************************************************************************)
EXTENDS PreProcessor_DS_PR

VARIABLES
  path,                   \* control state of the task; "none" outside of one
  extension_build,        \* the list this task got from its parent
  reduct,                 \* the VectorBitSet reduct
  place                   \* the list iterator in get_reduct_set

pathVars  == <<path, extension_build, reduct, place>>
solveVars == <<vars, pathVars>>

VectorBitSet(vector) == [vector |-> vector, bitset |-> ToSet(vector)]
NoReduct == VectorBitSet(<<>>)

\* reduce_by_grounded starts from active_args_vector and drops from it.
activeArgs == VectorBitSet(Keep(active_args, out_reduct))

InitPath ==
  /\ path = "none"
  /\ extension_build = <<>>
  /\ reduct = NoReduct
  /\ place = 1

SolveInit == Init /\ InitPath

\* solve calls process first; the next call on the framework comes when the
\* path of the last one has ended.
HandsOn == pc = "returned" /\ result = "unknown"

PreProcess ==
  /\ path \in {"none", "done"}
  /\ path = "none" => ~HandsOn
  /\ process
  /\ path' = "none"
  /\ extension_build' = <<>>
  /\ reduct' = NoReduct
  /\ place' = 1

\* The root task.
StartPath ==
  /\ HandsOn
  /\ path = "none"
  /\ path' = "start"
  /\ UNCHANGED <<vars, extension_build, reduct, place>>

\* VectorBitSet::copy: one loop over the places of the bitset, 0..num_args,
\* copies the vector along with it.
copy(vb) == [vector |-> SubSeq(vb.vector, 1, Min({Len(vb.vector), NumArgs + 1})),
             bitset |-> vb.bitset]

\* Reduct::get_reduct: a new vector in the old order, and its bitset.
reduct_step(active, argument) ==
  VectorBitSet(Keep(active.vector,
                    {a \in Args : a # argument /\ <<argument, a>> \notin attacks}))

StartWithCopy ==
  /\ path = "start"
  /\ extension_build = <<>>
  /\ reduct' = copy(activeArgs)
  /\ path' = "ready"
  /\ UNCHANGED <<vars, extension_build, place>>

\* get_reduct_set: the first member of the list reduces activeArgs ...
StartReduct ==
  /\ path = "start"
  /\ extension_build # <<>>
  /\ reduct' = reduct_step(activeArgs, extension_build[1])
  /\ place' = 2
  /\ path' = "reduct"
  /\ UNCHANGED <<vars, extension_build>>

\* Faulty variant: the iterator is not advanced.
NextReductStuck ==
  /\ path = "reduct"
  /\ place <= Len(extension_build)
  /\ reduct.vector # <<>>
  /\ reduct' = reduct_step(reduct, extension_build[place])
  /\ UNCHANGED <<vars, extension_build, place, path>>

\* ... and each of the others what is left, until nothing is.
NextReduct ==
  /\ path = "reduct"
  /\ place <= Len(extension_build)
  /\ reduct.vector # <<>>
  /\ reduct' = reduct_step(reduct, extension_build[place])
  /\ place' = place + 1
  /\ UNCHANGED <<vars, extension_build, path>>

\* Faulty variant: the loop ends one member early.
ReductReadyEarly ==
  /\ path = "reduct"
  /\ place >= Len(extension_build) \/ reduct.vector = <<>>
  /\ path' = "ready"
  /\ UNCHANGED <<vars, extension_build, reduct, place>>

ReductReady ==
  /\ path = "reduct"
  /\ place > Len(extension_build) \/ reduct.vector = <<>>
  /\ path' = "ready"
  /\ UNCHANGED <<vars, extension_build, reduct, place>>

\* Decoding::get_set_from_solver: the accepted arguments S of the model in
\* the order of the vector.
get_set_list(S) == Keep(reduct.vector, S)

\* Faulty variant: what was found is appended besides.
ExtendExtensionAppended(l1, l2) == Merge(l1, l2) \o l2

\* ExtendExtension merges copies of the two lists.
ExtendExtension(l1, l2) == Merge(l1, l2)

\* The task finds the set S and creates a task for the longer list; the path
\* goes on with that one, or ends because nothing more is found.
Descend(S) ==
  /\ path = "ready"
  /\ S # {} /\ S \subseteq ToSet(reduct.vector)
  /\ \A a \in S, b \in S : <<a, b>> \notin attacks
  /\ extension_build' = ExtendExtension(extension_build, get_set_list(S))
  /\ reduct' = NoReduct
  /\ place' = 1
  /\ path' = "start"
  /\ UNCHANGED vars

PathEnds ==
  /\ path = "ready"
  /\ path' = "done"
  /\ UNCHANGED <<vars, extension_build, reduct, place>>

SolveTerminated == Terminated /\ (HandsOn => path = "done") /\ UNCHANGED pathVars

SolveNext ==
  \/ PreProcess
  \/ StartPath \/ StartWithCopy \/ StartReduct \/ NextReduct \/ ReductReady
  \/ \E S \in SUBSET Args : Descend(S)
  \/ PathEnds
  \/ SolveTerminated

\* One thread runs the loops of preprocessing and does not stop in the
\* middle; a task that is started runs.
SolveSpec == SolveInit /\ [][SolveNext]_solveVars /\ WF_solveVars(SolveNext)

-----------------------------------------------------------------------------
(***************************************************************************)
(* Properties.                                                             *)
(***************************************************************************)
\* Member by member, with the early exit and whatever order the list has
\* got into, get_reduct_set computes the reduct Solver_DS_PR works with;
\* vector and bitset agree and the vector keeps the order of activeArgs.
ReductIsClosedForm ==
  path = "ready" =>
    /\ ToSet(reduct.vector) = get_reduct_set(out_reduct, attacks, ToSet(extension_build))
    /\ reduct.bitset = ToSet(reduct.vector)
    /\ reduct.vector = Keep(activeArgs.vector, reduct.bitset)

\* merge loses no argument and doubles none although the lists are not
\* sorted: the list of a child is its parent's and the set found, once each.
ExtensionGrows ==
  [][\A S \in SUBSET Args : Descend(S) =>
       /\ ToSet(extension_build') = ToSet(extension_build) \cup S
       /\ Len(extension_build') = Len(extension_build) + Cardinality(S)]_solveVars

\* Preprocessing returns and tasks do not nest for ever: every child has fewer arguments to choose
\* from than its parent, so a path ends.
PathsEnd == ProcessReturns /\ ((path = "start") ~> (path = "done"))
=============================================================================
