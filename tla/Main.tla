-------------------------------- MODULE Main --------------------------------
(***************************************************************************)
(* Main.cpp and Enums.cpp: execute goes through the options in a fixed     *)
(* order, parses the file (module Parser_iccma), asks the solver and       *)
(* prints the answer; main drops the value execute returns.                *)
(*                                                                         *)
(* The command line is a record: alone, there is no argument; shown, one   *)
(* of the texts is asked for; bad, there is an option getopt does not know *)
(* or that lacks its value; problem, the parts between the '-' of -p;      *)
(* path, the parts between the '.' of -f; format, the value of -fo; query, *)
(* the value of -a, Word if it is no int.  Empty is an option not given.   *)
(***************************************************************************)
EXTENDS Parser_iccma

CONSTANTS CommandLines, Undef

Empty   == <<>>
Aborted == 134        \* the status of a process that an exception ends

ASSUME CommandLineAssumption ==
  \A c \in CommandLines :
    /\ c \in [alone : BOOLEAN, shown : BOOLEAN, bad : BOOLEAN, problem : Seq(STRING),
              path : Seq(STRING), format : Seq(STRING), query : Seq(Int)]
    /\ c.alone => ~c.bad

VARIABLES
  argv,       \* the command line
  pc,         \* control state of execute
  out,        \* what was printed on stdout
  errors,     \* a message was printed on stderr
  returned,   \* the value execute returned
  status      \* the exit status of the process

mainVars == <<argv, pc, out, errors, returned, status>>
vars     == <<parserVars, mainVars>>

Init ==
  /\ InitParser
  /\ argv \in CommandLines
  /\ pc = "options"
  /\ out = <<>>
  /\ errors = FALSE
  /\ returned = Undef
  /\ status = Undef

Return(value) == returned' = value /\ pc' = "returned"

(***************************************************************************)
(* The options.  Texts asked for are printed before anything is checked,   *)
(* and only the first of them.                                             *)
(***************************************************************************)
BadOption ==
  /\ pc = "options"
  /\ argv.bad
  /\ errors' = TRUE           \* getopt prints the message
  /\ Return(1)
  /\ UNCHANGED <<parserVars, argv, out, status>>

\* No argument at all prints the version too.
PrintText ==
  /\ pc = "options"
  /\ argv.alone \/ (argv.shown /\ ~argv.bad)
  /\ out' = <<"text">>
  /\ Return(0)
  /\ UNCHANGED <<parserVars, argv, errors, status>>

\* Without -fo the format is what follows the last '.' of the path, or the
\* whole path if there is none.
Format == IF argv.format = Empty THEN Last(argv.path) ELSE argv.format[1]

Missing == argv.problem = Empty \/ argv.path = Empty

Proceeds == ~argv.alone /\ ~argv.bad /\ ~argv.shown

CheckOptions ==
  /\ pc = "options"
  /\ Proceeds
  /\ IF Missing \/ Format # "i23"
     THEN Return(1) /\ errors' = TRUE
     ELSE pc' = "parse" /\ UNCHANGED <<returned, errors>>
  /\ UNCHANGED <<parserVars, argv, out, status>>

Parse ==
  /\ pc = "parse"
  /\ ParserNext
  /\ UNCHANGED mainVars

\* exit(1) inside parse_af.
ParserExits ==
  /\ pc = "parse"
  /\ parser = "failed"
  /\ status' = 1
  /\ errors' = TRUE
  /\ pc' = "exited"
  /\ UNCHANGED <<parserVars, argv, out, returned>>

(***************************************************************************)
(* The problem, the query and the call of the solver.                      *)
(***************************************************************************)
task == argv.problem[1]
sem  == IF Len(argv.problem) = 1 THEN argv.problem[1] ELSE argv.problem[2]

\* Faulty variant: the semantics is not looked at.
UnsupportedTask == task # "DS" \/ argv.query = Empty

Unsupported == task # "DS" \/ argv.query = Empty \/ sem # "PR"

\* std::stoi throws for what is no number, before the semantics is looked at.
StoiThrows == task = "DS" /\ argv.query = <<Word>>

Abort ==
  /\ pc = "parse"
  /\ parser = "parsed"
  /\ StoiThrows
  /\ status' = Aborted
  /\ errors' = TRUE
  /\ pc' = "exited"
  /\ UNCHANGED <<parserVars, argv, out, returned>>

RejectProblem ==
  /\ pc = "parse"
  /\ parser = "parsed"
  /\ ~StoiThrows
  /\ Unsupported
  /\ errors' = TRUE
  /\ Return(1)
  /\ UNCHANGED <<parserVars, argv, out, status>>

\* Solver_DS_PR::solve by its contract.  Index 0 exists in every table, so
\* the solver takes it for one more argument; if it is still there after
\* preprocessing its literal 0 ends clauses and any answer may come.
\* proof_extension comes back with a rejection only, and may be empty.
Answers(q) ==
  IF process_result(attacks, Indices, q) = "unknown"
       /\ 0 \in process_reduct(attacks, Indices, q)
  THEN BOOLEAN
  ELSE {SkepticallyAccepted(attacks, Indices, q)}

AnswerText(accepted) == <<IF accepted THEN "YES" ELSE "NO">>

\* "w " and, if there is one, the proof on a line of its own.
ProofTexts(accepted) == IF accepted THEN {<<>>} ELSE {<<"w">>, <<"w", "proof">>}

\* The search, if preprocessing leaves it anything, prints each child it
\* creates with its priority, before the answer and on stdout too.
SearchTexts(q) ==
  IF process_result(attacks, Indices, q) = "unknown" THEN {<<>>, <<"priorities">>} ELSE {<<>>}

Solve ==
  /\ pc = "parse"
  /\ parser = "parsed"
  /\ ~StoiThrows
  /\ ~Unsupported
  /\ argv.query[1] \in Indices
  /\ \E searched \in SearchTexts(argv.query[1]), accepted \in Answers(argv.query[1]) :
       \E proof \in ProofTexts(accepted) :
         out' = searched \o AnswerText(accepted) \o proof
  /\ Return(0)
  /\ UNCHANGED <<parserVars, argv, errors, status>>

\* The query is not compared with num_args: the tables are read outside.
SolveOutside ==
  /\ pc = "parse"
  /\ \/ parser = "undefined"
     \/ parser = "parsed" /\ ~StoiThrows /\ ~Unsupported /\ argv.query[1] \notin Indices
  /\ pc' = "undefined"
  /\ UNCHANGED <<parserVars, argv, out, errors, returned, status>>

\* main calls execute, drops the value and falls off its end.
MainReturns ==
  /\ pc = "returned"
  /\ status' = 0
  /\ pc' = "exited"
  /\ UNCHANGED <<parserVars, argv, out, errors, returned>>

Terminated == pc \in {"exited", "undefined"} /\ UNCHANGED vars

Next ==
  \/ BadOption \/ PrintText \/ CheckOptions
  \/ Parse \/ ParserExits
  \/ Abort \/ RejectProblem \/ Solve \/ SolveOutside
  \/ MainReturns \/ Terminated

Spec == Init /\ [][Next]_vars

-----------------------------------------------------------------------------
(***************************************************************************)
(* Properties.                                                             *)
(***************************************************************************)
\* (What the search prints comes first, so the answer is not always the first
\* line.)
Answered == "YES" \in ToSet(out) \/ "NO" \in ToSet(out)

\* A request for DS-PR with everything it takes.
Complete ==
  /\ Proceeds
  /\ Len(argv.problem) >= 2 /\ SubSeq(argv.problem, 1, 2) = <<"DS", "PR">>
  /\ argv.path # Empty /\ Format = "i23"
  /\ argv.query \notin {Empty, <<Word>>}
  /\ file.header \in Numbers

\* Every way out tells the user something, and an answer comes out of the
\* complete requests and of no other, although the checks of execute are
\* spread over both sides of the parsing: an error found late leaves no
\* answer on stdout, and an answer is never followed by an error or by a
\* status other than 0.  (The converse is not true: main drops the value of
\* execute, and most errors end with status 0.)
RequestHonoured ==
  pc = "exited" =>
    /\ Answered <=> Complete
    /\ errors <=> ~Answered /\ out = <<>>
    /\ status # 0 => errors

\* For a well-formed file and an argument of it, the answer printed is that
\* of DS-PR for the framework the file describes (Solver_DS_PR.h: "TRUE iff
\* the argument is sceptical accepted"), through the tables, the set of
\* attacks and the printing.
AnswerDescribesFile ==
  Answered /\ WellFormed /\ argv.query[1] \in StatedArgs =>
    ("YES" \in ToSet(out) <=>
       SkepticallyAccepted(StatedAttacks, StatedArgs, argv.query[1]))

=============================================================================
