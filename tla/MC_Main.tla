------------------------------ MODULE MC_Main ------------------------------
(***************************************************************************)
(* Instances of Main for TLC.                                              *)
(***************************************************************************)
EXTENDS Main

Attack(a, b) == [skip |-> FALSE, tokens |-> <<a, b>>]
EmptyLine    == [skip |-> TRUE,  tokens |-> <<>>]
Comment      == [skip |-> TRUE,  tokens |-> <<Word>>]
Tokens(ts)   == [skip |-> FALSE, tokens |-> ts]

AttackLines(n) == {Attack(a, b) : a \in 1..n, b \in 1..n}

FilesOf(headers, lines, k) ==
  {[header |-> h, lines |-> ls] : h \in headers, ls \in BoundedSeq(lines, k)}

\* Every file of up to three lines over two arguments, and of up to three
\* attacks over three arguments: repeated lines, self-attacks, both
\* directions of an attack, comments between the attacks.
WellFormedFiles ==
  FilesOf({2}, AttackLines(2) \cup {EmptyLine, Comment}, 3)
    \cup FilesOf({3}, AttackLines(3), 3)

\* Lines that cannot be read, at each of the two numbers, among lines that
\* can; 3 is not an argument.
MalformedFiles ==
  FilesOf({2}, {Attack(1, 2), Attack(2, 1), Attack(1, 3), Tokens(<<>>), Tokens(<<2>>),
                Tokens(<<2, Word>>), Tokens(<<Word>>), Tokens(<<Word, 1>>), Comment}, 2)

\* One file of each kind the checks of execute tell apart.
SomeFiles ==
  {[header |-> NoFile, lines |-> <<>>], [header |-> NoHeader, lines |-> <<Attack(1, 2)>>],
   [header |-> 0, lines |-> <<>>], [header |-> 2, lines |-> <<Attack(2, 1)>>],
   [header |-> 2, lines |-> <<Comment, Attack(2, 1), EmptyLine, Attack(1, 2)>>]}

Plain == [alone |-> FALSE, shown |-> FALSE, bad |-> FALSE, problem |-> <<"DS", "PR">>,
          path |-> <<"af", "i23">>, format |-> Empty, query |-> <<1>>]

\* Every combination of given, missing and unusable options.
AllCommandLines ==
  {[alone |-> TRUE, shown |-> FALSE, bad |-> FALSE, problem |-> Empty,
    path |-> Empty, format |-> Empty, query |-> Empty]}
  \cup
  [alone : {FALSE}, shown : BOOLEAN, bad : BOOLEAN,
   problem : {Empty, <<"DS", "PR">>, <<"DS">>, <<"DS", "GR">>, <<"SE", "PR">>,
              <<"DS", "PR", "x">>},
   path : {Empty, <<"af", "i23">>, <<"i23">>, <<"af", "txt">>},
   format : {Empty, <<"i23">>, <<"tgf">>},
   query : {Empty, <<1>>, <<2>>, <<Word>>}]

AllFiles == WellFormedFiles \cup MalformedFiles \cup SomeFiles

\* Every file is asked one complete question, and one file of each kind
\* every question.
MCInit == Init /\ (argv = Plain \/ file \in SomeFiles)
MCSpec == MCInit /\ [][Next]_vars
=============================================================================
