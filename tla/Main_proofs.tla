---------------------------- MODULE Main_proofs ----------------------------
(***************************************************************************)
(* The parser hands over the framework of the file, and execute answers    *)
(* the complete requests and no others, for every file and command line.   *)
(***************************************************************************)
EXTENDS Main, ArgumentationTheorems

-----------------------------------------------------------------------------
(***************************************************************************)
(* The invariant of parse_af.                                              *)
(***************************************************************************)
Initialized == parser \in {"lines", "finish", "parsed"}

\* Where parse_af is, and what it has not touched yet.
ParserControl ==
  /\ file \in Files
  /\ parser \in {"idle", "failed", "lines", "finish", "parsed", "undefined"}
  /\ at \in Nat \ {0}
  /\ attacks \in SUBSET (Numbers \X Numbers)
  /\ transferred \in SUBSET attacks
  /\ parser = "idle" => at = 1 /\ attacks = {}
  /\ parser \in {"idle", "lines"} =>
       transferred = {} /\ self_attack = {} /\ symmetric_attacks = {}
  /\ parser = "failed" => file.header \in {NoFile, NoHeader}
  /\ parser \notin {"idle", "failed"} => file.header \in Numbers
  /\ Initialized => num_args = file.header
  /\ parser = "parsed" => transferred = attacks

\* A vector and a bitset that list the members of S, the vector each once.
ListsSet(vb, S) ==
  /\ vb \in [vector : Seq(Numbers), bitset : SUBSET Numbers]
  /\ ToSet(vb.vector) = S
  /\ IsInjective(vb.vector)
  /\ vb.bitset = S

\* The tables hold the attacks that have been transferred.
TablesFilled ==
  Initialized =>
    /\ DOMAIN attackers_list = Indices /\ DOMAIN victims_list = Indices
    /\ transferred \subseteq Indices \X Indices
    /\ \A a \in Indices : /\ ListsSet(attackers_list[a], attackers(transferred, a))
                          /\ ListsSet(victims_list[a], victims(transferred, a))
    /\ self_attack = {a \in Indices : <<a, a>> \in transferred}
    /\ symmetric_attacks =
         {e \in attacks : /\ <<e[2], e[1]>> \in attacks
                          /\ e \in transferred \/ <<e[2], e[1]>> \in transferred}

Stated(line) == <<line.tokens[1], line.tokens[2]>>

\* The lines read so far have added their attacks, and those of a
\* well-formed file nothing else.
LinesRead ==
  /\ Initialized => \A i \in DOMAIN file.lines :
                      i < at /\ States(file.lines[i]) => Stated(file.lines[i]) \in attacks
  /\ parser \in {"finish", "parsed"} => at > Len(file.lines)
  /\ WellFormed => attacks \subseteq StatedAttacks

ParserInv == ParserControl /\ TablesFilled /\ LinesRead

-----------------------------------------------------------------------------
(***************************************************************************)
(* Facts about files and tables.                                           *)
(***************************************************************************)
\* A file is a header and a sequence of lines of tokens.
LEMMA FileType ==
  ASSUME NEW f \in Files
  PROVE  /\ f.header \in Numbers \cup {NoHeader, NoFile}
         /\ f.lines \in Seq(Line) /\ DOMAIN f.lines = 1..Len(f.lines) /\ Len(f.lines) \in Nat
         /\ \A i \in DOMAIN f.lines : f.lines[i] \in Line
BY ParserAssumption

\* The attacks a file states are those of its lines.
LEMMA StatedMembers ==
  ASSUME NEW e
  PROVE  e \in StatedAttacks <=>
           \E i \in DOMAIN file.lines : States(file.lines[i]) /\ e = Stated(file.lines[i])
BY DEF StatedAttacks, ToSet, Stated

\* What the rows of the tables are taken for.
LEMMA RowMembers ==
  ASSUME NEW A, NEW att \in SUBSET (A \X A), NEW a, NEW b
  PROVE  /\ b \in attackers(att, a) <=> <<b, a>> \in att
         /\ b \in victims(att, a) <=> <<a, b>> \in att
BY DEF attackers, victims

\* An attack more.
With(att, s, t) == att \cup {<<s, t>>}

\* One more attack is one more attacker of its target, and one more victim
\* of its source.
LEMMA PairAdded ==
  ASSUME NEW att \in SUBSET (Numbers \X Numbers), NEW s \in Numbers, NEW t \in Numbers,
         NEW a
  PROVE  /\ attackers(With(att, s, t), a) =
              IF a = t THEN attackers(att, a) \cup {s} ELSE attackers(att, a)
         /\ victims(With(att, s, t), a) =
              IF a = s THEN victims(att, a) \cup {t} ELSE victims(att, a)
PROOF
  <1> DEFINE more == With(att, s, t)
  <1>0. more \in SUBSET (Numbers \X Numbers)
    BY DEF With
  <1>1. \A b, c : <<b, c>> \in more <=> <<b, c>> \in att \/ (b = s /\ c = t)
    BY DEF With
  <1> HIDE DEF more
  <1>2. \A b : b \in attackers(more, a) <=> b \in attackers(att, a) \/ (a = t /\ b = s)
    <2> TAKE b
    <2>1. b \in attackers(more, a) <=> <<b, a>> \in more
      BY <1>0, RowMembers
    <2>2. b \in attackers(att, a) <=> <<b, a>> \in att
      BY RowMembers
    <2>. QED
      BY <1>1, <2>1, <2>2
  <1>3. \A b : b \in victims(more, a) <=> b \in victims(att, a) \/ (a = s /\ b = t)
    <2> TAKE b
    <2>1. b \in victims(more, a) <=> <<a, b>> \in more
      BY <1>0, RowMembers
    <2>2. b \in victims(att, a) <=> <<a, b>> \in att
      BY RowMembers
    <2>. QED
      BY <1>1, <2>1, <2>2
  <1>4. attackers(more, a) = IF a = t THEN attackers(att, a) \cup {s} ELSE attackers(att, a)
    BY <1>2
  <1>5. victims(more, a) = IF a = s THEN victims(att, a) \cup {t} ELSE victims(att, a)
    BY <1>3
  <1>. QED
    BY <1>4, <1>5 DEF more

\* push_back and the bit of a new member (finish_initilization).
LEMMA ListedAdds ==
  ASSUME NEW vb, NEW S, ListsSet(vb, S), NEW a \in Numbers, a \notin S
  PROVE  ListsSet(Listed(vb, a), S \cup {a})
PROOF
  <1>1. vb.vector \in Seq(Numbers) /\ vb.bitset \in SUBSET Numbers
    BY DEF ListsSet
  <1>2. /\ Append(vb.vector, a) \in Seq(Numbers)
        /\ ToSet(Append(vb.vector, a)) = S \cup {a}
        /\ IsInjective(Append(vb.vector, a))
    BY <1>1, SetOfAppend, InjectiveAppend DEF ListsSet
  <1>. QED
    BY <1>1, <1>2 DEF ListsSet, Listed

\* What a line gives to the attack: numbers in any case, and exactly its own
\* if they can be read.
LEMMA ExtractedNumbers ==
  ASSUME NEW line \in Line
  PROVE  /\ \A i \in 1..2 : Extracted(line.tokens, i) \subseteq Numbers
         /\ file.header \in Numbers /\ States(line) =>
              \A i \in 1..2 : Extracted(line.tokens, i) = {line.tokens[i]}
PROOF
  <1>1. /\ line.tokens \in Seq(Numbers \cup {Word}) /\ Len(line.tokens) \in Nat
        /\ \A i \in 1..Len(line.tokens) : line.tokens[i] \in Numbers \cup {Word}
    BY DEF Line
  <1>2. 0 \in Numbers /\ Word \notin Nat
    BY ParserAssumption DEF Numbers, Word
  <1>3. ASSUME NEW i \in 1..2 PROVE Extracted(line.tokens, i) \subseteq Numbers
    <2>1. CASE Len(line.tokens) < i \/ \E j \in 1..(i - 1) : line.tokens[j] = Word
      BY <2>1 DEF Extracted
    <2>2. CASE ~(Len(line.tokens) < i \/ \E j \in 1..(i - 1) : line.tokens[j] = Word)
      <3>1. line.tokens[i] \in Numbers \cup {Word}
        BY <1>1, <2>2
      <3>. QED
        BY <1>2, <2>2, <3>1 DEF Extracted
    <2>. QED
      BY <2>1, <2>2
  <1>4. ASSUME file.header \in Numbers, States(line), NEW i \in 1..2
        PROVE  Extracted(line.tokens, i) = {line.tokens[i]}
    <2>1. /\ Len(line.tokens) >= 2
          /\ \A j \in 1..2 : line.tokens[j] \in Nat
      BY <1>4, ParserAssumption DEF States, Numbers
    <2>2. \A j \in 1..2 : line.tokens[j] # Word
      BY <1>2, <2>1
    <2>. QED
      BY <1>1, <2>1, <2>2 DEF Extracted
  <1>. QED
    BY <1>3, <1>4

-----------------------------------------------------------------------------
(***************************************************************************)
(* Each step of parse_af keeps the invariant.                              *)
(***************************************************************************)
\* Nothing has been read.
LEMMA InitParserInv ==
  ASSUME InitParser
  PROVE  ParserInv
PROOF
  <1>1. ParserControl /\ TablesFilled
    BY DEF InitParser, ParserControl, TablesFilled, Initialized
  <1>2. LinesRead
    BY DEF InitParser, LinesRead, Initialized
  <1>. QED
    BY <1>1, <1>2 DEF ParserInv

\* The header makes room for rows that are still empty.
LEMMA HeaderStep ==
  ASSUME ParserInv, ParseHeader
  PROVE  ParserInv'
PROOF
  <1>1. /\ parser = "idle" /\ file.header \in Numbers /\ num_args' = file.header
        /\ attackers_list' = [a \in 0..file.header |-> EmptyVectorBitSet]
        /\ victims_list' = [a \in 0..file.header |-> EmptyVectorBitSet]
        /\ parser' = "lines"
        /\ UNCHANGED <<file, at, attacks, transferred, self_attack, symmetric_attacks>>
    BY DEF ParseHeader
  <1>2. /\ at = 1 /\ attacks = {} /\ transferred = {} /\ self_attack = {}
        /\ symmetric_attacks = {} /\ file \in Files
    BY <1>1 DEF ParserInv, ParserControl
  <1>3. ParserControl'
    BY <1>1, <1>2 DEF ParserControl, Initialized
  <1>4. Indices' = 0..file.header
    BY <1>1 DEF Indices
  <1>5. \A a : attackers({}, a) = {} /\ victims({}, a) = {}
    BY DEF attackers, victims
  <1>6. ListsSet(EmptyVectorBitSet, {})
    BY DEF ListsSet, EmptyVectorBitSet, ToSet, IsInjective
  <1>7. \A a \in Indices' : /\ ListsSet(attackers_list'[a], attackers({}, a))
                            /\ ListsSet(victims_list'[a], victims({}, a))
    BY <1>1, <1>4, <1>5, <1>6
  <1>8. TablesFilled'
    BY <1>1, <1>2, <1>4, <1>7 DEF TablesFilled
  <1>9. DOMAIN file.lines = 1..Len(file.lines)
    BY <1>2, FileType
  <1>10. LinesRead'
    BY <1>1, <1>2, <1>9 DEF LinesRead, Initialized, ParserInv, WellFormed, StatedAttacks
  <1>. QED
    BY <1>3, <1>8, <1>10 DEF ParserInv

\* A line adds its attack, a malformed one some attack, and takes none away.
LEMMA LineStep ==
  ASSUME ParserInv, ReadLine
  PROVE  ParserInv'
PROOF
  <1> DEFINE line == file.lines[at]
  <1>1. /\ parser = "lines" /\ at <= Len(file.lines) /\ at' = at + 1
        /\ UNCHANGED <<file, parser, num_args, transferred, attackers_list, victims_list,
                       self_attack, symmetric_attacks>>
    BY DEF ReadLine
  <1>2. /\ file \in Files /\ at \in Nat \ {0} /\ file.header \in Numbers
        /\ attacks \in SUBSET (Numbers \X Numbers)
        /\ transferred = {} /\ self_attack = {} /\ symmetric_attacks = {}
    BY <1>1 DEF ParserInv, ParserControl
  <1>3. /\ DOMAIN file.lines = 1..Len(file.lines) /\ Len(file.lines) \in Nat
        /\ \A i \in DOMAIN file.lines : file.lines[i] \in Line
    BY <1>2, FileType
  <1>4. at \in DOMAIN file.lines /\ line \in Line
    BY <1>1, <1>2, <1>3
  <1>5. /\ attacks \subseteq attacks' /\ attacks' \in SUBSET (Numbers \X Numbers)
        /\ States(line) => attacks' = attacks \cup {Stated(line)}
        /\ line.skip => attacks' = attacks
    <2>1. CASE line.skip
      BY <1>2, <2>1 DEF ReadLine, SkipLine, States
    <2>2. CASE ~line.skip
      <3>1. PICK attacker \in Extracted(line.tokens, 1), victim \in Extracted(line.tokens, 2) :
              attacks' = attacks \cup {<<attacker, victim>>}
        BY <2>2 DEF ReadLine, SkipLine, add_attack
      <3>2. attacker \in Numbers /\ victim \in Numbers
        BY <1>4, <3>1, ExtractedNumbers
      <3>3. States(line) => attacker = line.tokens[1] /\ victim = line.tokens[2]
        BY <1>2, <1>4, <3>1, ExtractedNumbers
      <3>. QED
        BY <1>2, <2>2, <3>1, <3>2, <3>3 DEF Stated
    <2>. QED
      BY <2>1, <2>2
  <1> HIDE DEF line
  <1>6. ParserControl'
    BY <1>1, <1>2, <1>5 DEF ParserInv, ParserControl, Initialized
  <1>7. TablesFilled'
    BY <1>1, <1>2, <1>5 DEF ParserInv, TablesFilled, Initialized, Indices
  <1>8. ASSUME NEW i \in DOMAIN file.lines, i < at + 1, States(file.lines[i])
        PROVE  Stated(file.lines[i]) \in attacks'
    <2>1. CASE i = at
      BY <1>5, <1>8, <2>1 DEF line
    <2>2. CASE i < at
      BY <1>1, <1>5, <1>8, <2>2 DEF ParserInv, LinesRead, Initialized
    <2>. QED
      BY <1>2, <1>3, <1>8, <2>1, <2>2
  <1>9. WellFormed => attacks' \subseteq StatedAttacks
    <2> SUFFICES ASSUME WellFormed PROVE attacks' \subseteq StatedAttacks
      OBVIOUS
    <2>1. line.skip \/ States(line)
      BY <1>4 DEF WellFormed, ToSet, line
    <2>2. States(line) => Stated(line) \in StatedAttacks
      BY <1>4, StatedMembers DEF line
    <2>. QED
      BY <1>5, <2>1, <2>2 DEF ParserInv, LinesRead
  <1>10. WellFormed' = WellFormed /\ StatedAttacks' = StatedAttacks
    BY <1>1 DEF WellFormed, StatedAttacks, States
  <1>11. LinesRead'
    <2>1. parser' = "lines" /\ file' = file /\ at' = at + 1
      BY <1>1
    <2>2. \A i \in DOMAIN file.lines : (States(file.lines[i]) <=> States(file.lines[i])')
      BY <1>1 DEF States
    <2>. QED
      BY <1>8, <1>9, <1>10, <2>1, <2>2 DEF LinesRead, Initialized, Stated
  <1>. QED
    BY <1>6, <1>7, <1>11 DEF ParserInv

\* The attack of a turn is new to the row of its target and to that of its
\* source, a self-attack included, and marks both directions if it has one.
LEMMA TransferStep ==
  ASSUME ParserInv, NEW s \in Numbers, NEW t \in Numbers, TransferAttack(s, t)
  PROVE  ParserInv'
PROOF
  <1>1. /\ parser = "finish" /\ <<s, t>> \in attacks /\ <<s, t>> \notin transferred
        /\ s \in Indices /\ t \in Indices
        /\ attackers_list' = [attackers_list EXCEPT ![t] = Listed(@, s)]
        /\ victims_list' = [victims_list EXCEPT ![s] = Listed(@, t)]
        /\ self_attack' = IF s = t THEN self_attack \cup {s} ELSE self_attack
        /\ symmetric_attacks' = IF <<t, s>> \in attacks
                                THEN symmetric_attacks \cup {<<s, t>>, <<t, s>>}
                                ELSE symmetric_attacks
        /\ transferred' = transferred \cup {<<s, t>>}
        /\ UNCHANGED <<file, parser, at, num_args, attacks>>
    BY DEF TransferAttack, Transfer
  <1>2. /\ attacks \in SUBSET (Numbers \X Numbers)
        /\ transferred \in SUBSET attacks
    BY DEF ParserInv, ParserControl
  <1>3. /\ DOMAIN attackers_list = Indices /\ DOMAIN victims_list = Indices
        /\ transferred \subseteq Indices \X Indices
        /\ \A a \in Indices : /\ ListsSet(attackers_list[a], attackers(transferred, a))
                              /\ ListsSet(victims_list[a], victims(transferred, a))
        /\ self_attack = {a \in Indices : <<a, a>> \in transferred}
        /\ symmetric_attacks =
             {e \in attacks : /\ <<e[2], e[1]>> \in attacks
                              /\ e \in transferred \/ <<e[2], e[1]>> \in transferred}
    BY <1>1 DEF ParserInv, TablesFilled, Initialized
  <1>4. ParserControl'
    BY <1>1 DEF ParserInv, ParserControl, Initialized
  <1>5. LinesRead'
    BY <1>1 DEF ParserInv, LinesRead, Initialized, States, Stated, WellFormed, StatedAttacks
  <1>6. Indices' = Indices
    BY <1>1 DEF Indices
  <1>7. transferred \in SUBSET (Numbers \X Numbers)
    BY <1>2
  <1>8. \A a : /\ attackers(transferred', a) = IF a = t THEN attackers(transferred, a) \cup {s}
                                               ELSE attackers(transferred, a)
               /\ victims(transferred', a) = IF a = s THEN victims(transferred, a) \cup {t}
                                             ELSE victims(transferred, a)
    <2> SUFFICES ASSUME NEW a
                 PROVE  /\ attackers(transferred', a) =
                             IF a = t THEN attackers(transferred, a) \cup {s}
                             ELSE attackers(transferred, a)
                        /\ victims(transferred', a) =
                             IF a = s THEN victims(transferred, a) \cup {t}
                             ELSE victims(transferred, a)
      OBVIOUS
    <2>1. transferred' = With(transferred, s, t)
      BY <1>1 DEF With
    <2>2. /\ attackers(With(transferred, s, t), a) =
               IF a = t THEN attackers(transferred, a) \cup {s} ELSE attackers(transferred, a)
          /\ victims(With(transferred, s, t), a) =
               IF a = s THEN victims(transferred, a) \cup {t} ELSE victims(transferred, a)
      BY <1>7, PairAdded
    <2>. QED
      BY <2>1, <2>2
  <1>9. s \notin attackers(transferred, t) /\ t \notin victims(transferred, s)
    BY <1>1, <1>7, RowMembers
  <1>10. ASSUME NEW a \in Indices
         PROVE  /\ ListsSet(attackers_list'[a], attackers(transferred', a))
                /\ ListsSet(victims_list'[a], victims(transferred', a))
    <2>1. ListsSet(attackers_list'[a], attackers(transferred', a))
      <3>1. CASE a = t
        <4>1. ListsSet(Listed(attackers_list[a], s), attackers(transferred, a) \cup {s})
          BY <1>3, <1>9, <1>10, <3>1, ListedAdds
        <4>2. attackers_list'[a] = Listed(attackers_list[a], s)
          BY <1>1, <1>3, <3>1
        <4>. QED
          BY <1>8, <3>1, <4>1, <4>2
      <3>2. CASE a # t
        BY <1>1, <1>3, <1>8, <1>10, <3>2
      <3>. QED
        BY <3>1, <3>2
    <2>2. ListsSet(victims_list'[a], victims(transferred', a))
      <3>1. CASE a = s
        <4>1. ListsSet(Listed(victims_list[a], t), victims(transferred, a) \cup {t})
          BY <1>3, <1>9, <1>10, <3>1, ListedAdds
        <4>2. victims_list'[a] = Listed(victims_list[a], t)
          BY <1>1, <1>3, <3>1
        <4>. QED
          BY <1>8, <3>1, <4>1, <4>2
      <3>2. CASE a # s
        BY <1>1, <1>3, <1>8, <1>10, <3>2
      <3>. QED
        BY <3>1, <3>2
    <2>. QED
      BY <2>1, <2>2
  <1>11. self_attack' = {a \in Indices : <<a, a>> \in transferred'}
    BY <1>1, <1>3
  <1>12. symmetric_attacks' =
           {e \in attacks : /\ <<e[2], e[1]>> \in attacks
                            /\ e \in transferred' \/ <<e[2], e[1]>> \in transferred'}
    BY <1>1, <1>2, <1>3
  <1>13. /\ DOMAIN attackers_list' = Indices /\ DOMAIN victims_list' = Indices
         /\ transferred' \subseteq Indices \X Indices
    BY <1>1, <1>3
  <1>14. TablesFilled'
    BY ONLY <1>1, <1>6, <1>10, <1>11, <1>12, <1>13 DEF TablesFilled
  <1>. QED
    BY <1>4, <1>5, <1>14 DEF ParserInv

\* The other steps only move on, and a step of execute leaves parsing alone.
LEMMA MoveStep ==
  ASSUME ParserInv,
         \/ ParseFails \/ EndOfFile \/ ParseReturns \/ UNCHANGED parserVars
         \/ \E s \in Numbers, t \in Numbers : TransferOutside(s, t)
  PROVE  ParserInv'
PROOF
  <1>1. /\ UNCHANGED <<file, at, num_args, attacks, transferred, attackers_list,
                       victims_list, self_attack, symmetric_attacks>>
        /\ \/ parser' = parser
           \/ parser = "idle" /\ parser' = "failed" /\ file.header \in {NoFile, NoHeader}
           \/ parser = "lines" /\ parser' = "finish" /\ at > Len(file.lines)
           \/ parser = "finish" /\ parser' = "parsed" /\ transferred = attacks
           \/ parser = "finish" /\ parser' = "undefined"
    BY DEF ParseFails, EndOfFile, ParseReturns, TransferOutside, parserVars, afVars
  <1>2. ParserControl'
    BY <1>1 DEF ParserInv, ParserControl, Initialized
  <1>3. TablesFilled'
    BY <1>1 DEF ParserInv, TablesFilled, Initialized, Indices
  <1>4. LinesRead'
    BY <1>1 DEF ParserInv, LinesRead, Initialized, States, Stated, WellFormed, StatedAttacks
  <1>. QED
    BY <1>2, <1>3, <1>4 DEF ParserInv

\* Every step of parse_af keeps the invariant.
LEMMA ParserStep ==
  ASSUME ParserInv, ParserNext \/ UNCHANGED parserVars
  PROVE  ParserInv'
BY HeaderStep, LineStep, TransferStep, MoveStep DEF ParserNext

-----------------------------------------------------------------------------
(***************************************************************************)
(* What the solver answers for the tables.                                 *)
(***************************************************************************)
\* Index 0, which every table has and no line of a well-formed file names,
\* changes no answer: it is outside the cone, and the arguments of the file
\* are closed under attackers.
LEMMA SolverAnswers ==
  ASSUME NEW q \in 1..num_args, num_args \in Nat,
         attacks \in SUBSET ((1..num_args) \X (1..num_args))
  PROVE  Answers(q) = {SkepticallyAccepted(attacks, 1..num_args, q)}
PROOF
  <1> DEFINE A == 1..num_args
  <1>1. A \subseteq Indices /\ 0 \notin A /\ q \in Indices
    BY DEF Indices
  <1>2. AttackerClosed(attacks, Indices, A)
    BY <1>1 DEF AttackerClosed
  <1>3. IsFiniteSet(A) /\ IsFiniteSet(Indices)
    BY FS_Interval DEF Indices
  <1> HIDE DEF A
  <1>4. SkepticallyAccepted(attacks, Indices, q) = SkepticallyAccepted(attacks, A, q)
    <2>1. Refutable(attacks, A, q) <=> Refutable(attacks, Indices, q)
      BY <1>2, ClosedRefutable DEF A
    <2>2. SkepticallyAccepted(attacks, Indices, q) <=> SkepticallyAccepted(attacks, A, q)
      BY <1>3, <2>1, RefutableIffNotAccepted
    <2>. QED
      BY <2>2 DEF SkepticallyAccepted
  <1>5. 0 \notin process_reduct(attacks, Indices, q)
    <2>1. ConeOf(attacks, Indices, q) \subseteq A
      BY <1>2 DEF ConeOf, AttackerClosed, A
    <2>. QED
      BY <1>1, <2>1 DEF process_reduct, get_reduct_set
  <1>. QED
    BY <1>4, <1>5 DEF Answers, A

-----------------------------------------------------------------------------
(***************************************************************************)
(* The invariant of execute.                                               *)
(***************************************************************************)
\* Once execute has decided, the answer goes with a complete request, and
\* silence on stdout with an error.
Decided ==
  /\ Answered <=> Complete
  /\ errors <=> ~Answered /\ out = <<>>

MainInv ==
  /\ ParserInv
  /\ argv \in CommandLines
  /\ pc \in {"options", "parse", "returned", "exited", "undefined"}
  /\ pc \in {"options", "parse"} => out = <<>> /\ ~errors
  /\ pc = "parse" => Proceeds /\ ~Missing /\ Format = "i23"
  /\ pc \in {"returned", "exited"} => Decided
  /\ pc = "exited" /\ status # 0 => errors
  /\ pc = "undefined" => ~Answered
  /\ AnswerDescribesFile

\* The words of an answer.
Texts == {"priorities", "YES", "NO", "w", "proof"}

\* What stdout holds is told apart by its words.
LEMMA OutTexts ==
  /\ ToSet(<<>>) = {}
  /\ ToSet(<<"text">>) = {"text"}
  /\ \A searched \in {<<>>, <<"priorities">>}, accepted \in BOOLEAN :
       \A proof \in ProofTexts(accepted) :
         LET text == searched \o AnswerText(accepted) \o proof IN
         /\ text # <<>>
         /\ "YES" \in ToSet(text) <=> accepted
         /\ "NO" \in ToSet(text) <=> ~accepted
PROOF
  <1>1. /\ ToSet(<<>>) = {} /\ ToSet(<<"text">>) = {"text"}
        /\ ToSet(<<"YES">>) = {"YES"} /\ ToSet(<<"NO">>) = {"NO"}
        /\ ToSet(<<"w">>) = {"w"} /\ ToSet(<<"w", "proof">>) = {"w", "proof"}
        /\ ToSet(<<"priorities">>) = {"priorities"}
    BY DEF ToSet
  <1>2. ASSUME NEW searched \in {<<>>, <<"priorities">>}, NEW accepted \in BOOLEAN,
               NEW proof \in ProofTexts(accepted)
        PROVE  LET text == searched \o AnswerText(accepted) \o proof IN
               /\ text # <<>>
               /\ "YES" \in ToSet(text) <=> accepted
               /\ "NO" \in ToSet(text) <=> ~accepted
    <2> DEFINE answer == searched \o AnswerText(accepted)
    <2>1. /\ <<"YES">> \in Seq(Texts) /\ <<"NO">> \in Seq(Texts) /\ <<>> \in Seq(Texts)
          /\ <<"w">> \in Seq(Texts) /\ <<"w", "proof">> \in Seq(Texts)
          /\ <<"priorities">> \in Seq(Texts)
      BY DEF Texts
    <2>2. proof \in Seq(Texts) /\ "YES" \notin ToSet(proof) /\ "NO" \notin ToSet(proof)
      <3>1. proof \in {<<>>, <<"w">>, <<"w", "proof">>}
        BY DEF ProofTexts
      <3>. QED
        BY <1>1, <2>1, <3>1
    <2>3. /\ AnswerText(accepted) \in Seq(Texts)
          /\ ToSet(AnswerText(accepted)) = IF accepted THEN {"YES"} ELSE {"NO"}
      <3>1. AnswerText(accepted) = IF accepted THEN <<"YES">> ELSE <<"NO">>
        BY DEF AnswerText
      <3>. QED
        BY <1>1, <2>1, <3>1
    <2>4. searched \in Seq(Texts) /\ "YES" \notin ToSet(searched) /\ "NO" \notin ToSet(searched)
      BY <1>1, <2>1
    <2>5. answer \in Seq(Texts) /\ ToSet(answer) = ToSet(searched) \cup ToSet(AnswerText(accepted))
      BY <2>3, <2>4, SetOfConcat
    <2> HIDE DEF answer
    <2>6. ToSet(answer \o proof) = ToSet(answer) \cup ToSet(proof)
      BY <2>2, <2>5, SetOfConcat
    <2>7. /\ "YES" \in ToSet(answer \o proof) <=> accepted
          /\ "NO" \in ToSet(answer \o proof) <=> ~accepted
      BY <2>2, <2>3, <2>4, <2>5, <2>6
    <2>8. answer \o proof # <<>>
      BY <1>1, <2>7
    <2>. QED
      BY <2>7, <2>8 DEF answer
  <1>. QED
    BY <1>1, <1>2

\* A complete request, as execute checks it.
LEMMA CompleteIff ==
  ASSUME NEW c \in CommandLines, argv = c, Proceeds, ~Missing, Format = "i23",
         file.header \in Numbers
  PROVE  Complete <=> ~StoiThrows /\ ~Unsupported
PROOF
  <1>1. argv.problem \in Seq(STRING) /\ argv.path # Empty /\ argv.problem # Empty
    BY CommandLineAssumption DEF Missing
  <1>2. Len(argv.problem) \in Nat \ {0}
    BY <1>1 DEF Empty
  <1>3. Len(argv.problem) >= 2 =>
          (SubSeq(argv.problem, 1, 2) = <<"DS", "PR">>
             <=> argv.problem[1] = "DS" /\ argv.problem[2] = "PR")
    <2> SUFFICES ASSUME Len(argv.problem) >= 2
                 PROVE  SubSeq(argv.problem, 1, 2) = <<"DS", "PR">>
                          <=> argv.problem[1] = "DS" /\ argv.problem[2] = "PR"
      OBVIOUS
    <2> DEFINE two == SubSeq(argv.problem, 1, 2)
    <2>1. /\ two \in Seq(STRING) /\ Len(two) = 2
          /\ two[1] = argv.problem[1] /\ two[2] = argv.problem[2]
      BY <1>1, SubSeqProperties
    <2> HIDE DEF two
    <2>2. two = <<"DS", "PR">> <=> two[1] = "DS" /\ two[2] = "PR"
      BY <2>1
    <2>. QED
      BY <2>1, <2>2 DEF two
  <1>4. Complete <=> /\ Len(argv.problem) >= 2
                     /\ argv.problem[1] = "DS" /\ argv.problem[2] = "PR"
                     /\ argv.query \notin {Empty, <<Word>>}
    BY <1>1, <1>3 DEF Complete
  <1>5. (Len(argv.problem) >= 2 /\ argv.problem[1] = "DS" /\ argv.problem[2] = "PR")
          <=> task = "DS" /\ sem = "PR"
    <2>1. CASE Len(argv.problem) = 1
      <3>1. task = argv.problem[1] /\ sem = argv.problem[1]
        BY <2>1 DEF task, sem
      <3>2. "DS" # "PR"
        OBVIOUS
      <3>. QED
        BY <2>1, <3>1, <3>2
    <2>2. CASE Len(argv.problem) >= 2
      <3>1. task = argv.problem[1] /\ sem = argv.problem[2]
        BY <1>2, <2>2 DEF task, sem
      <3>. QED
        BY <2>2, <3>1
    <2>3. Len(argv.problem) = 1 \/ Len(argv.problem) >= 2
      <3>1. \A n \in Nat \ {0} : n = 1 \/ n >= 2
        OBVIOUS
      <3>. QED
        BY <1>2, <3>1, Zenon
    <2>. QED
      BY <2>1, <2>2, <2>3, Zenon
  <1>. QED
    BY <1>4, <1>5 DEF StoiThrows, Unsupported

\* What was decided stays decided: the request does not change.
LEMMA Stays ==
  ASSUME UNCHANGED <<file, argv, out>>
  PROVE  /\ Complete' = Complete /\ Answered' = Answered
         /\ AnswerDescribesFile' = AnswerDescribesFile
         /\ (UNCHANGED errors => Decided' = Decided)
PROOF
  <1>1. Complete' = Complete
    BY DEF Complete, Proceeds, Format
  <1>2. Answered' = Answered
    BY DEF Answered
  <1>3. AnswerDescribesFile' = AnswerDescribesFile
    BY <1>2 DEF AnswerDescribesFile, WellFormed, States, StatedArgs, StatedAttacks
  <1>. QED
    BY <1>1, <1>2, <1>3 DEF Decided

\* An error found before anything was printed.
LEMMA ErrorDecides ==
  ASSUME out = <<>>, errors, ~Complete
  PROVE  Decided
BY OutTexts DEF Decided, Answered

\* Nothing is answered yet.
LEMMA NothingAnswered ==
  ASSUME MainInv, pc \in {"options", "parse"}
  PROVE  ~Answered /\ out = <<>> /\ ~errors
BY OutTexts DEF MainInv, Answered

\* execute starts with nothing parsed and nothing said.
LEMMA InitMainInv == Init => MainInv
PROOF
  <1> SUFFICES ASSUME Init PROVE MainInv
    OBVIOUS
  <1>1. ParserInv /\ out = <<>> /\ ~errors /\ pc = "options" /\ argv \in CommandLines
    BY InitParserInv DEF Init
  <1>2. ~Answered
    BY <1>1, OutTexts DEF Answered
  <1>. QED
    BY <1>1, <1>2 DEF MainInv, AnswerDescribesFile

\* Before parsing: a text asked for, an error, or on to the file.
LEMMA OptionsStep ==
  ASSUME MainInv, BadOption \/ PrintText \/ CheckOptions
  PROVE  MainInv'
PROOF
  <1>1. pc = "options" /\ UNCHANGED <<parserVars, argv>>
    BY DEF BadOption, PrintText, CheckOptions
  <1>2. ParserInv' /\ argv' \in CommandLines /\ UNCHANGED file
    BY <1>1, MoveStep DEF MainInv, parserVars
  <1>3. ~Answered /\ out = <<>> /\ ~errors
    BY <1>1, NothingAnswered
  <1>4. Complete' = Complete
    BY <1>1, <1>2 DEF Complete, Proceeds, Format
  <1>5. CASE BadOption
    <2>1. ~Complete /\ out' = <<>> /\ errors' /\ pc' = "returned"
      BY <1>3, <1>5 DEF BadOption, Complete, Proceeds, Return
    <2>2. ~Answered'
      BY <2>1, OutTexts DEF Answered
    <2>. QED
      BY <1>2, <1>4, <2>1, <2>2 DEF MainInv, Decided, AnswerDescribesFile
  <1>6. CASE PrintText
    <2>1. ~Complete /\ out' = <<"text">> /\ ~errors' /\ pc' = "returned"
      BY <1>3, <1>6 DEF PrintText, Complete, Proceeds, Return
    <2>2. ~Answered' /\ out' # <<>>
      BY <2>1, OutTexts DEF Answered
    <2>. QED
      BY <1>2, <1>4, <2>1, <2>2 DEF MainInv, Decided, AnswerDescribesFile
  <1>7. CASE CheckOptions
    <2>1. out' = <<>> /\ ~Answered'
      BY <1>3, <1>7, OutTexts DEF CheckOptions, Answered
    <2>2. CASE Missing \/ Format # "i23"
      <3>1. ~Complete /\ errors' /\ pc' = "returned"
        BY <1>7, <2>2 DEF CheckOptions, Return, Complete, Missing, Empty
      <3>. QED
        BY <1>2, <1>4, <2>1, <3>1 DEF MainInv, Decided, AnswerDescribesFile
    <2>3. CASE ~(Missing \/ Format # "i23")
      <3>1. pc' = "parse" /\ ~errors' /\ Proceeds' /\ ~Missing' /\ Format' = "i23"
        BY <1>1, <1>3, <1>7, <2>3 DEF CheckOptions, Proceeds, Missing, Format
      <3>. QED
        BY <1>2, <2>1, <3>1 DEF MainInv, AnswerDescribesFile
    <2>. QED
      BY <2>2, <2>3
  <1>. QED
    BY <1>5, <1>6, <1>7

\* The answer is printed for the complete requests, and it is the one for
\* the file if the file is well-formed.
LEMMA SolveStep ==
  ASSUME MainInv, Solve
  PROVE  MainInv'
PROOF
  <1> DEFINE q == argv.query[1]
  <1>1. /\ pc = "parse" /\ parser = "parsed" /\ ~StoiThrows /\ ~Unsupported
        /\ q \in Indices /\ pc' = "returned"
        /\ UNCHANGED <<parserVars, argv, errors, status>>
    BY DEF Solve, Return
  <1>2. PICK searched \in SearchTexts(q), accepted \in Answers(q) :
          \E proof \in ProofTexts(accepted) :
            out' = searched \o AnswerText(accepted) \o proof
    BY DEF Solve
  <1>3. searched \in {<<>>, <<"priorities">>} /\ accepted \in BOOLEAN
    BY <1>2 DEF SearchTexts, Answers, SkepticallyAccepted
  <1>4. out' # <<>> /\ ("YES" \in ToSet(out') <=> accepted) /\ ("NO" \in ToSet(out') <=> ~accepted)
    BY <1>2, <1>3, OutTexts
  <1>5. ~errors /\ Answered'
    BY <1>1, <1>3, <1>4, NothingAnswered DEF Answered
  <1>6. ParserInv' /\ argv' \in CommandLines /\ UNCHANGED <<file, argv>>
    BY <1>1, MoveStep DEF MainInv, parserVars
  <1>7. ParserInv /\ file.header \in Numbers /\ num_args = file.header
    BY <1>1 DEF MainInv, ParserInv, ParserControl, Initialized
  <1>8. Complete
    BY <1>1, <1>7, CompleteIff DEF MainInv
  <1>9. Decided'
    <2>1. Complete'
      BY <1>6, <1>8 DEF Complete, Proceeds, Format
    <2>. QED
      BY <1>1, <1>5, <2>1 DEF Decided
  <1>10. AnswerDescribesFile'
    <2> SUFFICES ASSUME WellFormed, q \in StatedArgs
                 PROVE  "YES" \in ToSet(out') <=>
                          SkepticallyAccepted(StatedAttacks, StatedArgs, q)
      BY <1>6 DEF AnswerDescribesFile, WellFormed, States, StatedArgs, StatedAttacks
    <2>1. attacks = StatedAttacks
      <3>1. attacks \subseteq StatedAttacks
        BY <1>7 DEF ParserInv, LinesRead
      <3>2. ASSUME NEW e \in StatedAttacks PROVE e \in attacks
        <4>1. PICK i \in DOMAIN file.lines : States(file.lines[i]) /\ e = Stated(file.lines[i])
          BY <3>2, StatedMembers
        <4>2. i < at
          BY <1>1, <1>7, <4>1, FileType DEF ParserInv, ParserControl, LinesRead
        <4>. QED
          BY <1>1, <1>7, <4>1, <4>2 DEF ParserInv, LinesRead, Initialized
      <3>. QED
        BY <3>1, <3>2
    <2>2. StatedAttacks \in SUBSET (StatedArgs \X StatedArgs)
      BY StatedMembers DEF States, Stated, StatedArgs
    <2>3. StatedArgs = 1..num_args /\ num_args \in Nat
      BY <1>7, ParserAssumption DEF StatedArgs, Numbers
    <2>4. Answers(q) = {SkepticallyAccepted(attacks, 1..num_args, q)}
      BY <2>1, <2>2, <2>3, SolverAnswers
    <2>. QED
      BY <1>2, <1>4, <2>1, <2>3, <2>4
  <1>. QED
    BY <1>1, <1>6, <1>9, <1>10 DEF MainInv

\* After the file has been opened: parsing, the errors found late, and what
\* nothing is known of.
LEMMA ParseStep ==
  ASSUME MainInv, Parse \/ ParserExits \/ Abort \/ RejectProblem \/ SolveOutside
  PROVE  MainInv'
PROOF
  <1>1. /\ pc = "parse" /\ UNCHANGED <<argv, out>> /\ ParserInv
        /\ ParserNext \/ UNCHANGED parserVars
    BY DEF MainInv, Parse, ParserExits, Abort, RejectProblem, SolveOutside, mainVars
  <1>2. ParserInv' /\ argv' \in CommandLines
    BY <1>1, ParserStep DEF MainInv
  <1>3. UNCHANGED file
    BY <1>1 DEF ParserNext, ParseFails, ParseHeader, ReadLine, EndOfFile, TransferAttack,
                TransferOutside, ParseReturns, parserVars
  <1>4. ~Answered' /\ ~Answered /\ out' = <<>> /\ ~errors
    BY <1>1, NothingAnswered DEF Answered
  <1>5. AnswerDescribesFile'
    BY <1>4 DEF AnswerDescribesFile
  <1>6. Complete' = Complete
    BY <1>1, <1>3 DEF Complete, Proceeds, Format
  <1>7. CASE Parse
    <2>1. pc' = "parse" /\ ~errors'
      BY <1>4, <1>7 DEF Parse, mainVars
    <2>2. Proceeds' /\ ~Missing' /\ Format' = "i23"
      BY <1>1 DEF MainInv, Proceeds, Missing, Format
    <2>. QED
      BY <1>2, <1>4, <1>5, <2>1, <2>2 DEF MainInv
  <1>8. CASE ParserExits
    <2>1. ~Complete /\ errors' /\ pc' = "exited"
      BY <1>1, <1>8, ParserAssumption
         DEF ParserExits, Complete, ParserInv, ParserControl, Numbers, NoFile, NoHeader
    <2>. QED
      BY <1>2, <1>4, <1>5, <1>6, <2>1 DEF MainInv, Decided
  <1>9. ASSUME Abort \/ RejectProblem PROVE MainInv'
    <2>1. file.header \in Numbers
      BY <1>1, <1>9 DEF Abort, RejectProblem, ParserInv, ParserControl
    <2>2. ~Complete
      BY <1>1, <1>9, <2>1, CompleteIff DEF MainInv, Abort, RejectProblem
    <2>3. errors' /\ pc' \in {"returned", "exited"}
      BY <1>9 DEF Abort, RejectProblem, Return
    <2>. QED
      BY <1>2, <1>4, <1>5, <1>6, <2>2, <2>3 DEF MainInv, Decided
  <1>10. CASE SolveOutside
    BY <1>2, <1>4, <1>5, <1>10 DEF MainInv, SolveOutside
  <1>. QED
    BY <1>7, <1>8, <1>9, <1>10

\* main ends with status 0 whatever execute returned.
LEMMA MainStep ==
  ASSUME MainInv, MainReturns \/ UNCHANGED vars
  PROVE  MainInv'
PROOF
  <1>1. UNCHANGED <<parserVars, argv, out, errors>> /\ UNCHANGED file
    BY DEF MainReturns, vars, mainVars, parserVars
  <1>2. ParserInv'
    BY <1>1, MoveStep DEF MainInv
  <1>3. /\ Complete' = Complete /\ Answered' = Answered /\ Decided' = Decided
        /\ AnswerDescribesFile' = AnswerDescribesFile
    BY <1>1, Stays
  <1>4. CASE MainReturns
    BY <1>1, <1>2, <1>3, <1>4 DEF MainReturns, MainInv
  <1>5. CASE UNCHANGED vars
    BY <1>1, <1>2, <1>3, <1>5 DEF vars, mainVars, MainInv, Proceeds, Missing, Format
  <1>. QED
    BY <1>4, <1>5

\* The invariant of execute holds throughout.
THEOREM MainInvHolds == Spec => []MainInv
PROOF
  <1>1. Init => MainInv
    BY InitMainInv
  <1>2. MainInv /\ [Next]_vars => MainInv'
    BY OptionsStep, SolveStep, ParseStep, MainStep DEF Next, Terminated
  <1>. QED
    BY <1>1, <1>2, PTL DEF Spec

-----------------------------------------------------------------------------
(***************************************************************************)
(* The results.                                                            *)
(***************************************************************************)
\* The parser hands over complete tables that agree, whatever the order of
\* the unordered_set and however often a line is repeated, and loses no
\* attack a line states (Parser_iccma.cpp, AF.cpp).
THEOREM FrameworkIsRead == Spec => []FrameworkRead
PROOF
  <1>1. ASSUME MainInv PROVE FrameworkRead
    <2>1. ParserInv
      BY <1>1 DEF MainInv
    <2>2. TablesMatchAttacks
      <3> SUFFICES ASSUME parser = "parsed"
                   PROVE  /\ \A a \in Indices :
                               /\ ToSet(attackers_list[a].vector) = attackers(attacks, a)
                               /\ ToSet(victims_list[a].vector) = victims(attacks, a)
                               /\ \A vb \in {attackers_list[a], victims_list[a]} :
                                    IsInjective(vb.vector) /\ vb.bitset = ToSet(vb.vector)
                          /\ self_attack = {a \in Indices : <<a, a>> \in attacks}
                          /\ symmetric_attacks = {e \in attacks : <<e[2], e[1]>> \in attacks}
        BY DEF TablesMatchAttacks
      <3>1. transferred = attacks
        BY <2>1 DEF ParserInv, ParserControl
      <3>2. /\ \A a \in Indices : /\ ListsSet(attackers_list[a], attackers(attacks, a))
                                  /\ ListsSet(victims_list[a], victims(attacks, a))
            /\ self_attack = {a \in Indices : <<a, a>> \in attacks}
            /\ symmetric_attacks = {e \in attacks : /\ <<e[2], e[1]>> \in attacks
                                                    /\ e \in attacks \/ <<e[2], e[1]>> \in attacks}
        BY <2>1, <3>1 DEF ParserInv, TablesFilled, Initialized
      <3>. QED
        BY <3>2 DEF ListsSet
    <2>3. NoAttackLost
      <3> SUFFICES ASSUME parser \in {"finish", "parsed"}, NEW e \in StatedAttacks
                   PROVE  e \in attacks
        BY DEF NoAttackLost
      <3>1. PICK i \in DOMAIN file.lines : States(file.lines[i]) /\ e = Stated(file.lines[i])
        BY StatedMembers
      <3>2. i < at
        BY <2>1, <3>1, FileType DEF ParserInv, ParserControl, LinesRead
      <3>. QED
        BY <2>1, <3>1, <3>2 DEF ParserInv, LinesRead, Initialized
    <2>. QED
      BY <2>2, <2>3 DEF FrameworkRead
  <1>. QED
    BY <1>1, MainInvHolds, PTL

\* The framework of a well-formed file has the attacks the file states and
\* no other; only lines that cannot be read invent one.
THEOREM WellFormedExact == Spec => [](WellFormed => NoAttackInvented)
PROOF
  <1>1. MainInv => (WellFormed => NoAttackInvented)
    BY DEF MainInv, ParserInv, LinesRead, NoAttackInvented
  <1>. QED
    BY <1>1, MainInvHolds, PTL

\* Whoever asks a complete question is answered, everyone else is told of an
\* error or shown a text, and never both (Main.cpp).
THEOREM RequestsHonoured == Spec => []RequestHonoured
PROOF
  <1>1. MainInv => RequestHonoured
    BY DEF MainInv, Decided, RequestHonoured
  <1>. QED
    BY <1>1, MainInvHolds, PTL

\* What is printed for a well-formed file is the answer of DS-PR for the
\* framework it describes, although the tables have a place for index 0.
THEOREM AnswersDescribeFiles == Spec => []AnswerDescribesFile
PROOF
  <1>1. MainInv => AnswerDescribesFile
    BY DEF MainInv
  <1>. QED
    BY <1>1, MainInvHolds, PTL
=============================================================================
