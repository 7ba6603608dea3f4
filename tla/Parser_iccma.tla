---------------------------- MODULE Parser_iccma ----------------------------
(***************************************************************************)
(* Parser_iccma.cpp and the construction of AF.cpp: parse_af reads the     *)
(* header, calls initialize, adds one attack per line and hands over to    *)
(* finish_initilization, which fills attackers, victims, self_attack and   *)
(* symmetric_attacks, one step per turn of a loop.                         *)
(*                                                                         *)
(* A file is [header, lines].  The header is the number of arguments,      *)
(* NoHeader if the first line does not begin with 'p' (or the file is      *)
(* empty), or NoFile if the file cannot be opened.  A line is the sequence *)
(* of its tokens, numbers or Word for anything that is not a number;       *)
(* "skip" stands for an empty line or a comment.  A line of white space    *)
(* is <<>>, and is not skipped.                                            *)
(***************************************************************************)
EXTENDS PreProcContract, SequencesExt

CONSTANTS
  Files,        \* the files considered
  MaxNumber     \* greatest number a file, or a stack slot, holds

Word     == -1
NoHeader == -2
NoFile   == -3
Numbers  == 0..MaxNumber

Line == [skip : BOOLEAN, tokens : Seq(Numbers \cup {Word})]

ASSUME ParserAssumption ==
  /\ MaxNumber \in Nat
  /\ \A f \in Files : f \in [header : Numbers \cup {NoHeader, NoFile}, lines : Seq(Line)]

VARIABLES
  file,                   \* what the path given to parse_af leads to
  parser,                 \* control state of parse_af
  at,                     \* the line getline reads next
  num_args, attacks,      \* AF::num_args, AF::attacks
  transferred,            \* the attacks finish_initilization has gone through
  attackers_list,         \* AF::attackers: per argument vector and bitset
  victims_list,           \* AF::victims
  self_attack, symmetric_attacks

afVars     == <<num_args, attacks, transferred, attackers_list, victims_list,
                self_attack, symmetric_attacks>>
parserVars == <<file, parser, at, afVars>>

EmptyVectorBitSet == [vector |-> <<>>, bitset |-> {}]

InitParser ==
  /\ file \in Files
  /\ parser = "idle"
  /\ at = 1
  /\ num_args = 0
  /\ attacks = {}
  /\ transferred = {}
  /\ attackers_list = <<>>
  /\ victims_list = <<>>
  /\ self_attack = {}
  /\ symmetric_attacks = {}

\* The places of the vectors initialize makes room for.
Indices == 0..num_args

(***************************************************************************)
(* parse_af up to the loop.                                                *)
(***************************************************************************)
\* exit(1): the file cannot be opened, or has no header.
ParseFails ==
  /\ parser = "idle"
  /\ file.header \in {NoFile, NoHeader}
  /\ parser' = "failed"
  /\ UNCHANGED <<file, at, afVars>>

ParseHeader ==
  /\ parser = "idle"
  /\ file.header \in Numbers
  /\ num_args' = file.header                          \* AF::initialize
  /\ attackers_list' = [a \in 0..file.header |-> EmptyVectorBitSet]
  /\ victims_list'   = [a \in 0..file.header |-> EmptyVectorBitSet]
  /\ parser' = "lines"
  /\ UNCHANGED <<file, at, attacks, transferred, self_attack, symmetric_attacks>>

(***************************************************************************)
(* One turn of the loop over the lines.                                    *)
(***************************************************************************)
\* iss >> attacker >> victim.  A token that is not a number stores 0 and
\* fails the stream; at the end of the line, and once the stream failed, the
\* variable keeps what its stack slot held, which is any value.
Extracted(tokens, i) ==
  IF Len(tokens) < i \/ \E j \in 1..(i - 1) : tokens[j] = Word THEN Numbers
  ELSE IF tokens[i] = Word THEN {0}
  ELSE {tokens[i]}

SkipLine(line) == line.skip

\* Faulty variant: the attack is added the other way round.
add_attack_swapped(attacker, victim) == attacks' = attacks \cup {<<victim, attacker>>}

\* AF::add_attack: a set, so a repeated line changes nothing.
add_attack(attacker, victim) == attacks' = attacks \cup {<<attacker, victim>>}

ReadLine ==
  /\ parser = "lines"
  /\ at <= Len(file.lines)
  /\ LET line == file.lines[at] IN
       IF SkipLine(line) THEN UNCHANGED attacks
       ELSE \E attacker \in Extracted(line.tokens, 1),
               victim   \in Extracted(line.tokens, 2) : add_attack(attacker, victim)
  /\ at' = at + 1
  /\ UNCHANGED <<file, parser, num_args, transferred, attackers_list, victims_list,
                 self_attack, symmetric_attacks>>

EndOfFile ==
  /\ parser = "lines"
  /\ at > Len(file.lines)
  /\ parser' = "finish"
  /\ UNCHANGED <<file, at, afVars>>

(***************************************************************************)
(* finish_initilization: the attacks in the order of an unordered_set.     *)
(***************************************************************************)
Listed(vb, a) == [vector |-> Append(vb.vector, a), bitset |-> vb.bitset \cup {a}]

\* Faulty variant: only the attackers of the source are filled in.
TransferOneWay(source, target) ==
  /\ attackers_list' = [attackers_list EXCEPT ![target] = Listed(@, source)]
  /\ victims_list'   = [victims_list   EXCEPT ![target] = Listed(@, source)]

Transfer(source, target) ==
  /\ attackers_list' = [attackers_list EXCEPT ![target] = Listed(@, source)]
  /\ victims_list'   = [victims_list   EXCEPT ![source] = Listed(@, target)]

TransferAttack(source, target) ==
  /\ parser = "finish"
  /\ <<source, target>> \in attacks \ transferred
  /\ {source, target} \subseteq Indices
  /\ Transfer(source, target)
  /\ self_attack' = IF source = target THEN self_attack \cup {source} ELSE self_attack
  /\ symmetric_attacks' = IF <<target, source>> \in attacks
                          THEN symmetric_attacks \cup {<<source, target>>, <<target, source>>}
                          ELSE symmetric_attacks
  /\ transferred' = transferred \cup {<<source, target>>}
  /\ UNCHANGED <<file, parser, at, num_args, attacks>>

\* The vectors are indexed without a check: a number above num_args writes
\* outside of them, and nothing is known of what follows.
TransferOutside(source, target) ==
  /\ parser = "finish"
  /\ <<source, target>> \in attacks \ transferred
  /\ ~({source, target} \subseteq Indices)
  /\ parser' = "undefined"
  /\ UNCHANGED <<file, at, afVars>>

ParseReturns ==
  /\ parser = "finish"
  /\ transferred = attacks
  /\ parser' = "parsed"
  /\ UNCHANGED <<file, at, afVars>>

ParserNext ==
  \/ ParseFails \/ ParseHeader \/ ReadLine \/ EndOfFile
  \/ \E s \in Numbers, t \in Numbers : TransferAttack(s, t) \/ TransferOutside(s, t)
  \/ ParseReturns

-----------------------------------------------------------------------------
(***************************************************************************)
(* Properties.                                                             *)
(***************************************************************************)
\* A line that states an attack between two arguments of the framework.
States(line) ==
  /\ ~line.skip
  /\ Len(line.tokens) >= 2
  /\ \A i \in 1..2 : line.tokens[i] \in 1..file.header

\* The framework the file describes.
StatedArgs    == 1..file.header
StatedAttacks == {<<l.tokens[1], l.tokens[2]>> : l \in {x \in ToSet(file.lines) : States(x)}}
WellFormed    == file.header \in Numbers /\ \A l \in ToSet(file.lines) : l.skip \/ States(l)

\* The vectors and bitsets the search reads are, for every argument, the
\* attackers and victims among the attacks of the set, each listed once
\* although the file may repeat a line and the set has any order: what
\* module Framework takes attackers(a) and victims(a) for.
TablesMatchAttacks ==
  parser = "parsed" =>
    /\ \A a \in Indices :
         /\ ToSet(attackers_list[a].vector) = attackers(attacks, a)
         /\ ToSet(victims_list[a].vector) = victims(attacks, a)
         /\ \A vb \in {attackers_list[a], victims_list[a]} :
              IsInjective(vb.vector) /\ vb.bitset = ToSet(vb.vector)
    /\ self_attack = {a \in Indices : <<a, a>> \in attacks}
    /\ symmetric_attacks = {e \in attacks : <<e[2], e[1]>> \in attacks}

\* A line that cannot be read takes nothing away: every attack a line of
\* the file states is in the framework, whatever the lines around it are.
NoAttackLost == parser \in {"finish", "parsed"} => StatedAttacks \subseteq attacks

\* What the parser hands over: complete, and the same in all tables.
FrameworkRead == TablesMatchAttacks /\ NoAttackLost

\* Parser_iccma.h: "The abstract argumentation framework, which is describes
\* by the file": every attack of the framework is stated by a line.  A line
\* that cannot be read breaks it (parse_af adds an attack all the same);
\* Main_proofs shows it of every well-formed file.
NoAttackInvented == parser = "parsed" => attacks \subseteq StatedAttacks
=============================================================================
