-------------------------- MODULE CadicalDecisions --------------------------
(***************************************************************************)
(* Decision variables of CaDiCaL: the VMTF queue, a doubly linked list     *)
(* with a pointer behind which every variable is assigned, and the EVSIDS  *)
(* scores in a binary heap that assigned variables leave lazily.  Both are *)
(* kept up to date by backtracking, whichever of them is in use.           *)
(*                                                                         *)
(* Scores are natural numbers here.  Rescaling divides them by the largest *)
(* one, and rounds as double precision numbers do when they get too small. *)
(***************************************************************************)
EXTENDS Integers, FiniteSets, FiniteSetsExt, Sequences, SequencesExt

CONSTANTS
    Setups,       \* the setups
    N,            \* bound on the number of variables
    ScoreLimit,   \* the score that is too large (1e150)
    ScoreUnit     \* what the largest score becomes

VARIABLES
    setup,       \* reverse and shuffle: the options of these names; bumps: a
                 \* bound on the number of conflicts and shuffles
    max_var,
    links,       \* prev and next of every variable
    queue,       \* first, last, unassigned and bumped
    btab,        \* the time stamp of the last bump
    bumped,      \* stats.bumped
    heap,        \* the array of the heap
    stab,        \* the scores
    score_inc,
    trail,       \* the assigned variables in order
    stable,      \* use_scores()
    bumps

vars == <<setup, max_var, links, queue, btab, bumped, heap, stab, score_inc, trail, stable, bumps>>

Vars == 1..max_var
Assigned == ToSet(trail)
Without(s, gone) == SelectSeq(s, LAMBDA v : v \notin gone)

(* A loop of at most n turns. *)
Repeated(Turn(_), start, n) ==
    LET state[i \in 0..n] == IF i = 0 THEN start ELSE Turn(state[i - 1])
    IN  state[n]

-----------------------------------------------------------------------------
(* The queue, as the record Q of links, queue and btab. *)

QueueNow == [links |-> links, queue |-> queue, btab |-> btab, bumped |-> bumped]
QueueIs(Q) ==
    links' = Q.links /\ queue' = Q.queue /\ btab' = Q.btab /\ bumped' = Q.bumped

update_queue_unassigned(Q, idx) ==
    [Q EXCEPT !.queue.unassigned = idx, !.queue.bumped = Q.btab[idx]]

dequeue(Q, idx) ==
    LET l == Q.links[idx]
        P == IF l.prev # 0 THEN [Q EXCEPT !.links[l.prev].next = l.next]
             ELSE [Q EXCEPT !.queue.first = l.next]
    IN  IF l.next # 0 THEN [P EXCEPT !.links[l.next].prev = l.prev]
        ELSE [P EXCEPT !.queue.last = l.prev]

enqueue(Q, idx) ==
    LET last == Q.queue.last
        P == [Q EXCEPT !.links[idx] = [prev |-> last, next |-> 0], !.queue.last = idx]
    IN  IF last # 0 THEN [P EXCEPT !.links[last].next = idx] ELSE [P EXCEPT !.queue.first = idx]

(* A new variable goes to the end, or with opts.reverse to the front. *)
init_enqueue(Q, idx) ==
    LET first == Q.queue.first
        front == [Q EXCEPT !.links[idx] = [prev |-> 0, next |-> first], !.queue.first = idx,
                           !.btab[idx] = IF first = 0 THEN 0 ELSE Q.btab[first] - 1]
        linked == IF first # 0 THEN [front EXCEPT !.links[first].prev = idx]
                  ELSE [front EXCEPT !.queue.last = idx]
        stamped == [enqueue(Q, idx) EXCEPT !.btab[idx] = Q.bumped + 1, !.bumped = @ + 1]
    IN  IF ~setup.reverse THEN update_queue_unassigned(stamped, idx)
        ELSE IF Q.queue.unassigned = 0 THEN update_queue_unassigned(linked, linked.queue.last)
        ELSE linked

(* The analyzed variable moves to the end; it is assigned. *)
bump_queue(Q, idx) ==
    IF Q.links[idx].next = 0 THEN Q
    ELSE [enqueue(dequeue(Q, idx), idx) EXCEPT !.btab[idx] = Q.bumped + 1, !.bumped = @ + 1]

(* From the last variable to the first. *)
Backwards(Q, idx) ==
    LET from[v \in 0..N] == IF v = 0 THEN <<>> ELSE <<v>> \o from[Q.links[v].prev]
    IN  from[idx]
InQueueOrder == Reverse(Backwards(QueueNow, queue.last))

shuffle_queue(Q, order) ==
    LET P == FoldLeft(enqueue, [Q EXCEPT !.queue.first = 0, !.queue.last = 0], order)
    IN  [P EXCEPT !.btab = [v \in 1..N |-> IF v \in ToSet(order)
                                THEN Q.queue.bumped - Len(order) + CHOOSE i \in 1..Len(order) : order[i] = v
                                ELSE @[v]],
                  !.queue.unassigned = P.queue.last]

(* The pointer moves back to an unassigned variable. *)
Unassigned_from(Q, idx) ==
    LET from[v \in 0..N] == IF v = 0 \/ v \notin Assigned THEN v ELSE from[Q.links[v].prev]
    IN  from[idx]

-----------------------------------------------------------------------------
(* The heap, as a sequence; score_smaller prefers the smaller variable among
   those of equal score. *)

less(st, a, b) == IF st[a] # st[b] THEN st[a] < st[b] ELSE a > b

exchange(h, i, j) == [h EXCEPT ![i] = h[j], ![j] = h[i]]

(* An element moves towards the front, or away from it, until the order is right;
   st, h and i are the scores, the array and its place there. *)
up_once(s) ==
    LET parent == s.i \div 2
    IN  IF s.i > 1 /\ less(s.st, s.h[parent], s.h[s.i])
        THEN [s EXCEPT !.h = exchange(@, parent, s.i), !.i = parent] ELSE s
up(st, h, i) == Repeated(up_once, [st |-> st, h |-> h, i |-> i], Len(h)).h

down_once(s) ==
    LET left == 2 * s.i
        right == left + 1
        child == IF right <= Len(s.h) /\ less(s.st, s.h[left], s.h[right]) THEN right ELSE left
    IN  IF left <= Len(s.h) /\ less(s.st, s.h[s.i], s.h[child])
        THEN [s EXCEPT !.h = exchange(@, s.i, child), !.i = child] ELSE s
down(st, h, i) == Repeated(down_once, [st |-> st, h |-> h, i |-> i], Len(h)).h

IndexIn(h, e) == CHOOSE i \in 1..Len(h) : h[i] = e
update(st, h, e) ==
    LET moved == up(st, h, IndexIn(h, e)) IN down(st, moved, IndexIn(moved, e))
push_back(st, h, e) == update(st, Append(h, e), e)
pop_front(st, h) ==
    LET shorter == Front(exchange(h, 1, Len(h))) IN IF Len(shorter) > 1 THEN down(st, shorter, 1) ELSE shorter

(* Assigned variables leave the heap when they come to its front. *)
pop_assigned(h) == IF h[1] \in Assigned THEN pop_front(stab, h) ELSE h
Popped(h) == Repeated(pop_assigned, h, Len(h))

-----------------------------------------------------------------------------
(* The scores, as the record T of stab, score_inc and heap. *)

ScoresNow == [stab |-> stab, inc |-> score_inc, heap |-> heap]
ScoresAre(T) == stab' = T.stab /\ score_inc' = T.inc /\ heap' = T.heap

rescale_variable_scores(T) ==
    LET divider == Max({T.inc} \cup {T.stab[v] : v \in 1..N})
        Scaled(x) == (x * ScoreUnit) \div divider
    IN  [T EXCEPT !.stab = [v \in 1..N |-> Scaled(@[v])], !.inc = Scaled(@)]

bump_variable_score(T, idx) ==
    LET U == IF T.stab[idx] + T.inc > ScoreLimit THEN rescale_variable_scores(T) ELSE T
        higher == [U.stab EXCEPT ![idx] = @ + U.inc]
    IN  [U EXCEPT !.stab = higher,
                  !.heap = IF Contains(@, idx) THEN update(higher, @, idx) ELSE @]

(* The increment grows by a factor, two here. *)
bump_variable_score_inc(T) ==
    LET U == IF 2 * T.inc > ScoreLimit THEN rescale_variable_scores(T) ELSE T
    IN  [U EXCEPT !.inc = 2 * @]

(* Every listed variable gets a higher score than the one before. *)
shuffle_scores(T, order) ==
    LET st == [v \in 1..N |-> IF v \in ToSet(order) THEN IndexIn(order, v) - 1 ELSE T.stab[v]]
    IN  [stab |-> st, inc |-> Len(order),
         heap |-> FoldLeft(LAMBDA h, v : push_back(st, h, v), <<>>, order)]

pop_next(h) == pop_front(stab, h)
PopOrder(h) == [i \in 1..Len(h) |-> Repeated(pop_next, h, i - 1)[1]]

-----------------------------------------------------------------------------
(* Steps of the solver. *)

unassign(R, idx) ==
    [Q |-> IF R.Q.queue.bumped < R.Q.btab[idx]
           THEN update_queue_unassigned(R.Q, idx) ELSE R.Q,
     T |-> IF Contains(R.T.heap, idx) THEN R.T
           ELSE [R.T EXCEPT !.heap = push_back(R.T.stab, @, idx)]]

(* Both structures after the variables of gone are unassigned, from the bottom
   of the trail to its top. *)
Backtracked(gone) ==
    FoldLeft(unassign, [Q |-> QueueNow, T |-> ScoresNow], SelectSeq(trail, LAMBDA v : v \in gone))

Init ==
    /\ setup \in Setups
    /\ max_var = 0
    /\ links = [v \in 1..N |-> [prev |-> 0, next |-> 0]]
    /\ queue = [first |-> 0, last |-> 0, unassigned |-> 0, bumped |-> 0]
    /\ btab = [v \in 1..N |-> 0] /\ bumped = 0
    /\ heap = <<>> /\ stab = [v \in 1..N |-> 0] /\ score_inc = 1
    /\ trail = <<>> /\ stable = FALSE /\ bumps = 0

(* New variables of the user; the decisions are undone. *)
init_vars(new_max_var, gone) ==
    LET R == Backtracked(gone)
        new == [i \in 1..(new_max_var - max_var) |-> max_var + i]
    IN  /\ new_max_var > max_var
        /\ QueueIs(FoldLeft(init_enqueue, R.Q, new))
        /\ ScoresAre([R.T EXCEPT !.heap =
                          FoldLeft(LAMBDA h, v : push_back(R.T.stab, h, v), @, new)])
        /\ trail' = Without(trail, gone)
        /\ max_var' = new_max_var
        /\ UNCHANGED <<setup, stable, bumps>>

assign(v) ==
    /\ v \notin Assigned
    /\ trail' = Append(trail, v)
    /\ UNCHANGED <<setup, max_var, links, queue, btab, bumped, heap, stab, score_inc, stable, bumps>>

(* Chronological backtracking may keep variables above unassigned ones. *)
backtrack(gone) ==
    LET R == Backtracked(gone)
    IN  /\ gone # {}
        /\ QueueIs(R.Q) /\ ScoresAre(R.T)
        /\ trail' = Without(trail, gone)
        /\ UNCHANGED <<setup, max_var, stable, bumps>>

next_decision_variable_on_queue ==
    LET res == Unassigned_from(QueueNow, queue.unassigned)
    IN  /\ ~stable /\ Vars \ Assigned # {}
        /\ QueueIs(IF res = queue.unassigned THEN QueueNow ELSE update_queue_unassigned(QueueNow, res))
        /\ trail' = Append(trail, res)
        /\ UNCHANGED <<setup, max_var, heap, stab, score_inc, stable, bumps>>

next_decision_variable_with_best_score ==
    /\ stable /\ Vars \ Assigned # {}
    /\ heap' = Popped(heap)
    /\ trail' = Append(trail, heap'[1])
    /\ UNCHANGED <<setup, max_var, links, queue, btab, bumped, stab, score_inc, stable, bumps>>

(* The analyzed variables, for the queue in the order of their last bump. *)
bump_variables(analyzed) ==
    LET inOrder == [i \in 1..Cardinality(analyzed) |->
                       CHOOSE v \in analyzed :
                           Cardinality({u \in analyzed : btab[u] < btab[v]}) = i - 1]
        T == bump_variable_score_inc(FoldLeft(bump_variable_score, ScoresNow, inOrder))
    IN  /\ analyzed # {} /\ bumps < setup.bumps
        /\ IF stable
           THEN ScoresAre(T) /\ UNCHANGED <<links, queue, btab, bumped>>
           ELSE /\ QueueIs(FoldLeft(bump_queue, QueueNow,
                                    inOrder))
                /\ UNCHANGED <<stab, score_inc, heap>>
        /\ bumps' = bumps + 1
        /\ UNCHANGED <<setup, max_var, trail, stable>>

Orders(X) == {s \in [1..Cardinality(X) -> X] : ToSet(s) = X}

(* Rephasing shuffles the structure in use, after the decisions are undone: its
   order is reversed, or every variable put at random. *)
shuffle(gone) ==
    LET R == Backtracked(gone)
    IN  /\ setup.shuffle /\ bumps < setup.bumps /\ max_var > 0
        /\ IF stable
           THEN /\ QueueIs(R.Q)
                /\ \E order \in Orders(Vars) \cup {PopOrder(R.T.heap)} :
                       ScoresAre(shuffle_scores(R.T, order))
           ELSE /\ ScoresAre(R.T)
                /\ \E order \in Orders(Vars) \cup {Reverse(InQueueOrder)} :
                       QueueIs(shuffle_queue(R.Q, order))
        /\ trail' = Without(trail, gone)
        /\ bumps' = bumps + 1
        /\ UNCHANGED <<setup, max_var, stable>>

(* Restarts switch between the two modes. *)
switch ==
    /\ stable' = ~stable
    /\ UNCHANGED <<setup, max_var, links, queue, btab, bumped, heap, stab, score_inc, trail, bumps>>

(* Implications and decisions, and conflicts whose variables above the fixed
   ones are bumped and unassigned. *)
DecisionStep(fixed) ==
    \/ \E v \in Vars : assign(v)
    \/ \E gone \in SUBSET (Assigned \ fixed) : backtrack(gone)
    \/ next_decision_variable_on_queue \/ next_decision_variable_with_best_score
    \/ \E analyzed \in SUBSET (Assigned \ fixed) : bump_variables(analyzed)
    \/ shuffle(Assigned \ fixed)
    \/ switch

-----------------------------------------------------------------------------
(* Properties. *)

(* The links are one list in both directions with every unassigned variable,
   ordered by the time of the last bump, whatever was bumped, added, shuffled or
   given another number. *)
QueueOrdered ==
    LET list == InQueueOrder
        n == Len(list)
    IN  /\ Vars \ Assigned \subseteq ToSet(list)
        /\ \A i \in 1..n :
               /\ links[list[i]].next = IF i = n THEN 0 ELSE list[i + 1]
               /\ i > 1 => btab[list[i - 1]] < btab[list[i]]
        /\ queue.first = IF n = 0 THEN 0 ELSE list[1]

(* The search from queue.unassigned finds the unassigned variable that was
   bumped last: no variable behind the pointer is unassigned. *)
DecidesLatest ==
    Vars \ Assigned # {} =>
        LET res == Unassigned_from(QueueNow, queue.unassigned)
        IN  res # 0 /\ \A v \in Vars \ Assigned : btab[v] <= btab[res]

(* The heap has every unassigned variable and yields one of highest score, even
   after scores that differed have become equal by rescaling. *)
DecidesBest ==
    /\ Vars \ Assigned \subseteq ToSet(heap)
    /\ Vars \ Assigned # {} =>
           \A v \in Vars \ Assigned : stab[v] <= stab[Popped(heap)[1]]

(* Whichever of the two structures decides, decide finds an unassigned variable,
   the best by its measure. *)
DecidesBestVariable == QueueOrdered /\ DecidesLatest /\ DecidesBest
=============================================================================
