------------------------------ MODULE Trajectory ------------------------------
(***************************************************************************)
(* The trajectory grader (eval/trajectory.go): the tool calls a transcript *)
(* recorded, those left by filterCalls, are compared with the expected     *)
(* calls.  Which expected call accepts which recorded one (name and        *)
(* argument matcher) is a relation; an argument matcher may accept several *)
(* calls of a tool and several may accept the same call.                   *)
(***************************************************************************)
EXTENDS Naturals, Sequences, FiniteSets

CONSTANTS
    NExpected,   \* expected calls
    NActual      \* recorded calls

ASSUME TrajectoryAssumption == {NExpected, NActual} \subseteq Nat

VARIABLES
    grade,      \* the recorded calls that take part, and which expected calls accept them
    placing,    \* the expected call that matchSet places
    assigned,   \* assignedExp: the expected call that each recorded call is given to
    matched,    \* the expected calls that have been given one
    path,       \* the calls of augment under way, outermost first: the recorded call each tries
    seen        \* the recorded calls tried since the first of them began

trajVars == <<grade, placing, assigned, matched, path, seen>>

Wanted == 1..NExpected
Free == 0

(* A recorded call was forwarded from a sub-agent, taken from a speculative *)
(* result, or neither; the options say which of these take part.            *)
Sources == {"own", "subagent", "reused"}
filterCalls(calls, subagents, ignoreReused) ==
    {i \in 1..NActual : /\ calls[i] = "subagent" => subagents
                        /\ calls[i] = "reused" => ~ignoreReused}

(* The recorded calls that take part are numbered 1..n, n = NActual when    *)
(* none is left out.                                                        *)
TrajInit ==
    /\ \E calls \in [1..NActual -> Sources], subagents, ignoreReused \in BOOLEAN :
           LET n == Cardinality(filterCalls(calls, subagents, ignoreReused))
           IN /\ \E accepts \in SUBSET (Wanted \X (1..n)) : grade = [n |-> n, accepts |-> accepts]
              /\ assigned = [a \in 1..n |-> Free]
    /\ placing = 1 /\ matched = {} /\ path = <<>> /\ seen = {}

-----------------------------------------------------------------------------
Accepts(e, a) == <<e, a>> \in grade.accepts

(* augment, a step for each call of it and each end of one.                *)

\* Who asks in the i-th call of augment under way: its e.
Asking(i) == IF i = 1 THEN placing ELSE assigned[path[i - 1]]

\* Mutant of Untried: what is taken stays taken.
UntriedFree ==
    {a \in path[Len(path)] + 1 .. grade.n :
        a \notin seen /\ Accepts(Asking(Len(path)), a) /\ assigned[a] = Free}
\* What the innermost call has still to try: not tried before, and accepted.
Untried ==
    {a \in path[Len(path)] + 1 .. grade.n : a \notin seen /\ Accepts(Asking(Len(path)), a)}
Trying == CHOOSE a \in Untried : \A b \in Untried : a <= b
PathTo(a) == [path EXCEPT ![Len(path)] = a]

\* matchSet calls augment for the next expected call.
Place ==
    /\ path = <<>> /\ placing <= NExpected
    /\ path' = <<0>> /\ seen' = {}
    /\ UNCHANGED <<grade, placing, assigned, matched>>

\* The call that is tried is given to another expected call, which is asked to
\* find one in its place.
Displace ==
    /\ path # <<>> /\ Untried # {} /\ assigned[Trying] # Free
    /\ path' = Append(PathTo(Trying), 0) /\ seen' = seen \union {Trying}
    /\ UNCHANGED <<grade, placing, assigned, matched>>

\* It is free: every call of augment under way returns true, and gives what it
\* tried to the one that asked.
Give ==
    /\ path # <<>> /\ Untried # {} /\ assigned[Trying] = Free
    /\ assigned' = [a \in 1..grade.n |->
                       IF \E i \in 1..Len(path) : PathTo(Trying)[i] = a
                       THEN Asking(CHOOSE i \in 1..Len(path) : PathTo(Trying)[i] = a)
                       ELSE assigned[a]]
    /\ matched' = matched \union {placing} /\ placing' = placing + 1
    /\ path' = <<>> /\ seen' = {}
    /\ UNCHANGED grade

\* Nothing is left to try: the innermost call returns false.
GiveUp ==
    /\ path # <<>> /\ Untried = {}
    /\ path' = SubSeq(path, 1, Len(path) - 1)
    /\ IF Len(path) = 1 THEN placing' = placing + 1 /\ seen' = {}
                        ELSE UNCHANGED <<placing, seen>>
    /\ UNCHANGED <<grade, assigned, matched>>

TrajNext == Place \/ Displace \/ Give \/ GiveUp
TrajSpec == TrajInit /\ [][TrajNext]_trajVars

-----------------------------------------------------------------------------
matchStrict == grade.n = NExpected /\ \A e \in Wanted : Accepts(e, e)

\* The number of expected calls, from the first, that matchInOrder finds.
InOrderFound ==
    LET j[a \in 0..grade.n] ==
            IF a = 0 THEN 0
            ELSE IF j[a-1] < NExpected /\ Accepts(j[a-1] + 1, a) THEN j[a-1] + 1 ELSE j[a-1]
    IN j
matchInOrder == InOrderFound[grade.n]

matchSubset == Cardinality(matched)
matchUnordered == grade.n = NExpected /\ matchSubset = NExpected
matchSuperset == \A a \in 1..grade.n : \E e \in Wanted : Accepts(e, a)

(* An assignment of some expected calls to calls of their own. *)
Assignments(S) ==
    {f \in [S -> 1..grade.n] : /\ \A e \in S : Accepts(e, f[e])
                               /\ \A d, e \in S : f[d] = f[e] => d = e}

(* The credit is what is earned (augment, matchSet, matchInOrder):        *)
(* however the argument matchers overlap, the subset and unordered modes   *)
(* match as many expected calls as any assignment could, the assignment    *)
(* recorded bears the count out, and the in-order mode counts the longest  *)
(* prefix of the expected calls that the recorded ones contain in order.   *)
CreditIsEarned ==
    LET placed == 1..(placing - 1)
        InOrder(k) == \E f \in Assignments(1..k) : \A d, e \in 1..k : d < e => f[d] < f[e]
    IN /\ \A S \in SUBSET placed : Assignments(S) # {} => Cardinality(S) <= matchSubset
       /\ \E f \in Assignments(matched) : \A e \in matched : assigned[f[e]] = e
       /\ InOrder(matchInOrder) /\ \A k \in Wanted : InOrder(k) => k <= matchInOrder
       /\ placing > NExpected => (matchStrict => matchUnordered) /\ (matchUnordered => matchSuperset)
=============================================================================
