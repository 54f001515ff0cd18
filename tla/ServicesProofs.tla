---------------------------- MODULE ServicesProofs ----------------------------
(***************************************************************************)
(* The services around the agent loop, one section each.  They share no    *)
(* state, so each theorem is about the specification of its own service.   *)
(***************************************************************************)
EXTENDS Budgets, Reflection, ToolRegistry, SessionTools, ToolMiddleware, SqlAgent,
        RowSessions, EvalSuite, SearchCache, ProviderStream, DataLemmas

-----------------------------------------------------------------------------
(***************************************************************************)
(* The bound on how far a session's spend passes its budget, for any       *)
(* number of runs, sessions and calls.                                     *)
(***************************************************************************)

Usage == [tokens : Nat, cost : Nat]

BudgetTypeOK ==
    /\ spent \in [BudgetSessions -> Usage]
    /\ DOMAIN spender = Spenders /\ forwarded \in [BudgetSessions -> Nat]

RunsOf(s) == {r \in Spenders : SessionOf[r] = s}

(* The runs whose hooks have passed and whose call is not yet charged.     *)
Uncharged(s) == {r \in RunsOf(s) : spender[r] \in {"admitted", "calling"}}

(* OverrunIsBounded speaks of what is charged; the hooks look at it too    *)
(* early by what the uncharged calls will add, and what sub-agents add is  *)
(* never looked at.                                                        *)
CommittedIsBounded ==
    Budget > 0 =>
      \A s \in BudgetSessions :
        spent[s].tokens + MaxUse * Cardinality(Uncharged(s))
            < Budget + MaxUse * Cardinality(RunsOf(s)) + forwarded[s]

BudgetInv == BudgetTypeOK /\ CommittedIsBounded

-----------------------------------------------------------------------------
LEMMA TimesMonotone ==
    ASSUME NEW m \in Nat, NEW a \in Nat, NEW b \in Nat, a <= b
    PROVE  m * a \in Nat /\ m * b \in Nat /\ m * a <= m * b
OBVIOUS

LEMMA TimesOneLess ==
    ASSUME NEW m \in Nat, NEW a \in Nat, NEW b \in Nat, a + 1 = b
    PROVE  m * a + m = m * b
OBVIOUS

LEMMA RunsAreFinite ==
    ASSUME NEW s, NEW U, U \subseteq RunsOf(s)
    PROVE  /\ IsFiniteSet(U) /\ Cardinality(U) \in Nat /\ Cardinality(RunsOf(s)) \in Nat
           /\ Cardinality(U) <= Cardinality(RunsOf(s))
           /\ MaxUse * Cardinality(U) <= MaxUse * Cardinality(RunsOf(s))
           /\ MaxUse * Cardinality(U) \in Nat /\ MaxUse * Cardinality(RunsOf(s)) \in Nat
<1>1. IsFiniteSet(RunsOf(s))
  BY BudgetAssumption, FS_Subset DEF RunsOf
<1>2. /\ IsFiniteSet(U) /\ Cardinality(U) \in Nat /\ Cardinality(RunsOf(s)) \in Nat
      /\ Cardinality(U) <= Cardinality(RunsOf(s))
  BY <1>1, FS_Subset, FS_CardinalityType
<1>3. MaxUse \in Nat
  BY BudgetAssumption
<1> QED BY <1>2, <1>3, TimesMonotone

LEMMA UnchargedFinite ==
    ASSUME NEW s
    PROVE  /\ Uncharged(s) \subseteq RunsOf(s) /\ Uncharged(s)' \subseteq RunsOf(s)
           /\ IsFiniteSet(Uncharged(s)) /\ Cardinality(Uncharged(s)) \in Nat
<1>1. Uncharged(s) \subseteq RunsOf(s) /\ Uncharged(s)' \subseteq RunsOf(s)
  BY DEF Uncharged, RunsOf
<1> QED BY <1>1, RunsAreFinite

(* A step that charges no more than it forwards and admits no run keeps    *)
(* the bound.                                                              *)
LEMMA NoAdmission ==
    ASSUME BudgetInv, BudgetTypeOK',
           \A s \in BudgetSessions : /\ spent'[s].tokens - spent[s].tokens <= forwarded'[s] - forwarded[s]
                                     /\ Uncharged(s)' \subseteq Uncharged(s)
    PROVE  BudgetInv'
<1> SUFFICES ASSUME Budget > 0, NEW s \in BudgetSessions
             PROVE  spent'[s].tokens + MaxUse * Cardinality(Uncharged(s)')
                        < Budget + MaxUse * Cardinality(RunsOf(s)) + forwarded'[s]
  BY DEF BudgetInv, CommittedIsBounded, RunsOf
<1> DEFINE U == Uncharged(s)
           V == Uncharged(s)'
           N == MaxUse * Cardinality(RunsOf(s))
<1>1. /\ IsFiniteSet(U) /\ Cardinality(U) \in Nat /\ V \subseteq U /\ U \subseteq RunsOf(s)
  BY UnchargedFinite
<1>2. Cardinality(V) \in Nat /\ Cardinality(V) <= Cardinality(U)
  BY <1>1, FS_Subset, FS_CardinalityType
<1>3. MaxUse \in Nat /\ Budget \in Nat
  BY BudgetAssumption
<1>4. MaxUse * Cardinality(V) <= MaxUse * Cardinality(U) /\ MaxUse * Cardinality(V) \in Nat
      /\ MaxUse * Cardinality(U) \in Nat
  BY <1>1, <1>2, <1>3, TimesMonotone
<1>5. N \in Nat
  BY <1>1, RunsAreFinite
<1>6. spent[s].tokens + MaxUse * Cardinality(U) < Budget + N + forwarded[s]
  BY DEF BudgetInv, CommittedIsBounded
<1>7. /\ spent[s].tokens \in Nat /\ spent'[s].tokens \in Nat
      /\ forwarded[s] \in Nat /\ forwarded'[s] \in Nat
      /\ spent'[s].tokens - spent[s].tokens <= forwarded'[s] - forwarded[s]
  BY DEF BudgetInv, BudgetTypeOK, Usage
<1> HIDE DEF U, V, N
<1>8. spent'[s].tokens + MaxUse * Cardinality(V) < Budget + N + forwarded'[s]
  BY <1>3, <1>4, <1>5, <1>6, <1>7
<1> QED BY <1>8 DEF V, N

-----------------------------------------------------------------------------
LEMMA BudgetInitInv == BudgetInit => BudgetInv
<1> SUFFICES ASSUME BudgetInit PROVE BudgetInv
  OBVIOUS
<1>1. BudgetTypeOK
  BY DEF BudgetInit, BudgetTypeOK, Usage, Nothing
<1>2. ASSUME Budget > 0, NEW s \in BudgetSessions
      PROVE  spent[s].tokens + MaxUse * Cardinality(Uncharged(s))
                 < Budget + MaxUse * Cardinality(RunsOf(s)) + forwarded[s]
  <2>1. Uncharged(s) = {}
    BY DEF BudgetInit, Uncharged, RunsOf
  <2>2. Cardinality(Uncharged(s)) = 0
    BY <2>1, FS_EmptySet
  <2>3. MaxUse * Cardinality(RunsOf(s)) \in Nat
    BY RunsAreFinite
  <2>4. spent[s].tokens = 0 /\ forwarded[s] = 0 /\ MaxUse \in Nat /\ Budget \in Nat
    BY BudgetAssumption DEF BudgetInit, Nothing
  <2> QED BY <1>2, <2>2, <2>3, <2>4
<1> QED BY <1>1, <1>2 DEF BudgetInv, CommittedIsBounded

(* A step that only lowers the spend.                                      *)
LEMMA NotCharged ==
    ASSUME BudgetInv, BudgetTypeOK', UNCHANGED forwarded,
           \A s \in BudgetSessions : spent'[s].tokens <= spent[s].tokens,
           \A s \in BudgetSessions : Uncharged(s)' \subseteq Uncharged(s)
    PROVE  BudgetInv'
<1>1. ASSUME NEW s \in BudgetSessions
      PROVE  spent'[s].tokens - spent[s].tokens <= forwarded'[s] - forwarded[s]
  <2>1. /\ spent[s].tokens \in Nat /\ spent'[s].tokens \in Nat
        /\ forwarded[s] \in Nat /\ forwarded'[s] = forwarded[s]
    BY DEF BudgetInv, BudgetTypeOK, Usage
  <2> QED BY <2>1
<1> QED BY <1>1, NoAdmission

(* Most steps charge nothing.                                              *)
LEMMA NothingCharged ==
    ASSUME BudgetInv, BudgetTypeOK', UNCHANGED <<spent, forwarded>>,
           \A s \in BudgetSessions : Uncharged(s)' \subseteq Uncharged(s)
    PROVE  BudgetInv'
<1>1. \A s \in BudgetSessions : spent'[s].tokens <= spent[s].tokens
  BY DEF BudgetInv, BudgetTypeOK, Usage
<1> QED BY <1>1, NotCharged

(* An admitted run found its session under budget, however many others are *)
(* in a call.                                                              *)
LEMMA RunHooksInv == ASSUME BudgetInv, NEW r \in Spenders, RunHooks(r) PROVE BudgetInv'
<1>1. BudgetTypeOK' /\ UNCHANGED <<spent, forwarded>>
  BY DEF RunHooks, BudgetInv, BudgetTypeOK
<1>2. CASE ~Guard(SessionOf[r])
  <2>1. \A s \in BudgetSessions : Uncharged(s)' \subseteq Uncharged(s)
    BY <1>2 DEF RunHooks, Uncharged, RunsOf, BudgetInv, BudgetTypeOK
  <2> QED BY <1>1, <2>1, NothingCharged
<1>3. CASE Guard(SessionOf[r])
  <2>1. ASSUME Budget > 0, NEW s \in BudgetSessions
        PROVE  spent'[s].tokens + MaxUse * Cardinality(Uncharged(s)')
                   < Budget + MaxUse * Cardinality(RunsOf(s)) + forwarded'[s]
    <3>1. spent[s].tokens \in Nat /\ Budget \in Nat /\ forwarded[s] \in Nat
      BY BudgetAssumption DEF BudgetInv, BudgetTypeOK, Usage
    <3>2. CASE s = SessionOf[r]
      <4>1. spent[s].tokens < Budget
        BY <1>3, <2>1, <3>1, <3>2 DEF Guard
      <4>2. Uncharged(s)' \subseteq RunsOf(s)
        BY UnchargedFinite
      <4>3. /\ MaxUse * Cardinality(Uncharged(s)') <= MaxUse * Cardinality(RunsOf(s))
            /\ MaxUse * Cardinality(Uncharged(s)') \in Nat /\ MaxUse * Cardinality(RunsOf(s)) \in Nat
        BY <4>2, RunsAreFinite
      <4> QED BY <1>1, <3>1, <4>1, <4>3
    <3>3. CASE s # SessionOf[r]
      <4>1. Uncharged(s)' = Uncharged(s)
        BY <3>3 DEF RunHooks, Uncharged, RunsOf, BudgetInv, BudgetTypeOK
      <4> QED BY <1>1, <2>1, <4>1 DEF BudgetInv, CommittedIsBounded
    <3> QED BY <3>2, <3>3
  <2> QED BY <1>1, <2>1 DEF BudgetInv, CommittedIsBounded, RunsOf
<1> QED BY <1>2, <1>3

(* A call that ends turns at most MaxUse of what was committed into spend. *)
LEMMA EndCallInv == ASSUME BudgetInv, NEW r \in Spenders, EndCall(r) PROVE BudgetInv'
<1> DEFINE t == SessionOf[r]
<1>1. t \in BudgetSessions /\ r \in Uncharged(t) /\ MaxUse \in Nat /\ Budget \in Nat
  BY BudgetAssumption DEF EndCall, BudgetSessions, Uncharged, RunsOf
<1>2. /\ DOMAIN spender' = Spenders /\ spender'[r] \in {"tools", "ending", "reflect"}
      /\ \A q \in Spenders \ {r} : spender'[q] = spender[q]
      /\ forwarded' = forwarded /\ forwarded \in [BudgetSessions -> Nat]
  BY DEF EndCall, BudgetInv, BudgetTypeOK
<1>3. PICK u \in [tokens : 0 .. MaxUse, cost : -1 .. 1] :
        \/ spent' = [spent EXCEPT ![t] = Handler(@, u)]
        \/ spent' = spent
  BY DEF EndCall
<1>4. \A x \in Usage : /\ Handler(x, u) \in Usage
                       /\ Handler(x, u).tokens <= x.tokens + MaxUse
  BY <1>1 DEF Usage, Handler, Positive
<1>5. spent[t] \in Usage /\ spent[t].tokens \in Nat
  BY <1>1 DEF BudgetInv, BudgetTypeOK, Usage
<1>6. spent' \in [BudgetSessions -> Usage]
  BY <1>1, <1>3, <1>4, <1>5 DEF BudgetInv, BudgetTypeOK
<1>7. /\ spent'[t].tokens <= spent[t].tokens + MaxUse
      /\ \A s \in BudgetSessions \ {t} : spent'[s] = spent[s]
  BY <1>1, <1>3, <1>4, <1>5 DEF BudgetInv, BudgetTypeOK
<1>8. BudgetTypeOK'
  BY <1>2, <1>6 DEF BudgetTypeOK
<1>9. ASSUME Budget > 0, NEW s \in BudgetSessions
      PROVE  spent'[s].tokens + MaxUse * Cardinality(Uncharged(s)')
                 < Budget + MaxUse * Cardinality(RunsOf(s)) + forwarded'[s]
  <2>1. CASE s = t
    <3>1. Uncharged(t)' = Uncharged(t) \ {r}
      BY <1>2 DEF Uncharged, RunsOf
    <3>2. Cardinality(Uncharged(t)') = Cardinality(Uncharged(t)) - 1
      <4>1. IsFiniteSet(Uncharged(t)) /\ r \in Uncharged(t)
        BY <1>1, UnchargedFinite
      <4>2. Cardinality(Uncharged(t) \ {r}) = Cardinality(Uncharged(t)) - 1
        BY <4>1, FS_RemoveElement
      <4> QED BY <3>1, <4>2
    <3>3. Cardinality(Uncharged(t)) \in Nat /\ Cardinality(Uncharged(t)') \in Nat
      BY UnchargedFinite, RunsAreFinite
    <3>4. MaxUse * Cardinality(Uncharged(t)') + MaxUse = MaxUse * Cardinality(Uncharged(t))
      BY <1>1, <3>2, <3>3, TimesOneLess
    <3>5. MaxUse * Cardinality(Uncharged(t)') \in Nat /\ MaxUse * Cardinality(RunsOf(t)) \in Nat
      BY UnchargedFinite, RunsAreFinite
    <3>6. spent[t].tokens + MaxUse * Cardinality(Uncharged(t))
              < Budget + MaxUse * Cardinality(RunsOf(t)) + forwarded[t]
      BY <1>1, <1>9 DEF BudgetInv, CommittedIsBounded
    <3>7. spent'[t].tokens \in Nat /\ forwarded[t] \in Nat /\ forwarded'[t] = forwarded[t]
      BY <1>1, <1>2, <1>6 DEF Usage
    <3> HIDE DEF t
    <3> QED BY <1>1, <1>5, <1>7, <2>1, <3>4, <3>5, <3>6, <3>7
  <2>2. CASE s # t
    <3>1. Uncharged(s)' = Uncharged(s)
      BY <1>2, <2>2 DEF Uncharged, RunsOf
    <3> QED BY <1>2, <1>7, <1>9, <2>2, <3>1 DEF BudgetInv, CommittedIsBounded
  <2> QED BY <2>1, <2>2
<1> QED BY <1>8, <1>9 DEF BudgetInv, CommittedIsBounded, RunsOf

(* What a sub-agent is charged is forwarded.                               *)
LEMMA ForwardUsageInv == ASSUME BudgetInv, NEW r \in Spenders, ForwardUsage(r) PROVE BudgetInv'
<1> DEFINE t == SessionOf[r]
<1>1. t \in BudgetSessions /\ MaxUse \in Nat
  BY BudgetAssumption DEF BudgetSessions
<1>2. PICK u \in [tokens : 1 .. MaxUse, cost : -1 .. 1] :
        /\ spent' = [spent EXCEPT ![t] = Handler(@, u)]
        /\ forwarded' = [forwarded EXCEPT ![t] = @ + u.tokens]
  BY DEF ForwardUsage
<1>3. u.tokens \in Nat /\ \A x \in Usage : Handler(x, u) \in Usage /\ Handler(x, u).tokens = x.tokens + u.tokens
  BY <1>1 DEF Usage, Handler, Positive
<1>4. spent \in [BudgetSessions -> Usage] /\ forwarded \in [BudgetSessions -> Nat] /\ spender' = spender
      /\ DOMAIN spender = Spenders
  BY DEF ForwardUsage, BudgetInv, BudgetTypeOK
<1>5. spent' \in [BudgetSessions -> Usage] /\ forwarded' \in [BudgetSessions -> Nat]
  BY <1>1, <1>2, <1>3, <1>4
<1>6. BudgetTypeOK'
  BY <1>4, <1>5 DEF BudgetTypeOK
<1>7. ASSUME NEW s \in BudgetSessions
      PROVE  spent'[s].tokens - spent[s].tokens <= forwarded'[s] - forwarded[s]
  <2>1. spent[s] \in Usage /\ spent[s].tokens \in Nat /\ forwarded[s] \in Nat
    BY <1>4 DEF Usage
  <2>2. CASE s = t
    <3>1. spent'[s].tokens = spent[s].tokens + u.tokens /\ forwarded'[s] = forwarded[s] + u.tokens
      BY <1>1, <1>2, <1>3, <1>4, <2>1, <2>2
    <3> QED BY <1>3, <2>1, <3>1
  <2>3. CASE s # t
    BY <1>2, <1>4, <2>1, <2>3
  <2> QED BY <2>2, <2>3
<1>8. \A s \in BudgetSessions : Uncharged(s)' \subseteq Uncharged(s)
  BY <1>4 DEF Uncharged, RunsOf
<1> QED BY <1>6, <1>7, <1>8, NoAdmission

LEMMA RunStepsInv ==
    ASSUME BudgetInv, NEW r \in Spenders,
           StartCall(r) \/ FailCall(r) \/ EndTools(r) \/ ReflectOnce(r) \/ EndSpending(r)
    PROVE  BudgetInv'
<1>1. UNCHANGED <<spent, forwarded>> /\ BudgetTypeOK'
  BY DEF StartCall, FailCall, EndTools, ReflectOnce, EndSpending, BudgetInv, BudgetTypeOK
<1>2. \A q \in Spenders : spender'[q] \in {"admitted", "calling"} => spender[q] \in {"admitted", "calling"}
  BY DEF StartCall, FailCall, EndTools, ReflectOnce, EndSpending, BudgetInv, BudgetTypeOK
<1>3. \A s \in BudgetSessions : Uncharged(s)' \subseteq Uncharged(s)
  BY <1>2 DEF Uncharged, RunsOf
<1> QED BY <1>1, <1>3, NothingCharged

LEMMA RewindInv == ASSUME BudgetInv, NEW t \in BudgetSessions, Rewind(t) PROVE BudgetInv'
<1>1. PICK refund \in 1 .. MaxUse + 1 : spent' = [spent EXCEPT ![t].tokens = FloorZero(@, refund)]
  BY DEF Rewind
<1>2. spent[t] \in Usage /\ refund \in Nat
  BY BudgetAssumption DEF BudgetInv, BudgetTypeOK
<1>3. FloorZero(spent[t].tokens, refund) \in Nat /\ FloorZero(spent[t].tokens, refund) <= spent[t].tokens
  BY <1>2 DEF FloorZero, Positive, Usage
<1>4. BudgetTypeOK' /\ \A s \in BudgetSessions : spent'[s].tokens <= spent[s].tokens
  BY <1>1, <1>2, <1>3 DEF Rewind, BudgetInv, BudgetTypeOK, Usage
<1>5. \A s \in BudgetSessions : Uncharged(s)' \subseteq Uncharged(s)
  BY DEF Rewind, Uncharged, RunsOf
<1> QED BY <1>4, <1>5, NotCharged DEF Rewind

LEMMA ResetInv == ASSUME BudgetInv, NEW S, Reset(S) PROVE BudgetInv'
<1>1. BudgetTypeOK' /\ \A s \in BudgetSessions : spent'[s].tokens <= spent[s].tokens
  BY DEF Reset, Nothing, BudgetInv, BudgetTypeOK, Usage
<1>2. \A s \in BudgetSessions : Uncharged(s)' \subseteq Uncharged(s)
  BY DEF Reset, Uncharged, RunsOf
<1> QED BY <1>1, <1>2, NotCharged DEF Reset

LEMMA BudgetNextInv == BudgetInv /\ [BudgetNext]_budgetVars => BudgetInv'
<1> SUFFICES ASSUME BudgetInv, [BudgetNext]_budgetVars PROVE BudgetInv'
  OBVIOUS
<1>1. CASE UNCHANGED budgetVars
  BY <1>1 DEF budgetVars, BudgetInv, BudgetTypeOK, CommittedIsBounded, Uncharged, RunsOf
<1> QED BY <1>1, RunHooksInv, EndCallInv, ForwardUsageInv, RunStepsInv, RewindInv, ResetInv DEF BudgetNext

-----------------------------------------------------------------------------
(* The inductive invariant of the budget tracker.                          *)
THEOREM BudgetInvariant == BudgetSpec => []BudgetInv
BY BudgetInitInv, BudgetNextInv, PTL DEF BudgetSpec

(* The spend of a session passes its budget by less than one call for each *)
(* of its runs and what their sub-agents were charged (Guard and Handler   *)
(* of the BudgetTracker, WithSubAgentEmitter of executeTool).              *)
THEOREM OverrunStaysBounded == BudgetSpec => []OverrunIsBounded
<1>1. BudgetInv => OverrunIsBounded
  <2> SUFFICES ASSUME BudgetInv, Budget > 0, NEW s \in BudgetSessions
               PROVE  spent[s].tokens < Budget + MaxUse * Cardinality(RunsOf(s)) + forwarded[s]
    BY DEF OverrunIsBounded, RunsOf
  <2>1. MaxUse * Cardinality(Uncharged(s)) \in Nat /\ MaxUse * Cardinality(RunsOf(s)) \in Nat
    BY UnchargedFinite, RunsAreFinite
  <2>2. spent[s].tokens \in Nat /\ Budget \in Nat /\ forwarded[s] \in Nat
    BY BudgetAssumption DEF BudgetInv, BudgetTypeOK, Usage
  <2> QED BY <2>1, <2>2 DEF BudgetInv, CommittedIsBounded
<1> QED BY <1>1, BudgetInvariant, PTL

-----------------------------------------------------------------------------
(***************************************************************************)
(* The reflection rounds keep the first of the best-ranked answers, for    *)
(* every number of passes, every set of answers and every range of scores. *)
(***************************************************************************)

Ranking == [answer : Answers, score : Scores]

ReflTypeOK ==
    /\ reflect \in [passes : 1 .. MaxRounds, scorer : BOOLEAN]
    /\ round \in Nat /\ step \in {"score", "revise", "done"}
    /\ lastMsg \in Answers /\ best \in Answers
    /\ bestScore \in [have : BOOLEAN, score : Int]
    /\ reflected \in Seq(Answers) /\ ranked \in Seq(Ranking)

(* The answer to keep stands somewhere in the ranking, with its score, and *)
(* nothing before it or after it is better.                                *)
BestAt(i) ==
    /\ ranked[i].answer = best /\ ranked[i].score = bestScore.score
    /\ \A j \in DOMAIN ranked :
         IF j < i THEN ranked[j].score < ranked[i].score
         ELSE ranked[j].score <= ranked[i].score

RankInv ==
    /\ bestScore.have <=> ranked # <<>>
    /\ ranked # <<>> => reflect.scorer /\ \E i \in DOMAIN ranked : BestAt(i)

(* While a revision is being scored the last message is that revision; the *)
(* original answer is scored in place.                                     *)
MessageInv ==
    /\ step # "score" \/ round = 0 => lastMsg = best
    /\ reflected # <<>> => reflected[Len(reflected)] = best
    /\ step = "score" /\ round = 0 => ranked = <<>>
    /\ step = "revise" => round > 0

ReflInv == ReflTypeOK /\ RankInv /\ MessageInv

-----------------------------------------------------------------------------
(* What scoreCandidate may give: no score without a Scorer.                *)
LEMMA Scored ==
    ASSUME ReflTypeOK, NEW s \in scoreCandidate
    PROVE  s \in [have : BOOLEAN, score : Int] /\ (s.have => reflect.scorer /\ s.score \in Scores)
<1>1. reflect.scorer \in BOOLEAN /\ Scores \subseteq Int
  BY ReflectAssumption DEF ReflTypeOK
<1>2. CASE s = Unranked
  BY <1>2 DEF Unranked
<1>3. CASE reflect.scorer /\ s \in [have : {TRUE}, score : Scores]
  BY <1>1, <1>3
<1> QED BY <1>1, <1>2, <1>3 DEF scoreCandidate

(* NextPass leaves the scoring, and only it advances the round.            *)
LEMMA PassAdvances ==
    ASSUME ReflTypeOK, NextPass
    PROVE  round' \in Nat /\ step' \in {"revise", "done"} /\ (step' = "revise" => round' > 0)
BY ReflectAssumption DEF ReflTypeOK, NextPass

(* Ranking a candidate adds it to the end, an unranked one is not added.   *)
LEMMA RankAppends ==
    ASSUME ReflTypeOK, NEW a \in Answers, NEW s \in scoreCandidate, Rank(a, s)
    PROVE  /\ ranked' \in Seq(Ranking)
           /\ ~s.have => ranked' = ranked
           /\ s.have => /\ Len(ranked') = Len(ranked) + 1 /\ ranked' # <<>>
                        /\ DOMAIN ranked' = 1 .. Len(ranked) + 1
                        /\ ranked'[Len(ranked) + 1] = [answer |-> a, score |-> s.score]
                        /\ \A j \in 1 .. Len(ranked) : ranked'[j] = ranked[j]
<1>1. s \in [have : BOOLEAN, score : Int] /\ (s.have => s.score \in Scores)
  BY Scored
<1>2. ranked \in Seq(Ranking)
  BY DEF ReflTypeOK
<1>3. CASE ~s.have
  BY <1>2, <1>3 DEF Rank
<1>4. CASE s.have
  <2> DEFINE e == [answer |-> a, score |-> s.score]
  <2>1. e \in Ranking
    BY <1>1, <1>4 DEF Ranking
  <2>2. ranked' = Append(ranked, e)
    BY <1>4 DEF Rank
  <2> HIDE DEF e
  <2>3. /\ Append(ranked, e) \in Seq(Ranking) /\ Len(Append(ranked, e)) = Len(ranked) + 1
        /\ \A j \in 1 .. Len(ranked) : Append(ranked, e)[j] = ranked[j]
        /\ Append(ranked, e)[Len(ranked) + 1] = e
    BY <1>2, <2>1, AppendProperties
  <2>4. DOMAIN ranked' = 1 .. Len(ranked) + 1 /\ ranked' # <<>>
    BY <2>2, <2>3, <1>2
  <2> QED BY <1>4, <2>2, <2>3, <2>4 DEF e
<1> QED BY <1>1, <1>3, <1>4

(* A candidate that loses leaves the answer to keep where it stands.       *)
LEMMA LoserKeepsBest ==
    ASSUME ReflTypeOK, RankInv, NEW a \in Answers, NEW s \in scoreCandidate, Rank(a, s),
           reflect.scorer, s.have => bestScore.have /\ s.score <= bestScore.score,
           UNCHANGED <<reflect, best, bestScore>>
    PROVE  RankInv'
<1>1. CASE ~s.have
  <2>1. ranked' = ranked
    BY <1>1, RankAppends
  <2> QED BY <2>1 DEF RankInv, BestAt
<1>2. CASE s.have
  <2>1. PICK i \in DOMAIN ranked : BestAt(i)
    BY <1>2 DEF RankInv
  <2>2. ranked \in Seq(Ranking) /\ DOMAIN ranked = 1 .. Len(ranked) /\ Len(ranked) \in Nat
    BY DEF ReflTypeOK
  <2>3. /\ DOMAIN ranked' = 1 .. Len(ranked) + 1 /\ ranked' # <<>>
        /\ ranked'[Len(ranked) + 1] = [answer |-> a, score |-> s.score]
        /\ \A j \in 1 .. Len(ranked) : ranked'[j] = ranked[j]
    BY <1>2, RankAppends
  <2>4. BestAt(i)'
    <3>1. ranked'[i] = ranked[i] /\ i \in 1 .. Len(ranked)
      BY <2>2, <2>3
    <3>2. ranked'[i].answer = best' /\ ranked'[i].score = bestScore'.score
      BY <2>1, <3>1 DEF BestAt
    <3>3. ASSUME NEW j \in DOMAIN ranked'
          PROVE  IF j < i THEN ranked'[j].score < ranked'[i].score
                 ELSE ranked'[j].score <= ranked'[i].score
      <4>1. CASE j \in 1 .. Len(ranked)
        BY <2>1, <2>2, <2>3, <3>1, <4>1 DEF BestAt
      <4>2. CASE j = Len(ranked) + 1
        BY <1>2, <2>1, <2>2, <2>3, <3>1, <4>2 DEF BestAt
      <4> QED BY <2>2, <2>3, <3>3, <4>1, <4>2
    <3> QED BY <3>2, <3>3 DEF BestAt
  <2>5. bestScore'.have
    BY <1>2
  <2> QED BY <2>2, <2>3, <2>4, <2>5 DEF RankInv
<1> QED BY <1>1, <1>2, Scored

(* A ranked candidate that wins is the first of the best from then on.     *)
LEMMA WinnerIsBest ==
    ASSUME ReflTypeOK, RankInv, NEW a \in Answers, NEW s \in scoreCandidate, Rank(a, s),
           s.have, bestScore.have => s.score > bestScore.score,
           best' = a, bestScore' = s, UNCHANGED reflect
    PROVE  RankInv'
<1>1. PICK n : n = Len(ranked) + 1
  OBVIOUS
<1>2. /\ DOMAIN ranked = 1 .. Len(ranked) /\ Len(ranked) \in Nat
      /\ \A j \in 1 .. Len(ranked) : ranked[j].score \in Int
  <2>1. ranked \in Seq(Ranking) /\ Scores \subseteq Int
    BY ReflectAssumption DEF ReflTypeOK
  <2>2. \A j \in 1 .. Len(ranked) : ranked[j] \in Ranking
    BY <2>1, ElementOfSeq
  <2>3. \A x \in Ranking : x.score \in Int
    BY <2>1 DEF Ranking
  <2>4. DOMAIN ranked = 1 .. Len(ranked) /\ Len(ranked) \in Nat
    BY <2>1
  <2> QED BY <2>2, <2>3, <2>4
<1>3. /\ DOMAIN ranked' = 1 .. n /\ ranked' # <<>>
      /\ ranked'[n] = [answer |-> a, score |-> s.score]
      /\ \A j \in 1 .. Len(ranked) : ranked'[j] = ranked[j]
  BY <1>1, RankAppends
<1>4. s.score \in Int /\ bestScore.score \in Int /\ reflect.scorer
  BY Scored DEF ReflTypeOK
<1>5. ASSUME NEW j \in 1 .. Len(ranked) PROVE ranked[j].score < s.score
  <2>1. ranked # <<>> /\ bestScore.have
    BY <1>2, <1>5 DEF RankInv
  <2>2. PICK i \in DOMAIN ranked : BestAt(i)
    BY <2>1 DEF RankInv
  <2>3. ranked[j].score <= bestScore.score
    BY <1>2, <1>5, <2>2 DEF BestAt
  <2> QED BY <1>2, <1>4, <2>1, <2>3
<1>6. ranked'[n].answer = best' /\ ranked'[n].score = bestScore'.score
  BY <1>3
<1>7. ASSUME NEW j \in DOMAIN ranked'
      PROVE  IF j < n THEN ranked'[j].score < ranked'[n].score
             ELSE ranked'[j].score <= ranked'[n].score
  <2>1. CASE j = n
    BY <1>1, <1>2, <1>3, <1>4, <2>1
  <2>2. CASE j \in 1 .. Len(ranked)
    BY <1>1, <1>2, <1>3, <1>5, <2>2
  <2> QED BY <1>1, <1>2, <1>3, <1>7, <2>1, <2>2
<1>8. n \in DOMAIN ranked' /\ BestAt(n)'
  BY <1>1, <1>2, <1>3, <1>6, <1>7 DEF BestAt
<1> QED BY <1>3, <1>4, <1>8 DEF RankInv

-----------------------------------------------------------------------------
LEMMA ReflInitInv == ReflInit => ReflInv
BY ReflectAssumption DEF ReflInit, ReflInv, ReflTypeOK, RankInv, MessageInv, Unranked, Ranking

LEMMA ReflNextInv == ReflInv /\ [ReflNext]_reflVars => ReflInv'
<1> SUFFICES ASSUME ReflInv, [ReflNext]_reflVars PROVE ReflInv'
  OBVIOUS
<1> USE DEF ReflInv
<1>1. CASE ScoreOriginal
  <2>1. PICK s \in scoreCandidate : bestScore' = s /\ Rank(best, s)
    BY <1>1 DEF ScoreOriginal
  <2>2. round' \in Nat /\ step' \in {"revise", "done"} /\ (step' = "revise" => round' > 0)
    BY <1>1, PassAdvances DEF ScoreOriginal
  <2>3. ranked = <<>> /\ lastMsg = best /\ ~bestScore.have
    BY <1>1 DEF ScoreOriginal, MessageInv, RankInv
  <2>4. UNCHANGED <<reflect, lastMsg, best, reflected>>
    BY <1>1 DEF ScoreOriginal
  <2>5. ReflTypeOK'
    BY <2>1, <2>2, <2>4, Scored, RankAppends DEF ReflTypeOK
  <2>6. RankInv'
    <3>1. CASE s.have
      BY <2>1, <2>3, <2>4, <3>1, WinnerIsBest DEF ReflTypeOK
    <3>2. CASE ~s.have
      BY <2>1, <2>3, <3>2, RankAppends DEF RankInv, ReflTypeOK
    <3> QED BY <3>1, <3>2, <2>1, Scored
  <2>7. MessageInv'
    BY <2>2, <2>3, <2>4 DEF MessageInv
  <2> QED BY <2>5, <2>6, <2>7
<1>2. CASE Abort
  <2>1. ReflTypeOK' /\ RankInv'
    BY <1>2 DEF Abort, ReflTypeOK, RankInv, BestAt
  <2>2. MessageInv'
    BY <1>2 DEF Abort, MessageInv
  <2> QED BY <2>1, <2>2
<1>3. CASE NoRevision
  <2>1. round' \in Nat /\ step' \in {"revise", "done"} /\ (step' = "revise" => round' > 0)
    BY <1>3, PassAdvances DEF NoRevision
  <2>2. ReflTypeOK' /\ RankInv'
    BY <1>3, <2>1 DEF NoRevision, ReflTypeOK, RankInv, BestAt
  <2>3. MessageInv'
    BY <1>3, <2>1 DEF NoRevision, MessageInv
  <2> QED BY <2>2, <2>3
<1>4. CASE Revise
  <2>1. ReflTypeOK'
    BY <1>4 DEF Revise, ReflTypeOK
  <2>2. RankInv'
    BY <1>4 DEF Revise, RankInv, BestAt
  <2>3. MessageInv'
    BY <1>4 DEF Revise, MessageInv, ReflTypeOK
  <2> QED BY <2>1, <2>2, <2>3
<1>5. CASE Adopt
  <2>1. PICK s \in scoreCandidate : ~Loses(s) /\ bestScore' = s /\ Rank(lastMsg, s)
    BY <1>5 DEF Adopt
  <2>2. round' \in Nat /\ step' \in {"revise", "done"} /\ (step' = "revise" => round' > 0)
    BY <1>5, PassAdvances DEF Adopt
  <2>3. /\ best' = lastMsg /\ reflected' = Append(reflected, lastMsg)
        /\ UNCHANGED <<reflect, lastMsg>>
    BY <1>5 DEF Adopt
  <2>4. lastMsg \in Answers /\ reflected \in Seq(Answers)
    BY DEF ReflTypeOK
  <2>5. ReflTypeOK'
    BY <2>1, <2>2, <2>3, <2>4, Scored, RankAppends, AppendProperties DEF ReflTypeOK
  <2>6. RankInv'
    <3>1. CASE s.have
      <4>1. bestScore.have => s.score > bestScore.score
        BY <2>1, <3>1, Scored DEF Loses, ReflTypeOK
      <4> QED BY <2>1, <2>3, <2>4, <3>1, <4>1, WinnerIsBest
    <3>2. CASE ~s.have
      BY <2>1, <2>4, <3>2, RankAppends DEF Loses, RankInv, ReflTypeOK
    <3> QED BY <3>1, <3>2, <2>1, Scored
  <2>7. MessageInv'
    <3>1. reflected'[Len(reflected')] = best'
      BY <2>3, <2>4, AppendProperties
    <3> QED BY <2>2, <2>3, <3>1 DEF MessageInv
  <2> QED BY <2>5, <2>6, <2>7
<1>6. CASE Discard
  <2>1. PICK s \in scoreCandidate : Loses(s) /\ Rank(lastMsg, s)
    BY <1>6 DEF Discard
  <2>2. round' \in Nat /\ step' \in {"revise", "done"} /\ (step' = "revise" => round' > 0)
    BY <1>6, PassAdvances DEF Discard
  <2>3. lastMsg' = best /\ UNCHANGED <<reflect, best, bestScore, reflected>>
    BY <1>6 DEF Discard
  <2>4. lastMsg \in Answers
    BY DEF ReflTypeOK
  <2>5. ReflTypeOK'
    BY <2>1, <2>2, <2>3, <2>4, RankAppends DEF ReflTypeOK
  <2>6. RankInv'
    BY <2>1, <2>3, <2>4, LoserKeepsBest DEF Loses
  <2>7. MessageInv'
    BY <2>2, <2>3 DEF MessageInv
  <2> QED BY <2>5, <2>6, <2>7
<1>7. CASE UNCHANGED reflVars
  <2>1. ReflTypeOK' /\ RankInv'
    BY <1>7 DEF reflVars, ReflTypeOK, RankInv, BestAt
  <2>2. MessageInv'
    BY <1>7 DEF reflVars, MessageInv
  <2> QED BY <2>1, <2>2
<1> QED BY <1>1, <1>2, <1>3, <1>4, <1>5, <1>6, <1>7 DEF ReflNext

(* The inductive invariant of the reflection rounds.                       *)
THEOREM ReflectionInvariant == ReflSpec => []ReflInv
BY ReflInitInv, ReflNextInv, PTL DEF ReflSpec

(* Each critique is shown the answer kept so far, which is the one the     *)
(* last ReflectedEvent announced and the first of the best-ranked          *)
(* (runReflectRounds).                                                     *)
THEOREM BestAnswerIsKept == ReflSpec => []KeptIsBest
<1>1. ReflInv => KeptIsBest
  BY DEF ReflInv, RankInv, MessageInv, BestAt, KeptIsBest
<1> QED BY <1>1, ReflectionInvariant, PTL

-----------------------------------------------------------------------------
(***************************************************************************)
(* Every lookup gives out the registered tool, for any number of tools,    *)
(* registrations, middlewares and callers of the selector.                 *)
(***************************************************************************)

RegTools == [reg : Nat, layers : Nat]

Indexes == [ToolNames -> Nat]

SelectCalls == [at : {"idle", "embeds", "ranks", "gathers", "selected"}, index : Indexes,
             chosen : SUBSET ToolNames, left : SUBSET ToolNames, picked : [ToolNames -> RegTools]]

RegTypeOK ==
    /\ registry \in [tools : [ToolNames -> RegTools], views : [ToolNames -> RegTools],
                     debug : BOOLEAN, regs : Nat, uses : Nat, refreshes : Nat]
    /\ index \in Indexes /\ caller \in [Selecting -> SelectCalls]

(* In debug mode the view of a tool is missing or is the tool.             *)
ViewsAreFresh ==
    registry.debug => \A n \in ToolNames : registry.views[n] \in {NoTool, registry.tools[n]}

(* A registration is never younger than the last one, and what was read    *)
(* for an index is never younger than the registry.                        *)
Past(ix) == \A n \in ToolNames : ix[n] <= registry.tools[n].reg
RegsAreCounted == \A n \in ToolNames : registry.tools[n].reg <= registry.regs

(* What a caller has gathered is at least as young as what it ranked by.   *)
Gathered(r) ==
    /\ \A n \in r.chosen \ r.left : r.picked[n].reg >= r.index[n]
    /\ r.at = "selected" => r.left = {}

CallersAreSound ==
    Past(index) /\ \A c \in Selecting : Past(caller[c].index) /\ Gathered(caller[c])

RegInv == RegTypeOK /\ ViewsAreFresh /\ RegsAreCounted /\ CallersAreSound

-----------------------------------------------------------------------------
LEMMA GetIsCurrent ==
    ASSUME ViewsAreFresh, NEW n \in ToolNames
    PROVE  Get(n) = registry.tools[n]
BY DEF ViewsAreFresh, Get

LEMMA NothingSelected ==
    /\ NoTool \in RegTools /\ NoneGiven \in [ToolNames -> RegTools]
    /\ NotSelecting \in SelectCalls /\ Gathered(NotSelecting)
    /\ NotSelecting = [at |-> "idle", index |-> [n \in ToolNames |-> 0],
                       chosen |-> {}, left |-> {}, picked |-> NoneGiven]
<1>1. NoTool \in RegTools
  BY DEF NoTool, RegTools
<1>2. NoneGiven \in [ToolNames -> RegTools]
  BY <1>1 DEF NoneGiven
<1>3. [n \in ToolNames |-> 0] \in Indexes
  BY DEF Indexes
<1> QED BY <1>1, <1>2, <1>3 DEF NotSelecting, SelectCalls, Gathered

LEMMA RegInitInv == RegInit => RegInv
<1> SUFFICES ASSUME RegInit PROVE RegInv
  OBVIOUS
<1>1. /\ registry = [tools |-> [n \in ToolNames |-> NoTool], views |-> [n \in ToolNames |-> NoTool],
                    debug |-> FALSE, regs |-> 0, uses |-> 0, refreshes |-> 0]
      /\ index = [n \in ToolNames |-> 0] /\ caller = [c \in Selecting |-> NotSelecting]
  BY DEF RegInit
<1>2. NoTool.reg = 0
  BY DEF NoTool
<1>3. RegTypeOK
  BY <1>1, NothingSelected DEF RegTypeOK, Indexes
<1>4. ViewsAreFresh /\ RegsAreCounted
  BY <1>1, <1>2 DEF ViewsAreFresh, RegsAreCounted
<1>5. \A c \in Selecting : caller[c] = NotSelecting /\ caller[c].index = [n \in ToolNames |-> 0]
  BY <1>1, NothingSelected
<1>6. Past([n \in ToolNames |-> 0])
  BY <1>1, <1>2 DEF Past
<1> QED BY <1>1, <1>3, <1>4, <1>5, <1>6, NothingSelected DEF RegInv, CallersAreSound

(* The steps that change the registry let no tool grow older.              *)
LEMMA RegistryStep ==
    ASSUME RegInv, RegTypeOK', UNCHANGED <<index, caller>>,
           \A n \in ToolNames : registry'.tools[n].reg >= registry.tools[n].reg
    PROVE  CallersAreSound'
<1>1. ASSUME NEW ix \in Indexes, Past(ix)
      PROVE  \A n \in ToolNames : ix[n] <= registry'.tools[n].reg
  <2> SUFFICES ASSUME NEW n \in ToolNames PROVE ix[n] <= registry'.tools[n].reg
    OBVIOUS
  <2>1. ix[n] \in Nat /\ registry.tools[n].reg \in Nat /\ registry'.tools[n].reg \in Nat
    BY DEF RegInv, RegTypeOK, RegTools, Indexes
  <2>2. ix[n] <= registry.tools[n].reg /\ registry'.tools[n].reg >= registry.tools[n].reg
    BY <1>1 DEF Past
  <2> QED BY <2>1, <2>2
<1>2. index \in Indexes /\ \A c \in Selecting : caller[c].index \in Indexes
  BY DEF RegInv, RegTypeOK, SelectCalls
<1>3. /\ \A n \in ToolNames : index[n] <= registry'.tools[n].reg
      /\ \A c \in Selecting : \A n \in ToolNames : caller[c].index[n] <= registry'.tools[n].reg
  BY <1>1, <1>2 DEF RegInv, CallersAreSound
<1>4. index' = index /\ caller' = caller
  OBVIOUS
<1>5. \A c \in Selecting : Gathered(caller[c])
  BY DEF RegInv, CallersAreSound
<1> QED BY <1>3, <1>4, <1>5 DEF CallersAreSound, Past, Gathered

LEMMA RegisterInv == ASSUME RegInv, NEW n \in ToolNames, Register(n) PROVE RegInv'
<1> DEFINE t == [reg |-> registry.regs + 1, layers |-> 0]
<1>1. t \in RegTools /\ NoTool \in RegTools /\ registry.regs \in Nat
      /\ registry.regs + 1 \in Nat /\ t.reg = registry.regs + 1
  BY DEF RegInv, RegTypeOK, RegTools, NoTool
<1>2. /\ registry' = [registry EXCEPT !.regs = @ + 1, !.tools[n] = t,
                                      !.views[n] = IF registry.debug THEN t ELSE NoTool]
      /\ UNCHANGED <<index, caller>>
  BY DEF Register
<1> HIDE DEF t
<1>3. RegTypeOK'
  BY <1>1, <1>2 DEF RegInv, RegTypeOK
<1>4. ViewsAreFresh'
  BY <1>2 DEF RegInv, RegTypeOK, ViewsAreFresh
<1>5. /\ registry'.regs = registry.regs + 1 /\ registry'.tools[n] = t
      /\ \A m \in ToolNames \ {n} : registry'.tools[m] = registry.tools[m]
  BY <1>2 DEF RegInv, RegTypeOK
<1>6. \A m \in ToolNames : registry.tools[m].reg \in Nat /\ registry.tools[m].reg <= registry.regs
  BY DEF RegInv, RegTypeOK, RegsAreCounted, RegTools
<1>7. \A m \in ToolNames : /\ registry'.tools[m].reg >= registry.tools[m].reg
                           /\ registry'.tools[m].reg <= registry'.regs
  BY <1>1, <1>5, <1>6
<1> QED BY <1>2, <1>3, <1>4, <1>7, RegistryStep DEF RegInv, RegsAreCounted

LEMMA EnableDebugInv == ASSUME RegInv, EnableDebug PROVE RegInv'
<1>1. registry' = [registry EXCEPT !.debug = TRUE, !.views = registry.tools] /\ UNCHANGED <<index, caller>>
  BY DEF EnableDebug, Rewrapped
<1>2. RegTypeOK' /\ registry'.tools = registry.tools /\ registry'.regs = registry.regs
  BY <1>1 DEF RegInv, RegTypeOK
<1>3. ViewsAreFresh' /\ RegsAreCounted'
  BY <1>1, <1>2 DEF RegInv, RegTypeOK, ViewsAreFresh, RegsAreCounted
<1>4. \A n \in ToolNames : registry'.tools[n].reg >= registry.tools[n].reg
  BY <1>2 DEF RegInv, RegTypeOK, RegTools
<1> QED BY <1>1, <1>2, <1>3, <1>4, RegistryStep DEF RegInv

LEMMA UseInv == ASSUME RegInv, Use PROVE RegInv'
<1> DEFINE wrapped == [n \in ToolNames |-> IF n \in Registered
                                           THEN [registry.tools[n] EXCEPT !.layers = @ + 1] ELSE NoTool]
<1>1. \A n \in ToolNames : registry.tools[n] \in RegTools
  BY DEF RegInv, RegTypeOK
<1>2. wrapped \in [ToolNames -> RegTools]
  BY <1>1 DEF RegTools, NoTool
<1>0. \A n \in ToolNames : wrapped[n].reg = registry.tools[n].reg
  <2> SUFFICES ASSUME NEW n \in ToolNames PROVE wrapped[n].reg = registry.tools[n].reg
    OBVIOUS
  <2>1. CASE n \in Registered
    BY <1>1, <2>1 DEF RegTools
  <2>2. CASE n \notin Registered
    BY <2>2 DEF Registered
  <2> QED BY <2>1, <2>2
<1>3. /\ registry' = [registry EXCEPT !.uses = @ + 1, !.tools = wrapped,
                        !.views = IF registry.debug THEN wrapped ELSE @]
      /\ UNCHANGED <<index, caller>>
  BY DEF Use, Rewrapped
<1> HIDE DEF wrapped
<1>4. RegTypeOK'
  <2>1. PICK views \in [ToolNames -> RegTools] :
          registry' = [registry EXCEPT !.uses = @ + 1, !.tools = wrapped, !.views = views]
    <3>1. CASE registry.debug
      BY <1>2, <1>3, <3>1
    <3>2. CASE ~registry.debug
      <4>1. registry.views \in [ToolNames -> RegTools]
        BY DEF RegInv, RegTypeOK
      <4> QED BY <1>3, <3>2, <4>1
    <3> QED BY <3>1, <3>2
  <2>2. registry.uses + 1 \in Nat
    BY DEF RegInv, RegTypeOK
  <2> QED BY <1>2, <1>3, <2>1, <2>2 DEF RegInv, RegTypeOK
<1>5. ViewsAreFresh'
  BY <1>3 DEF RegInv, RegTypeOK, ViewsAreFresh
<1>6. registry'.tools = wrapped /\ registry'.regs = registry.regs
  BY <1>3 DEF RegInv, RegTypeOK
<1>7. RegsAreCounted' /\ \A n \in ToolNames : registry'.tools[n].reg >= registry.tools[n].reg
  BY <1>0, <1>1, <1>6 DEF RegInv, RegsAreCounted, RegTools
<1> QED BY <1>3, <1>4, <1>5, <1>7, RegistryStep DEF RegInv

LEMMA CloneInv == ASSUME RegInv, Clone PROVE RegInv'
<1>1. NoTool \in RegTools
  BY NothingSelected
<1>2. UNCHANGED <<index, caller>>
  BY DEF Clone
<1>3. RegTypeOK' /\ ViewsAreFresh'
  BY <1>1 DEF Clone, Rewrapped, RegInv, RegTypeOK, ViewsAreFresh
<1>4. registry'.tools = registry.tools /\ registry'.regs = registry.regs
  BY DEF Clone, RegInv, RegTypeOK
<1>5. RegsAreCounted' /\ \A n \in ToolNames : registry'.tools[n].reg >= registry.tools[n].reg
  BY <1>4 DEF RegInv, RegTypeOK, RegsAreCounted, RegTools
<1> QED BY <1>2, <1>3, <1>5, RegistryStep DEF RegInv

(* A step of a caller of the selector leaves the tools, and what it picks  *)
(* is registered at that moment.                                           *)
SelectorStep(c) ==
    RefreshBegins(c) \/ RefreshEnds(c) \/ SelectBegins(c) \/ RankTools(c) \/ GatherTool(c) \/ Taken(c)

Picks(old, new) ==
    /\ new \in SelectCalls /\ Past(new.index) /\ Gathered(new)
    /\ \A n \in ToolNames : new.picked[n] \in {old.picked[n], NoTool, registry.tools[n]}

LEMMA SelectorPicks ==
    ASSUME RegInv, NEW c \in Selecting, SelectorStep(c)
    PROVE  \E r : SelectBecomes(c, r) /\ Picks(caller[c], r)
<1>1. /\ caller[c] \in SelectCalls /\ Past(caller[c].index) /\ Gathered(caller[c])
      /\ index \in Indexes /\ Past(index)
  BY DEF RegInv, RegTypeOK, CallersAreSound
<1>2. \A n \in ToolNames : Get(n) = registry.tools[n] /\ Get(n) \in RegTools /\ Get(n).reg \in Nat
  BY GetIsCurrent DEF RegInv, RegTypeOK, RegTools
<1>3. PICK old \in SelectCalls : old = caller[c]
  BY <1>1
<1>0. PICK none \in SelectCalls :
        /\ none = NotSelecting /\ none.chosen = {} /\ none.left = {}
        /\ none.index = [n \in ToolNames |-> 0] /\ none.picked = NoneGiven
  BY NothingSelected
<1>4. Picks(caller[c], NotSelecting)
  <2>1. \A n \in ToolNames : NotSelecting.picked[n] = NoTool
    BY NothingSelected DEF NoneGiven
  <2>2. \A n \in ToolNames : NotSelecting.index[n] = 0 /\ registry.tools[n].reg \in Nat
    BY <1>2, NothingSelected
  <2> QED BY <2>1, <2>2, NothingSelected DEF Picks, Past
<1>5. CASE RefreshBegins(c)
  <2>1. PICK ix \in Indexes : ix = [n \in ToolNames |-> Get(n).reg]
    BY <1>2 DEF Indexes
  <2>2. SelectBecomes(c, [NotSelecting EXCEPT !.at = "embeds", !.index = ix])
    BY <1>5, <2>1 DEF RefreshBegins
  <2>3. Past(ix)
    BY <1>2, <2>1 DEF Past
  <2>4. PICK new : new = [none EXCEPT !.at = "embeds", !.index = ix]
    OBVIOUS
  <2>5. [NotSelecting EXCEPT !.at = "embeds", !.index = ix] = new
    BY <1>0, <2>4
  <2>6. new \in SelectCalls /\ Gathered(new) /\ new.index = ix /\ new.picked = NoneGiven
    BY <1>0, <2>4 DEF SelectCalls, Gathered
  <2> QED BY <2>2, <2>3, <2>5, <2>6 DEF Picks, NoneGiven
<1>6. CASE RefreshEnds(c) \/ Taken(c)
  BY <1>4, <1>6 DEF RefreshEnds, Taken
<1>7. CASE SelectBegins(c)
  <2>1. PICK given \in [ToolNames -> RegTools] : given = [n \in ToolNames |-> Get(n)]
    BY <1>2
  <2>2. PICK e, a, k :
          /\ e = [none EXCEPT !.at = "selected"]
          /\ a = [none EXCEPT !.at = "selected", !.picked = given]
          /\ k = [none EXCEPT !.at = "ranks", !.index = index]
    OBVIOUS
  <2>3. /\ e \in SelectCalls /\ e.chosen = {} /\ e.left = {}
        /\ e.index = [n \in ToolNames |-> 0] /\ e.picked = NoneGiven
        /\ a \in SelectCalls /\ a.chosen = {} /\ a.left = {}
        /\ a.index = [n \in ToolNames |-> 0] /\ a.picked = given
        /\ k \in SelectCalls /\ k.chosen = {} /\ k.left = {}
        /\ k.index = index /\ k.picked = NoneGiven
    BY <1>0, <1>1, <2>2 DEF SelectCalls
  <2>4. SelectBecomes(c, e) \/ SelectBecomes(c, a) \/ SelectBecomes(c, k)
    BY <1>0, <1>7, <2>1, <2>2 DEF SelectBegins
  <2>5. [n \in ToolNames |-> 0] \in Indexes /\ Past([n \in ToolNames |-> 0])
    BY <1>2 DEF Indexes, Past
  <2>6. Picks(caller[c], e)
    BY <2>3, <2>5 DEF Picks, Gathered, NoneGiven
  <2>7. Picks(caller[c], a)
    BY <1>2, <2>1, <2>3, <2>5 DEF Picks, Gathered
  <2>8. Picks(caller[c], k)
    BY <1>1, <2>3 DEF Picks, Gathered, NoneGiven
  <2> QED BY <2>4, <2>6, <2>7, <2>8
<1>8. CASE RankTools(c)
  <2>1. CASE SelectBecomes(c, NotSelecting)
    BY <1>4, <2>1
  <2>2. ASSUME NEW top \in SUBSET Indexed(caller[c].index),
               SelectBecomes(c, [caller[c] EXCEPT !.at = "gathers", !.chosen = top \union Pinned,
                                                 !.left = top \union Pinned])
        PROVE  \E r : SelectBecomes(c, r) /\ Picks(caller[c], r)
    <3>1. PICK names \in SUBSET ToolNames : names = top \union Pinned
      BY RegistryAssumption DEF Indexed
    <3>2. PICK new : new = [old EXCEPT !.at = "gathers", !.chosen = names, !.left = names]
      OBVIOUS
    <3>3. /\ new.at = "gathers" /\ new.chosen = names /\ new.left = names
          /\ new.index = old.index /\ new.picked = old.picked /\ new \in SelectCalls
      BY <3>2 DEF SelectCalls
    <3>4. Gathered(new)
      BY <3>3 DEF Gathered
    <3>5. Picks(caller[c], new)
      BY <1>1, <1>3, <3>3, <3>4 DEF Picks
    <3> QED BY <1>3, <2>2, <3>1, <3>2, <3>5
  <2> QED BY <1>8, <2>1, <2>2 DEF RankTools
<1>9. CASE GatherTool(c)
  <2>1. PICK n \in caller[c].left :
          SelectBecomes(c, [caller[c] EXCEPT !.picked[n] = Get(n), !.left = @ \ {n},
                              !.at = IF caller[c].left = {n} THEN "selected" ELSE "gathers"])
    BY <1>9 DEF GatherTool
  <2>2. n \in ToolNames /\ n \in old.left
    BY <1>1, <1>3, <2>1 DEF SelectCalls
  <2>3. PICK at \in {"selected", "gathers"} :
          at = (IF caller[c].left = {n} THEN "selected" ELSE "gathers")
    OBVIOUS
  <2>4. PICK t \in RegTools : t = Get(n)
    BY <1>2, <2>2
  <2>5. PICK new : new = [old EXCEPT !.picked[n] = t, !.left = @ \ {n}, !.at = at]
    OBVIOUS
  <2>6. /\ new.at = at /\ new.chosen = old.chosen /\ new.left = old.left \ {n}
        /\ new.index = old.index /\ new.picked = [old.picked EXCEPT ![n] = t] /\ new \in SelectCalls
    BY <2>2, <2>5 DEF SelectCalls
  <2>7. old.picked \in [ToolNames -> RegTools] /\ old.index \in Indexes /\ old.chosen \subseteq ToolNames
    BY DEF SelectCalls
  <2>8. /\ new.picked[n] = t /\ t = registry.tools[n]
        /\ \A m \in ToolNames \ {n} : new.picked[m] = old.picked[m]
    BY <1>2, <2>2, <2>4, <2>6, <2>7
  <2>9. t.reg >= old.index[n]
    <3>1. old.index[n] <= registry.tools[n].reg
      BY <1>1, <1>3, <2>2 DEF Past
    <3>2. old.index[n] \in Nat /\ t.reg \in Nat
      BY <2>2, <2>7 DEF Indexes, RegTools
    <3> QED BY <2>8, <3>1, <3>2
  <2>10. Gathered(new)
    <3>1. \A m \in old.chosen \ old.left : old.picked[m].reg >= old.index[m]
      BY <1>1, <1>3 DEF Gathered
    <3>2. ASSUME NEW m \in new.chosen \ new.left PROVE new.picked[m].reg >= new.index[m]
      <4>1. CASE m = n
        BY <2>6, <2>8, <2>9, <4>1
      <4>2. CASE m # n
        BY <2>6, <2>7, <2>8, <3>1, <3>2, <4>2
      <4> QED BY <4>1, <4>2
    <3>3. at = "selected" => old.left = {n}
      BY <1>3, <2>3
    <3>4. new.at = "selected" => new.left = {}
      BY <2>6, <3>3
    <3> QED BY <3>2, <3>4 DEF Gathered
  <2>11. Picks(caller[c], new)
    BY <1>1, <1>3, <2>6, <2>8, <2>10 DEF Picks
  <2>12. SelectBecomes(c, new)
    BY <1>3, <2>1, <2>3, <2>4, <2>5
  <2> QED BY <2>11, <2>12
<1> QED BY <1>5, <1>6, <1>7, <1>8, <1>9 DEF SelectorStep

LEMMA SelectorKeeps ==
    ASSUME RegInv, NEW c \in Selecting, SelectorStep(c)
    PROVE  /\ index' \in {index, caller[c].index}
           /\ registry'.tools = registry.tools /\ registry'.regs = registry.regs
           /\ registry'.debug = registry.debug /\ registry'.views = registry.views
           /\ registry' \in [tools : [ToolNames -> RegTools], views : [ToolNames -> RegTools],
                            debug : BOOLEAN, regs : Nat, uses : Nat, refreshes : Nat]
<1>1. index' \in {index, caller[c].index}
  BY DEF SelectorStep, RefreshBegins, RefreshEnds, SelectBegins, RankTools, GatherTool, Taken
<1>2. UNCHANGED registry \/ registry' = [registry EXCEPT !.refreshes = @ + 1]
  BY DEF SelectorStep, RefreshBegins, RefreshEnds, SelectBegins, RankTools, GatherTool, Taken
<1> QED BY <1>1, <1>2 DEF RegInv, RegTypeOK

LEMMA SelectorInv == ASSUME RegInv, NEW c \in Selecting, SelectorStep(c) PROVE RegInv'
<1>1. PICK r : SelectBecomes(c, r) /\ Picks(caller[c], r)
  BY SelectorPicks
<1>2. /\ r \in SelectCalls /\ caller \in [Selecting -> SelectCalls] /\ index \in Indexes
      /\ caller[c].index \in Indexes /\ caller' = [caller EXCEPT ![c] = r]
  BY <1>1 DEF Picks, SelectBecomes, RegInv, RegTypeOK, SelectCalls
<1>3. caller' \in [Selecting -> SelectCalls] /\ \A d \in Selecting : caller'[d] \in {caller[d], r}
  BY <1>2
<1>4. RegTypeOK'
  BY <1>2, <1>3, SelectorKeeps DEF RegTypeOK
<1>5. ViewsAreFresh' /\ RegsAreCounted'
  BY SelectorKeeps DEF RegInv, ViewsAreFresh, RegsAreCounted
<1>6. /\ Past(index) /\ Past(r.index) /\ Gathered(r)
      /\ \A d \in Selecting : Past(caller[d].index) /\ Gathered(caller[d])
  BY <1>1 DEF RegInv, CallersAreSound, Picks
<1>7. \A n \in ToolNames : index'[n] <= registry'.tools[n].reg
  BY <1>6, SelectorKeeps DEF Past
<1>8. \A d \in Selecting : /\ \A n \in ToolNames : caller'[d].index[n] <= registry'.tools[n].reg
                          /\ Gathered(caller'[d])
  BY <1>3, <1>6, SelectorKeeps DEF Past
<1>9. CallersAreSound'
  BY <1>7, <1>8 DEF CallersAreSound, Past, Gathered
<1> QED BY <1>4, <1>5, <1>9 DEF RegInv

LEMMA RegNextInv == RegInv /\ [RegNext]_regVars => RegInv'
<1> SUFFICES ASSUME RegInv, [RegNext]_regVars PROVE RegInv'
  OBVIOUS
<1>1. CASE UNCHANGED regVars
  BY <1>1 DEF regVars, RegInv, RegTypeOK, ViewsAreFresh, RegsAreCounted, CallersAreSound, Past, Gathered
<1> QED BY <1>1, RegisterInv, EnableDebugInv, UseInv, CloneInv, SelectorInv DEF RegNext, SelectorStep

-----------------------------------------------------------------------------
(* What a step adds to a selection is registered at that moment.           *)
LEMMA PickedAreCurrent ==
    ASSUME RegInv, [RegNext]_regVars, NEW c \in Selecting, NEW n \in ToolNames,
           caller'[c].picked[n] # caller[c].picked[n]
    PROVE  caller'[c].picked[n] \in {NoTool, registry.tools[n]}
<1>1. PICK d \in Selecting : SelectorStep(d)
  BY DEF RegNext, regVars, Register, EnableDebug, Use, Clone, SelectorStep
<1>2. PICK r : SelectBecomes(d, r) /\ Picks(caller[d], r)
  BY <1>1, SelectorPicks
<1>3. caller'[d] = r /\ (c # d => caller'[c] = caller[c])
  BY <1>2 DEF SelectBecomes, RegInv, RegTypeOK
<1> QED BY <1>2, <1>3 DEF Picks

(* The inductive invariant of the registry.                                *)
THEOREM RegistryInvariant == RegSpec => []RegInv
BY RegInitInv, RegNextInv, PTL DEF RegSpec

(* Get and All give out the latest registration with every middleware on   *)
(* it; each tool of a selection was the registered one when it was looked  *)
(* up, and a tool that was ranked is given in that registration or a later *)
(* one (debugWrapped, rebuildWrappedLocked, Use, Select, Refresh).         *)
THEOREM LookupsStayCurrent == RegSpec => LookupsAreCurrent
<1> DEFINE Now ==
        /\ \A n \in ToolNames : Get(n)' = registry'.tools[n]
        /\ \A c \in Selecting, n \in ToolNames :
             /\ caller'[c].picked[n] # caller[c].picked[n]
                  => caller'[c].picked[n] \in {NoTool, registry.tools[n]}
             /\ caller'[c].at = "selected" /\ n \in caller'[c].chosen
                  => caller'[c].picked[n].reg >= caller'[c].index[n]
<1>1. RegInv /\ RegInv' /\ [RegNext]_regVars => [Now]_regVars
  <2> SUFFICES ASSUME RegInv, RegInv', [RegNext]_regVars PROVE Now
    OBVIOUS
  <2>1. ASSUME NEW n \in ToolNames PROVE Get(n)' = registry'.tools[n]
    BY <2>1 DEF RegInv, ViewsAreFresh, Get
  <2>2. ASSUME NEW c \in Selecting, NEW n \in ToolNames,
               caller'[c].at = "selected", n \in caller'[c].chosen
        PROVE  caller'[c].picked[n].reg >= caller'[c].index[n]
    BY <2>2 DEF RegInv, CallersAreSound, Gathered
  <2> QED BY <2>1, <2>2, PickedAreCurrent
<1> HIDE DEF Now
<1>2. RegSpec => [][Now]_regVars
  BY <1>1, RegistryInvariant, PTL DEF RegSpec
<1> QED BY <1>2 DEF Now, LookupsAreCurrent

-----------------------------------------------------------------------------
(***************************************************************************)
(* What the parent stream shows of a task list, for any number of calls    *)
(* and sessions and lists of any length.                                   *)
(***************************************************************************)

StreamTypeOK ==
    /\ tasks \in [Keyed -> Seq([id : Nat, status : Statuses])]
    /\ stream \in [Keyed -> Seq([id : Nat, status : Statuses])]
    /\ disturbed \in [Keyed -> BOOLEAN]
    /\ calling \in [ToolCalls -> [at : {"new", "emit", "send", "returned", "failed"},
                                  list : Seq([id : Nat, status : Statuses])]]

(* Only a call with a session reaches the stream.                          *)
EmittersAreKeyed ==
    \A c \in ToolCalls : calling[c].at \in {"emit", "send"} => KeyOf[c] \in Keyed

(* An undisturbed session has at most one call in progress.                *)
OneAtATime ==
    \A s \in Keyed : ~disturbed[s] =>
        \A c, d \in ToolCalls : c \in InProgress(s) /\ d \in InProgress(s) => c = d

(* What the one call in progress is about to send is the list as it is.    *)
SendsAreCurrent ==
    \A s \in Keyed : ~disturbed[s] =>
        \A c \in InProgress(s) : calling[c].at = "send" => calling[c].list = tasks[s]

StreamInv ==
    /\ StreamTypeOK /\ EmittersAreKeyed /\ OneAtATime /\ SendsAreCurrent
    /\ ShownListIsCurrent

-----------------------------------------------------------------------------
(* A call that starts, whatever it does to its own session's list, leaves  *)
(* the others and ends up at one place.                                    *)
Begins(c, place) ==
    /\ Starts(c)
    /\ calling' = [calling EXCEPT ![c].at = place]
    /\ \A s \in Keyed \ {KeyOf[c]} : tasks'[s] = tasks[s]
    /\ UNCHANGED stream

LEMMA BeginsKeepsOrder ==
    ASSUME StreamInv, NEW c \in ToolCalls, StreamTypeOK',
           \/ Begins(c, "emit")
           \/ Begins(c, "failed") /\ UNCHANGED tasks
    PROVE  StreamInv'
<1>1. KeyOf[c] \in Keyed /\ calling[c].at = "new"
  BY DEF Begins, Starts, Keyed
<1>2. PICK place \in {"emit", "failed"} :
        /\ Begins(c, place)
        /\ place = "failed" => UNCHANGED tasks
  OBVIOUS
<1>3. calling' = [calling EXCEPT ![c].at = place] /\ UNCHANGED stream
  BY <1>2 DEF Begins
<1>4. /\ calling'[c].at = place
      /\ \A d \in ToolCalls \ {c} : calling'[d] = calling[d]
  BY <1>3 DEF StreamInv, StreamTypeOK
<1>5. /\ disturbed'[KeyOf[c]] = (disturbed[KeyOf[c]] \/ InProgress(KeyOf[c]) # {})
      /\ \A s \in Keyed \ {KeyOf[c]} : disturbed'[s] = disturbed[s] /\ tasks'[s] = tasks[s]
  BY <1>1, <1>2 DEF Begins, Starts, StreamInv, StreamTypeOK
<1>6. /\ InProgress(KeyOf[c])' = InProgress(KeyOf[c]) \cup (IF place = "emit" THEN {c} ELSE {})
      /\ c \notin InProgress(KeyOf[c])
  BY <1>1, <1>2, <1>4 DEF InProgress
<1>7. ASSUME NEW s \in Keyed \ {KeyOf[c]} PROVE InProgress(s)' = InProgress(s) /\ c \notin InProgress(s)
  BY <1>4, <1>7 DEF InProgress
<1>8. EmittersAreKeyed'
  BY <1>1, <1>4 DEF EmittersAreKeyed, StreamInv
<1>9. ASSUME NEW s \in Keyed, ~disturbed'[s]
      PROVE  /\ \A d, e \in ToolCalls : d \in InProgress(s)' /\ e \in InProgress(s)' => d = e
             /\ \A d \in InProgress(s)' : calling'[d].at = "send" => calling'[d].list = tasks'[s]
             /\ InProgress(s)' = {} => stream'[s] = tasks'[s]
  <2>1. CASE s = KeyOf[c]
    <3>1. ~disturbed[s] /\ InProgress(s) = {}
      BY <1>5, <1>9, <2>1
    <3>2. stream[s] = tasks[s]
      BY <3>1 DEF StreamInv, ShownListIsCurrent
    <3> QED BY <1>2, <1>3, <1>4, <1>6, <2>1, <3>1, <3>2
  <2>2. CASE s # KeyOf[c]
    <3>1. ~disturbed[s] /\ tasks'[s] = tasks[s] /\ InProgress(s)' = InProgress(s)
      BY <1>5, <1>7, <1>9, <2>2
    <3>2. \A d \in InProgress(s) : d \in ToolCalls \ {c}
      BY <1>7, <2>2 DEF InProgress
    <3> QED BY <1>3, <1>4, <3>1, <3>2
            DEF StreamInv, OneAtATime, SendsAreCurrent, ShownListIsCurrent
  <2> QED BY <2>1, <2>2
<1> QED BY <1>8, <1>9 DEF StreamInv, OneAtATime, SendsAreCurrent, ShownListIsCurrent

(* A call of the session that touches neither list nor stream.             *)
LEMMA AsideKeepsOrder ==
    ASSUME StreamInv, NEW c \in ToolCalls, calling[c].at = "new",
           NEW place \in {"failed", "returned"},
           calling' = [calling EXCEPT ![c].at = place],
           UNCHANGED <<tasks, stream, disturbed>>
    PROVE  StreamInv'
<1>1. StreamTypeOK'
  BY DEF StreamInv, StreamTypeOK
<1>2. \A d \in ToolCalls : /\ d # c => calling'[d] = calling[d]
                           /\ calling'[c].at = place
  BY DEF StreamInv, StreamTypeOK
<1>3. \A s : InProgress(s)' = InProgress(s) /\ c \notin InProgress(s)
  BY <1>2 DEF InProgress
<1>4. \A s : \A d \in InProgress(s) : d \in ToolCalls /\ d # c
  BY <1>3 DEF InProgress
<1> QED BY <1>1, <1>2, <1>3, <1>4
        DEF StreamInv, EmittersAreKeyed, OneAtATime, SendsAreCurrent, ShownListIsCurrent

-----------------------------------------------------------------------------
LEMMA StreamInitInv == ToolsInit => StreamInv
BY DEF ToolsInit, StreamInv, StreamTypeOK, EmittersAreKeyed, OneAtATime, SendsAreCurrent,
       ShownListIsCurrent, InProgress

LEMMA CreateInv == ASSUME StreamInv, NEW c \in ToolCalls, Create(c) PROVE StreamInv'
<1>1. KeyOf[c] \in Keyed
  BY DEF Create, Starts, Keyed
<1>2. tasks[KeyOf[c]] \in Seq([id : Nat, status : Statuses])
  BY <1>1 DEF StreamInv, StreamTypeOK
<1>3. [id |-> Len(tasks[KeyOf[c]]) + 1, status |-> "pending"] \in [id : Nat, status : Statuses]
  BY <1>2 DEF Statuses
<1>4. Append(tasks[KeyOf[c]], [id |-> Len(tasks[KeyOf[c]]) + 1, status |-> "pending"])
        \in Seq([id : Nat, status : Statuses])
  BY <1>2, <1>3
<1>5. StreamTypeOK'
  BY <1>1, <1>4 DEF Create, Starts, Stands, StreamInv, StreamTypeOK
<1>6. Begins(c, "emit")
  BY DEF Create, Begins, Stands, StreamInv, StreamTypeOK
<1> QED BY <1>5, <1>6, BeginsKeepsOrder

LEMMA UpdateInv == ASSUME StreamInv, NEW c \in ToolCalls, Update(c) PROVE StreamInv'
<1> DEFINE T == [id : Nat, status : Statuses]
<1>1. KeyOf[c] \in Keyed
  BY DEF Update, Starts, Keyed
<1>2. PICK id \in 1 .. MaxTasks, status \in Statuses :
         IF \E i \in DOMAIN tasks[KeyOf[c]] : tasks[KeyOf[c]][i].id = id
         THEN /\ tasks' = [tasks EXCEPT ![KeyOf[c]] = [i \in DOMAIN @ |->
                    IF @[i].id = id THEN [@[i] EXCEPT !.status = status] ELSE @[i]]]
              /\ Stands(c, "emit")
         ELSE UNCHANGED tasks /\ Stands(c, "failed")
  BY DEF Update
<1>3. Starts(c) /\ UNCHANGED stream
  BY DEF Update
<1>4. CASE UNCHANGED tasks /\ Stands(c, "failed")
  <2>1. StreamTypeOK'
    BY <1>1, <1>3, <1>4 DEF Starts, Stands, StreamInv, StreamTypeOK
  <2>2. Begins(c, "failed")
    BY <1>3, <1>4 DEF Begins, Stands
  <2> QED BY <1>4, <2>1, <2>2, BeginsKeepsOrder
<1>5. CASE /\ tasks' = [tasks EXCEPT ![KeyOf[c]] = [i \in DOMAIN @ |->
                    IF @[i].id = id THEN [@[i] EXCEPT !.status = status] ELSE @[i]]]
           /\ Stands(c, "emit")
  <2> DEFINE q == tasks[KeyOf[c]]
             u == [i \in DOMAIN q |-> IF q[i].id = id THEN [q[i] EXCEPT !.status = status] ELSE q[i]]
  <2>1. q \in Seq(T)
    BY <1>1 DEF StreamInv, StreamTypeOK
  <2>2. tasks' = [tasks EXCEPT ![KeyOf[c]] = u]
    BY <1>1, <1>5 DEF StreamInv, StreamTypeOK
  <2> HIDE DEF q, T
  <2>3. DOMAIN q = 1 .. Len(q) /\ Len(q) \in Nat /\ \A i \in 1 .. Len(q) : q[i] \in T
    BY <2>1
  <2>4. \A i \in 1 .. Len(q) : u[i] \in T
    BY <2>3 DEF T
  <2>5. u \in [1 .. Len(q) -> T]
    BY <2>3, <2>4
  <2>6. u \in Seq(T)
    BY <2>3, <2>5
  <2> HIDE DEF u
  <2>7. StreamTypeOK'
    BY <1>1, <1>3, <1>5, <2>2, <2>6 DEF T, Starts, Stands, StreamInv, StreamTypeOK
  <2>8. Begins(c, "emit")
    BY <1>3, <1>5, <2>2 DEF Begins, Stands, StreamInv, StreamTypeOK
  <2> QED BY <2>7, <2>8, BeginsKeepsOrder
<1> QED BY <1>2, <1>4, <1>5

LEMMA ListInv == ASSUME StreamInv, NEW c \in ToolCalls, List(c) PROVE StreamInv'
<1>1. StreamTypeOK'
  BY DEF List, Starts, Stands, Keyed, StreamInv, StreamTypeOK
<1>2. Begins(c, "emit")
  BY DEF List, Begins, Stands
<1> QED BY <1>1, <1>2, BeginsKeepsOrder

LEMMA EmitInv == ASSUME StreamInv, NEW c \in ToolCalls, emitTaskList(c) PROVE StreamInv'
<1>1. KeyOf[c] \in Keyed
  BY DEF emitTaskList, StreamInv, EmittersAreKeyed
<1>2. StreamTypeOK'
  BY <1>1 DEF emitTaskList, StreamInv, StreamTypeOK
<1>3. /\ calling'[c].at = "send" /\ calling'[c].list = tasks[KeyOf[c]] /\ calling[c].at = "emit"
      /\ \A d \in ToolCalls : d # c => calling'[d] = calling[d]
      /\ UNCHANGED <<tasks, stream, disturbed>>
  BY DEF emitTaskList, StreamInv, StreamTypeOK
<1>4. \A s : InProgress(s)' = InProgress(s)
  BY <1>3 DEF InProgress
<1>5. EmittersAreKeyed'
  BY <1>1, <1>3 DEF StreamInv, EmittersAreKeyed
<1>6. OneAtATime' /\ ShownListIsCurrent'
  BY <1>3, <1>4 DEF StreamInv, OneAtATime, ShownListIsCurrent
<1>7. SendsAreCurrent'
  <2>1. ASSUME NEW s \in Keyed, ~disturbed[s], NEW d \in InProgress(s), calling'[d].at = "send"
        PROVE  calling'[d].list = tasks[s]
    <3>1. d \in ToolCalls /\ KeyOf[d] = s
      BY <2>1 DEF InProgress
    <3> QED BY <1>3, <2>1, <3>1 DEF StreamInv, SendsAreCurrent
  <2> QED BY <1>3, <1>4, <2>1 DEF SendsAreCurrent
<1> QED BY <1>2, <1>5, <1>6, <1>7 DEF StreamInv

LEMMA SendInv == ASSUME StreamInv, NEW c \in ToolCalls, Send(c) PROVE StreamInv'
<1>1. KeyOf[c] \in Keyed
  BY DEF Send, StreamInv, EmittersAreKeyed
<1>2. calling[c].list \in Seq([id : Nat, status : Statuses])
  BY DEF StreamInv, StreamTypeOK
<1>3. StreamTypeOK'
  BY <1>1, <1>2 DEF Send, Stands, StreamInv, StreamTypeOK
<1>4. /\ calling[c].at = "send" /\ calling'[c].at = "returned"
      /\ \A d \in ToolCalls : d # c => calling'[d] = calling[d]
      /\ UNCHANGED tasks
  BY DEF Send, Stands, StreamInv, StreamTypeOK
<1>5. /\ c \in InProgress(KeyOf[c])
      /\ \A s : InProgress(s)' = InProgress(s) \ {c}
      /\ \A s : s # KeyOf[c] => c \notin InProgress(s)
  BY <1>4 DEF InProgress
<1>6. EmittersAreKeyed'
  BY <1>4 DEF StreamInv, EmittersAreKeyed
<1>7. ASSUME NEW s \in Keyed, ~disturbed'[s]
      PROVE  ~disturbed[s] /\ stream'[s] = IF s = KeyOf[c] THEN calling[c].list ELSE stream[s]
  BY <1>1, <1>7 DEF Send, StreamInv, StreamTypeOK
<1>8. ASSUME NEW s \in Keyed, ~disturbed'[s]
      PROVE  /\ \A d, e \in ToolCalls : d \in InProgress(s)' /\ e \in InProgress(s)' => d = e
             /\ \A d \in InProgress(s)' : calling'[d].at = "send" => calling'[d].list = tasks'[s]
             /\ InProgress(s)' = {} => stream'[s] = tasks'[s]
  <2>1. ~disturbed[s] /\ stream'[s] = IF s = KeyOf[c] THEN calling[c].list ELSE stream[s]
    BY <1>7, <1>8
  <2>2. \A d, e \in ToolCalls : d \in InProgress(s) /\ e \in InProgress(s) => d = e
    BY <2>1 DEF StreamInv, OneAtATime
  <2>3. \A d \in InProgress(s) : calling[d].at = "send" => calling[d].list = tasks[s]
    BY <2>1 DEF StreamInv, SendsAreCurrent
  <2>4. \A d \in InProgress(s)' : d \in InProgress(s) /\ d \in ToolCalls /\ calling'[d] = calling[d]
    BY <1>4, <1>5 DEF InProgress
  <2>5. InProgress(s)' = {} => stream'[s] = tasks'[s]
    <3>1. CASE s = KeyOf[c]
      BY <1>4, <1>5, <2>1, <2>3, <3>1
    <3>2. CASE s # KeyOf[c]
      BY <1>4, <1>5, <2>1, <3>2 DEF StreamInv, ShownListIsCurrent
    <3> QED BY <3>1, <3>2
  <2> QED BY <1>4, <2>2, <2>3, <2>4, <2>5
<1> QED BY <1>3, <1>6, <1>8 DEF StreamInv, OneAtATime, SendsAreCurrent, ShownListIsCurrent

LEMMA StreamNextInv == StreamInv /\ [ToolsNext]_toolVars => StreamInv'
<1> SUFFICES ASSUME StreamInv, [ToolsNext]_toolVars PROVE StreamInv'
  OBVIOUS
<1>1. ASSUME NEW c \in ToolCalls, Refuse(c) PROVE StreamInv'
  BY <1>1, AsideKeepsOrder DEF Refuse, Stands
<1>2. ASSUME NEW c \in ToolCalls, Remember(c) PROVE StreamInv'
  BY <1>2, AsideKeepsOrder DEF Remember, Stands
<1>3. ASSUME NEW c \in ToolCalls, Recall(c) PROVE StreamInv'
  BY <1>3, AsideKeepsOrder DEF Recall, Stands
<1>4. CASE UNCHANGED toolVars
  BY <1>4 DEF toolVars, StreamInv, StreamTypeOK, EmittersAreKeyed, OneAtATime, SendsAreCurrent,
              ShownListIsCurrent, InProgress
<1> QED BY <1>1, <1>2, <1>3, <1>4, CreateInv, UpdateInv, ListInv, EmitInv, SendInv DEF ToolsNext

(* The inductive invariant of the session tools.                           *)
THEOREM StreamInvariant == ToolsSpec => []StreamInv
BY StreamInitInv, StreamNextInv, PTL DEF ToolsSpec

(* The last task list a stream received is the store's once its session's  *)
(* calls have returned, unless two of them overlapped or a send was        *)
(* dropped (emitTaskList).                                                 *)
THEOREM ShownListStaysCurrent == ToolsSpec => []ShownListIsCurrent
<1>1. StreamInv => ShownListIsCurrent
  BY DEF StreamInv
<1> QED BY <1>1, StreamInvariant, PTL

-----------------------------------------------------------------------------
(***************************************************************************)
(* What the middleware around a tool does to its calls, for any number of  *)
(* calls, interval and budget.  lastCall is at least every start there has *)
(* been, so a call that reads it waits an interval after all of them; a    *)
(* context has its own timeout as its cause only after the whole budget.   *)
(***************************************************************************)

MwCall == [at : {"new", "limit", "waits", "runs", "over"}, outer : Int, wake : Int, read : Int,
           after : SUBSET MwCalls, started : Int, cause : {"none", "own", "outer"},
           err : {"none", "invalid", "cancelled", "timeout", "tool's"}]

MwTypeOK == clock \in Nat /\ lastCall \in Int /\ mw \in [MwCalls -> MwCall]

(* lastCall is the latest start, and a call starts once. *)
StartsInv ==
    /\ lastCall <= clock
    /\ \A c \in MwCalls :
          /\ mw[c].started <= lastCall
          /\ mw[c].at \in {"new", "limit", "waits"} => mw[c].started = Never
          /\ \A d \in mw[c].after : mw[d].at \in {"runs", "over"}

(* A call waits an interval after what it read, and what it read was later *)
(* than the starts before it.                                              *)
SpacedInv ==
    \A c \in MwCalls :
        /\ mw[c].at = "waits" =>
              mw[c].wake = mw[c].read + Interval /\ \A d \in mw[c].after : mw[d].started <= mw[c].read
        /\ mw[c].at # "waits" /\ Ran(c) =>
              \A d \in mw[c].after : mw[c].started >= mw[d].started + Interval

HadBudget(c) ==
    clock >= mw[c].started + OwnBudget /\ mw[c].outer > mw[c].started + OwnBudget

BudgetUsedInv ==
    \A c \in MwCalls :
        /\ mw[c].cause = "own" \/ mw[c].err = "timeout" => HadBudget(c)
        /\ mw[c].cause = "own" \/ mw[c].err = "timeout" => mw[c].at \in {"runs", "over"}

MwInv == MwTypeOK /\ StartsInv /\ SpacedInv /\ BudgetUsedInv

LEMMA InitMwInv == MwInit => MwInv
  BY MiddlewareAssumption
     DEF MwInit, MwInv, MwTypeOK, MwCall, StartsInv, SpacedInv, BudgetUsedInv, Ran, Never, NotOver

(* A step of one call that neither starts it nor moves the clock.          *)
LEMMA MwCallStep ==
    ASSUME MwInv, NEW c \in MwCalls, NEW r \in MwCall, Goes(c, r),
           UNCHANGED <<clock, lastCall>>,
           r.started = mw[c].started,
           mw[c].at \in {"runs", "over"} => r.at \in {"runs", "over"},
           r.at \in {"new", "limit", "waits"} => r.started = Never,
           \A d \in r.after : mw[d].at \in {"runs", "over"},
           r.at = "waits" =>
              r.wake = r.read + Interval /\ \A d \in r.after : mw[d].started <= r.read,
           r.at # "waits" /\ r.started # Never =>
              \A d \in r.after : r.started >= mw[d].started + Interval,
           r.cause = "own" \/ r.err = "timeout" =>
              /\ r.at \in {"runs", "over"}
              /\ clock >= r.started + OwnBudget /\ r.outer > r.started + OwnBudget
    PROVE  MwInv'
<1>1. /\ mw' \in [MwCalls -> MwCall] /\ mw'[c] = r
      /\ \A d \in MwCalls : d # c => mw'[d] = mw[d]
  BY DEF Goes, MwInv, MwTypeOK
<1>2. /\ \A d \in MwCalls : mw'[d].started = mw[d].started
      /\ \A d \in MwCalls : mw[d].at \in {"runs", "over"} => mw'[d].at \in {"runs", "over"}
      /\ \A d \in MwCalls : mw[d].after \subseteq MwCalls /\ mw'[d].after \subseteq MwCalls
  BY <1>1 DEF MwInv, MwTypeOK, MwCall
<1>3. MwTypeOK'
  BY <1>1 DEF MwInv, MwTypeOK
<1>4. StartsInv'
  <2> SUFFICES ASSUME NEW d \in MwCalls
               PROVE  /\ mw'[d].started <= lastCall
                      /\ mw'[d].at \in {"new", "limit", "waits"} => mw'[d].started = Never
                      /\ \A e \in mw'[d].after : mw'[e].at \in {"runs", "over"}
    BY DEF MwInv, StartsInv
  <2>1. mw'[d].started <= lastCall
    BY <1>2 DEF MwInv, StartsInv
  <2>2. CASE d = c
    BY <1>1, <1>2, <2>1, <2>2
  <2>3. CASE d # c
    BY <1>1, <1>2, <2>1, <2>3 DEF MwInv, StartsInv
  <2> QED BY <2>2, <2>3
<1>5. SpacedInv'
  <2> SUFFICES ASSUME NEW d \in MwCalls
               PROVE  /\ mw'[d].at = "waits" =>
                           /\ mw'[d].wake = mw'[d].read + Interval
                           /\ \A e \in mw'[d].after : mw'[e].started <= mw'[d].read
                      /\ mw'[d].at # "waits" /\ mw'[d].started # Never =>
                           \A e \in mw'[d].after : mw'[d].started >= mw'[e].started + Interval
    BY DEF SpacedInv, Ran, Never
  <2>1. CASE d = c
    BY <1>1, <1>2, <2>1
  <2>2. CASE d # c
    BY <1>1, <1>2, <2>2 DEF MwInv, SpacedInv, Ran
  <2> QED BY <2>1, <2>2
<1>6. BudgetUsedInv'
  BY <1>1 DEF MwInv, BudgetUsedInv, HadBudget
<1> QED BY <1>3, <1>4, <1>5, <1>6 DEF MwInv

(* What the invariant says of one call. *)
LEMMA MwCallFacts ==
    ASSUME MwInv, NEW c \in MwCalls
    PROVE  /\ mw[c] \in MwCall /\ clock \in Nat /\ lastCall \in Int
           /\ mw[c].at \in {"new", "limit", "waits"} => mw[c].started = Never
           /\ mw[c].at \in {"new", "limit", "waits"} => mw[c].cause # "own" /\ mw[c].err # "timeout"
           /\ \A d \in mw[c].after : mw[d].at \in {"runs", "over"}
           /\ mw[c].started <= lastCall /\ lastCall <= clock
           /\ mw[c].at = "waits" =>
                mw[c].wake = mw[c].read + Interval
                   /\ \A d \in mw[c].after : mw[d].started <= mw[c].read
           /\ mw[c].at # "waits" /\ mw[c].started # Never =>
                \A d \in mw[c].after : mw[c].started >= mw[d].started + Interval
           /\ mw[c].cause = "own" \/ mw[c].err = "timeout" =>
                clock >= mw[c].started + OwnBudget /\ mw[c].outer > mw[c].started + OwnBudget
  BY DEF MwInv, MwTypeOK, StartsInv, SpacedInv, BudgetUsedInv, HadBudget, Ran

LEMMA SchemaStep ==
    ASSUME MwInv, NEW c \in MwCalls, WithSchemaValidation(c) PROVE MwInv'
<1>1. PICK outer \in clock..NotOver, bad \in {"invalid", "none"} :
         Goes(c, [mw[c] EXCEPT !.outer = outer, !.err = bad,
                               !.at = IF bad = "none" THEN "limit" ELSE "over"])
  BY DEF WithSchemaValidation
<1> DEFINE r == [mw[c] EXCEPT !.outer = outer, !.err = bad,
                              !.at = IF bad = "none" THEN "limit" ELSE "over"]
<1>2. /\ mw[c] \in MwCall /\ mw[c].at = "new" /\ UNCHANGED <<clock, lastCall>>
      /\ mw[c].started = Never /\ mw[c].cause # "own" /\ clock \in Nat
  BY MwCallFacts DEF WithSchemaValidation
<1>3. /\ r \in MwCall /\ r.at \in {"limit", "over"} /\ r.started = mw[c].started
      /\ r.after = mw[c].after /\ r.cause = mw[c].cause /\ r.err # "timeout"
  <2>1. outer \in Int
    BY <1>2, MiddlewareAssumption DEF NotOver
  <2> QED BY <1>2, <2>1 DEF MwCall
<1>4. Goes(c, r)
  BY <1>1
<1>5. \A d \in mw[c].after : mw[d].at \in {"runs", "over"}
  BY MwCallFacts
<1> HIDE DEF r
<1> QED BY <1>2, <1>3, <1>4, <1>5, MwCallStep

LEMMA ReadStep ==
    ASSUME MwInv, NEW c \in MwCalls, ReadLimit(c) PROVE MwInv'
<1> DEFINE r == [mw[c] EXCEPT !.at = "waits", !.wake = lastCall + Interval, !.read = lastCall,
                              !.after = {d \in MwCalls : Ran(d)}]
<1>1. /\ mw[c] \in MwCall /\ mw[c].at = "limit" /\ UNCHANGED <<clock, lastCall>>
      /\ mw[c].started = Never /\ mw[c].cause # "own" /\ mw[c].err # "timeout"
      /\ lastCall \in Int /\ Interval \in Nat
  BY MwCallFacts, MiddlewareAssumption DEF ReadLimit
<1>2. /\ r \in MwCall /\ r.at = "waits" /\ r.started = mw[c].started /\ r.cause = mw[c].cause
      /\ r.err = mw[c].err /\ r.wake = r.read + Interval /\ r.read = lastCall
      /\ r.after = {d \in MwCalls : Ran(d)}
  <2>1. lastCall + Interval \in Int /\ {d \in MwCalls : Ran(d)} \in SUBSET MwCalls
    BY <1>1
  <2>2. r \in MwCall
    BY <1>1, <2>1 DEF MwCall
  <2>3. r.at = "waits" /\ r.wake = lastCall + Interval /\ r.read = lastCall
    BY <1>1 DEF MwCall
  <2>4. r.after = {d \in MwCalls : Ran(d)}
    BY <1>1 DEF MwCall
  <2>5. r.started = mw[c].started /\ r.cause = mw[c].cause /\ r.err = mw[c].err
    BY <1>1 DEF MwCall
  <2> QED BY <2>2, <2>3, <2>4, <2>5
<1>3. Goes(c, r)
  BY DEF ReadLimit
<1>4. \A d \in r.after : mw[d].at \in {"runs", "over"} /\ mw[d].started <= r.read
  <2> SUFFICES ASSUME NEW d \in MwCalls, Ran(d)
               PROVE  mw[d].at \in {"runs", "over"} /\ mw[d].started <= lastCall
    BY <1>2
  <2>1. mw[d] \in MwCall
    BY MwCallFacts
  <2> QED BY <2>1, MwCallFacts DEF Ran, MwCall
<1> HIDE DEF r
<1> QED BY <1>1, <1>2, <1>3, <1>4, MwCallStep

LEMMA ProceedStep ==
    ASSUME MwInv, NEW c \in MwCalls, Proceeds(c) PROVE MwInv'
<1> DEFINE r == [mw[c] EXCEPT !.at = "runs", !.started = clock,
                              !.cause = IF OuterDone(c) THEN "outer" ELSE "none"]
<1>1. /\ mw[c] \in MwCall /\ mw[c].at = "waits" /\ clock' = clock /\ lastCall' = clock
      /\ clock >= mw[c].wake /\ mw[c].wake = mw[c].read + Interval
      /\ mw[c].started = Never /\ mw[c].err # "timeout"
      /\ lastCall \in Int /\ clock \in Nat /\ lastCall <= clock /\ Interval \in Nat
  BY MwCallFacts, MiddlewareAssumption DEF Proceeds, Stamped
<1>2. /\ r \in MwCall /\ r.at = "runs" /\ r.started = clock /\ r.cause # "own"
      /\ r.err = mw[c].err /\ r.after = mw[c].after
  <2>1. PICK k \in {"outer", "none"} :
           r = [mw[c] EXCEPT !.at = "runs", !.started = clock, !.cause = k]
    BY Zenon
  <2> HIDE DEF r
  <2>2. r \in MwCall
    <3>1. mw[c] \in MwCall /\ clock \in Int
      BY <1>1
    <3> QED BY ONLY <2>1, <3>1 DEF MwCall
  <2>3. r.at = "runs" /\ r.started = clock /\ r.cause = k
    BY <1>1, <2>1 DEF MwCall
  <2>4. r.err = mw[c].err /\ r.after = mw[c].after
    BY <1>1, <2>1 DEF MwCall
  <2> QED BY <2>2, <2>3, <2>4
<1>3. mw' = [mw EXCEPT ![c] = r]
  BY DEF Proceeds, Goes
<1> HIDE DEF r
<1>4. /\ mw' \in [MwCalls -> MwCall] /\ mw'[c] = r
      /\ \A d \in MwCalls : d # c => mw'[d] = mw[d]
  BY <1>2, <1>3 DEF MwInv, MwTypeOK
<1>5. ASSUME NEW d \in MwCalls
      PROVE  /\ mw[d] \in MwCall /\ mw[d].after \subseteq MwCalls /\ c \notin mw[d].after
             /\ \A e \in mw[d].after : mw'[e] = mw[e]
  <2>1. mw[d] \in MwCall
    BY MwCallFacts
  <2>2. \A e \in mw[d].after : mw[e].at \in {"runs", "over"}
    BY MwCallFacts
  <2> QED BY <1>1, <1>4, <2>1, <2>2 DEF MwCall
<1>6. MwTypeOK'
  BY <1>1, <1>4 DEF MwTypeOK
<1>7. StartsInv'
  <2> SUFFICES ASSUME NEW d \in MwCalls
               PROVE  /\ mw'[d].started <= clock
                      /\ mw'[d].at \in {"new", "limit", "waits"} => mw'[d].started = Never
                      /\ \A e \in mw'[d].after : mw'[e].at \in {"runs", "over"}
    BY <1>1 DEF StartsInv, Never
  <2>1. CASE d = c
    <3>1. \A e \in mw[c].after : mw[e].at \in {"runs", "over"}
      BY MwCallFacts
    <3> QED BY <1>1, <1>2, <1>4, <1>5, <2>1, <3>1
  <2>2. CASE d # c
    <3>1. /\ mw[d].started <= lastCall /\ mw[d].started \in Int
          /\ mw[d].at \in {"new", "limit", "waits"} => mw[d].started = Never
          /\ \A e \in mw[d].after : mw[e].at \in {"runs", "over"}
      BY MwCallFacts, <1>5 DEF MwCall
    <3> QED BY <1>1, <1>4, <1>5, <2>2, <3>1
  <2> QED BY <2>1, <2>2
<1>8. SpacedInv'
  <2> SUFFICES ASSUME NEW d \in MwCalls
               PROVE  /\ mw'[d].at = "waits" =>
                           /\ mw'[d].wake = mw'[d].read + Interval
                           /\ \A e \in mw'[d].after : mw'[e].started <= mw'[d].read
                      /\ mw'[d].at # "waits" /\ mw'[d].started # Never =>
                           \A e \in mw'[d].after : mw'[d].started >= mw'[e].started + Interval
    BY DEF SpacedInv, Ran, Never
  <2>1. CASE d = c
    <3>1. \A e \in mw[c].after : mw[e].started <= mw[c].read /\ mw[e].started \in Int
      BY <1>1, <1>5, MwCallFacts DEF MwCall
    <3>2. mw[c].read \in Int
      BY <1>1 DEF MwCall
    <3> QED BY <1>1, <1>2, <1>4, <1>5, <2>1, <3>1, <3>2
  <2>2. CASE d # c
    <3>1. /\ mw[d].at = "waits" =>
                mw[d].wake = mw[d].read + Interval
                   /\ \A e \in mw[d].after : mw[e].started <= mw[d].read
          /\ mw[d].at # "waits" /\ mw[d].started # Never =>
                \A e \in mw[d].after : mw[d].started >= mw[e].started + Interval
      BY MwCallFacts
    <3> QED BY <1>4, <1>5, <2>2, <3>1
  <2> QED BY <2>1, <2>2
<1>9. BudgetUsedInv'
  BY <1>1, <1>2, <1>4 DEF MwInv, BudgetUsedInv, HadBudget
<1> QED BY <1>6, <1>7, <1>8, <1>9 DEF MwInv

LEMMA CancelStep ==
    ASSUME MwInv, NEW c \in MwCalls, WaitCancelled(c) PROVE MwInv'
<1> DEFINE r == [mw[c] EXCEPT !.at = "over", !.err = "cancelled"]
<1>1. /\ mw[c] \in MwCall /\ mw[c].at = "waits" /\ UNCHANGED <<clock, lastCall>>
      /\ mw[c].started = Never /\ mw[c].cause # "own"
      /\ \A d \in mw[c].after : mw[d].at \in {"runs", "over"}
  BY MwCallFacts DEF WaitCancelled
<1>2. /\ r \in MwCall /\ r.at = "over" /\ r.started = mw[c].started /\ r.cause = mw[c].cause
      /\ r.err = "cancelled" /\ r.after = mw[c].after
  BY <1>1 DEF MwCall
<1>3. Goes(c, r)
  BY DEF WaitCancelled
<1> HIDE DEF r
<1> QED BY <1>1, <1>2, <1>3, MwCallStep

LEMMA ReturnStep ==
    ASSUME MwInv, NEW c \in MwCalls, ToolReturns(c) PROVE MwInv'
<1>1. PICK failed \in BOOLEAN :
         Goes(c, [mw[c] EXCEPT !.at = "over",
                               !.err = IF ~failed THEN "none"
                                       ELSE IF TimedOut(c) THEN "timeout" ELSE "tool's"])
  BY DEF ToolReturns
<1> DEFINE r == [mw[c] EXCEPT !.at = "over",
                              !.err = IF ~failed THEN "none"
                                      ELSE IF TimedOut(c) THEN "timeout" ELSE "tool's"]
<1>2. /\ mw[c] \in MwCall /\ mw[c].at = "runs" /\ UNCHANGED <<clock, lastCall>>
      /\ \A d \in mw[c].after : mw[d].at \in {"runs", "over"}
      /\ mw[c].started # Never => \A d \in mw[c].after : mw[c].started >= mw[d].started + Interval
      /\ mw[c].cause = "own" =>
           clock >= mw[c].started + OwnBudget /\ mw[c].outer > mw[c].started + OwnBudget
  BY MwCallFacts DEF ToolReturns
<1>3. /\ r \in MwCall /\ r.at = "over" /\ r.started = mw[c].started /\ r.cause = mw[c].cause
      /\ r.err = "timeout" => mw[c].cause = "own"
      /\ r.after = mw[c].after /\ r.outer = mw[c].outer
  BY <1>2 DEF MwCall, TimedOut
<1>4. Goes(c, r)
  BY <1>1
<1> HIDE DEF r
<1> QED BY <1>2, <1>3, <1>4, MwCallStep

(* A tick ends contexts; the calls stay where they are. *)
LEMMA TickStep == ASSUME MwInv, Tick PROVE MwInv'
<1>1. clock \in Nat /\ clock' = clock + 1 /\ lastCall' = lastCall /\ lastCall \in Int
  BY DEF Tick, MwInv, MwTypeOK
<1>2. ASSUME NEW c \in MwCalls
      PROVE  /\ mw[c] \in MwCall /\ mw'[c] \in MwCall /\ mw[c].after \subseteq MwCalls
             /\ mw'[c].at = mw[c].at /\ mw'[c].started = mw[c].started
             /\ mw'[c].wake = mw[c].wake /\ mw'[c].read = mw[c].read
             /\ mw'[c].after = mw[c].after /\ mw'[c].outer = mw[c].outer
             /\ mw'[c].err = mw[c].err
             /\ mw'[c].cause = "own" => \/ mw[c].cause = "own"
                                        \/ /\ mw[c].outer > clock'
                                           /\ mw[c].started + OwnBudget <= clock'
                                           /\ mw[c].at = "runs"
  <2>1. mw[c] \in MwCall /\ OwnBudget \in Nat
    BY MwCallFacts, MiddlewareAssumption
  <2>2. \/ mw'[c] = mw[c]
        \/ mw'[c] = [mw[c] EXCEPT !.cause = "outer"]
        \/ /\ mw'[c] = [mw[c] EXCEPT !.cause = "own"]
           /\ ~(mw[c].outer <= clock') /\ mw[c].started + OwnBudget <= clock'
           /\ mw[c].at = "runs"
    BY DEF Tick
  <2>3. CASE mw'[c] = mw[c]
    BY <2>1, <2>3 DEF MwCall
  <2>4. CASE mw'[c] = [mw[c] EXCEPT !.cause = "outer"]
    BY <2>1, <2>4 DEF MwCall
  <2>5. CASE /\ mw'[c] = [mw[c] EXCEPT !.cause = "own"]
             /\ ~(mw[c].outer <= clock') /\ mw[c].started + OwnBudget <= clock'
             /\ mw[c].at = "runs"
    <3>1. mw[c].outer \in Int /\ clock' \in Int /\ mw[c].outer > clock'
      BY <1>1, <2>1, <2>5 DEF MwCall
    <3> QED BY <2>1, <2>5, <3>1 DEF MwCall
  <2> QED BY <2>2, <2>3, <2>4, <2>5
<1>3. MwTypeOK'
  <2>1. DOMAIN mw' = MwCalls /\ mw' = [c \in MwCalls |-> mw'[c]]
    BY DEF Tick
  <2> QED BY <1>1, <1>2, <2>1 DEF MwTypeOK
<1>4. StartsInv'
  <2> SUFFICES ASSUME NEW c \in MwCalls
               PROVE  /\ mw'[c].started <= lastCall
                      /\ mw'[c].at \in {"new", "limit", "waits"} => mw'[c].started = Never
                      /\ \A d \in mw'[c].after : mw'[d].at \in {"runs", "over"}
    BY <1>1 DEF MwInv, StartsInv, Never
  <2> QED BY <1>2 DEF MwInv, StartsInv
<1>5. SpacedInv'
  <2> SUFFICES ASSUME NEW d \in MwCalls
               PROVE  /\ mw'[d].at = "waits" =>
                           /\ mw'[d].wake = mw'[d].read + Interval
                           /\ \A e \in mw'[d].after : mw'[e].started <= mw'[d].read
                      /\ mw'[d].at # "waits" /\ mw'[d].started # Never =>
                           \A e \in mw'[d].after : mw'[d].started >= mw'[e].started + Interval
    BY DEF SpacedInv, Ran, Never
  <2>1. /\ mw[d].at = "waits" =>
              mw[d].wake = mw[d].read + Interval
                 /\ \A e \in mw[d].after : mw[e].started <= mw[d].read
        /\ mw[d].at # "waits" /\ mw[d].started # Never =>
              \A e \in mw[d].after : mw[d].started >= mw[e].started + Interval
    BY MwCallFacts
  <2> QED BY <1>2, <2>1
<1>6. BudgetUsedInv'
  <2> SUFFICES ASSUME NEW c \in MwCalls, mw'[c].cause = "own" \/ mw'[c].err = "timeout"
               PROVE  /\ clock' >= mw[c].started + OwnBudget
                      /\ mw[c].outer > mw[c].started + OwnBudget
                      /\ mw[c].at \in {"runs", "over"}
    BY <1>2 DEF BudgetUsedInv, HadBudget
  <2>1. mw[c].started \in Int /\ mw[c].outer \in Int /\ OwnBudget \in Nat
    BY <1>2, MiddlewareAssumption DEF MwCall
  <2>2. CASE mw[c].cause = "own" \/ mw[c].err = "timeout"
    BY <1>1, <2>1, <2>2 DEF MwInv, BudgetUsedInv, HadBudget
  <2>3. CASE ~(mw[c].cause = "own" \/ mw[c].err = "timeout")
    BY <1>1, <1>2, <2>1, <2>3
  <2> QED BY <2>2, <2>3
<1> QED BY <1>3, <1>4, <1>5, <1>6 DEF MwInv

LEMMA MwNextInv == MwInv /\ [MwNext]_mwVars => MwInv'
<1> SUFFICES ASSUME MwInv, [MwNext]_mwVars PROVE MwInv'
  OBVIOUS
<1>1. CASE UNCHANGED mwVars
  BY <1>1 DEF mwVars, MwInv, MwTypeOK, StartsInv, SpacedInv, BudgetUsedInv, HadBudget, Ran
<1> QED BY <1>1, SchemaStep, ReadStep, ProceedStep, CancelStep, ReturnStep, TickStep DEF MwNext

(***************************************************************************)
(* A call that came to the limiter after another had started runs at least *)
(* an interval after it, and a call reported as timed out had its whole    *)
(* budget, with its caller still waiting (WithRateLimit, WithTimeout).     *)
(***************************************************************************)
THEOREM MiddlewareStaysFair == MwSpec => []MiddlewareIsFair
<1>1. MwInv => MiddlewareIsFair
  <2> SUFFICES ASSUME MwInv, NEW c \in MwCalls
               PROVE  /\ Ran(c) => \A d \in mw[c].after : mw[c].started >= mw[d].started + Interval
                      /\ mw[c].err = "timeout" =>
                            /\ clock >= mw[c].started + OwnBudget
                            /\ mw[c].outer > mw[c].started + OwnBudget
    BY DEF MiddlewareIsFair, LaterCallsAreSpaced, TimeoutsAreOwn
  <2>1. mw[c] \in MwCall
    BY MwCallFacts
  <2> QED BY <2>1, MwCallFacts DEF Ran, MwCall
<1> QED BY <1>1, InitMwInv, MwNextInv, PTL DEF MwSpec

-----------------------------------------------------------------------------
(***************************************************************************)
(* The vote of call_sql_agent, for any number of runs and of results.  A   *)
(* run that is done has no statement open, so the reply, made when all are *)
(* done, stands on captures that no longer change.                         *)
(***************************************************************************)

Run == [at : {"seed", "runs", "done"}, session : BOOLEAN, run : Nat, open : SUBSET Nat,
        capture : Results \union {0}, blocked : {"no", "denied", "timeout"},
        text : {"none", "text", "denied", "timeout"}]

(* A run that is done stands: no call is open, and its block is its text.  *)
RunsStand ==
    \A i \in Candidates :
        /\ cand[i].at # "runs" => cand[i].open = {}
        /\ cand[i].at = "done" /\ cand[i].blocked # "no" => cand[i].text = cand[i].blocked

ReplyStands ==
    reply # NoReply =>
        /\ \A i \in Candidates : cand[i].at = "done"
        /\ reply.from \in Candidates
        /\ ReplyStandsOnVote

SqlInv == cand \in [Candidates -> Run] /\ RunsStand /\ ReplyStands

LEMMA InitSqlInv == SqlInit => SqlInv
  BY DEF SqlInit, SqlInv, RunsStand, ReplyStands, Run

-----------------------------------------------------------------------------
LEMMA FirstOf ==
    ASSUME NEW S \in SUBSET Candidates, S # {}
    PROVE  First(S) \in S
<1>1. S \in SUBSET Nat
  BY SqlAgentAssumption
<1>2. \E i \in S : \A j \in S : i <= j
  BY <1>1, LeastNatural
<1> QED BY <1>2 DEF First

(* Groups of runs can be counted. *)
LEMMA GroupSize ==
    ASSUME NEW S \in SUBSET Candidates
    PROVE  IsFiniteSet(S) /\ Cardinality(S) \in Nat /\ Cardinality(S) <= Cardinality(Candidates)
           /\ Cardinality(Candidates) \in Nat
  BY SqlAgentAssumption, FS_Subset, FS_CardinalityType

(* There is a largest cluster when there is one at all. *)
LEMMA LargestCluster ==
    ASSUME Clustered # {}
    PROVE  \E i \in Clustered : \A j \in Clustered : Cardinality(Cluster(j)) <= Cardinality(Cluster(i))
<1> DEFINE n == Cardinality(Candidates)
           missing(i) == n - Cardinality(Cluster(i))
           T == {missing(i) : i \in Clustered}
<1>1. \A i \in Clustered : Cluster(i) \in SUBSET Candidates
  BY DEF Clustered, Cluster
<1>2. \A i \in Clustered : /\ Cardinality(Cluster(i)) \in Nat /\ n \in Nat
                           /\ Cardinality(Cluster(i)) <= n
  BY <1>1, GroupSize
<1>3. T \in SUBSET Nat /\ T # {}
  BY <1>2
<1>4. PICK m \in T : \A k \in T : m <= k
  <2> HIDE DEF T
  <2> QED BY <1>3, LeastNatural
<1>5. PICK i \in Clustered : m = missing(i)
  BY <1>4
<1>6. ASSUME NEW j \in Clustered PROVE Cardinality(Cluster(j)) <= Cardinality(Cluster(i))
  <2>1. missing(i) <= missing(j)
    BY <1>4, <1>5
  <2> QED BY <1>2, <2>1
<1> QED BY <1>6

LEMMA WinnerIsFair ==
    ASSUME cand \in [Candidates -> Run], NEW w, w = pickByMajority
    PROVE  /\ w \in Candidates
           /\ \A r \in Results : Cardinality(Agreeing(r)) <= Cardinality(Agreeing(cand[w].capture))
           /\ cand[w].capture = 0 => \A r \in Results : Agreeing(r) = {}
<1>1. /\ \A r : Agreeing(r) \in SUBSET Candidates
      /\ \A r : Cardinality(Agreeing(r)) \in Nat
      /\ 0 \notin Results
  <2>1. \A r : Agreeing(r) \in SUBSET Candidates
    BY DEF Agreeing
  <2>2. \A r : Cardinality(Agreeing(r)) \in Nat
    BY <2>1, GroupSize
  <2> QED BY <2>1, <2>2, SqlAgentAssumption
<1>2. Cardinality({}) = 0
  BY FS_EmptySet
<1>3. CASE Clustered = {}
  <2>1. w = First(Candidates)
    BY <1>3 DEF pickByMajority
  <2>2. w \in Candidates
    BY <2>1, FirstOf, SqlAgentAssumption
  <2>3. \A r \in Results : Agreeing(r) = {}
    BY <1>1, <1>3 DEF Agreeing, Clustered
  <2> QED BY <1>1, <1>2, <2>2, <2>3
<1>4. CASE Clustered # {}
  <2> DEFINE S == {i \in Clustered :
                     \A j \in Clustered : Cardinality(Cluster(j)) <= Cardinality(Cluster(i))}
  <2>1. w = First(S)
    BY <1>4 DEF pickByMajority
  <2>2. S \in SUBSET Candidates /\ S # {}
    BY <1>4, LargestCluster DEF Clustered
  <2>3. w \in S
    <3> HIDE DEF S
    <3> QED BY <2>1, <2>2, FirstOf
  <2>4. \A i \in Clustered : Cluster(i) = Agreeing(cand[i].capture)
    BY DEF Clustered, Cluster, Agreeing
  <2>5. cand[w].capture # 0 /\ w \in Clustered /\ w \in Candidates
    BY <2>3 DEF Clustered
  <2>6. ASSUME NEW r \in Results
        PROVE  Cardinality(Agreeing(r)) <= Cardinality(Agreeing(cand[w].capture))
    <3>1. CASE Agreeing(r) = {}
      BY <1>1, <1>2, <3>1
    <3>2. CASE Agreeing(r) # {}
      <4>1. PICK j \in Candidates : cand[j].capture = r
        BY <3>2 DEF Agreeing
      <4>2. j \in Clustered
        BY <1>1, <4>1 DEF Clustered
      <4>3. Cardinality(Cluster(j)) <= Cardinality(Cluster(w))
        BY <2>3, <4>2
      <4> QED BY <2>4, <2>5, <4>1, <4>2, <4>3
    <3> QED BY <3>1, <3>2
  <2> QED BY <2>5, <2>6
<1> QED BY <1>3, <1>4

-----------------------------------------------------------------------------
(* A step of a run that is not done. *)
LEMMA RunStep ==
    ASSUME SqlInv, NEW i \in Candidates, NEW c \in Run, ReplyBecomes(i, c),
           cand[i].at # "done",
           c.at # "runs" => c.open = {},
           c.at = "done" /\ c.blocked # "no" => c.text = c.blocked
    PROVE  SqlInv'
<1>1. /\ cand' \in [Candidates -> Run] /\ cand'[i] = c /\ reply' = reply
      /\ \A j \in Candidates : j # i => cand'[j] = cand[j]
  BY DEF ReplyBecomes, SqlInv
<1>2. reply = NoReply
  BY DEF SqlInv, ReplyStands
<1> QED BY <1>1, <1>2 DEF SqlInv, RunsStand, ReplyStands

LEMMA SqlNextInv == SqlInv /\ [SqlNext]_sqlVars => SqlInv'
<1> SUFFICES ASSUME SqlInv, [SqlNext]_sqlVars PROVE SqlInv'
  OBVIOUS
<1>1. \A i \in Candidates : cand[i] \in Run /\ (cand[i].at # "runs" => cand[i].open = {})
  BY DEF SqlInv, RunsStand
<1>2. ASSUME NEW i \in Candidates, Seed(i) PROVE SqlInv'
  <2> DEFINE c == [cand[i] EXCEPT !.at = "runs", !.session = TRUE]
  <2>1. c \in Run /\ c.at = "runs" /\ cand[i].at # "done" /\ ReplyBecomes(i, c)
    BY <1>1, <1>2 DEF Seed, Run
  <2> HIDE DEF c
  <2> QED BY <2>1, RunStep
<1>3. ASSUME NEW i \in Candidates, Issue(i) PROVE SqlInv'
  <2> DEFINE c == [cand[i] EXCEPT !.run = @ + 1, !.open = @ \union {cand[i].run + 1}]
  <2>1. c \in Run /\ c.at = "runs" /\ cand[i].at # "done" /\ ReplyBecomes(i, c)
    <3>1. cand[i] \in Run /\ cand[i].at = "runs" /\ ReplyBecomes(i, c)
      BY <1>1, <1>3 DEF Issue
    <3>2. cand[i].run + 1 \in Nat /\ cand[i].open \union {cand[i].run + 1} \in SUBSET Nat
      BY <3>1 DEF Run
    <3>3. c \in Run
      BY <3>1, <3>2 DEF Run
    <3>4. c.at = "runs"
      BY <3>1 DEF Run
    <3> QED BY <3>1, <3>3, <3>4
  <2> HIDE DEF c
  <2> QED BY <2>1, RunStep
<1>4. ASSUME NEW i \in Candidates, NEW one \in cand[i].open,
             ReadSucceeds(i, one) \/ EndsWithout(i, one) \/ Blocked(i, one)
      PROVE  SqlInv'
  <2>1. cand[i] \in Run /\ cand[i].at = "runs"
    BY <1>1
  <2>2. CASE ReadSucceeds(i, one)
    <3>1. PICK r \in Results :
             ReplyBecomes(i, [cand[i] EXCEPT !.open = @ \ {one}, !.capture = r])
      BY <2>2 DEF ReadSucceeds
    <3> DEFINE c == [cand[i] EXCEPT !.open = @ \ {one}, !.capture = r]
    <3>2. c \in Run /\ c.at = "runs" /\ ReplyBecomes(i, c)
      BY <2>1, <3>1 DEF Run
    <3> HIDE DEF c
    <3> QED BY <2>1, <3>2, RunStep
  <2>3. CASE EndsWithout(i, one)
    <3> DEFINE c == [cand[i] EXCEPT !.open = @ \ {one}]
    <3>1. c \in Run /\ c.at = "runs" /\ ReplyBecomes(i, c)
      BY <2>1, <2>3 DEF Run, EndsWithout
    <3> HIDE DEF c
    <3> QED BY <2>1, <3>1, RunStep
  <2>4. CASE Blocked(i, one)
    <3>1. PICK why \in {"denied", "timeout"} :
             ReplyBecomes(i, [cand[i] EXCEPT !.open = @ \ {one}, !.blocked = why])
      BY <2>4 DEF Blocked
    <3> DEFINE c == [cand[i] EXCEPT !.open = @ \ {one}, !.blocked = why]
    <3>2. c \in Run /\ c.at = "runs" /\ ReplyBecomes(i, c)
      BY <2>1, <3>1 DEF Run
    <3> HIDE DEF c
    <3> QED BY <2>1, <3>2, RunStep
  <2> QED BY <1>4, <2>2, <2>3, <2>4
<1>5. ASSUME NEW i \in Candidates, SqlAnswers(i) PROVE SqlInv'
  <2>1. PICK words \in {"none", "text"}, left \in BOOLEAN :
           ReplyBecomes(i, [cand[i] EXCEPT !.at = "done", !.session = left,
                                           !.text = Reported(cand[i], words)])
    BY <1>5 DEF SqlAnswers
  <2> DEFINE c == [cand[i] EXCEPT !.at = "done", !.session = left,
                                  !.text = Reported(cand[i], words)]
  <2>2. cand[i] \in Run /\ cand[i].at = "runs" /\ cand[i].open = {}
    BY <1>1, <1>5 DEF SqlAnswers
  <2>3. c \in Run /\ c.at = "done" /\ c.open = {} /\ (c.blocked # "no" => c.text = c.blocked)
    BY <2>2 DEF Run, Reported
  <2>4. ReplyBecomes(i, c)
    BY <2>1
  <2> HIDE DEF c
  <2> QED BY <2>2, <2>3, <2>4, RunStep
<1>6. CASE Return
  <2> DEFINE w == pickByMajority
  <2>1. /\ \A i \in Candidates : cand[i].at = "done"
        /\ cand' = cand
        /\ reply' = IF cand[w].text = "none"
                    THEN [from |-> w, text |-> "no response", structured |-> 0]
                    ELSE [from |-> w, text |-> cand[w].text, structured |-> cand[w].capture]
    BY <1>6 DEF Return
  <2>2. PICK v : v = w
    OBVIOUS
  <2>3. /\ v \in Candidates
        /\ \A r \in Results : Cardinality(Agreeing(r)) <= Cardinality(Agreeing(cand[v].capture))
        /\ cand[v].capture = 0 => \A r \in Results : Agreeing(r) = {}
    <3>1. cand \in [Candidates -> Run] /\ v = pickByMajority
      BY <2>2 DEF SqlInv
    <3> HIDE DEF w
    <3> QED BY <3>1, WinnerIsFair
  <2>4. /\ reply'.from = v
        /\ reply'.structured \in {0, cand[v].capture}
        /\ cand[v].text # "none" => reply'.text = cand[v].text
    BY <2>1, <2>2
  <2>5. cand[v].blocked # "no" => reply'.text = cand[v].blocked
    BY <2>1, <2>3, <2>4, <1>1 DEF SqlInv, RunsStand, Run
  <2>6. ReplyStandsOnVote'
    BY <2>1, <2>3, <2>4, <2>5 DEF ReplyStandsOnVote, Agreeing
  <2> QED BY <2>1, <2>3, <2>4, <2>6 DEF SqlInv, RunsStand, ReplyStands
<1>7. CASE UNCHANGED sqlVars
  BY <1>7 DEF sqlVars, SqlInv, RunsStand, ReplyStands, ReplyStandsOnVote, Agreeing
<1> QED BY <1>2, <1>3, <1>4, <1>5, <1>6, <1>7 DEF SqlNext

(***************************************************************************)
(* Whatever the runs do and in whatever order: no result was reached by    *)
(* more runs than the one behind the reply, and the answer, the structured *)
(* result and the report of a block are the same run's (pickByMajority,    *)
(* sqlAgentResult, hitlBlockedReport).                                     *)
(***************************************************************************)
THEOREM RepliesStandOnVotes == SqlSpec => []ReplyStandsOnVote
<1>1. SqlInv => ReplyStandsOnVote
  BY DEF SqlInv, ReplyStands, ReplyStandsOnVote
<1> QED BY <1>1, InitSqlInv, SqlNextInv, PTL DEF SqlSpec

-----------------------------------------------------------------------------
(***************************************************************************)
(* The MySQL session manager with no Compactor, for any number of keys,    *)
(* messages, failed statements and restarts.  Rows whose number the        *)
(* manager knows are as many as that, and all but the last of them are     *)
(* those of the log in the cache: what a save does not rewrite is right.   *)
(***************************************************************************)

Logs == Seq(Nat)
RowTypeOK ==
    /\ mode \in {"none", "json", "rows"} /\ written \in Nat
    /\ cache \in [RowKeys -> [in : BOOLEAN, msgs : Logs, tasks : Nat]]
    /\ known \in [RowKeys -> Nat] /\ msgRows \in [RowKeys -> Logs]
    /\ table \in [RowKeys -> [in : BOOLEAN, msgs : Logs, tasks : Nat, deleted : BOOLEAN]]
    /\ acked \in [RowKeys -> [ok : BOOLEAN, msgs : Logs]]

NothingYet(k) ==
    ~cache[k].in /\ known[k] = 0 /\ msgRows[k] = <<>> /\ ~table[k].in /\ ~acked[k].ok

RowsAreKnown(k) == known[k] = 0 \/ Len(msgRows[k]) = known[k]

RowsBegin(k, s) ==
    known[k] <= Len(s) => \A i \in 1 .. known[k] - 1 : msgRows[k][i] = s[i]

AckedIsStored(k) ==
    acked[k].ok =>
        /\ table[k].in
        /\ k \notin torn /\ k \notin emptied =>
              Stored(k) = acked[k].msgs /\ (cache[k].in => cache[k].msgs = acked[k].msgs)

RowsAreGood(k) ==
    /\ mode = "none" => NothingYet(k)
    /\ ~cache[k].in => cache[k].msgs = <<>>
    /\ mode = "rows" /\ k \notin torn =>
          /\ RowsAreKnown(k) /\ RowsBegin(k, cache[k].msgs)
          /\ Outdated(k) => cache[k].msgs = <<>>
    /\ AckedIsStored(k)

RowInv == RowTypeOK /\ \A k \in RowKeys : RowsAreGood(k)

-----------------------------------------------------------------------------
(* The rows a save writes.                                                 *)

LEMMA OverlayType ==
    ASSUME NEW old \in Logs, NEW from \in Nat \ {0}, NEW new \in Logs
    PROVE  /\ Overlay(old, from, new) \in Logs
           /\ from + Len(new) - 1 <= Len(old) => Len(Overlay(old, from, new)) = Len(old)
           /\ \A i \in 1 .. Len(old) :
                 i < from => Overlay(old, from, new)[i] = old[i]
<1> DEFINE m == IF Len(old) > from + Len(new) - 1 THEN Len(old) ELSE from + Len(new) - 1
           At(i) == IF i \in from .. from + Len(new) - 1 THEN new[i - from + 1]
                    ELSE IF i <= Len(old) THEN old[i] ELSE 0
<1>1. Overlay(old, from, new) = [i \in 1 .. m |-> At(i)]
  BY DEF Overlay
<1>2. m \in Nat /\ Len(old) \in Nat /\ Len(new) \in Nat /\ Len(old) <= m
  BY DEF Logs
<1>3. ASSUME NEW i \in 1 .. m PROVE At(i) \in Nat
  <2>1. CASE i \in from .. from + Len(new) - 1
    <3>1. i - from + 1 \in 1 .. Len(new)
      BY <1>2, <2>1
    <3>2. new[i - from + 1] \in Nat
      BY <3>1, ElementOfSeq DEF Logs
    <3> QED BY <2>1, <3>2
  <2>2. CASE i \notin from .. from + Len(new) - 1 /\ i <= Len(old)
    <3>1. i \in 1 .. Len(old)
      BY <1>2, <2>2
    <3>2. old[i] \in Nat
      BY <3>1, ElementOfSeq DEF Logs
    <3> QED BY <2>2, <3>2
  <2>3. CASE i \notin from .. from + Len(new) - 1 /\ ~(i <= Len(old))
    BY <2>3
  <2> QED BY <2>1, <2>2, <2>3
<1>4. PICK l \in Nat : l = m
  BY <1>2
<1>5. PICK r : r = [i \in 1 .. l |-> At(i)]
  OBVIOUS
<1>6. r \in [1 .. l -> Nat]
  BY <1>3, <1>4, <1>5
<1>7. r \in Logs /\ Len(r) = l
  <2>1. r \in Seq(Nat) /\ DOMAIN r = 1 .. l
    BY ONLY l \in Nat, <1>6
  <2>2. Len(r) = l
    BY ONLY l \in Nat, <2>1, LenProperties
  <2> QED BY <2>1, <2>2 DEF Logs
<1>8. ASSUME NEW i \in 1 .. Len(old), i < from PROVE r[i] = old[i]
  <2>1. i \in 1 .. l /\ i \notin from .. from + Len(new) - 1 /\ i <= Len(old)
    BY <1>2, <1>4, <1>8
  <2>2. r[i] = At(i) /\ At(i) = old[i]
    BY <1>5, <2>1
  <2> QED BY <2>2
<1> QED BY <1>1, <1>2, <1>4, <1>5, <1>7, <1>8

(* What is written from a position on is the rest of the log. *)
LEMMA OverlayCompletes ==
    ASSUME NEW old \in Logs, NEW s \in Logs, NEW from \in 1 .. Len(s) + 1, Len(old) <= Len(s),
           \A i \in 1 .. from - 1 : i <= Len(old) /\ old[i] = s[i]
    PROVE  Overlay(old, from, SubSeq(s, from, Len(s))) = s
<1>1. PICK n \in Nat : n = Len(s)
  BY DEF Logs
<1>2. Len(old) \in Nat /\ from \in Int /\ n \in Int /\ \A i \in from .. n : s[i] \in Nat
  BY <1>1 DEF Logs
<1>3. /\ SubSeq(s, from, n) \in Seq(Nat)
      /\ Len(SubSeq(s, from, n)) = IF from <= n THEN n - from + 1 ELSE 0
      /\ \A i \in 1 .. n - from + 1 : SubSeq(s, from, n)[i] = s[from + i - 1]
  BY ONLY <1>2, SubSeqProperties
<1>4. PICK t : t = SubSeq(s, from, n)
  OBVIOUS
<1>5. /\ Len(t) = n - from + 1 /\ from + Len(t) - 1 = n
      /\ \A i \in 1 .. n - from + 1 : t[i] = s[from + i - 1]
  BY <1>1, <1>2, <1>3, <1>4
<1>6. Overlay(old, from, t)
        = [i \in 1 .. n |-> IF i \in from .. n THEN t[i - from + 1]
                            ELSE IF i <= Len(old) THEN old[i] ELSE 0]
  BY <1>1, <1>2, <1>5 DEF Overlay
<1>7. ASSUME NEW i \in 1 .. n PROVE Overlay(old, from, t)[i] = s[i]
  <2>1. CASE i \in from .. n
    <3>1. i - from + 1 \in 1 .. n - from + 1 /\ from + (i - from + 1) - 1 = i
      BY <1>1, <1>2, <2>1
    <3> QED BY <1>5, <1>6, <2>1, <3>1
  <2>2. CASE i \notin from .. n
    <3>1. i \in 1 .. from - 1
      BY <1>1, <1>2, <2>2
    <3> QED BY <1>6, <2>2, <3>1
  <2> QED BY <2>1, <2>2
<1>8. s \in [1 .. n -> Nat]
  BY <1>1 DEF Logs
<1> QED BY <1>1, <1>4, <1>6, <1>7, <1>8

LEMMA TruncatedType ==
    ASSUME NEW old \in Logs, NEW n \in Nat, NEW c \in Nat
    PROVE  /\ Truncated(old, n, c) \in Logs
           /\ n < c /\ n < Len(old) => Len(Truncated(old, n, c)) = n
<1>1. CASE n < c /\ n < Len(old)
  <2>1. 1 \in Int /\ n \in Int /\ \A i \in 1 .. n : old[i] \in Nat
    BY <1>1 DEF Logs
  <2>2. SubSeq(old, 1, n) \in Seq(Nat) /\ Len(SubSeq(old, 1, n)) = IF 1 <= n THEN n - 1 + 1 ELSE 0
    BY ONLY <2>1, SubSeqProperties
  <2>3. PICK t : t = SubSeq(old, 1, n)
    OBVIOUS
  <2>4. t \in Logs /\ Len(t) = n
    BY <2>2, <2>3 DEF Logs
  <2> QED BY <1>1, <2>3, <2>4 DEF Truncated
<1>2. CASE ~(n < c /\ n < Len(old))
  BY <1>2 DEF Truncated
<1> QED BY <1>1, <1>2

LEMMA SavedRowsType ==
    ASSUME NEW old \in Logs, NEW s \in Logs, NEW c \in Nat
    PROVE  SavedRows(old, s, c) \in Logs
<1>1. Len(s) \in Nat /\ From(Len(s), c) \in Nat \ {0} /\ From(Len(s), c) \in 1 .. Len(s) + 1
  BY DEF Logs, From
<1>2. Truncated(old, Len(s), c) \in Logs
  BY <1>1, TruncatedType
<1>3. PICK n \in Nat : n = Len(s)
  BY <1>1
<1>4. PICK f \in Nat \ {0} : f = From(Len(s), c)
  BY <1>1
<1>5. f \in Int /\ n \in Int /\ \A i \in f .. n : s[i] \in Nat
  BY <1>3 DEF Logs
<1>6. SubSeq(s, f, n) \in Logs
  BY ONLY <1>5, SubSeqProperties DEF Logs
<1> QED BY <1>2, <1>3, <1>4, <1>6, OverlayType DEF SavedRows

(* A save that knows how many rows there are leaves the log it was given. *)
LEMMA SavedRowsAreTheLog ==
    ASSUME NEW old \in Logs, NEW s \in Logs, NEW c \in Nat,
           c = 0 => Len(old) <= Len(s), c > 0 => Len(old) = c,
           c < Len(s) => \A i \in 1 .. c - 1 : old[i] = s[i]
    PROVE  SavedRows(old, s, c) = s
<1>1. Len(s) \in Nat /\ Len(old) \in Nat
  BY DEF Logs
<1>2. PICK t \in Logs : t = Truncated(old, Len(s), c)
  BY <1>1, TruncatedType
<1>3. PICK f \in 1 .. Len(s) + 1 : f = From(Len(s), c)
  BY <1>1 DEF From
<1>4. SavedRows(old, s, c) = Overlay(t, f, SubSeq(s, f, Len(s)))
  BY <1>2, <1>3 DEF SavedRows
<1>5. Len(t) <= Len(s)
  <2>1. CASE Len(s) < c
    BY <1>1, <1>2, <2>1, TruncatedType
  <2>2. CASE ~(Len(s) < c)
    BY <1>1, <1>2, <2>2 DEF Truncated
  <2> QED BY <2>1, <2>2
<1>6. \A i \in 1 .. f - 1 : i <= Len(t) /\ t[i] = s[i]
  <2>1. CASE c > 0 /\ c < Len(s)
    <3>1. t = old /\ f = c
      BY <1>1, <1>2, <1>3, <2>1 DEF Truncated, From
    <3> QED BY <1>1, <2>1, <3>1
  <2>2. CASE ~(c > 0 /\ c < Len(s))
    <3>1. f = 1
      BY <1>3, <2>2 DEF From
    <3> QED BY <3>1
  <2> QED BY <2>1, <2>2
<1> QED BY <1>4, <1>5, <1>6, OverlayCompletes

-----------------------------------------------------------------------------
(* What a save changes of the session it is for, and of no other.          *)

\* The rows agree with the log as far as this save will not write them.
Fits(k, s) ==
    mode = "rows" /\ k \notin torn =>
        /\ RowsAreKnown(k)
        /\ known[k] > 0 /\ known[k] <= Len(s) /\ (known[k] < Len(s) \/ ~Outdated(k)) =>
              \A i \in 1 .. known[k] - 1 : msgRows[k][i] = s[i]

\* And so they do when it is over.
SavedFits(k, s) ==
    mode = "rows" /\ k \notin torn =>
        /\ RowsAreKnown(k)
        /\ known[k] > 0 => known[k] <= Len(s) /\ \A i \in 1 .. known[k] - 1 : msgRows[k][i] = s[i]

Others(k) ==
    \A j \in RowKeys : j # k =>
        /\ known'[j] = known[j] /\ msgRows'[j] = msgRows[j] /\ table'[j] = table[j]
        /\ acked'[j] = acked[j] /\ (j \in torn' <=> j \in torn)
        /\ j \in emptied' <=> j \in emptied

RowsTyped ==
    /\ known \in [RowKeys -> Nat] /\ msgRows \in [RowKeys -> Logs]
    /\ table \in [RowKeys -> [in : BOOLEAN, msgs : Logs, tasks : Nat, deleted : BOOLEAN]]

LEMMA UpsertedType ==
    ASSUME RowTypeOK, NEW k \in RowKeys, NEW s \in Logs, NEW n \in Nat, table' = Upserted(k, s, n)
    PROVE  /\ table' \in [RowKeys -> [in : BOOLEAN, msgs : Logs, tasks : Nat, deleted : BOOLEAN]]
           /\ \A j \in RowKeys : j # k => table'[j] = table[j]
           /\ table'[k].in /\ (mode = "json" => table'[k].msgs = s)
<1> DEFINE old == table[k]
           new == [old EXCEPT !.in = TRUE, !.tasks = n, !.msgs = IF mode = "rows" THEN @ ELSE s]
<1>2. old \in [in : BOOLEAN, msgs : Logs, tasks : Nat, deleted : BOOLEAN]
  BY DEF RowTypeOK
<1>1. table' = [table EXCEPT ![k] = new]
  BY <1>2 DEF Upserted, RowTypeOK
<1>3. /\ new \in [in : BOOLEAN, msgs : Logs, tasks : Nat, deleted : BOOLEAN]
      /\ new.in /\ (mode = "json" => new.msgs = s)
  BY <1>2
<1> HIDE DEF new
<1> QED BY <1>1, <1>3 DEF RowTypeOK

(* The rows of a save that got as far as the session row. *)
LEMMA RowsSaved ==
    ASSUME RowTypeOK, NEW k \in RowKeys, NEW s \in Logs, Fits(k, s), mode = "rows",
           msgRows' = [msgRows EXCEPT ![k] = SavedRows(@, s, known[k])],
           known' = [known EXCEPT ![k] = Len(s)],
           torn' = IF Uninformed(k, s) THEN torn \union {k} ELSE torn
    PROVE  /\ known' \in [RowKeys -> Nat] /\ msgRows' \in [RowKeys -> Logs]
           /\ \A j \in RowKeys : j # k => /\ known'[j] = known[j] /\ msgRows'[j] = msgRows[j]
                                          /\ j \in torn' <=> j \in torn
           /\ known'[k] = Len(s) /\ (k \notin torn' => msgRows'[k] = s)
<1>1. known[k] \in Nat /\ msgRows[k] \in Logs /\ Len(s) \in Nat /\ Len(msgRows[k]) \in Nat
  BY DEF RowTypeOK, Logs
<1>2. PICK new \in Logs : new = SavedRows(msgRows[k], s, known[k])
  BY <1>1, SavedRowsType
<1>3. msgRows' = [msgRows EXCEPT ![k] = new]
  BY <1>2
<1>4. ASSUME k \notin torn' PROVE new = s
  <2>1. k \notin torn /\ ~Uninformed(k, s)
    BY <1>4
  <2>2. known[k] = 0 => Len(msgRows[k]) <= Len(s)
    BY <1>1, <2>1 DEF Uninformed
  <2>3. known[k] > 0 => Len(msgRows[k]) = known[k]
    BY <1>1, <2>1 DEF Fits, RowsAreKnown
  <2>4. known[k] < Len(s) => \A i \in 1 .. known[k] - 1 : msgRows[k][i] = s[i]
    BY <1>1, <2>1 DEF Fits
  <2>5. PICK c \in Nat, old \in Logs : c = known[k] /\ old = msgRows[k]
    BY <1>1
  <2> QED BY <1>2, <2>2, <2>3, <2>4, <2>5, SavedRowsAreTheLog
<1>5. known' \in [RowKeys -> Nat] /\ msgRows' \in [RowKeys -> Logs]
  BY <1>1, <1>3 DEF RowTypeOK
<1>6. known'[k] = Len(s) /\ msgRows'[k] = new
  BY <1>3 DEF RowTypeOK
<1>7. \A j \in RowKeys : j # k => known'[j] = known[j] /\ msgRows'[j] = msgRows[j]
  BY <1>3 DEF RowTypeOK
<1> QED BY <1>4, <1>5, <1>6, <1>7

(* The rows of a save of which a statement on them failed. *)
LEMMA RowsPartlySaved ==
    ASSUME RowTypeOK, NEW k \in RowKeys, NEW s \in Logs, Fits(k, s), mode = "rows",
           NEW rows \in PartialRows(msgRows[k], s, known[k]), known' = known,
           msgRows' = [msgRows EXCEPT ![k] = rows],
           torn' = IF Len(s) < known[k] \/ Outdated(k) THEN torn \union {k} ELSE torn
    PROVE  /\ msgRows' \in [RowKeys -> Logs]
           /\ \A j \in RowKeys : j # k => msgRows'[j] = msgRows[j] /\ (j \in torn' <=> j \in torn)
           /\ SavedFits(k, s)'
           /\ k \notin torn' /\ msgRows[k] = s => msgRows'[k] = s
<1>1. known[k] \in Nat /\ msgRows[k] \in Logs /\ Len(s) \in Nat /\ Len(msgRows[k]) \in Nat
  BY DEF RowTypeOK, Logs
<1>2. PICK c \in Nat : c = known[k]
  BY <1>1
<1>3. PICK old \in Logs : old = msgRows[k]
  BY <1>1
<1>4. \/ rows = old \/ rows = Truncated(old, Len(s), c)
      \/ c > 0 /\ c < Len(s) /\ rows = Overlay(old, c, <<s[c]>>)
  BY <1>2, <1>3 DEF PartialRows
<1>5. ASSUME c > 0, c < Len(s)
      PROVE  /\ Overlay(old, c, <<s[c]>>) \in Logs
             /\ Len(old) = c =>
                   /\ Len(Overlay(old, c, <<s[c]>>)) = c
                   /\ \A i \in 1 .. c - 1 : Overlay(old, c, <<s[c]>>)[i] = old[i]
  <2>1. s[c] \in Nat
    BY <1>1, <1>5, ElementOfSeq DEF Logs
  <2>2. PICK new \in Logs : new = <<s[c]>> /\ Len(new) = 1
    <3>1. PICK v \in Nat : v = s[c]
      BY <2>1
    <3>2. <<v>> \in Seq(Nat) /\ Len(<<v>>) = 1
      OBVIOUS
    <3> QED BY <3>1, <3>2 DEF Logs
  <2>3. c \in Nat \ {0} /\ c + Len(new) - 1 = c
    BY <1>5, <2>2
  <2>4. PICK o : o = Overlay(old, c, new)
    OBVIOUS
  <2>5. /\ o \in Logs /\ (c <= Len(old) => Len(o) = Len(old))
        /\ \A i \in 1 .. Len(old) : i < c => o[i] = old[i]
    BY <2>3, <2>4, OverlayType
  <2>6. Len(old) = c => Len(o) = c /\ \A i \in 1 .. c - 1 : o[i] = old[i]
    BY <2>5
  <2> QED BY <2>2, <2>4, <2>5, <2>6
<1>6. rows \in Logs
  BY <1>1, <1>4, <1>5, TruncatedType
<1>7. ASSUME k \notin torn'
      PROVE  /\ c = 0 \/ Len(rows) = c
             /\ c > 0 => c <= Len(s) /\ \A i \in 1 .. c - 1 : rows[i] = s[i]
             /\ old = s => rows = s
  <2>1. k \notin torn /\ ~(Len(s) < c) /\ ~Outdated(k)
    BY <1>2, <1>7
  <2>2. /\ c = 0 \/ Len(old) = c
        /\ c > 0 => c <= Len(s) /\ \A i \in 1 .. c - 1 : old[i] = s[i]
    BY <1>1, <1>2, <1>3, <2>1 DEF Fits, RowsAreKnown
  <2>3. Truncated(old, Len(s), c) = old
    BY <2>1 DEF Truncated
  <2>4. CASE rows = old
    BY <2>2, <2>4
  <2>5. CASE c > 0 /\ c < Len(s) /\ rows = Overlay(old, c, <<s[c]>>)
    <3>1. Len(old) = c
      BY <2>2, <2>5
    <3>2. Len(rows) = c /\ \A i \in 1 .. c - 1 : rows[i] = old[i]
      BY <1>5, <2>5, <3>1
    <3>3. old # s
      BY <2>5, <3>1
    <3> QED BY <2>2, <2>5, <3>2, <3>3
  <2> QED BY <1>4, <2>3, <2>4, <2>5
<1>8. msgRows'[k] = rows /\ msgRows' \in [RowKeys -> Logs]
      /\ \A j \in RowKeys : j # k => msgRows'[j] = msgRows[j]
  BY <1>6 DEF RowTypeOK
<1>9. SavedFits(k, s)'
  BY <1>2, <1>7, <1>8 DEF SavedFits, RowsAreKnown
<1> QED BY <1>3, <1>7, <1>8, <1>9

-----------------------------------------------------------------------------
(* The steps.                                                              *)

LEMMA RowStays ==
    ASSUME NEW k, RowsAreGood(k), mode' = mode, cache'[k] = cache[k], known'[k] = known[k],
           msgRows'[k] = msgRows[k], table'[k] = table[k], acked'[k] = acked[k],
           k \in torn' <=> k \in torn, k \in emptied' <=> k \in emptied
    PROVE  RowsAreGood(k)'
  BY DEF RowsAreGood, NothingYet, RowsAreKnown, RowsBegin, AckedIsStored, Outdated, Stored

LEMMA RowSaved ==
    ASSUME RowInv, NEW k \in RowKeys, NEW s, RowTypeOK', Others(k),
           mode' = mode, mode # "none", cache'[k].in, cache'[k].msgs = s,
           \A j \in RowKeys : j # k => cache'[j] = cache[j],
           SavedFits(k, s)', AckedIsStored(k)'
    PROVE  RowInv'
<1>1. RowsAreGood(k)'
  <2>1. Len(s) \in Nat /\ known'[k] \in Nat
    BY DEF RowTypeOK, Logs
  <2> QED BY <2>1 DEF RowsAreGood, RowsAreKnown, RowsBegin, Outdated, SavedFits
<1>2. ASSUME NEW j \in RowKeys, j # k PROVE RowsAreGood(j)'
  BY <1>2, RowStays DEF RowInv, Others
<1> QED BY <1>1, <1>2 DEF RowInv

LEMMA EmptyTypes ==
    /\ Uncached \in [in : BOOLEAN, msgs : Logs, tasks : Nat]
    /\ NoRow \in [in : BOOLEAN, msgs : Logs, tasks : Nat, deleted : BOOLEAN]
    /\ Unknown \in [ok : BOOLEAN, msgs : Logs]
    /\ ~Uncached.in /\ Uncached.msgs = <<>> /\ ~NoRow.in /\ ~Unknown.ok
  BY DEF Uncached, NoRow, Unknown, Logs

LEMMA PersistOKStep ==
    ASSUME RowInv, NEW k \in RowKeys, NEW s \in Logs, NEW n \in Nat, Fits(k, s),
           mode' = mode, mode # "none", written' \in Nat,
           cache' \in [RowKeys -> [in : BOOLEAN, msgs : Logs, tasks : Nat]],
           cache'[k].in, cache'[k].msgs = s,
           \A j \in RowKeys : j # k => cache'[j] = cache[j],
           \A j \in RowKeys : j # k => (j \in emptied' <=> j \in emptied),
           PersistOK(k, s, n), acked' \in [RowKeys -> [ok : BOOLEAN, msgs : Logs]],
           \A j \in RowKeys : j # k => acked'[j] = acked[j],
           acked'[k].ok /\ k \notin torn /\ k \notin emptied' => acked'[k].msgs = s
    PROVE  RowInv'
<1>1. RowTypeOK /\ mode \in {"json", "rows"} /\ Len(s) \in Nat
  BY DEF RowInv, RowTypeOK, Logs
<1>2. /\ table' \in [RowKeys -> [in : BOOLEAN, msgs : Logs, tasks : Nat, deleted : BOOLEAN]]
      /\ \A j \in RowKeys : j # k => table'[j] = table[j]
      /\ table'[k].in /\ (mode = "json" => table'[k].msgs = s)
  BY <1>1, UpsertedType DEF PersistOK
<1>3. k \notin torn' => k \notin torn
  BY DEF PersistOK
<1>4. CASE mode = "rows"
  <2>1. /\ known' \in [RowKeys -> Nat] /\ msgRows' \in [RowKeys -> Logs]
        /\ \A j \in RowKeys : j # k => /\ known'[j] = known[j] /\ msgRows'[j] = msgRows[j]
                                       /\ j \in torn' <=> j \in torn
        /\ known'[k] = Len(s) /\ (k \notin torn' => msgRows'[k] = s)
    BY <1>1, <1>4, RowsSaved DEF PersistOK
  <2>2. RowTypeOK' /\ Others(k)
    BY <1>1, <1>2, <2>1 DEF RowTypeOK, Others
  <2>3. AckedIsStored(k)'
    <3>1. k \notin torn' => Stored(k)' = s
      BY <1>2, <1>4, <2>1 DEF Stored
    <3>2. acked'[k].ok /\ k \notin torn' /\ k \notin emptied' =>
             Stored(k)' = acked'[k].msgs /\ cache'[k].msgs = acked'[k].msgs
      BY <1>3, <3>1
    <3> QED BY <1>2, <3>2 DEF AckedIsStored
  <2>4. SavedFits(k, s)'
    BY <1>1, <2>1 DEF SavedFits, RowsAreKnown
  <2> QED BY <1>1, <1>4, <2>1, <2>2, <2>3, <2>4, RowSaved
<1>5. CASE mode = "json"
  <2>1. RowTypeOK' /\ Others(k)
    BY <1>1, <1>2, <1>5 DEF RowTypeOK, Others, PersistOK
  <2>2. AckedIsStored(k)'
    BY <1>2, <1>3, <1>5 DEF AckedIsStored, Stored
  <2>3. SavedFits(k, s)'
    BY <1>5 DEF SavedFits
  <2> QED BY <1>5, <2>1, <2>2, <2>3, RowSaved
<1> QED BY <1>1, <1>4, <1>5

LEMMA PersistFailsStep ==
    ASSUME RowInv, NEW k \in RowKeys, NEW s \in Logs, Fits(k, s),
           mode' = mode, mode # "none", written' \in Nat,
           cache' \in [RowKeys -> [in : BOOLEAN, msgs : Logs, tasks : Nat]],
           cache'[k].in, cache'[k].msgs = s,
           \A j \in RowKeys : j # k => cache'[j] = cache[j],
           \A j \in RowKeys : j # k => (j \in emptied' <=> j \in emptied),
           PersistFails(k, s), acked' \in [RowKeys -> [ok : BOOLEAN, msgs : Logs]],
           \A j \in RowKeys : j # k => acked'[j] = acked[j],
           acked'[k].ok => acked'[k] = acked[k] /\ (k \in emptied => k \in emptied'),
           acked'[k].ok /\ k \notin torn /\ k \notin emptied' => acked'[k].msgs = s
    PROVE  RowInv'
<1>1. RowTypeOK /\ mode \in {"json", "rows"} /\ Len(s) \in Nat /\ table' = table
  BY DEF RowInv, RowTypeOK, Logs, PersistFails
<1>2. k \notin torn' => k \notin torn
  BY DEF PersistFails
<1>3. ASSUME mode = "rows" /\ k \notin torn' /\ msgRows[k] = s => msgRows'[k] = s
      PROVE  AckedIsStored(k)'
  <2> SUFFICES ASSUME acked'[k].ok
               PROVE  /\ table'[k].in
                      /\ k \notin torn' /\ k \notin emptied' =>
                            Stored(k)' = acked'[k].msgs /\ cache'[k].msgs = acked'[k].msgs
    BY DEF AckedIsStored
  <2>1. /\ acked[k].ok /\ acked'[k] = acked[k] /\ table[k].in
        /\ k \notin torn /\ k \notin emptied => Stored(k) = acked[k].msgs
    BY DEF RowInv, RowsAreGood, AckedIsStored
  <2>2. ASSUME k \notin torn', k \notin emptied'
        PROVE  Stored(k)' = acked'[k].msgs /\ cache'[k].msgs = acked'[k].msgs
    <3>1. Stored(k) = s /\ acked'[k].msgs = s
      BY <1>2, <2>1, <2>2
    <3>2. Stored(k)' = s
      BY <1>1, <1>3, <2>1, <2>2, <3>1 DEF Stored, RowTypeOK, PersistFails
    <3> QED BY <3>1, <3>2
  <2> QED BY <1>1, <2>1, <2>2
<1>4. CASE mode = "json" /\ UNCHANGED <<msgRows, known, torn>>
  <2>1. RowTypeOK' /\ Others(k)
    BY <1>1, <1>2, <1>4 DEF RowTypeOK, Others
  <2>2. SavedFits(k, s)' /\ AckedIsStored(k)'
    BY <1>3, <1>4 DEF SavedFits
  <2> QED BY <2>1, <2>2, RowSaved
<1>5. CASE /\ mode = "rows" /\ known' = known
           /\ \E rows \in PartialRows(msgRows[k], s, known[k]) :
                 msgRows' = [msgRows EXCEPT ![k] = rows]
           /\ torn' = IF Len(s) < known[k] \/ Outdated(k) THEN torn \union {k} ELSE torn
  <2>1. PICK rows \in PartialRows(msgRows[k], s, known[k]) :
           msgRows' = [msgRows EXCEPT ![k] = rows]
    BY <1>5
  <2>2. /\ msgRows' \in [RowKeys -> Logs]
        /\ \A j \in RowKeys : j # k => msgRows'[j] = msgRows[j] /\ (j \in torn' <=> j \in torn)
        /\ SavedFits(k, s)'
        /\ k \notin torn' /\ msgRows[k] = s => msgRows'[k] = s
    BY <1>1, <1>5, <2>1, RowsPartlySaved
  <2>3. RowTypeOK' /\ Others(k)
    BY <1>1, <1>2, <1>5, <2>2 DEF RowTypeOK, Others
  <2>4. AckedIsStored(k)'
    BY <1>3, <2>2
  <2> QED BY <2>2, <2>3, <2>4, RowSaved
<1>6. CASE /\ mode = "rows" /\ known' = [known EXCEPT ![k] = Len(s)]
           /\ msgRows' = [msgRows EXCEPT ![k] = SavedRows(@, s, known[k])]
           /\ torn' = IF Uninformed(k, s) THEN torn \union {k} ELSE torn
  <2>1. /\ known' \in [RowKeys -> Nat] /\ msgRows' \in [RowKeys -> Logs]
        /\ \A j \in RowKeys : j # k => /\ known'[j] = known[j] /\ msgRows'[j] = msgRows[j]
                                       /\ j \in torn' <=> j \in torn
        /\ known'[k] = Len(s) /\ (k \notin torn' => msgRows'[k] = s)
    BY <1>1, <1>6, RowsSaved
  <2>2. RowTypeOK' /\ Others(k)
    BY <1>1, <1>2, <2>1 DEF RowTypeOK, Others
  <2>3. SavedFits(k, s)' /\ AckedIsStored(k)'
    BY <1>1, <1>3, <2>1 DEF SavedFits, RowsAreKnown
  <2> QED BY <2>2, <2>3, RowSaved
<1> QED BY <1>4, <1>5, <1>6 DEF PersistFails

LEMMA PersistStep ==
    ASSUME RowInv, NEW k \in RowKeys, NEW s \in Logs, NEW n \in Nat, Fits(k, s),
           mode' = mode, mode # "none", written' \in Nat,
           cache' \in [RowKeys -> [in : BOOLEAN, msgs : Logs, tasks : Nat]],
           cache'[k].in, cache'[k].msgs = s,
           \A j \in RowKeys : j # k => cache'[j] = cache[j],
           Persist(k, s, n)
    PROVE  RowInv'
<1>1. RowTypeOK /\ \A j \in RowKeys : j # k => (j \in emptied' <=> j \in emptied)
  BY DEF RowInv, Persist
<1>2. CASE PersistOK(k, s, n) /\ acked' = [acked EXCEPT ![k] = [ok |-> TRUE, msgs |-> s]]
  <2>1. /\ acked' \in [RowKeys -> [ok : BOOLEAN, msgs : Logs]] /\ acked'[k].msgs = s
        /\ \A j \in RowKeys : j # k => acked'[j] = acked[j]
    BY <1>1, <1>2 DEF RowTypeOK
  <2> QED BY <1>1, <1>2, <2>1, PersistOKStep
<1>3. CASE PersistFails(k, s) /\ acked' = [acked EXCEPT ![k] = Unknown]
  <2>1. /\ acked' \in [RowKeys -> [ok : BOOLEAN, msgs : Logs]] /\ ~acked'[k].ok
        /\ \A j \in RowKeys : j # k => acked'[j] = acked[j]
    BY <1>1, <1>3, EmptyTypes DEF RowTypeOK
  <2> QED BY <1>1, <1>3, <2>1, PersistFailsStep
<1> QED BY <1>2, <1>3 DEF Persist

-----------------------------------------------------------------------------
(* Without a Compactor a run saves what it was given with a beginning or an *)
(* end of its own.                                                         *)
LEMMA FreshType ==
    ASSUME RowTypeOK, NEW n \in Nat
    PROVE  Fresh(n) \in Logs /\ Len(Fresh(n)) = n
<1>1. PICK w \in Nat : w = written
  BY DEF RowTypeOK
<1>2. [i \in 1 .. n |-> w + i] \in Seq(Nat) /\ Len([i \in 1 .. n |-> w + i]) = n
  OBVIOUS
<1> QED BY <1>1, <1>2 DEF Fresh, Logs

LEMMA RevisionsType ==
    ASSUME RowTypeOK, Inserts = FALSE, NEW m \in Logs, NEW s \in Revisions(m)
    PROVE  /\ s \in Logs /\ (m = <<>> => Len(s) <= 2)
           /\ \A i \in 1 .. Len(s) : i <= Len(m) => s[i] = m[i]
<1>1. Len(m) \in Nat
  BY DEF Logs
<1>2. CASE \E n \in 1 .. 2 : s = m \o Fresh(n)
  <2>1. PICK n \in 1 .. 2 : s = m \o Fresh(n)
    BY <1>2
  <2>2. PICK t \in Seq(Nat) : t = Fresh(n) /\ Len(t) = n
    BY <2>1, FreshType DEF Logs
  <2>3. /\ s \in Seq(Nat) /\ Len(s) = Len(m) + n
        /\ \A i \in 1 .. Len(m) : s[i] = m[i]
    BY <2>1, <2>2, ConcatProperties DEF Logs
  <2>4. m = <<>> => Len(m) = 0
    OBVIOUS
  <2> QED BY <1>1, <2>1, <2>3, <2>4 DEF Logs
<1>3. CASE \E n \in 0 .. Len(m) - 1 : s = SubSeq(m, 1, n)
  <2>1. PICK n \in 0 .. Len(m) - 1 : s = SubSeq(m, 1, n)
    BY <1>3
  <2>2. n \in Int /\ \A i \in 1 .. n : m[i] \in Nat
    BY <1>1, <2>1 DEF Logs
  <2>3. /\ SubSeq(m, 1, n) \in Seq(Nat)
        /\ Len(SubSeq(m, 1, n)) = IF 1 <= n THEN n - 1 + 1 ELSE 0
        /\ \A i \in 1 .. n - 1 + 1 : SubSeq(m, 1, n)[i] = m[1 + i - 1]
    BY ONLY <2>2, 1 \in Int, SubSeqProperties
  <2>4. PICK t : t = SubSeq(m, 1, n)
    OBVIOUS
  <2>5. t \in Seq(Nat) /\ Len(t) = n /\ \A i \in 1 .. n : t[i] = m[i]
    BY <1>1, <2>1, <2>3, <2>4
  <2>6. m # <<>>
    BY <2>1
  <2> QED BY <2>1, <2>4, <2>5, <2>6 DEF Logs
<1> QED BY <1>2, <1>3 DEF Revisions

LEMMA NewType == ASSUME NEW s \in Logs PROVE New(s) \in Nat
<1>1. PICK n \in Int : n = Len(s) /\ DOMAIN s = 1 .. n
  BY DEF Logs
<1>2. IsFiniteSet(1 .. n)
  BY FS_Interval
<1>3. IsFiniteSet({i \in DOMAIN s : s[i] > written})
  BY <1>1, <1>2, FS_Subset
<1> QED BY <1>3, FS_CardinalityType DEF New

-----------------------------------------------------------------------------
(* The calls that save.                                                    *)

(* The cache of a key as a save, a load or a fork leaves it.               *)
LEMMA CacheStep ==
    ASSUME RowTypeOK, NEW k \in RowKeys, NEW c \in [in : BOOLEAN, msgs : Logs, tasks : Nat],
           cache' = [cache EXCEPT ![k] = c]
    PROVE  /\ cache' \in [RowKeys -> [in : BOOLEAN, msgs : Logs, tasks : Nat]]
           /\ cache'[k] = c /\ \A j \in RowKeys : j # k => cache'[j] = cache[j]
  BY DEF RowTypeOK

LEMMA SaveHistoryStep ==
    ASSUME Inserts = FALSE, RowInv, NEW k \in RowKeys, SaveHistory(k) PROVE RowInv'
<1>1. PICK s \in Revisions(cache[k].msgs) :
         /\ Write(New(s)) /\ cache' = [cache EXCEPT ![k].in = TRUE, ![k].msgs = s]
         /\ Persist(k, s, cache[k].tasks)
  BY DEF SaveHistory
<1>2. /\ RowTypeOK /\ RowsAreGood(k) /\ mode # "none" /\ mode' = mode
      /\ cache[k].in \in BOOLEAN /\ cache[k].msgs \in Logs /\ cache[k].tasks \in Nat
      /\ known[k] \in Nat /\ written \in Nat
  BY DEF RowInv, RowTypeOK, SaveHistory
<1>3. /\ s \in Logs /\ (cache[k].msgs = <<>> => Len(s) <= 2)
      /\ \A i \in 1 .. Len(s) : i <= Len(cache[k].msgs) => s[i] = cache[k].msgs[i]
  BY <1>1, <1>2, RevisionsType
<1>4. written' \in Nat
  BY <1>1, <1>2, <1>3, NewType DEF Write
<1>5. /\ cache' \in [RowKeys -> [in : BOOLEAN, msgs : Logs, tasks : Nat]]
      /\ cache'[k].in /\ cache'[k].msgs = s
      /\ \A j \in RowKeys : j # k => cache'[j] = cache[j]
  <2> DEFINE c == [cache[k] EXCEPT !.in = TRUE, !.msgs = s]
  <2>1. c \in [in : BOOLEAN, msgs : Logs, tasks : Nat] /\ c.in /\ c.msgs = s
    BY <1>2, <1>3 DEF RowTypeOK
  <2>2. cache' = [cache EXCEPT ![k] = c]
    BY <1>1
  <2> HIDE DEF c
  <2> QED BY <1>2, <2>1, <2>2, CacheStep
<1>6. Fits(k, s)
  <2> SUFFICES ASSUME mode = "rows", k \notin torn, known[k] > 0, known[k] <= Len(s),
                      known[k] < Len(s) \/ ~Outdated(k), NEW i \in 1 .. known[k] - 1
               PROVE  msgRows[k][i] = s[i]
    BY <1>2 DEF Fits, RowsAreGood
  <2>1. Len(s) \in Nat /\ Len(cache[k].msgs) \in Nat
    BY <1>2, <1>3 DEF Logs
  <2>2. CASE ~Outdated(k)
    <3>1. known[k] <= Len(cache[k].msgs) /\ msgRows[k][i] = cache[k].msgs[i]
      BY <1>2, <2>1, <2>2 DEF RowsAreGood, RowsBegin, Outdated
    <3>2. i \in 1 .. Len(s) /\ i <= Len(cache[k].msgs)
      BY <1>2, <2>1, <3>1
    <3> QED BY <1>3, <3>1, <3>2
  <2>3. CASE Outdated(k)
    <3>1. Len(s) <= 2 /\ known[k] < Len(s)
      BY <1>2, <1>3, <2>3 DEF RowsAreGood
    <3> QED BY <1>2, <2>1, <3>1
  <2> QED BY <2>2, <2>3
<1> QED BY <1>1, <1>2, <1>3, <1>4, <1>5, <1>6, PersistStep

LEMMA SaveUnreadStep ==
    ASSUME RowInv, NEW k \in RowKeys, SaveUnread(k) PROVE RowInv'
<1>1. /\ RowTypeOK /\ RowsAreGood(k) /\ mode # "none" /\ mode' = mode /\ ~cache[k].in
      /\ cache[k].tasks \in Nat /\ known[k] \in Nat /\ written \in Nat
  BY DEF RowInv, RowTypeOK, SaveUnread
<1>2. PICK s \in Logs : s = Fresh(1) /\ Len(s) = 1
  BY <1>1, FreshType
<1>3. /\ cache' \in [RowKeys -> [in : BOOLEAN, msgs : Logs, tasks : Nat]]
      /\ cache'[k].in /\ cache'[k].msgs = s
      /\ \A j \in RowKeys : j # k => cache'[j] = cache[j]
  <2> DEFINE c == [cache[k] EXCEPT !.in = TRUE, !.msgs = s]
  <2>1. c \in [in : BOOLEAN, msgs : Logs, tasks : Nat] /\ c.in /\ c.msgs = s
    BY <1>1, <1>2 DEF RowTypeOK
  <2>2. cache' = [cache EXCEPT ![k] = c]
    BY <1>2 DEF SaveUnread
  <2> HIDE DEF c
  <2> QED BY <1>1, <2>1, <2>2, CacheStep
<1>4. Fits(k, s)
  <2> SUFFICES ASSUME mode = "rows", k \notin torn
               PROVE  /\ RowsAreKnown(k)
                      /\ ~(known[k] > 0 /\ known[k] <= Len(s) /\ (known[k] < Len(s) \/ ~Outdated(k)))
    BY DEF Fits
  <2>1. RowsAreKnown(k)
    BY <1>1 DEF RowsAreGood
  <2>2. known[k] > 0 => Outdated(k) /\ ~(known[k] < Len(s))
    <3>1. known[k] \in Nat /\ Len(s) = 1 /\ cache[k].msgs = <<>> /\ Len(<<>>) = 0
      BY <1>1, <1>2 DEF RowsAreGood
    <3>2. PICK n \in Nat : n = known[k]
      BY <3>1
    <3>3. n > 0 => ~(n < 1)
      BY ONLY n \in Nat
    <3> QED BY <3>1, <3>2, <3>3 DEF Outdated
  <2> QED BY <2>1, <2>2
<1>5. PersistOK(k, s, 0) /\ acked' = [acked EXCEPT ![k] = [ok |-> TRUE, msgs |-> s]]
      /\ written' \in Nat /\ emptied' = emptied \ {k}
  BY <1>1, <1>2 DEF SaveUnread, Write
<1>6. /\ acked' \in [RowKeys -> [ok : BOOLEAN, msgs : Logs]] /\ acked'[k].msgs = s
      /\ \A j \in RowKeys : j # k => acked'[j] = acked[j]
  BY <1>1, <1>5 DEF RowTypeOK
<1> QED BY <1>1, <1>3, <1>4, <1>5, <1>6, PersistOKStep

(* What a task call leaves in the cache is the log it has, if it has one.  *)
LEMMA EmptiedStep ==
    ASSUME NEW k \in RowKeys, RowsAreGood(k), Emptied(k)
    PROVE  /\ \A j \in RowKeys : j # k => (j \in emptied' <=> j \in emptied)
           /\ k \in emptied => k \in emptied'
           /\ acked[k].ok /\ k \notin torn /\ k \notin emptied' => acked[k].msgs = cache[k].msgs
<1>1. ASSUME acked[k].ok, k \notin torn, k \notin emptied' PROVE acked[k].msgs = cache[k].msgs
  <2>1. k \notin emptied /\ (cache[k].in \/ Stored(k) = <<>>)
    BY <1>1 DEF Emptied
  <2> QED BY <1>1, <2>1 DEF RowsAreGood, AckedIsStored
<1> QED BY <1>1 DEF Emptied

LEMMA SaveTasksStep ==
    ASSUME RowInv, NEW k \in RowKeys, SaveAsyncTasks(k) PROVE RowInv'
<1>1. /\ RowTypeOK /\ RowsAreGood(k) /\ mode' = mode /\ mode # "none" /\ acked' = acked
      /\ cache[k].msgs \in Logs /\ known[k] \in Nat /\ written + 1 \in Nat /\ Emptied(k)
  BY DEF RowInv, RowTypeOK, SaveAsyncTasks
<1>2. PICK s \in Logs, n \in Nat : s = cache[k].msgs /\ n = written + 1
  BY <1>1
<1>3. /\ cache' \in [RowKeys -> [in : BOOLEAN, msgs : Logs, tasks : Nat]]
      /\ cache'[k].in /\ cache'[k].msgs = s
      /\ \A j \in RowKeys : j # k => cache'[j] = cache[j]
  <2> DEFINE c == [cache[k] EXCEPT !.in = TRUE, !.tasks = n]
  <2>1. c \in [in : BOOLEAN, msgs : Logs, tasks : Nat] /\ c.in /\ c.msgs = s
    BY <1>1, <1>2 DEF RowTypeOK
  <2>2. cache' = [cache EXCEPT ![k] = c]
    BY <1>2 DEF SaveAsyncTasks
  <2> HIDE DEF c
  <2> QED BY <1>1, <2>1, <2>2, CacheStep
<1>4. Fits(k, s)
  <2>1. known[k] <= Len(s) => ~Outdated(k)
    BY <1>1, <1>2 DEF Outdated, Logs
  <2> QED BY <1>1, <1>2, <2>1 DEF Fits, RowsAreGood, RowsBegin
<1>5. PersistOK(k, s, n) \/ PersistFails(k, s)
  BY <1>2 DEF SaveAsyncTasks
<1>6. written' \in Nat
  BY <1>1 DEF SaveAsyncTasks, Write
<1>7. /\ \A j \in RowKeys : j # k => (j \in emptied' <=> j \in emptied)
      /\ k \in emptied => k \in emptied'
      /\ acked'[k].ok /\ k \notin torn /\ k \notin emptied' => acked'[k].msgs = s
  BY <1>1, <1>2, EmptiedStep
<1>8. acked' \in [RowKeys -> [ok : BOOLEAN, msgs : Logs]]
  BY <1>1 DEF RowTypeOK
<1>9. CASE PersistOK(k, s, n)
  BY <1>1, <1>3, <1>4, <1>6, <1>7, <1>8, <1>9, PersistOKStep
<1>10. CASE PersistFails(k, s)
  BY <1>1, <1>3, <1>4, <1>6, <1>7, <1>8, <1>10, PersistFailsStep
<1> QED BY <1>5, <1>9, <1>10

LEMMA RowForkStep ==
    ASSUME RowInv, NEW k \in RowKeys, NEW new \in RowKeys, Fork(k, new) PROVE RowInv'
<1>1. PICK n \in 0 .. Len(cache[k].msgs) :
         LET copy == SubSeq(cache[k].msgs, 1, n)
         IN  /\ cache' = [cache EXCEPT ![new] = [in |-> TRUE, msgs |-> copy, tasks |-> 0]]
             /\ Persist(new, copy, 0)
  BY DEF Fork
<1>2. /\ RowTypeOK /\ RowsAreGood(new) /\ mode # "none" /\ mode' = mode
      /\ cache[k].msgs \in Logs /\ known[new] \in Nat /\ written' \in Nat /\ msgRows[new] = <<>>
  BY DEF RowInv, RowTypeOK, Fork, RowsAreGood, NothingYet
<1>3. PICK s \in Logs : s = SubSeq(cache[k].msgs, 1, n)
  <2>1. n \in Int /\ \A i \in 1 .. n : cache[k].msgs[i] \in Nat
    BY <1>2 DEF Logs
  <2>2. SubSeq(cache[k].msgs, 1, n) \in Seq(Nat)
    BY ONLY <2>1, 1 \in Int, SubSeqProperties
  <2> QED BY <2>2 DEF Logs
<1>4. /\ cache' \in [RowKeys -> [in : BOOLEAN, msgs : Logs, tasks : Nat]]
      /\ cache'[new].in /\ cache'[new].msgs = s
      /\ \A j \in RowKeys : j # new => cache'[j] = cache[j]
  <2> DEFINE c == [in |-> TRUE, msgs |-> s, tasks |-> 0]
  <2>1. c \in [in : BOOLEAN, msgs : Logs, tasks : Nat] /\ c.in /\ c.msgs = s
    OBVIOUS
  <2>2. cache' = [cache EXCEPT ![new] = c]
    BY <1>1, <1>3
  <2> HIDE DEF c
  <2> QED BY <1>2, <2>1, <2>2, CacheStep
<1>5. Fits(new, s)
  <2>1. Len(msgRows[new]) = 0
    BY <1>2
  <2> QED BY <1>2, <2>1 DEF Fits, RowsAreGood, RowsAreKnown
<1>6. Persist(new, s, 0) /\ 0 \in Nat
  BY <1>1, <1>3
<1> QED BY <1>2, <1>4, <1>5, <1>6, PersistStep

-----------------------------------------------------------------------------
(* The others.                                                             *)

LEMMA LoadStep ==
    ASSUME RowInv, NEW k \in RowKeys, Load(k) PROVE RowInv'
<1>1. /\ RowTypeOK /\ RowsAreGood(k) /\ mode \in {"json", "rows"} /\ table[k].in
      /\ UNCHANGED <<mode, table, msgRows, written, acked, torn, emptied>>
      /\ msgRows[k] \in Logs /\ table[k].msgs \in Logs /\ Len(msgRows[k]) \in Nat
  BY DEF RowInv, RowTypeOK, Load, Logs
<1>2. PICK s \in Logs : s = Stored(k) /\ (mode = "rows" => s = msgRows[k])
  BY <1>1 DEF Stored
<1>3. /\ cache' \in [RowKeys -> [in : BOOLEAN, msgs : Logs, tasks : Nat]]
      /\ cache'[k].in /\ cache'[k].msgs = s
      /\ \A j \in RowKeys : j # k => cache'[j] = cache[j]
  <2> DEFINE c == [in |-> TRUE, msgs |-> s, tasks |-> 0]
  <2>1. c \in [in : BOOLEAN, msgs : Logs, tasks : Nat] /\ c.in /\ c.msgs = s
    OBVIOUS
  <2>2. cache' = [cache EXCEPT ![k] = c]
    BY <1>2 DEF Load
  <2> HIDE DEF c
  <2> QED BY <1>1, <2>1, <2>2, CacheStep
<1>4. /\ known' \in [RowKeys -> Nat] /\ \A j \in RowKeys : j # k => known'[j] = known[j]
      /\ mode = "rows" => known'[k] = Len(msgRows[k])
  BY <1>1 DEF RowTypeOK, Load
<1>5. RowTypeOK' /\ Others(k)
  BY <1>1, <1>3, <1>4 DEF RowTypeOK, Others
<1>6. AckedIsStored(k)'
  BY <1>1, <1>2, <1>3 DEF RowsAreGood, AckedIsStored, Stored
<1>7. SavedFits(k, s)'
  BY <1>1, <1>2, <1>4 DEF SavedFits, RowsAreKnown
<1> QED BY <1>1, <1>3, <1>5, <1>6, <1>7, RowSaved

LEMMA AsyncTasksStep ==
    ASSUME RowInv, NEW k \in RowKeys, AsyncTasks(k) PROVE RowInv'
<1>1. /\ RowTypeOK /\ RowsAreGood(k) /\ cache[k] \in [in : BOOLEAN, msgs : Logs, tasks : Nat]
      /\ table[k].tasks \in Nat /\ table[k].in /\ Emptied(k)
      /\ UNCHANGED <<mode, known, table, msgRows, written, acked, torn>>
  BY DEF RowInv, RowTypeOK, AsyncTasks
<1>2. /\ cache' \in [RowKeys -> [in : BOOLEAN, msgs : Logs, tasks : Nat]]
      /\ cache'[k].in /\ cache'[k].msgs = cache[k].msgs
      /\ \A j \in RowKeys : j # k => cache'[j] = cache[j]
  <2> DEFINE c == [cache[k] EXCEPT !.in = TRUE, !.tasks = table[k].tasks]
  <2>1. /\ c \in [in : BOOLEAN, msgs : Logs, tasks : Nat]
        /\ c.in /\ c.msgs = cache[k].msgs
    BY <1>1
  <2>2. cache' = [cache EXCEPT ![k] = c]
    BY DEF AsyncTasks
  <2> HIDE DEF c
  <2> QED BY <1>1, <2>1, <2>2, CacheStep
<1>3. RowTypeOK'
  BY <1>1, <1>2 DEF RowTypeOK
<1>4. /\ \A j \in RowKeys : j # k => (j \in emptied' <=> j \in emptied)
      /\ k \in emptied => k \in emptied'
      /\ acked[k].ok /\ k \notin torn /\ k \notin emptied' => acked[k].msgs = cache[k].msgs
  BY <1>1, EmptiedStep
<1>5. AckedIsStored(k)'
  BY <1>1, <1>2, <1>4 DEF RowsAreGood, AckedIsStored, Stored
<1>6. RowsAreGood(k)'
  BY <1>1, <1>2, <1>5 DEF RowsAreGood, NothingYet, RowsAreKnown, RowsBegin, Outdated
<1>7. ASSUME NEW j \in RowKeys, j # k PROVE RowsAreGood(j)'
  BY <1>1, <1>2, <1>4, <1>7, RowStays DEF RowInv
<1> QED BY <1>3, <1>6, <1>7 DEF RowInv

LEMMA RowDeleteStep ==
    ASSUME RowInv, NEW k \in RowKeys, Delete(k) PROVE RowInv'
<1>1. /\ RowTypeOK /\ mode # "none" /\ UNCHANGED <<mode, written>>
      /\ cache' = [cache EXCEPT ![k] = Uncached] /\ known' = [known EXCEPT ![k] = 0]
      /\ acked' = [acked EXCEPT ![k] = Unknown]
      /\ \A j \in RowKeys : j # k => (j \in emptied' <=> j \in emptied)
  BY DEF RowInv, Delete
<1>2. /\ msgRows' \in [RowKeys -> Logs]
      /\ table' \in [RowKeys -> [in : BOOLEAN, msgs : Logs, tasks : Nat, deleted : BOOLEAN]]
      /\ \A j \in RowKeys : j # k => /\ msgRows'[j] = msgRows[j] /\ table'[j] = table[j]
                                     /\ j \in torn' <=> j \in torn
      /\ k \in torn' \/ k \notin torn \/ msgRows'[k] = <<>>
  <2>1. msgRows' = msgRows \/ msgRows' = [msgRows EXCEPT ![k] = <<>>]
    BY DEF Delete
  <2>2. table' = table \/ table' = [table EXCEPT ![k] = NoRow]
    BY DEF Delete
  <2>3. torn' = torn \/ (torn' = torn \ {k} /\ msgRows' = [msgRows EXCEPT ![k] = <<>>])
    BY DEF Delete
  <2>4. msgRows' \in [RowKeys -> Logs] /\ \A j \in RowKeys : j # k => msgRows'[j] = msgRows[j]
    <3>1. msgRows \in [RowKeys -> Logs] /\ <<>> \in Logs
      BY <1>1 DEF RowTypeOK, Logs
    <3> QED BY ONLY <2>1, <3>1
  <2>5. /\ table' \in [RowKeys -> [in : BOOLEAN, msgs : Logs, tasks : Nat, deleted : BOOLEAN]]
        /\ \A j \in RowKeys : j # k => table'[j] = table[j]
    <3>1. /\ table \in [RowKeys -> [in : BOOLEAN, msgs : Logs, tasks : Nat, deleted : BOOLEAN]]
          /\ NoRow \in [in : BOOLEAN, msgs : Logs, tasks : Nat, deleted : BOOLEAN]
      BY <1>1, EmptyTypes DEF RowTypeOK
    <3> QED BY ONLY <2>2, <3>1
  <2>6. k \in torn' \/ k \notin torn \/ msgRows'[k] = <<>>
    BY <1>1, <2>3 DEF RowTypeOK
  <2> QED BY <2>3, <2>4, <2>5, <2>6
<1>3. /\ cache' \in [RowKeys -> [in : BOOLEAN, msgs : Logs, tasks : Nat]]
      /\ cache'[k] = Uncached /\ \A j \in RowKeys : j # k => cache'[j] = cache[j]
  BY <1>1, EmptyTypes, CacheStep
<1>4. /\ known' \in [RowKeys -> Nat] /\ known'[k] = 0
      /\ \A j \in RowKeys : j # k => known'[j] = known[j]
  BY <1>1 DEF RowTypeOK
<1>5. /\ acked' \in [RowKeys -> [ok : BOOLEAN, msgs : Logs]] /\ ~acked'[k].ok
      /\ \A j \in RowKeys : j # k => acked'[j] = acked[j]
  BY <1>1, EmptyTypes DEF RowTypeOK
<1>6. RowTypeOK'
  BY <1>1, <1>2, <1>3, <1>4, <1>5 DEF RowTypeOK
<1>7. RowsAreGood(k)'
  BY <1>1, <1>3, <1>4, <1>5, EmptyTypes
     DEF RowsAreGood, RowsAreKnown, RowsBegin, Outdated, AckedIsStored
<1>8. ASSUME NEW j \in RowKeys, j # k PROVE RowsAreGood(j)'
  BY <1>1, <1>2, <1>3, <1>4, <1>5, <1>8, RowStays DEF RowInv
<1> QED BY <1>6, <1>7, <1>8 DEF RowInv

LEMMA SoftDeleteStep ==
    ASSUME RowInv, NEW k \in RowKeys, SoftDelete(k) PROVE RowInv'
<1>1. /\ RowTypeOK /\ mode # "none" /\ cache' = [cache EXCEPT ![k] = Uncached]
      /\ UNCHANGED <<mode, known, msgRows, written, acked, torn, emptied>>
  BY DEF RowInv, SoftDelete
<1>2. /\ table' \in [RowKeys -> [in : BOOLEAN, msgs : Logs, tasks : Nat, deleted : BOOLEAN]]
      /\ table'[k].in = table[k].in /\ table'[k].msgs = table[k].msgs
      /\ \A j \in RowKeys : j # k => table'[j] = table[j]
  <2>1. table[k] \in [in : BOOLEAN, msgs : Logs, tasks : Nat, deleted : BOOLEAN]
    BY <1>1 DEF RowTypeOK
  <2>2. CASE table' = table
    BY <1>1, <2>2 DEF RowTypeOK
  <2>3. CASE table' = [table EXCEPT ![k].deleted = table[k].in]
    <3> DEFINE row == [table[k] EXCEPT !.deleted = table[k].in]
    <3>1. /\ row \in [in : BOOLEAN, msgs : Logs, tasks : Nat, deleted : BOOLEAN]
          /\ row.in = table[k].in /\ row.msgs = table[k].msgs
      BY <2>1
    <3>2. table' = [table EXCEPT ![k] = row]
      BY <2>3
    <3> HIDE DEF row
    <3> QED BY <1>1, <3>1, <3>2 DEF RowTypeOK
  <2> QED BY <2>2, <2>3 DEF SoftDelete
<1>3. /\ cache' \in [RowKeys -> [in : BOOLEAN, msgs : Logs, tasks : Nat]]
      /\ cache'[k] = Uncached /\ \A j \in RowKeys : j # k => cache'[j] = cache[j]
  BY <1>1, EmptyTypes, CacheStep
<1>4. RowTypeOK'
  BY <1>1, <1>2, <1>3 DEF RowTypeOK
<1>5. RowsAreGood(k)'
  <2>1. known[k] \in Nat /\ RowsAreGood(k) /\ Len(<<>>) = 0
    BY <1>1 DEF RowInv, RowTypeOK
  <2>2. AckedIsStored(k)'
    BY <1>1, <1>2, <1>3, <2>1, EmptyTypes DEF RowsAreGood, AckedIsStored, Stored
  <2>3. cache'[k].msgs = <<>> /\ ~cache'[k].in /\ known'[k] = known[k]
    BY <1>1, <1>3, EmptyTypes
  <2>4. RowsBegin(k, <<>>)'
    BY <1>1, <2>1, <2>3 DEF RowsBegin
  <2> QED BY <1>1, <2>1, <2>2, <2>3, <2>4 DEF RowsAreGood, RowsAreKnown
<1>6. ASSUME NEW j \in RowKeys, j # k PROVE RowsAreGood(j)'
  BY <1>1, <1>2, <1>3, <1>6, RowStays DEF RowInv
<1> QED BY <1>4, <1>5, <1>6 DEF RowInv

LEMMA RowRestoreStep ==
    ASSUME RowInv, NEW k \in RowKeys, Restore(k) PROVE RowInv'
<1>1. /\ RowTypeOK /\ UNCHANGED <<mode, cache, known, msgRows, written, acked, torn, emptied>>
  BY DEF RowInv, Restore
<1>2. /\ table' \in [RowKeys -> [in : BOOLEAN, msgs : Logs, tasks : Nat, deleted : BOOLEAN]]
      /\ \A j \in RowKeys : table'[j].in = table[j].in /\ table'[j].msgs = table[j].msgs
  BY <1>1 DEF RowTypeOK, Restore
<1>3. RowTypeOK'
  BY <1>1, <1>2 DEF RowTypeOK
<1> QED BY <1>1, <1>2, <1>3
        DEF RowInv, RowsAreGood, NothingYet, RowsAreKnown, RowsBegin, Outdated, AckedIsStored, Stored

LEMMA RowPurgeStep ==
    ASSUME RowInv, PurgeDeletedBefore PROVE RowInv'
<1>1. /\ RowTypeOK /\ UNCHANGED <<mode, cache, known, msgRows, written, torn, emptied>>
      /\ table' = [k \in RowKeys |-> IF table[k].deleted THEN NoRow ELSE table[k]]
      /\ acked' = [k \in RowKeys |-> IF table[k].deleted THEN Unknown ELSE acked[k]]
  BY DEF RowInv, PurgeDeletedBefore
<1>2. RowTypeOK'
  BY <1>1, EmptyTypes DEF RowTypeOK
<1>3. ASSUME NEW k \in RowKeys PROVE RowsAreGood(k)'
  <2>1. CASE table[k].deleted
    <3>1. ~table'[k].in /\ ~acked'[k].ok
      BY <1>1, <2>1, EmptyTypes
    <3> QED BY <1>1, <3>1
            DEF RowInv, RowsAreGood, NothingYet, RowsAreKnown, RowsBegin, Outdated, AckedIsStored
  <2>2. CASE ~table[k].deleted
    <3>1. table'[k] = table[k] /\ acked'[k] = acked[k]
      BY <1>1, <2>2
    <3> QED BY <1>1, <3>1, RowStays DEF RowInv
  <2> QED BY <2>1, <2>2
<1> QED BY <1>2, <1>3 DEF RowInv

LEMMA RestartStep ==
    ASSUME RowInv, Restart PROVE RowInv'
<1>1. /\ RowTypeOK /\ mode # "none"
      /\ UNCHANGED <<mode, table, msgRows, written, acked, torn, emptied>>
      /\ cache' = [k \in RowKeys |-> Uncached] /\ known' = [k \in RowKeys |-> 0]
  BY DEF RowInv, Restart
<1>2. RowTypeOK'
  BY <1>1, EmptyTypes DEF RowTypeOK
<1>3. ASSUME NEW k \in RowKeys PROVE RowsAreGood(k)'
  <2>1. ~cache'[k].in /\ cache'[k].msgs = <<>> /\ known'[k] = 0
    BY <1>1, EmptyTypes
  <2>2. RowsBegin(k, cache[k].msgs)' /\ ~Outdated(k)' /\ RowsAreKnown(k)'
    BY <2>1 DEF RowsBegin, Outdated, RowsAreKnown
  <2>3. AckedIsStored(k)'
    BY <1>1, <2>1 DEF RowInv, RowsAreGood, AckedIsStored, Stored
  <2> QED BY <1>1, <2>1, <2>2, <2>3 DEF RowsAreGood
<1> QED BY <1>2, <1>3 DEF RowInv

LEMMA InitRowInv == RowInit => RowInv
<1> SUFFICES ASSUME RowInit PROVE RowInv
  OBVIOUS
<1>1. RowTypeOK
  BY EmptyTypes DEF RowInit, RowTypeOK, Logs
<1>2. ASSUME NEW k \in RowKeys PROVE RowsAreGood(k)
  <2>1. NothingYet(k) /\ mode = "none" /\ cache[k].msgs = <<>>
    BY EmptyTypes DEF RowInit, NothingYet
  <2> QED BY <2>1 DEF RowsAreGood, NothingYet, AckedIsStored
<1> QED BY <1>1, <1>2 DEF RowInv

LEMMA RowNextInv == Inserts = FALSE /\ RowInv /\ [RowNext]_rowVars => RowInv'
<1> SUFFICES ASSUME Inserts = FALSE, RowInv, [RowNext]_rowVars PROVE RowInv'
  OBVIOUS
<1>1. CASE NewMySQLSessionManager
  <2>1. /\ mode = "none" /\ mode' \in {"json", "rows"}
        /\ UNCHANGED <<cache, known, table, msgRows, written, acked, torn, emptied>>
    BY <1>1 DEF NewMySQLSessionManager
  <2>2. RowTypeOK'
    BY <2>1 DEF RowInv, RowTypeOK
  <2>3. ASSUME NEW k \in RowKeys PROVE RowsAreGood(k)'
    <3>1. NothingYet(k) /\ cache[k].msgs = <<>> /\ Len(<<>>) = 0
      BY <2>1 DEF RowInv, RowsAreGood, NothingYet
    <3>2. NothingYet(k)' /\ cache'[k].msgs = <<>>
      BY <2>1, <3>1 DEF NothingYet
    <3> QED BY <3>1, <3>2
            DEF RowsAreGood, NothingYet, RowsAreKnown, RowsBegin, Outdated, AckedIsStored
  <2> QED BY <2>2, <2>3 DEF RowInv
<1>2. CASE UNCHANGED rowVars
  BY <1>2, RowStays DEF rowVars, RowInv, RowTypeOK
<1> QED BY <1>1, <1>2, RowPurgeStep, RestartStep, LoadStep, SaveHistoryStep, SaveUnreadStep,
           AsyncTasksStep, SaveTasksStep, RowDeleteStep, SoftDeleteStep, RowRestoreStep,
           RowForkStep DEF RowNext

(***************************************************************************)
(* As long as no Compactor inserts into the log, what a SaveHistory that   *)
(* returned nil saved is what History serves and what the next process     *)
(* loads, except for the sessions in torn and in emptied                   *)
(* (MySQLAppendOnlyMessageStore.Save, persist).                            *)
(***************************************************************************)
THEOREM SavesAreLoaded == Inserts = FALSE /\ RowSpec => []SavedIsLoaded
<1> SUFFICES ASSUME Inserts = FALSE PROVE RowSpec => []SavedIsLoaded
  OBVIOUS
<1>1. RowInv => SavedIsLoaded
  BY DEF RowInv, RowsAreGood, AckedIsStored, SavedIsLoaded
<1>2. RowInv /\ [RowNext]_rowVars => RowInv'
  BY RowNextInv
<1> QED BY <1>1, <1>2, InitRowInv, PTL DEF RowSpec

-----------------------------------------------------------------------------
(***************************************************************************)
(* Grading again what was recorded, for any tasks, trials, turns and pool. *)
(* A trial's outcome so far is what its transcripts in the record say, and *)
(* its slot of the report holds it before the report can be made.          *)
(***************************************************************************)

Endings == {"none", "done", "error", "ctx", "max_iters", "limit_exhausted"}
Transcripts == [ended : Endings, err : BOOLEAN, answer : {"none", "right", "wrong"}]
Outcomes == [pass : BOOLEAN, ended : Endings, turns : Nat]
Records == [task : EvalTasks, trial : 1 .. EvalTrials, turn : Nat, tr : Transcripts]
Flying == {"start", "turn", "ran", "filed"}
TrialStates == [at : {"queued", "over"} \union Flying, turn : Nat, events : Nat,
                tr : Transcripts, out : Outcomes]

EvalTypeOK ==
    /\ trials \in [Slots -> TrialStates]
    /\ pool \in [sent : SUBSET Slots, held : Int, waits : Int]
    /\ suite \in [graders : GraderSets, minScore : BOOLEAN, done : BOOLEAN]
    /\ results \in [Slots -> Outcomes]
    /\ kept \in Seq(Records)
    /\ DOMAIN report = {"live", "replay"}

Recorded(s) == byTrial(s[1], s[2])
Judgeless == "judge" \notin suite.graders
Good(tr) == \E g \in Grades(tr, FALSE) : gradesPass(g)

TurnsAreKept(s) ==
    LET t == trials[s] IN
    /\ t.turn = t.out.turns + 1
    /\ \A i \in Recorded(s) : kept[i].turn \in 1 .. t.out.turns
    /\ \A i, j \in Recorded(s) : kept[i].turn = kept[j].turn => i = j
    /\ t.out.turns > 0 =>
          \E i \in Recorded(s) : kept[i].turn = t.out.turns /\ kept[i].tr.ended = t.out.ended

PassIsKept(s) ==
    LET t == trials[s] IN
    /\ t.at \in {"queued", "start"} => t.out.turns = 0
    /\ t.out.turns = 0 => (t.out.pass <=> t.at \in {"queued", "start", "turn"})
    /\ Judgeless /\ t.out.turns > 0 =>
          (t.out.pass <=> \A i \in Recorded(s) : Good(kept[i].tr))

TrialIsKept(s) ==
    /\ TurnsAreKept(s) /\ PassIsKept(s)
    /\ trials[s].at \in {"filed", "over"} => results[s] = trials[s].out

InFlight == {s \in Slots : trials[s].at \in Flying}
PoolIsCounted ==
    /\ IsFiniteSet(InFlight) /\ pool.waits = Cardinality(InFlight)
    /\ \A s \in Slots : s \in pool.sent <=> trials[s].at # "queued"

ReportIsMade ==
    /\ report.live # <<>> =>
          /\ \A s \in Slots : trials[s].at = "over"
          /\ report.live = [k \in EvalTasks |->
                               aggregateTask({results[<<k, n>>] : n \in 1 .. EvalTrials})]
    /\ report.replay # <<>> =>
          /\ report.live # <<>> /\ Judgeless
          /\ report.replay = [k \in EvalTasks |->
                                 aggregateTask({trials[<<k, n>>].out : n \in trialNums(k)})]

EvalInv ==
    /\ EvalTypeOK /\ PoolIsCounted /\ ReportIsMade
    /\ \A s \in Slots : TrialIsKept(s)

USE EvalAssumption

\* What a grade is counts only by the graders and the policy.
LEMMA GoodIsStable ==
    ASSUME suite'.graders = suite.graders, suite'.minScore = suite.minScore, NEW tr
    PROVE  Good(tr)' = Good(tr)
<1>1. Grades(tr, FALSE)' = Grades(tr, FALSE)
  BY DEF Grades
<1>2. \A g : gradesPass(g)' = gradesPass(g)
  BY DEF gradesPass
<1> QED
  BY <1>1, <1>2 DEF Good

LEMMA PassIsBoolean ==
    ASSUME EvalTypeOK, NEW tr, NEW c, NEW g \in Grades(tr, c)
    PROVE  gradesPass(g) \in BOOLEAN
<1>1. DOMAIN g = suite.graders /\ suite.graders \in GraderSets
  BY DEF EvalTypeOK, Grades
<1>2. IsFiniteSet(DOMAIN g)
  <2>1. \A a, b : IsFiniteSet({a} \union {b})
    BY FS_Singleton, FS_Union
  <2>2. PICK a, b : DOMAIN g = {a, b}
    BY <1>1 DEF GraderSets
  <2>3. DOMAIN g = {a} \union {b}
    BY <2>2
  <2> QED
    BY <2>1, <2>3
<1> DEFINE ScoredKeys == {k \in DOMAIN g : ~g[k].unknown /\ ~g[k].err}
           PassedKeys == {k \in ScoredKeys : g[k].pass}
<1>3. Cardinality(ScoredKeys) \in Nat /\ Cardinality(PassedKeys) \in Nat
  BY <1>2, FS_Subset, FS_CardinalityType
<1> HIDE DEF ScoredKeys, PassedKeys
<1>4. gradesPass(g) = IF suite.minScore THEN 2 * Cardinality(PassedKeys) >= Cardinality(ScoredKeys)
                                        ELSE PassedKeys = ScoredKeys
  BY DEF gradesPass, ScoredKeys, PassedKeys
<1>5. (2 * Cardinality(PassedKeys) >= Cardinality(ScoredKeys)) \in BOOLEAN
  BY <1>3
<1> QED
  BY <1>4, <1>5

\* Without a judge a transcript has one grade, whether the suite is cancelled or not.
LEMMA GradeIsSole ==
    ASSUME EvalTypeOK, Judgeless, NEW tr, NEW c, NEW g \in Grades(tr, c)
    PROVE  gradesPass(g) = Good(tr)
<1>1. suite.graders = {"contains", "no_error"}
  BY DEF EvalTypeOK, Judgeless, GraderSets
<1>2. \A d : \A h \in Grades(tr, d) :
         /\ h \in [suite.graders -> {Pass, Fail, UnknownGrade, Errored}]
         /\ h["contains"] = ContainsText(tr) /\ h["no_error"] = NoError(tr)
  BY <1>1 DEF Grades
<1>3. \A d : \A h \in Grades(tr, d) : h = g
  BY <1>1, <1>2
<1>4. g \in Grades(tr, FALSE)
  BY <1>1, <1>2 DEF Grades
<1> QED
  BY <1>3, <1>4, PassIsBoolean DEF Good

\* A trial no step touches stays as it is.
LEMMA TrialStays ==
    ASSUME NEW r, TrialIsKept(r), trials'[r] = trials[r], results'[r] = results[r],
           suite'.graders = suite.graders, suite'.minScore = suite.minScore,
           Recorded(r)' = Recorded(r), \A i \in Recorded(r) : kept'[i] = kept[i]
    PROVE  TrialIsKept(r)'
<1>1. TurnsAreKept(r)'
  BY DEF TrialIsKept, TurnsAreKept
<1>2. PassIsKept(r)'
  <2>1. \A i \in Recorded(r) : Good(kept[i].tr)' = Good(kept[i].tr)
    BY GoodIsStable
  <2>2. (\A i \in Recorded(r) : Good(kept[i].tr))' = \A i \in Recorded(r) : Good(kept[i].tr)
    BY <2>1
  <2> QED
    BY <2>2 DEF TrialIsKept, PassIsKept, Judgeless
<1> QED
  BY <1>1, <1>2 DEF TrialIsKept

\* An event leaves a transcript a transcript, and so does the end of the stream.
LEMMA TranscriptsStay ==
    ASSUME NEW tr \in Transcripts, NEW c \in BOOLEAN
    PROVE  captureEvent(tr) \subseteq Transcripts /\ Captured(tr, c) \in Transcripts
<1>1. Captured(tr, c) \in Transcripts
  BY DEF Captured, Transcripts, Endings
<1>2. ASSUME NEW x \in {"right", "wrong"}
      PROVE  /\ [tr EXCEPT !.answer = IF "right" \in {tr.answer, x} THEN "right" ELSE "wrong"]
                    \in Transcripts
             /\ [tr EXCEPT !.answer = x] \in Transcripts
  BY <1>2 DEF Transcripts
<1>3. ASSUME NEW b \in BOOLEAN
      PROVE  [tr EXCEPT !.err = b \/ @, !.ended = IF @ = "done" THEN "error" ELSE @] \in Transcripts
  BY <1>3 DEF Transcripts, Endings
<1>4. ASSUME NEW w \in {"max_iters", "limit_exhausted"}
      PROVE  [tr EXCEPT !.ended = w] \in Transcripts
  BY <1>4 DEF Transcripts, Endings
<1> QED
  BY <1>1, <1>2, <1>3, <1>4 DEF captureEvent

\* What a trial may become, field by field.
LEMMA TrialFields ==
    ASSUME NEW t \in TrialStates
    PROVE  /\ \A a \in {"queued", "over"} \union Flying : [t EXCEPT !.at = a] \in TrialStates
           /\ [t EXCEPT !.at = "ran", !.out.pass = FALSE] \in TrialStates
           /\ \A tr \in Transcripts : [t EXCEPT !.tr = tr, !.events = @ + 1] \in TrialStates
           /\ \A a \in Flying, tr \in Transcripts, o \in Outcomes :
                 [t EXCEPT !.out = o, !.tr = tr, !.events = 0, !.turn = t.turn + 1, !.at = a]
                    \in TrialStates
<1>1. \A a \in {"queued", "over"} \union Flying : [t EXCEPT !.at = a] \in TrialStates
  BY DEF TrialStates
<1>2. [t EXCEPT !.at = "ran", !.out.pass = FALSE] \in TrialStates
  <2>1. [t.out EXCEPT !.pass = FALSE] \in Outcomes
    BY DEF TrialStates, Outcomes
  <2> QED
    BY <2>1 DEF TrialStates, Flying
<1>3. \A tr \in Transcripts : [t EXCEPT !.tr = tr, !.events = @ + 1] \in TrialStates
  <2>1. t.events + 1 \in Nat
    BY DEF TrialStates
  <2>2. ASSUME NEW tr \in Transcripts, NEW e \in Nat
        PROVE  [t EXCEPT !.tr = tr, !.events = e] \in TrialStates
    BY DEF TrialStates
  <2> QED
    BY <2>1, <2>2
<1>4. \A a \in Flying, tr \in Transcripts, o \in Outcomes :
        [t EXCEPT !.out = o, !.tr = tr, !.events = 0, !.turn = t.turn + 1, !.at = a] \in TrialStates
  <2>1. t.turn + 1 \in Nat
    BY DEF TrialStates
  <2>2. ASSUME NEW a \in Flying, NEW tr \in Transcripts, NEW o \in Outcomes, NEW n \in Nat
        PROVE  [t EXCEPT !.out = o, !.tr = tr, !.events = 0, !.turn = n, !.at = a] \in TrialStates
    BY DEF TrialStates
  <2> QED
    BY <2>1, <2>2
<1> QED
  BY <1>1, <1>2, <1>3, <1>4

LEMMA TrialMoves ==
    ASSUME EvalTypeOK, NEW s \in Slots, NEW t, Moves(s, t)
    PROVE  /\ trials'[s] = t /\ \A r \in Slots \ {s} : trials'[r] = trials[r]
           /\ t \in TrialStates => trials' \in [Slots -> TrialStates]
  BY DEF EvalTypeOK, Moves

\* The step that ends a turn, with the record it writes.
LEMMA TurnEnded ==
    ASSUME EvalTypeOK, NEW s \in Slots, TurnEnds(s)
    PROVE  \E tr \in Transcripts, p \in BOOLEAN, a \in {"ran", "turn"} :
              /\ Judgeless => p = Good(tr)
              /\ kept' = Append(kept, [task |-> s[1], trial |-> s[2], turn |-> trials[s].turn,
                                       tr |-> tr])
              /\ Moves(s, [trials[s] EXCEPT !.out = [pass |-> trials[s].out.pass /\ p,
                                                     ended |-> tr.ended,
                                                     turns |-> trials[s].turn],
                              !.tr = FreshTranscript, !.events = 0,
                              !.turn = trials[s].turn + 1, !.at = a])
<1> DEFINE t == trials[s]
           Finished(tr, p, a) ==
              [t EXCEPT !.out = [pass |-> t.out.pass /\ p, ended |-> tr.ended, turns |-> t.turn],
                        !.tr = FreshTranscript, !.events = 0, !.turn = t.turn + 1, !.at = a]
           At == IF t.turn = EvalTurns THEN "ran" ELSE "turn"
<1>1. PICK c \in {suite.done, TRUE} : \E g \in Grades(Captured(t.tr, c), c) :
        /\ kept' = Append(kept, [task |-> s[1], trial |-> s[2], turn |-> t.turn,
                                 tr |-> Captured(t.tr, c)])
        /\ Moves(s, Finished(Captured(t.tr, c), gradesPass(g), At))
  BY DEF TurnEnds
<1> DEFINE tr == Captured(t.tr, c)
<1> HIDE DEF Finished
<1>2. PICK g \in Grades(tr, c) : Moves(s, Finished(tr, gradesPass(g), At))
  BY <1>1
<1>3. tr \in Transcripts
  BY TranscriptsStay DEF EvalTypeOK, TrialStates
<1>4. gradesPass(g) \in BOOLEAN /\ (Judgeless => gradesPass(g) = Good(tr))
  BY PassIsBoolean, GradeIsSole
<1>5. At \in {"ran", "turn"}
  OBVIOUS
<1> HIDE DEF tr, At
<1>6. kept' = Append(kept, [task |-> s[1], trial |-> s[2], turn |-> t.turn, tr |-> tr])
  BY <1>1 DEF tr
<1>7. \E x \in Transcripts, p \in BOOLEAN, a \in {"ran", "turn"} :
        /\ Judgeless => p = Good(x)
        /\ kept' = Append(kept, [task |-> s[1], trial |-> s[2], turn |-> t.turn, tr |-> x])
        /\ Moves(s, Finished(x, p, a))
  BY <1>2, <1>3, <1>4, <1>5, <1>6
<1> QED
  BY <1>7 DEF Finished

LEMMA EvalTyped ==
    ASSUME EvalTypeOK, [EvalNext]_evalVars
    PROVE  EvalTypeOK'
<1>0. \A s \in Slots : trials[s] \in TrialStates
  BY DEF EvalTypeOK
<1>1. ASSUME NEW s \in Slots, Dispatch(s) PROVE EvalTypeOK'
  <2>1. trials' \in [Slots -> TrialStates]
    BY <1>0, <1>1, TrialFields, TrialMoves DEF Dispatch, Flying
  <2> QED
    BY <1>1, <2>1 DEF Dispatch, EvalTypeOK
<1>2. ASSUME NEW s \in Slots, NewTarget(s) PROVE EvalTypeOK'
  <2>1. trials' \in [Slots -> TrialStates]
    BY <1>0, <1>2, TrialFields, TrialMoves DEF NewTarget, Flying
  <2> QED
    BY <1>2, <2>1 DEF NewTarget, EvalTypeOK
<1>3. ASSUME NEW s \in Slots, Event(s) PROVE EvalTypeOK'
  <2>1. trials' \in [Slots -> TrialStates]
    <3>1. PICK tr \in captureEvent(trials[s].tr) :
            Moves(s, [trials[s] EXCEPT !.tr = tr, !.events = @ + 1])
      BY <1>3 DEF Event
    <3>2. tr \in Transcripts
      BY <1>0, TranscriptsStay DEF TrialStates
    <3> QED
      BY <1>0, <3>1, <3>2, TrialFields, TrialMoves
  <2> QED
    BY <1>3, <2>1 DEF Event, EvalTypeOK
<1>4. ASSUME NEW s \in Slots, TurnEnds(s) PROVE EvalTypeOK'
  <2> DEFINE t == trials[s]
             Out(tr, p) == [pass |-> t.out.pass /\ p, ended |-> tr.ended, turns |-> t.turn]
  <2>1. PICK tr \in Transcripts, p \in BOOLEAN, a \in {"ran", "turn"} :
          /\ kept' = Append(kept, [task |-> s[1], trial |-> s[2], turn |-> t.turn, tr |-> tr])
          /\ Moves(s, [t EXCEPT !.out = Out(tr, p), !.tr = FreshTranscript, !.events = 0,
                                !.turn = t.turn + 1, !.at = a])
    BY <1>4, TurnEnded
  <2>2. [task |-> s[1], trial |-> s[2], turn |-> t.turn, tr |-> tr] \in Records
    BY <1>0 DEF Records, Slots, TrialStates
  <2>3. kept' \in Seq(Records)
    BY <2>1, <2>2 DEF EvalTypeOK
  <2>4. Out(tr, p) \in Outcomes
    BY <1>0 DEF TrialStates, Outcomes, Transcripts
  <2>5. FreshTranscript \in Transcripts
    BY DEF FreshTranscript, Transcripts, Endings
  <2> HIDE DEF Out
  <2>6. trials' \in [Slots -> TrialStates]
    BY <1>0, <2>1, <2>4, <2>5, TrialFields, TrialMoves DEF Flying
  <2> QED
    BY <1>4, <2>3, <2>6 DEF TurnEnds, EvalTypeOK
<1>5. ASSUME NEW s \in Slots, FileResult(s) PROVE EvalTypeOK'
  <2>1. trials' \in [Slots -> TrialStates]
    BY <1>0, <1>5, TrialFields, TrialMoves DEF FileResult, Flying
  <2> QED
    BY <1>0, <1>5, <2>1 DEF FileResult, EvalTypeOK, TrialStates
<1>6. ASSUME NEW s \in Slots, TrialEnds(s) PROVE EvalTypeOK'
  <2>1. trials' \in [Slots -> TrialStates]
    BY <1>0, <1>6, TrialFields, TrialMoves DEF TrialEnds, Flying
  <2>2. pool.held - 1 \in Int /\ pool.waits - 1 \in Int
    BY DEF EvalTypeOK
  <2>3. pool' \in [sent : SUBSET Slots, held : Int, waits : Int]
    BY <1>6, <2>2 DEF TrialEnds, EvalTypeOK
  <2> QED
    BY <1>6, <2>1, <2>3 DEF TrialEnds, EvalTypeOK
<1>7. CASE Cancel
  BY <1>7 DEF Cancel, EvalTypeOK
<1>8. CASE Report \/ GradeRecorded
  BY <1>8 DEF Report, GradeRecorded, EvalTypeOK
<1>9. CASE UNCHANGED evalVars
  BY <1>9 DEF evalVars, EvalTypeOK
<1> QED
  BY <1>1, <1>2, <1>3, <1>4, <1>5, <1>6, <1>7, <1>8, <1>9 DEF EvalNext

\* A step that changes neither outcome nor transcripts.
LEMMA TrialSame ==
    ASSUME NEW s, TrialIsKept(s), kept' = kept, suite'.graders = suite.graders,
           suite'.minScore = suite.minScore,
           trials'[s].out = trials[s].out, trials'[s].turn = trials[s].turn,
           (trials'[s].at \in {"queued", "start", "turn"})
              <=> (trials[s].at \in {"queued", "start", "turn"}),
           trials'[s].at \in {"queued", "start"} => trials[s].at \in {"queued", "start"},
           trials'[s].at \in {"filed", "over"} => results'[s] = trials'[s].out
    PROVE  TrialIsKept(s)'
<1>1. Recorded(s)' = Recorded(s)
  BY DEF Recorded, byTrial
<1>2. TurnsAreKept(s)'
  BY <1>1 DEF TrialIsKept, TurnsAreKept
<1>3. PassIsKept(s)'
  <2>1. \A i \in Recorded(s) : Good(kept[i].tr)' = Good(kept[i].tr)
    BY GoodIsStable
  <2>2. (\A i \in Recorded(s) : Good(kept[i].tr))' = \A i \in Recorded(s) : Good(kept[i].tr)
    BY <1>1, <2>1
  <2> QED
    BY <2>2 DEF TrialIsKept, PassIsKept, Judgeless
<1> QED
  BY <1>2, <1>3 DEF TrialIsKept

LEMMA OthersStay ==
    ASSUME \A r \in Slots : TrialIsKept(r), NEW s \in Slots, kept' = kept,
           suite'.graders = suite.graders, suite'.minScore = suite.minScore,
           \A r \in Slots \ {s} : trials'[r] = trials[r] /\ results'[r] = results[r]
    PROVE  \A r \in Slots \ {s} : TrialIsKept(r)'
<1> TAKE r \in Slots \ {s}
<1>1. Recorded(r)' = Recorded(r)
  BY DEF Recorded, byTrial
<1> QED
  BY <1>1, TrialStays

\* While a trial is not over there is no report.
LEMMA Unreported ==
    ASSUME ReportIsMade, NEW s \in Slots, trials[s].at # "over", report' = report
    PROVE  ReportIsMade'
  BY DEF ReportIsMade

\* A trial that stays between its dispatch and its end.
LEMMA CountStays ==
    ASSUME EvalTypeOK, PoolIsCounted, NEW s \in Slots, NEW t, Moves(s, t), pool' = pool,
           trials[s].at \in Flying, t.at \in Flying
    PROVE  PoolIsCounted'
<1>1. \A r \in Slots : trials'[r] = IF r = s THEN t ELSE trials[r]
  BY DEF Moves, EvalTypeOK
<1>2. InFlight' = InFlight
  BY <1>1 DEF InFlight
<1>3. \A r \in Slots : trials'[r].at = "queued" <=> trials[r].at = "queued"
  BY <1>1 DEF Flying
<1> QED
  BY <1>2, <1>3 DEF PoolIsCounted

LEMMA DispatchKeeps ==
    ASSUME EvalInv, NEW s \in Slots, Dispatch(s)
    PROVE  EvalInv'
<1> DEFINE t == [trials[s] EXCEPT !.at = "start"]
<1>1. trials[s] \in TrialStates /\ trials[s].at = "queued"
  BY DEF EvalInv, EvalTypeOK, PoolIsCounted, Dispatch
<1>2. t.at = "start" /\ t.out = trials[s].out /\ t.turn = trials[s].turn
  BY <1>1 DEF TrialStates
<1>3. Moves(s, t)
  BY DEF Dispatch
<1> HIDE DEF t
<1>4. /\ trials'[s] = t /\ \A r \in Slots \ {s} : trials'[r] = trials[r]
      /\ results' = results /\ kept' = kept /\ suite' = suite /\ report' = report
  BY <1>3, TrialMoves DEF EvalInv, Dispatch
<1>5. EvalTypeOK'
  BY EvalTyped DEF EvalInv, EvalNext
<1>6. TrialIsKept(s)'
  BY <1>1, <1>2, <1>4, TrialSame DEF EvalInv
<1>7. \A r \in Slots \ {s} : TrialIsKept(r)'
  BY <1>4, OthersStay DEF EvalInv
<1>8. PoolIsCounted'
  <2>1. InFlight' = InFlight \union {s} /\ s \notin InFlight
    BY <1>1, <1>2, <1>4 DEF InFlight, Flying
  <2>2. IsFiniteSet(InFlight') /\ Cardinality(InFlight') = Cardinality(InFlight) + 1
    BY <2>1, FS_AddElement DEF EvalInv, PoolIsCounted
  <2>3. pool'.waits = pool.waits + 1 /\ pool'.sent = pool.sent \union {s}
    BY DEF Dispatch
  <2>4. \A r \in Slots : r \in pool'.sent <=> trials'[r].at # "queued"
    BY <1>2, <1>4, <2>3 DEF EvalInv, PoolIsCounted
  <2> QED
    BY <2>2, <2>3, <2>4 DEF EvalInv, PoolIsCounted
<1>9. ReportIsMade'
  BY <1>1, <1>4, Unreported DEF EvalInv
<1> QED
  BY <1>5, <1>6, <1>7, <1>8, <1>9 DEF EvalInv

LEMMA NewTargetKeeps ==
    ASSUME EvalInv, NEW s \in Slots, NewTarget(s)
    PROVE  EvalInv'
<1>0. /\ trials[s] \in TrialStates /\ trials[s].at = "start" /\ trials[s].out.turns = 0
      /\ trials[s].out \in Outcomes
  BY DEF EvalInv, EvalTypeOK, NewTarget, TrialIsKept, PassIsKept, TrialStates
<1>1. EvalTypeOK'
  BY EvalTyped DEF EvalInv, EvalNext
<1>2. results' = results /\ kept' = kept /\ suite' = suite /\ report' = report /\ pool' = pool
  BY DEF NewTarget
<1>3. ReportIsMade'
  BY <1>0, <1>2, Unreported DEF EvalInv
<1>4. CASE Moves(s, [trials[s] EXCEPT !.at = "turn"])
  <2> DEFINE t == [trials[s] EXCEPT !.at = "turn"]
  <2>1. t.at = "turn" /\ t.out = trials[s].out /\ t.turn = trials[s].turn
    BY <1>0 DEF TrialStates
  <2> HIDE DEF t
  <2>2. Moves(s, t) /\ trials'[s] = t /\ \A r \in Slots \ {s} : trials'[r] = trials[r]
    BY <1>4, TrialMoves DEF EvalInv, t
  <2>3. TrialIsKept(s)'
    BY <1>0, <1>2, <2>1, <2>2, TrialSame DEF EvalInv
  <2>4. PoolIsCounted'
    BY <1>0, <1>2, <2>1, <2>2, CountStays DEF EvalInv, Flying
  <2> QED
    BY <1>1, <1>2, <1>3, <2>2, <2>3, <2>4, OthersStay DEF EvalInv
<1>5. CASE Moves(s, [trials[s] EXCEPT !.at = "ran", !.out.pass = FALSE])
  <2> DEFINE t == [trials[s] EXCEPT !.at = "ran", !.out.pass = FALSE]
  <2>1. /\ t.at = "ran" /\ t.out = [trials[s].out EXCEPT !.pass = FALSE]
        /\ t.turn = trials[s].turn
    BY <1>0 DEF TrialStates
  <2>2. ~t.out.pass /\ t.out.turns = 0
    BY <1>0, <2>1 DEF Outcomes
  <2> HIDE DEF t
  <2>3. Moves(s, t) /\ trials'[s] = t /\ \A r \in Slots \ {s} : trials'[r] = trials[r]
    BY <1>5, TrialMoves DEF EvalInv, t
  <2>4. Recorded(s)' = Recorded(s)
    BY <1>2 DEF Recorded, byTrial
  <2>9. /\ trials'[s].out.turns = 0 /\ ~trials'[s].out.pass
        /\ trials'[s].turn = trials[s].turn /\ trials'[s].at = "ran"
    BY <2>1, <2>2, <2>3
  <2>10. TurnsAreKept(s)
    BY DEF EvalInv, TrialIsKept
  <2>5. TurnsAreKept(s)'
    BY <1>0, <1>2, <2>9, <2>10, <2>4 DEF TurnsAreKept
  <2>6. PassIsKept(s)'
    BY ONLY <2>9 DEF PassIsKept
  <2>7. TrialIsKept(s)'
    BY <2>1, <2>3, <2>5, <2>6 DEF TrialIsKept
  <2>8. PoolIsCounted'
    BY <1>0, <1>2, <2>1, <2>3, CountStays DEF EvalInv, Flying
  <2> QED
    BY <1>1, <1>2, <1>3, <2>3, <2>7, <2>8, OthersStay DEF EvalInv
<1> QED
  BY <1>4, <1>5 DEF NewTarget

LEMMA EventKeeps ==
    ASSUME EvalInv, NEW s \in Slots, Event(s)
    PROVE  EvalInv'
<1>0. trials[s] \in TrialStates /\ trials[s].at = "turn"
  BY DEF EvalInv, EvalTypeOK, Event
<1>1. EvalTypeOK'
  BY EvalTyped DEF EvalInv, EvalNext
<1>2. results' = results /\ kept' = kept /\ suite' = suite /\ report' = report /\ pool' = pool
  BY DEF Event
<1>3. ReportIsMade'
  BY <1>0, <1>2, Unreported DEF EvalInv
<1>4. PICK tr : Moves(s, [trials[s] EXCEPT !.tr = tr, !.events = @ + 1])
  BY DEF Event
<1> DEFINE t == [trials[s] EXCEPT !.tr = tr, !.events = @ + 1]
<1>5. t.at = "turn" /\ t.out = trials[s].out /\ t.turn = trials[s].turn
  BY <1>0 DEF TrialStates
<1> HIDE DEF t
<1>6. Moves(s, t) /\ trials'[s] = t /\ \A r \in Slots \ {s} : trials'[r] = trials[r]
  BY <1>4, TrialMoves DEF EvalInv, t
<1>7. TrialIsKept(s)'
  BY <1>0, <1>2, <1>5, <1>6, TrialSame DEF EvalInv
<1>8. PoolIsCounted'
  BY <1>0, <1>2, <1>5, <1>6, CountStays DEF EvalInv, Flying
<1> QED
  BY <1>1, <1>2, <1>3, <1>6, <1>7, <1>8, OthersStay DEF EvalInv

LEMMA FileResultKeeps ==
    ASSUME EvalInv, NEW s \in Slots, FileResult(s)
    PROVE  EvalInv'
<1>0. trials[s] \in TrialStates /\ trials[s].at = "ran"
  BY DEF EvalInv, EvalTypeOK, FileResult
<1>1. EvalTypeOK'
  BY EvalTyped DEF EvalInv, EvalNext
<1>2. /\ results'[s] = trials[s].out /\ \A r \in Slots \ {s} : results'[r] = results[r]
      /\ kept' = kept /\ suite' = suite /\ report' = report /\ pool' = pool
  BY DEF FileResult, EvalInv, EvalTypeOK
<1>3. ReportIsMade'
  BY <1>0, <1>2, Unreported DEF EvalInv
<1> DEFINE t == [trials[s] EXCEPT !.at = "filed"]
<1>4. t.at = "filed" /\ t.out = trials[s].out /\ t.turn = trials[s].turn
  BY <1>0 DEF TrialStates
<1> HIDE DEF t
<1>5. Moves(s, t) /\ trials'[s] = t /\ \A r \in Slots \ {s} : trials'[r] = trials[r]
  BY TrialMoves DEF EvalInv, t, FileResult
<1>6. TrialIsKept(s)'
  BY <1>0, <1>2, <1>4, <1>5, TrialSame DEF EvalInv
<1>7. PoolIsCounted'
  BY <1>0, <1>2, <1>4, <1>5, CountStays DEF EvalInv, Flying
<1> QED
  BY <1>1, <1>2, <1>3, <1>5, <1>6, <1>7, OthersStay DEF EvalInv

LEMMA TrialEndsKeeps ==
    ASSUME EvalInv, NEW s \in Slots, TrialEnds(s)
    PROVE  EvalInv'
<1>0. trials[s] \in TrialStates /\ trials[s].at = "filed" /\ results[s] = trials[s].out
  BY DEF EvalInv, EvalTypeOK, TrialEnds, TrialIsKept
<1>1. EvalTypeOK'
  BY EvalTyped DEF EvalInv, EvalNext
<1>2. results' = results /\ kept' = kept /\ suite' = suite /\ report' = report
  BY DEF TrialEnds
<1>3. ReportIsMade'
  BY <1>0, <1>2, Unreported DEF EvalInv
<1> DEFINE t == [trials[s] EXCEPT !.at = "over"]
<1>4. t.at = "over" /\ t.out = trials[s].out /\ t.turn = trials[s].turn
  BY <1>0 DEF TrialStates
<1> HIDE DEF t
<1>5. Moves(s, t) /\ trials'[s] = t /\ \A r \in Slots \ {s} : trials'[r] = trials[r]
  BY TrialMoves DEF EvalInv, t, TrialEnds
<1>6. TrialIsKept(s)'
  BY <1>0, <1>2, <1>4, <1>5, TrialSame DEF EvalInv
<1>7. PoolIsCounted'
  <2>1. InFlight' = InFlight \ {s} /\ s \in InFlight
    BY <1>0, <1>4, <1>5 DEF InFlight, Flying
  <2>2. IsFiniteSet(InFlight') /\ Cardinality(InFlight') = Cardinality(InFlight) - 1
    BY <2>1, FS_RemoveElement DEF EvalInv, PoolIsCounted
  <2>3. pool'.waits = pool.waits - 1 /\ pool'.sent = pool.sent
    BY DEF TrialEnds, EvalInv, EvalTypeOK
  <2>4. \A r \in Slots : r \in pool'.sent <=> trials'[r].at # "queued"
    BY <1>0, <1>4, <1>5, <2>3 DEF EvalInv, PoolIsCounted
  <2> QED
    BY <2>2, <2>3, <2>4 DEF EvalInv, PoolIsCounted
<1> QED
  BY <1>1, <1>2, <1>3, <1>5, <1>6, <1>7, OthersStay DEF EvalInv

\* What the record at the end adds to the trials' records.
LEMMA RecordAdded ==
    ASSUME EvalTypeOK, NEW s \in Slots, NEW rec, kept' = Append(kept, rec),
           rec.task = s[1], rec.trial = s[2]
    PROVE  /\ Len(kept) + 1 \notin Recorded(s) /\ kept'[Len(kept) + 1] = rec
           /\ Recorded(s)' = Recorded(s) \union {Len(kept) + 1}
           /\ \A r \in Slots \ {s} : Recorded(r)' = Recorded(r)
           /\ \A r \in Slots : \A i \in Recorded(r) : kept'[i] = kept[i]
<1>1. kept \in Seq(Records)
  BY DEF EvalTypeOK
<1>2. PICK n \in Nat : n = Len(kept) /\ DOMAIN kept = 1 .. n
  BY <1>1
<1>3. DOMAIN kept' = 1 .. n + 1 /\ kept'[n + 1] = rec /\ \A i \in 1 .. n : kept'[i] = kept[i]
  BY <1>1, <1>2
<1>4. \A r : Recorded(r) = {i \in 1 .. n : kept[i].task = r[1] /\ kept[i].trial = r[2]}
  BY <1>2 DEF Recorded, byTrial
<1>5. \A r : Recorded(r)' = {i \in 1 .. n + 1 : kept'[i].task = r[1] /\ kept'[i].trial = r[2]}
  BY <1>3 DEF Recorded, byTrial
<1>6. \A r \in Slots \ {s} : ~(rec.task = r[1] /\ rec.trial = r[2])
  BY DEF Slots
<1>7. Recorded(s)' = Recorded(s) \union {n + 1}
  BY <1>3, <1>4, <1>5
<1>8. ASSUME NEW r \in Slots \ {s} PROVE Recorded(r)' = Recorded(r)
  <2>1. ~(kept'[n + 1].task = r[1] /\ kept'[n + 1].trial = r[2])
    BY <1>3, <1>6
  <2> DEFINE OldOnes == {i \in 1 .. n : kept[i].task = r[1] /\ kept[i].trial = r[2]}
             NewOnes == {i \in 1 .. n + 1 : kept'[i].task = r[1] /\ kept'[i].trial = r[2]}
  <2>2. ASSUME NEW i PROVE i \in OldOnes <=> i \in NewOnes
    BY <1>3, <2>1
  <2>3. OldOnes = NewOnes
    BY <2>2
  <2>4. Recorded(r) = OldOnes /\ Recorded(r)' = NewOnes
    BY ONLY <1>4, <1>5
  <2> QED
    BY ONLY <2>3, <2>4
<1> QED
  BY <1>2, <1>3, <1>4, <1>7, <1>8

LEMMA TurnEndsKeeps ==
    ASSUME EvalInv, NEW s \in Slots, TurnEnds(s)
    PROVE  EvalInv'
<1>0. /\ trials[s] \in TrialStates /\ trials[s].at = "turn" /\ trials[s].out \in Outcomes
      /\ trials[s].turn \in Nat
  BY DEF EvalInv, EvalTypeOK, TurnEnds, TrialStates
<1>1. EvalTypeOK'
  BY EvalTyped DEF EvalInv, EvalNext
<1>2. results' = results /\ suite' = suite /\ report' = report /\ pool' = pool
  BY DEF TurnEnds
<1>3. ReportIsMade'
  BY <1>0, <1>2, Unreported DEF EvalInv
<1>4. PICK tr \in Transcripts, p \in BOOLEAN, a \in {"ran", "turn"} :
        /\ Judgeless => p = Good(tr)
        /\ kept' = Append(kept, [task |-> s[1], trial |-> s[2], turn |-> trials[s].turn, tr |-> tr])
        /\ Moves(s, [trials[s] EXCEPT !.out = [pass |-> trials[s].out.pass /\ p,
                                               ended |-> tr.ended, turns |-> trials[s].turn],
                        !.tr = FreshTranscript, !.events = 0,
                        !.turn = trials[s].turn + 1, !.at = a])
  BY TurnEnded DEF EvalInv
<1> DEFINE old == trials[s]
           out == [pass |-> old.out.pass /\ p, ended |-> tr.ended, turns |-> old.turn]
           rec == [task |-> s[1], trial |-> s[2], turn |-> old.turn, tr |-> tr]
           t == [old EXCEPT !.out = out, !.tr = FreshTranscript, !.events = 0,
                            !.turn = old.turn + 1, !.at = a]
<1>5. t.at = a /\ t.out = out /\ t.turn = old.turn + 1
  BY <1>0 DEF TrialStates
<1>6. rec.task = s[1] /\ rec.trial = s[2] /\ rec.turn = old.turn /\ rec.tr = tr
  OBVIOUS
<1>7. kept' = Append(kept, rec) /\ Moves(s, t)
  BY <1>4
<1>8. (out.pass <=> old.out.pass /\ p) /\ out.ended = tr.ended /\ out.turns = old.turn
  OBVIOUS
<1> HIDE DEF t, rec, out
<1>9. trials'[s] = t /\ \A r \in Slots \ {s} : trials'[r] = trials[r]
  BY <1>7, TrialMoves DEF EvalInv
<1>10. PICK new :
       /\ new \notin Recorded(s) /\ kept'[new] = rec
       /\ Recorded(s)' = Recorded(s) \union {new}
       /\ \A r \in Slots \ {s} : Recorded(r)' = Recorded(r)
       /\ \A r \in Slots : \A i \in Recorded(r) : kept'[i] = kept[i]
  BY <1>6, <1>7, RecordAdded DEF EvalInv
<1> HIDE DEF old
<1>11. PoolIsCounted'
  BY <1>0, <1>2, <1>4, <1>5, <1>7, CountStays DEF EvalInv, Flying
<1>12. \A r \in Slots \ {s} : TrialIsKept(r)'
  BY <1>2, <1>9, <1>10, TrialStays DEF EvalInv
<1>13. TurnsAreKept(s) /\ PassIsKept(s)
  BY DEF EvalInv, TrialIsKept
<1>14. old.out.turns \in Nat /\ old.turn = old.out.turns + 1 /\ old.at = "turn"
  BY <1>0, <1>13 DEF TurnsAreKept, old, Outcomes
<1>15. \A i \in Recorded(s) : kept[i].turn \in 1 .. old.out.turns
  BY <1>13 DEF TurnsAreKept, old
<1>16. \A i, j \in Recorded(s) : kept[i].turn = kept[j].turn => i = j
  BY <1>13 DEF TurnsAreKept
<1>17. TurnsAreKept(s)'
  <2>1. t.turn = t.out.turns + 1 /\ t.out.turns = old.out.turns + 1 /\ t.out.ended = tr.ended
    BY <1>5, <1>8, <1>14
  <2>2. \A i \in Recorded(s) \union {new} : kept'[i].turn \in 1 .. old.out.turns + 1
    BY <1>6, <1>10, <1>14, <1>15
  <2>3. \A i, j \in Recorded(s) \union {new} : kept'[i].turn = kept'[j].turn => i = j
    <3> TAKE i, j \in Recorded(s) \union {new}
    <3>1. \A l \in Recorded(s) : kept'[l].turn # kept'[new].turn
      BY <1>6, <1>10, <1>14, <1>15
    <3> QED
      BY <3>1, <1>10, <1>16
  <2>4. kept'[new].turn = old.out.turns + 1 /\ kept'[new].tr.ended = tr.ended
    BY <1>6, <1>10, <1>14
  <2> QED
    BY <1>9, <1>10, <2>1, <2>2, <2>3, <2>4 DEF TurnsAreKept
<1>18. PassIsKept(s)'
  <2>1. t.out.turns > 0 /\ t.at \notin {"queued", "start"}
    BY <1>4, <1>5, <1>8, <1>14
  <2>2. ASSUME Judgeless'
        PROVE  t.out.pass <=> (\A i \in Recorded(s) : Good(kept[i].tr))'
    <3>1. Judgeless
      BY <1>2, <2>2 DEF Judgeless
    <3>2. old.out.pass <=> \A i \in Recorded(s) : Good(kept[i].tr)
      <4>1. CASE old.out.turns = 0
        BY <4>1, <1>13, <1>14, <1>15 DEF PassIsKept, old
      <4>2. CASE old.out.turns > 0
        BY <4>2, <3>1, <1>13 DEF PassIsKept, old
      <4> QED
        BY <4>1, <4>2, <1>14
    <3>3. \A i \in Recorded(s) : Good(kept[i].tr)' <=> Good(kept[i].tr)
      BY <1>2, <1>10, GoodIsStable
    <3>4. Good(kept[new].tr)' <=> Good(tr)
      BY <1>2, <1>6, <1>10, GoodIsStable
    <3>5. (\A i \in Recorded(s) : Good(kept[i].tr))'
             <=> Good(tr) /\ \A i \in Recorded(s) : Good(kept[i].tr)
      BY <1>10, <3>3, <3>4
    <3> QED
      BY <1>4, <1>5, <1>8, <3>1, <3>2, <3>5
  <2> QED
    BY <1>9, <2>1, <2>2 DEF PassIsKept
<1>19. t.at \notin {"filed", "over"}
  BY <1>4, <1>5
<1>20. TrialIsKept(s)'
  BY <1>9, <1>17, <1>18, <1>19 DEF TrialIsKept
<1> QED
  BY <1>1, <1>3, <1>11, <1>12, <1>20 DEF EvalInv

LEMMA CancelKeeps ==
    ASSUME EvalInv, Cancel
    PROVE  EvalInv'
<1>1. EvalTypeOK'
  BY EvalTyped DEF EvalInv, EvalNext
<1>2. /\ trials' = trials /\ pool' = pool /\ results' = results /\ kept' = kept /\ report' = report
      /\ suite'.graders = suite.graders /\ suite'.minScore = suite.minScore
  BY DEF Cancel, EvalInv, EvalTypeOK
<1>3. \A s \in Slots : TrialIsKept(s)'
  <2> TAKE s \in Slots
  <2>1. Recorded(s)' = Recorded(s)
    BY <1>2 DEF Recorded, byTrial
  <2> QED
    BY <1>2, <2>1, TrialStays DEF EvalInv
<1>4. PoolIsCounted'
  BY <1>2 DEF EvalInv, PoolIsCounted, InFlight
<1>5. ReportIsMade'
  BY <1>2 DEF EvalInv, ReportIsMade, Judgeless, trialNums
<1> QED
  BY <1>1, <1>3, <1>4, <1>5 DEF EvalInv

LEMMA ReportKeeps ==
    ASSUME EvalInv, Report
    PROVE  EvalInv'
<1>1. EvalTypeOK'
  BY EvalTyped DEF EvalInv, EvalNext
<1>2. trials' = trials /\ pool' = pool /\ results' = results /\ kept' = kept /\ suite' = suite
  BY DEF Report
<1>3. \A s \in Slots : TrialIsKept(s)'
  <2> TAKE s \in Slots
  <2>1. Recorded(s)' = Recorded(s)
    BY <1>2 DEF Recorded, byTrial
  <2> QED
    BY <1>2, <2>1, TrialStays DEF EvalInv
<1>4. PoolIsCounted'
  BY <1>2 DEF EvalInv, PoolIsCounted, InFlight
<1>5. \A s \in Slots : trials[s].at = "over"
  <2>1. InFlight = {}
    BY FS_EmptySet DEF EvalInv, PoolIsCounted, Report
  <2>2. \A s \in Slots : trials[s].at \in {"queued", "over"} \union Flying
    BY DEF EvalInv, EvalTypeOK, TrialStates
  <2> QED
    BY <2>1, <2>2 DEF EvalInv, PoolIsCounted, Report, InFlight
<1>6. report'.replay = report.replay /\ report.replay = <<>>
  BY DEF Report, EvalInv, EvalTypeOK, ReportIsMade
<1>7. report'.live = [k \in EvalTasks |-> aggregateTask({results[<<k, n>>] : n \in 1 .. EvalTrials})]
  BY DEF Report, EvalInv, EvalTypeOK
<1>8. ReportIsMade'
  BY <1>2, <1>5, <1>6, <1>7 DEF ReportIsMade
<1> QED
  BY <1>1, <1>3, <1>4, <1>8 DEF EvalInv

\* The record of a trial gives the outcome the trial had.
LEMMA RegradeIsLive ==
    ASSUME EvalInv, Judgeless, NEW k \in EvalTasks, NEW n \in trialNums(k)
    PROVE  /\ regradeTrial(k, n) = trials[<<k, n>>].out
           /\ n \in 1 .. EvalTrials /\ trials[<<k, n>>].out.turns > 0
<1> DEFINE s == <<k, n>>
           R == byTrial(k, n)
<1>1. PICK j \in DOMAIN kept : kept[j].task = k /\ kept[j].trial = n
  BY DEF trialNums
<1>2. n \in 1 .. EvalTrials /\ s \in Slots /\ j \in R
  <2>1. kept[j] \in Records
    BY <1>1, ElementOfSeq DEF EvalInv, EvalTypeOK
  <2> QED
    BY <1>1, <2>1 DEF Records, Slots, byTrial
<1>3. R = Recorded(s)
  BY DEF Recorded
<1>4. PICK out \in Outcomes : out = trials[s].out
  BY <1>2 DEF EvalInv, EvalTypeOK, TrialStates
<1>5. TurnsAreKept(s) /\ PassIsKept(s)
  BY <1>2 DEF EvalInv, TrialIsKept
<1> HIDE DEF s, R
<1>6. /\ \A i \in R : kept[i].turn \in 1 .. out.turns
      /\ \A i, l \in R : kept[i].turn = kept[l].turn => i = l
      /\ out.turns > 0 => \E i \in R : kept[i].turn = out.turns /\ kept[i].tr.ended = out.ended
  BY <1>3, <1>4, <1>5 DEF TurnsAreKept
<1>7. out.turns \in Nat /\ out.turns > 0
  BY <1>2, <1>6 DEF Outcomes
<1>8. PICK i \in R : kept[i].turn = out.turns /\ kept[i].tr.ended = out.ended
  BY <1>6, <1>7
<1> DEFINE last == CHOOSE x \in R : \A y \in R : kept[y].turn <= kept[x].turn
<1>9. last = i
  <2>1. \A y \in R : kept[y].turn <= kept[i].turn
    BY <1>6, <1>7, <1>8
  <2>2. last \in R /\ \A y \in R : kept[y].turn <= kept[last].turn
    BY <2>1
  <2> QED
    BY <1>6, <1>7, <1>8, <2>2
<1>10. out.pass <=> \A x \in R : Good(kept[x].tr)
  BY <1>3, <1>4, <1>5, <1>7 DEF PassIsKept
<1> HIDE DEF last
<1>11. regradeTrial(k, n) = [pass |-> \A x \in R : Good(kept[x].tr),
                            ended |-> kept[last].tr.ended, turns |-> kept[last].turn]
  BY DEF regradeTrial, R, last, Good
<1>12. (\A x \in R : Good(kept[x].tr)) = out.pass
  BY <1>10 DEF Outcomes
<1>13. out = [pass |-> out.pass, ended |-> out.ended, turns |-> out.turns]
  BY DEF Outcomes
<1> QED
  BY <1>2, <1>4, <1>7, <1>8, <1>9, <1>11, <1>12, <1>13 DEF s

\* The trial numbers in the record are those of the trials with turns.
LEMMA TrialsRecorded ==
    ASSUME EvalInv, NEW k \in EvalTasks, NEW n \in 1 .. EvalTrials
    PROVE  trials[<<k, n>>].out.turns = 0 <=> n \notin trialNums(k)
<1>1. <<k, n>> \in Slots
  BY DEF Slots
<1>2. PICK out \in Outcomes : out = trials[<<k, n>>].out
  BY <1>1 DEF EvalInv, EvalTypeOK, TrialStates
<1>3. TurnsAreKept(<<k, n>>)
  BY <1>1 DEF EvalInv, TrialIsKept
<1>4. Recorded(<<k, n>>) = byTrial(k, n)
  BY DEF Recorded
<1>5. n \in trialNums(k) <=> byTrial(k, n) # {}
  BY DEF trialNums, byTrial
<1>6. /\ \A i \in byTrial(k, n) : kept[i].turn \in 1 .. out.turns
      /\ out.turns > 0 => \E i \in byTrial(k, n) : kept[i].turn = out.turns
  BY <1>2, <1>3, <1>4 DEF TurnsAreKept
<1>7. out.turns \in Nat
  BY DEF Outcomes
<1> QED
  BY <1>2, <1>5, <1>6, <1>7

LEMMA GradeRecordedKeeps ==
    ASSUME EvalInv, GradeRecorded
    PROVE  EvalInv'
<1>1. EvalTypeOK'
  BY EvalTyped DEF EvalInv, EvalNext
<1>2. trials' = trials /\ pool' = pool /\ results' = results /\ kept' = kept /\ suite' = suite
  BY DEF GradeRecorded
<1>3. \A s \in Slots : TrialIsKept(s)'
  <2> TAKE s \in Slots
  <2>1. Recorded(s)' = Recorded(s)
    BY <1>2 DEF Recorded, byTrial
  <2> QED
    BY <1>2, <2>1, TrialStays DEF EvalInv
<1>4. PoolIsCounted'
  BY <1>2 DEF EvalInv, PoolIsCounted, InFlight
<1>5. Judgeless /\ report.live # <<>>
  BY DEF GradeRecorded, Judgeless
<1>6. report'.live = report.live /\ report'.replay = [k \in EvalTasks |-> regradeTask(k)]
  BY DEF GradeRecorded, EvalInv, EvalTypeOK
<1>7. \A k \in EvalTasks : regradeTask(k) = aggregateTask({trials[<<k, n>>].out : n \in trialNums(k)})
  <2> TAKE k \in EvalTasks
  <2>1. \A n \in trialNums(k) : regradeTrial(k, n) = trials[<<k, n>>].out
    BY <1>5, RegradeIsLive
  <2>2. {regradeTrial(k, n) : n \in trialNums(k)} = {trials[<<k, n>>].out : n \in trialNums(k)}
    BY <2>1
  <2> QED
    BY <2>2 DEF regradeTask
<1>8. report'.replay =
         [k \in EvalTasks |-> aggregateTask({trials[<<k, n>>].out : n \in trialNums(k)})]
  BY <1>6, <1>7
<1>9. ReportIsMade'
  <2> DEFINE Told == [k \in EvalTasks |-> aggregateTask({results[<<k, n>>] : n \in 1 .. EvalTrials})]
             Replayed ==
                [k \in EvalTasks |-> aggregateTask({trials[<<k, n>>].out : n \in trialNums(k)})]
  <2>1. Told' = Told /\ Replayed' = Replayed
    BY <1>2 DEF trialNums
  <2>2. /\ report.live # <<>> => (\A s \in Slots : trials[s].at = "over") /\ report.live = Told
        /\ Judgeless'
    BY <1>2, <1>5 DEF EvalInv, ReportIsMade, Judgeless
  <2>3. report'.replay = Replayed /\ report'.live = report.live
    BY <1>6, <1>8
  <2>4. ReportIsMade' <=>
          /\ report'.live # <<>> => (\A s \in Slots : trials'[s].at = "over") /\ report'.live = Told'
          /\ report'.replay # <<>> => report'.live # <<>> /\ Judgeless' /\ report'.replay = Replayed'
    BY DEF ReportIsMade
  <2> HIDE DEF Told, Replayed
  <2> QED
    BY <1>2, <1>5, <2>1, <2>2, <2>3, <2>4
<1> QED
  BY <1>1, <1>3, <1>4, <1>9 DEF EvalInv

LEMMA EvalInitially == EvalInit => EvalInv
<1> SUFFICES ASSUME EvalInit PROVE EvalInv
  OBVIOUS
<1> DEFINE t == [at |-> "queued", turn |-> 1, events |-> 0, tr |-> FreshTranscript,
                 out |-> [pass |-> TRUE, ended |-> "done", turns |-> 0]]
<1>1. /\ t \in TrialStates /\ NoTrial \in Outcomes
      /\ t.at = "queued" /\ t.turn = 1 /\ t.out.turns = 0 /\ t.out.pass = TRUE
  BY DEF TrialStates, Outcomes, Endings, Transcripts, FreshTranscript, NoTrial, Flying
<1>2. trials = [s \in Slots |-> t] /\ results = [s \in Slots |-> NoTrial] /\ kept = <<>>
  BY DEF EvalInit
<1> HIDE DEF t
<1>3. \A s \in Slots : trials[s] = t
  BY <1>2
<1>4. EvalTypeOK
  <2>1. /\ trials \in [Slots -> TrialStates] /\ results \in [Slots -> Outcomes]
        /\ kept \in Seq(Records)
    BY <1>1, <1>2
  <2>2. /\ pool \in [sent : SUBSET Slots, held : Int, waits : Int]
        /\ suite \in [graders : GraderSets, minScore : BOOLEAN, done : BOOLEAN]
        /\ DOMAIN report = {"live", "replay"}
    BY DEF EvalInit
  <2> QED
    BY <2>1, <2>2 DEF EvalTypeOK
<1>5. \A s \in Slots : TrialIsKept(s)
  <2> TAKE s \in Slots
  <2>1. Recorded(s) = {}
    BY <1>2 DEF Recorded, byTrial
  <2>2. TurnsAreKept(s)
    BY <1>1, <1>3, <2>1 DEF TurnsAreKept
  <2>3. PassIsKept(s)
    BY <1>1, <1>3 DEF PassIsKept
  <2> QED
    BY <1>1, <1>3, <2>2, <2>3 DEF TrialIsKept
<1>6. PoolIsCounted
  <2>1. InFlight = {}
    BY <1>1, <1>3 DEF InFlight, Flying
  <2> QED
    BY <1>1, <1>3, <2>1, FS_EmptySet DEF PoolIsCounted, EvalInit
<1>7. ReportIsMade
  BY DEF EvalInit, ReportIsMade
<1> QED
  BY <1>4, <1>5, <1>6, <1>7 DEF EvalInv

LEMMA EvalStep == EvalInv /\ [EvalNext]_evalVars => EvalInv'
<1> SUFFICES ASSUME EvalInv, [EvalNext]_evalVars PROVE EvalInv'
  OBVIOUS
<1>1. CASE UNCHANGED evalVars
  <2>1. /\ trials' = trials /\ pool' = pool /\ suite' = suite /\ results' = results
        /\ kept' = kept /\ report' = report
    BY <1>1 DEF evalVars
  <2>2. \A s \in Slots : TrialIsKept(s)'
    <3> TAKE s \in Slots
    <3>1. Recorded(s)' = Recorded(s)
      BY <2>1 DEF Recorded, byTrial
    <3> QED
      BY <2>1, <3>1, TrialStays DEF EvalInv
  <2>3. PoolIsCounted' /\ ReportIsMade'
    BY <2>1 DEF EvalInv, PoolIsCounted, InFlight, ReportIsMade, Judgeless, trialNums
  <2> QED
    BY <2>2, <2>3, EvalTyped DEF EvalInv
<1> QED
  BY <1>1, DispatchKeeps, NewTargetKeeps, EventKeeps, TurnEndsKeeps, FileResultKeeps,
     TrialEndsKeeps,
     CancelKeeps, ReportKeeps, GradeRecordedKeeps DEF EvalNext

\* A trial without transcripts did not pass.
LEMMA UnrecordedFails ==
    ASSUME EvalInv, report.live # <<>>, NEW k \in EvalTasks, NEW n \in 1 .. EvalTrials
    PROVE  /\ results[<<k, n>>] = trials[<<k, n>>].out
           /\ n \notin trialNums(k) => ~results[<<k, n>>].pass
<1>1. <<k, n>> \in Slots
  BY DEF Slots
<1>2. trials[<<k, n>>].at = "over"
  BY <1>1 DEF EvalInv, ReportIsMade
<1>3. TrialIsKept(<<k, n>>)
  BY <1>1 DEF EvalInv
<1> QED
  BY <1>2, <1>3, TrialsRecorded DEF TrialIsKept, PassIsKept

(* The transcripts kept grade as the run did, whatever the order in which  *)
(* trials end and whether the suite is cancelled: a task the live report   *)
(* passed passes again, the reports are equal unless a factory failed, and *)
(* each trial ends as it ended live (EvalInv).                             *)
THEOREM ReplaysAgree == EvalSpec => []ReplayAgrees
<1>1. EvalInv => ReplayAgrees
  <2> SUFFICES ASSUME EvalInv, report.replay # <<>> PROVE ReplayAgrees
    BY DEF ReplayAgrees
  <2> DEFINE AsReported(k) == {results[<<k, n>>] : n \in 1 .. EvalTrials}
             Replayed(k) == {trials[<<k, n>>].out : n \in trialNums(k)}
  <2>1. /\ report.live # <<>> /\ Judgeless
        /\ report.live = [k \in EvalTasks |-> aggregateTask(AsReported(k))]
        /\ report.replay = [k \in EvalTasks |-> aggregateTask(Replayed(k))]
    BY DEF EvalInv, ReportIsMade
  <2>2. ASSUME NEW k \in EvalTasks, NEW n \in trialNums(k)
        PROVE  n \in 1 .. EvalTrials /\ trials[<<k, n>>].out = results[<<k, n>>]
    BY <2>1, RegradeIsLive, UnrecordedFails
  <2>3. ASSUME NEW k \in EvalTasks, report.live[k] PROVE report.replay[k]
    <3>1. aggregateTask(AsReported(k)) /\ report.replay[k] = aggregateTask(Replayed(k))
      BY <2>1, <2>3
    <3>2. ASSUME NEW n \in 1 .. EvalTrials, results[<<k, n>>].pass
          PROVE  n \in trialNums(k) /\ results[<<k, n>>] \in Replayed(k)
      BY <2>1, <2>2, <3>2, UnrecordedFails
    <3>3. Replayed(k) \subseteq AsReported(k)
      BY <2>2
    <3>4. CASE AllTrials
      <4>1. \A n \in 1 .. EvalTrials : results[<<k, n>>].pass
        BY <3>1, <3>4 DEF aggregateTask
      <4>2. 1 \in 1 .. EvalTrials
        OBVIOUS
      <4>3. Replayed(k) # {}
        BY <3>2, <4>1, <4>2
      <4>4. \A o \in Replayed(k) : o.pass
        BY <3>3, <4>1
      <4> HIDE DEF Replayed
      <4> QED
        BY <3>1, <3>4, <4>3, <4>4 DEF aggregateTask
    <3>5. CASE ~AllTrials
      <4>1. PICK n \in 1 .. EvalTrials : results[<<k, n>>].pass
        BY <3>1, <3>5 DEF aggregateTask
      <4>2. results[<<k, n>>] \in Replayed(k)
        BY <3>2, <4>1
      <4> HIDE DEF Replayed
      <4> QED
        BY <3>1, <3>5, <4>1, <4>2 DEF aggregateTask
    <3> QED
      BY <3>4, <3>5
  <2>4. ASSUME Factories PROVE report.live = report.replay
    <3>1. ASSUME NEW k \in EvalTasks PROVE AsReported(k) = Replayed(k)
      <4>1. ASSUME NEW n \in 1 .. EvalTrials PROVE n \in trialNums(k)
        <5>1. <<k, n>> \in Slots
          BY DEF Slots
        <5>2. results[<<k, n>>].turns > 0 /\ results[<<k, n>>] = trials[<<k, n>>].out
          BY <2>1, <2>4, <5>1, UnrecordedFails DEF Factories
        <5>3. trials[<<k, n>>].out.turns # 0
          BY <5>2
        <5> QED
          BY <5>3, TrialsRecorded
      <4>2. trialNums(k) = 1 .. EvalTrials
        BY <2>2, <4>1
      <4> QED
        BY <2>2, <4>2
    <3> HIDE DEF AsReported, Replayed
    <3> QED
      BY <2>1, <3>1
  <2>5. \A k \in EvalTasks : \A n \in trialNums(k) : regradeTrial(k, n) = trials[<<k, n>>].out
    BY <2>1, RegradeIsLive
  <2> QED
    BY <2>3, <2>4, <2>5 DEF ReplayAgrees
<1> QED
  BY <1>1, EvalInitially, EvalStep, PTL DEF EvalSpec

-----------------------------------------------------------------------------
(***************************************************************************)
(* The map and the list of the search cache hold the same queries, for any *)
(* queries, capacity, times and callers.  A caller that found an entry     *)
(* promotes it only if it is still in the map, hence in the list; every    *)
(* other step puts together the list anew and the map after it.            *)
(***************************************************************************)

CacheTypeOK ==
    /\ now \in 0 .. MaxNow /\ items \in [Queries -> [at : Nat]] /\ lru \in Seq(Queries)
    /\ DOMAIN getting = Callers
    /\ \A c \in Callers : getting[c] # Quiet => getting[c].found \in Queries

HeldQueries == {q \in Queries : Held(q)}
Capacity == IF MaxEntries = 0 THEN 1 ELSE MaxEntries

CacheInv ==
    /\ CacheTypeOK
    /\ Distinct(lru) /\ ToSet(lru) = HeldQueries /\ Len(lru) <= Capacity

HIDE EvalAssumption
USE CacheAssumption

\* What holds nothing twice has as many members as places.
LEMMA DistinctCounts ==
    ASSUME NEW S, NEW s \in Seq(S), Distinct(s)
    PROVE  Len(s) = Cardinality(ToSet(s))
<1>1. PICK n \in Nat : n = Len(s)
  BY LenProperties
<1>2. s \in [1 .. n -> S] /\ DOMAIN s = 1 .. n
  BY <1>1, LenProperties
<1>3. ToSet(s) = {s[i] : i \in 1 .. n}
  BY <1>2 DEF ToSet
<1>4. s \in Bijection(1 .. n, ToSet(s))
  BY <1>2, <1>3 DEF Distinct, Bijection, Injection, Surjection, IsInjective
<1> QED
  BY <1>1, <1>4, FS_CountingElements DEF ExistsBijection

LEMMA PutInFront ==
    ASSUME NEW s \in Seq(Queries), NEW q \in Queries, Distinct(s), q \notin ToSet(s)
    PROVE  /\ <<q>> \o s \in Seq(Queries) /\ Len(<<q>> \o s) = Len(s) + 1
           /\ Distinct(<<q>> \o s) /\ ToSet(<<q>> \o s) = {q} \union ToSet(s)
<1>1. PICK n \in Nat : n = Len(s)
  BY LenProperties
<1>2. DOMAIN s = 1 .. n /\ ToSet(s) = {s[i] : i \in 1 .. n}
  BY <1>1, LenProperties DEF ToSet
<1>3. PICK w : w = <<q>> \o s
  OBVIOUS
<1>4. <<q>> \in Seq(Queries) /\ Len(<<q>>) = 1 /\ <<q>>[1] = q
  OBVIOUS
<1>5. /\ w \in Seq(Queries) /\ Len(w) = Len(<<q>>) + Len(s)
      /\ \A i \in 1 .. Len(<<q>>) + Len(s) : w[i] = IF i <= Len(<<q>>) THEN <<q>>[i]
                                                     ELSE s[i - Len(<<q>>)]
  BY ONLY <1>3, <1>4, s \in Seq(Queries), ConcatProperties
<1>6. Len(w) = n + 1 /\ DOMAIN w = 1 .. n + 1
  BY <1>1, <1>4, <1>5, LenProperties
<1>7. w[1] = q /\ \A i \in 2 .. n + 1 : i - 1 \in 1 .. n /\ w[i] = s[i - 1]
  BY <1>1, <1>4, <1>5
<1>8. Distinct(w)
  <2> SUFFICES ASSUME NEW i \in 1 .. n + 1, NEW j \in 1 .. n + 1, w[i] = w[j] PROVE i = j
    BY <1>6 DEF Distinct
  <2>1. CASE i = 1 /\ j = 1
    BY <2>1
  <2>2. CASE i # 1 /\ j # 1
    <3>1. /\ i \in 2 .. n + 1 /\ j \in 2 .. n + 1 /\ i - 1 \in 1 .. n /\ j - 1 \in 1 .. n
          /\ s[i - 1] = s[j - 1]
      BY <1>7, <2>2
    <3>2. i - 1 = j - 1
      BY <1>2, <3>1 DEF Distinct
    <3> QED
      BY <3>2
  <2>3. CASE i = 1 /\ j # 1
    BY <1>2, <1>7, <2>3
  <2>4. CASE i # 1 /\ j = 1
    BY <1>2, <1>7, <2>4
  <2> QED
    BY <2>1, <2>2, <2>3, <2>4
<1>9. ToSet(w) = {q} \union ToSet(s)
  <2>1. ToSet(w) = {w[i] : i \in 1 .. n + 1}
    BY <1>6 DEF ToSet
  <2>2. ASSUME NEW x \in ToSet(w) PROVE x \in {q} \union ToSet(s)
    <3>1. PICK i \in 1 .. n + 1 : x = w[i]
      BY <2>1
    <3>2. i = 1 \/ i \in 2 .. n + 1
      BY <3>1
    <3> QED
      BY <1>2, <1>7, <3>1, <3>2
  <2>3. q \in ToSet(w)
    BY <1>7, <2>1, 1 \in 1 .. n + 1
  <2>4. ASSUME NEW x \in ToSet(s) PROVE x \in ToSet(w)
    <3>1. PICK i \in 1 .. n : x = s[i]
      BY <1>2, <2>4
    <3>2. i + 1 \in 2 .. n + 1 /\ i + 1 - 1 = i /\ i + 1 \in 1 .. n + 1
      BY <3>1
    <3>3. w[i + 1] = s[i + 1 - 1]
      BY <1>7, <3>2
    <3> QED
      BY <2>1, <3>1, <3>2, <3>3
  <2> QED
    BY <2>2, <2>3, <2>4
<1> QED
  BY <1>1, <1>3, <1>5, <1>6, <1>8, <1>9

LEMMA PrefixProperties ==
    ASSUME NEW s \in Seq(Queries), NEW m \in Nat, m <= Len(s), Distinct(s)
    PROVE  /\ SubSeq(s, 1, m) \in Seq(Queries) /\ Len(SubSeq(s, 1, m)) = m
           /\ Distinct(SubSeq(s, 1, m)) /\ ToSet(SubSeq(s, 1, m)) \subseteq ToSet(s)
<1>1. PICK n \in Nat : n = Len(s)
  BY LenProperties
<1>2. m <= n /\ DOMAIN s = 1 .. n
  BY <1>1, LenProperties
<1>3. 1 \in Int /\ m \in Int /\ \A i \in 1 .. m : i \in 1 .. n /\ s[i] \in Queries
  BY <1>1, <1>2, ElementOfSeq
<1>4. PICK t : t = SubSeq(s, 1, m)
  OBVIOUS
<1>5. /\ t \in Seq(Queries) /\ Len(t) = (IF 1 <= m THEN m - 1 + 1 ELSE 0)
      /\ \A i \in 1 .. m - 1 + 1 : t[i] = s[1 + i - 1]
  BY ONLY <1>3, <1>4, SubSeqProperties
<1>6. Len(t) = m
  BY <1>5
<1>7. DOMAIN t = 1 .. m
  BY <1>5, <1>6, LenProperties
<1>8. \A i \in 1 .. m : t[i] = s[i]
  <2> TAKE i \in 1 .. m
  <2>1. i \in 1 .. m - 1 + 1 /\ 1 + i - 1 = i
    OBVIOUS
  <2> QED
    BY ONLY <1>5, <2>1
<1>9. Distinct(t)
  BY <1>2, <1>3, <1>7, <1>8 DEF Distinct
<1>10. ToSet(t) \subseteq ToSet(s)
  BY <1>2, <1>3, <1>7, <1>8 DEF ToSet
<1> QED
  BY <1>4, <1>5, <1>6, <1>9, <1>10

LEMMA WithoutProperties ==
    ASSUME NEW s \in Seq(Queries), NEW q
    PROVE  /\ Without(s, q) \in Seq(Queries) /\ Len(Without(s, q)) <= Len(s)
           /\ q \in ToSet(s) => Len(Without(s, q)) < Len(s)
           /\ ToSet(Without(s, q)) = ToSet(s) \ {q}
           /\ Distinct(s) => Distinct(Without(s, q))
<1> DEFINE P == {i \in DOMAIN s : s[i] # q}
<1>1. DOMAIN s = 1 .. Len(s) /\ Len(s) \in Nat /\ P \in SUBSET (1 .. Len(s))
  BY LenProperties
<1>2. q \in ToSet(s) => P # 1 .. Len(s)
  BY <1>1 DEF ToSet
<1>3. {s[i] : i \in P} = ToSet(s) \ {q}
  BY DEF ToSet
<1>4. Without(s, q) = AtPositions(s, P)
  BY DEF Without
<1> HIDE DEF P
<1> QED
  BY <1>1, <1>2, <1>3, <1>4, AtPositionsProperties

\* The entries that stay are in the list and fit beside one more.
LEMMA MadeRoomProperties ==
    ASSUME NEW s \in Seq(Queries), NEW q \in Queries, Distinct(s), Len(s) <= Capacity
    PROVE  /\ MadeRoom(s, q) \in Seq(Queries) /\ Distinct(MadeRoom(s, q))
           /\ Len(MadeRoom(s, q)) + 1 <= Capacity
           /\ ToSet(MadeRoom(s, q)) \subseteq ToSet(s) /\ q \notin ToSet(MadeRoom(s, q))
<1>1. Len(s) \in Nat /\ DOMAIN s = 1 .. Len(s)
  BY LenProperties
<1>2. Contains(s, q) <=> q \in ToSet(s)
  BY <1>1 DEF Contains, ToSet
<1>3. CASE q \in ToSet(s)
  <2>1. MadeRoom(s, q) = Without(s, q)
    BY <1>2, <1>3 DEF MadeRoom
  <2>2. Len(Without(s, q)) < Len(s) /\ Without(s, q) \in Seq(Queries)
    BY <1>3, WithoutProperties
  <2>3. Len(Without(s, q)) \in Nat
    BY <2>2, LenProperties
  <2> QED
    BY <1>1, <2>1, <2>2, <2>3, WithoutProperties DEF Capacity
<1>4. CASE q \notin ToSet(s)
  <2>1. PICK room \in Nat : room = (IF MaxEntries = 0 THEN 0 ELSE MaxEntries - 1)
    OBVIOUS
  <2>2. PICK m \in Nat : m = (IF Len(s) > room THEN room ELSE Len(s))
    BY <1>1, <2>1
  <2>3. m <= Len(s) /\ m + 1 <= Capacity
    <3>1. PICK n \in Nat : n = Len(s)
      BY <1>1
    <3>2. m <= n /\ m <= room
      BY <2>1, <2>2, <3>1
    <3>3. MaxEntries \in Nat /\ room + 1 = Capacity
      BY <2>1 DEF Capacity
    <3> QED
      BY <2>1, <2>2, <3>1, <3>2, <3>3
  <2>4. MadeRoom(s, q) = SubSeq(s, 1, m)
    BY <1>2, <1>4, <2>1, <2>2 DEF MadeRoom
  <2> QED
    BY <1>4, <2>3, <2>4, PrefixProperties
<1> QED
  BY <1>3, <1>4

LEMMA CacheInitInv == CacheInit => CacheInv
<1> SUFFICES ASSUME CacheInit PROVE CacheInv
  OBVIOUS
<1>1. NoEntry \in [at : Nat] /\ HeldQueries = {}
  BY DEF NoEntry, HeldQueries, Held, CacheInit
<1>2. ToSet(lru) = {} /\ Distinct(lru) /\ lru \in Seq(Queries) /\ Len(lru) = 0
  BY DEF CacheInit, ToSet, Distinct
<1> QED
  BY <1>1, <1>2 DEF CacheInit, CacheInv, CacheTypeOK, Capacity

LEMMA PutKeepsOne ==
    ASSUME CacheInv, NEW q \in Queries, Put(q)
    PROVE  CacheInv'
<1> DEFINE P == {i \in DOMAIN lru : Live(lru[i])}
<1>1. /\ now \in Nat /\ now <= MaxNow /\ items \in [Queries -> [at : Nat]]
      /\ lru \in Seq(Queries) /\ Distinct(lru) /\ ToSet(lru) = HeldQueries /\ Len(lru) <= Capacity
  BY DEF CacheInv, CacheTypeOK
<1>2. Len(lru) \in Nat /\ P \in SUBSET (1 .. Len(lru))
  BY <1>1, LenProperties
<1>3. PICK stay : stay = Unexpired
  OBVIOUS
<1>4. /\ stay \in Seq(Queries) /\ Distinct(stay) /\ Len(stay) <= Len(lru)
      /\ ToSet(stay) = {lru[i] : i \in P}
  <2>1. stay = AtPositions(lru, P)
    BY <1>3 DEF Unexpired
  <2> HIDE DEF P
  <2>2. /\ stay \in Seq(Queries) /\ Len(stay) = Cardinality(P) /\ Cardinality(P) <= Len(lru)
        /\ ToSet(stay) = {lru[i] : i \in P} /\ (Distinct(lru) => Distinct(stay))
    BY ONLY <1>1, <1>2, <2>1, AtPositionsProperties
  <2> QED
    BY <1>1, <2>2
<1>5. ToSet(stay) \subseteq HeldQueries
  BY <1>1, <1>4 DEF ToSet
<1>6. Len(stay) \in Nat /\ Len(stay) <= Capacity
  BY <1>1, <1>2, <1>4, LenProperties DEF Capacity
<1>7. PICK fits : fits = MadeRoom(stay, q)
  OBVIOUS
<1>8. /\ fits \in Seq(Queries) /\ Distinct(fits) /\ Len(fits) + 1 <= Capacity
      /\ ToSet(fits) \subseteq ToSet(stay) /\ q \notin ToSet(fits)
  BY <1>4, <1>6, <1>7, MadeRoomProperties
<1>9. /\ lru' = <<q>> \o fits /\ now' = now /\ getting' = getting
      /\ items' = [k \in Queries |-> IF k = q THEN [at |-> now]
                                     ELSE IF Contains(fits, k) THEN items[k] ELSE NoEntry]
  BY <1>3, <1>7 DEF Put
<1>10. \A k : Contains(fits, k) <=> k \in ToSet(fits)
  BY <1>8, LenProperties DEF Contains, ToSet
<1>11. /\ lru' \in Seq(Queries) /\ Len(lru') = Len(fits) + 1 /\ Distinct(lru)'
       /\ ToSet(lru') = {q} \union ToSet(fits)
  BY <1>8, <1>9, PutInFront
<1>12. items' \in [Queries -> [at : Nat]]
  BY <1>1, <1>9 DEF NoEntry
<1>13. HeldQueries' = {q} \union ToSet(fits)
  <2>1. \A k \in Queries : items'[k] = IF k = q THEN [at |-> now]
                                       ELSE IF k \in ToSet(fits) THEN items[k] ELSE NoEntry
    BY <1>9, <1>10
  <2>2. [at |-> now] # NoEntry
    <3>1. [at |-> now].at # [at |-> MaxNow + 1].at
      BY <1>1
    <3> QED
      BY <3>1 DEF NoEntry
  <2>3. \A k \in ToSet(fits) : k \in Queries /\ items[k] # NoEntry
    BY <1>5, <1>8 DEF HeldQueries, Held
  <2>4. \A k \in Queries : items'[k] # NoEntry <=> k \in {q} \union ToSet(fits)
    BY <2>1, <2>2, <2>3
  <2>5. HeldQueries' = {k \in Queries : items'[k] # NoEntry}
    BY DEF HeldQueries, Held, NoEntry
  <2> QED
    BY <2>3, <2>4, <2>5
<1>14. CacheTypeOK'
  BY <1>9, <1>11, <1>12 DEF CacheInv, CacheTypeOK
<1> QED
  BY <1>8, <1>11, <1>13, <1>14 DEF CacheInv, Capacity

LEMMA PromoteKeepsOne ==
    ASSUME CacheInv, NEW c \in Callers, Promote(c)
    PROVE  CacheInv'
<1>1. PICK q \in Queries : q = getting[c].found
  BY DEF Promote, CacheInv, CacheTypeOK
<1>2. /\ lru' = Promoted(q) /\ items' = items /\ now' = now
      /\ getting' = [getting EXCEPT ![c] = Quiet]
  BY <1>1 DEF Promote
<1>3. /\ lru \in Seq(Queries) /\ Distinct(lru) /\ ToSet(lru) = HeldQueries /\ Len(lru) <= Capacity
  BY DEF CacheInv, CacheTypeOK
<1>4. HeldQueries' = HeldQueries
  BY <1>2 DEF HeldQueries, Held, NoEntry
<1>5. /\ lru' \in Seq(Queries) /\ Distinct(lru)' /\ ToSet(lru') = HeldQueries
      /\ Len(lru') <= Capacity
  <2>1. CASE Held(q)
    <3>1. q \in ToSet(lru)
      BY <1>3, <2>1 DEF HeldQueries
    <3>2. PICK s : s = Without(lru, q)
      OBVIOUS
    <3>3. /\ s \in Seq(Queries) /\ Len(s) < Len(lru) /\ ToSet(s) = ToSet(lru) \ {q} /\ Distinct(s)
      BY <1>3, <3>1, <3>2, WithoutProperties
    <3>4. lru' = <<q>> \o s
      BY <1>2, <2>1, <3>2 DEF Promoted
    <3>5. /\ lru' \in Seq(Queries) /\ Len(lru') = Len(s) + 1 /\ Distinct(lru)'
          /\ ToSet(lru') = {q} \union ToSet(s)
      BY <3>3, <3>4, PutInFront
    <3>6. Len(s) \in Nat /\ Len(lru) \in Nat
      BY <1>3, <3>3, LenProperties
    <3>7. Len(lru') <= Capacity
      BY <1>3, <3>3, <3>5, <3>6 DEF Capacity
    <3> QED
      BY <1>3, <3>1, <3>3, <3>5, <3>7
  <2>2. CASE ~Held(q)
    BY <1>2, <1>3, <2>2 DEF Promoted, Distinct, ToSet
  <2> QED
    BY <2>1, <2>2
<1>6. CacheTypeOK'
  BY <1>2, <1>5 DEF CacheInv, CacheTypeOK, Quiet
<1> QED
  BY <1>4, <1>5, <1>6 DEF CacheInv, Capacity

\* A step that leaves the map and the list as they are.
LEMMA CacheStays ==
    ASSUME CacheInv, items' = items, lru' = lru, now' \in 0 .. MaxNow, DOMAIN getting' = Callers,
           \A c \in Callers : getting'[c] # Quiet => getting'[c].found \in Queries
    PROVE  CacheInv'
<1>1. HeldQueries' = HeldQueries
  BY DEF HeldQueries, Held, NoEntry
<1> QED
  BY <1>1 DEF CacheInv, CacheTypeOK, Capacity, Distinct, ToSet

LEMMA CacheNextInv == CacheInv /\ [CacheNext]_cacheVars => CacheInv'
<1> SUFFICES ASSUME CacheInv, [CacheNext]_cacheVars PROVE CacheInv'
  OBVIOUS
<1>1. ASSUME NEW c \in Callers, NEW q \in Queries, Scan(c, q) PROVE CacheInv'
  <2>1. PICK k \in Queries : getting' = [getting EXCEPT ![c] = [query |-> q, found |-> k]]
    BY <1>1 DEF Scan
  <2>2. DOMAIN getting' = Callers
        /\ \A d \in Callers : getting'[d] # Quiet => getting'[d].found \in Queries
    BY <2>1 DEF CacheInv, CacheTypeOK
  <2> QED
    BY <1>1, <2>2, CacheStays DEF Scan, CacheInv, CacheTypeOK
<1>2. CASE CacheTick
  BY <1>2, CacheStays DEF CacheTick, CacheInv, CacheTypeOK
<1>3. CASE UNCHANGED cacheVars
  BY <1>3, CacheStays DEF cacheVars, CacheInv, CacheTypeOK
<1> QED
  BY <1>1, <1>2, <1>3, PutKeepsOne, PromoteKeepsOne DEF CacheNext

(* The map and the list of the search cache stay one cache within its      *)
(* capacity, however scans, promotions and evictions fall between each     *)
(* other (CacheInv).                                                       *)
THEOREM CacheStaysOne == CacheSpec => []CacheIsOne
<1>1. CacheInv => CacheIsOne
  <2> SUFFICES ASSUME CacheInv PROVE CacheIsOne
    OBVIOUS
  <2>1. Len(lru) = Cardinality(ToSet(lru))
    BY DistinctCounts DEF CacheInv, CacheTypeOK
  <2> QED
    BY <2>1 DEF CacheInv, CacheIsOne, HeldQueries, Capacity
<1> QED
  BY <1>1, CacheInitInv, CacheNextInv, PTL DEF CacheSpec

-----------------------------------------------------------------------------
(***************************************************************************)
(* The adapters of the model providers, for any routes, tools, turns and   *)
(* calls.  What a call that has not ended yet carries decides what it may  *)
(* return, and an id is not given twice in a response, whoever makes it up. *)
(***************************************************************************)

Bases == Names \union {"structured", "id"}
ToolCall == [id : [base : Bases, n : Nat], name : Bases]
Reasons == {"", "stop", "length", "filter", "other"}
Request == [at : {"idle", "stream", "ended", "done"},
            dialect : {"none", "anthropic", "openai", "gemini"}, structured : BOOLEAN,
            said : Seq(ToolCall), open : Nat, ready : SUBSET Nat, limits : Nat,
            reason : Reasons, cut : BOOLEAN, calls : Seq(ToolCall),
            err : {"none", "unrenderable", "no json mode", "corrupt arguments", "auth",
                   "transient", "truncated", "blocked", "incomplete"}]

IdsDiffer(s) == \A i, j \in 1 .. Len(s) : s[i].id = s[j].id => i = j
Turn(s) == s \in Seq(ToolCall) /\ Len(s) <= MaxCalls /\ IdsDiffer(s)

SameName(s, name) == {i \in 1 .. Len(s) : s[i].name = name}
\* An id that the adapter made up has the name of its call and a number that a
\* later one does not get.
MadeUp(s) ==
    \A i \in 1 .. Len(s) :
        s[i].id.base # "id" => /\ s[i].id.base = s[i].name
                               /\ s[i].id.n <= Cardinality(SameName(s, s[i].name))

Blocks(c) ==
    /\ c.ready \subseteq 1 .. Len(c.said)
    /\ c.open > 0 => c.open = Len(c.said) /\ c.open \notin c.ready
    /\ c.dialect # "anthropic" => c.ready = {} /\ c.open = 0 /\ ~c.cut

\* What may still become of a request.
Underway(c) ==
    /\ c.at \in {"idle", "stream"} => ~c.cut /\ c.limits = 0
    /\ c.at = "ended" => c.limits = IF c.cut THEN 1 ELSE 0
    /\ c.cut => c.reason = ""
    /\ c.reason = "stop" => c.open = 0

\* ReportedCutIsNoSuccess, of a request.
Truthful(c) ==
    c.at = "done" /\ c.err \in {"none", "truncated", "blocked", "incomplete"} =>
        /\ c.err = "none" => c.reason \in {"", "stop"} /\ ~c.cut
        /\ c.limits = IF c.err = "truncated" THEN 1 ELSE 0
        /\ \A i \in DOMAIN c.said :
              i \in c.ready \/ (c.err = "none" /\ c.reason # "") =>
                  c.said[i].name = "structured" \/ c.said[i] \in ToSet(c.calls)

RequestOK(c) ==
    /\ c \in Request /\ Turn(c.said) /\ MadeUp(c.said) /\ Turn(c.calls)
    /\ Blocks(c) /\ Underway(c) /\ Truthful(c)

ProvInv ==
    /\ past \in Seq(Seq(ToolCall)) /\ \A t \in 1 .. Len(past) : Turn(past[t])
    /\ RequestOK(call)

HIDE CacheAssumption

LEMMA Bounds == MaxCalls \in Nat /\ "id" \notin Names
  BY ProviderAssumption

LEMMA IdleIsOK == /\ RequestOK(Idle) /\ Idle \in Request /\ Idle.said = <<>> /\ Idle.calls = <<>>
                  /\ Idle.ready = {} /\ Idle.open = 0 /\ ~Idle.cut /\ Idle.limits = 0
<1>1. /\ Idle \in Request /\ Idle.said = <<>> /\ Idle.calls = <<>> /\ Len(<<>>) = 0
      /\ Idle.ready = {} /\ Idle.open = 0 /\ ~Idle.cut /\ Idle.limits = 0
  BY DEF Idle, Request, Reasons
<1>2. Turn(<<>>) /\ MadeUp(<<>>)
  BY Bounds DEF Turn, IdsDiffer, MadeUp
<1>3. Blocks(Idle) /\ Underway(Idle) /\ Truthful(Idle)
  BY DEF Idle, Blocks, Underway, Truthful
<1> QED
  BY <1>1, <1>2, <1>3 DEF RequestOK

\* A step of the request.
LEMMA BecomesOK ==
    ASSUME ProvInv, NEW c, RequestOK(c), Becomes(c)
    PROVE  ProvInv'
<1>1. past' = past /\ call' = c
  BY DEF Becomes
<1> HIDE DEF RequestOK, Turn
<1> QED
  BY <1>1 DEF ProvInv

LEMMA OpensOK ==
    ASSUME ProvInv, NEW d \in {"anthropic", "openai", "gemini"}, NEW m, NEW s \in BOOLEAN,
           Opens(d, m, s)
    PROVE  ProvInv'
<1>1. CASE Renders(m)
  <2> DEFINE c == [Idle EXCEPT !.at = "stream", !.dialect = d, !.structured = s]
  <2>1. /\ c \in Request /\ c.said = <<>> /\ c.calls = <<>> /\ c.ready = {} /\ c.open = 0
        /\ ~c.cut /\ c.limits = 0 /\ c.at = "stream"
    BY IdleIsOK DEF Request
  <2>2. Becomes(c)
    BY <1>1 DEF Opens
  <2> HIDE DEF c
  <2>3. RequestOK(c)
    BY <2>1, IdleIsOK DEF RequestOK, Blocks, Underway, Truthful
  <2> QED
    BY <2>2, <2>3, BecomesOK
<1>2. CASE ~Renders(m)
  <2> DEFINE c == [Idle EXCEPT !.at = "done", !.dialect = d, !.err = "unrenderable"]
  <2>1. /\ c \in Request /\ c.said = <<>> /\ c.calls = <<>> /\ c.ready = {} /\ c.open = 0
        /\ ~c.cut /\ c.at = "done" /\ c.err = "unrenderable"
    BY IdleIsOK DEF Request
  <2>2. Becomes(c)
    BY <1>2 DEF Opens
  <2> HIDE DEF c
  <2>3. RequestOK(c)
    BY <2>1, IdleIsOK DEF RequestOK, Blocks, Underway, Truthful
  <2> QED
    BY <2>2, <2>3, BecomesOK
<1> QED
  BY <1>1, <1>2

LEMMA RefusedOK ==
    ASSUME ProvInv, NEW d \in {"anthropic", "openai", "gemini"},
           NEW e \in {"no json mode", "corrupt arguments"}, Refused(d, e)
    PROVE  ProvInv'
<1>1. PICK c : c = [Idle EXCEPT !.at = "done", !.dialect = d, !.err = e]
  OBVIOUS
<1>2. /\ c \in Request /\ c.said = <<>> /\ c.calls = <<>> /\ c.ready = {} /\ c.open = 0
      /\ ~c.cut /\ c.at = "done" /\ c.err \in {"no json mode", "corrupt arguments"}
  BY <1>1, IdleIsOK DEF Request
<1>3. RequestOK(c)
  BY <1>2, IdleIsOK DEF RequestOK, Blocks, Underway, Truthful
<1> QED
  BY <1>1, <1>3, BecomesOK DEF Refused

LEMMA GenerateStreamOK ==
    ASSUME ProvInv, GenerateStream
    PROVE  ProvInv'
<1>1. CASE AnthropicRequest
  BY <1>1, OpensOK, RefusedOK DEF AnthropicRequest
<1>2. CASE GeminiRequest
  BY <1>2, OpensOK DEF GeminiRequest
<1>3. CASE OpenAIRequest
  BY <1>3, OpensOK, RefusedOK DEF OpenAIRequest
<1> QED
  BY <1>1, <1>2, <1>3 DEF GenerateStream

-----------------------------------------------------------------------------
\* A service finds a number that it has not given yet.
LEMMA GivenIsNew ==
    ASSUME ProvInv
    PROVE  /\ Given.base = "id" /\ Given.n \in Nat /\ Given \in [base : Bases, n : Nat]
           /\ \A i \in 1 .. Len(call.said) : call.said[i].id # Given
<1> DEFINE Calls == {c \in Heard : c.id.base = "id"}
           taken == {k.id.n : k \in Calls}
<1>1. /\ past \in Seq(Seq(ToolCall)) /\ call.said \in Seq(ToolCall)
      /\ Len(past) \in Nat /\ DOMAIN past = 1 .. Len(past)
      /\ Len(call.said) \in Nat /\ DOMAIN call.said = 1 .. Len(call.said)
  BY LenProperties DEF ProvInv, RequestOK, Turn
<1>2. IsFiniteSet(1 .. Len(past))
  BY <1>1, FS_Interval
<1>3. \A t \in 1 .. Len(past) : past[t] \in Seq(ToolCall)
  BY <1>1, ElementOfSeq
<1> DEFINE Turns == {ToSet(past[t]) : t \in DOMAIN past}
<1>4. IsFiniteSet(Turns)
  <2> DEFINE f == [t \in 1 .. Len(past) |-> ToSet(past[t])]
  <2>1. f \in Surjection(1 .. Len(past), Turns)
    BY <1>1 DEF Surjection
  <2> HIDE DEF f, Turns
  <2> QED
    BY <1>2, <2>1, FS_Surjection
<1>5. \A T \in Turns : IsFiniteSet(T)
  BY <1>1, <1>3, ToSetIsFinite
<1> DEFINE earlier == UNION Turns
           said == ToSet(call.said)
<1>a. Heard = earlier \union said
  BY Zenon DEF Heard
<1>6. IsFiniteSet(Heard)
  <2>1. IsFiniteSet(earlier)
    <3> HIDE DEF Turns
    <3> QED
      BY <1>4, <1>5, FS_UNION
  <2>2. IsFiniteSet(said)
    BY <1>1, ToSetIsFinite
  <2> HIDE DEF earlier, said
  <2> QED
    BY ONLY <1>a, <2>1, <2>2, FS_Union
<1>7. IsFiniteSet(taken)
  <2>1. IsFiniteSet(Calls)
    BY <1>6, FS_Subset
  <2> DEFINE g == [k \in Calls |-> k.id.n]
  <2>2. g \in Surjection(Calls, taken)
    BY DEF Surjection
  <2> HIDE DEF g, taken, Calls
  <2> QED
    BY <2>1, <2>2, FS_Surjection
<1>8. PICK m \in Nat : m = Cardinality(taken)
  BY <1>7, FS_CardinalityType
<1>9. \E n \in 1 .. m + 1 : n \notin taken
  <2> SUFFICES ASSUME 1 .. m + 1 \subseteq taken PROVE FALSE
    OBVIOUS
  <2> HIDE DEF taken
  <2>1. Cardinality(1 .. m + 1) <= m
    BY <1>7, <1>8, FS_Subset
  <2>2. Cardinality(1 .. m + 1) = m + 1
    <3>1. 1 \in Int /\ m + 1 \in Int /\ (IF 1 > m + 1 THEN 0 ELSE m + 1 - 1 + 1) = m + 1
      BY <1>8
    <3> QED
      BY <3>1, FS_Interval
  <2> QED
    BY <1>8, <2>1, <2>2
<1>10. PICK n : n = CHOOSE x \in 1 .. m + 1 : x \notin taken
  OBVIOUS
<1>11. n \in 1 .. m + 1 /\ n \notin taken
  BY <1>9, <1>10
<1>12. Given = [base |-> "id", n |-> n]
  BY <1>8, <1>10 DEF Given
<1>13. ASSUME NEW i \in 1 .. Len(call.said) PROVE call.said[i].id # Given
  <2>1. call.said[i] \in Heard
    <3>1. call.said[i] \in ToSet(call.said)
      BY <1>1 DEF ToSet
    <3> HIDE DEF earlier
    <3> QED
      BY <1>a, <3>1
  <2>2. call.said[i].id.base = "id" => call.said[i].id.n \in taken
    BY <2>1
  <2> QED
    BY <1>11, <1>12, <2>2
<1> QED
  BY <1>11, <1>12, <1>13 DEF Bases

\* So does an adapter that makes up the ids of a response.
LEMMA PendingIsNew ==
    ASSUME ProvInv, NEW name \in Names
    PROVE  /\ pendingCallID(name) \in [base : Bases, n : Nat]
           /\ pendingCallID(name).base = name
           /\ pendingCallID(name).n = Cardinality(SameName(call.said, name)) + 1
           /\ \A i \in 1 .. Len(call.said) : call.said[i].id # pendingCallID(name)
<1>1. /\ MadeUp(call.said) /\ Len(call.said) \in Nat /\ name # "id"
      /\ \A i \in 1 .. Len(call.said) : call.said[i] \in ToolCall
  BY Bounds, LenProperties, ElementOfSeq DEF ProvInv, RequestOK, Turn
<1>2. PICK m \in Nat : m = Cardinality(SameName(call.said, name))
  <2>1. IsFiniteSet(1 .. Len(call.said))
    <3>1. 1 \in Int /\ Len(call.said) \in Int
      BY <1>1
    <3> QED
      BY ONLY <3>1, FS_Interval
  <2>2. IsFiniteSet(SameName(call.said, name))
    BY <2>1, FS_Subset DEF SameName
  <2> QED
    BY <2>2, FS_CardinalityType
<1>3. pendingCallID(name) = [base |-> name, n |-> m + 1]
  BY <1>2 DEF pendingCallID, SameName
<1>4. ASSUME NEW i \in 1 .. Len(call.said), call.said[i].id.base = name
      PROVE  call.said[i].id.n # m + 1
  <2>1. call.said[i].id.n <= m
    BY <1>1, <1>2, <1>4 DEF MadeUp
  <2>2. call.said[i].id.n \in Nat
    BY <1>1 DEF ToolCall
  <2> QED
    BY <1>2, <2>1, <2>2
<1> QED
  BY <1>2, <1>3, <1>4 DEF Bases

\* A response takes up a call with an id that it does not hold yet.
LEMMA CallAdded ==
    ASSUME ProvInv, CanCall, NEW id \in [base : Bases, n : Nat], NEW name \in Bases,
           \A i \in 1 .. Len(call.said) : call.said[i].id # id,
           id.base = "id" \/ (id.base = name /\ id.n = Cardinality(SameName(call.said, name)) + 1)
    PROVE  LET s == Append(call.said, NewCall(id, name))
           IN Turn(s) /\ MadeUp(s) /\ Len(s) = Len(call.said) + 1
<1>1. /\ call.said \in Seq(ToolCall) /\ IdsDiffer(call.said) /\ MadeUp(call.said)
      /\ Len(call.said) < MaxCalls
  BY DEF ProvInv, RequestOK, Turn, CanCall
<1>2. PICK k : k = NewCall(id, name)
  OBVIOUS
<1>3. k \in ToolCall /\ k.id = id /\ k.name = name
  BY <1>2 DEF NewCall, ToolCall
<1>4. PICK n \in Nat : n = Len(call.said)
  BY <1>1, LenProperties
<1>5. PICK s : s = Append(call.said, k)
  OBVIOUS
<1>6. /\ s \in Seq(ToolCall) /\ Len(s) = n + 1 /\ s[n + 1] = k
      /\ \A i \in 1 .. n : s[i] = call.said[i]
  BY ONLY <1>1, <1>3, <1>4, <1>5, AppendProperties
<1>7. Turn(s)
  <2>1. n + 1 <= MaxCalls
    BY <1>1, <1>4, Bounds
  <2>2. ASSUME NEW i \in 1 .. n + 1, NEW j \in 1 .. n + 1, s[i].id = s[j].id PROVE i = j
    <3>1. CASE i \in 1 .. n /\ j \in 1 .. n
      BY <1>1, <1>4, <1>6, <2>2, <3>1 DEF IdsDiffer
    <3>2. CASE i = n + 1 /\ j \in 1 .. n
      BY <1>3, <1>4, <1>6, <2>2, <3>2
    <3>3. CASE j = n + 1 /\ i \in 1 .. n
      BY <1>3, <1>4, <1>6, <2>2, <3>3
    <3> QED
      BY <3>1, <3>2, <3>3
  <2> QED
    BY <1>6, <2>1, <2>2 DEF Turn, IdsDiffer
<1>8. \A x : /\ SameName(call.said, x) \subseteq SameName(s, x)
             /\ IsFiniteSet(SameName(s, x)) /\ Cardinality(SameName(s, x)) \in Nat
             /\ Cardinality(SameName(call.said, x)) \in Nat
             /\ Cardinality(SameName(call.said, x)) <= Cardinality(SameName(s, x))
  <2> TAKE x
  <2>1. SameName(call.said, x) \subseteq SameName(s, x)
    BY <1>4, <1>6 DEF SameName
  <2>2. IsFiniteSet(1 .. n + 1)
    <3>1. 1 \in Int /\ n + 1 \in Int
      BY <1>4
    <3> QED
      BY ONLY <3>1, FS_Interval
  <2>3. IsFiniteSet(SameName(s, x))
    BY <1>6, <2>2, FS_Subset DEF SameName
  <2> QED
    BY <2>1, <2>3, FS_Subset, FS_CardinalityType
<1>9. Cardinality(SameName(s, name)) = Cardinality(SameName(call.said, name)) + 1
  <2>1. SameName(s, name) = SameName(call.said, name) \union {n + 1}
    BY <1>3, <1>4, <1>6 DEF SameName
  <2>2. n + 1 \notin SameName(call.said, name)
    BY <1>4 DEF SameName
  <2>3. IsFiniteSet(SameName(call.said, name))
    BY <1>8, FS_Subset
  <2> QED
    BY <2>1, <2>2, <2>3, FS_AddElement
<1>10. MadeUp(s)
  <2> SUFFICES ASSUME NEW i \in 1 .. n + 1, s[i].id.base # "id"
               PROVE  /\ s[i].id.base = s[i].name
                      /\ s[i].id.n <= Cardinality(SameName(s, s[i].name))
    BY <1>6 DEF MadeUp
  <2>1. CASE i \in 1 .. n
    <3>1. /\ s[i].id.base = s[i].name
          /\ s[i].id.n <= Cardinality(SameName(call.said, s[i].name))
      BY <1>1, <1>4, <1>6, <2>1 DEF MadeUp
    <3>2. s[i] \in ToolCall
      BY <1>6, ElementOfSeq
    <3>3. s[i].id.n \in Nat
      BY <3>2 DEF ToolCall
    <3> QED
      BY <1>8, <3>1, <3>3
  <2>2. CASE i = n + 1
    BY <1>3, <1>6, <1>8, <1>9, <2>2
  <2> QED
    BY <2>1, <2>2
<1> QED
  BY <1>2, <1>4, <1>5, <1>6, <1>7, <1>10

\* A response in the stream that grows by a call.
LEMMA GrowsOK ==
    ASSUME ProvInv, call.at = "stream", NEW s, Turn(s), MadeUp(s), Len(s) = Len(call.said) + 1,
           NEW c \in Request, c.at = "stream", c.said = s, c.calls = call.calls,
           c.ready = call.ready, c.limits = call.limits, c.cut = call.cut,
           c.dialect = call.dialect, c.open \in {0, Len(s)}, c.reason # "stop",
           c.dialect # "anthropic" => c.open = 0
    PROVE  RequestOK(c)
<1>1. Len(call.said) \in Nat /\ call.ready \subseteq 1 .. Len(call.said) /\ Len(s) \in Nat
  BY LenProperties DEF ProvInv, RequestOK, Turn, Blocks
<1>2. c.ready \subseteq 1 .. Len(s) /\ Len(s) \notin c.ready
  BY <1>1
<1>3. Blocks(c)
  BY <1>2 DEF ProvInv, RequestOK, Blocks
<1>4. Underway(c) /\ Truthful(c)
  BY DEF ProvInv, RequestOK, Underway, Truthful
<1> QED
  BY <1>3, <1>4 DEF ProvInv, RequestOK

LEMMA CallTypes ==
    ASSUME ProvInv
    PROVE  call \in Request /\ Turn(call.said) /\ Turn(call.calls) /\ MadeUp(call.said)
  BY DEF ProvInv, RequestOK

\* Deltas and parts of the adapters that know no blocks.
LEMMA DeltaOK ==
    ASSUME ProvInv, call.at = "stream", call.dialect # "anthropic", CanCall,
           NEW id \in [base : Bases, n : Nat], NEW name \in Names,
           \A i \in 1 .. Len(call.said) : call.said[i].id # id,
           id.base = "id" \/ (id.base = name /\ id.n = Cardinality(SameName(call.said, name)) + 1),
           Becomes([call EXCEPT !.said = Append(@, NewCall(id, name))])
    PROVE  ProvInv'
<1>1. PICK s : s = Append(call.said, NewCall(id, name))
  OBVIOUS
<1>2. Turn(s) /\ MadeUp(s) /\ Len(s) = Len(call.said) + 1
  BY <1>1, CallAdded DEF Bases
<1>3. call \in Request /\ s \in Seq(ToolCall)
  BY <1>2, CallTypes DEF Turn
<1>4. PICK c : c = [call EXCEPT !.said = s]
  OBVIOUS
<1>5. /\ c \in Request /\ c.at = "stream" /\ c.said = s /\ c.calls = call.calls
      /\ c.ready = call.ready /\ c.limits = call.limits /\ c.cut = call.cut
      /\ c.dialect = call.dialect /\ c.open = call.open /\ c.reason # "stop"
  BY <1>3, <1>4 DEF Request, CanCall
<1>6. Becomes(c)
  BY <1>1, <1>4
<1>7. RequestOK(c)
  <2>1. c.open = 0
    BY <1>5 DEF ProvInv, RequestOK, Blocks
  <2> QED
    BY <1>2, <1>5, <2>1, GrowsOK
<1> QED
  BY <1>6, <1>7, BecomesOK

LEMMA BlockStartOK ==
    ASSUME ProvInv, BlockStart
    PROVE  ProvInv'
<1>1. PICK name \in Bases :
         Becomes([call EXCEPT !.said = Append(@, NewCall(Given, name)),
                              !.open = Len(call.said) + 1])
  BY DEF BlockStart, Bases
<1>2. PICK s : s = Append(call.said, NewCall(Given, name))
  OBVIOUS
<1>3. Turn(s) /\ MadeUp(s) /\ Len(s) = Len(call.said) + 1
  BY <1>2, CallAdded, GivenIsNew DEF BlockStart
<1>4. call \in Request /\ s \in Seq(ToolCall) /\ Len(s) \in Nat
  BY <1>3, CallTypes, LenProperties DEF Turn
<1>5. PICK c : c = [call EXCEPT !.said = s, !.open = Len(s)]
  OBVIOUS
<1>6. /\ c \in Request /\ c.at = "stream" /\ c.said = s /\ c.calls = call.calls
      /\ c.ready = call.ready /\ c.limits = call.limits /\ c.cut = call.cut
      /\ c.dialect = call.dialect /\ c.open = Len(s) /\ c.dialect = "anthropic"
      /\ c.reason # "stop"
  BY <1>4, <1>5 DEF Request, BlockStart, Streams, CanCall
<1>7. Becomes(c)
  BY <1>1, <1>2, <1>3, <1>5
<1>8. RequestOK(c)
  BY <1>3, <1>6, GrowsOK DEF BlockStart, Streams
<1> QED
  BY <1>7, <1>8, BecomesOK

\* A step that leaves what was said alone.
LEMMA SameSaid ==
    ASSUME ProvInv, NEW c \in Request, c.said = call.said, c.dialect = call.dialect,
           c.calls = call.calls, Blocks(c), Underway(c), Truthful(c), Becomes(c)
    PROVE  ProvInv'
<1>1. RequestOK(c)
  BY DEF ProvInv, RequestOK
<1> QED
  BY <1>1, BecomesOK

LEMMA BlockEndOK ==
    ASSUME ProvInv, BlockStop \/ AccumulateFails
    PROVE  ProvInv'
<1>1. /\ call \in Request /\ Blocks(call) /\ Underway(call)
      /\ call.at = "stream" /\ call.dialect = "anthropic" /\ call.open > 0 /\ call.reason = ""
  BY DEF ProvInv, RequestOK, BlockStop, AccumulateFails, Streams
<1>0. Len(call.said) \in Nat /\ call.open \in Nat
  BY <1>1, LenProperties DEF Request
<1>2. /\ call.open = Len(call.said) /\ call.open \in 1 .. Len(call.said) /\ call.open \in Nat
      /\ ~call.cut /\ call.limits = 0
  <2>1. call.open = Len(call.said)
    BY <1>1 DEF Blocks
  <2>2. ~call.cut /\ call.limits = 0
    BY <1>1 DEF Underway
  <2>3. PICK n \in Nat : n = Len(call.said)
    BY <1>0
  <2>4. n > 0
    BY <1>1, <2>1, <2>3
  <2>5. n \in 1 .. n
    BY ONLY n \in Nat, <2>4
  <2> QED
    BY <1>0, <2>1, <2>2, <2>3, <2>5
<1>3. CASE BlockStop
  <2>1. PICK c : c = [call EXCEPT !.ready = @ \union {call.open}, !.open = 0]
    OBVIOUS
  <2>2. /\ c \in Request /\ c.said = call.said /\ c.dialect = call.dialect /\ c.calls = call.calls
        /\ c.at = "stream" /\ c.cut = call.cut /\ c.limits = 0 /\ c.open = 0
        /\ c.ready = call.ready \union {call.open} /\ c.reason = ""
    BY <1>1, <1>2, <2>1 DEF Request
  <2>3. call.ready \subseteq 1 .. Len(call.said)
    BY <1>1 DEF Blocks
  <2>4. Blocks(c)
    <3>1. c.ready \subseteq 1 .. Len(c.said)
      <4>1. {call.open} \subseteq 1 .. Len(call.said)
        BY ONLY <1>2
      <4> QED
        BY ONLY <2>2, <2>3, <4>1
    <3>2. c.open = 0 /\ c.dialect = "anthropic"
      BY <1>1, <2>2
    <3>3. ~(c.open > 0)
      BY ONLY <3>2
    <3> QED
      BY ONLY <3>1, <3>2, <3>3 DEF Blocks
  <2>5. Underway(c) /\ Truthful(c)
    BY <1>2, <2>2 DEF Underway, Truthful
  <2> QED
    BY <1>3, <2>1, <2>2, <2>4, <2>5, SameSaid DEF BlockStop
<1>4. CASE AccumulateFails
  <2>1. PICK c : c = [call EXCEPT !.limits = @ + 1, !.cut = TRUE, !.at = "ended"]
    OBVIOUS
  <2>2. /\ c \in Request /\ c.said = call.said /\ c.dialect = call.dialect /\ c.calls = call.calls
        /\ c.at = "ended" /\ c.cut /\ c.limits = 1 /\ c.open = call.open
        /\ c.ready = call.ready /\ c.reason = ""
    <3>1. PICK n : n = call.limits + 1
      OBVIOUS
    <3>2. n = 1
      BY <1>2, <3>1
    <3>3. c = [call EXCEPT !.limits = n, !.cut = TRUE, !.at = "ended"]
      BY <2>1, <3>1
    <3> QED
      BY <1>1, <3>2, <3>3 DEF Request
  <2>3. Blocks(c) /\ Underway(c) /\ Truthful(c)
    BY <1>1, <1>2, <2>2 DEF Blocks, Underway, Truthful
  <2> QED
    BY <1>4, <2>1, <2>2, <2>3, SameSaid DEF AccumulateFails
<1> QED
  BY <1>3, <1>4

LEMMA StreamOverOK ==
    ASSUME ProvInv, FinishReason \/ StreamBreaks \/ StreamEnds
    PROVE  ProvInv'
<1>1. /\ call \in Request /\ Blocks(call) /\ Underway(call) /\ call.at = "stream"
      /\ ~call.cut /\ call.limits = 0
  BY DEF ProvInv, RequestOK, Underway, FinishReason, StreamBreaks, StreamEnds
<1>2. CASE FinishReason
  <2>1. PICK r \in Reasons : (r = "stop" => call.open = 0) /\ Becomes([call EXCEPT !.reason = r])
    BY <1>2 DEF FinishReason, Reasons
  <2>2. PICK c : c = [call EXCEPT !.reason = r]
    OBVIOUS
  <2>3. /\ c \in Request /\ c.said = call.said /\ c.dialect = call.dialect /\ c.calls = call.calls
        /\ c.at = "stream" /\ c.cut = call.cut /\ c.limits = 0 /\ c.open = call.open
        /\ c.ready = call.ready /\ c.reason = r
    BY <1>1, <2>2 DEF Request
  <2>4. Blocks(c) /\ Underway(c) /\ Truthful(c)
    BY <1>1, <2>1, <2>3 DEF Blocks, Underway, Truthful
  <2> QED
    BY <2>1, <2>2, <2>3, <2>4, SameSaid
<1>3. CASE StreamBreaks
  <2>1. PICK e \in {"auth", "transient"} : Becomes([call EXCEPT !.at = "done", !.err = e])
    BY <1>3 DEF StreamBreaks
  <2>2. PICK c : c = [call EXCEPT !.at = "done", !.err = e]
    OBVIOUS
  <2>3. /\ c \in Request /\ c.said = call.said /\ c.dialect = call.dialect /\ c.calls = call.calls
        /\ c.at = "done" /\ c.cut = call.cut /\ c.open = call.open /\ c.ready = call.ready
        /\ c.reason = call.reason /\ c.err \in {"auth", "transient"}
    BY <1>1, <2>2 DEF Request
  <2>4. Blocks(c) /\ Underway(c) /\ Truthful(c)
    BY <1>1, <2>3 DEF Blocks, Underway, Truthful
  <2> QED
    BY <2>1, <2>2, <2>3, <2>4, SameSaid
<1>4. CASE StreamEnds
  <2>1. PICK c : c = [call EXCEPT !.at = "ended"]
    OBVIOUS
  <2>2. /\ c \in Request /\ c.said = call.said /\ c.dialect = call.dialect /\ c.calls = call.calls
        /\ c.at = "ended" /\ c.cut = call.cut /\ c.limits = 0 /\ c.open = call.open
        /\ c.ready = call.ready /\ c.reason = call.reason
    BY <1>1, <2>1 DEF Request
  <2>3. Blocks(c) /\ Underway(c) /\ Truthful(c)
    BY <1>1, <2>2 DEF Blocks, Underway, Truthful
  <2> QED
    BY <1>4, <2>1, <2>2, <2>3, SameSaid DEF StreamEnds
<1> QED
  BY <1>2, <1>3, <1>4

\* A stream that has ended returns calls among which the early ones are.
LEMMA ReturnsOK ==
    ASSUME ProvInv, call.at = "ended", NEW got, Turn(got),
           NEW reason \in Reasons, NEW limits \in {0, 1}, Returns(reason, got, limits),
           reason \in {"", "stop"} => call.reason \in {"", "stop"} /\ ~call.cut,
           call.limits + limits = IF reason = "length" THEN 1 ELSE 0,
           \A i \in DOMAIN call.said :
               i \in call.ready \/ call.reason = "stop" =>
                   call.said[i].name = "structured" \/ call.said[i] \in ToSet(got)
    PROVE  ProvInv'
<1>1. call \in Request /\ Blocks(call) /\ got \in Seq(ToolCall)
  BY DEF ProvInv, RequestOK, Turn
<1>2. /\ reasonErr(reason) \in {"none", "truncated", "blocked", "incomplete"}
      /\ reasonErr(reason) = "none" => reason \in {"", "stop"}
      /\ reasonErr(reason) = "truncated" <=> reason = "length"
  BY DEF reasonErr, Reasons
<1>3. PICK e : e = reasonErr(reason)
  OBVIOUS
<1>4. PICK n : n = call.limits + limits
  OBVIOUS
<1>5. n \in Nat
  <2>1. PICK k \in Nat : k = call.limits
    BY <1>1 DEF Request
  <2>2. n = k + limits /\ k \in Nat /\ limits \in {0, 1}
    BY <1>4, <2>1
  <2> QED
    BY ONLY <2>2
<1>6. PICK c : c = [call EXCEPT !.at = "done", !.err = e, !.calls = got, !.limits = n]
  OBVIOUS
<1>7. Becomes(c)
  BY <1>3, <1>4, <1>6 DEF Returns
<1>8. /\ c \in Request /\ c.said = call.said /\ c.dialect = call.dialect /\ c.calls = got
      /\ c.at = "done" /\ c.cut = call.cut /\ c.open = call.open /\ c.ready = call.ready
      /\ c.reason = call.reason /\ c.err = e /\ c.limits = n
  BY <1>1, <1>2, <1>3, <1>5, <1>6 DEF Request
<1>9. Blocks(c)
  BY <1>1, <1>8 DEF Blocks
<1>10. Underway(c)
  BY <1>8 DEF ProvInv, RequestOK, Underway
<1>11. Truthful(c)
  BY <1>2, <1>3, <1>4, <1>8 DEF Truthful
<1>12. RequestOK(c)
  BY <1>8, <1>9, <1>10, <1>11 DEF ProvInv, RequestOK
<1> QED
  BY <1>7, <1>12, BecomesOK

LEMMA PlainReturnOK ==
    ASSUME ProvInv, OpenAIReturn \/ GeminiReturn
    PROVE  ProvInv'
<1>1. /\ call.at = "ended" /\ call.dialect # "anthropic"
      /\ Returns(call.reason, call.said, Limits(call.reason))
  BY DEF OpenAIReturn, GeminiReturn, Ended
<1>2. /\ call.ready = {} /\ ~call.cut /\ call.limits = 0 /\ Turn(call.said)
      /\ call.reason \in Reasons
  BY <1>1 DEF ProvInv, RequestOK, Blocks, Underway, Request
<1>3. PICK limits : limits = Limits(call.reason)
  OBVIOUS
<1>4. limits \in {0, 1} /\ limits = IF call.reason = "length" THEN 1 ELSE 0
  BY <1>3 DEF Limits
<1>5. call.limits + limits = IF call.reason = "length" THEN 1 ELSE 0
  BY ONLY <1>2, <1>4
<1>6. \A i \in DOMAIN call.said :
         i \in call.ready \/ call.reason = "stop" =>
             call.said[i].name = "structured" \/ call.said[i] \in ToSet(call.said)
  BY DEF ToSet
<1> QED
  BY <1>1, <1>2, <1>3, <1>4, <1>5, <1>6, ReturnsOK

\* Some of the calls of a response, in their order.
LEMMA PartIsTurn ==
    ASSUME NEW s, Turn(s), NEW P \in SUBSET (1 .. Len(s))
    PROVE  /\ Turn(AtPositions(s, P)) /\ ToSet(AtPositions(s, P)) = {s[i] : i \in P}
<1>1. s \in Seq(ToolCall) /\ Len(s) <= MaxCalls /\ IdsDiffer(s)
  BY DEF Turn
<1>2. PICK n \in Nat : n = Len(s)
  BY <1>1, LenProperties
<1>3. PICK c : c = Cardinality(P)
  OBVIOUS
<1>4. PICK t : t = AtPositions(s, P)
  OBVIOUS
<1>5. /\ t \in Seq(ToolCall) /\ Len(t) = c /\ c \in Nat /\ c <= n /\ IsFiniteSet(P)
      /\ ToSet(t) = {s[i] : i \in P}
  BY ONLY <1>1, <1>2, <1>3, <1>4, P \in SUBSET (1 .. Len(s)), AtPositionsProperties
<1>6. PICK f : f = Ascending(P)
  OBVIOUS
<1>7. P \in SUBSET Nat
  BY <1>2
<1>8. f \in [1 .. c -> P] /\ \A i, j \in 1 .. c : i # j => f[i] # f[j]
  BY ONLY <1>3, <1>5, <1>6, <1>7, AscendingProperties
<1>9. \A k \in 1 .. c : f[k] \in 1 .. n /\ t[k] = s[f[k]]
  BY <1>2, <1>3, <1>4, <1>6, <1>8 DEF AtPositions
<1>10. ASSUME NEW i \in 1 .. c, NEW j \in 1 .. c, t[i].id = t[j].id PROVE i = j
  <2>1. f[i] = f[j]
    BY <1>1, <1>2, <1>9, <1>10 DEF IdsDiffer
  <2> QED
    BY <1>8, <2>1
<1>11. Turn(t)
  <2>1. c <= MaxCalls
    BY <1>1, <1>2, <1>5, Bounds
  <2> QED
    BY <1>5, <1>10, <2>1 DEF Turn, IdsDiffer
<1> QED
  BY <1>4, <1>5, <1>11

LEMMA AnthropicReturnOK ==
    ASSUME ProvInv, AnthropicReturn
    PROVE  ProvInv'
<1>0. PICK whole \in Extracted(call) :
         Returns(Reason(call), AtPositions(whole, {i \in DOMAIN whole : whole[i].name # "structured"}),
                 IF call.cut THEN 0 ELSE Limits(call.reason))
  BY DEF AnthropicReturn
<1> DEFINE P == {i \in DOMAIN whole : whole[i].name # "structured"}
           got == AtPositions(whole, P)
           limits == IF call.cut THEN 0 ELSE Limits(call.reason)
<1>1. /\ call.at = "ended" /\ call \in Request /\ Blocks(call) /\ Turn(call.said)
      /\ call.limits = (IF call.cut THEN 1 ELSE 0) /\ (call.cut => call.reason = "")
      /\ call.reason = "stop" => call.open = 0
      /\ Returns(Reason(call), got, limits)
  BY <1>0 DEF AnthropicReturn, Ended, ProvInv, RequestOK, Underway
<1>2. PICK n \in Nat : n = Len(call.said)
  BY <1>1, LenProperties DEF Turn
<1>3. /\ call.open \in Nat /\ call.ready \subseteq 1 .. n
      /\ call.open > 0 => call.open = n /\ n \notin call.ready
  BY <1>1, <1>2 DEF Blocks, Request
<1>12. whole = call.said \/ (call.open > 0 /\ whole = Front(call.said))
  <2>1. call.open = 0 \/ call.open > 0
    BY <1>3
  <2>2. CASE call.open = 0
    BY <1>0, <2>2, Zenon DEF Extracted
  <2>3. CASE call.open > 0
    <3>1. whole \in {Front(call.said)} \union {call.said}
      BY <1>0, <1>3, <2>3 DEF Extracted
    <3> QED
      BY <2>3, <3>1
  <2> QED
    BY <2>1, <2>2, <2>3
<1>13. call.open = 0 => whole = call.said
  BY <1>0 DEF Extracted
<1>4. PICK m \in Nat : m = IF whole = call.said THEN n ELSE n - 1
  <2>1. whole = call.said \/ n > 0
    BY <1>3, <1>12
  <2>2. n \in Nat /\ (IF whole = call.said THEN n ELSE n - 1) \in Nat
    BY ONLY <2>1, n \in Nat
  <2> QED
    BY <2>2
<1>5. call.ready \subseteq 1 .. m /\ m <= n
  BY <1>2, <1>3, <1>4, <1>12
<1>6. /\ Turn(whole) /\ Len(whole) = m /\ DOMAIN whole = 1 .. m
      /\ \A i \in 1 .. m : whole[i] = call.said[i]
  <2>1. /\ call.said \in Seq(ToolCall) /\ DOMAIN call.said = 1 .. n /\ n <= MaxCalls
        /\ \A i, j \in 1 .. n : call.said[i].id = call.said[j].id => i = j
    BY <1>1, <1>2, LenProperties DEF Turn, IdsDiffer
  <2>2. CASE whole = call.said
    BY <1>1, <1>2, <1>4, <2>1, <2>2
  <2>3. CASE whole # call.said
    <3>1. PICK t : t = SubSeq(call.said, 1, n - 1)
      OBVIOUS
    <3>2. whole = t
      BY <1>2, <1>12, <2>3, <3>1 DEF Front
    <3>3. 1 \in Int /\ n - 1 \in Int /\ \A i \in 1 .. n - 1 : call.said[i] \in ToolCall
      BY <1>2, <2>1, ElementOfSeq
    <3>4. /\ t \in Seq(ToolCall) /\ Len(t) = (IF 1 <= n - 1 THEN n - 1 - 1 + 1 ELSE 0)
          /\ \A i \in 1 .. n - 1 - 1 + 1 : t[i] = call.said[1 + i - 1]
      BY ONLY <3>1, <3>3, SubSeqProperties
    <3>5. Len(t) = m /\ m = n - 1
      BY <1>2, <1>4, <2>3, <3>4
    <3>6. DOMAIN t = 1 .. m
      BY <3>4, <3>5, LenProperties
    <3>7. \A i \in 1 .. m : t[i] = call.said[i] /\ i \in 1 .. n
      <4> TAKE i \in 1 .. m
      <4>1. i \in 1 .. n - 1 - 1 + 1 /\ 1 + i - 1 = i /\ i \in 1 .. n
        BY <1>2, <1>4, <3>5
      <4> QED
        BY ONLY <3>4, <4>1
    <3>8. Turn(t)
      <4>1. m <= MaxCalls
        BY <1>5, <2>1, Bounds
      <4>2. \A i, j \in 1 .. m : t[i].id = t[j].id => i = j
        BY <2>1, <3>7
      <4> QED
        BY <3>4, <3>5, <4>1, <4>2 DEF Turn, IdsDiffer
    <3> QED
      BY <3>2, <3>5, <3>6, <3>7, <3>8
  <2> QED
    BY <2>2, <2>3
<1>7. P \in SUBSET (1 .. Len(whole))
  BY <1>6
<1>8. Turn(got) /\ ToSet(got) = {whole[i] : i \in P}
  <2> HIDE DEF P
  <2> QED
    BY <1>6, <1>7, PartIsTurn
<1>9. \A i \in DOMAIN call.said :
         i \in call.ready \/ call.reason = "stop" =>
             call.said[i].name = "structured" \/ call.said[i] \in ToSet(got)
  <2> SUFFICES ASSUME NEW i \in DOMAIN call.said, call.said[i].name # "structured",
                      i \in call.ready \/ call.reason = "stop"
               PROVE  call.said[i] \in ToSet(got)
    OBVIOUS
  <2>1. i \in 1 .. m /\ whole[i] = call.said[i]
    <3>1. CASE i \in call.ready
      BY <1>5, <1>6, <3>1
    <3>2. CASE call.reason = "stop"
      <4>1. whole = call.said
        BY <1>1, <1>13, <3>2
      <4> QED
        BY <1>6, <4>1
    <3> QED
      BY <3>1, <3>2
  <2>2. i \in P
    BY <1>6, <2>1
  <2> HIDE DEF P, got
  <2> QED
    BY <1>8, <2>1, <2>2
<1> HIDE DEF got, P
<1>10. /\ Reason(call) \in Reasons
       /\ Reason(call) \in {"", "stop"} => call.reason \in {"", "stop"} /\ ~call.cut
  BY <1>1 DEF Reason, Request, Reasons
<1>11. limits \in {0, 1} /\ call.limits + limits = IF Reason(call) = "length" THEN 1 ELSE 0
  <2>1. CASE call.cut
    <3>1. call.limits = 1 /\ limits = 0 /\ Reason(call) = "length"
      BY <1>1, <2>1 DEF Reason
    <3> HIDE DEF limits
    <3> QED
      BY ONLY <3>1
  <2>2. CASE ~call.cut
    <3>1. /\ call.limits = 0 /\ Reason(call) = call.reason
          /\ limits = IF call.reason = "length" THEN 1 ELSE 0
      BY <1>1, <2>2 DEF Reason, Limits
    <3> HIDE DEF limits
    <3> QED
      BY ONLY <3>1
  <2> QED
    BY <2>1, <2>2
<1> HIDE DEF limits
<1> QED
  BY <1>1, <1>8, <1>9, <1>10, <1>11, ReturnsOK

LEMMA ProvNextInv == ProvInv /\ [ProvNext]_provVars => ProvInv'
<1> SUFFICES ASSUME ProvInv, [ProvNext]_provVars PROVE ProvInv'
  OBVIOUS
<1>1. CASE OpenAIDelta
  <2>1. PICK name \in Names : Becomes([call EXCEPT !.said = Append(@, NewCall(Given, name))])
    BY <1>1 DEF OpenAIDelta
  <2>2. /\ call.at = "stream" /\ call.dialect # "anthropic" /\ CanCall
    BY <1>1 DEF OpenAIDelta, Streams
  <2> QED
    BY <2>1, <2>2, GivenIsNew, DeltaOK
<1>2. CASE GeminiPart
  <2>1. PICK name \in Names : \E id \in {Given, pendingCallID(name)} :
            Becomes([call EXCEPT !.said = Append(@, NewCall(id, name))])
    BY <1>2 DEF GeminiPart
  <2>2. /\ call.at = "stream" /\ call.dialect # "anthropic" /\ CanCall
    BY <1>2 DEF GeminiPart, Streams
  <2>3. CASE Becomes([call EXCEPT !.said = Append(@, NewCall(Given, name))])
    BY <2>2, <2>3, GivenIsNew, DeltaOK
  <2>4. CASE Becomes([call EXCEPT !.said = Append(@, NewCall(pendingCallID(name), name))])
    BY <2>2, <2>4, PendingIsNew, DeltaOK
  <2> QED
    BY <2>1, <2>3, <2>4
<1>3. CASE NextTurn
  <2>1. /\ past \in Seq(Seq(ToolCall)) /\ \A t \in 1 .. Len(past) : Turn(past[t])
    BY DEF ProvInv
  <2>2. Turn(call.calls) /\ call.calls \in Seq(ToolCall)
    BY DEF ProvInv, RequestOK, Turn
  <2>3. call' = Idle /\ past' \in {past, Append(past, call.calls)}
    BY <1>3 DEF NextTurn
  <2>4. PICK q : q = Append(past, call.calls)
    OBVIOUS
  <2>5. /\ q \in Seq(Seq(ToolCall)) /\ Len(q) = Len(past) + 1 /\ q[Len(past) + 1] = call.calls
        /\ \A t \in 1 .. Len(past) : q[t] = past[t]
    BY ONLY <2>1, <2>2, <2>4, AppendProperties
  <2>6. Len(past) \in Nat
    BY <2>1, LenProperties
  <2>7. \A t \in 1 .. Len(q) : Turn(q[t])
    <3> TAKE t \in 1 .. Len(q)
    <3>1. t \in 1 .. Len(past) \/ t = Len(past) + 1
      BY <2>5, <2>6
    <3> QED
      BY <2>1, <2>2, <2>5, <3>1
  <2> HIDE DEF Turn
  <2> QED
    BY <2>1, <2>3, <2>4, <2>5, <2>7, IdleIsOK DEF ProvInv
<1>4. CASE UNCHANGED provVars
  BY <1>4 DEF provVars, ProvInv, RequestOK, Turn, MadeUp, Blocks, Underway, Truthful, IdsDiffer,
     SameName
<1> QED
  BY <1>1, <1>2, <1>3, <1>4, GenerateStreamOK, BlockStartOK, BlockEndOK, StreamOverOK,
     AnthropicReturnOK, PlainReturnOK DEF ProvNext

\* The name Gemini is told for the id of a call of the latest turn is that of the call.
LEMMA NameOfLatest ==
    ASSUME NEW turns \in Seq(Seq(ToolCall)), NEW t \in 1 .. Len(turns),
           NEW i \in 1 .. Len(turns[t]),
           t = Len(turns), Turn(turns[t])
    PROVE  functionResponseName(turns, turns[t][i].id) = turns[t][i].name
<1> DEFINE id == turns[t][i].id
           uses == {p \in (1 .. Len(turns)) \X (1 .. MaxCalls) :
                       p[2] \in 1 .. Len(turns[p[1]]) /\ turns[p[1]][p[2]].id = id}
           Latest(p) == \A q \in uses : q[1] < p[1] \/ (q[1] = p[1] /\ q[2] <= p[2])
<1>1. /\ Len(turns) \in Nat /\ Len(turns[t]) \in Nat /\ Len(turns[t]) <= MaxCalls
      /\ MaxCalls \in Nat
  BY Bounds, LenProperties DEF Turn
<1>2. <<t, i>> \in uses
  BY <1>1
<1>3. \A q \in uses : q[1] = t => q[2] = i
  BY DEF Turn, IdsDiffer
<1>4. \A q \in uses : q[1] \in Nat /\ q[1] <= t /\ q[2] \in Nat
  BY <1>1
<1> HIDE DEF uses
<1>5. Latest(<<t, i>>)
  BY <1>1, <1>3, <1>4
<1>6. PICK last : last = CHOOSE p \in uses : Latest(p)
  OBVIOUS
<1>7. last \in uses /\ Latest(last)
  BY <1>2, <1>5, <1>6
<1>8. last[1] = t
  <2>1. /\ last[1] \in Nat /\ last[1] <= t /\ t \in Nat
        /\ t < last[1] \/ (t = last[1] /\ i <= last[2])
    BY <1>1, <1>2, <1>4, <1>7
  <2> QED
    BY ONLY <2>1
<1>9. last[2] = i
  BY <1>3, <1>7, <1>8
<1>10. functionResponseName(turns, id) = turns[last[1]][last[2]].name
  BY <1>6 DEF functionResponseName, uses
<1> QED
  BY <1>8, <1>9, <1>10

(* A response that is known to be cut is an error of the right kind, the   *)
(* limit is announced once, a call started early is returned, and a result *)
(* finds its call, with any provider and after any turns (ProvInv).        *)
THEOREM StreamsAreTruthful == ProvSpec => []StreamIsTruthful
<1>1. ProvInit => ProvInv
  BY IdleIsOK DEF ProvInit, ProvInv
<1>2. ProvInv => ReportedCutIsNoSuccess
  BY DEF ProvInv, RequestOK, Truthful, ReportedCutIsNoSuccess
<1>3. ProvInv => ResultsFindTheirCalls
  <2> SUFFICES ASSUME ProvInv, NEW t \in 1 .. Len(past)
               PROVE  /\ \A i, j \in 1 .. Len(past[t]) : past[t][i].id = past[t][j].id => i = j
                      /\ \A i \in 1 .. Len(past[t]) :
                            functionResponseName(SubSeq(past, 1, t), past[t][i].id)
                              = past[t][i].name
    BY DEF ResultsFindTheirCalls
  <2>1. past \in Seq(Seq(ToolCall)) /\ Turn(past[t]) /\ Len(past) \in Nat
    BY LenProperties DEF ProvInv
  <2>2. PICK s : s = SubSeq(past, 1, t)
    OBVIOUS
  <2>3. 1 \in Int /\ t \in Int /\ \A i \in 1 .. t : past[i] \in Seq(ToolCall)
    BY <2>1, ElementOfSeq
  <2>4. /\ s \in Seq(Seq(ToolCall)) /\ Len(s) = (IF 1 <= t THEN t - 1 + 1 ELSE 0)
        /\ \A i \in 1 .. t - 1 + 1 : s[i] = past[1 + i - 1]
    BY ONLY <2>2, <2>3, SubSeqProperties
  <2>5. Len(s) = t /\ t \in 1 .. Len(s)
    BY <2>1, <2>4
  <2>6. s[t] = past[t]
    <3>1. t \in 1 .. t - 1 + 1 /\ 1 + t - 1 = t
      BY <2>1
    <3> QED
      BY ONLY <2>4, <3>1
  <2>7. \A i \in 1 .. Len(past[t]) : functionResponseName(s, past[t][i].id) = past[t][i].name
    BY <2>1, <2>4, <2>5, <2>6, NameOfLatest
  <2> QED
    BY <2>1, <2>2, <2>7 DEF Turn, IdsDiffer
<1> QED
  BY <1>1, <1>2, <1>3, ProvNextInv, PTL DEF ProvSpec, StreamIsTruthful
===============================================================================
