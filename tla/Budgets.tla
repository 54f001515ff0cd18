------------------------------ MODULE Budgets ------------------------------
(***************************************************************************)
(* The accounting around model calls: the per-session BudgetTracker of     *)
(* pkg/agent/budget.go, whose Guard is a BeforeLLMHook and whose Handler   *)
(* listens to usage events, and the per-run cost accumulator of            *)
(* pkg/agent/cost.go.  Several runs share a session and call the model     *)
(* concurrently; callLLM (pkg/agent/llm_call.go) is where both meet.       *)
(***************************************************************************)
EXTENDS Integers, FiniteSets

CONSTANTS
    Spenders,     \* runs
    SessionOf,    \* the session of each run
    Budget,       \* BudgetTracker.Budget, 0 when it only records
    MaxUse,       \* bound on the tokens of one call
    Price,        \* the price table's rate for the model, 0 without one
    Passes,       \* AgentLoop.Reflect
    MaxAttempts,  \* bound: calls of one run, reflection excluded
    MaxRewinds,   \* bound: calls of Reset and Rewind
    MaxForwarded  \* bound: tokens the sub-agents of a session charge to it

ASSUME BudgetAssumption ==
    /\ {Budget, MaxUse, Price, Passes, MaxAttempts, MaxRewinds, MaxForwarded} \subseteq Nat
    /\ IsFiniteSet(Spenders)

VARIABLES
    spent,        \* BudgetTracker.usage: [tokens, cost] of each session
    spender,      \* where each run is
    cost,         \* runCostAcc of each run: [tokens, usd]
    calls,        \* calls of the model each run has started
    hooks,        \* times each run's BeforeLLMHooks let a call through
    reported,     \* the RunCostEvent of each ended run, if any
    rewinds,      \* bound counter
    forwarded     \* tokens each session was charged for its runs' sub-agents

budgetVars == <<spent, spender, cost, calls, hooks, reported, rewinds, forwarded>>

BudgetSessions == {SessionOf[r] : r \in Spenders}
Nothing == [tokens |-> 0, cost |-> 0]

BudgetInit ==
    /\ spent = [s \in BudgetSessions |-> Nothing]
    /\ spender = [r \in Spenders |-> "hooks"]
    /\ cost = [r \in Spenders |-> Nothing]
    /\ calls = [r \in Spenders |-> 0]
    /\ hooks = [r \in Spenders |-> 0]
    /\ reported = [r \in Spenders |-> <<>>]
    /\ rewinds = 0 /\ forwarded = [s \in BudgetSessions |-> 0]

-----------------------------------------------------------------------------
Positive(n) == IF n < 0 THEN 0 ELSE n

\* A bug to plant: the budget is enforced once it is exceeded, not reached.
GuardPastBudget(s) == Budget = 0 \/ spent[s].tokens <= Budget

Guard(s) == Budget = 0 \/ spent[s].tokens < Budget

\* callLLM runs the hooks.  A refusal is an error like any other: the call is
\* tried again after the delay of the retry policy, and let through when the
\* session was reset or refunded by then, or the run ends.
RunHooks(r) ==
    /\ spender[r] = "hooks" /\ calls[r] < MaxAttempts
    /\ IF Guard(SessionOf[r])
       THEN /\ spender' = [spender EXCEPT ![r] = "admitted"]
            /\ hooks' = [hooks EXCEPT ![r] = @ + 1]
       ELSE /\ \E next \in {"hooks", "ending"} : spender' = [spender EXCEPT ![r] = next]
            /\ UNCHANGED hooks
    /\ UNCHANGED <<spent, cost, calls, reported, rewinds, forwarded>>

\* The call itself, after the tools and messages of the request are built.
StartCall(r) ==
    /\ spender[r] = "admitted"
    /\ spender' = [spender EXCEPT ![r] = "calling"]
    /\ calls' = [calls EXCEPT ![r] = @ + 1]
    /\ UNCHANGED <<spent, cost, hooks, reported, rewinds, forwarded>>

\* runCostAcc.add: a reported charge is taken, else the table's estimate.
Compute(tokens) == tokens * Price

AddCost(acc, u) ==
    [tokens |-> acc.tokens + u.tokens,
     cost |-> acc.cost + IF u.cost > 0 THEN u.cost ELSE Compute(u.tokens)]

Handler(cur, u) ==
    [tokens |-> cur.tokens + u.tokens, cost |-> cur.cost + Positive(u.cost)]

\* The call succeeds: usage worth recording is emitted, which runs the
\* tracker's handler, and added to the run's total.  The turn goes on with
\* the tools the call asks for, with the reflection passes, or ends.
EndCall(r) ==
    /\ spender[r] = "calling"
    /\ \E u \in [tokens : 0 .. MaxUse, cost : -1 .. 1] :
         IF u.tokens > 0 \/ u.cost > 0
         THEN /\ spent' = [spent EXCEPT ![SessionOf[r]] = Handler(@, u)]
              /\ cost' = [cost EXCEPT ![r] = AddCost(@, u)]
         ELSE UNCHANGED <<spent, cost>>
    /\ \E next \in {"tools", "ending"} \cup (IF Passes > 0 THEN {"reflect"} ELSE {}) :
         spender' = [spender EXCEPT ![r] = next]
    /\ UNCHANGED <<calls, hooks, reported, rewinds, forwarded>>

\* The call fails: nothing is recorded; it is retried from the hooks, or ends
\* the run.
FailCall(r) ==
    /\ spender[r] = "calling"
    /\ \E next \in {"hooks", "ending"} : spender' = [spender EXCEPT ![r] = next]
    /\ UNCHANGED <<spent, cost, calls, hooks, reported, rewinds, forwarded>>

\* A tool of the run is a sub-agent.  Its loop has no hooks and calls the model
\* as often as it likes; the usage of each call is forwarded to the stream of
\* the run, whose handlers charge it to the run's session (the event is dropped
\* when the stream is full), and not to the run's own cost.  Calls with no tokens,
\* which the budget does not see, are left out.
ForwardUsage(r) ==
    LET s == SessionOf[r]
    IN /\ spender[r] = "tools"
       /\ \E u \in [tokens : 1 .. MaxUse, cost : -1 .. 1] :
            /\ forwarded[s] + u.tokens <= MaxForwarded
            /\ spent' = [spent EXCEPT ![s] = Handler(@, u)]
            /\ forwarded' = [forwarded EXCEPT ![s] = @ + u.tokens]
       /\ UNCHANGED <<spender, cost, calls, hooks, reported, rewinds>>

EndTools(r) ==
    /\ spender[r] = "tools"
    /\ spender' = [spender EXCEPT ![r] = "hooks"]
    /\ UNCHANGED <<spent, cost, calls, hooks, reported, rewinds, forwarded>>

\* reflectOnce calls the provider directly, and drops its usage events.
ReflectOnce(r) ==
    /\ spender[r] = "reflect"
    /\ calls' = [calls EXCEPT ![r] = @ + 1]
    /\ spender' = [spender EXCEPT ![r] = IF calls[r] - hooks[r] + 1 < Passes
                                         THEN "reflect" ELSE "ending"]
    /\ UNCHANGED <<spent, cost, hooks, reported, rewinds, forwarded>>

\* emitRunCostIfConfigured, deferred, on every way out of the run.
EndSpending(r) ==
    /\ \/ spender[r] = "ending"
       \/ spender[r] = "hooks" /\ calls[r] = MaxAttempts
    /\ spender' = [spender EXCEPT ![r] = "ended"]
    /\ reported' = [reported EXCEPT ![r] =
         IF cost[r] # Nothing /\ (Price > 0 \/ cost[r].cost > 0) THEN <<cost[r]>>
         ELSE <<>>]
    /\ UNCHANGED <<spent, cost, calls, hooks, rewinds, forwarded>>

-----------------------------------------------------------------------------
FloorZero(a, b) == Positive(a - b)

Rewind(s) ==
    /\ rewinds < MaxRewinds /\ rewinds' = rewinds + 1
    /\ \E refund \in 1 .. MaxUse + 1 :
         spent' = [spent EXCEPT ![s].tokens = FloorZero(@, refund)]
    /\ UNCHANGED <<spender, cost, calls, hooks, reported, forwarded>>

\* Reset of one session, or of all with the empty key.
Reset(S) ==
    /\ rewinds < MaxRewinds /\ rewinds' = rewinds + 1
    /\ spent' = [s \in BudgetSessions |-> IF s \in S THEN Nothing ELSE spent[s]]
    /\ UNCHANGED <<spender, cost, calls, hooks, reported, forwarded>>

BudgetNext ==
    \/ \E r \in Spenders :
         \/ RunHooks(r) \/ StartCall(r) \/ EndCall(r) \/ FailCall(r)
         \/ ForwardUsage(r) \/ EndTools(r) \/ ReflectOnce(r) \/ EndSpending(r)
    \/ \E s \in BudgetSessions : Rewind(s)
    \/ \E S \in {BudgetSessions} \cup {{s} : s \in BudgetSessions} : Reset(S)

BudgetSpec == BudgetInit /\ [][BudgetNext]_budgetVars

-----------------------------------------------------------------------------
\* However many runs share a session, check its budget at the same moment and
\* are charged later, and whatever is reset, refunded or tried again meanwhile,
\* the spend of the session passes its budget by less than one call for each of
\* its runs, besides what their sub-agents were charged, which no hook limits
\* (Guard and Handler take the tracker's lock separately).
OverrunIsBounded ==
    Budget > 0 =>
      \A s \in BudgetSessions :
        spent[s].tokens < Budget + MaxUse * Cardinality({r \in Spenders : SessionOf[r] = s})
                                 + forwarded[s]

=============================================================================
