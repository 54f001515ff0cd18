----------------------------- MODULE MCServices -----------------------------
(***************************************************************************)
(* The services around the agent loop, each with its own state behind its  *)
(* own lock: sessions in MySQL, provider streams, the SQL sub-agent, the   *)
(* tool middleware, the registry and its selector, the evaluation suite,   *)
(* the search cache, reflection, the budgets and the session tools.  None  *)
(* reads the state of another, so a behaviour runs one of them, the one in *)
(* focus, and the state space is the sum of theirs.                        *)
(***************************************************************************)
EXTENDS RowSessions, ProviderStream, SqlAgent, ToolMiddleware, ToolRegistry,
        EvalSuite, SearchCache, Reflection, Budgets, SessionTools

VARIABLE focus

TwoRoutes == <<"anthropic", "openai">>

\* The pairs of queries alike to the threshold: not a transitive relation.
SimilarQueries == {<<"a", "b">>, <<"b", "a">>, <<"b", "c">>, <<"c", "b">>}

OneSession == [r \in Spenders |-> "s"]

\* Three calls of one session and one with no session key.
SessionKeys == [c \in ToolCalls |-> IF c = "c4" THEN "none" ELSE "s"]

-----------------------------------------------------------------------------
Services == {"rows", "stream", "sql", "middleware", "registry", "evaluation",
             "cache", "reflection", "budget", "tools"}

\* What is out of focus stands still at one of its initial states.
ServInit ==
    /\ focus \in Services
    /\ RowInit /\ ProvInit /\ SqlInit /\ MwInit /\ RegInit /\ CacheInit
    /\ BudgetInit /\ ToolsInit /\ EvalInit /\ ReflInit
    /\ focus # "evaluation" =>
          suite = [graders |-> {"contains", "no_error"}, minScore |-> FALSE, done |-> FALSE]
    /\ focus # "reflection" =>
          best = "a" /\ reflect = [passes |-> 1, scorer |-> FALSE]

ServNext ==
    /\ UNCHANGED focus
    /\ \/ /\ focus = "rows" /\ RowNext
          /\ UNCHANGED <<provVars, sqlVars, mwVars, regVars, evalVars, cacheVars,
                         reflVars, budgetVars, toolVars>>
       \/ /\ focus = "stream" /\ ProvNext
          /\ UNCHANGED <<rowVars, sqlVars, mwVars, regVars, evalVars, cacheVars,
                         reflVars, budgetVars, toolVars>>
       \/ /\ focus = "sql" /\ SqlNext
          /\ UNCHANGED <<rowVars, provVars, mwVars, regVars, evalVars, cacheVars,
                         reflVars, budgetVars, toolVars>>
       \/ /\ focus = "middleware" /\ MwNext
          /\ UNCHANGED <<rowVars, provVars, sqlVars, regVars, evalVars, cacheVars,
                         reflVars, budgetVars, toolVars>>
       \/ /\ focus = "registry" /\ RegNext
          /\ UNCHANGED <<rowVars, provVars, sqlVars, mwVars, evalVars, cacheVars,
                         reflVars, budgetVars, toolVars>>
       \/ /\ focus = "evaluation" /\ EvalNext
          /\ UNCHANGED <<rowVars, provVars, sqlVars, mwVars, regVars, cacheVars,
                         reflVars, budgetVars, toolVars>>
       \/ /\ focus = "cache" /\ CacheNext
          /\ UNCHANGED <<rowVars, provVars, sqlVars, mwVars, regVars, evalVars,
                         reflVars, budgetVars, toolVars>>
       \/ /\ focus = "reflection" /\ ReflNext
          /\ UNCHANGED <<rowVars, provVars, sqlVars, mwVars, regVars, evalVars,
                         cacheVars, budgetVars, toolVars>>
       \/ /\ focus = "budget" /\ BudgetNext
          /\ UNCHANGED <<rowVars, provVars, sqlVars, mwVars, regVars, evalVars,
                         cacheVars, reflVars, toolVars>>
       \/ /\ focus = "tools" /\ ToolsNext
          /\ UNCHANGED <<rowVars, provVars, sqlVars, mwVars, regVars, evalVars,
                         cacheVars, reflVars, budgetVars>>

ServSpec ==
    ServInit
    /\ [][ServNext]_<<focus, rowVars, provVars, sqlVars, mwVars, regVars, evalVars,
                     cacheVars, reflVars, budgetVars, toolVars>>
=============================================================================
