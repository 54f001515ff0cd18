----------------------------- MODULE Reflection -----------------------------
(***************************************************************************)
(* The self-critique rounds of pkg/agent/reflect.go, run once a turn has a *)
(* final answer: each round asks the model to revise the answer that ends  *)
(* the conversation, and a Scorer, when there is one, decides whether the  *)
(* revision replaces it.                                                   *)
(***************************************************************************)
EXTENDS Integers, Sequences

CONSTANTS
    Answers,      \* texts the model may answer with
    Scores,       \* scores a Scorer may give
    MaxRounds     \* bound on AgentLoop.Reflect

ASSUME ReflectAssumption == Scores \subseteq Int /\ MaxRounds \in Nat \ {0}

VARIABLES
    reflect,      \* Reflect, the passes configured, and whether a Scorer is set
    round,        \* the pass under way, 0 while the original answer is scored
    step,         \* "score", "revise" or "done"
    lastMsg,      \* the Content that ends msgs
    best,         \* the answer to keep
    bestScore,    \* [have, score]: its score, when it was ranked
    reflected,    \* the ReflectedEvents sent
    ranked        \* history: every candidate the Scorer ranked, in order

reflVars == <<reflect, round, step, lastMsg, best, bestScore, reflected, ranked>>

Unranked == [have |-> FALSE, score |-> 0]

ReflInit ==
    /\ reflect \in [passes : 1 .. MaxRounds, scorer : BOOLEAN]
    /\ round = 0
    /\ step = "score"
    /\ best \in Answers
    /\ lastMsg = best
    /\ bestScore = Unranked
    /\ reflected = <<>>
    /\ ranked = <<>>

\* scoreCandidate: unranked without a Scorer or when the Scorer fails.
scoreCandidate == IF reflect.scorer
                  THEN {Unranked} \cup [have : {TRUE}, score : Scores]
                  ELSE {Unranked}

Rank(answer, s) ==
    ranked' = IF s.have THEN Append(ranked, [answer |-> answer, score |-> s.score])
              ELSE ranked

NextPass == IF round < reflect.passes
            THEN round' = round + 1 /\ step' = "revise"
            ELSE round' = round /\ step' = "done"

\* The original answer is scored before any pass.
ScoreOriginal ==
    /\ step = "score" /\ round = 0
    /\ \E s \in scoreCandidate : bestScore' = s /\ Rank(best, s)
    /\ NextPass
    /\ UNCHANGED <<reflect, lastMsg, best, reflected>>

\* reflectOnce fails: the remaining passes are given up.
Abort ==
    /\ step = "revise"
    /\ step' = "done"
    /\ UNCHANGED <<reflect, round, lastMsg, best, bestScore, reflected, ranked>>

\* The model says nothing, or repeats the answer.
NoRevision ==
    /\ step = "revise"
    /\ NextPass
    /\ UNCHANGED <<reflect, lastMsg, best, bestScore, reflected, ranked>>

Revise ==
    /\ step = "revise"
    /\ \E a \in Answers \ {best} : lastMsg' = a
    /\ step' = "score"
    /\ UNCHANGED <<reflect, round, best, bestScore, reflected, ranked>>

\* A bug to plant: a tie adopts the revision.
LosesStrictly(s) ==
    reflect.scorer /\ (~s.have \/ (bestScore.have /\ s.score < bestScore.score))

Loses(s) == reflect.scorer /\ (~s.have \/ (bestScore.have /\ s.score <= bestScore.score))

Adopt ==
    /\ step = "score" /\ round > 0
    /\ \E s \in scoreCandidate :
         /\ ~Loses(s)
         /\ bestScore' = s
         /\ Rank(lastMsg, s)
    /\ best' = lastMsg
    /\ reflected' = Append(reflected, lastMsg)
    /\ NextPass
    /\ UNCHANGED <<reflect, lastMsg>>

Discard ==
    /\ step = "score" /\ round > 0
    /\ \E s \in scoreCandidate : Loses(s) /\ Rank(lastMsg, s)
    /\ lastMsg' = best
    /\ NextPass
    /\ UNCHANGED <<reflect, best, bestScore, reflected>>

ReflNext == ScoreOriginal \/ Abort \/ NoRevision \/ Revise \/ Adopt \/ Discard

ReflSpec == ReflInit /\ [][ReflNext]_reflVars

-----------------------------------------------------------------------------
\* Whatever was revised, discarded or given up, each critique is shown the
\* answer kept so far, which is the one the last ReflectedEvent announced and,
\* among the candidates the Scorer managed to rank, the first of the best
\* (runReflectRounds rewrites the last message in place and restores it).
KeptIsBest ==
    step # "score" =>
        /\ lastMsg = best
        /\ reflected # <<>> => reflected[Len(reflected)] = best
        /\ ranked # <<>> =>
             \E i \in DOMAIN ranked :
                /\ ranked[i].answer = best
                /\ \A j \in DOMAIN ranked :
                     IF j < i THEN ranked[j].score < ranked[i].score
                     ELSE ranked[j].score <= ranked[i].score
=============================================================================
