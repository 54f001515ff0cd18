------------------------------- MODULE SqlAgent -------------------------------
(***************************************************************************)
(* call_sql_agent (tools/builtin/sql_agent.go, sql_consistency.go): n      *)
(* sub-agents answer the same question in sessions of their own, each with *)
(* an execute_sql tool that remembers its last result; the answer is the   *)
(* one of the largest group of equal results.                              *)
(*                                                                         *)
(* A result is a number, equal when columns and rows are, 0 for none.      *)
(***************************************************************************)
EXTENDS Naturals, FiniteSets

CONSTANTS
    Candidates,     \* the indexes of the runs, a single one without WithSelfConsistency
    Results,        \* what a query may return
    Confirms,       \* WithExecuteSQLConfirmation
    MaxStatements   \* bound on the statements of a run

ASSUME SqlAgentAssumption ==
    /\ Candidates \subseteq Nat /\ Candidates # {} /\ IsFiniteSet(Candidates)
    /\ Results \subseteq Nat \ {0}
    /\ Confirms \in BOOLEAN /\ MaxStatements \in Nat

VARIABLES
    cand,     \* each run: where it is, its session, statements, capture and answer
    reply     \* what call_sql_agent returned

sqlVars == <<cand, reply>>

NoReply == [from |-> 0, text |-> "none", structured |-> 0]

SqlInit ==
    /\ cand = [i \in Candidates |-> [at |-> "seed", session |-> FALSE, run |-> 0, open |-> {},
                                     capture |-> 0, blocked |-> "no", text |-> "none"]]
    /\ reply = NoReply

-----------------------------------------------------------------------------
(* runOnce *)

ReplyBecomes(i, c) == cand' = [cand EXCEPT ![i] = c] /\ UNCHANGED reply

\* The seed may fail to be saved; the run goes on and creates the session.
Seed(i) == cand[i].at = "seed" /\ ReplyBecomes(i, [cand[i] EXCEPT !.at = "runs", !.session = TRUE])

\* The model calls execute_sql; several calls may be open at a time.
Issue(i) ==
    /\ cand[i].at = "runs" /\ cand[i].run < MaxStatements
    /\ ReplyBecomes(i, [cand[i] EXCEPT !.run = @ + 1, !.open = @ \union {cand[i].run + 1}])

\* executeRead leaves its result; the last one to finish wins.
ReadSucceeds(i, call) ==
    /\ call \in cand[i].open
    /\ \E r \in Results :
          ReplyBecomes(i, [cand[i] EXCEPT !.open = @ \ {call}, !.capture = r])

\* Rejected, failed, or DML or DDL: the capture stays what it was.
EndsWithout(i, call) ==
    call \in cand[i].open /\ ReplyBecomes(i, [cand[i] EXCEPT !.open = @ \ {call}])

\* The operator says no, or nothing in time.
Blocked(i, call) ==
    /\ Confirms /\ call \in cand[i].open
    /\ \E why \in {"denied", "timeout"} :
          ReplyBecomes(i, [cand[i] EXCEPT !.open = @ \ {call}, !.blocked = why])

\* hitlBlockedReport puts the block in front of whatever the model said.
Reported(c, said) == IF c.blocked = "no" THEN said ELSE c.blocked

\* The sub-agent ends, perhaps without a word, and its session is deleted; a
\* failed delete is reported to OnSQL.
SqlAnswers(i) ==
    /\ cand[i].at = "runs" /\ cand[i].open = {}
    /\ \E said \in {"none", "text"}, left \in BOOLEAN :
          ReplyBecomes(i, [cand[i] EXCEPT !.at = "done", !.session = left,
                                     !.text = Reported(cand[i], said)])

-----------------------------------------------------------------------------
(* runCandidates, pickByMajority                                           *)

First(S) == CHOOSE i \in S : \A j \in S : i <= j
\* Mutant of Clustered: the runs without a result are a group too.
ClusteredWithNone == Candidates
Clustered == {i \in Candidates : cand[i].capture # 0}
Cluster(i) == {j \in Clustered : cand[j].capture = cand[i].capture}

\* The largest cluster, the first seen of equal ones, its first member; the
\* first candidate when no query succeeded.
pickByMajority ==
    IF Clustered = {} THEN First(Candidates)
    ELSE First({i \in Clustered : \A j \in Clustered : Cardinality(Cluster(j)) <= Cardinality(Cluster(i))})

\* An empty answer takes its result with it.
Return ==
    /\ reply = NoReply /\ \A i \in Candidates : cand[i].at = "done"
    /\ LET w == pickByMajority
       IN reply' = IF cand[w].text = "none" THEN [from |-> w, text |-> "no response", structured |-> 0]
                   ELSE [from |-> w, text |-> cand[w].text, structured |-> cand[w].capture]
    /\ UNCHANGED cand

SqlNext ==
    \/ \E i \in Candidates :
          \/ Seed(i) \/ Issue(i) \/ SqlAnswers(i)
          \/ \E call \in cand[i].open : ReadSucceeds(i, call) \/ EndsWithout(i, call) \/ Blocked(i, call)
    \/ Return

SqlSpec == SqlInit /\ [][SqlNext]_sqlVars

-----------------------------------------------------------------------------
(* Properties *)

Agreeing(r) == {i \in Candidates : cand[i].capture = r}

(* The reply stands on the vote: no result was reached by more runs than   *)
(* the one behind the reply, a run without a result wins only when all     *)
(* have none, and the answer, the structured result and the report of a    *)
(* block are the same run's (pickByMajority, sqlAgentResult,               *)
(* hitlBlockedReport).                                                     *)
ReplyStandsOnVote ==
    reply # NoReply =>
        LET won == cand[reply.from]
        IN /\ \A r \in Results : Cardinality(Agreeing(r)) <= Cardinality(Agreeing(won.capture))
           /\ won.capture = 0 => \A r \in Results : Agreeing(r) = {}
           /\ reply.structured \in {0, won.capture}
           /\ won.blocked # "no" => reply.text = won.blocked
=============================================================================
