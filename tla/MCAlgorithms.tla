---------------------------- MODULE MCAlgorithms ----------------------------
(***************************************************************************)
(* The algorithms, each on all its small inputs: the layering of a batch   *)
(* of calls, the loop detector, the trajectory matchers, the SQL validator,*)
(* the skill loader and the permission rules; and the in-memory sessions.  *)
(* They share no state, so a behaviour runs one of them, the one in focus, *)
(* and the state space is the sum of theirs.                               *)
(*                                                                         *)
(* The detector's thresholds are scaled down from 3, 5 and 30 so that both *)
(* and the wrap-around of its ring are reached.  Tools that ran give one   *)
(* result, from which the texts of calls that did not run are different.   *)
(***************************************************************************)
EXTENDS ToolScheduler, LoopDetector, Trajectory, SqlStatement, SkillSets,
        PermissionRules, MemSessions

VARIABLE focus

\* The tokens a statement's verdict depends on.
Tokens == {"SELECT", "WITH", "UPDATE", "CREATE", "LIMIT", "FROM", "*", "open", "close",
           "semicolon", "comment", "x", "DISTINCT"}

\* The trust of three skill sources.
Trusts == <<"trusted", "trusted", "untrusted">>

\* A small skill with resource files and a large one without.
TwoDocs == {[kind |-> "skill", cost |-> 1, files |-> TRUE],
            [kind |-> "skill", cost |-> 2, files |-> FALSE]}

SomeGlobs == {<<"*", "a">>, <<"*", "a", "b">>, <<"a", "*", "b">>, <<"*", "a", "*">>,
              <<"?", "*", "b">>, <<"*", "?", "a">>}
PlainTexts == UNION {[1 .. n -> {"a", "b"}] : n \in 0 .. 3}
AllTexts == UNION {[1 .. n -> {"a", "b", "*"}] : n \in 0 .. 3}

-----------------------------------------------------------------------------
Algorithms == {"scheduler", "detector", "trajectory", "statement", "skills", "rules",
               "memory"}

\* What is out of focus stands still at one of its initial states.
AlgInit ==
    /\ focus \in Algorithms
    /\ LoopInit /\ RulesInit /\ MemInit
    /\ IF focus = "scheduler" THEN Init
       ELSE /\ calls = <<>> /\ phase = "build" /\ waves = <<>>
            /\ deps = <<>> /\ indeg = <<>>
    /\ IF focus = "statement" THEN StmtInit
       ELSE query = <<>> /\ sent = Unsent
    /\ IF focus = "trajectory" THEN TrajInit
       ELSE /\ grade = [n |-> 0, accepts |-> {}] /\ placing = 1 /\ assigned = <<>>
            /\ matched = {} /\ path = <<>> /\ seen = {}
    /\ IF focus = "skills" THEN SkillInit
       ELSE /\ dirs = [s \in SkillSources |-> [n \in 1 .. NNames |-> Nothing]]
            /\ loading = [source |-> 1, name |-> 1, phase |-> "walk"]
            /\ sets = [s \in SkillSources |-> EmptySet]
            /\ merged = EmptySet /\ served = {}

AlgNext ==
    /\ UNCHANGED focus
    /\ \/ /\ focus = "scheduler" /\ Next
          /\ UNCHANGED <<loopVars, trajVars, stmtVars, skillVars, ruleVars, memVars>>
       \/ /\ focus = "detector" /\ LoopNext
          /\ UNCHANGED <<vars, trajVars, stmtVars, skillVars, ruleVars, memVars>>
       \/ /\ focus = "trajectory" /\ TrajNext
          /\ UNCHANGED <<vars, loopVars, stmtVars, skillVars, ruleVars, memVars>>
       \/ /\ focus = "statement" /\ StmtNext
          /\ UNCHANGED <<vars, loopVars, trajVars, skillVars, ruleVars, memVars>>
       \/ /\ focus = "skills" /\ SkillNext
          /\ UNCHANGED <<vars, loopVars, trajVars, stmtVars, ruleVars, memVars>>
       \/ /\ focus = "rules" /\ RulesNext
          /\ UNCHANGED <<vars, loopVars, trajVars, stmtVars, skillVars, memVars>>
       \/ /\ focus = "memory" /\ MemNext
          /\ UNCHANGED <<vars, loopVars, trajVars, stmtVars, skillVars, ruleVars>>

AlgSpec ==
    AlgInit
    /\ [][AlgNext]_<<focus, vars, loopVars, trajVars, stmtVars, skillVars, ruleVars,
                    memVars>>
=============================================================================
