------------------------------ MODULE EvalSuite ------------------------------
(***************************************************************************)
(* A suite of evaluations (eval/runner.go, transcript.go, judge.go,        *)
(* grader.go, record.go): the trials of its tasks run side by side, each   *)
(* turn's event stream is folded into a transcript and graded, the report  *)
(* is made when all have ended; the transcripts kept can be graded again   *)
(* without the agent.                                                      *)
(*                                                                         *)
(* An answer is right or wrong for the ContainsText grader, nothing else of it *)
(* matters.  Scores are 0 or 1.                                            *)
(***************************************************************************)
EXTENDS Naturals, Sequences, FiniteSets

CONSTANTS
    EvalTasks,    \* the task IDs
    EvalTrials,   \* effectiveTrials, the same for every task
    EvalTurns,    \* turns of a task
    Concurrency,  \* effective size of the worker pool
    AllTrials,    \* PassPolicy.AllTrials
    Samples,      \* judge calls of a grade
    MaxEvents     \* bound on the events of a turn

ASSUME EvalAssumption ==
    /\ {EvalTrials, EvalTurns, Concurrency, Samples, MaxEvents} \subseteq Nat \ {0}
    /\ AllTrials \in BOOLEAN

VARIABLES
    trials,   \* each trial's goroutine: where it is, its turn, transcript and report
    pool,     \* trials dispatched, slots of sem held, the WaitGroup
    suite,    \* what the suite is: its graders and the MinScore policy, ctx cancelled
    results,  \* the slots of the report
    kept,     \* OnTranscript: the transcripts in the order they were written
    report    \* the TaskReports, live and replayed

evalVars == <<trials, pool, suite, results, kept, report>>

Slots == EvalTasks \X (1..EvalTrials)
NoTrial == [pass |-> FALSE, ended |-> "none", turns |-> 0]
FreshTranscript == [ended |-> "done", err |-> FALSE, answer |-> "none"]
GraderSets == {{"contains", "no_error"}, {"contains", "judge"}}

EvalInit ==
    /\ trials = [s \in Slots |-> [at |-> "queued", turn |-> 1, events |-> 0, tr |-> FreshTranscript,
                                  out |-> [pass |-> TRUE, ended |-> "done", turns |-> 0]]]
    /\ pool = [sent |-> {}, held |-> 0, waits |-> 0]
    /\ \E g \in GraderSets, min \in BOOLEAN : suite = [graders |-> g, minScore |-> min, done |-> FALSE]
    /\ results = [s \in Slots |-> NoTrial]
    /\ kept = <<>> /\ report = [live |-> <<>>, replay |-> <<>>]

-----------------------------------------------------------------------------
(* Grading *)

Pass == [pass |-> TRUE, unknown |-> FALSE, err |-> FALSE]
Fail == [pass |-> FALSE, unknown |-> FALSE, err |-> FALSE]
UnknownGrade == [pass |-> FALSE, unknown |-> TRUE, err |-> FALSE]
Errored == [pass |-> FALSE, unknown |-> FALSE, err |-> TRUE]

ContainsText(tr) == IF tr.answer = "right" THEN Pass ELSE Fail
NoError(tr) == IF ~tr.err /\ tr.ended = "done" THEN Pass ELSE Fail

tallyVerdict(passes, fails, unknowns) ==
    CASE passes + fails + unknowns = 0 -> Errored
      [] passes + fails = 0 /\ unknowns > 0 -> UnknownGrade
      [] OTHER -> IF passes > fails THEN Pass ELSE Fail

\* Judge.Grade: samples that fail are not counted, none succeeds under a
\* cancelled context; a grader that panics errs too (safeGrade).
Judged(cancelled) ==
    {tallyVerdict(v[1], v[2], v[3]) : v \in
        {w \in (0..Samples) \X (0..Samples) \X (0..Samples) :
            w[1] + w[2] + w[3] <= (IF cancelled THEN 0 ELSE Samples)}}

Grades(tr, cancelled) ==
    {g \in [suite.graders -> {Pass, Fail, UnknownGrade, Errored}] :
        \A k \in suite.graders :
            /\ k = "contains" => g[k] = ContainsText(tr)
            /\ k = "no_error" => g[k] = NoError(tr)
            /\ k = "judge"    => g[k] \in Judged(cancelled)}

\* A mean of at least a half is asked for when MinScore is set.
gradesPass(g) ==
    LET scored == {k \in DOMAIN g : ~g[k].unknown /\ ~g[k].err}
        passed == {k \in scored : g[k].pass}
    IN IF suite.minScore THEN 2 * Cardinality(passed) >= Cardinality(scored)
       ELSE passed = scored

-----------------------------------------------------------------------------
(* The live run *)

Moves(s, t) == trials' = [trials EXCEPT ![s] = t]

\* The slot of sem is taken by the dispatcher, before the goroutine exists.
Dispatch(s) ==
    /\ s \notin pool.sent /\ pool.held < Concurrency
    /\ \A before \in Slots \ pool.sent : before[1] = s[1] => s[2] <= before[2]
    /\ pool' = [sent |-> pool.sent \union {s}, held |-> pool.held + 1, waits |-> pool.waits + 1]
    /\ Moves(s, [trials[s] EXCEPT !.at = "start"])
    /\ UNCHANGED <<suite, results, kept, report>>

\* The factory may fail: the trial has no turns.
NewTarget(s) ==
    /\ trials[s].at = "start"
    /\ \/ Moves(s, [trials[s] EXCEPT !.at = "turn"])
       \/ Moves(s, [trials[s] EXCEPT !.at = "ran", !.out.pass = FALSE])
    /\ UNCHANGED <<pool, suite, results, kept, report>>

\* captureEvent; what is forwarded from a sub-agent changes nothing here.
captureEvent(tr) ==
    {[tr EXCEPT !.answer = IF "right" \in {tr.answer, x} THEN "right" ELSE "wrong"] : x \in {"right", "wrong"}}
    \union {[tr EXCEPT !.answer = x] : x \in {"right", "wrong"}}                \* reflected
    \union {[tr EXCEPT !.err = named \/ @, !.ended = IF @ = "done" THEN "error" ELSE @] : named \in BOOLEAN}
    \union {[tr EXCEPT !.ended = why] : why \in {"max_iters", "limit_exhausted"}}

Event(s) ==
    /\ trials[s].at = "turn" /\ trials[s].events < MaxEvents
    /\ \E tr \in captureEvent(trials[s].tr) :
          Moves(s, [trials[s] EXCEPT !.tr = tr, !.events = @ + 1])
    /\ UNCHANGED <<pool, suite, results, kept, report>>

\* The end of Capture: the context is blamed when nothing else was.
Captured(tr, cancelled) ==
    IF cancelled /\ ~tr.err /\ tr.ended = "done" THEN [tr EXCEPT !.err = TRUE, !.ended = "ctx"] ELSE tr

\* The stream is over: the transcript is kept, graded and added to the trial.
TurnEnds(s) ==
    /\ trials[s].at = "turn"
    /\ \E cancelled \in {suite.done, TRUE} :      \* the trial's own deadline
         LET t == trials[s]
             tr == Captured(t.tr, cancelled)
         IN /\ kept' = Append(kept, [task |-> s[1], trial |-> s[2], turn |-> t.turn, tr |-> tr])
            /\ \E g \in Grades(tr, cancelled) :
                  Moves(s, [t EXCEPT !.out = [pass |-> t.out.pass /\ gradesPass(g), ended |-> tr.ended,
                                              turns |-> t.turn],
                                     !.tr = FreshTranscript, !.events = 0, !.turn = t.turn + 1,
                                     !.at = IF t.turn = EvalTurns THEN "ran" ELSE "turn"])
    /\ UNCHANGED <<pool, suite, results, report>>

\* The result is in its slot before the slot of sem and the WaitGroup are given up.
FileResult(s) ==
    /\ trials[s].at = "ran" /\ Moves(s, [trials[s] EXCEPT !.at = "filed"])
    /\ results' = [results EXCEPT ![s] = trials[s].out]
    /\ UNCHANGED <<pool, suite, kept, report>>
TrialEnds(s) ==
    /\ trials[s].at = "filed" /\ Moves(s, [trials[s] EXCEPT !.at = "over"])
    /\ pool' = [pool EXCEPT !.held = @ - 1, !.waits = @ - 1]
    /\ UNCHANGED <<suite, results, kept, report>>

Cancel == ~suite.done /\ suite' = [suite EXCEPT !.done = TRUE]
          /\ UNCHANGED <<trials, pool, results, kept, report>>

aggregateTask(outs) == IF AllTrials THEN outs # {} /\ \A o \in outs : o.pass ELSE \E o \in outs : o.pass

Report ==
    /\ report.live = <<>> /\ pool.sent = Slots /\ pool.waits = 0
    /\ report' = [report EXCEPT !.live =
                    [k \in EvalTasks |-> aggregateTask({results[<<k, n>>] : n \in 1..EvalTrials})]]
    /\ UNCHANGED <<trials, pool, suite, results, kept>>

-----------------------------------------------------------------------------
(* Grading the transcripts that were kept *)

\* A trial that left no transcript is not there.
trialNums(k) == {kept[i].trial : i \in {j \in DOMAIN kept : kept[j].task = k}}

\* Mutant of byTrial: all the transcripts of the task, whatever their trial.
ByTask(k, n) == {i \in DOMAIN kept : kept[i].task = k}
byTrial(k, n) == {i \in DOMAIN kept : kept[i].task = k /\ kept[i].trial = n}

regradeTrial(k, n) ==
    LET turns == byTrial(k, n)
        last == CHOOSE i \in turns : \A j \in turns : kept[j].turn <= kept[i].turn
    IN [pass |-> \A i \in turns : \E g \in Grades(kept[i].tr, FALSE) : gradesPass(g),
        ended |-> kept[last].tr.ended, turns |-> kept[last].turn]

regradeTask(k) == aggregateTask({regradeTrial(k, n) : n \in trialNums(k)})

GradeRecorded ==
    /\ report.live # <<>> /\ report.replay = <<>> /\ "judge" \notin suite.graders
    /\ report' = [report EXCEPT !.replay = [k \in EvalTasks |-> regradeTask(k)]]
    /\ UNCHANGED <<trials, pool, suite, results, kept>>

EvalNext ==
    \/ \E s \in Slots : Dispatch(s) \/ NewTarget(s) \/ Event(s) \/ TurnEnds(s) \/ FileResult(s) \/ TrialEnds(s)
    \/ Cancel \/ Report \/ GradeRecorded

EvalSpec == EvalInit /\ [][EvalNext]_evalVars

-----------------------------------------------------------------------------
(* Properties *)

Factories == \A s \in Slots : results[s].turns > 0

(* The transcripts kept grade as the run did: for graders without a model, *)
(* the report made from the recorded transcripts passes every task the     *)
(* live report passed, and the same tasks unless a factory failed, and     *)
(* each trial ends the way it ended live (runTrial, dispatch,              *)
(* GradeRecorded, indexTranscripts).                                       *)
ReplayAgrees ==
    report.replay # <<>> =>
        /\ \A k \in EvalTasks : report.live[k] => report.replay[k]
        /\ Factories => report.live = report.replay
        /\ \A k \in EvalTasks : \A n \in trialNums(k) : regradeTrial(k, n) = trials[<<k, n>>].out
=============================================================================
