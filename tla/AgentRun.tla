------------------------------- MODULE AgentRun -------------------------------
(***************************************************************************)
(* The runs of one session, one after the other (loop_stream.go,           *)
(* loop_iteration.go, llm_call.go, regenerate.go, resume.go): Run,         *)
(* Continue, Regenerate and Resume load the history, the loop calls the    *)
(* model with retries, runs tool turns until an answer or a limit, and     *)
(* every way out saves the history before it emits the terminal frame.     *)
(* The caller may cancel at any time, any save may fail, the process may   *)
(* crash between two steps.                                                *)
(*                                                                         *)
(* The session has no compactor and no reflection.                         *)
(*                                                                         *)
(* A tool turn is one step here (module ToolTurn details it) and at most   *)
(* one of its calls, the first, can be speculated and can end degraded.    *)
(* Transcripts are those of SessionTranscript.                             *)
(***************************************************************************)
EXTENDS Naturals, Sequences, FiniteSets

CONSTANTS
    MaxIters,       \* AgentLoop.MaxIters
    MaxPerSession,  \* MaxToolCallsPerSession, 0 for no cap
    MaxRetries,     \* Retry.MaxRetries, 0 for no retries
    MaxCalls,       \* bound on the tool calls of one response
    Speculates,     \* tools are started while the model streams
    MaxRuns,        \* bound on the runs of the session
    MaxFaults       \* bound on crashes, saves that fail by themselves, unknown tools called

ASSUME RunAssumption ==
    /\ {MaxIters, MaxPerSession, MaxRetries, MaxCalls, MaxRuns, MaxFaults} \subseteq Nat
    /\ Speculates \in BOOLEAN

VARIABLES
    store,      \* the persisted history
    msgs,       \* the loop's working copy of it
    phase,      \* where the loop stands, "idle" between runs
    entry,      \* how the run was started
    ctx,        \* "live" or "cancelled"
    iteration,  \* of iterateMessages
    total,      \* totalToolCalls
    scheduled,  \* the tool calls of the turn under way
    attempt,    \* retries of the current LLM call
    calls,      \* LLM calls of the run so far, retries included
    streamed,   \* the attempts of this iteration whose content was shown
    emitted,    \* the attempt under way has shown content
    spec,       \* the speculation in specMap
    ending,     \* the terminal frame the run is about to emit
    terminal,   \* the errors and the Done it emitted, the frame that ended it last
    lost,       \* the save that should precede that frame failed
    acc,        \* the degradations filed and not yet reported
    reported,   \* the units of each DegradedEvent, in order
    consumed,   \* the degraded results that became tool messages
    crashed,    \* the process was killed during the last run
    left,       \* its consumer stopped at the frame that announces it
    runs, faults

history == <<store, msgs>>
loop == <<entry, iteration, total, scheduled, calls>>
llm == <<attempt, streamed, emitted>>
frames == <<ending, terminal>>
degradation == <<acc, reported, consumed>>
vars == <<history, phase, loop, ctx, llm, spec, frames, lost, degradation,
          crashed, left, runs, faults>>

NoSpec == [state |-> "none", at |-> 0]
Ends(s, kind) == s # <<>> /\ s[Len(s)] = kind
Closed(s, kind) == [s EXCEPT ![Len(s)] = kind]

Init ==
    /\ store = <<>> /\ msgs = <<>> /\ phase = "idle" /\ entry = "run" /\ ctx = "live"
    /\ iteration = 0 /\ total = 0 /\ scheduled = 0
    /\ attempt = 0 /\ calls = 0 /\ streamed = 0 /\ emitted = FALSE /\ spec = NoSpec
    /\ ending = "none" /\ terminal = <<>> /\ lost = FALSE
    /\ acc = {} /\ reported = <<>> /\ consumed = {}
    /\ crashed = FALSE /\ left = FALSE /\ runs = 0 /\ faults = 0

-----------------------------------------------------------------------------
(* A goroutine of its own, a context, a stream and accumulators of its own. *)
NewRun(kind) ==
    /\ phase = "idle" /\ runs < MaxRuns
    /\ entry' = kind /\ ctx' = "live"
    /\ iteration' = 0 /\ total' = 0 /\ scheduled' = 0
    /\ attempt' = 0 /\ calls' = 0 /\ streamed' = 0 /\ emitted' = FALSE /\ spec' = NoSpec
    /\ ending' = "none" /\ terminal' = <<>> /\ lost' = FALSE
    /\ acc' = {} /\ reported' = <<>> /\ consumed' = {}
    /\ msgs' = <<>> /\ crashed' = FALSE /\ runs' = runs + 1

Starts == phase' = "load" /\ left' = FALSE

(***************************************************************************)
(* Continue, Resume and Regenerate announce themselves by a first frame: a *)
(* consumer that stops ranging there gets no other, and no loop starts.    *)
(***************************************************************************)
Announced == Starts \/ (phase' = "idle" /\ left' = TRUE)

Run == NewRun("run") /\ Starts /\ UNCHANGED <<store, faults>>

(* canContinue: the session did not end with an answer. *)
Continue ==
    /\ store # <<>> /\ ~Ends(store, "answer")
    /\ NewRun("continue") /\ Announced /\ UNCHANGED <<store, faults>>

(* pendingToolTurn: the latest tool turn has calls without a result. *)
Resume ==
    /\ Ends(store, "open")
    /\ NewRun("resume") /\ Announced /\ UNCHANGED <<store, faults>>

LastUser(u) ==
    /\ u \in DOMAIN store /\ store[u] = "user"
    /\ \A j \in (u + 1)..Len(store) : store[j] # "user"

(* Mutant of SafeTruncate: the index of the user message is kept too. *)
TruncateAfterUser(n) == n + 1

(* SafeTruncate: an unanswered tool turn is not left at the end. *)
SafeTruncate(n) ==
    CHOOSE k \in 0..n :
        /\ k = 0 \/ store[k] # "open"
        /\ \A j \in (k + 1)..n : store[j] = "open"

(***************************************************************************)
(* The history is rewound to the last user message, saved - a failure is   *)
(* only logged - and the message is run again.                             *)
(***************************************************************************)
Regenerate ==
    /\ NewRun("run") /\ Announced
    /\ \/ \E u \in DOMAIN store :
             LastUser(u) /\ store' = SubSeq(store, 1, SafeTruncate(u - 1)) /\ faults' = faults
       \/ /\ \E u \in DOMAIN store : LastUser(u)
          /\ faults < MaxFaults /\ faults' = faults + 1 /\ store' = store

-----------------------------------------------------------------------------
(* Mutant of Patched: an open turn is left as it is. *)
Unpatched(s) == s

(* patchDanglingToolCalls: the missing tool results are made up. *)
Patched(s) == [i \in DOMAIN s |-> IF s[i] = "open" THEN "sealed" ELSE s[i]]

GoTo(p) == phase' = p
Finish(v) == ending' = v /\ GoTo("lastSave")
Fail(v) == ending' = v /\ GoTo("emit")

(* What only the LLM call and the accumulators change. *)
Aside == UNCHANGED <<llm, spec, degradation, ctx, crashed, left, runs>>
Quiet == Aside /\ terminal' = terminal

(* A hook rejects the run or the history cannot be loaded. *)
LoadFails ==
    /\ phase = "load" /\ Fail("refused")
    /\ UNCHANGED <<history, loop, lost, faults>> /\ Quiet

Load ==
    /\ phase = "load"
    /\ \/ entry = "run" /\ msgs' = Patched(Append(store, "user")) /\ GoTo("firstSave")
       \/ entry = "continue" /\ msgs' = Patched(store) /\ GoTo("firstSave")
       \/ entry = "resume" /\ msgs' = store /\ GoTo("tools")
    /\ UNCHANGED <<store, loop, ending, lost, faults>> /\ Quiet

Saved == store' = msgs /\ faults' = faults

(* A save under the caller's context also fails once that is cancelled. *)
SaveFails(cancellable) ==
    /\ store' = store
    /\ \/ cancellable /\ ctx = "cancelled" /\ faults' = faults
       \/ faults < MaxFaults /\ faults' = faults + 1

FirstSave ==
    /\ phase = "firstSave"
    /\ \/ Saved /\ GoTo("iterate") /\ ending' = ending /\ lost' = lost
       \/ SaveFails(TRUE) /\ Fail("unsaved") /\ lost' = TRUE
    /\ UNCHANGED <<msgs, loop>> /\ Quiet

(* Mutant of Iterate: the limit is reported without a save. *)
IterateUnsavedLimit ==
    /\ phase = "iterate"
    /\ \/ iteration >= MaxIters /\ Fail("maxIters") /\ UNCHANGED <<streamed, attempt>>
       \/ iteration < MaxIters /\ ctx = "cancelled" /\ Finish("cancelled")
          /\ UNCHANGED <<streamed, attempt>>
       \/ iteration < MaxIters /\ ctx = "live" /\ GoTo("attempt")
          /\ streamed' = 0 /\ attempt' = 0 /\ ending' = ending
    /\ spec' = NoSpec
    /\ UNCHANGED <<history, loop, ctx, emitted, terminal, lost, degradation,
                   crashed, left, runs, faults>>

(* The head of the loop: a fresh specMap for each iteration. *)
Iterate ==
    /\ phase = "iterate"
    /\ \/ iteration >= MaxIters /\ Finish("maxIters") /\ UNCHANGED <<streamed, attempt>>
       \/ iteration < MaxIters /\ ctx = "cancelled" /\ Finish("cancelled")
          /\ UNCHANGED <<streamed, attempt>>
       \/ iteration < MaxIters /\ ctx = "live" /\ GoTo("attempt")
          /\ streamed' = 0 /\ attempt' = 0 /\ ending' = ending
    /\ spec' = NoSpec
    /\ UNCHANGED <<history, loop, ctx, emitted, terminal, lost, degradation,
                   crashed, left, runs, faults>>

-----------------------------------------------------------------------------
(* Mutant of CallLLM: the speculations of the failed attempt are kept. *)
CallLLMKeepsSpec ==
    /\ phase = "attempt" /\ GoTo("stream")
    /\ calls' = calls + 1 /\ emitted' = FALSE
    /\ UNCHANGED <<history, entry, iteration, total, scheduled, ctx, attempt, streamed,
                   frames, lost, spec, degradation, crashed, left, runs, faults>>

(***************************************************************************)
(* callLLM drops what an earlier attempt speculated; a degradation that    *)
(* has already happened is filed.                                          *)
(***************************************************************************)
CallLLM ==
    /\ phase = "attempt" /\ GoTo("stream")
    /\ calls' = calls + 1 /\ emitted' = FALSE
    /\ acc' = IF spec.state = "degraded" THEN acc \cup {spec.at} ELSE acc
    /\ spec' = NoSpec
    /\ UNCHANGED <<history, entry, iteration, total, scheduled, ctx, attempt, streamed,
                   frames, lost, reported, consumed, crashed, left, runs, faults>>

(* The first content of the attempt reaches the consumer. *)
StreamContent ==
    /\ phase = "stream" /\ ~emitted
    /\ emitted' = TRUE /\ streamed' = streamed + 1
    /\ UNCHANGED <<history, phase, loop, ctx, attempt, spec, frames, lost,
                   degradation, crashed, left, runs, faults>>

Speculate ==
    /\ phase = "stream" /\ Speculates /\ spec = NoSpec
    /\ spec' = [state |-> "running", at |-> calls]
    /\ UNCHANGED <<history, phase, loop, ctx, llm, frames, lost, degradation,
                   crashed, left, runs, faults>>

SpeculationEnds ==
    /\ phase # "idle" /\ spec.state = "running"
    /\ \E s \in {"clean", "failed", "degraded"} : spec' = [spec EXCEPT !.state = s]
    /\ UNCHANGED <<history, phase, loop, ctx, llm, frames, lost, degradation,
                   crashed, left, runs, faults>>

(* The model answers: the turn of the conversation is complete. *)
StreamAnswers ==
    /\ phase = "stream" /\ spec = NoSpec
    /\ msgs' = Append(msgs, "answer") /\ Finish("done")
    /\ UNCHANGED <<store, loop, lost, faults>> /\ Quiet

StreamCallsTools ==
    /\ phase = "stream"
    /\ \E n \in 1..MaxCalls : scheduled' = n
    /\ msgs' = Append(msgs, "open") /\ GoTo("saveCalls")
    /\ UNCHANGED <<store, entry, iteration, total, calls, ending, lost, faults>> /\ Quiet

(* Mutants of MayRetry: only the retries are stopped by content; one retry  *)
(* too many.                                                               *)
MayRetryShown(err) ==
    /\ err = "transient" /\ attempt < MaxRetries
    /\ attempt > 0 => ~emitted
MayRetryOnceMore(err) == err = "transient" /\ ~emitted /\ attempt <= MaxRetries

(***************************************************************************)
(* isRetryable, and never after content was shown.                         *)
(***************************************************************************)
MayRetry(err) == err = "transient" /\ ~emitted /\ attempt < MaxRetries

Verdict(err) == IF ctx = "cancelled" \/ err = "cancelled" THEN "cancelled" ELSE "failed"

(* The provider fails, or a BeforeLLMHook did before it was called. *)
StreamFails ==
    /\ phase = "stream"
    /\ \E err \in {"transient", "permanent", "cancelled"} :
          /\ err = "cancelled" => ctx = "cancelled"
          /\ IF MayRetry(err) THEN GoTo("backoff") /\ ending' = ending
                              ELSE Finish(Verdict(err))
    /\ UNCHANGED <<history, loop, ctx, llm, spec, terminal, lost, degradation,
                   crashed, left, runs, faults>>

(* Mutant of Backoff: the cancelled context stops the timer and nothing    *)
(* else listens to it.                                                     *)
BackoffDeaf ==
    /\ phase = "backoff" /\ ctx = "live"
    /\ GoTo("attempt") /\ attempt' = attempt + 1
    /\ UNCHANGED <<history, loop, ctx, streamed, emitted, spec, frames, lost,
                   degradation, crashed, left, runs, faults>>

(* The timer, or the context when that is cancelled, ends the wait. *)
Backoff ==
    /\ phase = "backoff"
    /\ \/ GoTo("attempt") /\ attempt' = attempt + 1 /\ ending' = ending
       \/ ctx = "cancelled" /\ Finish("cancelled") /\ attempt' = attempt
    /\ UNCHANGED <<history, loop, ctx, streamed, emitted, spec, terminal, lost,
                   degradation, crashed, left, runs, faults>>

-----------------------------------------------------------------------------
(* The errors that are shown while the run goes on. *)
Notices == {"saveFailed", "unknownTool"}

(* SaveHistory during an iteration: a failure is an ErrorEvent, no more. *)
SaveOrNotify ==
    \/ Saved /\ terminal' = terminal
    \/ SaveFails(TRUE) /\ terminal' = Append(terminal, "saveFailed")

(* The assistant message is saved before its tools run. *)
SaveCalls ==
    /\ phase = "saveCalls" /\ GoTo("tools") /\ SaveOrNotify
    /\ UNCHANGED <<msgs, loop, ending, lost>> /\ Aside

(***************************************************************************)
(* The first call of the turn: its speculation is awaited, or it runs now, *)
(* or - denied, dropped, cached - neither, with an error to show for it    *)
(* when its tool is not registered.  Its degradation is filed with its     *)
(* result.                                                                 *)
(***************************************************************************)
FirstCall ==
    \/ UNCHANGED <<acc, consumed, terminal, faults>>
    \/ /\ spec = NoSpec /\ terminal' = Append(terminal, "unknownTool")
       /\ faults < MaxFaults /\ faults' = faults + 1
       /\ UNCHANGED <<acc, consumed>>
    \/ /\ spec.state = "degraded" /\ UNCHANGED <<terminal, faults>>
       /\ acc' = acc \cup {spec.at} /\ consumed' = consumed \cup {spec.at}
    \/ /\ spec = NoSpec /\ UNCHANGED <<terminal, faults>>
       /\ acc' = acc \cup {calls} /\ consumed' = consumed \cup {calls}

(* recordToolTurn, after executeToolWaves. *)
ToolTurn ==
    /\ phase = "tools" /\ (spec.state = "running" => ctx = "cancelled")
    /\ FirstCall
    /\ \/ msgs' = Closed(msgs, "tools") /\ GoTo("saveTurn") /\ ending' = ending
       \/ msgs' = Closed(msgs, "tools") /\ Finish("loop")
       \/ msgs' = msgs /\ Finish("pending")
    /\ UNCHANGED <<store, loop, ctx, llm, spec, lost, reported,
                   crashed, left, runs>>

CapReached(n) == MaxPerSession > 0 /\ n >= MaxPerSession

(***************************************************************************)
(* The results are saved.  A resumed turn is not an iteration and its      *)
(* calls are not counted.                                                  *)
(***************************************************************************)
SaveTurn ==
    /\ phase = "saveTurn" /\ SaveOrNotify
    /\ IF entry = "resume" /\ calls = 0
       THEN /\ GoTo("iterate") /\ UNCHANGED <<iteration, total, ending>>
       ELSE /\ total' = total + scheduled
            /\ IF CapReached(total + scheduled)
               THEN Finish("capped") /\ iteration' = iteration
               ELSE GoTo("iterate") /\ iteration' = iteration + 1 /\ ending' = ending
    /\ UNCHANGED <<msgs, entry, scheduled, calls, lost>> /\ Aside

(* saveSession ignores the caller's cancellation and logs a failure. *)
LastSave ==
    /\ phase = "lastSave"
    /\ \/ Saved /\ lost' = lost
       \/ SaveFails(FALSE) /\ lost' = TRUE
    /\ GoTo(IF ending = "done" THEN "degraded" ELSE "emit")
    /\ UNCHANGED <<msgs, loop, ending>> /\ Quiet

(* Mutant of Drain: the units reported are not cleared. *)
DrainKeeps == acc

(* degradedAcc.drain empties the accumulator. *)
Drain == {}

(* emitDegradedIfAny: one event for all of them, none when there are none. *)
Report ==
    /\ acc' = Drain
    /\ reported' = IF acc = {} THEN reported ELSE Append(reported, acc)

EmitDegraded ==
    /\ phase = "degraded" /\ GoTo("emit") /\ Report
    /\ UNCHANGED <<history, loop, ctx, llm, spec, frames, lost, consumed,
                   crashed, left, runs, faults>>

(* Mutant of Emit: the return after the tool call cap is missing. *)
EmitAndGoOn ==
    /\ phase = "emit" /\ GoTo(IF ending = "capped" THEN "iterate" ELSE "sweep")
    /\ terminal' = Append(terminal, ending)
    /\ UNCHANGED <<history, loop, ctx, llm, spec, ending, lost, degradation,
                   crashed, left, runs, faults>>

Emit ==
    /\ phase = "emit" /\ GoTo("sweep")
    /\ terminal' = Append(terminal, ending)
    /\ UNCHANGED <<history, loop, ctx, llm, spec, ending, lost, degradation,
                   crashed, left, runs, faults>>

(* The deferred sweep, then the stream is closed. *)
Sweep ==
    /\ phase = "sweep" /\ GoTo("idle") /\ Report
    /\ UNCHANGED <<history, loop, ctx, llm, spec, frames, lost, consumed,
                   crashed, left, runs, faults>>

(* The caller cancels its context or stops ranging over the events. *)
Cancel ==
    /\ phase # "idle" /\ ctx = "live" /\ ctx' = "cancelled"
    /\ UNCHANGED <<history, phase, loop, llm, spec, frames, lost, degradation,
                   crashed, left, runs, faults>>

Crash ==
    /\ phase # "idle" /\ faults < MaxFaults
    /\ GoTo("idle") /\ crashed' = TRUE /\ faults' = faults + 1
    /\ msgs' = <<>> /\ spec' = NoSpec /\ acc' = {}
    /\ UNCHANGED <<store, loop, ctx, llm, frames, lost, reported, consumed, left, runs>>

Progress ==
    \/ LoadFails \/ Load \/ FirstSave \/ Iterate
    \/ CallLLM \/ StreamAnswers \/ StreamCallsTools \/ StreamFails \/ Backoff
    \/ SpeculationEnds \/ SaveCalls \/ ToolTurn \/ SaveTurn
    \/ LastSave \/ EmitDegraded \/ Emit \/ Sweep

Next ==
    \/ Progress
    \/ Run \/ Continue \/ Resume \/ Regenerate
    \/ StreamContent \/ Speculate \/ Cancel \/ Crash

(* Providers and tools return, timers fire, the loop is scheduled. *)
Spec == Init /\ [][Next]_vars /\ WF_vars(Progress)

-----------------------------------------------------------------------------
Phases == {"idle", "load", "firstSave", "iterate", "attempt", "stream", "backoff", "saveCalls",
           "tools", "saveTurn", "lastSave", "degraded", "emit", "sweep"}
Verdicts == {"done", "failed", "cancelled", "maxIters", "capped", "loop", "pending",
             "refused", "unsaved"}
Kinds == {"user", "answer", "open", "tools", "sealed"}
SpecStates == {"none", "running", "clean", "failed", "degraded"}

TypeOK ==
    /\ store \in Seq(Kinds) /\ msgs \in Seq(Kinds)
    /\ phase \in Phases /\ entry \in {"run", "continue", "resume"}
    /\ ctx \in {"live", "cancelled"}
    /\ iteration \in 0..MaxIters /\ total \in Nat /\ scheduled \in 0..MaxCalls
    /\ attempt \in 0..MaxRetries /\ calls \in Nat /\ streamed \in Nat /\ emitted \in BOOLEAN
    /\ spec \in [state : SpecStates, at : Nat]
    /\ ending \in Verdicts \cup {"none"} /\ terminal \in Seq(Verdicts \cup Notices)
    /\ lost \in BOOLEAN
    /\ acc \subseteq Nat /\ reported \in Seq(SUBSET Nat) /\ consumed \subseteq Nat
    /\ crashed \in BOOLEAN /\ left \in BOOLEAN /\ runs \in 0..MaxRuns /\ faults \in 0..MaxFaults

(* The last run came to its own end. *)
Over == phase = "idle" /\ runs > 0 /\ ~crashed /\ ~left

(***************************************************************************)
(* "never returns without emitting one", and none but the last: nothing    *)
(* follows the frame that ends a run, what precedes it are errors of a run *)
(* that goes on - a failed save, an unknown tool - and every run that is   *)
(* neither killed nor left at its first frame shows one.                   *)
(***************************************************************************)
OneTerminalFrame ==
    /\ \A i \in DOMAIN terminal : terminal[i] \in Notices \/ i = Len(terminal)
    /\ Over => terminal # <<>> /\ terminal[Len(terminal)] \notin Notices

(***************************************************************************)
(* Who reads the history on the frame that ends the run finds the state it *)
(* ended with, whatever saves failed on the way, unless the load or the    *)
(* very last save failed.                                                  *)
(***************************************************************************)
TerminalIsDurable ==
    phase = "sweep" /\ terminal # <<"refused">> /\ ~lost => store = msgs

(* Every request to the model has a result for each of its tool calls. *)
RequestsBalanced ==
    phase \in {"attempt", "stream", "backoff"} => \A i \in DOMAIN msgs : msgs[i] # "open"

(***************************************************************************)
(* The answer is shown at most once per iteration: content of a failed     *)
(* attempt is never followed by that of a retry.                           *)
(***************************************************************************)
ShownOnce == streamed <= 1

(***************************************************************************)
(* The tool turn only ever consumes a speculation of the response it       *)
(* belongs to, never one of an attempt that failed.                        *)
(***************************************************************************)
SpeculationIsFresh == phase \in {"saveCalls", "tools"} /\ spec # NoSpec => spec.at = calls

(* The cap on tool calls stops the run before the model is called again. *)
CapStopsRun ==
    phase \in {"attempt", "stream", "backoff"} /\ MaxPerSession > 0 => total < MaxPerSession

Reported == UNION {reported[i] : i \in DOMAIN reported}

(***************************************************************************)
(* Every degraded result the model was given is reported to the consumer   *)
(* once, however the run ends, and before Done when it ends well.          *)
(***************************************************************************)
DegradedReportedOnce ==
    /\ \A i, j \in DOMAIN reported : i # j => reported[i] \cap reported[j] = {}
    /\ Over \/ Ends(terminal, "done") => consumed \subseteq Reported

(***************************************************************************)
(* A failed attempt leaves nothing behind (callLLM, consumeStream): its    *)
(* text is not shown again, its speculations are not consumed, and the     *)
(* degradations of each response are reported once.                        *)
(***************************************************************************)
AttemptsAreIsolated == ShownOnce /\ SpeculationIsFresh /\ DegradedReportedOnce

(***************************************************************************)
(* A run ends with one frame that says so, nothing follows it, and what it *)
(* shows is saved unless the save failed (loop_stream.go, sendTerminal     *)
(* after saveSession).                                                     *)
(***************************************************************************)
OneDurableEnd == OneTerminalFrame /\ TerminalIsDurable

(***************************************************************************)
(* The persisted history is a session transcript: whatever fails, a saved  *)
(* turn is never lost or changed but by Regenerate, and an open one is     *)
(* closed at most once.                                                    *)
(***************************************************************************)
Transcript == INSTANCE SessionTranscript WITH log <- store

KeepsTranscript == Transcript!Spec

(* A run that started comes to its end. *)
RunEnds == phase # "idle" ~> phase = "idle"

=============================================================================
