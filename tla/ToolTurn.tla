------------------------------- MODULE ToolTurn -------------------------------
(***************************************************************************)
(* One tool turn of the agent loop, from the model's tool calls to the     *)
(* persisted tool results: speculation while the model streams             *)
(* (speculative.go), the dependency waves and their goroutines             *)
(* (loop_execute.go), the plan-mode, permission and human-approval gates   *)
(* (plan_mode_gate.go, hitl_gate.go), recordToolTurn (loop_iteration.go),  *)
(* and the suspension of a turn until Resume, across crashes (resume.go).  *)
(*                                                                         *)
(* A call is its tool, its arguments after substitution and the calls it   *)
(* references.  A tool is known by what the gates ask of it.  The content  *)
(* of a tool message is reduced to the branch that wrote it, so            *)
(* resultsByID is the set of the calls whose message is "ok".  Call IDs    *)
(* are positions: the providers make them unique within one response.      *)
(***************************************************************************)
EXTENDS Naturals, FiniteSets

CONSTANTS
    MaxCalls,   \* bound on the calls of a turn
    Scenarios   \* the turns under study and the loops that run them: records of
                \*   turn              the calls the model asks for
                \*   planMode          the session starts in plan mode
                \*   maxPerTurn        MaxToolCallsPerTurn
                \*   maxParallel       MaxParallelToolCalls, 0 for no cap
                \*   speculativeTools  AgentLoop.SpeculativeTools
                \*   deferApprovals    AgentLoop.DeferApprovals
                \*   interactive       ConfirmHITL and ConfirmPlan are wired
                \*   maxFaults         bound on crashes and failed saves
                \*   maxResumes        bound on Resume
                \*   maxToggles        bound on the host's SetPlanMode

Tools == {"read", "write", "trusted", "denied", "escalated", "exit", "unknown"}
Call == [tool : Tools, args : {"x", "y"}, refs : SUBSET (1..MaxCalls)]
ASSUME TurnAssumption ==
    /\ MaxCalls \in Nat \ {0}
    /\ \A s \in Scenarios :
          /\ DOMAIN s = {"turn", "planMode", "maxPerTurn", "maxParallel", "speculativeTools",
                         "deferApprovals", "interactive", "maxFaults", "maxResumes", "maxToggles"}
          /\ \E n \in 1..MaxCalls : s.turn \in [1..n -> Call]
          /\ s.maxPerTurn \in Nat \ {0}
          /\ {s.maxParallel, s.maxFaults, s.maxResumes, s.maxToggles} \subseteq Nat
          /\ {s.planMode, s.speculativeTools, s.deferApprovals, s.interactive} \subseteq BOOLEAN

VARIABLES
    scenario,   \* the scenario under way, fixed
    sched,      \* the calls handed to executeToolWaves
    phase,      \* "stream", "waves", "idle" (no process works on it), "over"
    wave,       \* the wave under way
    limited,    \* the wave has a semaphore
    leader,     \* leader[c], for the gated duplicates of the wave
    pc,         \* where the goroutine of each call stands
    lock,       \* the holder of hitlMu, 0 for none
    msgs,       \* waveState.toolMsgs
    pending,    \* waveState.pending
    fatal,      \* waveState.fatalErr is set
    spec,       \* specMap: the state of each speculation
    decisions,  \* the decisions handed to Resume
    planMode,   \* the session is in plan mode
    cache,      \* the keys of AgentLoop.Cache
    saved,      \* the tool messages persisted for the turn
    runs,       \* how often the tool of each call was executed
    approved,   \* the calls a human approved in this process
    overtaken,  \* the calls that had passed the plan-mode check when it was turned on
    faults, resumes, toggles

volatile == <<wave, limited, leader, pc, lock, msgs, pending, fatal, spec, approved, overtaken>>
bounds == <<faults, resumes, toggles>>
vars == <<scenario, sched, phase, volatile, decisions, planMode, cache, saved, runs, bounds>>

turn == scenario.turn
IDs == DOMAIN turn
N == Cardinality(IDs)

NoMsg == "none"
Results == {"ok"}
Errors == {"error", "refused", "timedOut", "dropped", "sealed", "interrupted"}
Done == {c \in IDs : msgs[c] # NoMsg}
ResultsByID == {c \in IDs : msgs[c] = "ok"}

-----------------------------------------------------------------------------
(* What the registry and the permission policy say of a tool. *)
Registered(c) == turn[c].tool \notin {"exit", "unknown"}
RequiresConfirmation(c) == turn[c].tool \in {"write", "trusted"}
Cacheable(c) == turn[c].tool = "read"
Policy(c) ==
    CASE turn[c].tool = "trusted" -> "allow"
      [] turn[c].tool = "denied" -> "deny"
      [] turn[c].tool = "escalated" -> "confirm"
      [] OTHER -> "prompt"

NeedsApproval(c) ==
    /\ Registered(c)
    /\ RequiresConfirmation(c) \/ Policy(c) = "confirm"
    /\ Policy(c) \notin {"allow", "deny"}

Key(c) == <<turn[c].tool, turn[c].args>>

(***************************************************************************)
(* The waves of scheduleToolCalls (module ToolScheduler): Within(k) is the *)
(* set of the calls in the first k waves.  When scheduling fails all calls *)
(* run in one wave.                                                        *)
(***************************************************************************)
Within ==
    LET W[k \in 0..N] ==
            IF k = 0 THEN {} ELSE {c \in sched : turn[c].refs \subseteq W[k - 1]}
    IN  W

WaveAt(k) ==
    IF Within[N] = sched THEN Within[k] \ Within[k - 1]
    ELSE IF k = 1 THEN sched ELSE {}

(* Mutant of LastWave: the loop runs past the end of the waves. *)
NeverLast(k) == FALSE

LastWave(k) == \A j \in (k + 1)..N : WaveAt(j) = {}

-----------------------------------------------------------------------------
Init ==
    /\ scenario \in Scenarios
    /\ sched = {} /\ phase = "stream" /\ wave = 0 /\ limited = FALSE
    /\ leader = [c \in {} |-> 0]
    /\ pc = [c \in IDs |-> "idle"] /\ lock = 0
    /\ msgs = [c \in IDs |-> NoMsg] /\ pending = {} /\ fatal = FALSE
    /\ spec = [c \in IDs |-> "none"]
    /\ decisions = [c \in {} |-> TRUE]
    /\ planMode = scenario.planMode /\ cache = {}
    /\ saved = [c \in IDs |-> NoMsg]
    /\ runs = [c \in IDs |-> 0] /\ approved = {} /\ overtaken = {}
    /\ faults = 0 /\ resumes = 0 /\ toggles = 0

ShouldSpeculate(c) ==
    /\ scenario.speculativeTools /\ ~planMode
    /\ Registered(c) /\ ~RequiresConfirmation(c) /\ turn[c].refs = {}

(* The drainer sees tool_call_ready and spawns the tool before the gates... *)
Speculate(c) ==
    /\ phase = "stream" /\ spec[c] = "none" /\ ShouldSpeculate(c)
    /\ spec' = [spec EXCEPT ![c] = "chosen"]
    /\ UNCHANGED <<scenario, sched, phase, wave, limited, leader, pc, lock, msgs, pending,
                   fatal, approved, overtaken, decisions, planMode, cache, saved, runs, bounds>>

(* ... and its goroutine calls Execute when it is scheduled. *)
SpeculationStarts(c) ==
    /\ spec[c] = "chosen"
    /\ spec' = [spec EXCEPT ![c] = "running"]
    /\ runs' = [runs EXCEPT ![c] = @ + 1]
    /\ UNCHANGED <<scenario, sched, phase, wave, limited, leader, pc, lock, msgs, pending,
                   fatal, approved, overtaken, decisions, planMode, cache, saved, bounds>>

SpeculationEnds(c) ==
    /\ spec[c] = "running"
    /\ \E r \in {"ok", "error"} : spec' = [spec EXCEPT ![c] = r]
    /\ UNCHANGED <<scenario, sched, phase, wave, limited, leader, pc, lock, msgs, pending,
                   fatal, approved, overtaken, decisions, planMode, cache, saved, runs, bounds>>

(***************************************************************************)
(* The response is complete: the calls beyond MaxToolCallsPerTurn are      *)
(* dropped, the assistant message is persisted and the waves begin.        *)
(***************************************************************************)
EndStream ==
    /\ phase = "stream"
    /\ phase' = "waves" /\ wave' = 1
    /\ sched' = {c \in IDs : c <= scenario.maxPerTurn}
    /\ UNCHANGED <<scenario, limited, leader, pc, lock, msgs, pending, fatal, spec, approved,
                   overtaken, decisions, planMode, cache, saved, runs, bounds>>

-----------------------------------------------------------------------------
Unfinished(w) == w \ Done

(* Mutant of Substituted: the error of substituteRefs ignored. *)
IgnoreMissingRefs(w) == w

Substituted(w) == {c \in w : turn[c].refs \subseteq ResultsByID}

(***************************************************************************)
(* splitGatedDuplicates: the earliest gated call with the same tool and    *)
(* arguments leads, the later ones wait for its answer.                    *)
(***************************************************************************)
Twins(w, c) == {d \in w : RequiresConfirmation(d) /\ Key(d) = Key(c)}
Earliest(S) == CHOOSE c \in S : \A d \in S : c <= d

(* Mutant of Duplicates: every gated call is dispatched. *)
NoDuplicates(w) == {}

Duplicates(w) == {c \in w : RequiresConfirmation(c) /\ c # Earliest(Twins(w, c))}

DispatchWave ==
    /\ phase = "waves" /\ \A c \in IDs : pc[c] = "idle"
    /\ LET todo == Unfinished(WaveAt(wave))
           ready == Substituted(todo)
           spawned == ready \ Duplicates(ready)
       IN  /\ msgs' = [c \in IDs |-> IF c \in todo \ ready THEN "refused" ELSE msgs[c]]
           /\ leader' = [c \in Duplicates(ready) |-> Earliest(Twins(ready, c))]
           /\ pc' = [c \in IDs |-> IF c \in spawned THEN "queued" ELSE "done"]
           /\ limited' = (scenario.maxParallel > 0 /\ Cardinality(spawned) > scenario.maxParallel)
    /\ UNCHANGED <<scenario, sched, phase, wave, lock, pending, fatal, spec, approved,
                   overtaken, decisions, planMode, cache, saved, runs, bounds>>

InSlot == {c \in IDs : pc[c] \notin {"idle", "queued", "done"}}

HasSlot == ~limited \/ Cardinality(InSlot) < scenario.maxParallel

(* What a step of one goroutine leaves alone, whatever it does. *)
Frame ==
    UNCHANGED <<scenario, sched, phase, wave, limited, leader, spec, overtaken, decisions, saved,
                bounds>>
GoTo(c, label) == pc' = [pc EXCEPT ![c] = label]
Answer(c, m) == msgs' = [msgs EXCEPT ![c] = m] /\ GoTo(c, "done")

Acquire(c) ==
    /\ pc[c] = "queued" /\ HasSlot
    /\ GoTo(c, "check")
    /\ UNCHANGED <<lock, msgs, pending, fatal, approved, planMode, cache, runs>> /\ Frame

(* A call that finds the turn aborted returns without an answer. *)
CheckFatal(c) ==
    /\ pc[c] = "check"
    /\ GoTo(c, IF fatal THEN "done" ELSE "plan")
    /\ UNCHANGED <<lock, msgs, pending, fatal, approved, planMode, cache, runs>> /\ Frame

PlanLetsThrough(c) == ~planMode

(* The calls whose check of plan mode is behind them and whose tool, if     *)
(* nothing else stops it, will start.                                       *)
PastPlanCheck(c) == pc[c] \in {"gate", "prompt", "expired", "ready"} \/ spec[c] = "chosen"

(* The host flips plan mode, at any time. *)
SetPlanMode(v) ==
    /\ toggles < scenario.maxToggles /\ toggles' = toggles + 1
    /\ v # planMode /\ planMode' = v
    /\ overtaken' = IF v THEN overtaken \cup {c \in IDs : PastPlanCheck(c)} ELSE overtaken
    /\ UNCHANGED <<scenario, sched, phase, wave, limited, leader, pc, lock, msgs, pending, fatal,
                   spec, approved, decisions, cache, saved, runs, faults, resumes>>

(***************************************************************************)
(* runPlanModeGate, under hitlMu.  In plan mode only exit_plan_mode gets   *)
(* through, to the prompt; the mutex is held while the user decides.       *)
(***************************************************************************)
PlanGate(c) ==
    /\ pc[c] = "plan" /\ lock = 0
    /\ \/ /\ PlanLetsThrough(c)
          /\ GoTo(c, "gate") /\ UNCHANGED <<msgs, lock>>
       \/ /\ planMode /\ turn[c].tool = "exit" /\ scenario.interactive
          /\ lock' = c /\ GoTo(c, "planPrompt") /\ UNCHANGED msgs
       \/ /\ planMode /\ (turn[c].tool # "exit" \/ ~scenario.interactive)
          /\ Answer(c, "refused") /\ UNCHANGED lock
    /\ UNCHANGED <<pending, fatal, approved, planMode, cache, runs>> /\ Frame

PlanAnswer(c) ==
    /\ pc[c] = "planPrompt"
    /\ \E yes \in BOOLEAN :
          /\ planMode' = (planMode /\ ~yes)
          /\ Answer(c, IF yes THEN "ok" ELSE "refused")
    /\ lock' = 0
    /\ UNCHANGED <<pending, fatal, approved, cache, runs>> /\ Frame

(* The registry lookup and a denying policy answer the call at once. *)
GateRefuses(c) ==
    /\ pc[c] = "gate" /\ (~Registered(c) \/ Policy(c) = "deny")
    /\ Answer(c, "refused")
    /\ UNCHANGED <<lock, pending, fatal, approved, planMode, cache, runs>> /\ Frame

GatePasses(c) ==
    /\ pc[c] = "gate" /\ Registered(c) /\ Policy(c) # "deny" /\ ~NeedsApproval(c)
    /\ GoTo(c, "ready")
    /\ UNCHANGED <<lock, msgs, pending, fatal, approved, planMode, cache, runs>> /\ Frame

(* resolveApproval: Resume's decision, else defer, else ask. *)
GateDecided(c) ==
    /\ pc[c] = "gate" /\ NeedsApproval(c) /\ c \in DOMAIN decisions
    /\ \/ /\ decisions[c]
          /\ approved' = approved \cup {c} /\ GoTo(c, "ready") /\ UNCHANGED msgs
       \/ /\ ~decisions[c]
          /\ Answer(c, "refused") /\ UNCHANGED approved
    /\ UNCHANGED <<lock, pending, fatal, planMode, cache, runs>> /\ Frame

GateDefers(c) ==
    /\ pc[c] = "gate" /\ NeedsApproval(c) /\ c \notin DOMAIN decisions /\ scenario.deferApprovals
    /\ pending' = pending \cup {c} /\ GoTo(c, "done")
    /\ UNCHANGED <<lock, msgs, fatal, approved, planMode, cache, runs>> /\ Frame

(* Mutant of GateAsks: the prompt is opened without hitlMu. *)
GateAsksUnlocked(c) ==
    /\ pc[c] = "gate" /\ NeedsApproval(c) /\ c \notin DOMAIN decisions /\ ~scenario.deferApprovals
    /\ IF scenario.interactive THEN GoTo(c, "prompt") /\ UNCHANGED msgs ELSE Answer(c, "refused")
    /\ UNCHANGED <<lock, pending, fatal, approved, planMode, cache, runs>> /\ Frame

GateAsks(c) ==
    /\ pc[c] = "gate" /\ NeedsApproval(c) /\ c \notin DOMAIN decisions /\ ~scenario.deferApprovals
    /\ lock = 0
    /\ \/ scenario.interactive /\ lock' = c /\ GoTo(c, "prompt") /\ UNCHANGED msgs
       \/ ~scenario.interactive /\ Answer(c, "refused") /\ UNCHANGED lock
    /\ UNCHANGED <<pending, fatal, approved, planMode, cache, runs>> /\ Frame

(* ConfirmHITLTimeout passes while the callback has not returned. *)
PromptExpires(c) ==
    /\ pc[c] = "prompt" /\ GoTo(c, "expired")
    /\ UNCHANGED <<lock, msgs, pending, fatal, approved, planMode, cache, runs>> /\ Frame

(* What a no is recorded as: behind the deadline the prompt timed out,      *)
(* unless the run itself was cancelled.                                     *)
Denials(c) == IF pc[c] = "expired" THEN {"timedOut", "refused"} ELSE {"refused"}

(* Mutant of HumanAnswers: the mutex is kept when the call is refused. *)
RefusalKeepsLock(c) ==
    /\ pc[c] \in {"prompt", "expired"}
    /\ \/ approved' = approved \cup {c} /\ GoTo(c, "ready") /\ UNCHANGED msgs /\ lock' = 0
       \/ (\E m \in Denials(c) : Answer(c, m)) /\ UNCHANGED <<approved, lock>>
    /\ UNCHANGED <<pending, fatal, planMode, cache, runs>> /\ Frame

(* The callback returns.  Its yes counts even when the deadline has passed. *)
HumanAnswers(c) ==
    /\ pc[c] \in {"prompt", "expired"} /\ lock' = 0
    /\ \/ approved' = approved \cup {c} /\ GoTo(c, "ready") /\ UNCHANGED msgs
       \/ (\E m \in Denials(c) : Answer(c, m)) /\ UNCHANGED approved
    /\ UNCHANGED <<pending, fatal, planMode, cache, runs>> /\ Frame

-----------------------------------------------------------------------------
CacheHit(c) ==
    /\ pc[c] = "ready" /\ Cacheable(c) /\ Key(c) \in cache
    /\ Answer(c, "ok")
    /\ UNCHANGED <<lock, pending, fatal, approved, planMode, cache, runs>> /\ Frame

(* The tool starts, unless it was started while the model streamed. *)
Execute(c) ==
    /\ pc[c] = "ready" /\ ~(Cacheable(c) /\ Key(c) \in cache)
    /\ runs' = [runs EXCEPT ![c] = IF spec[c] = "none" THEN @ + 1 ELSE @]
    /\ GoTo(c, "run")
    /\ UNCHANGED <<lock, msgs, pending, fatal, approved, planMode, cache>> /\ Frame

(***************************************************************************)
(* What the tool may return.  awaitSpeculative does not outlive the run's  *)
(* context: it fails when that ends before the speculation does.           *)
(***************************************************************************)
Outcomes(c) ==
    CASE spec[c] = "none" -> {"ok", "error"}
      [] spec[c] \in {"chosen", "running"} -> {"error"}
      [] OTHER -> {spec[c]}

(***************************************************************************)
(* The tool returned: a good result is cached, unless the tool marks it as *)
(* degraded, and the anti-loop detector either lets the answer be recorded *)
(* or aborts the turn without it.                                          *)
(***************************************************************************)
ToolReturns(c) ==
    /\ pc[c] = "run"
    /\ \E r \in Outcomes(c) :
          /\ cache' \in IF r = "ok" /\ Cacheable(c) THEN {cache, cache \cup {Key(c)}} ELSE {cache}
          /\ \/ Answer(c, r) /\ UNCHANGED fatal
             \/ fatal' = TRUE /\ GoTo(c, "done") /\ UNCHANGED msgs
    /\ UNCHANGED <<lock, pending, approved, planMode, runs>> /\ Frame

-----------------------------------------------------------------------------
(* copyDuplicateResults: each duplicate answers what its leader answered. *)
CopiedToDuplicates ==
    [c \in IDs |-> IF c \in DOMAIN leader THEN msgs[leader[c]] ELSE msgs[c]]

(* Mutant of Halts: a wave that left calls pending does not stop the rest. *)
HaltsOnFatalOnly == fatal

Halts == fatal \/ pending # {}

WaveReturned == phase = "waves" /\ \A c \in IDs : pc[c] = "done"

NextWave ==
    /\ WaveReturned /\ ~Halts /\ ~LastWave(wave)
    /\ msgs' = CopiedToDuplicates
    /\ wave' = wave + 1 /\ pc' = [c \in IDs |-> "idle"] /\ leader' = [c \in {} |-> 0]
    /\ UNCHANGED <<scenario, sched, phase, limited, lock, pending, fatal, spec, approved,
                   overtaken, decisions, planMode, cache, saved, runs, bounds>>

(* Mutant of Recorded: only the scheduled calls are sealed. *)
SealScheduledOnly ==
    LET m == CopiedToDuplicates
    IN  [c \in IDs |-> IF m[c] # NoMsg THEN m[c]
                       ELSE IF fatal /\ c \in sched THEN "sealed"
                       ELSE IF ~fatal /\ c \notin sched THEN "dropped" ELSE NoMsg]

(***************************************************************************)
(* recordToolTurn: an abort seals every unanswered call, otherwise the     *)
(* dropped calls are answered and the pending ones left for Resume.        *)
(***************************************************************************)
Recorded ==
    LET m == CopiedToDuplicates
    IN  [c \in IDs |-> IF m[c] # NoMsg THEN m[c]
                       ELSE IF fatal THEN "sealed"
                       ELSE IF c \notin sched THEN "dropped" ELSE NoMsg]

(* The waves are over.  A save may fail; the loop then only reports it. *)
RecordTurn ==
    /\ WaveReturned /\ (Halts \/ LastWave(wave))
    /\ phase' = IF ~fatal /\ pending # {} THEN "idle" ELSE "over"
    /\ msgs' = Recorded
    /\ \/ saved' = Recorded /\ faults' = faults
       \/ faults < scenario.maxFaults /\ faults' = faults + 1 /\ saved' = saved
    /\ UNCHANGED <<scenario, sched, wave, limited, leader, pc, lock, pending, fatal, spec,
                   approved, overtaken, decisions, planMode, cache, runs, resumes, toggles>>

(***************************************************************************)
(* A crash after the assistant message was persisted.  What lives in the   *)
(* process is gone: the waves, the cache, and the plan mode of the         *)
(* session until the host sets it again.                                   *)
(***************************************************************************)
Crash ==
    /\ phase \in {"waves", "idle"} /\ faults < scenario.maxFaults
    /\ faults' = faults + 1 /\ phase' = "idle"
    /\ planMode' = FALSE /\ cache' = {} /\ approved' = {} /\ overtaken' = {}
    /\ decisions' = [c \in {} |-> TRUE]
    /\ lock' = 0 /\ pending' = {} /\ fatal' = FALSE
    /\ msgs' = saved /\ pc' = [c \in IDs |-> "idle"] /\ spec' = [c \in IDs |-> "none"]
    /\ UNCHANGED <<scenario, sched, wave, limited, leader, saved, runs, resumes, toggles>>

Unanswered == {c \in IDs : saved[c] = NoMsg}

(***************************************************************************)
(* PendingApprovals: the unanswered calls a human has to decide.  The      *)
(* arguments are compared as persisted, references included.               *)
(***************************************************************************)
RawTwins(c) ==
    {d \in Unanswered : /\ RequiresConfirmation(d) /\ Key(d) = Key(c)
                        /\ turn[d].refs = turn[c].refs}
Approvals ==
    {c \in Unanswered : /\ NeedsApproval(c)
                        /\ RequiresConfirmation(c) => c = Earliest(RawTwins(c))}

(* Resume, in any process: the waves run again over what is persisted.  The *)
(* goroutines the suspended run had spawned have started by then.           *)
Resume ==
    /\ phase = "idle" /\ Unanswered # {} /\ resumes < scenario.maxResumes
    /\ \A c \in IDs : spec[c] # "chosen"
    /\ resumes' = resumes + 1
    /\ \E D \in SUBSET Approvals : \E d \in [D -> BOOLEAN] : decisions' = d
    /\ phase' = "waves" /\ wave' = 1 /\ sched' = IDs
    /\ msgs' = saved /\ pending' = {} /\ fatal' = FALSE /\ approved' = {} /\ overtaken' = {}
    /\ pc' = [c \in IDs |-> "idle"] /\ spec' = [c \in IDs |-> "none"]
    /\ leader' = [c \in {} |-> 0] /\ limited' = FALSE /\ lock' = 0
    /\ UNCHANGED <<scenario, planMode, cache, saved, runs, faults, toggles>>

(* The user sends a new message instead: patchDanglingToolCalls. *)
RunInstead ==
    /\ phase = "idle"
    /\ phase' = "over"
    /\ saved' = [c \in IDs |-> IF saved[c] = NoMsg THEN "interrupted" ELSE saved[c]]
    /\ UNCHANGED <<scenario, sched, volatile, decisions, planMode, cache, runs, bounds>>

Goroutine(c) ==
    \/ Acquire(c) \/ CheckFatal(c) \/ PlanGate(c) \/ PlanAnswer(c)
    \/ GateRefuses(c) \/ GatePasses(c) \/ GateDecided(c) \/ GateDefers(c) \/ GateAsks(c)
    \/ PromptExpires(c) \/ HumanAnswers(c) \/ CacheHit(c) \/ Execute(c) \/ ToolReturns(c)

(* The steps of a live process. *)
Progress ==
    \/ EndStream \/ DispatchWave \/ NextWave \/ RecordTurn
    \/ \E c \in IDs : Goroutine(c) \/ SpeculationStarts(c) \/ SpeculationEnds(c)

Next ==
    \/ Progress
    \/ \E c \in IDs : Speculate(c)
    \/ \E v \in BOOLEAN : SetPlanMode(v)
    \/ Crash \/ Resume \/ RunInstead

(* Tools return, prompts are answered or expire, goroutines are scheduled. *)
Spec == Init /\ [][Next]_vars /\ WF_vars(Progress)

-----------------------------------------------------------------------------
Messages == {NoMsg} \cup Results \cup Errors
Labels == {"idle", "queued", "check", "plan", "planPrompt", "gate", "prompt", "expired",
           "ready", "run", "done"}

TypeOK ==
    /\ sched \subseteq IDs
    /\ phase \in {"stream", "waves", "idle", "over"} /\ wave \in 0..N
    /\ limited \in BOOLEAN
    /\ leader \in [DOMAIN leader -> IDs] /\ DOMAIN leader \subseteq IDs
    /\ pc \in [IDs -> Labels] /\ lock \in 0..N
    /\ msgs \in [IDs -> Messages] /\ pending \subseteq IDs /\ fatal \in BOOLEAN
    /\ spec \in [IDs -> {"none", "chosen", "running", "ok", "error"}]
    /\ decisions \in [DOMAIN decisions -> BOOLEAN] /\ DOMAIN decisions \subseteq IDs
    /\ planMode \in BOOLEAN /\ cache \subseteq Tools \X {"x", "y"}
    /\ saved \in [IDs -> Messages] /\ runs \in [IDs -> Nat] /\ approved \subseteq IDs
    /\ overtaken \subseteq IDs
    /\ faults \in 0..scenario.maxFaults /\ resumes \in 0..scenario.maxResumes
    /\ toggles \in 0..scenario.maxToggles

(* Call c's tool is started by this step. *)
Starts(c) == runs'[c] > runs[c]

(***************************************************************************)
(* A tool that asks for confirmation starts only after a human approved    *)
(* this very call, in this process, unless the policy allows it; a call    *)
(* the policy denies or escalates obeys the policy too, unless it is a     *)
(* speculation, which starts before the policy is consulted.  No tool      *)
(* starts while the session is in plan mode, speculations included, except *)
(* one whose check of plan mode lay behind it when plan mode was turned on.*)
(***************************************************************************)
PermittedBeforeRun ==
    [][\A c \in IDs : Starts(c) =>
          /\ NeedsApproval(c) /\ (RequiresConfirmation(c) \/ spec[c] # "chosen") => c \in approved
          /\ spec[c] # "chosen" => Policy(c) # "deny"
          /\ planMode => c \in overtaken]_vars

(* A tool starts only when everything its arguments reference has a result. *)
ReferencesResolved ==
    [][\A c \in IDs : Starts(c) => turn[c].refs \subseteq ResultsByID]_vars

(* The gated calls that repeat c: same tool, arguments and references. *)
Repeats(c) ==
    {d \in IDs : /\ RequiresConfirmation(d) /\ Key(d) = Key(c)
                 /\ turn[d].refs = turn[c].refs}

(***************************************************************************)
(* A speculation starts before the policy is consulted, so it also starts  *)
(* a call that only the policy sends to a human; Resume, which has no      *)
(* speculations, starts it anew.                                           *)
(***************************************************************************)
SpeculatedThenDeferred(c) ==
    scenario.speculativeTools /\ scenario.deferApprovals /\ Policy(c) = "confirm"

(***************************************************************************)
(* A tool runs once per call, and once for all the repetitions of a gated  *)
(* call, over every suspension; each crash or lost save may cost one more, *)
(* and so may a speculation of a call whose approval is then deferred.     *)
(***************************************************************************)
RunsOnce ==
    \A c \in IDs :
        /\ runs[c] <= 1 + faults + (IF SpeculatedThenDeferred(c) THEN 1 ELSE 0)
        /\ runs[c] > 0 => \A d \in Repeats(c) \ {c} : RequiresConfirmation(c) => runs[d] = 0

(* The user faces one prompt at a time. *)
OnePrompt ==
    \A c, d \in IDs : {pc[c], pc[d]} \subseteq {"prompt", "expired", "planPrompt"} => c = d

(* No more calls of a wave run, wait or prompt than there are slots. *)
SlotsBound == scenario.maxParallel > 0 => Cardinality(InSlot) <= scenario.maxParallel

(***************************************************************************)
(* A turn leaves no call behind: when it is over each call has an answer,  *)
(* and a suspended turn waits only for the calls that need a decision,     *)
(* their repetitions, and the calls of later waves.                        *)
(***************************************************************************)
NoCallForgotten ==
    /\ phase = "over" => (\A c \in IDs : msgs[c] # NoMsg) \/ (\A c \in IDs : saved[c] # NoMsg)
    /\ phase = "idle" /\ pending # {} =>
          \A c \in IDs : msgs[c] = NoMsg =>
              \/ c \in pending
              \/ c \in DOMAIN leader /\ leader[c] \in pending
              \/ Within[N] = sched /\ c \notin Within[wave]

(***************************************************************************)
(* A call whose reference waits for a decision waits with it: it is not    *)
(* answered while the decision is open, whatever else ends the waves.      *)
(***************************************************************************)
DependentsWait ==
    [][Within[N] = sched /\ ~fatal =>
          \A c \in sched : msgs[c] = NoMsg /\ turn[c].refs \cap pending # {}
                            => msgs'[c] = NoMsg]_vars

(* Waves that begin come to an end, whatever the goroutines wait for. *)
WavesEnd == phase = "waves" ~> phase \in {"idle", "over"}

(***************************************************************************)
(* What the goroutines of the waves may not do to one another: a second    *)
(* prompt beside an open one, more of them at work than MaxParallelToolCalls *)
(* allows, or a second run of a call (executeToolCall, runHITLGate,        *)
(* toolCallSemaphore).                                                     *)
(***************************************************************************)
CallsAreExclusive == TypeOK /\ OnePrompt /\ SlotsBound /\ RunsOnce

(***************************************************************************)
(* When a call may start, or be answered: with permission, with its        *)
(* references resolved, and not before the decision it depends on.         *)
(***************************************************************************)
CallsRunInTurn == PermittedBeforeRun /\ ReferencesResolved /\ DependentsWait

(***************************************************************************)
(* "[...] so a decision can never be silently ignored" (resume.go): when a *)
(* resumed turn stops, every call a decision was given for has an answer.  *)
(***************************************************************************)
DecisionsHonoured ==
    phase \in {"idle", "over"} => \A c \in DOMAIN decisions : msgs[c] # NoMsg

=============================================================================
