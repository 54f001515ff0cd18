------------------------------ MODULE AsyncTasks ------------------------------
(***************************************************************************)
(* The background workers of one session (async.go) and the five tools     *)
(* that drive them (builtin/async_tools.go).                               *)
(*                                                                         *)
(* The session keeps one map from task to status, and every writer of it   *)
(* reads the whole map, changes its copy and saves the whole copy, with    *)
(* nothing held in between: StartTask, the end of a worker, CancelTask and *)
(* SyncTasks.  A process is a task (its StartTask call, then its worker    *)
(* goroutine) or a client (a tool call, several of which may be under way).*)
(*                                                                         *)
(* The map survives a crash, as it does in a store that persists it.       *)
(***************************************************************************)
EXTENDS Naturals, FiniteSets

CONSTANTS
    Tasks, Clients,
    Caps,         \* the values WithMaxConcurrent may be called with, 0 for none
    Buffer,       \* capacity of InstructionChan, 10 in the code
    MaxIters,     \* workerLoop.MaxIters, 20 in the code
    MaxEvents     \* bound on the failures of the store, restarts of the process
                  \* and changes of the cap, together

ASSUME AsyncAssumption ==
    /\ Tasks \cap Clients = {}
    /\ Caps \subseteq Nat /\ Caps # {}
    /\ {Buffer, MaxIters, MaxEvents} \subseteq Nat
    /\ Buffer > 0 /\ MaxIters > 0

VARIABLES
    rows,       \* the session's persisted map: task -> status
    active,     \* the tasks in ActiveTasks
    cap,        \* MaxConcurrent, the capacity of sem
    tokens,     \* the elements in sem
    worker,     \* where StartTask, and then runLoop, stands
    iter,       \* iterations the worker's run has begun
    pending,    \* instructions in the worker's InstructionChan
    cancelled,  \* the tasks whose CancelFunc was called
    outcome,    \* finalStatus
    op,         \* what each client is doing, and to which task
    copy,       \* the map a process has read and not yet saved
    stale,      \* the processes whose copy no longer is the map they read
    overrun,    \* tasks whose row a stale copy or a failed access damaged
    swapped,    \* sem was replaced while workers held its elements
    events      \* how many of them there were

life == <<worker, iter, outcome>>
slots == <<cap, tokens, swapped>>
view == <<copy, stale>>
table == <<rows, view, overrun>>
vars == <<life, slots, table, active, pending, cancelled, op, events>>

Processes == Tasks \union Clients
Outcomes == {"success", "error", "cancelled"}
Statuses == {"none", "running", "interrupted"} \union Outcomes
EmptyMap == [t \in Tasks |-> "none"]
Idle == [kind |-> "idle", tasks |-> {}]

Unborn == {"idle", "registered", "recording"}     \* StartTask has not returned
Running == {"launched", "running"}
Ending == {"ending", "closing", "removing", "releasing"}
Holders == {t \in Tasks : worker[t] \in (Unborn \ {"idle"}) \union Running \union Ending}

Init ==
    /\ rows = EmptyMap /\ copy = [p \in Processes |-> EmptyMap]
    /\ stale = {} /\ overrun = {}
    /\ active = {} /\ cancelled = {}
    /\ cap \in Caps /\ tokens = 0 /\ swapped = FALSE
    /\ worker = [t \in Tasks |-> "idle"]
    /\ iter = [t \in Tasks |-> 0] /\ pending = [t \in Tasks |-> 0]
    /\ outcome = [t \in Tasks |-> "none"]
    /\ op = [c \in Clients |-> Idle]
    /\ events = 0

-----------------------------------------------------------------------------
(* The store: AsyncTasks returns a copy, SaveAsyncTasks replaces the map.  *)

Event == events < MaxEvents /\ events' = events + 1

\* The processes between their read and their save.
Reading ==
    {t \in Tasks : worker[t] \in {"recording", "closing"}}
      \union {c \in Clients : op[c].kind \in {"cancelSave", "reconcile", "syncSave"}}

Forget(p) ==
    /\ copy' = [copy EXCEPT ![p] = EmptyMap]
    /\ stale' = stale \ {p}

\* p saves its copy to change the rows in mine.  If the map was saved since p
\* read it, the other rows that differ from the copy are overrun.
Save(p, mine) ==
    /\ rows' = copy[p]
    /\ copy' = [copy EXCEPT ![p] = EmptyMap]
    /\ stale' = (IF rows' # rows THEN stale \union Reading ELSE stale) \ {p}
    /\ overrun' = IF p \in stale
                  THEN overrun \union {t \in Tasks \ mine : copy[p][t] # rows[t]}
                  ELSE overrun

-----------------------------------------------------------------------------
(* WithMaxConcurrent, StartTask and the worker                             *)

\* A new channel: what workers put in the old one stays there.
WithMaxConcurrent(n) ==
    /\ Event
    /\ cap' = n /\ tokens' = 0
    /\ swapped' = (swapped \/ Holders # {})
    /\ UNCHANGED <<life, table, active, pending, cancelled, op>>

Goto(t, from, to) == worker[t] = from /\ worker' = [worker EXCEPT ![t] = to]

(* Mutant of HasSlot: off by one. *)
HasSlotOffByOne == cap = 0 \/ tokens <= cap

\* A full sem refuses the task, which changes nothing.
HasSlot == cap = 0 \/ tokens < cap

\* The slot is taken and the task registered: nothing reads both.
StartTask(t) ==
    /\ Goto(t, "idle", "registered")
    /\ HasSlot
    /\ tokens' = IF cap = 0 THEN 0 ELSE tokens + 1
    /\ active' = active \union {t}
    /\ UNCHANGED <<iter, outcome, cap, swapped, table, pending, cancelled,
                   op, events>>

\* A failed read starts from an empty map.
StartRead(t) ==
    /\ Goto(t, "registered", "recording")
    /\ \/ copy' = [copy EXCEPT ![t] = [rows EXCEPT ![t] = "running"]]
          /\ UNCHANGED <<stale, events>>
       \/ /\ Event /\ stale' = stale \union {t}
          /\ copy' = [copy EXCEPT ![t] = [EmptyMap EXCEPT ![t] = "running"]]
    /\ UNCHANGED <<iter, outcome, slots, rows, overrun, active, pending, cancelled, op>>

StartSave(t) ==
    /\ Goto(t, "recording", "launched")
    /\ \/ Save(t, {t}) /\ UNCHANGED events
       \/ Event /\ Forget(t) /\ overrun' = overrun \union {t} /\ UNCHANGED rows
    /\ UNCHANGED <<iter, outcome, slots, active, pending, cancelled, op>>

Drained(t) == [pending EXCEPT ![t] = 0]
\* The drain hook is a BeforeHook: it runs when RunIteration starts.
BeginRun(t) ==
    /\ Goto(t, "launched", "running")
    /\ pending' = Drained(t)
    /\ iter' = [iter EXCEPT ![t] = 1]
    /\ UNCHANGED <<outcome, slots, table, active, cancelled, op, events>>

NextIteration(t) ==
    /\ worker[t] = "running" /\ iter[t] < MaxIters
    /\ iter' = [iter EXCEPT ![t] = @ + 1]
    /\ UNCHANGED <<worker, outcome, slots, table, active, pending, cancelled, op,
                   events>>

\* An error of a worker whose context is done counts as the cancellation.
FinalStatus(t) == {"success", IF t \in cancelled THEN "cancelled" ELSE "error"}
RunReturns(t) ==
    /\ Goto(t, "running", "ending")
    /\ \E s \in FinalStatus(t) : outcome' = [outcome EXCEPT ![t] = s]
    /\ iter' = [iter EXCEPT ![t] = 0] /\ pending' = Drained(t)
    /\ UNCHANGED <<slots, table, active, cancelled, op, events>>

\* A row that is missing, or a map that cannot be read, is left alone.
FinalRead(t) ==
    /\ \/ /\ rows[t] # "none"
          /\ Goto(t, "ending", "closing")
          /\ copy' = [copy EXCEPT ![t] = [rows EXCEPT ![t] = outcome[t]]]
          /\ UNCHANGED <<overrun, events>>
       \/ /\ \/ rows[t] = "none" /\ UNCHANGED <<overrun, events>>
             \/ Event /\ overrun' = overrun \union {t}
          /\ Goto(t, "ending", "removing")
          /\ UNCHANGED copy
    /\ UNCHANGED <<iter, outcome, slots, rows, stale, active, pending, cancelled, op>>

FinalSave(t) ==
    /\ Goto(t, "closing", "removing")
    /\ \/ Save(t, {t}) /\ UNCHANGED events
       \/ Event /\ Forget(t) /\ overrun' = overrun \union {t} /\ UNCHANGED rows
    /\ UNCHANGED <<iter, outcome, slots, active, pending, cancelled, op>>

(* Mutant of Remove: the entry is not deleted. *)
RemoveNothing(t) ==
    /\ Goto(t, "removing", "releasing")
    /\ UNCHANGED <<iter, outcome, slots, table, active, pending, cancelled, op, events>>

Remove(t) ==
    /\ Goto(t, "removing", "releasing")
    /\ active' = active \ {t}
    /\ UNCHANGED <<iter, outcome, slots, table, pending, cancelled, op, events>>

(* Mutant of Release: a worker that fails returns without releasing. *)
ReleaseOnSuccess(t) ==
    /\ Goto(t, "releasing", "done")
    /\ \/ (cap = 0 \/ outcome[t] = "error") /\ UNCHANGED tokens
       \/ cap > 0 /\ outcome[t] # "error" /\ tokens > 0 /\ tokens' = tokens - 1
    /\ UNCHANGED <<iter, outcome, cap, swapped, table, active, pending, cancelled, op,
                   events>>

(* Mutant of Release: the nil check dropped, a nil channel blocks forever. *)
ReleaseNilBlocks(t) ==
    /\ Goto(t, "releasing", "done")
    /\ tokens > 0 /\ tokens' = tokens - 1
    /\ UNCHANGED <<iter, outcome, cap, swapped, table, active, pending, cancelled, op,
                   events>>

\* The deferred function reads sem again; an empty channel blocks it.
Release(t) ==
    /\ Goto(t, "releasing", "done")
    /\ \/ cap = 0 /\ UNCHANGED tokens
       \/ cap > 0 /\ tokens > 0 /\ tokens' = tokens - 1
    /\ UNCHANGED <<iter, outcome, cap, swapped, table, active, pending,
                   cancelled, op, events>>

-----------------------------------------------------------------------------
(* The tools.  A task's id is known once StartTask has returned it.        *)

Known(t) == worker[t] \notin Unborn

\* A task that is not active is refused.  The channel goes with its entry.
CancelTask(c, t) ==
    /\ op[c] = Idle /\ Known(t) /\ t \in active
    /\ cancelled' = cancelled \union {t}
    /\ active' = active \ {t} /\ pending' = Drained(t)
    /\ op' = [op EXCEPT ![c] = [kind |-> "cancelRead", tasks |-> {t}]]
    /\ UNCHANGED <<life, slots, table, events>>

CancelRead(c) ==
    /\ op[c].kind = "cancelRead"
    /\ \/ /\ \A t \in op[c].tasks : rows[t] # "none"
          /\ op' = [op EXCEPT ![c].kind = "cancelSave"]
          /\ copy' = [copy EXCEPT ![c] =
                        [t \in Tasks |-> IF t \in op[c].tasks THEN "cancelled" ELSE rows[t]]]
          /\ UNCHANGED events
       \/ /\ \/ (\E t \in op[c].tasks : rows[t] = "none") /\ UNCHANGED events
             \/ Event
          /\ op' = [op EXCEPT ![c] = Idle]
          /\ UNCHANGED copy
    /\ UNCHANGED <<life, slots, rows, stale, overrun, active, pending, cancelled>>

CancelSave(c) ==
    /\ op[c].kind = "cancelSave"
    /\ op' = [op EXCEPT ![c] = Idle]
    /\ \/ Save(c, op[c].tasks) /\ UNCHANGED events
       \/ Event /\ Forget(c) /\ UNCHANGED <<rows, overrun>>
    /\ UNCHANGED <<life, slots, active, pending, cancelled>>

\* A full buffer drops the instruction and reports success, and so does, in
\* effect, the channel of a worker whose run has returned: nobody reads it.
UpdateTask(t) ==
    /\ worker[t] \in Running /\ t \in active /\ pending[t] < Buffer
    /\ pending' = [pending EXCEPT ![t] = @ + 1]
    /\ UNCHANGED <<life, slots, table, active, cancelled, op, events>>

\* CheckAsyncTask and ListAsyncTasks; a failed read returns an empty list.
SyncRead(c) ==
    /\ op[c] = Idle
    /\ op' = [op EXCEPT ![c].kind = "reconcile"]
    /\ copy' = [copy EXCEPT ![c] = rows]
    /\ UNCHANGED <<life, slots, rows, stale, overrun, active, pending, cancelled, events>>

(* Mutant of Interrupted: ActiveTasks is not consulted. *)
InterruptedAnyway(c) == {t \in Tasks : copy[c][t] = "running"}

Interrupted(c) == {t \in Tasks : copy[c][t] = "running" /\ t \notin active}

Reconcile(c) ==
    /\ op[c].kind = "reconcile"
    /\ IF Interrupted(c) = {}
       THEN op' = [op EXCEPT ![c] = Idle] /\ Forget(c)
       ELSE /\ op' = [op EXCEPT ![c] = [kind |-> "syncSave", tasks |-> Interrupted(c)]]
            /\ copy' = [copy EXCEPT ![c] =
                          [t \in Tasks |-> IF t \in Interrupted(c) THEN "interrupted"
                                                                   ELSE @[t]]]
            /\ UNCHANGED stale
    /\ UNCHANGED <<life, slots, rows, overrun, active, pending, cancelled, events>>

\* It may only replace a row that still says running.
SyncSave(c) ==
    /\ op[c].kind = "syncSave"
    /\ op' = [op EXCEPT ![c] = Idle]
    /\ \/ Save(c, {t \in op[c].tasks : rows[t] = "running"}) /\ UNCHANGED events
       \/ Event /\ Forget(c) /\ UNCHANGED <<rows, overrun>>
    /\ UNCHANGED <<life, slots, active, pending, cancelled>>

\* The process stops; a new manager has no tasks and a new semaphore.
Crash ==
    /\ Event
    /\ worker' = [t \in Tasks |-> IF t \in Holders THEN "crashed" ELSE worker[t]]
    /\ active' = {} /\ tokens' = 0 /\ swapped' = FALSE
    /\ op' = [c \in Clients |-> Idle]
    /\ copy' = [p \in Processes |-> EmptyMap] /\ stale' = {}
    /\ pending' = [t \in Tasks |-> 0]
    /\ UNCHANGED <<iter, outcome, cap, rows, overrun, cancelled>>

-----------------------------------------------------------------------------
\* The steps that go on by themselves once begun.
Closing(t) == FinalRead(t) \/ FinalSave(t) \/ Remove(t) \/ Release(t)
Work(t) ==
    StartTask(t) \/ StartRead(t) \/ StartSave(t) \/ BeginRun(t) \/ NextIteration(t)
      \/ RunReturns(t) \/ Closing(t)
Tool(c) ==
    \/ \E t \in Tasks : CancelTask(c, t)
    \/ CancelRead(c) \/ CancelSave(c)
    \/ SyncRead(c) \/ Reconcile(c) \/ SyncSave(c)

Next ==
    \/ \E t \in Tasks : Work(t) \/ UpdateTask(t)
    \/ \E c \in Clients : Tool(c)
    \/ \E n \in Caps : WithMaxConcurrent(n)
    \/ Crash

\* A run need not end by itself, but it does end once its context is done:
\* every model and tool call of the loop is given that context.
Fairness == \A t \in Tasks :
    /\ WF_vars(Closing(t))
    /\ WF_vars(StartRead(t) \/ StartSave(t) \/ BeginRun(t))
    /\ WF_vars(t \in cancelled /\ RunReturns(t))

Spec == Init /\ [][Next]_vars /\ Fairness

-----------------------------------------------------------------------------
\* Types, and the bounds of the semaphore and the buffers.
TypeOK ==
    /\ rows \in [Tasks -> Statuses] /\ copy \in [Processes -> [Tasks -> Statuses]]
    /\ overrun \subseteq Tasks /\ active \subseteq Tasks /\ cancelled \subseteq Tasks
    /\ cap \in Caps /\ tokens \in Nat /\ tokens <= cap /\ swapped \in BOOLEAN
    /\ worker \in [Tasks -> Unborn \union Running \union Ending \union {"done", "crashed"}]
    /\ iter \in [Tasks -> 0 .. MaxIters] /\ pending \in [Tasks -> 0 .. Buffer]
    /\ outcome \in [Tasks -> Outcomes \union {"none"}]
    /\ op \in [Clients -> [kind : {"idle", "cancelRead", "cancelSave", "reconcile",
                                   "syncSave"}, tasks : SUBSET Tasks]]
    /\ events \in 0 .. MaxEvents

\* Unless the cap is changed under running workers, the elements of sem are
\* the workers under way (async.go:92, :150): none releases twice or not at
\* all, whichever way it ends, and no more than cap of them run at once.
SlotsAreHeld ==
    ~swapped /\ cap > 0 => tokens = Cardinality(Holders) /\ tokens <= cap

\* A worker that can still run can be cancelled: it leaves ActiveTasks only
\* by its own end or by CancelTask, and it is never left behind in it.
ActiveAreLive ==
    /\ active \subseteq Holders
    /\ \A t \in Tasks : worker[t] \in Running /\ t \notin cancelled => t \in active

\* The manager's own account of its workers (StartTask, the deferred release,
\* CancelTask): what is active is alive, and holds its slot until it ends.
WorkersAreAccounted == TypeOK /\ SlotsAreHeld /\ ActiveAreLive

\* Unless another writer's save overran it, a task's row tells what its
\* worker did: running while it runs, its own outcome once it has ended
\* (async.go:217), interrupted only if the process stopped under it.  Between
\* CancelTask and the end of the worker the row may also read cancelled or
\* interrupted.
RowsTellTheTruth == \A t \in Tasks \ overrun :
    /\ worker[t] \in {"idle", "registered", "recording"} => rows[t] = "none"
    /\ worker[t] \in Running \union {"ending", "closing"}
         => \/ rows[t] = "running"
            \/ t \in cancelled /\ rows[t] \in {"cancelled", "interrupted"}
    /\ worker[t] \in {"removing", "releasing", "done"}
         => \/ rows[t] = outcome[t]
            \/ t \in cancelled /\ rows[t] = "cancelled"

\* A worker that was cancelled, or whose run has returned, finishes: its row
\* is written, it leaves ActiveTasks and gives its slot back.
CancelledWorkersEnd == \A t \in Tasks :
    (t \in cancelled /\ worker[t] \in Running) \/ worker[t] \in Ending
        ~> worker[t] \in {"done", "crashed"} \/ swapped

\* An iteration of a worker starts with no instruction left undelivered
\* (async.go:21: "drained at each iteration boundary").
InstructionsDelivered ==
    [][\A t \in Tasks : iter'[t] > iter[t] => pending'[t] = 0]_vars

=============================================================================
