---------------------------- MODULE SessionTools ----------------------------
(***************************************************************************)
(* The session-scoped tools of pkg/tools/builtin/tasks.go and memory.go:   *)
(* the task list the model plans with, sent to the parent stream after     *)
(* each call of a task tool, and the key-value memory.  The calls of one   *)
(* turn run concurrently; the stores serialise only their own operations.  *)
(***************************************************************************)
EXTENDS Integers, Sequences, FiniteSets

CONSTANTS
    ToolCalls,    \* calls of the session tools
    KeyOf,        \* session of each call, NoSession when the context has none
    NoSession,
    MemKeyNames,  \* memory keys
    MaxTasks      \* bound: tasks of one session

VARIABLES
    tasks,        \* InMemoryTaskStore.data: the ordered list of each session
    memory,       \* InMemoryStore.data: the keys set in each session
    calling,      \* each call: where it is, and the list it took to send
    stream,       \* the last task list the stream of each session received
    disturbed     \* history: a task list was dropped, or two calls overlapped

toolVars == <<tasks, memory, calling, stream, disturbed>>

Keyed == {KeyOf[c] : c \in ToolCalls} \ {NoSession}
Statuses == {"pending", "in_progress", "completed"}

ToolsInit ==
    /\ tasks = [s \in Keyed |-> <<>>]
    /\ memory = [s \in Keyed |-> {}]
    /\ calling = [c \in ToolCalls |-> [at |-> "new", list |-> <<>>]]
    /\ stream = [s \in Keyed |-> <<>>]
    /\ disturbed = [s \in Keyed |-> FALSE]

-----------------------------------------------------------------------------
Stands(c, place) == calling' = [calling EXCEPT ![c].at = place]

\* taskSessionKey and memorySessionKey: without a session key the tools fail
\* closed, as they do on bad arguments, before they reach a store.
Refuse(c) ==
    /\ calling[c].at = "new"
    /\ Stands(c, "failed")
    /\ UNCHANGED <<tasks, memory, stream, disturbed>>

InProgress(s) == {c \in ToolCalls : KeyOf[c] = s /\ calling[c].at \in {"emit", "send"}}

Starts(c) ==
    /\ calling[c].at = "new" /\ KeyOf[c] # NoSession
    /\ disturbed' = [disturbed EXCEPT ![KeyOf[c]] = @ \/ InProgress(KeyOf[c]) # {}]

\* A bug to plant: the list is taken before the task is in it.
CreateListsFirst(c) ==
    LET s == KeyOf[c] IN
    /\ Starts(c) /\ Len(tasks[s]) < MaxTasks
    /\ tasks' = [tasks EXCEPT ![s] =
                   Append(@, [id |-> Len(@) + 1, status |-> "pending"])]
    /\ calling' = [calling EXCEPT ![c] = [at |-> "send", list |-> tasks[s]]]
    /\ UNCHANGED <<memory, stream>>

Create(c) ==
    LET s == KeyOf[c] IN
    /\ Starts(c) /\ Len(tasks[s]) < MaxTasks
    /\ tasks' = [tasks EXCEPT ![s] =
                   Append(@, [id |-> Len(@) + 1, status |-> "pending"])]
    /\ Stands(c, "emit")
    /\ UNCHANGED <<memory, stream>>

\* Update finds the task by its id; any status may follow any other.
Update(c) ==
    LET s == KeyOf[c] IN
    /\ Starts(c)
    /\ \E id \in 1 .. MaxTasks, status \in Statuses :
         IF \E i \in DOMAIN tasks[s] : tasks[s][i].id = id
         THEN /\ tasks' = [tasks EXCEPT ![s] = [i \in DOMAIN @ |->
                    IF @[i].id = id THEN [@[i] EXCEPT !.status = status] ELSE @[i]]]
              /\ Stands(c, "emit")
         ELSE UNCHANGED tasks /\ Stands(c, "failed")
    /\ UNCHANGED <<memory, stream>>

\* list_tasks changes nothing, and emits the list all the same.
List(c) ==
    /\ Starts(c)
    /\ Stands(c, "emit")
    /\ UNCHANGED <<tasks, memory, stream>>

-----------------------------------------------------------------------------
\* emitTaskList reads the store again, under its own lock, and then sends:
\* a send the stream has no room for is dropped.
emitTaskList(c) ==
    /\ calling[c].at = "emit"
    /\ calling' = [calling EXCEPT ![c] = [at |-> "send", list |-> tasks[KeyOf[c]]]]
    /\ UNCHANGED <<tasks, memory, stream, disturbed>>

Send(c) ==
    /\ calling[c].at = "send"
    /\ Stands(c, "returned")
    /\ \/ stream' = [stream EXCEPT ![KeyOf[c]] = calling[c].list] /\ UNCHANGED disturbed
       \/ disturbed' = [disturbed EXCEPT ![KeyOf[c]] = TRUE] /\ UNCHANGED stream
    /\ UNCHANGED <<tasks, memory>>

\* The memory tools: one store operation each, which changes at most one key.
Remember(c) ==
    LET s == KeyOf[c] IN
    /\ calling[c].at = "new" /\ s # NoSession
    /\ \E k \in MemKeyNames :
         memory' = [memory EXCEPT ![s] = @ \cup {k}] \/ memory' = [memory EXCEPT ![s] = @ \ {k}]
    /\ Stands(c, "returned")
    /\ UNCHANGED <<tasks, stream, disturbed>>

Recall(c) ==
    /\ calling[c].at = "new" /\ KeyOf[c] # NoSession
    /\ Stands(c, "returned")
    /\ UNCHANGED <<tasks, memory, stream, disturbed>>

ToolsNext == \E c \in ToolCalls :
    \/ Refuse(c) \/ Create(c) \/ Update(c) \/ List(c)
    \/ emitTaskList(c) \/ Send(c) \/ Remember(c) \/ Recall(c)

ToolsSpec == ToolsInit /\ [][ToolsNext]_toolVars

-----------------------------------------------------------------------------
\* A reader of the stream sees the list as it is: once a session's calls have
\* returned, the last list it received is the store's, unless two of the calls
\* overlapped or a send was dropped (each list is read after the change and
\* sent after the read, with nothing to keep two of them in order).
ShownListIsCurrent ==
    \A s \in Keyed :
        (~disturbed[s] /\ InProgress(s) = {}) => stream[s] = tasks[s]
=============================================================================
