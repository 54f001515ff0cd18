--------------------------- MODULE AsyncTasksProofs ---------------------------
(***************************************************************************)
(* The manager's account of its workers and the rows of the task map, for  *)
(* any number of tasks and of tool calls under way, any cap, any number of *)
(* iterations, failures of the store and restarts of the process.          *)
(***************************************************************************)
EXTENDS AsyncTasks, FiniteSetTheorems, TLAPS

\* Tasks may be infinite: those under way are finitely many.
HoldersAreFinite == IsFiniteSet(Holders)

\* A worker is in ActiveTasks from StartTask to its Remove, or to the
\* CancelTask that knows its id, which needs that StartTask has returned.
ActiveInv ==
    /\ active \subseteq Holders
    /\ \A t \in Tasks :
        /\ worker[t] \in Unborn => t \notin cancelled
        /\ worker[t] \in {"registered", "recording"} => t \in active
        /\ worker[t] \in Running \union {"ending", "closing", "removing"} /\ t \notin cancelled
             => t \in active
        /\ worker[t] = "releasing" => t \notin active

WorkersInv == TypeOK /\ HoldersAreFinite /\ SlotsAreHeld /\ ActiveInv

\* The rows a process means to change with its next save.
Mine(p) == IF p \in Tasks THEN {p} ELSE op[p].tasks

\* What a process is about to write in those rows, and of which tasks.
TaskIntends(t) ==
    /\ worker[t] = "recording" => copy[t][t] = "running"
    /\ worker[t] = "closing" => copy[t][t] = outcome[t]

ClientIntends(c) ==
    /\ op[c].kind \in {"cancelRead", "cancelSave"} => op[c].tasks \subseteq cancelled
    /\ op[c].kind = "reconcile" => op[c].tasks = {}
    /\ \A t \in op[c].tasks :
        /\ op[c].kind = "cancelSave" => copy[c][t] = "cancelled"
        /\ op[c].kind = "syncSave" => copy[c][t] = "interrupted"

IntentsInv == (\A t \in Tasks : TaskIntends(t)) /\ (\A c \in Clients : ClientIntends(c))

\* A copy that is not stale is the map, but for the rows to be changed.
FreshCopy(p) ==
    p \in Reading \ stale =>
        /\ \A t \in Tasks \ Mine(p) : copy[p][t] = rows[t]
        /\ p \in Clients /\ op[p].kind = "syncSave" => \A t \in op[p].tasks : rows[t] = "running"

CopiesAreFresh == \A p \in Processes : FreshCopy(p)

\* Nobody has heard of a task that is not recorded yet.
UnheardOf(t) ==
    t \notin overrun /\ worker[t] \in Unborn => \A p \in Processes \ {t} : copy[p][t] = "none"

UnbornAreUnknown == \A t \in Tasks : UnheardOf(t)

\* SyncTasks calls a worker interrupted only if it was cancelled or is over.
InterruptsFairly(c) ==
    op[c].kind = "syncSave" =>
        \A t \in op[c].tasks \ overrun :
            t \in cancelled \/ worker[t] \in {"releasing", "done", "crashed"}

InterruptedAreOver == \A c \in Clients : InterruptsFairly(c)

\* A row of RowsTellTheTruth.
TellsTheTruth(t) ==
    t \notin overrun =>
        /\ worker[t] \in Unborn => rows[t] = "none"
        /\ worker[t] \in Running \union {"ending", "closing"}
             => \/ rows[t] = "running"
                \/ t \in cancelled /\ rows[t] \in {"cancelled", "interrupted"}
        /\ worker[t] \in {"removing", "releasing", "done"}
             => \/ rows[t] = outcome[t]
                \/ t \in cancelled /\ rows[t] = "cancelled"

RowsInv ==
    /\ IntentsInv /\ CopiesAreFresh /\ UnbornAreUnknown /\ InterruptedAreOver
    /\ \A t \in Tasks : TellsTheTruth(t)

IInv == WorkersInv /\ RowsInv

\* What a process may take for its copy.
LEMMA CopyTypes ==
    ASSUME TypeOK, NEW p \in Processes, NEW m \in [Tasks -> Statuses],
           copy' = [copy EXCEPT ![p] = m]
    PROVE  copy' \in [Processes -> [Tasks -> Statuses]]
BY DEF TypeOK

LEMMA EmptyMapType == EmptyMap \in [Tasks -> Statuses]
BY DEF EmptyMap, Statuses

LEMMA SaveTypes ==
    ASSUME TypeOK, NEW p \in Processes, NEW mine, Save(p, mine)
    PROVE  /\ rows' \in [Tasks -> Statuses] /\ copy' \in [Processes -> [Tasks -> Statuses]]
           /\ overrun' \subseteq Tasks
<1>1. copy' \in [Processes -> [Tasks -> Statuses]]
  BY EmptyMapType, CopyTypes DEF Save
<1>2. rows' \in [Tasks -> Statuses] /\ overrun' \subseteq Tasks
  BY DEF Save, TypeOK
<1> QED
  BY <1>1, <1>2

LEMMA ForgetTypes ==
    ASSUME TypeOK, NEW p \in Processes, Forget(p)
    PROVE  copy' \in [Processes -> [Tasks -> Statuses]]
BY EmptyMapType, CopyTypes DEF Forget

OpTypes == [Clients -> [kind : {"idle", "cancelRead", "cancelSave", "reconcile", "syncSave"},
                        tasks : SUBSET Tasks]]
\* A client moves on.
LEMMA IdleType ==
    ASSUME TypeOK, NEW c \in Clients, op' = [op EXCEPT ![c] = Idle]
    PROVE  op' \in OpTypes
BY DEF TypeOK, OpTypes, Idle
LEMMA KindType ==
    ASSUME TypeOK, NEW c \in Clients,
           NEW k \in {"idle", "cancelRead", "cancelSave", "reconcile", "syncSave"},
           op' = [op EXCEPT ![c].kind = k]
    PROVE  op' \in OpTypes
BY DEF TypeOK, OpTypes

\* Every step keeps the types and the bounds.
LEMMA TypesKept ==
    ASSUME TypeOK, [Next]_vars
    PROVE  TypeOK'
<1> USE AsyncAssumption DEF life, slots, view, table, TypeOK, Unborn, Running, Ending, Outcomes,
       Statuses, EmptyMap, Idle, Processes
<1>1. ASSUME NEW t \in Tasks, StartTask(t) PROVE TypeOK'
  BY <1>1 DEF StartTask, Goto, HasSlot
<1>2. ASSUME NEW t \in Tasks, StartRead(t) PROVE TypeOK'
  <2>1. copy' \in [Processes -> [Tasks -> Statuses]]
    BY <1>2, CopyTypes, EmptyMapType DEF StartRead
  <2> QED
    BY <1>2, <2>1 DEF StartRead, Goto, Event
<1>3. ASSUME NEW t \in Tasks, StartSave(t) PROVE TypeOK'
  <2> USE <1>3
  <2>1. rows' \in [Tasks -> Statuses] /\ copy' \in [Processes -> [Tasks -> Statuses]]
        /\ overrun' \subseteq Tasks
    BY SaveTypes, ForgetTypes DEF StartSave
  <2>2. worker' \in [Tasks -> Unborn \union Running \union Ending \union {"done", "crashed"}]
    BY DEF StartSave, Goto
  <2>3. events' \in 0 .. MaxEvents
    BY DEF StartSave, Event
  <2>4. UNCHANGED <<iter, outcome, slots, active, pending, cancelled, op>>
    BY DEF StartSave
  <2> HIDE <1>3 DEF Processes, Statuses, Outcomes
  <2> QED
    BY <2>1, <2>2, <2>3, <2>4
<1>4. ASSUME NEW t \in Tasks, BeginRun(t) PROVE TypeOK'
  BY <1>4 DEF BeginRun, Goto, Drained
<1>5. ASSUME NEW t \in Tasks, NextIteration(t) PROVE TypeOK'
  BY <1>5 DEF NextIteration
<1>6. ASSUME NEW t \in Tasks, RunReturns(t) PROVE TypeOK'
  BY <1>6 DEF RunReturns, Goto, Drained, FinalStatus
<1>7. ASSUME NEW t \in Tasks, FinalRead(t) PROVE TypeOK'
  <2>1. copy' \in [Processes -> [Tasks -> Statuses]]
    BY <1>7, CopyTypes DEF FinalRead
  <2> QED
    BY <1>7, <2>1 DEF FinalRead, Goto, Event
<1>8. ASSUME NEW t \in Tasks, FinalSave(t) PROVE TypeOK'
  <2> USE <1>8
  <2>1. rows' \in [Tasks -> Statuses] /\ copy' \in [Processes -> [Tasks -> Statuses]]
        /\ overrun' \subseteq Tasks
    BY SaveTypes, ForgetTypes DEF FinalSave
  <2>2. worker' \in [Tasks -> Unborn \union Running \union Ending \union {"done", "crashed"}]
    BY DEF FinalSave, Goto
  <2>3. events' \in 0 .. MaxEvents
    BY DEF FinalSave, Event
  <2>4. UNCHANGED <<iter, outcome, slots, active, pending, cancelled, op>>
    BY DEF FinalSave
  <2> HIDE <1>8 DEF Processes, Statuses, Outcomes
  <2> QED
    BY <2>1, <2>2, <2>3, <2>4
<1>9. ASSUME NEW t \in Tasks, Remove(t) PROVE TypeOK'
  BY <1>9 DEF Remove, Goto
<1>10. ASSUME NEW t \in Tasks, Release(t) PROVE TypeOK'
  BY <1>10 DEF Release, Goto
<1>11. ASSUME NEW t \in Tasks, UpdateTask(t) PROVE TypeOK'
  BY <1>11 DEF UpdateTask
<1>12. ASSUME NEW c \in Clients, NEW t \in Tasks, CancelTask(c, t) PROVE TypeOK'
  BY <1>12 DEF CancelTask, Drained, Known
<1>13. ASSUME NEW c \in Clients, CancelRead(c) PROVE TypeOK'
  <2>1. copy' \in [Processes -> [Tasks -> Statuses]]
    BY <1>13, CopyTypes DEF CancelRead
  <2>2. op' \in OpTypes
    BY <1>13, IdleType, KindType DEF CancelRead
  <2> HIDE DEF Processes, Statuses, Outcomes, EmptyMap, Idle
  <2> QED
    BY <1>13, <2>1, <2>2 DEF CancelRead, Event, OpTypes
<1>14. ASSUME NEW c \in Clients, CancelSave(c) PROVE TypeOK'
  <2> USE <1>14
  <2>1. rows' \in [Tasks -> Statuses] /\ copy' \in [Processes -> [Tasks -> Statuses]]
        /\ overrun' \subseteq Tasks
    BY SaveTypes, ForgetTypes DEF CancelSave
  <2>2. op' \in OpTypes
    BY IdleType DEF CancelSave
  <2> HIDE DEF Processes, Statuses, Outcomes, EmptyMap, Idle
  <2> QED
    BY <2>1, <2>2 DEF CancelSave, Event, OpTypes
<1>15. ASSUME NEW c \in Clients, SyncRead(c) PROVE TypeOK'
  BY <1>15 DEF SyncRead
<1>16. ASSUME NEW c \in Clients, Reconcile(c) PROVE TypeOK'
  <2>1. copy' \in [Processes -> [Tasks -> Statuses]]
    <3>1. CASE Interrupted(c) = {}
      BY <1>16, <3>1, ForgetTypes DEF Reconcile
    <3>2. CASE Interrupted(c) # {}
      <4> DEFINE m == [t \in Tasks |-> IF t \in Interrupted(c) THEN "interrupted" ELSE copy[c][t]]
      <4>1. m \in [Tasks -> Statuses]
        OBVIOUS
      <4>2. copy' = [copy EXCEPT ![c] = m]
        BY <1>16, <3>2 DEF Reconcile
      <4> QED
        BY <4>1, <4>2, CopyTypes
    <3> QED
      BY <3>1, <3>2
  <2>2. op' \in OpTypes
    <3>1. CASE Interrupted(c) = {}
      BY <1>16, <3>1, IdleType DEF Reconcile
    <3>2. CASE Interrupted(c) # {}
      <4>1. op' = [op EXCEPT ![c] = [kind |-> "syncSave", tasks |-> Interrupted(c)]]
        BY <1>16, <3>2 DEF Reconcile
      <4>2. Interrupted(c) \in SUBSET Tasks /\ op \in OpTypes
        BY DEF Interrupted, OpTypes
      <4> QED
        BY ONLY <4>1, <4>2 DEF OpTypes
    <3> QED
      BY <3>1, <3>2
  <2> HIDE DEF Processes, Statuses, Outcomes, EmptyMap, Idle
  <2> QED
    BY <1>16, <2>1, <2>2 DEF Reconcile, OpTypes
<1>17. ASSUME NEW c \in Clients, SyncSave(c) PROVE TypeOK'
  <2> USE <1>17
  <2>1. rows' \in [Tasks -> Statuses] /\ copy' \in [Processes -> [Tasks -> Statuses]]
        /\ overrun' \subseteq Tasks
    BY SaveTypes, ForgetTypes DEF SyncSave
  <2>2. op' \in OpTypes
    BY IdleType DEF SyncSave
  <2> HIDE DEF Processes, Statuses, Outcomes, EmptyMap, Idle
  <2> QED
    BY <2>1, <2>2 DEF SyncSave, Event, OpTypes
<1>18. ASSUME NEW n \in Caps, WithMaxConcurrent(n) PROVE TypeOK'
  BY <1>18 DEF WithMaxConcurrent, Event
<1>19. CASE Crash
  <2>1. worker' \in [Tasks -> Unborn \union Running \union Ending \union {"done", "crashed"}]
    BY <1>19 DEF Crash
  <2>2. op' \in OpTypes
    BY <1>19 DEF Crash, OpTypes
  <2>3. copy' \in [Processes -> [Tasks -> Statuses]]
    BY <1>19, EmptyMapType DEF Crash
  <2>4. /\ pending' \in [Tasks -> 0 .. Buffer] /\ events' \in 0 .. MaxEvents
        /\ tokens' = 0 /\ swapped' \in BOOLEAN /\ active' = {}
        /\ UNCHANGED <<iter, outcome, cap, rows, overrun, cancelled>>
    <3>1. pending' \in [Tasks -> 0 .. Buffer]
      BY <1>19 DEF Crash
    <3>2. events' \in 0 .. MaxEvents
      BY <1>19 DEF Crash, Event
    <3> QED
      BY <1>19, <3>1, <3>2 DEF Crash
  <2>5. cap' \in Caps /\ tokens' \in Nat /\ tokens' <= cap'
    BY <2>4
  <2> HIDE DEF Processes, Statuses, Outcomes
  <2> QED
    BY <2>1, <2>2, <2>3, <2>4, <2>5 DEF OpTypes
<1>20. CASE UNCHANGED vars
  BY <1>20 DEF vars
<1> QED
  BY <1>1, <1>2, <1>3, <1>4, <1>5, <1>6, <1>7, <1>8, <1>9, <1>10, <1>11, <1>12, <1>13, <1>14,
     <1>15, <1>16, <1>17, <1>18, <1>19, <1>20 DEF Next, Work, Closing, Tool

\* Every step keeps the active tasks alive and the live ones active.
LEMMA ActiveKept ==
    ASSUME TypeOK, ActiveInv, [Next]_vars
    PROVE  ActiveInv'
<1> USE AsyncAssumption DEF life, slots, view, table, TypeOK, ActiveInv, Holders, Unborn,
       Running, Ending, Outcomes, Statuses, EmptyMap, Idle, Processes
<1>1. ASSUME NEW t \in Tasks, StartTask(t) PROVE ActiveInv'
  BY <1>1 DEF StartTask, Goto, HasSlot
<1>2. ASSUME NEW t \in Tasks, StartRead(t) PROVE ActiveInv'
  BY <1>2 DEF StartRead, Goto, Event
<1>3. ASSUME NEW t \in Tasks, StartSave(t) PROVE ActiveInv'
  BY <1>3 DEF StartSave, Goto, Save, Forget, Event
<1>4. ASSUME NEW t \in Tasks, BeginRun(t) PROVE ActiveInv'
  BY <1>4 DEF BeginRun, Goto, Drained
<1>5. ASSUME NEW t \in Tasks, NextIteration(t) PROVE ActiveInv'
  BY <1>5 DEF NextIteration
<1>6. ASSUME NEW t \in Tasks, RunReturns(t) PROVE ActiveInv'
  BY <1>6 DEF RunReturns, Goto, Drained, FinalStatus
<1>7. ASSUME NEW t \in Tasks, FinalRead(t) PROVE ActiveInv'
  BY <1>7 DEF FinalRead, Goto, Event
<1>8. ASSUME NEW t \in Tasks, FinalSave(t) PROVE ActiveInv'
  BY <1>8 DEF FinalSave, Goto, Save, Forget, Event
<1>9. ASSUME NEW t \in Tasks, Remove(t) PROVE ActiveInv'
  BY <1>9 DEF Remove, Goto
<1>10. ASSUME NEW t \in Tasks, Release(t) PROVE ActiveInv'
  BY <1>10 DEF Release, Goto
<1>11. ASSUME NEW t \in Tasks, UpdateTask(t) PROVE ActiveInv'
  BY <1>11 DEF UpdateTask
<1>12. ASSUME NEW c \in Clients, NEW t \in Tasks, CancelTask(c, t) PROVE ActiveInv'
  BY <1>12 DEF CancelTask, Drained, Known
<1>13. ASSUME NEW c \in Clients, CancelRead(c) PROVE ActiveInv'
  BY <1>13 DEF CancelRead, Event
<1>14. ASSUME NEW c \in Clients, CancelSave(c) PROVE ActiveInv'
  BY <1>14 DEF CancelSave, Save, Forget, Event
<1>15. ASSUME NEW c \in Clients, SyncRead(c) PROVE ActiveInv'
  BY <1>15 DEF SyncRead
<1>16. ASSUME NEW c \in Clients, Reconcile(c) PROVE ActiveInv'
  BY <1>16 DEF Reconcile, Forget, Interrupted
<1>17. ASSUME NEW c \in Clients, SyncSave(c) PROVE ActiveInv'
  BY <1>17 DEF SyncSave, Save, Forget, Event
<1>18. ASSUME NEW n \in Caps, WithMaxConcurrent(n) PROVE ActiveInv'
  BY <1>18 DEF WithMaxConcurrent, Event
<1>19. CASE Crash
  BY <1>19 DEF Crash, Event
<1>20. CASE UNCHANGED vars
  BY <1>20 DEF vars
<1> QED
  BY <1>1, <1>2, <1>3, <1>4, <1>5, <1>6, <1>7, <1>8, <1>9, <1>10, <1>11, <1>12, <1>13, <1>14,
     <1>15, <1>16, <1>17, <1>18, <1>19, <1>20 DEF Next, Work, Closing, Tool

\* A step that moves no worker in or out of its slot.
LEMMA SameSlots ==
    ASSUME HoldersAreFinite, SlotsAreHeld, Holders' = Holders, UNCHANGED slots
    PROVE  (HoldersAreFinite /\ SlotsAreHeld)'
BY DEF HoldersAreFinite, SlotsAreHeld, slots

\* Every step keeps the elements of sem the workers under way.
LEMMA SlotsKept ==
    ASSUME TypeOK, HoldersAreFinite, SlotsAreHeld, [Next]_vars
    PROVE  (HoldersAreFinite /\ SlotsAreHeld)'
<1> DEFINE Kept == (HoldersAreFinite /\ SlotsAreHeld)'
<1> USE AsyncAssumption DEF life, slots, view, table
<1>1. ASSUME NEW t \in Tasks, StartTask(t) PROVE Kept
  <2>1. t \notin Holders /\ Holders' = Holders \union {t}
    BY <1>1 DEF StartTask, Goto, TypeOK, Holders, Unborn, Running, Ending
  <2>2. IsFiniteSet(Holders') /\ Cardinality(Holders') = Cardinality(Holders) + 1
    BY <2>1, FS_AddElement DEF HoldersAreFinite
  <2> QED
    BY <1>1, <2>2 DEF StartTask, HasSlot, TypeOK, HoldersAreFinite, SlotsAreHeld
<1>2. ASSUME NEW t \in Tasks, Release(t) PROVE Kept
  <2>1. t \in Holders /\ Holders' = Holders \ {t}
    BY <1>2 DEF Release, Goto, TypeOK, Holders, Unborn, Running, Ending
  <2>2. IsFiniteSet(Holders') /\ Cardinality(Holders') = Cardinality(Holders) - 1
    BY <2>1, FS_RemoveElement DEF HoldersAreFinite
  <2> QED
    BY <1>2, <2>2 DEF Release, TypeOK, HoldersAreFinite, SlotsAreHeld
<1>3. ASSUME NEW n \in Caps, WithMaxConcurrent(n) PROVE Kept
  <2>1. Holders' = Holders
    BY <1>3 DEF WithMaxConcurrent, Holders
  <2>2. ~swapped' => Cardinality(Holders) = 0
    BY <1>3, FS_EmptySet DEF WithMaxConcurrent
  <2> QED
    BY <1>3, <2>1, <2>2 DEF WithMaxConcurrent, HoldersAreFinite, SlotsAreHeld
<1>4. ASSUME Crash PROVE Kept
  <2>1. Holders' = {}
    BY <1>4 DEF Crash, Holders, Unborn, Running, Ending
  <2> QED
    BY <1>4, <2>1, FS_EmptySet DEF Crash, HoldersAreFinite, SlotsAreHeld, TypeOK
<1>5. ASSUME NEW t \in Tasks,
             \/ StartRead(t) \/ StartSave(t) \/ BeginRun(t) \/ RunReturns(t) \/ FinalRead(t)
             \/ FinalSave(t) \/ Remove(t)
      PROVE  Kept
  <2>1. \E from, to \in (Unborn \ {"idle"}) \union Running \union Ending : Goto(t, from, to)
    BY <1>5 DEF StartRead, StartSave, BeginRun, RunReturns, FinalRead, FinalSave, Remove, Goto,
                Unborn, Running, Ending
  <2>2. Holders' = Holders
    BY <2>1 DEF Goto, TypeOK, Holders
  <2>3. UNCHANGED slots
    BY <1>5 DEF StartRead, StartSave, BeginRun, RunReturns, FinalRead, FinalSave, Remove
  <2> QED
    BY <2>2, <2>3, SameSlots
<1>6. ASSUME UNCHANGED worker, UNCHANGED slots PROVE Kept
  BY <1>6, SameSlots DEF Holders
<1> QED
  BY <1>1, <1>2, <1>3, <1>4, <1>5, <1>6
     DEF Next, Work, Closing, Tool, NextIteration, UpdateTask, CancelTask, CancelRead,
         CancelSave, SyncRead, Reconcile, SyncSave, vars

\* What a save changes: of the rows no stale copy overran, those in mine, and
\* every other copy is stale if it did.
LEMMA SaveEffect ==
    ASSUME TypeOK, NEW p \in Processes, NEW mine, Save(p, mine)
    PROVE  /\ \A q \in Processes \ {p} : copy'[q] = copy[q]
           /\ \A t \in Tasks : copy'[p][t] = "none" /\ rows'[t] = copy[p][t]
           /\ p \in stale => \A t \in Tasks \ (overrun' \union mine) : rows'[t] = rows[t]
           /\ rows' = rows \/ Reading \ {p} \subseteq stale'
           /\ overrun \subseteq overrun' /\ stale \ {p} \subseteq stale' 
<1>1. copy[p] \in [Tasks -> Statuses] /\ copy' = [copy EXCEPT ![p] = EmptyMap]
  BY DEF TypeOK, Save
<1>2. copy'[p] = EmptyMap /\ \A q \in Processes \ {p} : copy'[q] = copy[q]
  BY <1>1 DEF TypeOK
<1> QED
  BY <1>1, <1>2 DEF Save, EmptyMap

\* A process reads, drops or changes its own copy.
LEMMA CopyEffect ==
    ASSUME TypeOK, NEW p \in Processes, NEW m, copy' = [copy EXCEPT ![p] = m]
    PROVE  copy'[p] = m /\ \A q \in Processes \ {p} : copy'[q] = copy[q]
BY DEF TypeOK

\* A process changes no copy but its own.
LEMMA WorkCopies ==
    ASSUME TypeOK, NEW t \in Tasks, Work(t), NEW q \in Processes \ {t}
    PROVE  copy'[q] = copy[q]
<1> USE DEF table, view, Processes
<1>1. CASE StartRead(t) \/ FinalRead(t)
  BY <1>1, CopyEffect DEF StartRead, FinalRead
<1>2. CASE StartSave(t)
  BY <1>2, SaveEffect, CopyEffect DEF StartSave, Forget
<1>3. CASE FinalSave(t)
  BY <1>3, SaveEffect, CopyEffect DEF FinalSave, Forget
<1> QED
  BY <1>1, <1>2, <1>3
     DEF Work, Closing, StartTask, BeginRun, NextIteration, RunReturns, Remove, Release

LEMMA ToolCopies ==
    ASSUME TypeOK, NEW c \in Clients, Tool(c), NEW q \in Processes \ {c}
    PROVE  copy'[q] = copy[q]
<1> USE DEF table, view, Processes
<1>1. CASE CancelRead(c) \/ SyncRead(c)
  BY <1>1, CopyEffect DEF CancelRead, SyncRead
<1>2. CASE CancelSave(c)
  BY <1>2, SaveEffect, CopyEffect DEF CancelSave, Forget
<1>3. CASE Reconcile(c)
  BY <1>3, CopyEffect DEF Reconcile, Forget
<1>4. CASE SyncSave(c)
  BY <1>4, SaveEffect, CopyEffect DEF SyncSave, Forget
<1> QED
  BY <1>1, <1>2, <1>3, <1>4 DEF Tool, CancelTask

\* Every step keeps what the workers are about to write.
LEMMA TaskIntentsKept ==
    ASSUME TypeOK, [Next]_vars, NEW u \in Tasks, TaskIntends(u)
    PROVE  TaskIntends(u)'
<1> USE AsyncAssumption DEF Processes, TaskIntends
<1>1. ASSUME NEW t \in Tasks \ {u}, Work(t) PROVE TaskIntends(u)'
  <2>1. copy'[u] = copy[u]
    BY <1>1, WorkCopies
  <2>2. worker'[u] = worker[u] /\ outcome'[u] = outcome[u]
    BY <1>1 DEF Work, Closing, StartTask, StartRead, StartSave, BeginRun, NextIteration,
                RunReturns, FinalRead, FinalSave, Remove, Release, Goto, TypeOK
  <2> QED
    BY <2>1, <2>2
<1>2. ASSUME NEW c \in Clients, Tool(c) PROVE TaskIntends(u)'
  <2>1. copy'[u] = copy[u]
    BY <1>2, ToolCopies
  <2> QED
    BY <1>2, <2>1 DEF Tool, CancelTask, CancelRead, CancelSave, SyncRead, Reconcile, SyncSave, life
<1>3. CASE StartRead(u)
  <2>1. rows \in [Tasks -> Statuses] /\ EmptyMap \in [Tasks -> Statuses]
    BY EmptyMapType DEF TypeOK
  <2>2. \/ copy' = [copy EXCEPT ![u] = [rows EXCEPT ![u] = "running"]]
        \/ copy' = [copy EXCEPT ![u] = [EmptyMap EXCEPT ![u] = "running"]]
    BY <1>3 DEF StartRead
  <2>3. \/ copy'[u] = [rows EXCEPT ![u] = "running"]
        \/ copy'[u] = [EmptyMap EXCEPT ![u] = "running"]
    BY <2>2, CopyEffect
  <2>4. worker'[u] = "recording" /\ copy'[u][u] = "running"
    BY <1>3, <2>1, <2>3 DEF StartRead, Goto, TypeOK
  <2> QED
    BY <2>4
<1>4. CASE FinalRead(u)
  <2>1. rows \in [Tasks -> Statuses] /\ outcome' = outcome
    BY <1>4 DEF FinalRead, TypeOK
  <2>2. \/ worker'[u] = "closing" /\ copy'[u][u] = outcome[u]
        \/ worker'[u] = "removing"
    BY <1>4, <2>1, CopyEffect DEF FinalRead, Goto, TypeOK
  <2> QED
    BY <2>1, <2>2
<1>5. CASE \/ StartTask(u) \/ StartSave(u) \/ BeginRun(u) \/ RunReturns(u) \/ FinalSave(u)
           \/ Remove(u) \/ Release(u)
  <2>1. worker'[u] \notin {"recording", "closing"}
    BY <1>5 DEF StartTask, StartSave, BeginRun, RunReturns, FinalSave, Remove, Release, Goto, TypeOK
  <2> QED
    BY <2>1
<1>6. CASE Crash
  <2>1. worker'[u] \notin {"recording", "closing"}
    BY <1>6 DEF Crash, Holders, Unborn, Ending
  <2> QED
    BY <2>1
<1>7. ASSUME UNCHANGED <<worker, copy, outcome>> PROVE TaskIntends(u)'
  BY <1>7
<1> QED
  BY <1>1, <1>2, <1>3, <1>4, <1>5, <1>6, <1>7
     DEF Next, Work, Closing, NextIteration, UpdateTask, WithMaxConcurrent, vars, life, table, view

\* Every step keeps what the tool calls are about to write.
LEMMA ClientIntentsKept ==
    ASSUME TypeOK, [Next]_vars, NEW d \in Clients, ClientIntends(d)
    PROVE  ClientIntends(d)'
<1> USE AsyncAssumption DEF Processes
<1>1. ASSUME UNCHANGED <<op, cancelled>>, copy'[d] = copy[d] PROVE ClientIntends(d)'
  BY <1>1 DEF ClientIntends
<1>2. ASSUME NEW t \in Tasks, Work(t) PROVE ClientIntends(d)'
  <2>1. copy'[d] = copy[d]
    BY <1>2, WorkCopies
  <2>2. UNCHANGED <<op, cancelled>>
    BY <1>2 DEF Work, Closing, StartTask, StartRead, StartSave, BeginRun, NextIteration,
                RunReturns, FinalRead, FinalSave, Remove, Release
  <2> QED
    BY <1>1, <2>1, <2>2
<1>3. ASSUME NEW c \in Clients \ {d}, Tool(c) PROVE ClientIntends(d)'
  <2>1. copy'[d] = copy[d]
    BY <1>3, ToolCopies
  <2>2. op'[d] = op[d] /\ cancelled \subseteq cancelled'
    BY <1>3 DEF Tool, CancelTask, CancelRead, CancelSave, SyncRead, Reconcile, SyncSave, TypeOK
  <2> QED
    BY <2>1, <2>2 DEF ClientIntends
<1>4. ASSUME NEW t \in Tasks, CancelTask(d, t) PROVE ClientIntends(d)'
  BY <1>4 DEF CancelTask, ClientIntends, TypeOK
<1>5. CASE CancelRead(d)
  <2>1. \/ op'[d] = Idle
        \/ op'[d].kind = "cancelSave" /\ op'[d].tasks = op[d].tasks
    BY <1>5 DEF CancelRead, TypeOK
  <2>2. op'[d].kind = "cancelSave" => \A t \in op[d].tasks : copy'[d][t] = "cancelled"
    BY <1>5, CopyEffect DEF CancelRead, TypeOK, Idle
  <2> QED
    BY <1>5, <2>1, <2>2 DEF CancelRead, ClientIntends, Idle
<1>6. CASE SyncRead(d)
  BY <1>6 DEF SyncRead, ClientIntends, Idle, TypeOK
<1>7. CASE Reconcile(d)
  <2>1. \/ op'[d] = Idle
        \/ /\ op'[d] = [kind |-> "syncSave", tasks |-> Interrupted(d)]
           /\ \A t \in Interrupted(d) : copy'[d][t] = "interrupted"
    <3>1. CASE Interrupted(d) = {}
      BY <1>7, <3>1 DEF Reconcile, TypeOK
    <3>2. CASE Interrupted(d) # {}
      <4> DEFINE m == [t \in Tasks |-> IF t \in Interrupted(d) THEN "interrupted" ELSE copy[d][t]]
      <4>1. copy' = [copy EXCEPT ![d] = m]
        BY <1>7, <3>2 DEF Reconcile
      <4>2. copy'[d] = m
        BY <4>1, CopyEffect
      <4> QED
        BY <1>7, <3>2, <4>2 DEF Reconcile, Interrupted, TypeOK
    <3> QED
      BY <3>1, <3>2
  <2> QED
    BY <2>1 DEF ClientIntends, Idle
<1>8. CASE CancelSave(d) \/ SyncSave(d)
  <2>1. op'[d] = Idle
    BY <1>8 DEF CancelSave, SyncSave, TypeOK
  <2> QED
    BY <2>1 DEF ClientIntends, Idle
<1>9. CASE Crash
  BY <1>9 DEF Crash, ClientIntends, Idle
<1> QED
  BY <1>1, <1>2, <1>3, <1>4, <1>5, <1>6, <1>7, <1>8, <1>9
     DEF Next, Tool, UpdateTask, WithMaxConcurrent, vars, table, view

\* A process that changes a row makes the copies of the others stale.
LEMMA WorkRows ==
    ASSUME TypeOK, NEW t \in Tasks, Work(t), NEW q \in Processes \ {t}
    PROVE  /\ rows' = rows \/ (q \in Reading => q \in stale')
           /\ q \in stale => q \in stale'
<1> USE DEF table, view, Processes
<1>1. CASE StartRead(t) \/ FinalRead(t)
  BY <1>1 DEF StartRead, FinalRead, Goto, TypeOK
<1>2. CASE StartSave(t)
  BY <1>2, SaveEffect DEF StartSave, Forget, Goto, TypeOK
<1>3. CASE FinalSave(t)
  BY <1>3, SaveEffect DEF FinalSave, Forget, Goto, TypeOK
<1>4. CASE NextIteration(t)
  BY <1>4 DEF NextIteration
<1> QED
  BY <1>1, <1>2, <1>3, <1>4
     DEF Work, Closing, StartTask, BeginRun, RunReturns, Remove, Release, Goto, TypeOK

LEMMA ToolRows ==
    ASSUME TypeOK, NEW c \in Clients, Tool(c), NEW q \in Processes \ {c}
    PROVE  /\ rows' = rows \/ (q \in Reading => q \in stale')
           /\ q \in stale => q \in stale'
<1> USE DEF table, view, life, Processes
<1>1. CASE CancelRead(c) \/ SyncRead(c)
  BY <1>1 DEF CancelRead, SyncRead, TypeOK
<1>2. CASE CancelSave(c)
  BY <1>2, SaveEffect DEF CancelSave, Forget, TypeOK
<1>3. CASE Reconcile(c)
  BY <1>3 DEF Reconcile, Forget, TypeOK
<1>4. CASE SyncSave(c)
  BY <1>4, SaveEffect DEF SyncSave, Forget, TypeOK
<1> QED
  BY <1>1, <1>2, <1>3, <1>4 DEF Tool, CancelTask, TypeOK

\* What the steps of a worker and of a tool call leave alone.
LEMMA WorkFrame ==
    ASSUME TypeOK, NEW t \in Tasks, Work(t)
    PROVE  /\ overrun \subseteq overrun' /\ UNCHANGED <<op, cancelled>>
           /\ \A u \in Tasks \ {t} : worker'[u] = worker[u] /\ outcome'[u] = outcome[u]
<1> USE DEF table, view, Processes
<1>1. CASE StartRead(t) \/ FinalRead(t)
  BY <1>1 DEF StartRead, FinalRead, Goto, TypeOK
<1>2. CASE StartSave(t)
  BY <1>2, SaveEffect DEF StartSave, Goto, TypeOK
<1>3. CASE FinalSave(t)
  BY <1>3, SaveEffect DEF FinalSave, Goto, TypeOK
<1>4. CASE NextIteration(t)
  BY <1>4 DEF NextIteration
<1> QED
  BY <1>1, <1>2, <1>3, <1>4
     DEF Work, Closing, StartTask, BeginRun, RunReturns, Remove, Release, Goto, TypeOK

LEMMA ToolFrame ==
    ASSUME TypeOK, NEW c \in Clients, Tool(c)
    PROVE  /\ overrun \subseteq overrun' /\ cancelled \subseteq cancelled'
           /\ UNCHANGED <<worker, outcome>> /\ \A d \in Clients \ {c} : op'[d] = op[d]
<1> USE DEF table, view, life, Processes
<1>1. CASE CancelSave(c)
  BY <1>1, SaveEffect DEF CancelSave, TypeOK
<1>2. CASE SyncSave(c)
  BY <1>2, SaveEffect DEF SyncSave, TypeOK
<1>3. CASE Reconcile(c)
  BY <1>3 DEF Reconcile, TypeOK
<1> QED
  BY <1>1, <1>2, <1>3 DEF Tool, CancelTask, CancelRead, SyncRead, TypeOK

\* Every step keeps a copy the map, or makes it stale.
LEMMA FreshKept ==
    ASSUME TypeOK, [Next]_vars, NEW p \in Processes, FreshCopy(p),
           p \in Clients => ClientIntends(p)
    PROVE  FreshCopy(p)'
<1> USE AsyncAssumption DEF Processes
<1>1. ASSUME copy'[p] = copy[p], rows' = rows \/ (p \in Reading => p \in stale'),
             p \in stale => p \in stale',
             p \in Tasks => worker'[p] = worker[p], p \in Clients => op'[p] = op[p]
      PROVE  FreshCopy(p)'
  BY <1>1 DEF FreshCopy, Reading, Mine
<1>2. ASSUME NEW t \in Tasks \ {p}, Work(t) PROVE FreshCopy(p)'
  BY <1>1, <1>2, WorkCopies, WorkRows, WorkFrame
<1>3. ASSUME NEW c \in Clients \ {p}, Tool(c) PROVE FreshCopy(p)'
  BY <1>1, <1>3, ToolCopies, ToolRows, ToolFrame
<1>4. ASSUME p \notin Reading' PROVE FreshCopy(p)'
  BY <1>4 DEF FreshCopy
<1>5. ASSUME p \in Tasks, StartRead(p) PROVE FreshCopy(p)'
  <2>1. CASE p \in stale'
    BY <2>1 DEF FreshCopy
  <2>2. CASE p \notin stale'
    <3>1. copy' = [copy EXCEPT ![p] = [rows EXCEPT ![p] = "running"]]
      BY <1>5, <2>2 DEF StartRead
    <3>2. copy'[p] = [rows EXCEPT ![p] = "running"] /\ rows' = rows
      BY <1>5, <3>1, CopyEffect DEF StartRead
    <3> QED
      BY <1>5, <3>2 DEF FreshCopy, Mine, TypeOK
  <2> QED
    BY <2>1, <2>2
<1>6. ASSUME p \in Tasks, FinalRead(p) PROVE FreshCopy(p)'
  <2>1. CASE worker'[p] = "removing"
    BY <1>4, <1>6, <2>1 DEF Reading
  <2>2. CASE worker'[p] # "removing"
    <3>1. copy' = [copy EXCEPT ![p] = [rows EXCEPT ![p] = outcome[p]]]
      BY <1>6, <2>2 DEF FinalRead, Goto, TypeOK
    <3>2. copy'[p] = [rows EXCEPT ![p] = outcome[p]] /\ rows' = rows
      BY <1>6, <3>1, CopyEffect DEF FinalRead
    <3> QED
      BY <1>6, <3>2 DEF FreshCopy, Mine, TypeOK
  <2> QED
    BY <2>1, <2>2
<1>7. ASSUME p \in Tasks,
             \/ StartTask(p) \/ StartSave(p) \/ BeginRun(p) \/ RunReturns(p) \/ FinalSave(p)
             \/ Remove(p) \/ Release(p)
      PROVE  FreshCopy(p)'
  <2>1. worker'[p] \notin {"recording", "closing"}
    BY <1>7 DEF StartTask, StartSave, BeginRun, RunReturns, FinalSave, Remove, Release, Goto, TypeOK
  <2> QED
    BY <1>4, <1>7, <2>1 DEF Reading
<1>8. ASSUME p \in Clients, CancelRead(p) PROVE FreshCopy(p)'
  <2>1. CASE op'[p] = Idle
    BY <1>4, <1>8, <2>1 DEF Reading, Idle
  <2>2. CASE op'[p] # Idle
    <3> DEFINE m == [t \in Tasks |-> IF t \in op[p].tasks THEN "cancelled" ELSE rows[t]]
    <3>1. copy' = [copy EXCEPT ![p] = m] /\ rows' = rows
      BY <1>8, <2>2 DEF CancelRead, TypeOK
    <3>2. copy'[p] = m /\ op'[p].tasks = op[p].tasks /\ op'[p].kind = "cancelSave"
      BY <1>8, <2>2, <3>1, CopyEffect DEF CancelRead, TypeOK
    <3> QED
      BY <1>8, <3>1, <3>2 DEF FreshCopy, Mine
  <2> QED
    BY <2>1, <2>2
<1>9. ASSUME p \in Clients, SyncRead(p) PROVE FreshCopy(p)'
  <2>1. copy'[p] = rows /\ rows' = rows
    BY <1>9, CopyEffect DEF SyncRead
  <2>2. op'[p].kind = "reconcile"
    BY <1>9 DEF SyncRead, TypeOK
  <2> QED
    BY <1>9, <2>1, <2>2 DEF FreshCopy
<1>10. ASSUME p \in Clients, Reconcile(p) PROVE FreshCopy(p)'
  <2>1. CASE Interrupted(p) = {}
    <3>1. op'[p] = Idle
      BY <1>10, <2>1 DEF Reconcile, TypeOK
    <3> QED
      BY <1>4, <1>10, <3>1 DEF Reading, Idle
  <2>2. CASE Interrupted(p) # {}
    <3> DEFINE m == [t \in Tasks |-> IF t \in Interrupted(p) THEN "interrupted" ELSE copy[p][t]]
    <3>1. copy' = [copy EXCEPT ![p] = m] /\ rows' = rows /\ stale' = stale
      BY <1>10, <2>2 DEF Reconcile
    <3>2. copy'[p] = m /\ op'[p] = [kind |-> "syncSave", tasks |-> Interrupted(p)]
      BY <1>10, <2>2, <3>1, CopyEffect DEF Reconcile, TypeOK
    <3>3. p \in Reading /\ Mine(p) = {}
      BY <1>10 DEF Reconcile, Reading, Mine, ClientIntends
    <3>4. p \notin stale => \A t \in Tasks : copy[p][t] = rows[t]
      BY <3>3 DEF FreshCopy
    <3> QED
      BY <1>10, <3>1, <3>2, <3>4 DEF FreshCopy, Mine, Interrupted
  <2> QED
    BY <2>1, <2>2
<1>11. ASSUME p \in Clients, CancelSave(p) \/ SyncSave(p) PROVE FreshCopy(p)'
  <2>1. op'[p] = Idle
    BY <1>11 DEF CancelSave, SyncSave, TypeOK
  <2> QED
    BY <1>4, <1>11, <2>1 DEF Reading, Idle
<1>12. ASSUME p \in Clients, NEW t \in Tasks, CancelTask(p, t) PROVE FreshCopy(p)'
  <2>1. op'[p].kind = "cancelRead"
    BY <1>12 DEF CancelTask, TypeOK
  <2> QED
    BY <1>4, <1>12, <2>1 DEF Reading
<1>13. CASE Crash
  <2>1. p \notin Reading'
    BY <1>13 DEF Crash, Reading, Idle, Holders, Unborn, Ending
  <2> QED
    BY <1>4, <2>1
<1>14. ASSUME UNCHANGED <<worker, op, copy, stale, rows>> PROVE FreshCopy(p)'
  BY <1>1, <1>14
<1> QED
  BY <1>2, <1>3, <1>5, <1>6, <1>7, <1>8, <1>9, <1>10, <1>11, <1>12, <1>13, <1>14
     DEF Next, Work, Closing, Tool, NextIteration, UpdateTask, WithMaxConcurrent, vars, life,
         table, view

\* A worker goes forward, and nothing that was damaged is mended.
LEMMA Forward ==
    ASSUME TypeOK, [Next]_vars, NEW u \in Tasks
    PROVE  /\ overrun \subseteq overrun' /\ cancelled \subseteq cancelled'
           /\ worker'[u] \in Unborn => worker[u] \in Unborn
           /\ worker[u] \in {"releasing", "done", "crashed"}
                => worker'[u] \in {"releasing", "done", "crashed"}
<1>1. ASSUME NEW t \in Tasks \ {u}, Work(t) PROVE worker'[u] = worker[u]
  BY <1>1, WorkFrame
<1>2. ASSUME Work(u)
      PROVE  /\ worker'[u] \in Unborn => worker[u] \in Unborn
             /\ worker[u] \in {"releasing", "done", "crashed"}
                  => worker'[u] \in {"releasing", "done", "crashed"}
  BY <1>2 DEF Work, Closing, StartTask, StartRead, StartSave, BeginRun, NextIteration,
              RunReturns, FinalRead, FinalSave, Remove, Release, Goto, TypeOK, Unborn
<1>3. CASE Crash
  BY <1>3 DEF Crash, Holders, Unborn, Running, Ending
<1>4. CASE \E t \in Tasks : Work(t)
  BY <1>1, <1>2, <1>4, WorkFrame
<1>5. CASE \E c \in Clients : Tool(c)
  BY <1>5, ToolFrame
<1>6. CASE UNCHANGED <<worker, overrun, cancelled>>
  BY <1>6
<1> QED
  BY <1>3, <1>4, <1>5, <1>6
     DEF Next, UpdateTask, WithMaxConcurrent, vars, life, table

\* Every step leaves the tasks that are not recorded yet out of the copies.
LEMMA UnbornKept ==
    ASSUME TypeOK, ActiveInv, [Next]_vars, NEW u \in Tasks, UnheardOf(u), TellsTheTruth(u),
           \A c \in Clients : ClientIntends(c)
    PROVE  UnheardOf(u)'
<1> SUFFICES ASSUME u \notin overrun', worker'[u] \in Unborn, NEW p \in Processes \ {u}
             PROVE  copy'[p][u] = "none"
  BY DEF UnheardOf, Processes
<1>1. u \notin overrun /\ worker[u] \in Unborn
  BY Forward
<1>2. copy[p][u] = "none" /\ rows[u] = "none" /\ u \notin cancelled /\ EmptyMap[u] = "none"
  BY <1>1 DEF UnheardOf, TellsTheTruth, ActiveInv, EmptyMap
<1> USE DEF Processes
<1>3. ASSUME NEW t \in Tasks \ {p}, Work(t) PROVE copy'[p][u] = "none"
  BY <1>2, <1>3, WorkCopies
<1>13. ASSUME NEW c \in Clients \ {p}, Tool(c) PROVE copy'[p][u] = "none"
  BY <1>2, <1>13, ToolCopies
<1>4. ASSUME p \in Tasks, StartRead(p) PROVE copy'[p][u] = "none"
  <2>1. \/ copy' = [copy EXCEPT ![p] = [rows EXCEPT ![p] = "running"]]
        \/ copy' = [copy EXCEPT ![p] = [EmptyMap EXCEPT ![p] = "running"]]
    BY <1>4 DEF StartRead
  <2>2. \/ copy'[p] = [rows EXCEPT ![p] = "running"]
        \/ copy'[p] = [EmptyMap EXCEPT ![p] = "running"]
    BY <2>1, CopyEffect
  <2> QED
    BY <1>2, <2>2, EmptyMapType DEF TypeOK
<1>5. ASSUME p \in Tasks, FinalRead(p) PROVE copy'[p][u] = "none"
  <2>1. CASE copy' = copy
    BY <1>2, <2>1
  <2>2. CASE copy' = [copy EXCEPT ![p] = [rows EXCEPT ![p] = outcome[p]]]
    <3>1. copy'[p] = [rows EXCEPT ![p] = outcome[p]]
      BY <2>2, CopyEffect
    <3> QED
      BY <1>2, <3>1 DEF TypeOK
  <2> QED
    BY <1>5, <2>1, <2>2 DEF FinalRead
<1>6. ASSUME p \in Tasks, StartSave(p) \/ FinalSave(p) PROVE copy'[p][u] = "none"
  BY <1>2, <1>6, SaveEffect, CopyEffect DEF StartSave, FinalSave, Forget
<1>7. ASSUME p \in Clients, CancelRead(p) PROVE copy'[p][u] = "none"
  <2>1. CASE copy' = copy
    BY <1>2, <2>1
  <2>2. CASE copy' # copy
    <3> DEFINE m == [t \in Tasks |-> IF t \in op[p].tasks THEN "cancelled" ELSE rows[t]]
    <3>1. copy' = [copy EXCEPT ![p] = m]
      BY <1>7, <2>2 DEF CancelRead
    <3>2. copy'[p] = m
      BY <3>1, CopyEffect
    <3>3. u \notin op[p].tasks
      BY <1>2, <1>7 DEF CancelRead, ClientIntends
    <3> QED
      BY <1>2, <3>2, <3>3
  <2> QED
    BY <2>1, <2>2
<1>8. ASSUME p \in Clients, SyncRead(p) PROVE copy'[p][u] = "none"
  BY <1>2, <1>8, CopyEffect DEF SyncRead
<1>9. ASSUME p \in Clients, Reconcile(p) PROVE copy'[p][u] = "none"
  <2>1. CASE Interrupted(p) = {}
    BY <1>2, <1>9, <2>1, CopyEffect DEF Reconcile, Forget
  <2>2. CASE Interrupted(p) # {}
    <3> DEFINE m == [t \in Tasks |-> IF t \in Interrupted(p) THEN "interrupted" ELSE copy[p][t]]
    <3>1. copy' = [copy EXCEPT ![p] = m]
      BY <1>9, <2>2 DEF Reconcile
    <3>2. copy'[p] = m
      BY <3>1, CopyEffect
    <3> QED
      BY <1>2, <3>2 DEF Interrupted
  <2> QED
    BY <2>1, <2>2
<1>10. ASSUME p \in Clients, CancelSave(p) \/ SyncSave(p) PROVE copy'[p][u] = "none"
  BY <1>2, <1>10, SaveEffect, CopyEffect DEF CancelSave, SyncSave, Forget
<1>11. CASE Crash
  BY <1>11 DEF Crash, EmptyMap
<1>12. CASE UNCHANGED copy
  BY <1>2, <1>12
<1> QED
  BY <1>3, <1>4, <1>5, <1>6, <1>7, <1>8, <1>9, <1>10, <1>11, <1>12, <1>13
     DEF Next, Work, Closing, Tool, StartTask, BeginRun, RunReturns, Remove, Release,
         NextIteration, UpdateTask, CancelTask, WithMaxConcurrent, vars, table, view

\* Every step keeps SyncTasks from giving up a worker that may still run.
LEMMA InterruptsKept ==
    ASSUME TypeOK, ActiveInv, [Next]_vars, NEW c \in Clients, InterruptsFairly(c),
           UnbornAreUnknown
    PROVE  InterruptsFairly(c)'
<1>1. ASSUME op'[c] = op[c] PROVE InterruptsFairly(c)'
  <2> SUFFICES ASSUME op[c].kind = "syncSave", NEW t \in op[c].tasks, t \notin overrun'
               PROVE  t \in cancelled' \/ worker'[t] \in {"releasing", "done", "crashed"}
    BY <1>1 DEF InterruptsFairly
  <2>1. t \in Tasks
    BY DEF TypeOK
  <2>2. t \notin overrun
    BY <2>1, Forward
  <2>3. t \in cancelled \/ worker[t] \in {"releasing", "done", "crashed"}
    BY <2>2 DEF InterruptsFairly
  <2> QED
    BY <2>1, <2>3, Forward
<1>2. ASSUME op'[c].kind # "syncSave" PROVE InterruptsFairly(c)'
  BY <1>2 DEF InterruptsFairly
<1>3. ASSUME NEW t \in Tasks, Work(t) PROVE InterruptsFairly(c)'
  BY <1>1, <1>3, WorkFrame
<1>4. ASSUME NEW d \in Clients \ {c}, Tool(d) PROVE InterruptsFairly(c)'
  BY <1>1, <1>4, ToolFrame
<1>5. CASE Reconcile(c)
  <2>1. CASE Interrupted(c) = {}
    BY <1>2, <1>5, <2>1 DEF Reconcile, TypeOK, Idle
  <2>2. CASE Interrupted(c) # {}
    <3>1. op'[c].tasks = Interrupted(c) /\ UNCHANGED <<overrun, cancelled, worker>>
      BY <1>5, <2>2 DEF Reconcile, TypeOK, life
    <3>2. ASSUME NEW t \in Interrupted(c), t \notin overrun
          PROVE  t \in cancelled \/ worker[t] \in {"releasing", "done", "crashed"}
      <4>1. t \in Tasks /\ t \notin active /\ copy[c][t] = "running"
        BY <3>2 DEF Interrupted
      <4>2. c # t /\ c \in Processes
        BY <4>1, AsyncAssumption DEF Processes
      <4>3. worker[t] \notin Unborn
        BY <3>2, <4>1, <4>2 DEF UnbornAreUnknown, UnheardOf
      <4> QED
        BY <4>1, <4>3 DEF ActiveInv, TypeOK, Unborn, Running, Ending
    <3> QED
      BY <3>1, <3>2 DEF InterruptsFairly
  <2> QED
    BY <2>1, <2>2
<1>6. ASSUME NEW t \in Tasks, CancelTask(c, t) PROVE InterruptsFairly(c)'
  BY <1>2, <1>6 DEF CancelTask, TypeOK
<1>7. CASE CancelRead(c) \/ SyncRead(c)
  BY <1>2, <1>7 DEF CancelRead, SyncRead, TypeOK, Idle
<1>8. CASE CancelSave(c) \/ SyncSave(c)
  BY <1>2, <1>8 DEF CancelSave, SyncSave, TypeOK, Idle
<1>9. CASE Crash
  BY <1>2, <1>9 DEF Crash, Idle
<1> QED
  BY <1>1, <1>3, <1>4, <1>5, <1>6, <1>7, <1>8, <1>9
     DEF Next, Tool, UpdateTask, WithMaxConcurrent, vars

\* A save leaves the rows as they are but for those it means to change, or
\* it overran them.
LEMMA SaveKeepsRows ==
    ASSUME TypeOK, NEW p \in Processes, NEW mine, Save(p, mine), FreshCopy(p), p \in Reading,
           NEW u \in Tasks, u \notin overrun', u \notin mine,
           \/ mine = Mine(p)
           \/ /\ p \in Clients /\ op[p].kind = "syncSave"
              /\ mine = {t \in op[p].tasks : rows[t] = "running"}
    PROVE  rows'[u] = rows[u]
<1>1. CASE p \in stale
  BY <1>1, SaveEffect
<1>2. CASE p \notin stale
  <2>1. u \notin Mine(p)
    BY <1>2, AsyncAssumption DEF FreshCopy, Mine
  <2>2. copy[p][u] = rows[u]
    BY <1>2, <2>1 DEF FreshCopy
  <2> QED
    BY <2>2, SaveEffect
<1> QED
  BY <1>1, <1>2

\* Every step keeps the rows truthful.
LEMMA RowsKept ==
    ASSUME TypeOK, ActiveInv, RowsInv, [Next]_vars, NEW u \in Tasks
    PROVE  TellsTheTruth(u)'
<1> SUFFICES ASSUME u \notin overrun' PROVE TellsTheTruth(u)'
  BY DEF TellsTheTruth
<1> USE AsyncAssumption DEF Processes
<1>0. u \notin overrun /\ TellsTheTruth(u)
  BY Forward DEF RowsInv
<1>1. ASSUME rows'[u] = rows[u], worker'[u] = worker[u], outcome'[u] = outcome[u]
      PROVE  TellsTheTruth(u)'
  BY <1>0, <1>1, Forward DEF TellsTheTruth
<1>2. ASSUME NEW t \in Tasks \ {u}, Work(t) PROVE TellsTheTruth(u)'
  <2>1. rows'[u] = rows[u]
    <3>1. CASE rows' = rows
      BY <3>1
    <3>2. CASE rows' # rows
      <4>1. Save(t, {t}) /\ t \in Reading
        BY <1>2, <3>2 DEF Work, Closing, StartTask, StartRead, StartSave, BeginRun, NextIteration,
             RunReturns, FinalRead, FinalSave, Remove, Release, table, Goto, Reading
      <4> QED
        BY <4>1, SaveKeepsRows DEF RowsInv, CopiesAreFresh, Mine
    <3> QED
      BY <3>1, <3>2
  <2> QED
    BY <1>1, <1>2, <2>1, WorkFrame
<1>3. CASE StartTask(u) \/ StartRead(u)
  BY <1>0, <1>3 DEF StartTask, StartRead, Goto, TellsTheTruth, Unborn, Running, TypeOK, table
<1>4. CASE StartSave(u)
  <2>1. Save(u, {u})
    BY <1>4 DEF StartSave
  <2>2. rows'[u] = "running" /\ worker'[u] = "launched"
    BY <1>4, <2>1, SaveEffect
       DEF StartSave, Goto, RowsInv, IntentsInv, TaskIntends, TypeOK
  <2> QED
    BY <2>2 DEF TellsTheTruth, Unborn, Running
<1>5. CASE BeginRun(u) \/ NextIteration(u) \/ RunReturns(u)
  BY <1>0, <1>5
     DEF BeginRun, NextIteration, RunReturns, Goto, TellsTheTruth, Unborn, Running, TypeOK, table
<1>6. CASE FinalRead(u)
  <2>1. rows[u] # "none" /\ worker[u] = "ending"
    BY <1>0, <1>6 DEF FinalRead, TellsTheTruth, Goto
  <2>2. worker'[u] = "closing" /\ rows' = rows /\ cancelled' = cancelled
    BY <1>6, <2>1 DEF FinalRead, Goto, TypeOK
  <2> QED
    BY <1>0, <2>1, <2>2 DEF TellsTheTruth, Unborn, Running
<1>7. CASE FinalSave(u)
  <2>1. Save(u, {u})
    BY <1>7 DEF FinalSave
  <2>2. rows'[u] = outcome'[u] /\ worker'[u] = "removing"
    BY <1>7, <2>1, SaveEffect
       DEF FinalSave, Goto, RowsInv, IntentsInv, TaskIntends, TypeOK
  <2> QED
    BY <2>2 DEF TellsTheTruth, Unborn, Running
<1>8. CASE Remove(u) \/ Release(u)
  BY <1>0, <1>8 DEF Remove, Release, Goto, TellsTheTruth, Unborn, Running, TypeOK, table
<1>9. ASSUME NEW c \in Clients, CancelSave(c) PROVE TellsTheTruth(u)'
  <2>1. UNCHANGED <<worker, outcome>>
    BY <1>9 DEF CancelSave, life
  <2>2. CASE rows' = rows
    BY <1>1, <2>1, <2>2
  <2>3. CASE rows' # rows
    <3>1. Save(c, op[c].tasks) /\ c \in Reading /\ Mine(c) = op[c].tasks
      BY <1>9, <2>3 DEF CancelSave, Reading, Mine
    <3>2. CASE u \in op[c].tasks
      <4>1. rows'[u] = "cancelled" /\ u \in cancelled'
        BY <1>9, <3>1, <3>2, SaveEffect DEF CancelSave, RowsInv, IntentsInv, ClientIntends
      <4> QED
        BY <1>0, <1>9, <2>1, <4>1 DEF TellsTheTruth, ActiveInv, CancelSave
    <3>3. CASE u \notin op[c].tasks
      <4>1. rows'[u] = rows[u]
        BY <3>1, <3>3, SaveKeepsRows DEF RowsInv, CopiesAreFresh
      <4> QED
        BY <1>1, <2>1, <4>1
    <3> QED
      BY <3>2, <3>3
  <2> QED
    BY <2>2, <2>3
<1>10. ASSUME NEW c \in Clients, SyncSave(c) PROVE TellsTheTruth(u)'
  <2>1. UNCHANGED <<worker, outcome, cancelled>>
    BY <1>10 DEF SyncSave, life
  <2>2. CASE rows' = rows
    BY <1>1, <2>1, <2>2
  <2>3. CASE rows' # rows
    <3> DEFINE mine == {t \in op[c].tasks : rows[t] = "running"}
    <3>1. Save(c, mine) /\ c \in Reading /\ op[c].kind = "syncSave"
      BY <1>10, <2>3 DEF SyncSave, Reading
    <3>2. CASE u \in mine
      <4>1. rows'[u] = "interrupted" /\ rows[u] = "running"
        BY <3>1, <3>2, SaveEffect DEF RowsInv, IntentsInv, ClientIntends
      <4>2. u \in cancelled \/ worker[u] \in {"releasing", "done", "crashed"}
        BY <1>0, <3>1, <3>2 DEF RowsInv, InterruptedAreOver, InterruptsFairly
      <4>3. outcome[u] # "running"
        BY DEF TypeOK, Outcomes
      <4>4. worker[u] \in Running \union {"ending", "closing"} => u \in cancelled
        BY <4>2 DEF Running
      <4>5. worker[u] \notin Unborn \union {"removing", "releasing", "done"}
        BY <1>0, <4>1, <4>3 DEF TellsTheTruth
      <4> QED
        BY <2>1, <4>1, <4>4, <4>5 DEF TellsTheTruth
    <3>3. CASE u \notin mine
      <4>1. rows'[u] = rows[u]
        <5> HIDE DEF mine
        <5>1. c \in Processes /\ FreshCopy(c)
          BY DEF RowsInv, CopiesAreFresh
        <5> QED
          BY <3>1, <3>3, <5>1, SaveKeepsRows DEF mine
      <4> QED
        BY <1>1, <2>1, <4>1
    <3> QED
      BY <3>2, <3>3
  <2> QED
    BY <2>2, <2>3
<1>11. CASE Crash
  <2>1. (worker'[u] \in {"idle", "done"} /\ worker'[u] = worker[u]) \/ worker'[u] = "crashed"
    BY <1>11 DEF Crash, Holders, TypeOK, Unborn, Running, Ending
  <2>2. UNCHANGED <<rows, outcome, cancelled>>
    BY <1>11 DEF Crash
  <2> QED
    BY <1>0, <2>1, <2>2 DEF TellsTheTruth, Unborn, Running
<1>12. CASE UNCHANGED <<rows, worker, outcome>>
  BY <1>1, <1>12
<1> QED
  BY <1>2, <1>3, <1>4, <1>5, <1>6, <1>7, <1>8, <1>9, <1>10, <1>11, <1>12
     DEF Next, Work, Closing, Tool, CancelTask, CancelRead, SyncRead, Reconcile, UpdateTask,
         WithMaxConcurrent, vars, life, table

-----------------------------------------------------------------------------
LEMMA AsyncInitInv == Init => IInv
<1> SUFFICES ASSUME Init PROVE IInv
  OBVIOUS
<1> USE AsyncAssumption
<1>1. Holders = {}
  BY DEF Init, Holders, Unborn, Running, Ending
<1>2. HoldersAreFinite /\ SlotsAreHeld
  BY <1>1, FS_EmptySet DEF Init, HoldersAreFinite, SlotsAreHeld
<1>3. TypeOK
  <2>1. op \in OpTypes
    BY DEF Init, OpTypes, Idle
  <2>2. copy \in [Processes -> [Tasks -> Statuses]] /\ rows \in [Tasks -> Statuses]
    BY EmptyMapType DEF Init
  <2> QED
    <3>1. /\ cap \in Caps /\ tokens \in Nat /\ tokens <= cap /\ events \in 0 .. MaxEvents
          /\ iter \in [Tasks -> 0 .. MaxIters] /\ pending \in [Tasks -> 0 .. Buffer]
      BY DEF Init
    <3> QED
      BY <2>1, <2>2, <3>1 DEF Init, TypeOK, OpTypes, Unborn, Outcomes
<1>4. ActiveInv
  BY DEF Init, ActiveInv, Unborn, Running
<1>5. RowsInv
  BY DEF Init, RowsInv, IntentsInv, TaskIntends, ClientIntends, CopiesAreFresh, FreshCopy,
         Reading, UnbornAreUnknown, UnheardOf, InterruptedAreOver, InterruptsFairly,
         TellsTheTruth, Unborn, Running, EmptyMap, Idle, Processes
<1> QED
  BY <1>2, <1>3, <1>4, <1>5 DEF IInv, WorkersInv

\* A step keeps the invariant, conjunct by conjunct.
LEMMA AsyncNextInv == IInv /\ [Next]_vars => IInv'
<1> SUFFICES ASSUME IInv, [Next]_vars PROVE IInv'
  OBVIOUS
<1>1. WorkersInv'
  BY TypesKept, ActiveKept, SlotsKept DEF IInv, WorkersInv
<1>2. IntentsInv'
  BY TaskIntentsKept, ClientIntentsKept DEF IInv, WorkersInv, RowsInv, IntentsInv
<1>3. CopiesAreFresh'
  BY FreshKept DEF IInv, WorkersInv, RowsInv, IntentsInv, CopiesAreFresh, Processes
<1>4. UnbornAreUnknown'
  BY UnbornKept DEF IInv, WorkersInv, RowsInv, IntentsInv, UnbornAreUnknown
<1>5. InterruptedAreOver'
  BY InterruptsKept DEF IInv, WorkersInv, RowsInv, InterruptedAreOver
<1>6. \A t \in Tasks : TellsTheTruth(t)'
  BY RowsKept DEF IInv, WorkersInv
<1> QED
  BY <1>1, <1>2, <1>3, <1>4, <1>5, <1>6 DEF IInv, RowsInv

\* The manager's account of its workers and what the copies under way hold.
THEOREM AsyncInvariant == Spec => []IInv
<1> QED
  BY AsyncInitInv, AsyncNextInv, PTL DEF Spec

\* Whatever fails and in whichever order the calls come, sem holds one
\* element for each worker under way and no more than its capacity, what is
\* in ActiveTasks is alive, and what was not cancelled is in it.
THEOREM WorkersStayAccounted == Spec => []WorkersAreAccounted
<1>1. IInv => WorkersAreAccounted
  BY DEF IInv, WorkersInv, ActiveInv, WorkersAreAccounted, ActiveAreLive, TypeOK, Running
<1> QED
  BY <1>1, AsyncInvariant, PTL

\* The row of a task tells what its worker did, although every writer of the
\* map saves all of it, unless a stale save overran that row.
THEOREM RowsAlwaysTellTheTruth == Spec => []RowsTellTheTruth
<1>1. IInv => RowsTellTheTruth
  BY DEF IInv, RowsInv, TellsTheTruth, RowsTellTheTruth, Unborn
<1> QED
  BY <1>1, AsyncInvariant, PTL
=============================================================================
