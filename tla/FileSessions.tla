----------------------------- MODULE FileSessions -----------------------------
(***************************************************************************)
(* FileSessionManager (history/session_manager.go): one JSON file per      *)
(* session behind an in-memory cache.  Every critical section of sm.mu and *)
(* every access to a file is a step of its own, so that calls interleave   *)
(* and the process can stop between any two of them.                       *)
(*                                                                         *)
(* A log of messages, a task map and a title are stood for by the number   *)
(* of the call that wrote them.  A storage path is configured.  The        *)
(* behaviour summary, the times and the legacy file format are left out.   *)
(***************************************************************************)
EXTENDS Naturals, FiniteSets

CONSTANTS
    Keys,
    Clients,      \* the calls that can be under way at once
    MaxWrites,    \* bound on the calls that write
    MaxEvents     \* bound on failed file operations and restarts

ASSUME FilesAssumption == {MaxWrites, MaxEvents} \subseteq Nat /\ Keys # {}

VARIABLES
    mem,       \* the cache: sm.sessions, sm.titles, sm.deletedAt
    disk,      \* the files
    op,        \* the call each client has under way
    writes,    \* the number of writing calls so far
    events,
    unsynced,  \* keys whose last persist or removal failed
    acked,     \* the task map last saved with success
    hidden     \* keys a successful SoftDelete tombstoned, and nothing restored

vars == <<mem, disk, op, writes, events, unsynced, acked, hidden>>
ghosts == <<unsynced, acked, hidden>>

Versions == 0 .. MaxWrites
NoFile == [msgs |-> 0, title |-> 0, deleted |-> FALSE, exists |-> FALSE]
Files == [msgs : Versions, title : Versions, deleted : BOOLEAN, exists : {TRUE}]
Blank == [cached |-> FALSE, msgs |-> 0, tasks |-> 0, title |-> 0, deleted |-> FALSE]

\* A call: what it is, the step it is at, its session, the file it has read or
\* is about to write, and the keys PurgeDeletedBefore has still to delete.
Idle == [kind |-> "none", at |-> "idle", key |-> CHOOSE k \in Keys : TRUE,
         file |-> NoFile, todo |-> {}]

Loading == {"History", "AsyncTasks", "SetTitle", "ClearTitle", "SoftDelete", "Restore",
            "Fork"}

Init ==
    /\ mem = [k \in Keys |-> Blank] /\ disk = [k \in Keys |-> NoFile]
    /\ op = [c \in Clients |-> Idle]
    /\ writes = 0 /\ events = 0
    /\ unsynced = {} /\ acked = [k \in Keys |-> 0] /\ hidden = {}

Event == events < MaxEvents /\ events' = events + 1
Write == writes < MaxWrites /\ writes' = writes + 1
Goto(c, step) == op' = [op EXCEPT ![c].at = step]
Return(c) == op' = [op EXCEPT ![c] = Idle]

-----------------------------------------------------------------------------
(* Query *)

Unhidden(deleted, all) == all \/ ~deleted
\* Only the cached sessions that are listed are skipped on disk.
Seen(all) == {k \in Keys : mem[k].cached /\ Unhidden(mem[k].deleted, all)}
Query(all) ==
    Seen(all) \union {k \in Keys \ Seen(all) :
                        disk[k].exists /\ Unhidden(disk[k].deleted, all)}

-----------------------------------------------------------------------------
(* History, and the lazy load of the calls that begin with it              *)

Load(c, kind, k) ==
    /\ op[c] = Idle
    /\ op' = [op EXCEPT ![c] = [Idle EXCEPT !.kind = kind, !.key = k,
                                            !.at = IF mem[k].cached THEN "act" ELSE "read"]]
    /\ UNCHANGED <<mem, disk, writes, events, ghosts>>

\* A missing or unreadable file leaves the session uncached.
ReadFile(c) ==
    /\ op[c].at = "read"
    /\ op' = [op EXCEPT ![c].file = disk[op[c].key],
                        ![c].at = IF disk[op[c].key].exists THEN "install" ELSE "act"]
    /\ UNCHANGED <<mem, disk, writes, events, ghosts>>

\* Mutant of Installed: the tombstone is not loaded.
InstalledAlive(m, f) ==
    [cached |-> TRUE, msgs |-> f.msgs, tasks |-> 0,
     title |-> IF f.title # 0 THEN f.title ELSE m.title, deleted |-> m.deleted]

\* The file has no tasks; a title or tombstone of the cache survives one the
\* file does not have.
Installed(m, f) ==
    [cached |-> TRUE, msgs |-> f.msgs, tasks |-> 0,
     title |-> IF f.title # 0 THEN f.title ELSE m.title,
     deleted |-> f.deleted \/ m.deleted]

Install(c) ==
    /\ op[c].at = "install"
    /\ mem' = [mem EXCEPT ![op[c].key] = Installed(@, op[c].file)]
    /\ op' = [op EXCEPT ![c].at = "act", ![c].file = NoFile]
    /\ UNCHANGED <<disk, writes, events, ghosts>>

\* History and AsyncTasks only wanted the session.
Loaded(c) ==
    /\ op[c].at = "act" /\ op[c].kind \in {"History", "AsyncTasks"}
    /\ Return(c)
    /\ UNCHANGED <<mem, disk, writes, events, ghosts>>

-----------------------------------------------------------------------------
(* The changes of the cache, each followed by persist                      *)

\* The callers in pkg/agent read a session before they save it.
LoadedFirst(k) == mem[k].cached \/ ~disk[k].exists

Begin(c, kind, k) ==
    /\ op[c] = Idle /\ LoadedFirst(k)
    /\ op' = [op EXCEPT ![c] = [Idle EXCEPT !.kind = kind, !.key = k, !.at = "snapshot"]]

SaveHistory(c, k) ==
    /\ Begin(c, "SaveHistory", k) /\ Write
    /\ mem' = [mem EXCEPT ![k].cached = TRUE, ![k].msgs = writes + 1]
    /\ UNCHANGED <<disk, events, ghosts>>

SaveAsyncTasks(c, k) ==
    /\ Begin(c, "SaveAsyncTasks", k) /\ Write
    /\ mem' = [mem EXCEPT ![k].cached = TRUE, ![k].tasks = writes + 1]
    /\ UNCHANGED <<disk, events, ghosts>>

\* Without a session the title waits in memory for the first SaveHistory.
SetTitle(c) ==
    LET k == op[c].key IN
    /\ op[c].at = "act" /\ op[c].kind \in {"SetTitle", "ClearTitle"}
    /\ Write
    /\ mem' = [mem EXCEPT ![k].title = IF op[c].kind = "SetTitle" THEN writes + 1 ELSE 0]
    /\ IF mem[k].cached THEN Goto(c, "snapshot") ELSE Return(c)
    /\ UNCHANGED <<disk, events, ghosts>>

\* No session, or one that has a tombstone already: nothing is written, even
\* if the call that set it failed to persist it (that success hides nothing).
SoftDelete(c) ==
    LET k == op[c].key IN
    /\ op[c].at = "act" /\ op[c].kind = "SoftDelete"
    /\ IF mem[k].cached /\ ~mem[k].deleted
       THEN /\ mem' = [mem EXCEPT ![k].deleted = TRUE]
            /\ Goto(c, "snapshot") /\ UNCHANGED hidden
       ELSE /\ hidden' = IF mem[k].cached /\ k \notin unsynced THEN hidden \union {k} ELSE hidden
            /\ Return(c) /\ UNCHANGED mem
    /\ UNCHANGED <<disk, writes, events, unsynced, acked>>

Restore(c) ==
    LET k == op[c].key IN
    /\ op[c].at = "act" /\ op[c].kind = "Restore"
    /\ IF mem[k].cached
       THEN /\ mem' = [mem EXCEPT ![k].deleted = FALSE]
            /\ Goto(c, "snapshot")
       ELSE Return(c) /\ UNCHANGED mem
    /\ hidden' = hidden \ {k}
    /\ UNCHANGED <<disk, writes, events, unsynced, acked>>

\* The copy gets a new key, which nothing has used; the number of its source
\* stands for a prefix of the source's log.
Fork(c) ==
    LET k == op[c].key IN
    /\ op[c].at = "act" /\ op[c].kind = "Fork"
    /\ \/ ~mem[k].cached /\ Return(c) /\ UNCHANGED mem
       \/ /\ mem[k].cached
          /\ \E new \in Keys :
                /\ mem[new] = Blank /\ ~disk[new].exists
                /\ \A d \in Clients \ {c} : op[d] = Idle \/ op[d].key # new
                /\ mem' = [mem EXCEPT ![new].cached = TRUE, ![new].msgs = mem[k].msgs]
                /\ op' = [op EXCEPT ![c].key = new, ![c].at = "snapshot"]
    /\ UNCHANGED <<disk, writes, events, ghosts>>

-----------------------------------------------------------------------------
(* persist *)

\* First lock: the messages, and not the tasks.  A session deleted meanwhile
\* is not written.
Snapshot(c) ==
    LET k == op[c].key IN
    /\ op[c].at = "snapshot"
    /\ IF mem[k].cached
       THEN op' = [op EXCEPT ![c].at = "meta",
                             ![c].file = [NoFile EXCEPT !.msgs = mem[k].msgs, !.exists = TRUE]]
       ELSE Return(c)
    /\ UNCHANGED <<mem, disk, writes, events, ghosts>>

\* Mutant of Meta: the title is left out of the wrapper.
MetaUntitled(c) ==
    /\ op[c].at = "meta"
    /\ op' = [op EXCEPT ![c].at = "rename", ![c].file.deleted = mem[op[c].key].deleted]
    /\ UNCHANGED <<mem, disk, writes, events, ghosts>>

\* Second lock: the title and the tombstone.
Meta(c) ==
    /\ op[c].at = "meta"
    /\ op' = [op EXCEPT ![c].at = "rename", ![c].file.title = mem[op[c].key].title,
                        ![c].file.deleted = mem[op[c].key].deleted]
    /\ UNCHANGED <<mem, disk, writes, events, ghosts>>

\* Mutant of Rename: the file is written in place, a failure leaves a part.
RenameInPlace(c) ==
    LET k == op[c].key IN
    /\ op[c].at = "rename"
    /\ Return(c)
    /\ \/ disk' = [disk EXCEPT ![k] = op[c].file] /\ unsynced' = unsynced \ {k}
          /\ UNCHANGED events
       \/ Event /\ unsynced' = unsynced \union {k}
          /\ disk' = [disk EXCEPT ![k] = [NoFile EXCEPT !.exists = TRUE]]
    /\ UNCHANGED <<mem, writes, acked, hidden>>

\* A temporary file is written, synced and renamed; a failure leaves the old.
Rename(c) ==
    LET k == op[c].key IN
    /\ op[c].at = "rename"
    /\ Return(c)
    /\ \/ /\ disk' = [disk EXCEPT ![k] = op[c].file]
          /\ unsynced' = unsynced \ {k}
          /\ acked' = IF op[c].kind = "SaveAsyncTasks"
                      THEN [acked EXCEPT ![k] = mem[k].tasks] ELSE acked
          /\ hidden' = IF op[c].kind = "SoftDelete" THEN hidden \union {k} ELSE hidden
          /\ UNCHANGED events
       \/ /\ Event /\ unsynced' = unsynced \union {k}
          /\ UNCHANGED <<disk, acked, hidden>>
    /\ UNCHANGED <<mem, writes>>

-----------------------------------------------------------------------------
(* Delete and PurgeDeletedBefore *)

Delete(c, k) ==
    /\ op[c] = Idle
    /\ op' = [op EXCEPT ![c] = [Idle EXCEPT !.kind = "Delete", !.key = k, !.at = "purge"]]
    /\ UNCHANGED <<mem, disk, writes, events, ghosts>>

PurgeKey(c) ==
    LET k == op[c].key IN
    /\ op[c].at = "purge"
    /\ mem' = [mem EXCEPT ![k] = Blank]
    /\ acked' = [acked EXCEPT ![k] = 0] /\ hidden' = hidden \ {k}
    /\ Goto(c, "remove")
    /\ UNCHANGED <<disk, writes, events, unsynced>>

\* Mutant of Proceed: the key stays in the list.
ProceedAgain(c) ==
    \/ op[c].todo = {} /\ Return(c)
    \/ \E k \in op[c].todo : op' = [op EXCEPT ![c].key = k, ![c].at = "purge"]

\* The next key of a purge, or the end of the call.
Proceed(c) ==
    \/ op[c].todo = {} /\ Return(c)
    \/ \E k \in op[c].todo :
          op' = [op EXCEPT ![c].key = k, ![c].at = "purge", ![c].todo = @ \ {k}]

\* A failed removal ends the call, a purge included.
RemoveFile(c) ==
    LET k == op[c].key IN
    /\ op[c].at = "remove"
    /\ \/ /\ disk' = [disk EXCEPT ![k] = NoFile]
          /\ unsynced' = unsynced \ {k}
          /\ Proceed(c) /\ UNCHANGED events
       \/ /\ Event /\ unsynced' = unsynced \union {k}
          /\ Return(c) /\ UNCHANGED disk
    /\ UNCHANGED <<mem, writes, acked, hidden>>

Tombstones == {k \in Query(TRUE) : IF mem[k].cached THEN mem[k].deleted ELSE disk[k].deleted}

\* Which tombstones are older than before is open.
PurgeDeletedBefore(c) ==
    /\ op[c] = Idle
    /\ \E old \in SUBSET Tombstones : \E k \in old :
          op' = [op EXCEPT ![c] = [Idle EXCEPT !.kind = "Purge", !.key = k, !.at = "purge",
                                               !.todo = old \ {k}]]
    /\ UNCHANGED <<mem, disk, writes, events, ghosts>>

-----------------------------------------------------------------------------
\* The process stops, in the middle of any call; the files stay.
Restart ==
    /\ Event
    /\ mem' = [k \in Keys |-> Blank]
    /\ op' = [c \in Clients |-> Idle]
    /\ unsynced' = {}
    /\ UNCHANGED <<disk, writes, acked, hidden>>

Next ==
    \/ \E c \in Clients :
        \/ \E k \in Keys : \/ \E kind \in Loading : Load(c, kind, k)
                           \/ SaveHistory(c, k) \/ SaveAsyncTasks(c, k) \/ Delete(c, k)
        \/ ReadFile(c) \/ Install(c) \/ Loaded(c)
        \/ SetTitle(c) \/ SoftDelete(c) \/ Restore(c) \/ Fork(c)
        \/ Snapshot(c) \/ Meta(c) \/ Rename(c)
        \/ PurgeKey(c) \/ RemoveFile(c) \/ PurgeDeletedBefore(c)
    \/ Restart

Spec == Init /\ [][Next]_vars

-----------------------------------------------------------------------------
TypeOK ==
    /\ mem \in [Keys -> [cached : BOOLEAN, msgs : Versions, tasks : Versions,
                         title : Versions, deleted : BOOLEAN]]
    /\ disk \in [Keys -> Files \union {NoFile}]
    /\ \A c \in Clients : op[c].key \in Keys /\ op[c].todo \subseteq Keys \ {op[c].key}
    /\ writes \in Versions /\ events \in 0 .. MaxEvents
    /\ unsynced \subseteq Keys /\ hidden \subseteq Keys /\ acked \in [Keys -> Versions]

Quiet(k) == \A c \in Clients : op[c] = Idle \/ (op[c].key # k /\ k \notin op[c].todo)
AsFile(m) == [msgs |-> m.msgs, title |-> m.title, deleted |-> m.deleted, exists |-> m.cached]

\* Once the calls on a session have returned, without an error, its file is
\* what the cache says (loop_stream.go:50: "SaveHistory atomically replaces
\* the persisted log").
SavesAreAtomic == \A k \in Keys :
    mem[k].cached /\ Quiet(k) /\ k \notin unsynced => disk[k] = AsFile(mem[k])

\* A session whose SoftDelete succeeded is not listed until it is restored:
\* not by the cache, not by the file, not after restarts and later saves.
HiddenIsNotListed == \A k \in hidden \ unsynced :
    (\A c \in Clients : op[c].key = k => op[c].kind # "Restore") => k \notin Query(FALSE)

\* What the calls that returned promise of the files (persist, SoftDelete).
FilesKeepPromises == TypeOK /\ SavesAreAtomic /\ HiddenIsNotListed

\* A task map saved with success is still there (loop_stream.go:55: the
\* "snapshot of background tasks parked on sessionKey").
TasksAreKept == \A k \in Keys : mem[k].cached => mem[k].tasks >= acked[k]

-----------------------------------------------------------------------------
(* The session store this implements, with one client.                     *)

Latest == [k \in Keys |-> IF mem[k].cached \/ ~disk[k].exists THEN AsFile(mem[k]) ELSE disk[k]]
Sessions == [msgs : Versions, title : Versions, deleted : BOOLEAN, exists : BOOLEAN]

Store == INSTANCE SessionStore WITH latest <- Latest, durable <- disk, NoSession <- NoFile

\* Every call, interrupted at any step by a failure or a restart, acts on the
\* sessions as the operations of SessionStore do.
ImplementsStore == Store!Spec
=============================================================================
