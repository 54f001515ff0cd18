----------------------------- MODULE RowSessions ------------------------------
(***************************************************************************)
(* MySQLSessionManager (history/mysql_session_manager.go), alone or with   *)
(* the append-only message store (history/mysql_append_only_store.go): a   *)
(* cache in front of a table with a row per session and, with the store, a *)
(* row per message, of which a save rewrites as few as it can.             *)
(*                                                                         *)
(* A message is a number, a task map is the number of its save.            *)
(* One call at a time; any statement of a call can fail, the process can   *)
(* restart between two calls.  Titles, the behavior summary and the system *)
(* prompt are left out.                                                    *)
(***************************************************************************)
EXTENDS Naturals, Sequences, FiniteSets, SequencesExt

CONSTANTS
    RowKeys,      \* session keys
    Inserts,      \* the agent's Compactor inserts records into the history
    MaxWritten,   \* bound on the messages made, and on the saves of tasks
    MaxOutages    \* bound on failed statements and restarts

ASSUME RowAssumption == {MaxWritten, MaxOutages} \subseteq Nat /\ Inserts \in BOOLEAN

VARIABLES
    mode,      \* "none" before construction, then "json" or "rows"
    cache,     \* sm.sessions
    known,     \* sm.persistedCount
    table,     \* the session rows
    msgRows,   \* the message rows, by position
    written,   \* messages made so far
    outages,
    acked,     \* the log of the last SaveHistory of each key, if it returned nil
    torn,      \* keys whose message rows a save may have left mixed
    emptied    \* keys a task call made an empty session of, until the next save

rowVars == <<mode, cache, known, table, msgRows, written, outages, acked, torn, emptied>>

Uncached == [in |-> FALSE, msgs |-> <<>>, tasks |-> 0]
NoRow == [in |-> FALSE, msgs |-> <<>>, tasks |-> 0, deleted |-> FALSE]
Unknown == [ok |-> FALSE, msgs |-> <<>>]

RowInit ==
    /\ mode = "none" /\ written = 0 /\ outages = 0 /\ torn = {} /\ emptied = {}
    /\ cache = [k \in RowKeys |-> Uncached] /\ known = [k \in RowKeys |-> 0]
    /\ table = [k \in RowKeys |-> NoRow] /\ msgRows = [k \in RowKeys |-> <<>>]
    /\ acked = [k \in RowKeys |-> Unknown]

\* The table is created or migrated; a bad table name or a failed statement
\* gives no manager.
NewMySQLSessionManager ==
    /\ mode = "none" /\ mode' \in {"json", "rows"}
    /\ UNCHANGED <<cache, known, table, msgRows, written, outages, acked, torn, emptied>>

Outage == outages < MaxOutages /\ outages' = outages + 1
Works == outages' = outages
Stored(k) == IF ~table[k].in THEN <<>> ELSE IF mode = "rows" THEN msgRows[k] ELSE table[k].msgs

-----------------------------------------------------------------------------
(* History                                                                 *)

\* A missing row leaves the session uncached.
Load(k) ==
    /\ mode # "none" /\ ~cache[k].in /\ table[k].in
    /\ cache' = [cache EXCEPT ![k] = [in |-> TRUE, msgs |-> Stored(k), tasks |-> 0]]
    /\ known' = IF mode = "rows" THEN [known EXCEPT ![k] = Len(msgRows[k])] ELSE known
    /\ Works /\ UNCHANGED <<mode, table, msgRows, written, acked, torn, emptied>>

-----------------------------------------------------------------------------
(* MessageStore.Save                                                       *)

Overlay(old, from, new) ==
    [i \in 1 .. IF Len(old) > from + Len(new) - 1 THEN Len(old) ELSE from + Len(new) - 1 |->
        IF i \in from .. from + Len(new) - 1 THEN new[i - from + 1]
        ELSE IF i <= Len(old) THEN old[i] ELSE 0]

\* Mutant of Truncated: the orphan rows of a shorter log are not deleted.
Untruncated(old, n, count) == old
Truncated(old, n, count) ==
    IF n < count /\ n < Len(old) THEN SubSeq(old, 1, n) ELSE old

\* The last row that is known and everything after it, or everything.
From(n, count) == IF count > 0 /\ count < n THEN count ELSE 1

SavedRows(old, msgs, count) ==
    Overlay(Truncated(old, Len(msgs), count), From(Len(msgs), count),
            SubSeq(msgs, From(Len(msgs), count), Len(msgs)))

\* The statements that were executed before one failed.
PartialRows(old, msgs, count) ==
    {old, Truncated(old, Len(msgs), count)} \union
        IF count > 0 /\ count < Len(msgs) THEN {Overlay(old, count, <<msgs[count]>>)} ELSE {}

-----------------------------------------------------------------------------
(* persist                                                                 *)

\* The upsert of the session row leaves its tombstone alone.
Upserted(k, msgs, tasks) ==
    [table EXCEPT ![k].in = TRUE, ![k].tasks = tasks,
                  ![k].msgs = IF mode = "rows" THEN @ ELSE msgs]

\* The store does not know of rows that are there.
Uninformed(k, msgs) == known[k] = 0 /\ Len(msgRows[k]) > Len(msgs)

\* Its count is of the rows of a log that SoftDelete has dropped.
Outdated(k) == known[k] > Len(cache[k].msgs)

PersistOK(k, msgs, tasks) ==
    /\ table' = Upserted(k, msgs, tasks)
    /\ IF mode = "rows"
       THEN /\ msgRows' = [msgRows EXCEPT ![k] = SavedRows(@, msgs, known[k])]
            /\ known' = [known EXCEPT ![k] = Len(msgs)]
            /\ torn' = IF Uninformed(k, msgs) THEN torn \union {k} ELSE torn
       ELSE UNCHANGED <<msgRows, known, torn>>

\* A statement of the message store failed, or the one on the session row.
PersistFails(k, msgs) ==
    /\ UNCHANGED table
    /\ \/ mode = "json" /\ UNCHANGED <<msgRows, known, torn>>
       \/ /\ mode = "rows" /\ known' = known
          /\ \E rows \in PartialRows(msgRows[k], msgs, known[k]) :
                msgRows' = [msgRows EXCEPT ![k] = rows]
          /\ torn' = IF Len(msgs) < known[k] \/ Outdated(k) THEN torn \union {k} ELSE torn
       \/ /\ mode = "rows" /\ known' = [known EXCEPT ![k] = Len(msgs)]
          /\ msgRows' = [msgRows EXCEPT ![k] = SavedRows(@, msgs, known[k])]
          /\ torn' = IF Uninformed(k, msgs) THEN torn \union {k} ELSE torn

Persist(k, msgs, tasks) ==
    /\ \/ PersistOK(k, msgs, tasks) /\ Works
          /\ acked' = [acked EXCEPT ![k] = [ok |-> TRUE, msgs |-> msgs]]
       \/ PersistFails(k, msgs) /\ Outage
          /\ acked' = [acked EXCEPT ![k] = Unknown]
    /\ emptied' = emptied \ {k}

-----------------------------------------------------------------------------
(* The calls                                                               *)

Fresh(n) == [i \in 1 .. n |-> written + i]
Write(n) == written + n <= MaxWritten /\ written' = written + n

(* A run appends; Regenerate cuts; a Compactor inserts a record and the    *)
(* user message follows.                                                   *)
Revisions(s) ==
    {s \o Fresh(n) : n \in 1 .. 2} \union {SubSeq(s, 1, i) : i \in 0 .. Len(s) - 1}
    \union IF ~Inserts THEN {}
           ELSE {Append(InsertAt(s, i, written + 1), written + 2) : i \in DOMAIN s}
New(s) == Cardinality({i \in DOMAIN s : s[i] > written})

\* The cache is changed before anything is written.
SaveHistory(k) ==
    /\ mode # "none" /\ (cache[k].in \/ ~table[k].in)
    /\ \E s \in Revisions(cache[k].msgs) :
         /\ Write(New(s)) /\ cache' = [cache EXCEPT ![k].in = TRUE, ![k].msgs = s]
         /\ Persist(k, s, cache[k].tasks)
    /\ UNCHANGED mode

\* The history could not be read: the run starts from none and saves that.
SaveUnread(k) ==
    /\ mode # "none" /\ ~cache[k].in /\ table[k].in /\ Outage
    /\ Write(1) /\ cache' = [cache EXCEPT ![k].in = TRUE, ![k].msgs = Fresh(1)]
    /\ PersistOK(k, Fresh(1), 0) /\ acked' = [acked EXCEPT ![k] = [ok |-> TRUE, msgs |-> Fresh(1)]]
    /\ emptied' = emptied \ {k} /\ UNCHANGED mode

\* A task call on a key that is not cached caches a session with no messages.
Emptied(k) == emptied' = IF ~cache[k].in /\ Stored(k) # <<>> THEN emptied \union {k} ELSE emptied

\* The tasks in the cache, or else those of a row that is there, "null" included.
AsyncTasks(k) ==
    /\ cache[k].tasks = 0 /\ table[k].in
    /\ cache' = [cache EXCEPT ![k].in = TRUE, ![k].tasks = table[k].tasks] /\ Emptied(k)
    /\ Works /\ UNCHANGED <<mode, known, table, msgRows, written, acked, torn>>

\* Every session is written whole: the messages in the cache as well.
SaveAsyncTasks(k) ==
    /\ mode # "none" /\ Write(1)
    /\ cache' = [cache EXCEPT ![k].in = TRUE, ![k].tasks = written + 1] /\ Emptied(k)
    /\ \/ PersistOK(k, cache[k].msgs, written + 1) /\ Works
       \/ PersistFails(k, cache[k].msgs) /\ Outage
    /\ UNCHANGED <<mode, acked>>

Fork(k, new) ==
    /\ cache[k].in /\ cache[new] = Uncached /\ ~table[new].in /\ msgRows[new] = <<>>
    /\ \E n \in 0 .. Len(cache[k].msgs) :
         LET copy == SubSeq(cache[k].msgs, 1, n)
         IN  /\ cache' = [cache EXCEPT ![new] = [in |-> TRUE, msgs |-> copy, tasks |-> 0]]
             /\ Persist(new, copy, 0)
    /\ UNCHANGED <<mode, written>>

\* The message rows go first; either statement can fail.
Delete(k) ==
    /\ mode # "none" /\ table[k].in
    /\ cache' = [cache EXCEPT ![k] = Uncached] /\ known' = [known EXCEPT ![k] = 0]
    /\ acked' = [acked EXCEPT ![k] = Unknown] /\ emptied' = emptied \ {k}
    /\ \/ /\ Works /\ table' = [table EXCEPT ![k] = NoRow]
          /\ msgRows' = [msgRows EXCEPT ![k] = <<>>] /\ torn' = torn \ {k}
       \/ /\ Outage /\ UNCHANGED <<table, torn>>
          /\ \/ UNCHANGED msgRows
             \/ mode = "rows" /\ msgRows' = [msgRows EXCEPT ![k] = <<>>]
    /\ UNCHANGED <<mode, written>>

\* The cache forgets the session, the count of its rows stays.
SoftDelete(k) ==
    /\ mode # "none" /\ cache' = [cache EXCEPT ![k] = Uncached]
    /\ \/ Works /\ table' = [table EXCEPT ![k].deleted = table[k].in]
       \/ Outage /\ UNCHANGED table
    /\ UNCHANGED <<mode, known, msgRows, written, acked, torn, emptied>>

Restore(k) ==
    /\ table[k].deleted /\ Works /\ table' = [table EXCEPT ![k].deleted = FALSE]
    /\ UNCHANGED <<mode, cache, known, msgRows, written, acked, torn, emptied>>

\* Only the session rows go.
PurgeDeletedBefore ==
    /\ \E k \in RowKeys : table[k].deleted
    /\ table' = [k \in RowKeys |-> IF table[k].deleted THEN NoRow ELSE table[k]]
    /\ acked' = [k \in RowKeys |-> IF table[k].deleted THEN Unknown ELSE acked[k]]
    /\ Works /\ UNCHANGED <<mode, cache, known, msgRows, written, torn, emptied>>

\* The process is started again; one made before the outage is gone.
Restart ==
    /\ mode # "none" /\ Outage
    /\ cache' = [k \in RowKeys |-> Uncached] /\ known' = [k \in RowKeys |-> 0]
    /\ UNCHANGED <<mode, table, msgRows, written, acked, torn, emptied>>

RowNext ==
    \/ NewMySQLSessionManager \/ PurgeDeletedBefore \/ Restart
    \/ \E k \in RowKeys :
          \/ Load(k) \/ SaveHistory(k) \/ SaveUnread(k) \/ AsyncTasks(k) \/ SaveAsyncTasks(k)
          \/ Delete(k) \/ SoftDelete(k) \/ Restore(k)
          \/ \E new \in RowKeys : Fork(k, new)

RowSpec == RowInit /\ [][RowNext]_rowVars

-----------------------------------------------------------------------------
(* Properties *)

(* What the last SaveHistory of a session saved, if it returned nil, is     *)
(* what History serves and what the next process loads, although a save    *)
(* rewrites only the rows it believes have changed, and although a save of *)
(* tasks writes the log again: after saves of either that failed half way, *)
(* forks, deletions, tombstones and restarts                               *)
(* (MySQLAppendOnlyMessageStore.Save, persist).  The code loses the log    *)
(* of the sessions that are excluded.  Those in torn may have a mixed one: *)
(* a truncation failed, a save did not know of the rows there are, or one  *)
(* failed that went by the count of a log that SoftDelete had dropped.  Of *)
(* those in emptied, AsyncTasks or SaveAsyncTasks was called before        *)
(* History: the cache, and after a save the row, have no messages.         *)
SavedIsLoaded ==
    \A k \in RowKeys \ (torn \union emptied) : acked[k].ok =>
        Stored(k) = acked[k].msgs /\ (cache[k].in => cache[k].msgs = acked[k].msgs)

(* "SaveHistory atomically replaces the persisted log with msgs"           *)
(* (loop_stream.go), also when a compaction put a record in its middle.    *)
SavesReplaceLog ==
    \A k \in RowKeys : acked[k].ok => Stored(k) = acked[k].msgs
=============================================================================
