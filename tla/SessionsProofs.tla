---------------------------- MODULE SessionsProofs ----------------------------
(***************************************************************************)
(* What outlives a run.  The file session manager keeps its promises and   *)
(* implements a store whose records are durable as a whole, for any number *)
(* of sessions, calls under way, failures and restarts: calls on different *)
(* sessions overlap as they like; two on the same session do not, since    *)
(* nothing in the manager keeps an older snapshot from being renamed after *)
(* a newer one.  Long-term memory keeps what it was told, and a            *)
(* conversation what each request stands for.  The three share no state,   *)
(* so each theorem is about the specification of its own part.             *)
(***************************************************************************)
EXTENDS FileSessions, Consolidation, Conversation, DataLemmas

\* The sessions a call is about, now and later.
Claim(c) == {op[c].key} \union op[c].todo

\* No two calls are about one session: what a caller that runs one call at a
\* time gets for free, and what the loop leaves to its callers otherwise.
OneCallPerSession ==
    \A c, d \in Clients :
        c # d /\ op[c] # Idle /\ op[d] # Idle => Claim(c) \intersect Claim(d) = {}

Writing == {"snapshot", "meta", "rename"}
Steps == {"idle", "read", "install", "act", "purge", "remove"} \union Writing
Kinds == Loading \union {"none", "SaveHistory", "SaveAsyncTasks", "Delete", "Purge"}
Cached == [cached : BOOLEAN, msgs : Versions, tasks : Versions, title : Versions,
           deleted : BOOLEAN]
Calls == [kind : Kinds, at : Steps, key : Keys, file : Files \union Sessions,
          todo : SUBSET Keys]

Typed == TypeOK /\ op \in [Clients -> Calls]

\* What a call has found out and is about to write is still so.
Standing(c) ==
    LET k == op[c].key IN
    /\ op[c].at = "idle" => op[c] = Idle
    /\ op[c].at \in {"read", "install", "act"} => op[c].kind \in Loading
    /\ op[c].at \in {"read", "install"} => ~mem[k].cached
    /\ op[c].at = "install" => op[c].file = disk[k] /\ disk[k].exists
    /\ op[c].at = "act" => mem[k].cached \/ ~disk[k].exists
    /\ op[c].at \in Writing => mem[k].cached /\ (op[c].kind = "SoftDelete" => mem[k].deleted)
    /\ op[c].at = "meta" => op[c].file = [NoFile EXCEPT !.msgs = mem[k].msgs, !.exists = TRUE]
    /\ op[c].at = "rename" => op[c].file = AsFile(mem[k])
    /\ op[c].at = "remove" => mem[k] = Blank /\ k \notin hidden
    /\ op[c].at \notin {"purge", "remove"} => op[c].todo = {}

\* A session that is not cached has nothing the file does not have, unless
\* there is no file; a cached one that nobody is writing, and whose last write
\* succeeded, is its file; and what is hidden is so in both places.
Kept(k) ==
    /\ ~mem[k].cached /\ disk[k].exists => mem[k] = Blank
    /\ mem[k].cached /\ k \notin unsynced
       /\ (\A c \in Clients : op[c].at \in Writing => op[c].key # k)
         => disk[k] = AsFile(mem[k])
    /\ k \in hidden => disk[k].exists /\ disk[k].deleted /\ (mem[k].cached => mem[k].deleted)

FilesInv ==
    /\ Typed
    /\ \A c \in Clients : Standing(c)
    /\ \A k \in Keys : Kept(k)

-----------------------------------------------------------------------------
(* What a step of one call leaves alone                                    *)

\* A step of the call c touches the session k only.
Touches(c, k) ==
    /\ op' \in [Clients -> Calls]
    /\ \A d \in Clients \ {c} : op'[d] = op[d]
    /\ \A j \in Keys \ {k} : mem'[j] = mem[j] /\ disk'[j] = disk[j]
    /\ \A j \in Keys \ {k} : (j \in hidden <=> j \in hidden') /\ (j \in unsynced <=> j \in unsynced')
    /\ op[c].at \in Writing => op[c].key = k
    /\ (op[c] # Idle /\ op[c].key = k) \/ (op'[c] # Idle /\ op'[c].key = k)

\* The other calls stand where they stood.
LEMMA OthersStand ==
    ASSUME FilesInv, OneCallPerSession, OneCallPerSession',
           NEW c \in Clients, NEW k \in Keys, Touches(c, k), NEW d \in Clients \ {c}
    PROVE  Standing(d)'
<1>1. op'[d] = op[d] /\ op[d] \in Calls /\ Standing(d)
    BY DEF Touches, FilesInv, Typed
<1>2. CASE op[d] = Idle
    BY <1>1, <1>2 DEF Standing, Idle, Writing
<1>3. CASE op[d] # Idle
    <2>1. op[d].key # k
        BY <1>1, <1>3 DEF Touches, OneCallPerSession, Claim
    <2>2. op[d].key \in Keys \ {k}
        BY <1>1, <2>1 DEF Calls
    <2> QED BY <1>1, <2>2 DEF Touches, Standing
<1> QED BY <1>2, <1>3

\* The other sessions are kept as they were.
LEMMA OthersAreKept ==
    ASSUME FilesInv, NEW c \in Clients, NEW k \in Keys, Touches(c, k), NEW j \in Keys \ {k}
    PROVE  Kept(j)'
<1>1. Kept(j) /\ mem'[j] = mem[j] /\ disk'[j] = disk[j]
      /\ (j \in hidden <=> j \in hidden') /\ (j \in unsynced <=> j \in unsynced')
    BY DEF Touches, FilesInv
<1>2. ASSUME \A d \in Clients : op'[d].at \in Writing => op'[d].key # j
      PROVE  \A d \in Clients : op[d].at \in Writing => op[d].key # j
    BY <1>2 DEF Touches
<1> QED BY <1>1, <1>2 DEF Kept

LEMMA StepKeepsFiles ==
    ASSUME FilesInv, OneCallPerSession, OneCallPerSession', TypeOK',
           NEW c \in Clients, NEW k \in Keys, Touches(c, k), Standing(c)', Kept(k)'
    PROVE  FilesInv'
<1>1. \A d \in Clients : Standing(d)'
    BY OthersStand
<1>2. \A j \in Keys : Kept(j)'
    BY OthersAreKept
<1>3. op' \in [Clients -> Calls]
    BY DEF Touches
<1> QED BY <1>1, <1>2, <1>3 DEF FilesInv, Typed

-----------------------------------------------------------------------------
(* The same step in terms of the store                                     *)

\* What the cache and the file say of a session.
LatestIs(k) ==
    /\ Latest[k] = IF mem[k].cached \/ ~disk[k].exists THEN AsFile(mem[k]) ELSE disk[k]
    /\ Latest[k] \in Sessions /\ disk[k] \in Sessions

LEMMA LatestOf == Typed => \A k \in Keys : LatestIs(k)
<1> SUFFICES ASSUME Typed, NEW k \in Keys PROVE LatestIs(k)
    OBVIOUS
<1>1. mem[k] \in Cached /\ disk[k] \in Files \union {NoFile}
    BY DEF Typed, TypeOK, Cached
<1>2. 0 \in Versions
    BY FilesAssumption DEF Versions
<1>3. NoFile \in Sessions
    BY <1>2 DEF NoFile, Sessions
<1>4. Files \subseteq Sessions
    BY DEF Files, Sessions
<1>5. AsFile(mem[k]) \in Sessions
    BY <1>1 DEF AsFile, Cached, Sessions
<1> QED BY <1>1, <1>3, <1>4, <1>5 DEF Latest, LatestIs

LEMMA LatestOfNext == (Typed => \A k \in Keys : LatestIs(k))'
BY LatestOf, PTL

\* What a step does to the session it touches.
StoreStep(k) ==
    \/ Latest'[k] = Latest[k] /\ disk'[k] = disk[k]
    \/ Store!Similar(Latest'[k], Latest[k]) /\ disk'[k] = disk[k]
    \/ Latest'[k] = Latest[k] /\ disk'[k] = Latest[k]
    \/ Latest'[k] = disk[k] /\ disk'[k] = disk[k]
    \/ Latest'[k] = NoFile /\ disk'[k] = NoFile

LEMMA StepsOfStore ==
    ASSUME Typed, Typed', NEW c \in Clients, NEW k \in Keys, Touches(c, k), StoreStep(k)
    PROVE  [Store!Next]_<<Latest, disk>>
<1>1. DOMAIN Latest = Keys /\ DOMAIN Latest' = Keys /\ Latest = [j \in Keys |-> Latest[j]]
      /\ Latest' = [j \in Keys |-> Latest'[j]]
    BY DEF Latest
<1>2. disk = [j \in Keys |-> disk[j]] /\ disk' = [j \in Keys |-> disk'[j]]
    BY DEF Typed, TypeOK
<1>3. ASSUME NEW j \in Keys \ {k}
      PROVE  Latest'[j] = Latest[j] /\ disk'[j] = disk[j]
    <2>1. mem'[j] = mem[j] /\ disk'[j] = disk[j]
        BY DEF Touches
    <2>2. LatestIs(j) /\ LatestIs(j)'
        BY LatestOf, LatestOfNext
    <2> QED BY <2>1, <2>2 DEF LatestIs
<1>4. Latest' = [Latest EXCEPT ![k] = Latest'[k]] /\ disk' = [disk EXCEPT ![k] = disk'[k]]
    BY <1>1, <1>2, <1>3
<1>5. Latest'[k] \in Sessions
    BY LatestOfNext DEF LatestIs
<1>6. disk'[k] = disk[k] => disk' = disk
    BY <1>2, <1>4
<1>7. Latest'[k] = Latest[k] => Latest' = Latest
    BY <1>1, <1>4
<1> HIDE DEF Latest, Sessions
<1>8. CASE Latest'[k] = Latest[k] /\ disk'[k] = disk[k]
    BY <1>6, <1>7, <1>8
<1>9. CASE Store!Similar(Latest'[k], Latest[k]) /\ disk'[k] = disk[k]
    BY <1>4, <1>5, <1>6, <1>9 DEF Store!Next, Store!Change
<1>10. CASE Latest'[k] = Latest[k] /\ disk'[k] = Latest[k]
    BY <1>4, <1>7, <1>10 DEF Store!Next, Store!Persist
<1>11. CASE Latest'[k] = disk[k] /\ disk'[k] = disk[k]
    BY <1>4, <1>6, <1>11 DEF Store!Next, Store!GiveUp
<1>12. CASE Latest'[k] = NoFile /\ disk'[k] = NoFile
    BY <1>4, <1>12 DEF Store!Next, Store!Remove
<1> QED BY <1>8, <1>9, <1>10, <1>11, <1>12 DEF StoreStep

-----------------------------------------------------------------------------
(* The form every step of a call is brought into                           *)

LEMMA IdleIsACall ==
    /\ Idle \in Calls /\ Idle.at = "idle" /\ Idle.key \notin Idle.todo /\ Idle.todo = {}
    /\ Idle.key \in Keys
<1>1. (CHOOSE k \in Keys : TRUE) \in Keys
    BY FilesAssumption
<1>2. 0 \in Versions
    BY FilesAssumption DEF Versions
<1>3. NoFile \in Sessions
    BY <1>2 DEF NoFile, Sessions
<1> QED BY <1>1, <1>3 DEF Idle, Calls, Kinds, Steps

\* What is known of a call before it takes a step.
LEMMA Here ==
    ASSUME FilesInv, NEW c \in Clients
    PROVE  /\ op[c] \in Calls /\ op[c].key \in Keys /\ op[c].todo \subseteq Keys \ {op[c].key}
           /\ Standing(c) /\ (op[c].at # "idle" => op[c] # Idle)
BY IdleIsACall DEF FilesInv, Typed, TypeOK, Calls

\* What is known of a session.
LEMMA There ==
    ASSUME FilesInv, NEW k \in Keys
    PROVE  /\ Kept(k) /\ mem[k] \in Cached /\ disk[k] \in Files \union {NoFile}
           /\ (disk[k].exists => disk[k] \in Files) /\ (~disk[k].exists => disk[k] = NoFile)
<1>1. Kept(k) /\ mem[k] \in Cached /\ disk[k] \in Files \union {NoFile}
    BY DEF FilesInv, Typed, TypeOK, Cached
<1>2. ~NoFile.exists /\ \A f \in Files : f.exists
    BY DEF NoFile, Files
<1> QED BY <1>1, <1>2

LEMMA CallBecomes ==
    ASSUME Typed, NEW c \in Clients, NEW r \in Calls, r.key \notin r.todo,
           op' = [op EXCEPT ![c] = r]
    PROVE  /\ op' \in [Clients -> Calls] /\ op'[c] = r
           /\ \A d \in Clients \ {c} : op'[d] = op[d]
           /\ \A d \in Clients : op'[d].key \in Keys /\ op'[d].todo \subseteq Keys \ {op'[d].key}
<1>1. op' \in [Clients -> Calls] /\ op'[c] = r /\ \A d \in Clients \ {c} : op'[d] = op[d]
    BY DEF Typed
<1>2. \A d \in Clients : op[d].todo \subseteq Keys \ {op[d].key}
    BY DEF Typed, TypeOK
<1>3. r.todo \subseteq Keys \ {r.key}
    BY DEF Calls
<1>4. \A d \in Clients : op'[d].key \in Keys /\ op'[d].todo \subseteq Keys \ {op'[d].key}
    <2> TAKE d \in Clients
    <2>1. op'[d] \in Calls
        BY <1>1
    <2>2. op'[d].key \in Keys
        BY <2>1 DEF Calls
    <2>3. op'[d].todo \subseteq Keys \ {op'[d].key}
        BY <1>1, <1>2, <1>3
    <2> QED BY <2>2, <2>3
<1> QED BY <1>1, <1>4

\* A step keeps the files right and is one of the store's.
GoodStep == FilesInv' /\ [Store!Next]_<<Latest, disk>>

LEMMA StepIsGood ==
    ASSUME FilesInv, OneCallPerSession, OneCallPerSession', TypeOK',
           NEW c \in Clients, NEW k \in Keys, Touches(c, k), Standing(c)', Kept(k)', StoreStep(k)
    PROVE  GoodStep
<1>1. FilesInv'
    BY StepKeepsFiles
<1>2. Typed /\ Typed'
    BY <1>1 DEF FilesInv
<1>3. [Store!Next]_<<Latest, disk>>
    BY <1>2, StepsOfStore
<1> QED BY <1>1, <1>3 DEF GoodStep

\* A step of a call that only changes what the call knows.
LEMMA QuietStepIsGood ==
    ASSUME FilesInv, OneCallPerSession, OneCallPerSession',
           NEW c \in Clients, NEW r \in Calls, r.key \notin r.todo, op' = [op EXCEPT ![c] = r],
           NEW k \in Keys, op[c].at \in Writing => op[c].key = k,
           (op[c] # Idle /\ op[c].key = k) \/ (r # Idle /\ r.key = k),
           UNCHANGED <<mem, disk, unsynced, acked>>,
           hidden' \subseteq hidden \union {k}, hidden \ {k} \subseteq hidden',
           writes' \in Versions, events' \in 0 .. MaxEvents,
           Standing(c)', Kept(k)'
    PROVE  GoodStep
<1>1. /\ op' \in [Clients -> Calls] /\ op'[c] = r
      /\ \A d \in Clients \ {c} : op'[d] = op[d]
      /\ \A d \in Clients : op'[d].key \in Keys /\ op'[d].todo \subseteq Keys \ {op'[d].key}
    BY CallBecomes DEF FilesInv
<1>2. TypeOK'
    BY <1>1 DEF FilesInv, Typed, TypeOK
<1>3. Touches(c, k)
    BY <1>1 DEF Touches
<1>4. StoreStep(k)
    BY DEF StoreStep, Latest
<1> QED BY <1>2, <1>3, <1>4, StepIsGood

-----------------------------------------------------------------------------
(* Calls that begin, read, end, or take their snapshot                     *)

LEMMA BeginIsGood ==
    ASSUME FilesInv, OneCallPerSession, OneCallPerSession',
           NEW c \in Clients, NEW r \in Calls, op[c] = Idle, op' = [op EXCEPT ![c] = r],
           UNCHANGED <<mem, disk, writes, events, ghosts>>,
           r.key \notin r.todo, r # Idle,
           \/ r.at = "purge"
           \/ r.at = "read" /\ r.kind \in Loading /\ ~mem[r.key].cached /\ r.todo = {}
           \/ r.at = "act" /\ r.kind \in Loading /\ mem[r.key].cached /\ r.todo = {}
    PROVE  GoodStep
<1> DEFINE k == r.key
<1>1. k \in Keys /\ op[c].at = "idle"
    BY IdleIsACall DEF Calls
<1>2. op'[c] = r
    BY CallBecomes DEF FilesInv
<1>3. Standing(c)'
    BY <1>2 DEF Standing, Writing
<1>4. Kept(k)'
    <2>1. Kept(k)
        BY <1>1, There
    <2>2. \A d \in Clients : op[d].at \in Writing => op'[d] = op[d]
        BY <1>1, CallBecomes DEF FilesInv, Writing
    <2> QED BY <2>1, <2>2 DEF Kept, ghosts
<1>5. op[c].at \in Writing => op[c].key = k
    BY <1>1 DEF Writing
<1>6. writes' \in Versions /\ events' \in 0 .. MaxEvents
    BY DEF FilesInv, Typed, TypeOK
<1> QED BY <1>1, <1>3, <1>4, <1>5, <1>6, QuietStepIsGood DEF ghosts

LEMMA LoadIsGood ==
    ASSUME FilesInv, OneCallPerSession, OneCallPerSession',
           NEW c \in Clients, NEW kind \in Loading, NEW k \in Keys, Load(c, kind, k)
    PROVE  GoodStep
<1> DEFINE r == [Idle EXCEPT !.kind = kind, !.key = k,
                             !.at = IF mem[k].cached THEN "act" ELSE "read"]
<1>1. r \in Calls /\ r.key = k /\ r.kind = kind /\ r.todo = {}
      /\ r.at = (IF mem[k].cached THEN "act" ELSE "read")
    BY IdleIsACall DEF Calls, Kinds, Steps, Idle
<1>2. op[c] = Idle /\ op' = [op EXCEPT ![c] = r]
      /\ UNCHANGED <<mem, disk, writes, events, ghosts>>
    BY DEF Load
<1> HIDE DEF r
<1>3. r # Idle
    BY <1>1, IdleIsACall
<1> QED BY <1>1, <1>2, <1>3, BeginIsGood

LEMMA DeleteIsGood ==
    ASSUME FilesInv, OneCallPerSession, OneCallPerSession',
           NEW c \in Clients, NEW k \in Keys, Delete(c, k)
    PROVE  GoodStep
<1> DEFINE r == [Idle EXCEPT !.kind = "Delete", !.key = k, !.at = "purge"]
<1>1. r \in Calls /\ r.key = k /\ r.todo = {} /\ r.at = "purge"
    BY IdleIsACall DEF Calls, Kinds, Steps, Idle
<1>2. r # Idle
    BY <1>1, IdleIsACall
<1>3. op[c] = Idle /\ op' = [op EXCEPT ![c] = r]
      /\ UNCHANGED <<mem, disk, writes, events, ghosts>>
    BY DEF Delete
<1> HIDE DEF r
<1> QED BY <1>1, <1>2, <1>3, BeginIsGood

LEMMA PurgeDeletedBeforeIsGood ==
    ASSUME FilesInv, OneCallPerSession, OneCallPerSession',
           NEW c \in Clients, PurgeDeletedBefore(c)
    PROVE  GoodStep
<1>1. PICK old \in SUBSET Tombstones : \E k \in old :
          op' = [op EXCEPT ![c] = [Idle EXCEPT !.kind = "Purge", !.key = k, !.at = "purge",
                                               !.todo = old \ {k}]]
    BY DEF PurgeDeletedBefore
<1>2. PICK k \in old :
          op' = [op EXCEPT ![c] = [Idle EXCEPT !.kind = "Purge", !.key = k, !.at = "purge",
                                               !.todo = old \ {k}]]
    BY <1>1
<1> DEFINE r == [Idle EXCEPT !.kind = "Purge", !.key = k, !.at = "purge", !.todo = old \ {k}]
<1>3. old \subseteq Keys
    BY DEF Tombstones, Query, Seen
<1>4. r \in Calls /\ r.key = k /\ r.key \notin r.todo /\ r.at = "purge"
    BY <1>3, IdleIsACall DEF Calls, Kinds, Steps, Idle
<1>5. r # Idle
    BY <1>4, IdleIsACall
<1>6. op[c] = Idle /\ op' = [op EXCEPT ![c] = r]
      /\ UNCHANGED <<mem, disk, writes, events, ghosts>>
    BY <1>2 DEF PurgeDeletedBefore
<1> HIDE DEF r
<1> QED BY <1>4, <1>5, <1>6, BeginIsGood

\* A call that goes on, with what it knows still so.
LEMMA GoOnIsGood ==
    ASSUME FilesInv, OneCallPerSession, OneCallPerSession',
           NEW c \in Clients, NEW r \in Calls, op[c].at # "idle", op' = [op EXCEPT ![c] = r],
           UNCHANGED <<mem, disk, writes, events, ghosts>>,
           r.key \notin r.todo, Standing(c)',
           \/ r.at \in Writing /\ r.key = op[c].key
           \/ op[c].at \notin Writing
    PROVE  GoodStep
<1>0. PICK k \in Keys : k = op[c].key
    BY Here
<1>1. op[c] # Idle
    BY Here
<1>2. /\ op'[c] = r
      /\ \A d \in Clients \ {c} : op'[d] = op[d]
    BY CallBecomes DEF FilesInv
<1>3. Kept(k)'
    <2>1. Kept(k)
        BY There
    <2>2. ASSUME NEW d \in Clients, op[d].at \in Writing /\ op[d].key = k
          PROVE  op'[d].at \in Writing /\ op'[d].key = k
        <3>1. CASE d = c
            BY <1>0, <1>2, <2>2, <3>1
        <3>2. CASE d # c
            BY <1>2, <2>2, <3>2
        <3> QED BY <3>1, <3>2
    <2> QED BY <2>1, <2>2 DEF Kept, ghosts
<1>4. writes' \in Versions /\ events' \in 0 .. MaxEvents
    BY DEF FilesInv, Typed, TypeOK
<1> QED BY <1>0, <1>1, <1>3, <1>4, QuietStepIsGood DEF ghosts

LEMMA ReadFileIsGood ==
    ASSUME FilesInv, OneCallPerSession, OneCallPerSession', NEW c \in Clients, ReadFile(c)
    PROVE  GoodStep
<1> DEFINE k == op[c].key
           r == [op[c] EXCEPT !.file = disk[k], !.at = IF disk[k].exists THEN "install" ELSE "act"]
<1>1. op[c] \in Calls /\ k \in Keys /\ op[c].todo \subseteq Keys \ {k} /\ Standing(c)
      /\ op[c].at = "read"
    BY Here DEF ReadFile
<1>2. disk[k] \in Sessions
    BY <1>1, LatestOf DEF LatestIs, FilesInv
<1>3. /\ r \in Calls /\ r.key = k /\ r.kind = op[c].kind /\ r.todo = op[c].todo
      /\ r.file = disk[k] /\ r.at = IF disk[k].exists THEN "install" ELSE "act"
    BY <1>1, <1>2 DEF Calls, Steps
<1>4. op' = [op EXCEPT ![c] = r] /\ UNCHANGED <<mem, disk, writes, events, ghosts>>
    BY DEF ReadFile
<1> HIDE DEF r
<1>5. r.key \notin r.todo
    BY <1>1, <1>3
<1>6. op'[c] = r
    BY <1>3, <1>4, <1>5, CallBecomes DEF FilesInv
<1>7. Standing(c)'
    BY <1>1, <1>3, <1>4, <1>6 DEF Standing, Writing
<1>8. op[c].at \notin Writing
    BY <1>1 DEF Writing
<1> QED BY <1>1, <1>3, <1>4, <1>5, <1>7, <1>8, GoOnIsGood

\* A call that ends without having written.
LEMMA ReturnIsGood ==
    ASSUME FilesInv, OneCallPerSession, OneCallPerSession', NEW c \in Clients,
           op[c].at \notin Writing \union {"idle"}, Return(c),
           UNCHANGED <<mem, disk, writes, events, ghosts>>
    PROVE  GoodStep
<1>1. op' = [op EXCEPT ![c] = Idle]
    BY DEF Return
<1>2. op'[c] = Idle
    BY <1>1, IdleIsACall, CallBecomes DEF FilesInv
<1>3. Standing(c)'
    BY <1>2, IdleIsACall DEF Standing, Writing
<1> QED BY <1>1, <1>3, IdleIsACall, GoOnIsGood

LEMMA LoadedIsGood ==
    ASSUME FilesInv, OneCallPerSession, OneCallPerSession', NEW c \in Clients, Loaded(c)
    PROVE  GoodStep
BY ReturnIsGood DEF Loaded, Writing

LEMMA SnapshotIsGood ==
    ASSUME FilesInv, OneCallPerSession, OneCallPerSession', NEW c \in Clients, Snapshot(c)
    PROVE  GoodStep
<1> DEFINE k == op[c].key
           f == [NoFile EXCEPT !.msgs = mem[k].msgs, !.exists = TRUE]
           r == [op[c] EXCEPT !.at = "meta", !.file = f]
<1>1. op[c] \in Calls /\ k \in Keys /\ op[c].todo \subseteq Keys \ {k} /\ Standing(c)
      /\ op[c].at = "snapshot"
    BY Here DEF Snapshot
<1>2. mem[k].cached /\ (op[c].kind = "SoftDelete" => mem[k].deleted) /\ op[c].todo = {}
    BY <1>1 DEF Standing, Writing
<1>3. op' = [op EXCEPT ![c] = r] /\ UNCHANGED <<mem, disk, writes, events, ghosts>>
    BY <1>2 DEF Snapshot
<1>4. f \in Sessions
    <2>1. mem[k].msgs \in Versions /\ 0 \in Versions
        BY <1>1, There, FilesAssumption DEF Cached, Versions
    <2> QED BY <2>1 DEF NoFile, Sessions
<1>5. /\ r \in Calls /\ r.key = k /\ r.kind = op[c].kind /\ r.todo = op[c].todo
      /\ r.file = f /\ r.at = "meta"
    BY <1>1, <1>4 DEF Calls, Steps, Writing
<1> HIDE DEF r, f
<1>6. r.key \notin r.todo
    BY <1>1, <1>5
<1>7. op'[c] = r
    BY <1>3, <1>5, <1>6, CallBecomes DEF FilesInv
<1>8. Standing(c)'
    <2>1. op'[c].file = [NoFile EXCEPT !.msgs = mem'[op'[c].key].msgs, !.exists = TRUE]
        BY <1>3, <1>5, <1>7 DEF f
    <2> QED BY <1>1, <1>2, <1>3, <1>5, <1>7, <2>1 DEF Standing, Writing
<1>9. r.at \in Writing
    BY <1>5 DEF Writing
<1> QED BY <1>1, <1>3, <1>5, <1>6, <1>8, <1>9, GoOnIsGood

LEMMA SameSession ==
    ASSUME NEW s \in Sessions, NEW t \in Sessions,
           s.msgs = t.msgs, s.title = t.title, s.deleted = t.deleted, s.exists = t.exists
    PROVE  s = t
BY DEF Sessions

LEMMA MetaIsGood ==
    ASSUME FilesInv, OneCallPerSession, OneCallPerSession', NEW c \in Clients, Meta(c)
    PROVE  GoodStep
<1> DEFINE k == op[c].key
           f == [op[c].file EXCEPT !.title = mem[k].title, !.deleted = mem[k].deleted]
           r == [op[c] EXCEPT !.at = "rename", !.file = f]
<1>1. op[c] \in Calls /\ k \in Keys /\ op[c].todo \subseteq Keys \ {k} /\ Standing(c)
      /\ op[c].at = "meta"
    BY Here DEF Meta
<1>2. /\ mem[k].cached /\ (op[c].kind = "SoftDelete" => mem[k].deleted) /\ op[c].todo = {}
      /\ op[c].file = [NoFile EXCEPT !.msgs = mem[k].msgs, !.exists = TRUE]
    BY <1>1 DEF Standing, Writing
<1>3. AsFile(mem[k]) \in Sessions
    BY <1>1, There DEF AsFile, Cached, Sessions
<1>4. f = AsFile(mem[k])
    <2>1. mem[k] \in Cached /\ mem[k].cached = TRUE
        BY <1>1, <1>2, There DEF Cached
    <2>2. op[c].file \in Sessions
        BY <1>1 DEF Calls, Files, Sessions
    <2>3. op[c].file.msgs = mem[k].msgs /\ op[c].file.exists = TRUE
        BY <1>2 DEF NoFile
    <2>4. f \in Sessions
        BY <2>1, <2>2 DEF Cached, Sessions
    <2>5. /\ f.msgs = op[c].file.msgs /\ f.exists = op[c].file.exists
          /\ f.title = mem[k].title /\ f.deleted = mem[k].deleted
        BY <2>2 DEF Sessions
    <2> HIDE DEF f
    <2>6. /\ AsFile(mem[k]).msgs = mem[k].msgs /\ AsFile(mem[k]).title = mem[k].title
          /\ AsFile(mem[k]).deleted = mem[k].deleted /\ AsFile(mem[k]).exists = mem[k].cached
        BY DEF AsFile
    <2> QED BY <1>3, <2>1, <2>3, <2>4, <2>5, <2>6, SameSession
<1>5. op' = [op EXCEPT ![c] = r] /\ UNCHANGED <<mem, disk, writes, events, ghosts>>
    BY <1>1 DEF Meta, Calls, Sessions, Files
<1>6. /\ r \in Calls /\ r.key = k /\ r.kind = op[c].kind /\ r.todo = op[c].todo
      /\ r.file = f /\ r.at = "rename"
    BY <1>1, <1>3, <1>4 DEF Calls, Steps, Writing
<1> HIDE DEF r, f
<1>7. r.key \notin r.todo
    BY <1>1, <1>6
<1>8. op'[c] = r
    BY <1>5, <1>6, <1>7, CallBecomes DEF FilesInv
<1>9. Standing(c)'
    BY <1>1, <1>2, <1>4, <1>5, <1>6, <1>8 DEF Standing, Writing
<1>10. r.at \in Writing
    BY <1>6 DEF Writing
<1> QED BY <1>1, <1>5, <1>6, <1>7, <1>9, <1>10, GoOnIsGood

-----------------------------------------------------------------------------
(* Calls that change the cache                                             *)

\* A step that changes the cache entry of one session, and no file.
LEMMA CacheStepIsGood ==
    ASSUME FilesInv, OneCallPerSession, OneCallPerSession',
           NEW c \in Clients, NEW r \in Calls, r.key \notin r.todo, op' = [op EXCEPT ![c] = r],
           NEW k \in Keys, op[c].at \in Writing => op[c].key = k,
           (op[c] # Idle /\ op[c].key = k) \/ (r # Idle /\ r.key = k),
           NEW m \in Cached, mem' = [mem EXCEPT ![k] = m],
           UNCHANGED <<disk, unsynced>>, acked' \in [Keys -> Versions],
           hidden' \subseteq hidden \union {k}, hidden \ {k} \subseteq hidden',
           writes' \in Versions, events' \in 0 .. MaxEvents,
           Standing(c)', Kept(k)',
           \/ Store!Similar(Latest'[k], Latest[k])
           \/ Latest'[k] = Latest[k]
           \/ Latest'[k] = disk[k]
    PROVE  GoodStep
<1>1. /\ op' \in [Clients -> Calls] /\ op'[c] = r
      /\ \A d \in Clients \ {c} : op'[d] = op[d]
      /\ \A d \in Clients : op'[d].key \in Keys /\ op'[d].todo \subseteq Keys \ {op'[d].key}
    BY CallBecomes DEF FilesInv
<1>2. mem \in [Keys -> Cached]
    BY DEF FilesInv, Typed, TypeOK, Cached
<1>3. mem' \in [Keys -> Cached] /\ \A j \in Keys \ {k} : mem'[j] = mem[j]
    BY <1>2
<1>4. TypeOK'
    <2>1. disk' \in [Keys -> Files \union {NoFile}]
        BY DEF FilesInv, Typed, TypeOK
    <2>2. hidden' \subseteq Keys /\ unsynced' \subseteq Keys
        BY DEF FilesInv, Typed, TypeOK
    <2> QED BY <1>1, <1>3, <2>1, <2>2 DEF TypeOK, Cached
<1>5. Touches(c, k)
    BY <1>1, <1>3 DEF Touches
<1>6. StoreStep(k)
    BY DEF StoreStep
<1> QED BY <1>4, <1>5, <1>6, StepIsGood

LEMMA LatestAfter ==
    ASSUME FilesInv, NEW k \in Keys, NEW m, mem' = [mem EXCEPT ![k] = m], disk' = disk
    PROVE  /\ mem'[k] = m
           /\ Latest'[k] = IF m.cached \/ ~disk[k].exists THEN AsFile(m) ELSE disk[k]
           /\ Latest[k] = IF mem[k].cached \/ ~disk[k].exists THEN AsFile(mem[k]) ELSE disk[k]
<1>1. mem'[k] = m
    BY DEF FilesInv, Typed, TypeOK
<1>2. Latest[k] = IF mem[k].cached \/ ~disk[k].exists THEN AsFile(mem[k]) ELSE disk[k]
    BY DEF Latest
<1>3. Latest'[k] = IF m.cached \/ ~disk[k].exists THEN AsFile(m) ELSE disk[k]
    BY <1>1 DEF Latest, AsFile
<1> QED BY <1>1, <1>2, <1>3

LEMMA InstallIsGood ==
    ASSUME FilesInv, OneCallPerSession, OneCallPerSession', NEW c \in Clients, Install(c)
    PROVE  GoodStep
<1>1. PICK k \in Keys : k = op[c].key
    BY Here
<1>2. /\ op[c] \in Calls /\ op[c].todo \subseteq Keys \ {k} /\ Standing(c) /\ op[c].at = "install"
      /\ op[c] # Idle
    BY <1>1, Here DEF Install
<1>3. /\ ~mem[k].cached /\ disk[k].exists /\ op[c].file = disk[k] /\ op[c].kind \in Loading
      /\ op[c].todo = {}
    BY <1>1, <1>2 DEF Standing, Writing
<1>4. mem[k] = Blank /\ disk[k] \in Files
    BY <1>3, There DEF Kept
<1> DEFINE m == Installed(mem[k], op[c].file)
           r == [op[c] EXCEPT !.at = "act", !.file = NoFile]
<1>5. m \in Cached /\ AsFile(m) = disk[k] /\ m.cached = TRUE /\ m.deleted = disk[k].deleted
    <2> DEFINE f == disk[k]
    <2>1. f.msgs \in Versions /\ f.title \in Versions /\ f.deleted \in BOOLEAN /\ f.exists = TRUE
        BY <1>4 DEF Files
    <2>2. 0 \in Versions
        BY FilesAssumption DEF Versions
    <2>3. mem[k].title = 0 /\ mem[k].deleted = FALSE
        BY <1>4 DEF Blank
    <2>4. (IF f.title # 0 THEN f.title ELSE mem[k].title) = f.title
        BY <2>3
    <2>5. (f.deleted \/ mem[k].deleted) = f.deleted
        BY <2>1, <2>3
    <2>6. m = [cached |-> TRUE, msgs |-> f.msgs, tasks |-> 0, title |-> f.title,
               deleted |-> f.deleted]
        BY <1>3, <2>4, <2>5 DEF Installed
    <2> HIDE DEF m
    <2>7. m \in Cached
        BY <2>1, <2>2, <2>6 DEF Cached
    <2>8. AsFile(m) = [msgs |-> f.msgs, title |-> f.title, deleted |-> f.deleted, exists |-> TRUE]
        BY <2>6 DEF AsFile
    <2>9. f = [msgs |-> f.msgs, title |-> f.title, deleted |-> f.deleted, exists |-> TRUE]
        BY <1>4 DEF Files
    <2> QED BY <2>6, <2>7, <2>8, <2>9
<1>6. mem' = [mem EXCEPT ![k] = m] /\ op' = [op EXCEPT ![c] = r]
      /\ UNCHANGED <<disk, writes, events, ghosts>>
    BY <1>1 DEF Install
<1>7. /\ r \in Calls /\ r.key = k /\ r.kind = op[c].kind /\ r.todo = {} /\ r.at = "act"
    <2>1. NoFile \in Sessions
        BY IdleIsACall, FilesAssumption DEF NoFile, Sessions, Versions
    <2> QED BY <1>1, <1>2, <1>3, <2>1 DEF Calls, Steps
<1> HIDE DEF r, m
<1>8. op'[c] = r
    BY <1>6, <1>7, CallBecomes DEF FilesInv
<1>9. mem'[k] = m /\ Latest'[k] = disk[k]
    BY <1>5, <1>6, LatestAfter
<1>10. Standing(c)'
    BY <1>3, <1>5, <1>7, <1>8, <1>9 DEF Standing, Writing
<1>11. Kept(k)'
    <2>1. Kept(k)
        BY There
    <2> QED BY <1>5, <1>6, <1>9, <2>1 DEF Kept, ghosts
<1>12. op[c].at \notin Writing
    BY <1>2 DEF Writing
<1>13. writes' \in Versions /\ events' \in 0 .. MaxEvents /\ acked' \in [Keys -> Versions]
    BY <1>6 DEF FilesInv, Typed, TypeOK, ghosts
<1> QED BY <1>1, <1>2, <1>5, <1>6, <1>7, <1>9, <1>10, <1>11, <1>12, <1>13, CacheStepIsGood
        DEF ghosts

\* A change of a session that persist is called for next.
LEMMA ChangeIsGood ==
    ASSUME FilesInv, OneCallPerSession, OneCallPerSession',
           NEW c \in Clients, op[c].at \notin Writing,
           NEW r \in Calls, r.at = "snapshot", r.todo = {}, op' = [op EXCEPT ![c] = r],
           NEW k \in Keys, r.key = k, mem[k].cached \/ ~disk[k].exists,
           NEW m \in Cached, m.cached, r.kind = "SoftDelete" => m.deleted,
           k \in hidden' => m.deleted, mem' = [mem EXCEPT ![k] = m],
           UNCHANGED <<disk, unsynced, acked>>,
           hidden' \subseteq hidden, hidden \ {k} \subseteq hidden',
           writes' \in Versions, events' \in 0 .. MaxEvents,
           Store!Similar(AsFile(m), AsFile(mem[k]))
    PROVE  GoodStep
<1>1. op'[c] = r
    BY CallBecomes DEF FilesInv
<1>2. mem'[k] = m /\ Latest'[k] = AsFile(m) /\ Latest[k] = AsFile(mem[k])
    <2>0. disk' = disk
        OBVIOUS
    <2>1. /\ mem'[k] = m
          /\ Latest'[k] = IF m.cached \/ ~disk[k].exists THEN AsFile(m) ELSE disk[k]
          /\ Latest[k] = IF mem[k].cached \/ ~disk[k].exists THEN AsFile(mem[k]) ELSE disk[k]
        BY ONLY FilesInv, mem' = [mem EXCEPT ![k] = m], <2>0, LatestAfter
    <2> QED BY <2>1
<1>3. Standing(c)'
    BY <1>1, <1>2 DEF Standing, Writing
<1>4. Kept(k)'
    <2>1. Kept(k)
        BY There
    <2> QED BY <1>1, <1>2, <2>1 DEF Kept, Writing
<1>5. r # Idle /\ acked' \in [Keys -> Versions]
    BY IdleIsACall DEF FilesInv, Typed, TypeOK
<1> QED BY <1>2, <1>3, <1>4, <1>5, CacheStepIsGood

\* A call that saves begins.
LEMMA SaveIsGood ==
    ASSUME FilesInv, OneCallPerSession, OneCallPerSession',
           NEW c \in Clients, NEW kind \in {"SaveHistory", "SaveAsyncTasks"}, NEW k \in Keys,
           Begin(c, kind, k), Write, NEW m \in Cached, mem' = [mem EXCEPT ![k] = m], m.cached,
           m.title = mem[k].title, m.deleted = mem[k].deleted,
           UNCHANGED <<disk, events, ghosts>>
    PROVE  GoodStep
<1> DEFINE r == [Idle EXCEPT !.kind = kind, !.key = k, !.at = "snapshot"]
<1>1. r \in Calls /\ r.key = k /\ r.kind = kind /\ r.todo = {} /\ r.at = "snapshot"
    BY IdleIsACall DEF Calls, Kinds, Steps, Writing, Idle
<1>2. op[c] = Idle /\ (mem[k].cached \/ ~disk[k].exists) /\ op' = [op EXCEPT ![c] = r]
    BY DEF Begin, LoadedFirst
<1> HIDE DEF r
<1>3. op[c].at \notin Writing
    BY <1>2, IdleIsACall DEF Writing
<1>4. k \in hidden => m.deleted
    BY <1>2, There DEF Kept
<1>5. Store!Similar(AsFile(m), AsFile(mem[k]))
    BY DEF Store!Similar, AsFile
<1>6. writes' \in Versions /\ events' \in 0 .. MaxEvents
    BY FilesAssumption DEF FilesInv, Typed, TypeOK, Write, Versions
<1> QED BY <1>1, <1>2, <1>3, <1>4, <1>5, <1>6, ChangeIsGood DEF ghosts

LEMMA SaveHistoryIsGood ==
    ASSUME FilesInv, OneCallPerSession, OneCallPerSession',
           NEW c \in Clients, NEW k \in Keys, SaveHistory(c, k)
    PROVE  GoodStep
<1> DEFINE m == [mem[k] EXCEPT !.cached = TRUE, !.msgs = writes + 1]
<1>1. mem \in [Keys -> Cached] /\ writes + 1 \in Versions
    BY FilesAssumption DEF FilesInv, Typed, TypeOK, Cached, SaveHistory, Write, Versions
<1>2. m \in Cached /\ m.cached /\ m.title = mem[k].title /\ m.deleted = mem[k].deleted
    BY <1>1 DEF Cached
<1>3. mem' = [mem EXCEPT ![k] = m]
    BY <1>1 DEF SaveHistory, Cached
<1> HIDE DEF m
<1> QED BY <1>2, <1>3, SaveIsGood DEF SaveHistory

LEMMA SaveAsyncTasksIsGood ==
    ASSUME FilesInv, OneCallPerSession, OneCallPerSession',
           NEW c \in Clients, NEW k \in Keys, SaveAsyncTasks(c, k)
    PROVE  GoodStep
<1> DEFINE m == [mem[k] EXCEPT !.cached = TRUE, !.tasks = writes + 1]
<1>1. mem \in [Keys -> Cached] /\ writes + 1 \in Versions
    BY FilesAssumption DEF FilesInv, Typed, TypeOK, Cached, SaveAsyncTasks, Write, Versions
<1>2. m \in Cached /\ m.cached /\ m.title = mem[k].title /\ m.deleted = mem[k].deleted
    BY <1>1 DEF Cached
<1>3. mem' = [mem EXCEPT ![k] = m]
    BY <1>1 DEF SaveAsyncTasks, Cached
<1> HIDE DEF m
<1> QED BY <1>2, <1>3, SaveIsGood DEF SaveAsyncTasks

\* What is known of a call whose session has been loaded.
LEMMA AtAct ==
    ASSUME FilesInv, NEW c \in Clients, op[c].at = "act"
    PROVE  /\ op[c] \in Calls /\ op[c].key \in Keys /\ op[c] # Idle /\ op[c].todo = {}
           /\ op[c].kind \in Loading /\ op[c].at \notin Writing \union {"idle"}
           /\ mem[op[c].key].cached \/ ~disk[op[c].key].exists
BY Here DEF Standing, Writing

\* Of a change of a loaded session, followed by persist.
LEMMA LoadedChangeIsGood ==
    ASSUME FilesInv, OneCallPerSession, OneCallPerSession',
           NEW c \in Clients, op[c].at = "act", Goto(c, "snapshot"),
           NEW k \in Keys, op[c].key = k,
           NEW m \in Cached, m.cached, op[c].kind = "SoftDelete" => m.deleted,
           k \in hidden' => m.deleted, mem' = [mem EXCEPT ![k] = m],
           UNCHANGED <<disk, unsynced, acked>>,
           hidden' \subseteq hidden, hidden \ {k} \subseteq hidden',
           writes' \in Versions, events' \in 0 .. MaxEvents,
           Store!Similar(AsFile(m), AsFile(mem[k]))
    PROVE  GoodStep
<1> DEFINE r == [op[c] EXCEPT !.at = "snapshot"]
<1>1. op[c] \in Calls /\ op[c].todo = {} /\ op[c].at \notin Writing
      /\ (mem[k].cached \/ ~disk[k].exists)
    BY AtAct
<1>2. r \in Calls /\ r.key = k /\ r.kind = op[c].kind /\ r.todo = {} /\ r.at = "snapshot"
    BY <1>1 DEF Calls, Steps, Writing
<1>3. op' = [op EXCEPT ![c] = r]
    BY <1>1 DEF Goto
<1> HIDE DEF r
<1> QED BY <1>1, <1>2, <1>3, ChangeIsGood

LEMMA SetTitleIsGood ==
    ASSUME FilesInv, OneCallPerSession, OneCallPerSession', NEW c \in Clients, SetTitle(c)
    PROVE  GoodStep
<1>1. PICK k \in Keys : k = op[c].key
    BY Here
<1>2. op[c].at = "act" /\ Write /\ UNCHANGED <<disk, events, ghosts>> /\ mem[k] \in Cached
      /\ op[c].kind \in {"SetTitle", "ClearTitle"}
    BY <1>1, There DEF SetTitle
<1>3. writes + 1 \in Versions /\ 0 \in Versions /\ writes' \in Versions
    BY <1>2, FilesAssumption DEF FilesInv, Typed, TypeOK, Write, Versions
<1>4. PICK t \in Versions : mem' = [mem EXCEPT ![k].title = t]
    BY <1>1, <1>3 DEF SetTitle
<1> DEFINE m == [mem[k] EXCEPT !.title = t]
<1>5. /\ m \in Cached /\ m.cached = mem[k].cached /\ m.msgs = mem[k].msgs
      /\ m.deleted = mem[k].deleted
    BY <1>2 DEF Cached
<1>6. mem' = [mem EXCEPT ![k] = m]
    BY <1>4 DEF FilesInv, Typed, TypeOK
<1> HIDE DEF m
<1>7. Store!Similar(AsFile(m), AsFile(mem[k]))
    BY <1>5 DEF Store!Similar, AsFile
<1>8. k \in hidden => disk[k].exists /\ (mem[k].cached => m.deleted)
    BY <1>5, There DEF Kept
<1>9. events' \in 0 .. MaxEvents /\ acked' \in [Keys -> Versions]
    BY <1>2 DEF FilesInv, Typed, TypeOK, ghosts
<1>10. CASE mem[k].cached
    <2>1. Goto(c, "snapshot")
        BY <1>1, <1>10 DEF SetTitle
    <2> QED BY <1>1, <1>2, <1>3, <1>5, <1>6, <1>7, <1>8, <1>9, <1>10, <2>1, LoadedChangeIsGood
            DEF ghosts
<1>11. CASE ~mem[k].cached
    <2>1. op' = [op EXCEPT ![c] = Idle]
        BY <1>1, <1>11 DEF SetTitle, Return
    <2>2. ~disk[k].exists /\ op[c] # Idle /\ op[c].at \notin Writing
        BY <1>1, <1>2, <1>11, AtAct
    <2>3. mem'[k] = m /\ Latest'[k] = AsFile(m) /\ Latest[k] = AsFile(mem[k])
        <3>1. /\ mem'[k] = m
              /\ Latest'[k] = IF m.cached \/ ~disk[k].exists THEN AsFile(m) ELSE disk[k]
              /\ Latest[k] = IF mem[k].cached \/ ~disk[k].exists THEN AsFile(mem[k]) ELSE disk[k]
            BY <1>2, <1>6, LatestAfter
        <3> QED BY <2>2, <3>1
    <2>4. op'[c] = Idle
        BY <2>1, IdleIsACall, CallBecomes DEF FilesInv
    <2>5. Standing(c)'
        BY <2>4, IdleIsACall DEF Standing, Writing
    <2>6. Kept(k)'
        BY <1>2, <1>5, <1>8, <1>11, <2>2, <2>3 DEF Kept, ghosts
    <2> QED BY <1>1, <1>2, <1>3, <1>5, <1>6, <1>7, <1>9, <2>1, <2>2, <2>3, <2>5, <2>6, IdleIsACall,
               CacheStepIsGood DEF ghosts
<1> QED BY <1>10, <1>11

LEMMA SoftDeleteIsGood ==
    ASSUME FilesInv, OneCallPerSession, OneCallPerSession', NEW c \in Clients, SoftDelete(c)
    PROVE  GoodStep
<1>1. PICK k \in Keys : k = op[c].key
    BY Here
<1>2. op[c].at = "act" /\ UNCHANGED <<disk, writes, events, unsynced, acked>> /\ mem[k] \in Cached
    BY <1>1, There DEF SoftDelete
<1>3. op[c] # Idle /\ op[c].at \notin Writing
    BY <1>2, AtAct
<1>4. writes' \in Versions /\ events' \in 0 .. MaxEvents
    BY <1>2 DEF FilesInv, Typed, TypeOK
<1>5. CASE mem[k].cached /\ ~mem[k].deleted
    <2> DEFINE m == [mem[k] EXCEPT !.deleted = TRUE]
    <2>1. mem' = [mem EXCEPT ![k].deleted = TRUE] /\ Goto(c, "snapshot") /\ UNCHANGED hidden
        BY <1>1, <1>5 DEF SoftDelete
    <2>2. /\ m \in Cached /\ m.cached = mem[k].cached /\ m.msgs = mem[k].msgs
          /\ m.title = mem[k].title /\ m.deleted
        BY <1>2 DEF Cached
    <2>3. mem' = [mem EXCEPT ![k] = m]
        BY <2>1 DEF FilesInv, Typed, TypeOK
    <2> HIDE DEF m
    <2>4. Store!Similar(AsFile(m), AsFile(mem[k]))
        BY <2>2 DEF Store!Similar, AsFile
    <2> QED BY <1>1, <1>2, <1>4, <1>5, <2>1, <2>2, <2>3, <2>4, LoadedChangeIsGood
<1>6. CASE ~(mem[k].cached /\ ~mem[k].deleted)
    <2>1. /\ hidden' = IF mem[k].cached /\ k \notin unsynced THEN hidden \union {k} ELSE hidden
          /\ op' = [op EXCEPT ![c] = Idle] /\ UNCHANGED mem
        BY <1>1, <1>6 DEF SoftDelete, Return
    <2>2. /\ op'[c] = Idle
          /\ \A d \in Clients \ {c} : op'[d] = op[d]
        BY <2>1, IdleIsACall, CallBecomes DEF FilesInv
    <2>3. Standing(c)'
        BY <2>2, IdleIsACall DEF Standing, Writing
    <2>4. Kept(k)'
        <3>1. Kept(k) /\ (disk[k].exists => disk[k] \in Files)
            BY There
        <3>2. ASSUME \A d \in Clients : op'[d].at \in Writing => op'[d].key # k
              PROVE  \A d \in Clients : op[d].at \in Writing => op[d].key # k
            BY <1>3, <2>2, <3>2
        <3>3. \A d \in Clients : op[d].at \in Writing => op[d].key # k
            <4> TAKE d \in Clients
            <4>1. CASE d = c
                BY <1>3, <4>1
            <4>2. CASE d # c /\ op[d].at \in Writing
                BY <1>1, <1>3, <4>2, Here DEF OneCallPerSession, Claim, Writing
            <4> QED BY <4>1, <4>2
        <3>4. mem[k].cached /\ k \notin unsynced => disk[k].exists /\ disk[k].deleted
            <4> SUFFICES ASSUME mem[k].cached, k \notin unsynced
                         PROVE  disk[k].exists /\ disk[k].deleted
                OBVIOUS
            <4>1. disk[k] = AsFile(mem[k]) /\ mem[k].deleted
                BY <1>6, <3>1, <3>3 DEF Kept
            <4>2. AsFile(mem[k]).exists = mem[k].cached /\ AsFile(mem[k]).deleted = mem[k].deleted
                BY DEF AsFile
            <4> QED BY <4>1, <4>2
        <3> QED BY <1>2, <1>6, <2>1, <3>1, <3>2, <3>4 DEF Kept
    <2> QED BY <1>1, <1>2, <1>3, <1>4, <2>1, <2>3, <2>4, IdleIsACall, QuietStepIsGood
<1> QED BY <1>5, <1>6

LEMMA RestoreIsGood ==
    ASSUME FilesInv, OneCallPerSession, OneCallPerSession', NEW c \in Clients, Restore(c)
    PROVE  GoodStep
<1>1. PICK k \in Keys : k = op[c].key
    BY Here
<1>2. /\ op[c].at = "act" /\ op[c].kind = "Restore" /\ hidden' = hidden \ {k}
      /\ UNCHANGED <<disk, writes, events, unsynced, acked>> /\ mem[k] \in Cached
    BY <1>1, There DEF Restore
<1>3. op[c] # Idle /\ op[c].at \notin Writing
    BY <1>2, AtAct
<1>4. writes' \in Versions /\ events' \in 0 .. MaxEvents
    BY <1>2 DEF FilesInv, Typed, TypeOK
<1>5. CASE mem[k].cached
    <2> DEFINE m == [mem[k] EXCEPT !.deleted = FALSE]
    <2>1. mem' = [mem EXCEPT ![k].deleted = FALSE] /\ Goto(c, "snapshot")
        BY <1>1, <1>5 DEF Restore
    <2>2. /\ m \in Cached /\ m.cached = mem[k].cached /\ m.msgs = mem[k].msgs
          /\ m.title = mem[k].title
        BY <1>2 DEF Cached
    <2>3. mem' = [mem EXCEPT ![k] = m]
        BY <2>1 DEF FilesInv, Typed, TypeOK
    <2> HIDE DEF m
    <2>4. Store!Similar(AsFile(m), AsFile(mem[k]))
        BY <2>2 DEF Store!Similar, AsFile
    <2> QED BY <1>1, <1>2, <1>4, <1>5, <2>1, <2>2, <2>3, <2>4, LoadedChangeIsGood
<1>6. CASE ~mem[k].cached
    <2>1. op' = [op EXCEPT ![c] = Idle] /\ UNCHANGED mem
        BY <1>1, <1>6 DEF Restore, Return
    <2>2. op'[c] = Idle
        BY <2>1, IdleIsACall, CallBecomes DEF FilesInv
    <2>3. Standing(c)'
        BY <2>2, IdleIsACall DEF Standing, Writing
    <2>4. Kept(k)'
        BY <1>2, <1>6, <2>1, There DEF Kept
    <2> QED BY <1>1, <1>2, <1>3, <1>4, <2>1, <2>3, <2>4, IdleIsACall, QuietStepIsGood
<1> QED BY <1>5, <1>6

LEMMA ForkIsGood ==
    ASSUME FilesInv, OneCallPerSession, OneCallPerSession', NEW c \in Clients, Fork(c)
    PROVE  GoodStep
<1>1. PICK k \in Keys : k = op[c].key
    BY Here
<1>2. op[c].at = "act" /\ op[c].kind = "Fork" /\ UNCHANGED <<disk, writes, events, ghosts>>
      /\ mem[k] \in Cached
    BY <1>1, There DEF Fork
<1>3. op[c] \in Calls /\ op[c].todo = {} /\ op[c].at \notin Writing \union {"idle"}
    BY <1>2, AtAct
<1>4. CASE ~mem[k].cached /\ Return(c) /\ UNCHANGED mem
    BY <1>2, <1>3, <1>4, ReturnIsGood
<1>5. ASSUME NEW new \in Keys, mem[new] = Blank, ~disk[new].exists,
             mem' = [mem EXCEPT ![new].cached = TRUE, ![new].msgs = mem[k].msgs],
             op' = [op EXCEPT ![c].key = new, ![c].at = "snapshot"]
      PROVE  GoodStep
    <2> DEFINE m == [mem[new] EXCEPT !.cached = TRUE, !.msgs = mem[k].msgs]
               r == [op[c] EXCEPT !.key = new, !.at = "snapshot"]
    <2>1. mem[new] \in Cached /\ mem[k].msgs \in Versions
        BY <1>2, There DEF Cached
    <2>2. /\ m \in Cached /\ m.cached /\ m.title = mem[new].title /\ m.deleted = mem[new].deleted
        BY <2>1 DEF Cached
    <2>3. mem' = [mem EXCEPT ![new] = m]
        BY <1>5 DEF FilesInv, Typed, TypeOK
    <2>4. r \in Calls /\ r.key = new /\ r.kind = "Fork" /\ r.todo = {} /\ r.at = "snapshot"
        BY <1>2, <1>3 DEF Calls, Steps, Writing
    <2>5. op' = [op EXCEPT ![c] = r]
        BY <1>3, <1>5 DEF FilesInv, Typed
    <2> HIDE DEF m, r
    <2>6. Store!Similar(AsFile(m), AsFile(mem[new]))
        BY <2>2 DEF Store!Similar, AsFile
    <2>7. new \notin hidden
        BY <1>5, There DEF Kept
    <2>8. writes' \in Versions /\ events' \in 0 .. MaxEvents
        BY <1>2 DEF FilesInv, Typed, TypeOK
    <2>9. /\ UNCHANGED <<disk, unsynced, acked>> /\ hidden' = hidden /\ op[c].at \notin Writing
          /\ r.kind # "SoftDelete" /\ (mem[new].cached \/ ~disk[new].exists)
        BY <1>2, <1>3, <1>5, <2>4 DEF ghosts
    <2> QED BY <2>2, <2>3, <2>4, <2>5, <2>6, <2>7, <2>8, <2>9, ChangeIsGood
<1>6. \/ ~mem[k].cached /\ Return(c) /\ UNCHANGED mem
      \/ \E new \in Keys :
            /\ mem[new] = Blank /\ ~disk[new].exists
            /\ mem' = [mem EXCEPT ![new].cached = TRUE, ![new].msgs = mem[k].msgs]
            /\ op' = [op EXCEPT ![c].key = new, ![c].at = "snapshot"]
    BY <1>1 DEF Fork
<1> QED BY <1>4, <1>5, <1>6

LEMMA PurgeKeyIsGood ==
    ASSUME FilesInv, OneCallPerSession, OneCallPerSession', NEW c \in Clients, PurgeKey(c)
    PROVE  GoodStep
<1>1. PICK k \in Keys : k = op[c].key
    BY Here
<1>2. /\ op[c].at = "purge" /\ mem' = [mem EXCEPT ![k] = Blank] /\ hidden' = hidden \ {k}
      /\ acked' = [acked EXCEPT ![k] = 0] /\ UNCHANGED <<disk, writes, events, unsynced>>
    BY <1>1 DEF PurgeKey
<1>3. op[c] \in Calls /\ op[c] # Idle /\ op[c].todo \subseteq Keys \ {k} /\ op[c].at \notin Writing
    BY <1>1, <1>2, Here DEF Writing
<1> DEFINE r == [op[c] EXCEPT !.at = "remove"]
<1>4. r \in Calls /\ r.key = k /\ r.todo = op[c].todo /\ r.at = "remove"
    BY <1>1, <1>3 DEF Calls, Steps
<1>5. op' = [op EXCEPT ![c] = r]
    BY <1>3 DEF PurgeKey, Goto
<1> HIDE DEF r
<1>6. r.key \notin r.todo
    BY <1>3, <1>4
<1>7. 0 \in Versions
    BY FilesAssumption DEF Versions
<1>8. Blank \in Cached /\ Blank.cached = FALSE
    BY <1>7 DEF Blank, Cached
<1>9. mem'[k] = Blank /\ Latest'[k] = disk[k]
    <2>1. mem'[k] = Blank
        BY <1>2 DEF FilesInv, Typed, TypeOK
    <2>2. AsFile(Blank) = NoFile
        BY DEF AsFile, Blank, NoFile
    <2>3. Latest'[k] = IF ~disk[k].exists THEN NoFile ELSE disk[k]
        BY <1>2, <1>8, <2>1, <2>2 DEF Latest
    <2> QED BY <2>1, <2>3, There
<1>10. op'[c] = r
    BY <1>4, <1>5, <1>6, CallBecomes DEF FilesInv
<1>11. Standing(c)'
    BY <1>2, <1>4, <1>9, <1>10 DEF Standing, Writing
<1>12. Kept(k)'
    BY <1>2, <1>8, <1>9 DEF Kept
<1>13. writes' \in Versions /\ events' \in 0 .. MaxEvents /\ acked' \in [Keys -> Versions]
    BY <1>2, <1>7 DEF FilesInv, Typed, TypeOK
<1> QED BY <1>1, <1>2, <1>3, <1>4, <1>5, <1>6, <1>8, <1>9, <1>11, <1>12, <1>13, CacheStepIsGood

-----------------------------------------------------------------------------
(* Calls that write or remove a file, and restarts                         *)

\* A step that changes one file at most, and no cache entry.
LEMMA FileStepIsGood ==
    ASSUME FilesInv, OneCallPerSession, OneCallPerSession',
           NEW c \in Clients, NEW r \in Calls, r.key \notin r.todo, op' = [op EXCEPT ![c] = r],
           NEW k \in Keys, op[c] # Idle, op[c].key = k,
           NEW f \in Files \union {NoFile}, disk' = [disk EXCEPT ![k] = f], mem' = mem,
           unsynced' \subseteq unsynced \union {k}, unsynced \ {k} \subseteq unsynced',
           hidden' \subseteq hidden \union {k}, hidden \ {k} \subseteq hidden',
           acked' \in [Keys -> Versions], writes' \in Versions, events' \in 0 .. MaxEvents,
           Standing(c)', Kept(k)', StoreStep(k)
    PROVE  GoodStep
<1>1. /\ op' \in [Clients -> Calls] /\ op'[c] = r
      /\ \A d \in Clients \ {c} : op'[d] = op[d]
      /\ \A d \in Clients : op'[d].key \in Keys /\ op'[d].todo \subseteq Keys \ {op'[d].key}
    BY CallBecomes DEF FilesInv
<1>2. disk \in [Keys -> Files \union {NoFile}]
    BY DEF FilesInv, Typed, TypeOK
<1>3. /\ disk' \in [Keys -> Files \union {NoFile}]
      /\ \A j \in Keys \ {k} : disk'[j] = disk[j]
    BY <1>2
<1>4. TypeOK'
    <2>1. mem' \in [Keys -> Cached]
        BY DEF FilesInv, Typed, TypeOK, Cached
    <2>2. hidden' \subseteq Keys /\ unsynced' \subseteq Keys
        BY DEF FilesInv, Typed, TypeOK
    <2> QED BY <1>1, <1>3, <2>1, <2>2 DEF TypeOK, Cached
<1>5. Touches(c, k)
    BY <1>1, <1>3 DEF Touches
<1> QED BY <1>4, <1>5, StepIsGood

LEMMA RenameIsGood ==
    ASSUME FilesInv, OneCallPerSession, OneCallPerSession', NEW c \in Clients, Rename(c)
    PROVE  GoodStep
<1>1. PICK k \in Keys : k = op[c].key
    BY Here
<1>2. op[c].at = "rename" /\ op' = [op EXCEPT ![c] = Idle] /\ UNCHANGED <<mem, writes>>
    BY DEF Rename, Return
<1>3. op[c] # Idle /\ Standing(c)
    BY <1>2, Here
<1>4. /\ mem[k].cached /\ (op[c].kind = "SoftDelete" => mem[k].deleted)
      /\ op[c].file = AsFile(mem[k])
    BY <1>1, <1>2, <1>3 DEF Standing, Writing
<1>5. mem[k] \in Cached /\ mem[k].cached = TRUE
    BY <1>4, There DEF Cached
<1>6. AsFile(mem[k]) \in Files
    BY <1>5 DEF AsFile, Cached, Files
<1>7. op'[c] = Idle
    BY <1>2, IdleIsACall, CallBecomes DEF FilesInv
<1>8. Standing(c)'
    BY <1>7, IdleIsACall DEF Standing, Writing
<1>9. writes' \in Versions
    BY <1>2 DEF FilesInv, Typed, TypeOK
<1>10. disk \in [Keys -> Files \union {NoFile}] /\ acked \in [Keys -> Versions]
    BY DEF FilesInv, Typed, TypeOK
<1>11. Latest[k] = AsFile(mem[k])
    BY <1>4 DEF Latest
<1>12. CASE /\ disk' = [disk EXCEPT ![k] = AsFile(mem[k])]
            /\ unsynced' = unsynced \ {k}
            /\ acked' = IF op[c].kind = "SaveAsyncTasks"
                        THEN [acked EXCEPT ![k] = mem[k].tasks] ELSE acked
            /\ hidden' = IF op[c].kind = "SoftDelete" THEN hidden \union {k} ELSE hidden
            /\ UNCHANGED events
    <2>1. disk'[k] = AsFile(mem[k])
        BY <1>10, <1>12
    <2>2. Latest'[k] = AsFile(mem[k])
        BY <1>2, <1>4 DEF Latest
    <2>3. StoreStep(k)
        BY <1>11, <2>1, <2>2 DEF StoreStep
    <2>4. acked' \in [Keys -> Versions] /\ events' \in 0 .. MaxEvents
        BY <1>5, <1>10, <1>12 DEF FilesInv, Typed, TypeOK, Cached
    <2>5. /\ AsFile(mem[k]).exists = mem[k].cached
          /\ AsFile(mem[k]).deleted = mem[k].deleted
        BY DEF AsFile
    <2>6. Kept(k)'
        <3>1. k \in hidden' => mem[k].deleted
            BY <1>4, <1>12, There DEF Kept
        <3> QED BY <1>2, <1>4, <2>1, <2>5, <3>1 DEF Kept
    <2> QED BY <1>1, <1>2, <1>3, <1>6, <1>8, <1>9, <1>12, <2>3, <2>4, <2>6, IdleIsACall,
               FileStepIsGood
<1>13. CASE Event /\ unsynced' = unsynced \union {k} /\ UNCHANGED <<disk, acked, hidden>>
    <2>1. disk' = [disk EXCEPT ![k] = disk[k]] /\ disk[k] \in Files \union {NoFile}
        BY <1>10, <1>13
    <2>2. StoreStep(k)
        BY <1>2, <1>13 DEF StoreStep, Latest
    <2>3. events' \in 0 .. MaxEvents /\ acked' \in [Keys -> Versions]
        BY <1>10, <1>13, FilesAssumption DEF FilesInv, Typed, TypeOK, Event
    <2>4. Kept(k)'
        BY <1>2, <1>4, <1>13, There DEF Kept
    <2> QED BY <1>1, <1>2, <1>3, <1>8, <1>9, <1>13, <2>1, <2>2, <2>3, <2>4, IdleIsACall,
               FileStepIsGood
<1> QED BY <1>1, <1>4, <1>12, <1>13 DEF Rename

LEMMA RemoveFileIsGood ==
    ASSUME FilesInv, OneCallPerSession, OneCallPerSession', NEW c \in Clients, RemoveFile(c)
    PROVE  GoodStep
<1>1. PICK k \in Keys : k = op[c].key
    BY Here
<1>2. op[c].at = "remove" /\ UNCHANGED <<mem, writes, acked, hidden>>
    BY DEF RemoveFile
<1>3. /\ op[c] \in Calls /\ op[c] # Idle /\ Standing(c) /\ op[c].todo \subseteq Keys \ {k}
    BY <1>1, <1>2, Here
<1>4. mem[k] = Blank /\ k \notin hidden /\ mem[k].cached = FALSE
    BY <1>1, <1>2, <1>3 DEF Standing, Writing, Blank
<1>5. writes' \in Versions /\ acked' \in [Keys -> Versions]
    BY <1>2 DEF FilesInv, Typed, TypeOK
<1>6. disk \in [Keys -> Files \union {NoFile}]
    BY DEF FilesInv, Typed, TypeOK
<1>7. ASSUME disk' = [disk EXCEPT ![k] = NoFile], unsynced' = unsynced \ {k}, UNCHANGED events,
             NEW r \in Calls, r.key \notin r.todo, op' = [op EXCEPT ![c] = r], Standing(c)'
      PROVE  GoodStep
    <2>1. disk'[k] = NoFile /\ ~NoFile.exists
        BY <1>6, <1>7 DEF NoFile
    <2>2. Latest'[k] = NoFile
        <3>1. AsFile(Blank) = NoFile
            BY DEF AsFile, Blank, NoFile
        <3>2. Latest'[k] = AsFile(mem'[k])
            BY <2>1 DEF Latest
        <3> QED BY <1>2, <1>4, <3>1, <3>2
    <2>3. StoreStep(k)
        BY <2>1, <2>2 DEF StoreStep
    <2>4. Kept(k)'
        BY <1>2, <1>4, <2>1 DEF Kept
    <2>5. events' \in 0 .. MaxEvents
        BY <1>7 DEF FilesInv, Typed, TypeOK
    <2> QED BY <1>1, <1>2, <1>3, <1>5, <1>7, <2>3, <2>4, <2>5, FileStepIsGood
<1>8. CASE disk' = [disk EXCEPT ![k] = NoFile] /\ unsynced' = unsynced \ {k} /\ UNCHANGED events
           /\ Return(c)
    <2>1. op' = [op EXCEPT ![c] = Idle]
        BY <1>8 DEF Return
    <2>2. op'[c] = Idle
        BY <2>1, IdleIsACall, CallBecomes DEF FilesInv
    <2>3. Standing(c)'
        BY <2>2, IdleIsACall DEF Standing, Writing
    <2> QED BY <1>7, <1>8, <2>1, <2>3, IdleIsACall
<1>9. ASSUME disk' = [disk EXCEPT ![k] = NoFile], unsynced' = unsynced \ {k}, UNCHANGED events,
             NEW j \in op[c].todo,
             op' = [op EXCEPT ![c].key = j, ![c].at = "purge", ![c].todo = @ \ {j}]
      PROVE  GoodStep
    <2> DEFINE r == [op[c] EXCEPT !.key = j, !.at = "purge", !.todo = @ \ {j}]
    <2>1. r \in Calls /\ r.key \notin r.todo /\ r.at = "purge"
        BY <1>3, <1>9 DEF Calls, Steps
    <2>2. op' = [op EXCEPT ![c] = r]
        BY <1>3, <1>9 DEF FilesInv, Typed
    <2> HIDE DEF r
    <2>3. op'[c] = r
        BY <2>1, <2>2, CallBecomes DEF FilesInv
    <2>4. Standing(c)'
        BY <2>1, <2>3 DEF Standing, Writing
    <2> QED BY <1>7, <1>9, <2>1, <2>2, <2>4
<1>10. CASE Event /\ unsynced' = unsynced \union {k} /\ Return(c) /\ UNCHANGED disk
    <2>1. op' = [op EXCEPT ![c] = Idle]
        BY <1>10 DEF Return
    <2>2. op'[c] = Idle
        BY <2>1, IdleIsACall, CallBecomes DEF FilesInv
    <2>3. Standing(c)'
        BY <2>2, IdleIsACall DEF Standing, Writing
    <2>4. disk' = [disk EXCEPT ![k] = disk[k]] /\ disk[k] \in Files \union {NoFile}
        BY <1>6, <1>10
    <2>5. StoreStep(k)
        BY <1>2, <1>10 DEF StoreStep, Latest
    <2>6. events' \in 0 .. MaxEvents
        BY <1>10, FilesAssumption DEF FilesInv, Typed, TypeOK, Event
    <2>7. Kept(k)'
        BY <1>2, <1>4, <1>10 DEF Kept
    <2> QED BY <1>1, <1>2, <1>3, <1>5, <1>10, <2>1, <2>3, <2>4, <2>5, <2>6, <2>7, IdleIsACall,
               FileStepIsGood
<1> QED BY <1>1, <1>8, <1>9, <1>10 DEF RemoveFile, Proceed

LEMMA RestartIsGood ==
    ASSUME FilesInv, Restart
    PROVE  GoodStep
<1>1. /\ mem' = [k \in Keys |-> Blank] /\ op' = [c \in Clients |-> Idle] /\ unsynced' = {}
      /\ UNCHANGED <<disk, writes, acked, hidden>> /\ Event
    BY DEF Restart
<1>2. 0 \in Versions
    BY FilesAssumption DEF Versions
<1>3. Blank \in Cached /\ Blank.cached = FALSE /\ AsFile(Blank) = NoFile
    BY <1>2 DEF Blank, Cached, AsFile, NoFile
<1>4. Typed'
    <2>1. mem' \in [Keys -> Cached] /\ op' \in [Clients -> Calls]
        BY <1>1, <1>3, IdleIsACall
    <2>2. \A c \in Clients : op'[c].key \in Keys /\ op'[c].todo \subseteq Keys \ {op'[c].key}
        BY <1>1, IdleIsACall
    <2>3. /\ disk' \in [Keys -> Files \union {NoFile}] /\ writes' \in Versions
          /\ hidden' \subseteq Keys /\ acked' \in [Keys -> Versions] /\ events' \in 0 .. MaxEvents
        BY <1>1, FilesAssumption DEF FilesInv, Typed, TypeOK, Event
    <2> QED BY <1>1, <2>1, <2>2, <2>3 DEF Typed, TypeOK, Cached
<1>5. \A c \in Clients : Standing(c)'
    BY <1>1, IdleIsACall DEF Standing, Writing
<1>6. \A k \in Keys : Kept(k)'
    <2> TAKE k \in Keys
    <2>1. mem'[k] = Blank /\ Kept(k)
        BY <1>1, There
    <2> QED BY <1>1, <1>3, <2>1 DEF Kept
<1>7. Latest' = disk
    <2>1. ASSUME NEW k \in Keys
          PROVE  Latest'[k] = disk[k]
        BY <1>1, <1>3, There DEF Latest
    <2>2. disk = [k \in Keys |-> disk[k]] /\ Latest' = [k \in Keys |-> Latest'[k]]
        BY DEF FilesInv, Typed, TypeOK, Latest
    <2> QED BY <2>1, <2>2
<1>8. Store!Next
    BY <1>1, <1>7 DEF Store!Next, Store!Restart
<1> QED BY <1>4, <1>5, <1>6, <1>8 DEF GoodStep, FilesInv

-----------------------------------------------------------------------------
(* The theorems                                                            *)

LEMMA InitIsGood == Init => FilesInv /\ Store!Init
<1> SUFFICES ASSUME Init PROVE FilesInv /\ Store!Init
    OBVIOUS
<1>1. /\ mem = [k \in Keys |-> Blank] /\ op = [c \in Clients |-> Idle] /\ unsynced = {}
      /\ disk = [k \in Keys |-> NoFile] /\ writes = 0 /\ events = 0 /\ hidden = {}
      /\ acked = [k \in Keys |-> 0]
    BY DEF Init
<1>2. 0 \in Versions /\ 0 \in 0 .. MaxEvents
    BY FilesAssumption DEF Versions
<1>3. Blank \in Cached /\ Blank.cached = FALSE /\ AsFile(Blank) = NoFile
    BY <1>2 DEF Blank, Cached, AsFile, NoFile
<1>4. Typed
    <2>1. mem \in [Keys -> Cached] /\ op \in [Clients -> Calls]
        BY <1>1, <1>3, IdleIsACall
    <2>2. \A c \in Clients : op[c].key \in Keys /\ op[c].todo \subseteq Keys \ {op[c].key}
        BY <1>1, IdleIsACall
    <2> QED BY <1>1, <1>2, <2>1, <2>2 DEF Typed, TypeOK, Cached
<1>5. \A c \in Clients : Standing(c)
    BY <1>1, IdleIsACall DEF Standing, Writing
<1>6. \A k \in Keys : Kept(k)
    <2> TAKE k \in Keys
    <2>1. mem[k] = Blank /\ disk[k] = NoFile /\ ~NoFile.exists
        BY <1>1 DEF NoFile
    <2> QED BY <1>1, <1>3, <2>1 DEF Kept
<1>7. Latest = [k \in Keys |-> NoFile]
    <2>1. \A k \in Keys : mem[k] = Blank /\ disk[k] = NoFile
        BY <1>1
    <2> QED BY <1>3, <2>1 DEF Latest
<1> QED BY <1>1, <1>4, <1>5, <1>6, <1>7 DEF FilesInv, Store!Init

LEMMA NextIsGood ==
    FilesInv /\ OneCallPerSession /\ OneCallPerSession' /\ [Next]_vars => GoodStep
<1> SUFFICES ASSUME FilesInv, OneCallPerSession, OneCallPerSession', [Next]_vars
             PROVE  GoodStep
    OBVIOUS
<1>1. ASSUME NEW c \in Clients, NEW k \in Keys,
             \/ \E kind \in Loading : Load(c, kind, k)
             \/ SaveHistory(c, k) \/ SaveAsyncTasks(c, k) \/ Delete(c, k)
      PROVE  GoodStep
    BY <1>1, LoadIsGood, SaveHistoryIsGood, SaveAsyncTasksIsGood, DeleteIsGood
<1>2. ASSUME NEW c \in Clients,
             \/ ReadFile(c) \/ Install(c) \/ Loaded(c)
             \/ SetTitle(c) \/ SoftDelete(c) \/ Restore(c) \/ Fork(c)
      PROVE  GoodStep
    BY <1>2, ReadFileIsGood, InstallIsGood, LoadedIsGood, SetTitleIsGood, SoftDeleteIsGood,
       RestoreIsGood, ForkIsGood
<1>3. ASSUME NEW c \in Clients,
             \/ Snapshot(c) \/ Meta(c) \/ Rename(c)
             \/ PurgeKey(c) \/ RemoveFile(c) \/ PurgeDeletedBefore(c)
      PROVE  GoodStep
    BY <1>3, SnapshotIsGood, MetaIsGood, RenameIsGood, PurgeKeyIsGood, RemoveFileIsGood,
       PurgeDeletedBeforeIsGood
<1>4. CASE Restart
    BY <1>4, RestartIsGood
<1>5. CASE UNCHANGED vars
    <2>1. FilesInv'
        BY <1>5 DEF FilesInv, Typed, TypeOK, Standing, Kept, vars
    <2>2. UNCHANGED <<Latest, disk>>
        BY <1>5 DEF Latest, vars
    <2> QED BY <2>1, <2>2 DEF GoodStep
<1> QED BY <1>1, <1>2, <1>3, <1>4, <1>5 DEF Next

\* The inductive invariant of the file session manager: what a call has found
\* out is still so when it acts on it, and cache and file differ only where a
\* call is under way or the last one failed (getOrCreateSession, persist).
THEOREM FilesInvariant == Spec /\ []OneCallPerSession => []FilesInv
<1>1. FilesInv /\ OneCallPerSession /\ OneCallPerSession' /\ [Next]_vars => FilesInv'
    BY NextIsGood DEF GoodStep
<1> QED BY <1>1, InitIsGood, PTL DEF Spec

LEMMA InvariantKeepsPromises == FilesInv => FilesKeepPromises
<1> SUFFICES ASSUME FilesInv PROVE FilesKeepPromises
    OBVIOUS
<1>1. TypeOK
    BY DEF FilesInv, Typed
<1>2. SavesAreAtomic
    <2> SUFFICES ASSUME NEW k \in Keys, mem[k].cached, Quiet(k), k \notin unsynced
                 PROVE  disk[k] = AsFile(mem[k])
        BY DEF SavesAreAtomic
    <2>1. \A c \in Clients : op[c].at \in Writing => op[c].key # k
        BY IdleIsACall DEF Quiet, Writing
    <2> QED BY <2>1, There DEF Kept
<1>3. HiddenIsNotListed
    <2> SUFFICES ASSUME NEW k \in hidden PROVE k \notin Query(FALSE)
        BY DEF HiddenIsNotListed
    <2>1. k \in Keys
        BY <1>1 DEF TypeOK
    <2>2. disk[k].deleted /\ (mem[k].cached => mem[k].deleted)
        BY <2>1, There DEF Kept
    <2> QED BY <2>2 DEF Query, Seen, Unhidden
<1> QED BY <1>1, <1>2, <1>3 DEF FilesKeepPromises

\* Whatever calls on different sessions overlap, fail or are cut short by a
\* restart: once the calls on a session have returned without an error its
\* file is what the cache says, and a session whose SoftDelete succeeded is not
\* listed until it is restored (persist, SoftDelete, Query).
THEOREM FilesAlwaysKeepPromises == Spec /\ []OneCallPerSession => []FilesKeepPromises
BY FilesInvariant, InvariantKeepsPromises, PTL

\* The manager implements the store: each call, interrupted at any step by a
\* failure or a restart, changes one part of a session, makes a whole session
\* durable, or removes it (session_manager.go).
THEOREM FilesImplementStore == Spec /\ []OneCallPerSession => ImplementsStore
<1>1. FilesInv /\ OneCallPerSession /\ OneCallPerSession' /\ [Next]_vars
        => [Store!Next]_<<Latest, disk>>
    BY NextIsGood DEF GoodStep
<1>2. Init => Store!Init
    BY InitIsGood
<1> QED BY <1>1, <1>2, FilesInvariant, PTL DEF Spec, ImplementsStore, Store!Spec

\* A caller that runs one call at a time needs no assumption: for one client
\* the promises and the refinement hold of every behaviour.
THEOREM OneClientNeedsNothing ==
    ASSUME \A c, d \in Clients : c = d
    PROVE  Spec => []FilesKeepPromises /\ ImplementsStore
<1>1. OneCallPerSession
    BY DEF OneCallPerSession
<1>2. []OneCallPerSession
    BY <1>1, PTL
<1> QED BY <1>2, FilesAlwaysKeepPromises, FilesImplementStore, PTL

-----------------------------------------------------------------------------
(***************************************************************************)
(* Long-term memory keeps what it was told, for any scopes, caps, runs and *)
(* consolidations under way.  A consolidation that nobody wrote beside     *)
(* replaces the very notes it has listed, and the wait group counts the    *)
(* consolidations there are.                                               *)
(***************************************************************************)

Jobs == [scope : Scopes, run : Nat, at : {"read", "list", "merge", "replace"},
         upTo : Nat, seen : SUBSET Nat, keys : SUBSET Nat]

NotesTypeOK ==
    /\ notes \in [Scopes -> Seq(Nat)] /\ taught \in [Scopes -> SUBSET Nat]
    /\ DOMAIN block = Scopes /\ DOMAIN fire = Scopes
    /\ ended \in [Scopes -> Nat] /\ puts \in Nat /\ raced \subseteq Scopes
    /\ jobs \subseteq Jobs /\ \A j \in jobs : IsFiniteSet(j.seen) /\ IsFiniteSet(j.keys)
    /\ shut.jobs \subseteq Jobs /\ DOMAIN shut = {"at", "jobs"}

JobsAreCounted ==
    /\ IsFiniteSet(jobs) /\ bg = Cardinality(jobs)
    /\ \A j \in jobs \union shut.jobs : j.run <= ended[j.scope]
    /\ \A j, k \in jobs : j.scope = k.scope /\ j.run = k.run => j = k

SeenIsThere ==
    \A j \in jobs : j.at \in {"merge", "replace"} /\ j.scope \notin raced
                    => j.seen = SetOfNotes(notes[j.scope])

ShutIsPast ==
    shut.at \in {"drained", "nil"} =>
        \A j \in shut.jobs : ~\E k \in jobs : k.scope = j.scope /\ k.run = j.run

NotesInv ==
    /\ NotesTypeOK /\ JobsAreCounted /\ SeenIsThere /\ ShutIsPast
    /\ NotesAreKept

USE MemoryAssumption

LEMMA NotesOfSequence ==
    ASSUME NEW s \in Seq(Nat)
    PROVE  SetOfNotes(s) \in SUBSET Nat /\ IsFiniteSet(SetOfNotes(s))
<1>1. PICK n \in Nat : n = Len(s) /\ DOMAIN s = 1 .. n
  BY LenProperties
<1>2. IsFiniteSet(DOMAIN s)
  <2>1. 1 \in Int /\ n \in Int
    OBVIOUS
  <2> QED
    BY <1>1, <2>1, FS_Interval
<1>3. s \in Surjection(DOMAIN s, SetOfNotes(s))
  <2>1. s \in [DOMAIN s -> SetOfNotes(s)]
    BY <1>1 DEF SetOfNotes
  <2>2. \A x \in SetOfNotes(s) : \E i \in DOMAIN s : s[i] = x
    BY DEF SetOfNotes
  <2> QED
    BY <2>1, <2>2 DEF Surjection
<1>4. SetOfNotes(s) \in SUBSET Nat
  BY ElementOfSeq, <1>1 DEF SetOfNotes
<1> QED
  BY <1>2, <1>3, <1>4, FS_Surjection

LEMMA OthersRemain ==
    ASSUME NEW s \in Seq(Nat), NEW key
    PROVE  /\ WithoutNote(s, key) \in Seq(Nat)
           /\ SetOfNotes(s) \ {key} \subseteq SetOfNotes(WithoutNote(s, key))
<1>1. CASE key \notin SetOfNotes(s)
  BY <1>1 DEF WithoutNote
<1>2. CASE key \in SetOfNotes(s)
  <2>1. PICK n \in Nat : n = Len(s) /\ DOMAIN s = 1 .. n
    BY LenProperties
  <2>2. PICK i \in 1 .. n : s[i] = key /\ WithoutNote(s, key) = RemoveAt(s, i)
    <3>1. \E i \in DOMAIN s : s[i] = key
      BY <1>2 DEF SetOfNotes
    <3> QED
      BY <1>2, <2>1, <3>1 DEF WithoutNote
  <2>3. PICK w : w = RemoveAt(s, i)
    OBVIOUS
  <2>4. /\ w \in Seq(Nat) /\ DOMAIN w = 1 .. n - 1
        /\ \A k \in 1 .. n - 1 : w[k] = IF k < i THEN s[k] ELSE s[k + 1]
    <3>1. /\ w \in Seq(Nat) /\ Len(w) = n - 1
          /\ \A k \in 1 .. n - 1 : w[k] = IF k < i THEN s[k] ELSE s[k + 1]
      BY <2>1, <2>3, RemoveAtProperties
    <3> QED
      BY <2>1, <3>1, LenProperties
  <2>5. ASSUME NEW x \in SetOfNotes(s) \ {key} PROVE x \in SetOfNotes(w)
    <3>1. PICK k \in 1 .. n : s[k] = x /\ k # i
      BY <2>1, <2>2, <2>5 DEF SetOfNotes
    <3>2. CASE k < i
      <4>1. k \in 1 .. n - 1
        BY <2>2, <3>1, <3>2
      <4>2. w[k] = x
        BY <2>4, <3>1, <3>2, <4>1
      <4> QED
        BY <2>4, <4>1, <4>2 DEF SetOfNotes
    <3>3. CASE k > i
      <4>1. k - 1 \in 1 .. n - 1 /\ ~(k - 1 < i) /\ k - 1 + 1 = k
        BY <2>2, <3>1, <3>3
      <4>2. w[k - 1] = x
        BY <2>4, <3>1, <4>1
      <4> QED
        BY <2>4, <4>1, <4>2 DEF SetOfNotes
    <3> QED
      BY <2>2, <3>1, <3>2, <3>3
  <2> QED
    BY <2>2, <2>3, <2>4, <2>5
<1> QED
  BY <1>1, <1>2

LEMMA FittingIsSequence ==
    ASSUME NEW s \in Seq(Nat)
    PROVE  Fitting(s) \in Seq(Nat)
<1>1. PICK n \in Nat : n = Len(s)
  BY LenProperties
<1>2. CASE MaxPerScope > 0 /\ n > MaxPerScope
  <2>1. n - MaxPerScope + 1 \in 1 .. n
    BY <1>1, <1>2
  <2>2. SubSeq(s, n - MaxPerScope + 1, n) \in Seq(Nat)
    BY <1>1, <2>1, SubSeqProperties
  <2> QED
    BY <1>1, <1>2, <2>2 DEF Fitting
<1> QED
  BY <1>1, <1>2 DEF Fitting

LEMMA PutIsSequence ==
    ASSUME NEW s \in Seq(Nat), NEW key \in Nat
    PROVE  PutNote(s, key) \in Seq(Nat)
<1>1. CASE key \in SetOfNotes(s) \/ MaxPerScope = 0 \/ Len(s) < MaxPerScope
  BY <1>1, OthersRemain DEF PutNote
<1>2. CASE ~(key \in SetOfNotes(s) \/ MaxPerScope = 0 \/ Len(s) < MaxPerScope)
  <2>1. s # <<>>
    BY <1>2
  <2>2. Tail(s) \in Seq(Nat)
    BY <2>1
  <2> QED
    BY <1>2, <2>2 DEF PutNote
<1> QED
  BY <1>1, <1>2

\* A step that changes neither notes nor jobs nor the Shutdown.
LEMMA NotesStay ==
    ASSUME NotesInv, notes' = notes, taught' = taught, raced' = raced, jobs' = jobs, bg' = bg,
           shut' = shut, puts' = puts, ended' = ended, DOMAIN block' = Scopes, DOMAIN fire' = Scopes
    PROVE  NotesInv'
  BY DEF NotesInv, NotesTypeOK, JobsAreCounted, SeenIsThere, ShutIsPast, NotesAreKept

\* The host writes to a scope; what a job there has seen is out of date.
LEMMA HostWrites ==
    ASSUME NotesInv, NEW s \in Scopes, NEW n \in Seq(Nat), NEW t \in SUBSET SetOfNotes(n),
           notes' = [notes EXCEPT ![s] = n], taught' = [taught EXCEPT ![s] = t],
           raced' = Raced(s), jobs' = jobs, bg' = bg, shut' = shut, puts' \in Nat, ended' = ended,
           block' = block, fire' = fire
    PROVE  NotesInv'
<1>1. \A r \in Scopes : /\ notes'[r] = IF r = s THEN n ELSE notes[r]
                        /\ taught'[r] = IF r = s THEN t ELSE taught[r]
  BY DEF NotesInv, NotesTypeOK
<1>2. SetOfNotes(n) \in SUBSET Nat
  BY NotesOfSequence
<1>3. raced \subseteq raced' /\ raced' \subseteq Scopes
  BY DEF Raced, NotesInv, NotesTypeOK
<1>4. NotesTypeOK'
  BY <1>2, <1>3 DEF NotesInv, NotesTypeOK
<1>5. JobsAreCounted' /\ ShutIsPast'
  BY DEF NotesInv, JobsAreCounted, ShutIsPast
<1>6. SeenIsThere'
  <2> SUFFICES ASSUME NEW j \in jobs, j.at \in {"merge", "replace"}, j.scope \notin raced'
               PROVE  j.seen = SetOfNotes(notes'[j.scope])
    BY DEF SeenIsThere
  <2>1. j.scope \in Scopes /\ j.scope # s
    BY <1>3 DEF Raced, NotesInv, NotesTypeOK, Jobs
  <2> QED
    BY <1>1, <1>3, <2>1 DEF NotesInv, SeenIsThere
<1>7. NotesAreKept'
  <2> SUFFICES ASSUME NEW r \in Scopes, r \notin raced'
               PROVE  taught'[r] \subseteq SetOfNotes(notes'[r])
    BY DEF NotesAreKept
  <2> QED
    BY <1>1, <1>3 DEF NotesInv, NotesAreKept
<1> QED
  BY <1>4, <1>5, <1>6, <1>7 DEF NotesInv

LEMMA PutKeeps ==
    ASSUME NotesInv, NEW s \in Scopes, NEW key \in Nat, Put(s, key)
    PROVE  NotesInv'
<1> DEFINE n == PutNote(notes[s], key)
           t == (taught[s] \union {key}) \intersect SetOfNotes(n)
<1>1. n \in Seq(Nat)
  BY PutIsSequence DEF NotesInv, NotesTypeOK
<1>2. notes' = [notes EXCEPT ![s] = n]
  BY DEF Put
<1>3. notes'[s] = n
  BY <1>2 DEF NotesInv, NotesTypeOK
<1>4. taught' = [taught EXCEPT ![s] = t]
  BY <1>3 DEF Put
<1>5. t \in SUBSET SetOfNotes(n)
  OBVIOUS
<1> HIDE DEF n, t
<1>6. /\ raced' = Raced(s) /\ jobs' = jobs /\ bg' = bg /\ shut' = shut /\ puts' \in Nat
      /\ ended' = ended /\ block' = block /\ fire' = fire
  BY DEF Put, NotesInv, NotesTypeOK
<1> QED
  BY <1>1, <1>2, <1>4, <1>5, <1>6, HostWrites

LEMMA DeleteKeeps ==
    ASSUME NotesInv, NEW s \in Scopes, NEW key, DeleteNote(s, key)
    PROVE  NotesInv'
<1> DEFINE n == WithoutNote(notes[s], key)
           t == taught[s] \ {key}
<1>1. n \in Seq(Nat) /\ SetOfNotes(notes[s]) \ {key} \subseteq SetOfNotes(n)
  BY OthersRemain DEF NotesInv, NotesTypeOK
<1>2. notes' = [notes EXCEPT ![s] = n] /\ taught' = [taught EXCEPT ![s] = t]
  BY DEF DeleteNote
<1>3. /\ raced' = Raced(s) /\ jobs' = jobs /\ bg' = bg /\ shut' = shut /\ puts' = puts
      /\ ended' = ended /\ block' = block /\ fire' = fire /\ puts \in Nat
  BY DEF DeleteNote, NotesInv, NotesTypeOK
<1>4. CASE s \notin raced
  <2>1. t \in SUBSET SetOfNotes(n)
    BY <1>1, <1>4 DEF NotesInv, NotesAreKept
  <2> HIDE DEF n, t
  <2> QED
    BY <1>1, <1>2, <1>3, <2>1, HostWrites
<1>5. CASE s \in raced
  <2>1. raced' = raced
    BY <1>3, <1>5 DEF Raced
  <2>2. \A r \in Scopes \ {s} : notes'[r] = notes[r] /\ taught'[r] = taught[r]
    BY <1>2 DEF NotesInv, NotesTypeOK
  <2>3. t \in SUBSET Nat
    BY DEF NotesInv, NotesTypeOK
  <2> HIDE DEF n, t
  <2>4. NotesTypeOK'
    BY <1>1, <1>2, <1>3, <2>1, <2>3 DEF NotesInv, NotesTypeOK
  <2>5. JobsAreCounted' /\ ShutIsPast'
    BY <1>3 DEF NotesInv, JobsAreCounted, ShutIsPast
  <2>6. SeenIsThere'
    <3>1. \A j \in jobs : j.scope \in Scopes
      BY DEF NotesInv, NotesTypeOK, Jobs
    <3> QED
      BY <1>3, <1>5, <2>1, <2>2, <3>1 DEF NotesInv, SeenIsThere
  <2>7. NotesAreKept'
    BY <1>5, <2>1, <2>2 DEF NotesInv, NotesAreKept
  <2> QED
    BY <2>4, <2>5, <2>6, <2>7 DEF NotesInv
<1> QED
  BY <1>4, <1>5

\* A job goes on: it is the same run's, and what it has seen is there.
LEMMA BecomesKeeps ==
    ASSUME NotesInv, NEW j \in jobs, NEW k \in Jobs, Becomes(j, k),
           k.scope = j.scope, k.run = j.run, IsFiniteSet(k.seen), IsFiniteSet(k.keys),
           k.at \in {"merge", "replace"} /\ k.scope \notin raced
           => k.seen = SetOfNotes(notes[k.scope])
    PROVE  NotesInv'
<1>1. /\ jobs' = (jobs \ {j}) \union {k} /\ notes' = notes /\ taught' = taught /\ raced' = raced
      /\ bg' = bg /\ shut' = shut /\ puts' = puts /\ ended' = ended /\ block' = block
      /\ fire' = fire
  BY DEF Becomes
<1>2. NotesTypeOK'
  BY <1>1 DEF NotesInv, NotesTypeOK
<1>3. \A i, l \in jobs : i.scope = l.scope /\ i.run = l.run => i = l
  BY DEF NotesInv, JobsAreCounted
<1>4. JobsAreCounted'
  <2>1. IsFiniteSet(jobs \ {j}) /\ Cardinality(jobs \ {j}) = Cardinality(jobs) - 1
    BY FS_RemoveElement DEF NotesInv, JobsAreCounted
  <2>2. k \notin jobs \ {j}
    BY <1>3
  <2>3. IsFiniteSet(jobs') /\ Cardinality(jobs') = Cardinality(jobs \ {j}) + 1
    BY <1>1, <2>1, <2>2, FS_AddElement
  <2>4. Cardinality(jobs) \in Nat
    BY FS_CardinalityType DEF NotesInv, JobsAreCounted
  <2>5. bg' = Cardinality(jobs')
    BY <1>1, <2>1, <2>3, <2>4 DEF NotesInv, JobsAreCounted
  <2>6. \A i \in jobs' \union shut'.jobs : i.run <= ended'[i.scope]
    BY <1>1 DEF NotesInv, JobsAreCounted
  <2>7. \A i, l \in jobs' : i.scope = l.scope /\ i.run = l.run => i = l
    BY <1>1, <1>3
  <2> QED
    BY <2>3, <2>5, <2>6, <2>7 DEF JobsAreCounted
<1>5. SeenIsThere'
  BY <1>1 DEF NotesInv, SeenIsThere
<1>6. ShutIsPast'
  BY <1>1 DEF NotesInv, ShutIsPast
<1>7. NotesAreKept'
  BY <1>1 DEF NotesInv, NotesAreKept
<1> QED
  BY <1>2, <1>4, <1>5, <1>6, <1>7 DEF NotesInv

LEMMA JobKeeps ==
    ASSUME NotesInv, NEW j \in jobs, ReadHistory(j) \/ ListNotes(j) \/ Merged(j)
    PROVE  NotesInv'
<1>1. j \in Jobs /\ IsFiniteSet(j.seen) /\ IsFiniteSet(j.keys) /\ j.scope \in Scopes
  BY DEF NotesInv, NotesTypeOK, Jobs
<1>2. CASE ReadHistory(j)
  <2> DEFINE k == [j EXCEPT !.at = "list", !.upTo = ended[j.scope]]
  <2>1. ended[j.scope] \in Nat
    BY <1>1 DEF NotesInv, NotesTypeOK
  <2>2. /\ k \in Jobs /\ k.at = "list" /\ k.scope = j.scope /\ k.run = j.run /\ k.seen = j.seen
        /\ k.keys = j.keys
    BY <1>1, <2>1 DEF Jobs
  <2>3. Becomes(j, k)
    BY <1>2 DEF ReadHistory
  <2> HIDE DEF k
  <2> QED
    BY <1>1, <2>2, <2>3, BecomesKeeps
<1>3. CASE ListNotes(j)
  <2> DEFINE n == SetOfNotes(notes[j.scope])
             k == [j EXCEPT !.at = "merge", !.seen = n]
  <2>1. n \in SUBSET Nat /\ IsFiniteSet(n)
    BY <1>1, NotesOfSequence DEF NotesInv, NotesTypeOK
  <2>2. Becomes(j, k)
    BY <1>3 DEF ListNotes
  <2> HIDE DEF n
  <2>3. /\ k \in Jobs /\ k.at = "merge" /\ k.scope = j.scope /\ k.run = j.run /\ k.seen = n
        /\ k.keys = j.keys
    BY <1>1, <2>1 DEF Jobs
  <2> HIDE DEF k
  <2>4. k.seen = SetOfNotes(notes[k.scope])
    BY <2>3 DEF n
  <2> QED
    BY <1>1, <2>1, <2>2, <2>3, <2>4, BecomesKeeps
<1>4. CASE Merged(j)
  <2>1. PICK keys \in SUBSET Payload(j) : Becomes(j, [j EXCEPT !.at = "replace", !.keys = keys])
    BY <1>4 DEF Merged
  <2> DEFINE k == [j EXCEPT !.at = "replace", !.keys = keys]
  <2>2. keys \in SUBSET Nat /\ IsFiniteSet(keys)
    <3>1. 1 \in Int /\ j.upTo \in Int
      BY <1>1 DEF Jobs
    <3>2. IsFiniteSet(Payload(j))
      BY <1>1, <3>1, FS_Interval, FS_Union DEF Payload
    <3>3. Payload(j) \in SUBSET Nat
      BY <1>1, <3>1 DEF Payload, Jobs
    <3> QED
      BY <3>2, <3>3, FS_Subset
  <2>3. /\ k \in Jobs /\ k.scope = j.scope /\ k.run = j.run /\ k.seen = j.seen /\ k.keys = keys
    BY <1>1, <2>2 DEF Jobs
  <2>4. j.scope \notin raced => j.seen = SetOfNotes(notes[j.scope])
    BY <1>4 DEF Merged, NotesInv, SeenIsThere
  <2>5. Becomes(j, k)
    BY <2>1
  <2> HIDE DEF k
  <2> QED
    BY <1>1, <2>2, <2>3, <2>4, <2>5, BecomesKeeps
<1> QED
  BY <1>2, <1>3, <1>4

\* A job that is over leaves the rest.
LEMMA FewerJobs ==
    ASSUME NotesInv, NEW j \in jobs, Leaves(j), shut' = shut, ended' = ended
    PROVE  JobsAreCounted' /\ ShutIsPast' /\ jobs' \subseteq jobs
<1>1. IsFiniteSet(jobs') /\ Cardinality(jobs') = Cardinality(jobs) - 1
  BY FS_RemoveElement DEF Leaves, NotesInv, JobsAreCounted
<1> QED
  BY <1>1 DEF Leaves, NotesInv, JobsAreCounted, ShutIsPast

LEMMA GivesUpKeeps ==
    ASSUME NotesInv, NEW j \in jobs, GivesUp(j)
    PROVE  NotesInv'
<1>1. JobsAreCounted' /\ ShutIsPast' /\ jobs' \subseteq jobs
  BY FewerJobs DEF GivesUp
<1>2. NotesTypeOK' /\ SeenIsThere' /\ NotesAreKept'
  BY <1>1 DEF GivesUp, NotesInv, NotesTypeOK, SeenIsThere, NotesAreKept
<1> QED
  BY <1>1, <1>2 DEF NotesInv

LEMMA ReplaceKeeps ==
    ASSUME NotesInv, NEW j \in jobs, Replace(j)
    PROVE  NotesInv'
<1> DEFINE s == j.scope
           n == Replacement(j.keys)
           kept == SetOfNotes(n)
           t == (taught[s] \ ((Payload(j) \ j.keys) \union (j.keys \ kept))) \union kept
<1>1. j \in Jobs /\ s \in Scopes /\ IsFiniteSet(j.keys) /\ j.keys \in SUBSET Nat
  BY DEF NotesInv, NotesTypeOK, Jobs
<1>2. n \in Seq(Nat)
  BY <1>1, AscendingProperties, FittingIsSequence DEF Replacement
<1>3. kept \in SUBSET Nat
  BY <1>2, NotesOfSequence
<1>4. JobsAreCounted' /\ ShutIsPast' /\ jobs' \subseteq jobs
  BY FewerJobs DEF Replace
<1>5. notes' = [notes EXCEPT ![s] = n]
  BY DEF Replace
<1>6. \A r \in Scopes : notes'[r] = IF r = s THEN n ELSE notes[r]
  BY <1>5 DEF NotesInv, NotesTypeOK
<1>7. taught' = [taught EXCEPT ![s] = t]
  BY <1>1, <1>6 DEF Replace
<1>8. t \in SUBSET Nat
  BY <1>1, <1>3 DEF NotesInv, NotesTypeOK
<1>9. j.at = "replace" /\ jobs' = jobs \ {j}
  BY DEF Replace, Leaves
<1>10. s \notin raced => taught[s] \subseteq j.seen
  BY <1>1, <1>9 DEF NotesInv, SeenIsThere, NotesAreKept
<1>11. s \notin raced => t \subseteq kept
  BY <1>10 DEF Payload
<1>12. raced \subseteq raced' /\ raced' \subseteq Scopes
  BY <1>1 DEF Replace, NotesInv, NotesTypeOK
<1>13. \A k \in jobs' : k.scope = s /\ k.at \in {"merge", "replace"} => s \in raced'
  BY <1>9 DEF Replace
<1> HIDE DEF n, t, kept, s
<1>14. \A r \in Scopes : taught'[r] = IF r = s THEN t ELSE taught[r]
  BY <1>7 DEF NotesInv, NotesTypeOK
<1>15. NotesTypeOK'
  <2>1. notes' \in [Scopes -> Seq(Nat)]
    BY <1>2, <1>5 DEF NotesInv, NotesTypeOK
  <2>2. taught' \in [Scopes -> SUBSET Nat]
    BY <1>7, <1>8 DEF NotesInv, NotesTypeOK
  <2>3. /\ ended' = ended /\ block' = block /\ fire' = fire /\ puts' = puts /\ shut' = shut
    BY DEF Replace
  <2> QED
    BY <1>4, <1>12, <2>1, <2>2, <2>3 DEF NotesInv, NotesTypeOK
<1>16. SeenIsThere'
  <2> SUFFICES ASSUME NEW k \in jobs', k.at \in {"merge", "replace"}, k.scope \notin raced'
               PROVE  k.seen = SetOfNotes(notes'[k.scope])
    BY DEF SeenIsThere
  <2>1. k.scope \in Scopes /\ k.scope # s /\ k \in jobs
    BY <1>4, <1>13 DEF NotesInv, NotesTypeOK, Jobs
  <2> QED
    BY <1>6, <1>12, <2>1 DEF NotesInv, SeenIsThere
<1>17. NotesAreKept'
  <2> SUFFICES ASSUME NEW r \in Scopes, r \notin raced'
               PROVE  taught'[r] \subseteq SetOfNotes(notes'[r])
    BY DEF NotesAreKept
  <2>1. CASE r = s
    BY <1>1, <1>6, <1>11, <1>12, <1>14, <2>1 DEF kept
  <2>2. CASE r # s
    BY <1>6, <1>12, <1>14, <2>2 DEF NotesInv, NotesAreKept
  <2> QED
    BY <2>1, <2>2
<1> QED
  BY <1>4, <1>15, <1>16, <1>17 DEF NotesInv

LEMMA RunEndsKeeps ==
    ASSUME NotesInv, NEW s \in Scopes, RunEnds(s)
    PROVE  NotesInv'
<1>1. /\ notes' = notes /\ taught' = taught /\ raced' = raced /\ shut' = shut /\ puts' = puts
      /\ ended' = [ended EXCEPT ![s] = @ + 1]
      /\ DOMAIN block' = Scopes /\ DOMAIN fire' = Scopes
  BY DEF RunEnds, NotesInv, NotesTypeOK
<1>2. /\ ended[s] \in Nat /\ ended' \in [Scopes -> Nat]
      /\ \A r \in Scopes : ended'[r] = IF r = s THEN ended[s] + 1 ELSE ended[r]
  BY <1>1 DEF NotesInv, NotesTypeOK
<1>3. \A j \in jobs \union shut.jobs : j \in Jobs /\ j.run \in Nat /\ j.scope \in Scopes
                                     /\ j.run <= ended[j.scope] /\ ended[j.scope] \in Nat
  BY DEF NotesInv, NotesTypeOK, JobsAreCounted, Jobs
<1>4. \A j \in jobs \union shut.jobs : j.run <= ended'[j.scope]
  BY <1>2, <1>3
<1>5. NotesAreKept'
  BY <1>1 DEF NotesInv, NotesAreKept
<1>6. CASE jobs' = jobs /\ bg' = bg
  <2>1. NotesTypeOK' /\ SeenIsThere' /\ ShutIsPast'
    BY <1>1, <1>2, <1>6 DEF NotesInv, NotesTypeOK, SeenIsThere, ShutIsPast
  <2>2. JobsAreCounted'
    BY <1>1, <1>4, <1>6 DEF NotesInv, JobsAreCounted
  <2> QED
    BY <1>5, <2>1, <2>2 DEF NotesInv
<1>7. CASE Launch(s)
  <2> DEFINE k == NewJob(s, "read")
  <2>1. /\ k \in Jobs /\ k.scope = s /\ k.run = ended[s] + 1 /\ k.at = "read"
        /\ k.seen = {} /\ k.keys = {}
    BY <1>2 DEF NewJob, Jobs
  <2>2. jobs' = jobs \union {k} /\ bg' = bg + 1
    BY <1>7 DEF Launch
  <2> HIDE DEF k
  <2>3. \A j \in jobs \union shut.jobs : ~(j.scope = k.scope /\ j.run = k.run)
    BY <1>3, <2>1
  <2>4. NotesTypeOK'
    BY <1>1, <1>2, <2>1, <2>2, FS_EmptySet DEF NotesInv, NotesTypeOK
  <2>5. JobsAreCounted'
    <3>1. k \notin jobs
      BY <2>3
    <3>2. IsFiniteSet(jobs') /\ Cardinality(jobs') = Cardinality(jobs) + 1
      BY <2>2, <3>1, FS_AddElement DEF NotesInv, JobsAreCounted
    <3>3. \A j \in jobs' \union shut'.jobs : j.run <= ended'[j.scope]
      BY <1>1, <1>2, <1>4, <2>1, <2>2
    <3>4. \A j, l \in jobs' : j.scope = l.scope /\ j.run = l.run => j = l
      BY <2>2, <2>3 DEF NotesInv, JobsAreCounted
    <3> QED
      BY <2>2, <3>2, <3>3, <3>4 DEF NotesInv, JobsAreCounted
  <2>6. SeenIsThere'
    BY <1>1, <2>1, <2>2 DEF NotesInv, SeenIsThere
  <2>7. ShutIsPast'
    BY <1>1, <2>2, <2>3 DEF NotesInv, ShutIsPast
  <2> QED
    BY <1>5, <2>4, <2>5, <2>6, <2>7 DEF NotesInv
<1> QED
  BY <1>6, <1>7 DEF RunEnds

LEMMA ShutdownKeeps ==
    ASSUME NotesInv, Shutdown \/ Drained \/ ShutdownReturns
    PROVE  NotesInv'
<1>1. /\ notes' = notes /\ taught' = taught /\ raced' = raced /\ puts' = puts /\ jobs' = jobs
      /\ bg' = bg /\ ended' = ended /\ block' = block /\ fire' = fire
  BY DEF Shutdown, Drained, ShutdownReturns
<1>2. SeenIsThere' /\ NotesAreKept'
  BY <1>1 DEF NotesInv, SeenIsThere, NotesAreKept
<1>3. CASE Shutdown
  <2>1. shut' = [at |-> "waiting", jobs |-> jobs]
    BY <1>3 DEF Shutdown
  <2>2. NotesTypeOK' /\ JobsAreCounted' /\ ShutIsPast'
    BY <1>1, <2>1 DEF NotesInv, NotesTypeOK, JobsAreCounted, ShutIsPast
  <2> QED
    BY <1>2, <2>2 DEF NotesInv
<1>4. CASE Drained
  <2>1. shut'.jobs = shut.jobs /\ DOMAIN shut' = {"at", "jobs"}
    BY <1>4 DEF Drained, NotesInv, NotesTypeOK
  <2>2. jobs = {}
    BY <1>4, FS_EmptySet DEF Drained, NotesInv, JobsAreCounted
  <2>3. NotesTypeOK' /\ JobsAreCounted' /\ ShutIsPast'
    BY <1>1, <2>1, <2>2 DEF NotesInv, NotesTypeOK, JobsAreCounted, ShutIsPast
  <2> QED
    BY <1>2, <2>3 DEF NotesInv
<1>5. CASE ShutdownReturns
  <2>1. /\ shut'.jobs = shut.jobs /\ DOMAIN shut' = {"at", "jobs"}
        /\ shut.at = "drained" \/ shut'.at = "expired"
    BY <1>5 DEF ShutdownReturns, NotesInv, NotesTypeOK
  <2>2. NotesTypeOK' /\ JobsAreCounted' /\ ShutIsPast'
    BY <1>1, <2>1 DEF NotesInv, NotesTypeOK, JobsAreCounted, ShutIsPast
  <2> QED
    BY <1>2, <2>2 DEF NotesInv
<1> QED
  BY <1>3, <1>4, <1>5

LEMMA NotesStep == NotesInv /\ [NotesNext]_noteVars => NotesInv'
<1> SUFFICES ASSUME NotesInv, [NotesNext]_noteVars PROVE NotesInv'
  OBVIOUS
<1>1. CASE UNCHANGED noteVars
  BY <1>1, NotesStay DEF noteVars, NotesInv, NotesTypeOK
<1>2. ASSUME NEW s \in Scopes, RunBegins(s) \/ Cools(s) PROVE NotesInv'
  <2>1. DOMAIN block' = Scopes /\ DOMAIN fire' = Scopes
    BY <1>2 DEF RunBegins, Cools, NotesInv, NotesTypeOK
  <2> QED
    BY <1>2, <2>1, NotesStay DEF RunBegins, Cools
<1>3. ASSUME NEW s \in Scopes, NEW key \in SetOfNotes(notes[s]) \union {MaxEnded + puts + 1},
             Put(s, key)
      PROVE  NotesInv'
  <2>1. notes[s] \in Seq(Nat) /\ puts \in Nat
    BY DEF NotesInv, NotesTypeOK
  <2>2. key \in Nat
    BY <2>1, NotesOfSequence
  <2> QED
    BY <1>3, <2>2, PutKeeps
<1> QED
  BY <1>1, <1>2, <1>3, DeleteKeeps, JobKeeps, GivesUpKeeps, ReplaceKeeps, RunEndsKeeps,
     ShutdownKeeps
     DEF NotesNext

LEMMA NotesInitially == NotesInit => NotesInv
<1> SUFFICES ASSUME NotesInit PROVE NotesInv
  OBVIOUS
<1>1. NotesTypeOK
  BY DEF NotesInit, NotesTypeOK, NoShutdown
<1>2. JobsAreCounted /\ SeenIsThere /\ ShutIsPast
  BY FS_EmptySet DEF NotesInit, JobsAreCounted, SeenIsThere, ShutIsPast, NoShutdown
<1>3. NotesAreKept
  BY DEF NotesInit, NotesAreKept
<1> QED
  BY <1>1, <1>2, <1>3 DEF NotesInv

(* No note is lost but by an omission of the model, an eviction, a         *)
(* deletion or a write beside a consolidation, and a Shutdown that returns *)
(* nil has waited for the consolidations it found (NotesInv).              *)
THEOREM MemoryIsAlwaysKept == NotesSpec => []MemoryIsKept
<1>1. NotesInv => MemoryIsKept
  BY DEF NotesInv, ShutIsPast, MemoryIsKept, ShutdownWaits
<1> QED
  BY <1>1, NotesInitially, NotesStep, PTL DEF NotesSpec

-----------------------------------------------------------------------------
HIDE MemoryAssumption

(* The history of a conversation and what a request makes of it *)

\* The messages a history is made of.
Msg ==
    [role : {"system", "user", "assistant", "tool"}, id : Nat, calls : SUBSET (Nat \X {1, 2}),
     answers : (Nat \X {1, 2}) \union {<<>>},
     size : {"short", "long", "huge", "trimmed", "discarded", "clipped"},
     record : BOOLEAN, covers : SUBSET Nat]

\* Only the assistant calls tools, under its own identity, and an identity is
\* given once.
Owned(s) ==
    /\ \A i \in 1 .. Len(s) : /\ s[i].role # "assistant" => s[i].calls = {}
                             /\ \A c \in s[i].calls : c[1] = s[i].id
    /\ \A i, j \in 1 .. Len(s) :
          s[i].role # "system" /\ s[j].role # "system" /\ s[i].id = s[j].id => i = j

\* Identities go up to m, system messages have none, and only they are records.
WellMade(s, m) ==
    /\ Owned(s)
    /\ \A i \in 1 .. Len(s) :
          /\ s[i].record => s[i].role = "system"
          /\ s[i].role # "system" => s[i].id \in 1 .. m
          /\ s[i].role = "system" => s[i].id = 0
          /\ s[i].covers \subseteq 1 .. m

\* The calls of a message no later tool message answers.
Unanswered(s, i) ==
    {c \in s[i].calls : \A k \in i + 1 .. Len(s) : s[k].role = "tool" => s[k].answers # c}

\* Every tool message is in the turn that asked for it.
Answering(s) ==
    \A j \in 1 .. Len(s) : s[j].role = "tool" =>
        \E i \in 1 .. j - 1 : /\ s[j].answers \in s[i].calls
                              /\ \A k \in i + 1 .. j : s[k].role = "tool"

\* A system message is the prompt or a record before a user message, and only
\* the latest turn can have open calls.
Formed(s) ==
    /\ s # <<>> => s[1].role \in {"system", "user"}
    /\ \A p \in 1 .. Len(s) : s[p].role = "system" =>
          /\ s[p].record <=> p # 1
          /\ p < Len(s) => s[p + 1].role = "user"
    /\ Answering(s)
    /\ \A i \in 1 .. Len(s) : Unanswered(s, i) # {} =>
          \A k \in i + 1 .. Len(s) : s[k].role = "tool"

\* Every call has its result.
Closed(s) == \A i \in 1 .. Len(s) : Unanswered(s, i) = {}

\* What a record tells of, by position.
Gapless(s, left) ==
    \A p \in 1 .. Len(s) : s[p].record =>
        /\ \A i \in 1 .. p : s[i].role # "system" => s[i].id \in s[p].covers \union left
        /\ \A i \in p .. Len(s) : s[i].role # "system" => s[i].id \notin s[p].covers

\* The inductive invariant: the history is well made, formed and without gaps,
\* and closed while a run iterates on it.
ConvIInv ==
    /\ log \in Seq(Msg) /\ made \in Nat /\ omitted \in SUBSET Nat /\ running \in BOOLEAN
    /\ WellMade(log, made) /\ Formed(log) /\ Gapless(log, omitted)
    /\ running => log # <<>> /\ Closed(log) /\ log[Len(log)].role # "system"

\* A call belongs to one message.
LEMMA OneCaller ==
    ASSUME NEW s, Owned(s), NEW i \in 1 .. Len(s), NEW j \in 1 .. Len(s),
           NEW c, c \in s[i].calls, c \in s[j].calls
    PROVE  i = j
<1>1. s[i].role = "assistant" /\ s[j].role = "assistant" /\ c[1] = s[i].id /\ c[1] = s[j].id
  BY DEF Owned
<1> QED
  BY <1>1 DEF Owned

\* The results of a message end before the next message of user or assistant.
LEMMA BlockEndProperties ==
    ASSUME NEW s \in Seq(Msg), NEW i \in 1 .. Len(s)
    PROVE  /\ BlockEnd(s, i) \in i .. Len(s)
           /\ \A k \in i + 1 .. BlockEnd(s, i) : s[k].role \notin {"assistant", "user"}
           /\ BlockEnd(s, i) < Len(s) => s[BlockEnd(s, i) + 1].role \in {"assistant", "user"}
<1>0. PICK n \in Nat : n = Len(s) /\ i \in 1 .. n
  BY LenProperties
<1> DEFINE Speaks(j) == s[j].role \in {"assistant", "user"}
           Ends(j) == (\A k \in i + 1 .. j : ~Speaks(k)) /\ (j < n => Speaks(j + 1))
           T == {j \in i .. n : \A k \in i + 1 .. j : ~Speaks(k)}
<1>1. i \in T /\ T \subseteq 0 .. n
  BY <1>0
<1>2. PICK j \in T : \A k \in T : k <= j
  <2> HIDE DEF T
  <2> QED
    BY <1>1, GreatestNatural
<1>3. j \in i .. n
  OBVIOUS
<1>4. ASSUME j < n PROVE Speaks(j + 1)
  <2> SUFFICES ASSUME ~Speaks(j + 1) PROVE FALSE
    OBVIOUS
  <2>1. \A k \in i + 1 .. j : ~Speaks(k)
    OBVIOUS
  <2>2. j + 1 \in i .. n /\ \A k \in i + 1 .. j + 1 : k \in i + 1 .. j \/ k = j + 1
    BY <1>0, <1>3, <1>4
  <2> HIDE DEF Speaks
  <2>3. j + 1 \in T
    BY <2>1, <2>2
  <2>4. j + 1 <= j
    BY <1>2, <2>3
  <2> QED
    BY ONLY <1>0, <1>3, <2>4
<1>5. Ends(j)
  BY <1>4
<1>6. BlockEnd(s, i) = CHOOSE k \in i .. n : Ends(k)
  BY <1>0 DEF BlockEnd
<1>7. BlockEnd(s, i) \in i .. n /\ Ends(BlockEnd(s, i))
  <2> HIDE DEF Ends
  <2> QED
    BY <1>3, <1>5, <1>6
<1>8. PICK e : e = BlockEnd(s, i)
  OBVIOUS
<1>9. e \in i .. n /\ Ends(e)
  BY <1>7, <1>8
<1> QED
  BY ONLY <1>0, <1>8, <1>9

\* The open calls of a message are those no later result answers.
LEMMA DanglingIsUnanswered ==
    ASSUME NEW s \in Seq(Msg), Owned(s), Answering(s), NEW i \in 1 .. Len(s)
    PROVE  Dangling(s, i) = Unanswered(s, i)
<1>0. PICK n \in Nat : n = Len(s) /\ i \in 1 .. n
  BY LenProperties
<1>1. PICK e \in i .. n : e = BlockEnd(s, i)
  BY <1>0, BlockEndProperties
<1>2. (\A k \in i + 1 .. e : s[k].role \notin {"assistant", "user"})
      /\ (e < n => s[e + 1].role \in {"assistant", "user"})
  BY <1>0, <1>1, BlockEndProperties
<1>3. ASSUME NEW k \in i + 1 .. n, s[k].role = "tool", s[k].answers \in s[i].calls PROVE k <= e
  <2>1. k \in 1 .. n
    BY ONLY <1>0, k \in i + 1 .. n
  <2>2. PICK j \in 1 .. k - 1 : s[k].answers \in s[j].calls /\ \A l \in j + 1 .. k : s[l].role = "tool"
    BY <1>0, <1>3, <2>1 DEF Answering
  <2>3. j \in 1 .. n
    BY ONLY <2>1, j \in 1 .. k - 1, n \in Nat
  <2>4. j = i
    BY <1>0, <1>3, <2>2, <2>3, OneCaller
  <2>5. \A l \in i + 1 .. k : s[l].role = "tool"
    BY <2>2, <2>4
  <2> SUFFICES ASSUME ~(k <= e) PROVE FALSE
    OBVIOUS
  <2>6. e + 1 \in i + 1 .. k /\ e < n
    BY ONLY <1>0, ~(k <= e), e \in i .. n, k \in i + 1 .. n
  <2> QED
    BY <1>2, <2>5, <2>6
<1>4. i + 1 .. e \subseteq i + 1 .. n
  BY ONLY <1>0, e \in i .. n
<1>5. Dangling(s, i) = s[i].calls \ {s[j].answers : j \in {k \in i + 1 .. e : s[k].role = "tool"}}
  BY <1>1 DEF Dangling
<1>6. Unanswered(s, i) = {c \in s[i].calls : \A k \in i + 1 .. n : s[k].role = "tool" => s[k].answers # c}
  BY <1>0 DEF Unanswered
<1>7. ASSUME NEW c \in s[i].calls
      PROVE  c \in Dangling(s, i) <=> c \in Unanswered(s, i)
  <2>1. ASSUME c \notin Unanswered(s, i) PROVE c \notin Dangling(s, i)
    <3>1. PICK k \in i + 1 .. n : s[k].role = "tool" /\ s[k].answers = c
      BY <1>6, <2>1
    <3>2. k <= e
      BY <1>3, <3>1
    <3>3. k \in i + 1 .. e
      BY ONLY <1>0, <3>2, k \in i + 1 .. n, e \in i .. n
    <3> QED
      BY <1>5, <3>1, <3>3
  <2>2. ASSUME c \notin Dangling(s, i) PROVE c \notin Unanswered(s, i)
    <3>1. PICK k \in i + 1 .. e : s[k].role = "tool" /\ s[k].answers = c
      BY <1>5, <2>2
    <3> QED
      BY <1>4, <1>6, <3>1
  <2> QED
    BY <2>1, <2>2
<1> QED
  BY <1>5, <1>6, <1>7

\* A result comes no later than the end of its turn.
LEMMA ResultInBlock ==
    ASSUME NEW s \in Seq(Msg), NEW i \in 1 .. Len(s), NEW j \in i + 1 .. Len(s),
           \A k \in i + 1 .. j : s[k].role = "tool"
    PROVE  BlockEnd(s, i) >= j
<1>0. PICK n \in Nat : n = Len(s) /\ i \in 1 .. n
  BY LenProperties
<1>1. PICK e \in i .. n : e = BlockEnd(s, i)
  BY <1>0, BlockEndProperties
<1>2. e < n => s[e + 1].role \in {"assistant", "user"}
  BY <1>0, <1>1, BlockEndProperties
<1> SUFFICES ASSUME ~(e >= j) PROVE FALSE
  BY <1>1
<1>3. e + 1 \in i + 1 .. j /\ e < n
  BY <1>0
<1> QED
  BY <1>2, <1>3

\* The system block of a history whose second message is not of it.
LEMMA LeadingSystem ==
    ASSUME NEW s \in Seq(Msg), NEW n \in {0, 1}, n <= Len(s),
           n = 1 => s[1].role = "system" /\ ~s[1].record,
           n < Len(s) => s[n + 1].role # "system"
    PROVE  leadingSystem(s) = n
<1>0. PICK l \in Nat : l = Len(s)
  BY LenProperties
<1> DEFINE Lead(k) == /\ \A i \in 1 .. k : s[i].role = "system" /\ ~s[i].record
                      /\ k < l => s[k + 1].role # "system" \/ s[k + 1].record
<1>1. n \in 0 .. l /\ Lead(n)
  BY <1>0
<1>2. ASSUME NEW k \in 0 .. l, Lead(k) PROVE k = n
  <2>1. CASE k < n
    <3>1. k = 0 /\ n = 1
      BY <2>1
    <3> QED
      BY <1>0, <1>2, <3>1
  <2>2. CASE n < k
    <3>1. n + 1 \in 1 .. k /\ n < Len(s)
      BY <1>0, <2>2
    <3> QED
      BY <1>2, <3>1
  <2> QED
    BY <2>1, <2>2
<1>3. leadingSystem(s) = CHOOSE k \in 0 .. l : Lead(k)
  BY <1>0 DEF leadingSystem
<1> HIDE DEF Lead
<1> QED
  BY <1>1, <1>2, <1>3

\* latestCompaction is the position of the last record, 0 if there is none.
LEMMA LatestRecord ==
    ASSUME NEW s \in Seq(Msg)
    PROVE  /\ latestCompaction(s) \in 0 .. Len(s)
           /\ latestCompaction(s) > 0 => s[latestCompaction(s)].record
           /\ \A k \in latestCompaction(s) + 1 .. Len(s) : ~s[k].record
<1>0. PICK n \in Nat : n = Len(s) /\ DOMAIN s = 1 .. n
  BY LenProperties
<1> DEFINE R == {i \in 1 .. n : s[i].record}
<1>1. PICK r : r = latestCompaction(s)
  OBVIOUS
<1>2. r = IF R = {} THEN 0 ELSE CHOOSE i \in R : \A j \in R : j <= i
  BY <1>0, <1>1 DEF latestCompaction
<1>3. CASE R = {}
  <2>1. r = 0
    BY <1>2, <1>3
  <2>2. \A k \in 1 .. n : ~s[k].record
    BY <1>3
  <2>3. r + 1 = 1 /\ r \in 0 .. n
    BY ONLY <2>1, n \in Nat
  <2> QED
    BY ONLY <1>0, <1>1, <2>1, <2>2, <2>3
<1>4. CASE R # {}
  <2>1. R \in SUBSET (0 .. n)
    OBVIOUS
  <2>2. \E i \in R : \A j \in R : j <= i
    <3> HIDE DEF R
    <3> QED
      BY <1>4, <2>1, GreatestNatural
  <2>3. r \in R /\ \A j \in R : j <= r
    <3> HIDE DEF R
    <3> QED
      BY <1>2, <1>4, <2>2
  <2>4. r \in 1 .. n /\ s[r].record
    BY <2>3
  <2>5. ASSUME NEW k \in r + 1 .. n PROVE ~s[k].record
    <3>1. k \in 1 .. n /\ ~(k <= r)
      BY ONLY <2>4, n \in Nat, k \in r + 1 .. n
    <3> QED
      BY <2>3, <3>1
  <2> QED
    BY <1>0, <1>1, <2>4, <2>5
<1> QED
  BY <1>3, <1>4

\* What compactedView makes of s: h messages of system block, then s from
\* position h + d + 1 on, where nothing is of the system any more.
ViewOf(s, v, h, d) ==
    /\ v.head = h /\ v.shift = d /\ v.record = latestCompaction(s)
    /\ h \in {0, 1} /\ d \in Nat /\ h + d <= Len(s)
    /\ v.msgs \in Seq(Msg) /\ Len(v.msgs) = Len(s) - d
    /\ \A k \in h + 1 .. Len(s) - d : v.msgs[k] = s[k + d]
    /\ h = 1 => /\ v.msgs[1].role = "system" /\ ~v.msgs[1].record
                /\ v.msgs[1].id = 0 /\ v.msgs[1].calls = {}
    /\ \A k \in h + d + 1 .. Len(s) : s[k].role # "system"
    /\ h + d < Len(s) => s[h + d + 1].role = "user"
    /\ latestCompaction(s) = 0 => d = 0 /\ v.msgs = s
    /\ latestCompaction(s) # 0 => h + d = latestCompaction(s)

\* The view of a history with or without a record has the shape ViewOf says.
LEMMA ViewShape ==
    ASSUME NEW s \in Seq(Msg), NEW m \in Nat, WellMade(s, m), Formed(s)
    PROVE  \E h, d \in Nat : ViewOf(s, compactedView(s), h, d)
<1>0. PICK n \in Nat : n = Len(s) /\ DOMAIN s = 1 .. n /\ \A k \in 1 .. n : s[k] \in Msg
  BY LenProperties, ElementOfSeq
<1>1. PICK rec \in 0 .. n : /\ rec = latestCompaction(s) /\ (rec > 0 => s[rec].record)
                            /\ \A k \in rec + 1 .. n : ~s[k].record
  BY <1>0, LatestRecord
<1>2. \A k \in rec + 1 .. n : k # 1 => s[k].role # "system"
  <2> TAKE k \in rec + 1 .. n
  <2>1. k \in 1 .. n
    BY ONLY <1>0, k \in rec + 1 .. n, rec \in 0 .. n
  <2> QED
    BY <1>0, <1>1, <2>1 DEF Formed
<1>3. n > 0 => s[1].role \in {"system", "user"} /\ ~s[1].record
  <2> SUFFICES ASSUME n > 0 PROVE s[1].role \in {"system", "user"} /\ ~s[1].record
    OBVIOUS
  <2>1. s # <<>> /\ 1 \in 1 .. n
    BY <1>0
  <2>2. s[1].role \in {"system", "user"}
    BY <1>0, <2>1 DEF Formed
  <2>3. s[1].record => s[1].role = "system"
    BY <1>0, <2>1 DEF WellMade
  <2>4. s[1].role = "system" => ~s[1].record
    BY <1>0, <2>1 DEF Formed
  <2> QED
    BY <2>2, <2>3, <2>4
<1>4. \A k \in 1 .. n : s[k].role = "system" => s[k].id = 0 /\ s[k].calls = {} /\ (k < n => s[k + 1].role = "user")
  BY <1>0 DEF WellMade, Owned, Formed
<1>5. PICK sys \in {0, 1} : sys = leadingSystem(s) /\ (sys = 1 <=> n > 0 /\ s[1].role = "system")
  <2>1. CASE n > 0 /\ s[1].role = "system"
    <3>1. 1 \in {0, 1} /\ 1 <= Len(s) /\ (1 < Len(s) => s[1 + 1].role # "system")
      BY <1>0, <1>4, <2>1
    <3>2. leadingSystem(s) = 1
      BY <1>3, <2>1, <3>1, LeadingSystem
    <3> QED
      BY <2>1, <3>2
  <2>2. CASE ~(n > 0 /\ s[1].role = "system")
    <3>1. 0 \in {0, 1} /\ 0 <= Len(s) /\ (0 < Len(s) => s[0 + 1].role # "system")
      BY <1>0, <2>2
    <3>2. leadingSystem(s) = 0
      BY <3>1, LeadingSystem
    <3> QED
      BY <2>2, <3>2
  <2> QED
    BY <2>1, <2>2
<1>6. CASE rec = 0
  <2>1. PICK v : v = [msgs |-> s, head |-> sys, shift |-> 0, synthetic |-> FALSE, record |-> 0]
    OBVIOUS
  <2>2. v = compactedView(s)
    BY <1>1, <1>5, <1>6, <2>1 DEF compactedView
  <2>3. v.msgs = s /\ v.head = sys /\ v.shift = 0 /\ v.record = rec
    BY <1>6, <2>1
  <2>4. sys \in Nat /\ 0 \in Nat /\ sys + 0 = sys /\ sys <= n /\ n - 0 = n /\ (sys + 0 < n => n > 0)
    BY <1>5
  <2>5. \A k \in sys + 0 + 1 .. n : s[k].role # "system"
    <3> TAKE k \in sys + 0 + 1 .. n
    <3>1. k \in rec + 1 .. n /\ (k = 1 => sys = 0 /\ n > 0)
      BY <1>6, <2>4
    <3> QED
      BY <1>2, <1>5, <3>1
  <2>6. sys + 0 < n => s[sys + 0 + 1].role = "user"
    <3>1. CASE sys = 0
      BY <1>3, <1>5, <2>4, <3>1
    <3>2. CASE sys = 1
      <4>1. 1 \in 1 .. n
        BY <1>5, <3>2
      <4>2. sys + 0 = 1 /\ sys + 0 + 1 = 1 + 1
        BY <3>2
      <4> QED
        BY <1>4, <1>5, <3>2, <4>1, <4>2
    <3> QED
      BY <3>1, <3>2
  <2>7. \A k \in sys + 1 .. n - 0 : v.msgs[k] = s[k + 0]
    BY <2>3
  <2>8. sys = 1 => /\ v.msgs[1].role = "system" /\ ~v.msgs[1].record
                   /\ v.msgs[1].id = 0 /\ v.msgs[1].calls = {}
    <3> SUFFICES ASSUME sys = 1 PROVE /\ s[1].role = "system" /\ ~s[1].record
                                      /\ s[1].id = 0 /\ s[1].calls = {}
      BY <2>3
    <3>1. 1 \in 1 .. n
      BY <1>5
    <3> QED
      BY <1>3, <1>4, <1>5, <3>1
  <2>9. ViewOf(s, v, sys, 0)
    BY <1>0, <1>1, <1>6, <2>3, <2>4, <2>5, <2>6, <2>7, <2>8 DEF ViewOf
  <2> QED
    BY <2>2, <2>4, <2>9
<1>7. CASE rec # 0
  <2>0. rec \in 1 .. n /\ s[rec].record /\ s[rec].role = "system" /\ s[rec].covers \subseteq Nat
    <3>1. rec \in 1 .. n /\ s[rec].record
      BY <1>1, <1>7
    <3>2. s[rec].role = "system"
      BY <1>0, <3>1 DEF WellMade
    <3> QED
      BY <1>0, <3>1, <3>2 DEF Msg
  <2>1. PICK tail : tail = SubSeq(s, rec + 1, n)
    OBVIOUS
  <2>2. tail \in Seq(Msg) /\ Len(tail) = n - rec /\ \A k \in 1 .. n - rec : tail[k] = s[rec + k]
    <3>1. /\ rec + 1 \in 1 .. Len(s) + 1 /\ n \in rec + 1 - 1 .. Len(s)
          /\ n - (rec + 1) + 1 = n - rec
      BY ONLY <1>0, rec \in 0 .. n, n \in Nat
    <3>2. \A k \in 1 .. n - rec : rec + 1 + k - 1 = rec + k
      BY ONLY rec \in 0 .. n, n \in Nat
    <3>3. /\ tail \in Seq(Msg) /\ Len(tail) = n - (rec + 1) + 1
          /\ \A k \in 1 .. n - (rec + 1) + 1 : tail[k] = s[rec + 1 + k - 1]
      BY ONLY <2>1, <3>1, s \in Seq(Msg), Stretch
    <3> QED
      BY ONLY <3>1, <3>2, <3>3
  <2>3. \E hd \in Seq(Msg), x \in Msg, syn \in BOOLEAN :
           /\ hd = <<x>> /\ x.role = "system" /\ ~x.record /\ x.id = 0 /\ x.calls = {}
           /\ compactedView(s) = [msgs |-> hd \o tail, head |-> 1, shift |-> rec - 1,
                                  synthetic |-> syn, record |-> rec]
    <3>1. CASE sys = 0
      <4>1. PICK x : x = [Message("system", 0) EXCEPT !.covers = s[rec].covers]
        OBVIOUS
      <4>2. x \in Msg /\ x.role = "system" /\ ~x.record /\ x.id = 0 /\ x.calls = {}
        BY <2>0, <4>1 DEF Message, Msg
      <4>3. PICK hd : hd = <<x>>
        OBVIOUS
      <4>4. hd \in Seq(Msg)
        BY <4>2, <4>3
      <4>5. compactedView(s) = [msgs |-> hd \o tail, head |-> 1, shift |-> rec - 1,
                                synthetic |-> TRUE, record |-> rec]
        BY <1>0, <1>1, <1>5, <1>7, <2>1, <3>1, <4>1, <4>3 DEF compactedView
      <4> QED
        BY <4>2, <4>3, <4>4, <4>5
    <3>2. CASE sys = 1
      <4>0. 1 \in 1 .. n /\ s[1].role = "system" /\ s[1] \in Msg
        BY <1>0, <1>5, <3>2
      <4>1. PICK x : x = [s[1] EXCEPT !.covers = s[rec].covers]
        OBVIOUS
      <4>2. s[1].id = 0 /\ s[1].calls = {} /\ ~s[1].record
        BY <1>3, <1>4, <4>0
      <4>3. x \in Msg /\ x.role = "system" /\ ~x.record /\ x.id = 0 /\ x.calls = {}
        BY <2>0, <4>0, <4>1, <4>2 DEF Msg
      <4>4. PICK t : t = SubSeq(s, 1, 1)
        OBVIOUS
      <4>5. t \in Seq(Msg) /\ Len(t) = 1 - 1 + 1 /\ \A k \in 1 .. 1 - 1 + 1 : t[k] = s[1 + k - 1]
        <5>1. 1 \in 1 .. Len(s) + 1 /\ 1 \in 1 - 1 .. Len(s)
          BY <1>0, <4>0
        <5> QED
          BY <4>4, <5>1, Stretch
      <4>6. Len(t) = 1 /\ t[1] = s[1]
        BY <4>5
      <4>7. PICK hd : hd = [t EXCEPT ![1] = x]
        OBVIOUS
      <4>8. hd \in Seq(Msg) /\ Len(hd) = 1 /\ hd[1] = x
        <5>1. 1 \in 1 .. Len(t) /\ t \in Seq(Msg) /\ x \in Msg
          BY <4>3, <4>5, <4>6
        <5>2. /\ [t EXCEPT ![1] = x] \in Seq(Msg) /\ Len([t EXCEPT ![1] = x]) = Len(t)
              /\ \A j \in 1 .. Len(t) : [t EXCEPT ![1] = x][j] = IF j = 1 THEN x ELSE t[j]
          BY ONLY <5>1, ExceptSeq
        <5> QED
          BY ONLY <4>6, <4>7, <5>1, <5>2
      <4>9. <<x>> \in Seq(Msg) /\ Len(<<x>>) = 1 /\ <<x>>[1] = x
        BY <4>3
      <4>10. \A k \in 1 .. Len(hd) : hd[k] = <<x>>[k]
        BY <4>8, <4>9
      <4>11. hd = <<x>>
        BY <4>8, <4>9, <4>10, SeqEqual
      <4>12. hd = [SubSeq(s, 1, sys) EXCEPT ![1].covers = s[rec].covers]
        BY <3>2, <4>1, <4>4, <4>6, <4>7
      <4>13. compactedView(s) = [msgs |-> hd \o tail, head |-> 1, shift |-> rec - 1,
                                 synthetic |-> FALSE, record |-> rec]
        BY <1>0, <1>1, <1>5, <1>7, <2>1, <3>2, <4>12 DEF compactedView
      <4> QED
        BY <4>3, <4>8, <4>11, <4>13
    <3> QED
      BY <3>1, <3>2
  <2>4. PICK hd \in Seq(Msg), x \in Msg, syn \in BOOLEAN :
           /\ hd = <<x>> /\ x.role = "system" /\ ~x.record /\ x.id = 0 /\ x.calls = {}
           /\ compactedView(s) = [msgs |-> hd \o tail, head |-> 1, shift |-> rec - 1,
                                  synthetic |-> syn, record |-> rec]
    BY <2>3
  <2>5. PICK t : t = hd \o tail
    OBVIOUS
  <2>6. Len(hd) = 1 /\ hd[1] = x
    BY <2>4
  <2>7. /\ t \in Seq(Msg) /\ Len(t) = Len(hd) + Len(tail)
        /\ \A k \in 1 .. Len(hd) + Len(tail) : t[k] = IF k <= Len(hd) THEN hd[k] ELSE tail[k - Len(hd)]
    BY ONLY <2>2, <2>5, hd \in Seq(Msg), ConcatProperties
  <2>8. 1 + (rec - 1) = rec /\ rec - 1 \in Nat /\ Len(hd) + Len(tail) = n - (rec - 1)
    BY <2>0, <2>2, <2>6
  <2>9. t[1] = x
    <3>1. 1 \in 1 .. n - (rec - 1) /\ 1 <= Len(hd)
      BY <2>0, <2>6
    <3> QED
      BY <2>6, <2>7, <2>8, <3>1
  <2>10. \A k \in 1 + 1 .. n - (rec - 1) : t[k] = s[k + (rec - 1)]
    <3> TAKE k \in 1 + 1 .. n - (rec - 1)
    <3>1. /\ k \in 1 .. n - (rec - 1) /\ ~(k <= 1) /\ k - 1 \in 1 .. n - rec
          /\ rec + (k - 1) = k + (rec - 1)
      BY ONLY <2>0, n \in Nat, k \in 1 + 1 .. n - (rec - 1)
    <3>2. t[k] = tail[k - 1]
      BY ONLY <2>6, <2>7, <2>8, <3>1
    <3>3. tail[k - 1] = s[rec + (k - 1)]
      BY ONLY <2>2, <3>1
    <3> QED
      BY ONLY <3>1, <3>2, <3>3
  <2>11. \A k \in rec + 1 .. n : s[k].role # "system"
    <3> TAKE k \in rec + 1 .. n
    <3>1. k # 1
      BY <2>0
    <3> QED
      BY <1>2, <3>1
  <2>12. PICK v : v = compactedView(s)
    OBVIOUS
  <2>13. v.msgs = t /\ v.head = 1 /\ v.shift = rec - 1 /\ v.record = rec
    BY <2>4, <2>5, <2>12
  <2>14. rec < n => s[rec + 1].role = "user"
    BY <1>4, <2>0
  <2>15. rec <= n
    BY <2>0
  <2>16. ViewOf(s, v, 1, rec - 1)
    BY <1>0, <1>1, <1>7, <2>4, <2>7, <2>8, <2>9, <2>10, <2>11, <2>13, <2>14, <2>15 DEF ViewOf
  <2> QED
    BY <2>8, <2>12, <2>16
<1> QED
  BY <1>6, <1>7

\* The window begins with a user message or where the system block ends.
LEMMA WindowStartProperties ==
    ASSUME NEW t \in Seq(Msg), NEW window, NEW h \in {0, 1}, h = leadingSystem(t), h <= Len(t)
    PROVE  /\ WindowStart(t, window) \in h + 1 .. Len(t) + 1
           /\ \/ WindowStart(t, window) = h + 1
              \/ WindowStart(t, window) <= Len(t) /\ t[WindowStart(t, window)].role = "user"
<1>0. PICK n \in Nat : n = Len(t) /\ DOMAIN t = 1 .. n
  BY LenProperties
<1>1. PICK cut, b : WindowStart(t, window) =
          LET users == {i \in 1 .. n : h + 2 <= i /\ i <= cut /\ t[i].role = "user"}
          IN  IF b \/ users = {} THEN h + 1
              ELSE CHOOSE i \in users : \A j \in users : j <= i
  <2> DEFINE step == MaxOf(window \div 2, 1)
             excess == n - h - window
             cut == h + 1 + ((excess + step - 1) \div step) * step
             users == {i \in 1 .. n : h + 2 <= i /\ i <= cut /\ t[i].role = "user"}
  <2>1. WindowStart(t, window) =
          IF (window = 0 \/ excess <= 0) \/ users = {} THEN h + 1
          ELSE CHOOSE i \in users : \A j \in users : j <= i
    BY <1>0 DEF WindowStart
  <2> HIDE DEF cut
  <2> QED
    BY <2>1
<1> DEFINE users == {i \in 1 .. n : h + 2 <= i /\ i <= cut /\ t[i].role = "user"}
<1>2. PICK w : w = WindowStart(t, window)
  OBVIOUS
<1>3. CASE b \/ users = {}
  <2>1. w = h + 1
    BY <1>1, <1>2, <1>3
  <2> QED
    BY <1>0, <1>2, <2>1
<1>4. CASE ~(b \/ users = {})
  <2>1. users \in SUBSET (0 .. n)
    OBVIOUS
  <2>2. w \in users
    <3>1. w = CHOOSE i \in users : \A j \in users : j <= i
      BY <1>1, <1>2, <1>4
    <3> HIDE DEF users
    <3> QED
      BY <1>4, <2>1, <3>1, GreatestNatural
  <2>3. w \in 1 .. n /\ h + 2 <= w /\ t[w].role = "user"
    BY <2>2
  <2>4. w \in h + 1 .. n + 1 /\ w <= n
    BY ONLY <1>0, <2>3, h \in {0, 1}
  <2> QED
    BY ONLY <1>0, <1>2, <2>3, <2>4
<1> QED
  BY <1>3, <1>4

\* The system block, then the messages from start on.
LEMMA WindowProperties ==
    ASSUME NEW t \in Seq(Msg), NEW h \in {0, 1}, h = leadingSystem(t), h <= Len(t),
           NEW start \in h + 1 .. Len(t) + 1
    PROVE  LET w == applyHistoryWindow(t, start)
           IN  /\ w \in Seq(Msg) /\ Len(w) = Len(t) - (start - h - 1)
               /\ h = 1 => w[1] = t[1]
               /\ \A k \in h + 1 .. Len(t) - (start - h - 1) : w[k] = t[k + (start - h - 1)]
<1>0. PICK n \in Nat : n = Len(t) /\ start \in h + 1 .. n + 1 /\ h <= n
  BY LenProperties
<1>1. PICK a : a = SubSeq(t, 1, h)
  OBVIOUS
<1>2. PICK b : b = SubSeq(t, start, n)
  OBVIOUS
<1>3. 1 \in 1 .. Len(t) + 1 /\ h \in 1 - 1 .. Len(t) /\ h - 1 + 1 = h
  BY <1>0
<1>4. start \in 1 .. Len(t) + 1 /\ n \in start - 1 .. Len(t)
  BY <1>0
<1>5. a \in Seq(Msg) /\ Len(a) = h - 1 + 1 /\ \A k \in 1 .. h - 1 + 1 : a[k] = t[1 + k - 1]
  BY ONLY <1>1, <1>3, t \in Seq(Msg), Stretch
<1>6. b \in Seq(Msg) /\ Len(b) = n - start + 1 /\ \A k \in 1 .. n - start + 1 : b[k] = t[start + k - 1]
  BY ONLY <1>2, <1>4, t \in Seq(Msg), Stretch
<1>7. PICK w : w = a \o b
  OBVIOUS
<1>8. /\ w \in Seq(Msg) /\ Len(w) = Len(a) + Len(b)
      /\ \A k \in 1 .. Len(a) + Len(b) : w[k] = IF k <= Len(a) THEN a[k] ELSE b[k - Len(a)]
  <2>1. a \in Seq(Msg) /\ b \in Seq(Msg)
    BY <1>5, <1>6
  <2> QED
    BY ONLY <1>7, <2>1, ConcatProperties
<1>9. Len(a) = h /\ Len(a) + Len(b) = n - (start - h - 1)
  <2>1. Len(a) = h - 1 + 1 /\ Len(b) = n - start + 1
    BY <1>5, <1>6
  <2>2. h \in Int /\ start \in Int
    BY <1>0
  <2> QED
    BY ONLY <2>1, <2>2, n \in Nat
<1>10. ASSUME h = 1 PROVE w[1] = t[1]
  <2>1. 1 \in 1 .. Len(a) + Len(b) /\ 1 <= Len(a) /\ 1 \in 1 .. h - 1 + 1 /\ 1 + 1 - 1 = 1
    BY <1>0, <1>9, <1>10
  <2> QED
    BY ONLY <1>5, <1>8, <2>1
<1>11. \A k \in h + 1 .. n - (start - h - 1) : w[k] = t[k + (start - h - 1)]
  <2> TAKE k \in h + 1 .. n - (start - h - 1)
  <2>1. /\ k \in 1 .. n - (start - h - 1) /\ ~(k <= h) /\ k - h \in 1 .. n - start + 1
        /\ start + (k - h) - 1 = k + (start - h - 1)
    BY <1>0
  <2>2. w[k] = b[k - h]
    BY ONLY <1>8, <1>9, <2>1
  <2> QED
    BY ONLY <1>6, <2>1, <2>2
<1>12. applyHistoryWindow(t, start) = w
  BY <1>0, <1>1, <1>2, <1>7 DEF applyHistoryWindow
<1> QED
  <2>1. w \in Seq(Msg) /\ Len(w) = Len(t) - (start - h - 1)
    BY ONLY <1>0, <1>8, <1>9
  <2>2. \A k \in h + 1 .. Len(t) - (start - h - 1) : w[k] = t[k + (start - h - 1)]
    BY ONLY <1>0, <1>11
  <2> QED
    BY ONLY <1>10, <1>12, <2>1, <2>2

\* Messages that differ in their size alone.
Alike(a, b) ==
    /\ a.role = b.role /\ a.id = b.id /\ a.calls = b.calls
    /\ a.answers = b.answers /\ a.record = b.record /\ a.covers = b.covers

\* The classes of size a message can have, the pruned ones among them.
SizeClasses == {"short", "long", "huge", "trimmed", "discarded", "clipped"}

\* A message of another size is alike, and the same only if its size is.
LEMMA Resized ==
    ASSUME NEW m \in Msg, NEW z \in SizeClasses
    PROVE  LET r == [m EXCEPT !.size = z]
           IN  r \in Msg /\ r.size = z /\ Alike(r, m) /\ (r = m <=> m.size = z)
<1>1. PICK r : r = [m EXCEPT !.size = z]
  OBVIOUS
<1>2. r \in Msg /\ r.size = z /\ Alike(r, m)
  BY <1>1 DEF Msg, SizeClasses, Alike
<1>3. m.size = z => r = m
  BY <1>1 DEF Msg
<1> QED
  BY <1>1, <1>2, <1>3

\* The budget shortens results and answers, and says which.
LEMMA BudgetProperties ==
    ASSUME NEW t \in Seq(Msg), NEW budget
    PROVE  LET d == applyTokenBudget(t, budget)
           IN  /\ d.messages \in Seq(Msg) /\ Len(d.messages) = Len(t)
               /\ \A k \in 1 .. Len(t) :
                     /\ Alike(d.messages[k], t[k])
                     /\ t[k].role \in {"system", "user"} => d.messages[k] = t[k]
               /\ d.changes = {k \in 1 .. Len(t) : d.messages[k].size # t[k].size}
<1>0. PICK n \in Nat : n = Len(t) /\ DOMAIN t = 1 .. n /\ \A k \in 1 .. n : t[k] \in Msg
  BY LenProperties, ElementOfSeq
<1> DEFINE Clip(m) == [m EXCEPT !.size = "clipped"]
           Shorter(m) == [m EXCEPT !.size = Pruned(m)]
<1>1. PICK c, e : /\ c = t \/ c = truncateToolArguments(t)
                  /\ applyTokenBudget(t, budget) =
                        [messages |-> pruneContextMessages(c, e),
                         changes |-> Rewritten(t, c) \union Rewritten(c, pruneContextMessages(c, e))]
  <2> DEFINE est == estimateTokens(t)
             warn == budget > 0 /\ est > (budget * 85) \div 100 /\ est <= budget
             clipped == IF warn THEN truncateToolArguments(t) ELSE t
             emergency == budget > 0 /\ estimateTokens(clipped) > budget
             ends == IF emergency THEN 1 ELSE 3
  <2>1. applyTokenBudget(t, budget) =
           [messages |-> pruneContextMessages(clipped, ends),
            changes |-> Rewritten(t, clipped) \union Rewritten(clipped, pruneContextMessages(clipped, ends))]
    BY DEF applyTokenBudget
  <2>2. clipped = t \/ clipped = truncateToolArguments(t)
    OBVIOUS
  <2> HIDE DEF clipped, ends
  <2> QED
    BY <2>1, <2>2
<1>2. PICK q : q = pruneContextMessages(c, e)
  OBVIOUS
<1>3. /\ c \in Seq(Msg) /\ Len(c) = n /\ DOMAIN c = 1 .. n
      /\ \A k \in 1 .. n : \/ c[k] = t[k]
                           \/ /\ t[k].role = "tool" /\ t[k].size \in {"long", "huge"}
                              /\ c[k] = Clip(t[k])
  <2>1. CASE c = t
    BY <1>0, <2>1
  <2>2. CASE c = truncateToolArguments(t)
    <3>1. c = [i \in 1 .. n |-> IF t[i].role = "tool" /\ t[i].size \in {"long", "huge"}
                                THEN Clip(t[i]) ELSE t[i]]
      BY <1>0, <2>2 DEF truncateToolArguments
    <3>2. \A k \in 1 .. n : Clip(t[k]) \in Msg
      BY <1>0, Resized DEF SizeClasses
    <3>3. c \in [1 .. n -> Msg]
      <4> HIDE DEF Clip
      <4> QED
        BY <1>0, <3>1, <3>2
    <3>4. c \in Seq(Msg) /\ Len(c) = n /\ DOMAIN c = 1 .. n
      BY <3>3
    <3> QED
      BY <3>1, <3>4
  <2> QED
    BY <1>1, <2>1, <2>2
<1>4. \A k \in 1 .. n : c[k] \in Msg
  BY <1>3, ElementOfSeq
<1>5. PICK touched \in [1 .. n -> BOOLEAN] :
         /\ q = [i \in 1 .. n |-> IF touched[i] THEN Shorter(c[i]) ELSE c[i]]
         /\ \A i \in 1 .. n : touched[i] => c[i].role \in {"tool", "assistant"}
  <2> DEFINE f == [i \in 1 .. n |-> c[i].role \in {"tool", "assistant"} /\ i <= n - e]
  <2>1. f \in [1 .. n -> BOOLEAN] /\ \A i \in 1 .. n : f[i] => c[i].role \in {"tool", "assistant"}
    OBVIOUS
  <2>2. q = [i \in 1 .. n |-> IF f[i] THEN Shorter(c[i]) ELSE c[i]]
    BY <1>2, <1>3 DEF pruneContextMessages
  <2> HIDE DEF f
  <2> QED
    BY <2>1, <2>2
<1>6. \A k \in 1 .. n : Pruned(c[k]) \in SizeClasses /\ (Pruned(c[k]) = c[k].size <=> c[k].size \notin {"long", "huge"})
  BY <1>4 DEF Pruned, SizeClasses, Msg
<1>7. \A k \in 1 .. n : /\ Shorter(c[k]) \in Msg /\ Shorter(c[k]).size = Pruned(c[k])
                        /\ Alike(Shorter(c[k]), c[k]) /\ (Shorter(c[k]) = c[k] <=> c[k].size = Pruned(c[k]))
  BY <1>4, <1>6, Resized
<1>8. \A k \in 1 .. n : /\ Clip(t[k]) \in Msg /\ Clip(t[k]).size = "clipped"
                        /\ Alike(Clip(t[k]), t[k]) /\ (Clip(t[k]) = t[k] <=> t[k].size = "clipped")
  BY <1>0, Resized DEF SizeClasses
<1>9. q \in Seq(Msg) /\ Len(q) = n /\ \A k \in 1 .. n : q[k] \in Msg
  <2> HIDE DEF Shorter
  <2>1. \A k \in 1 .. n : q[k] \in Msg
    BY <1>4, <1>5, <1>7
  <2>2. q \in [1 .. n -> Msg]
    BY <1>5, <2>1
  <2> QED
    BY <2>1, <2>2
<1>10. ASSUME NEW k \in 1 .. n
       PROVE  /\ Alike(q[k], t[k])
              /\ t[k].role \in {"system", "user"} => q[k] = t[k]
              /\ q[k].size # t[k].size <=> t[k] # c[k] \/ c[k] # q[k]
  <2>1. Alike(c[k], t[k]) /\ (t[k].role \in {"system", "user"} => c[k] = t[k])
    <3> HIDE DEF Clip
    <3> QED
      BY <1>3, <1>8 DEF Alike
  <2>2. q[k] = IF touched[k] THEN Shorter(c[k]) ELSE c[k]
    BY <1>5
  <2>3. c[k].role = t[k].role
    BY <2>1 DEF Alike
  <2>4. Alike(q[k], c[k]) /\ (t[k].role \in {"system", "user"} => q[k] = c[k])
    <3>1. CASE touched[k]
      <4>1. c[k].role \in {"tool", "assistant"}
        BY <1>5, <3>1
      <4> HIDE DEF Shorter
      <4> QED
        BY <1>7, <2>2, <2>3, <3>1, <4>1
    <3>2. CASE ~touched[k]
      BY <2>2, <3>2 DEF Alike
    <3> QED
      BY <3>1, <3>2
  <2>5. Alike(q[k], t[k])
    BY <2>1, <2>4 DEF Alike
  <2>6. CASE c[k] = t[k]
    <3> HIDE DEF Shorter
    <3> QED
      BY <1>6, <1>7, <2>1, <2>2, <2>4, <2>5, <2>6
  <2>7. CASE c[k] # t[k]
    <3>1. t[k].size \in {"long", "huge"} /\ c[k] = Clip(t[k])
      BY <1>3, <2>7
    <3>2. c[k].size = "clipped"
      BY <1>8, <3>1
    <3>3. q[k].size = "clipped"
      <4> HIDE DEF Shorter, Clip
      <4> QED
        BY <1>6, <1>7, <2>2, <3>2
    <3> QED
      BY <2>1, <2>4, <2>5, <2>7, <3>1, <3>3
  <2> QED
    BY <2>6, <2>7
<1>11. Rewritten(t, c) \union Rewritten(c, q) = {k \in 1 .. n : q[k].size # t[k].size}
  BY <1>0, <1>3, <1>10 DEF Rewritten
<1>12. PICK d : d = applyTokenBudget(t, budget)
  OBVIOUS
<1>13. d.messages = q /\ d.changes = {k \in 1 .. n : q[k].size # t[k].size}
  BY <1>1, <1>2, <1>11, <1>12
<1> QED
  BY ONLY <1>0, <1>9, <1>10, <1>12, <1>13

\* What a request q makes of the history s: h messages of system block, then s
\* from a user message at h + d + 1 on, no system message among them.
RequestOf(s, q, h, d) ==
    /\ h \in {0, 1} /\ d \in Nat /\ h + d <= Len(s)
    /\ q.messages \in Seq(Msg) /\ Len(q.messages) = Len(s) - d
    /\ \A k \in h + 1 .. Len(s) - d : Alike(q.messages[k], s[k + d])
    /\ h = 1 => /\ q.messages[1].role = "system" /\ ~q.messages[1].record
                /\ q.messages[1].id = 0 /\ q.messages[1].calls = {}
    /\ \A k \in h + d + 1 .. Len(s) : s[k].role # "system"
    /\ h + d < Len(s) => s[h + d + 1].role = "user"
    /\ s # <<>> /\ s[Len(s)].role # "system" => h + d < Len(s)
    /\ q.changes = {k + d : k \in {j \in h + 1 .. Len(s) - d : q.messages[j].size # s[j + d].size}}

\* Whatever the window and the budget, a request has the shape RequestOf says.
LEMMA RequestShape ==
    ASSUME NEW s \in Seq(Msg), NEW m \in Nat, WellMade(s, m), Formed(s)
    PROVE  \E h, d \in Nat : RequestOf(s, deriveRequestMessages(s), h, d)
<1>0. PICK n \in Nat : n = Len(s)
  BY LenProperties
<1>1. PICK v : v = compactedView(s)
  OBVIOUS
<1>2. PICK h, d0 \in Nat : ViewOf(s, v, h, d0)
  BY <1>1, ViewShape
<1>3. PICK t : t = v.msgs
  OBVIOUS
<1>4. /\ h \in {0, 1} /\ d0 \in Nat /\ h + d0 <= n /\ t \in Seq(Msg) /\ Len(t) = n - d0
      /\ \A k \in h + 1 .. n - d0 : t[k] = s[k + d0]
      /\ h = 1 => t[1].role = "system" /\ ~t[1].record /\ t[1].id = 0 /\ t[1].calls = {}
      /\ \A k \in h + d0 + 1 .. n : s[k].role # "system"
      /\ h + d0 < n => s[h + d0 + 1].role = "user"
  BY <1>0, <1>2, <1>3 DEF ViewOf
<1>5. v.head = h /\ v.shift = d0
  BY <1>2 DEF ViewOf
<1>6. h <= Len(t) /\ (h < Len(t) => t[h + 1] = s[h + d0 + 1] /\ h + d0 < n)
  <2>1. h <= n - d0 /\ (h < n - d0 => h + d0 < n /\ h + 1 \in h + 1 .. n - d0 /\ h + 1 + d0 = h + d0 + 1)
    BY ONLY <1>4, n \in Nat
  <2> QED
    BY ONLY <1>4, <2>1
<1>7. leadingSystem(t) = h
  <2>1. h < Len(t) => t[h + 1].role # "system"
    BY <1>4, <1>6
  <2> QED
    BY <1>4, <1>6, <2>1, LeadingSystem
<1>8. PICK start : start = WindowStart(t, historyWindow)
  OBVIOUS
<1>9. /\ start \in h + 1 .. Len(t) + 1
      /\ \/ start = h + 1
         \/ start <= Len(t) /\ t[start].role = "user"
  <2>1. t \in Seq(Msg) /\ h \in {0, 1} /\ h <= Len(t)
    BY <1>4, <1>6
  <2> QED
    BY ONLY <1>7, <1>8, <2>1, WindowStartProperties
<1>10. PICK x \in Nat : x = start - h - 1 /\ start = h + 1 + x /\ h + x <= Len(t)
  <2>1. start - h - 1 \in Nat /\ start = h + 1 + (start - h - 1) /\ h + (start - h - 1) <= Len(t)
    BY ONLY <1>4, <1>9, n \in Nat
  <2> QED
    BY <2>1
<1>11. PICK w : w = applyHistoryWindow(t, start)
  OBVIOUS
<1>12. /\ w \in Seq(Msg) /\ Len(w) = Len(t) - x
       /\ h = 1 => w[1] = t[1]
       /\ \A k \in h + 1 .. Len(t) - x : w[k] = t[k + x]
  BY ONLY <1>4, <1>6, <1>7, <1>9, <1>10, <1>11, WindowProperties
<1>13. PICK q : q = applyTokenBudget(w, Budget)
  OBVIOUS
<1>14. /\ q.messages \in Seq(Msg) /\ Len(q.messages) = Len(w)
       /\ \A k \in 1 .. Len(w) :
             /\ Alike(q.messages[k], w[k])
             /\ w[k].role \in {"system", "user"} => q.messages[k] = w[k]
       /\ q.changes = {k \in 1 .. Len(w) : q.messages[k].size # w[k].size}
  BY <1>12, <1>13, BudgetProperties
<1>15. PICK r : r = deriveRequestMessages(s)
  OBVIOUS
<1>16. r = [q EXCEPT !.changes = rebaseRefs(q.changes, v, start)]
  BY <1>1, <1>3, <1>8, <1>11, <1>13, <1>15 DEF deriveRequestMessages
<1>17. q = [messages |-> q.messages, changes |-> q.changes]
  BY <1>13 DEF applyTokenBudget
<1>18. r.messages = q.messages /\ r.changes = rebaseRefs(q.changes, v, start)
  BY <1>16, <1>17
<1> DEFINE d == d0 + x
<1>19. d \in Nat /\ h + d <= n /\ Len(w) = n - d
  <2>1. /\ d0 \in Nat /\ h \in Nat /\ x \in Nat /\ Len(t) = n - d0
        /\ Len(w) = Len(t) - x /\ h + x <= Len(t)
    BY <1>4, <1>10, <1>12
  <2> QED
    BY ONLY <2>1, n \in Nat
<1>20. \A k \in h + 1 .. n - d : w[k] = s[k + d]
  <2> TAKE k \in h + 1 .. n - d
  <2>1. k \in h + 1 .. Len(t) - x /\ k + x \in h + 1 .. n - d0 /\ k + x + d0 = k + d
    BY ONLY <1>4, <1>10, <1>19, n \in Nat, k \in h + 1 .. n - d
  <2>2. w[k] = t[k + x]
    BY <1>12, <2>1
  <2>3. t[k + x] = s[k + x + d0]
    BY <1>4, <2>1
  <2> QED
    BY ONLY <2>1, <2>2, <2>3
<1>21. \A k \in h + 1 .. n - d : Alike(q.messages[k], s[k + d])
  <2> TAKE k \in h + 1 .. n - d
  <2>1. k \in 1 .. Len(w)
    BY ONLY <1>4, <1>19, n \in Nat, k \in h + 1 .. n - d
  <2> QED
    BY <1>14, <1>20, <2>1
<1>22. h = 1 => /\ q.messages[1].role = "system" /\ ~q.messages[1].record
                /\ q.messages[1].id = 0 /\ q.messages[1].calls = {}
  <2> SUFFICES ASSUME h = 1
               PROVE  /\ q.messages[1].role = "system" /\ ~q.messages[1].record
                      /\ q.messages[1].id = 0 /\ q.messages[1].calls = {}
    OBVIOUS
  <2>1. 1 \in 1 .. Len(w)
    BY ONLY <1>19, h = 1, n \in Nat
  <2>2. w[1] = t[1] /\ q.messages[1] = w[1]
    BY <1>4, <1>12, <1>14, <2>1
  <2> QED
    BY <1>4, <2>2
<1>23. \A k \in h + d + 1 .. n : s[k].role # "system"
  <2> TAKE k \in h + d + 1 .. n
  <2>1. k \in h + d0 + 1 .. n
    BY ONLY <1>4, <1>10, n \in Nat, k \in h + d + 1 .. n
  <2> QED
    BY <1>4, <2>1
<1>24. h + d < n => s[h + d + 1].role = "user"
  <2> SUFFICES ASSUME h + d < n PROVE s[h + d + 1].role = "user"
    OBVIOUS
  <2>1. CASE start = h + 1
    <3>1. x = 0 /\ d = d0
      BY ONLY <1>4, <1>10, <2>1
    <3> QED
      BY <1>4, <3>1
  <2>2. CASE start <= Len(t) /\ t[start].role = "user"
    <3>0. /\ h \in Nat /\ d0 \in Nat /\ x \in Nat /\ Len(t) = n - d0
          /\ start = h + 1 + x /\ start <= Len(t)
      BY ONLY <1>4, <1>10, <2>2, h \in Nat, x \in Nat
    <3>1. start \in h + 1 .. n - d0 /\ start + d0 = h + d + 1
      BY ONLY <3>0, n \in Nat
    <3>2. t[start] = s[start + d0]
      BY ONLY <1>4, <3>1
    <3>3. s[start + d0].role = "user"
      BY ONLY <2>2, <3>2
    <3> QED
      BY ONLY <3>1, <3>3
  <2> QED
    BY <1>9, <2>1, <2>2
<1>25. ASSUME n > 0, s[n].role # "system" PROVE h + d < n
  <2>1. n \in 1 .. n
    BY <1>25
  <2>2. h + d0 < n
    <3> SUFFICES ASSUME ~(h + d0 < n) PROVE FALSE
      OBVIOUS
    <3>1. h + d0 = n
      BY ONLY <1>4, ~(h + d0 < n), n \in Nat
    <3>2. CASE latestCompaction(s) = 0
      <4>1. v.msgs = s
        BY <1>1, <3>2 DEF compactedView
      <4>2. d0 = 0
        BY <1>2, <3>2 DEF ViewOf
      <4>3. h = 1 /\ n = 1
        BY ONLY <1>4, <1>25, <3>1, <4>2
      <4> QED
        BY <1>3, <1>4, <1>25, <4>1, <4>3
    <3>3. CASE latestCompaction(s) # 0
      <4>1. latestCompaction(s) = n
        BY <1>2, <3>1, <3>3 DEF ViewOf
      <4>2. s[n].record
        BY <1>25, <4>1, LatestRecord
      <4> QED
        BY <1>0, <1>25, <2>1, <4>2 DEF WellMade
    <3> QED
      BY <3>2, <3>3
  <2>3. CASE start = h + 1
    BY ONLY <1>4, <1>10, <2>2, <2>3, n \in Nat
  <2>4. CASE start <= Len(t)
    BY ONLY <1>4, <1>10, <2>4, n \in Nat
  <2> QED
    BY <1>9, <2>3, <2>4
<1>26. \A k \in 1 .. Len(w) : q.messages[k].size # w[k].size => k \in h + 1 .. n - d
  <2> SUFFICES ASSUME NEW k \in 1 .. Len(w), q.messages[k].size # w[k].size, ~(k >= h + 1)
               PROVE  FALSE
    <3>1. ASSUME NEW k \in 1 .. Len(w), k >= h + 1 PROVE k \in h + 1 .. n - d
      BY ONLY <1>19, <3>1, h \in Nat, n \in Nat, k \in 1 .. Len(w)
    <3> QED
      BY <3>1
  <2>1. k = 1 /\ h = 1
    BY ONLY <1>4, k \in 1 .. Len(w), ~(k >= h + 1), Len(w) \in Nat
  <2>2. q.messages[1] = w[1]
    BY <1>4, <1>12, <1>14, <2>1
  <2> QED
    BY <2>1, <2>2
<1>27. r.changes = {k + d : k \in {j \in h + 1 .. n - d : q.messages[j].size # s[j + d].size}}
  <2>1. \A k \in h + 1 .. n - d : storedIndex(v, IF k > h THEN k + start - h - 1 ELSE k) = k + d
    <3> TAKE k \in h + 1 .. n - d
    <3>1. k > h /\ k + start - h - 1 = k + x /\ k + x > h /\ k + x + d0 = k + d
      BY ONLY <1>4, <1>10, n \in Nat, k \in h + 1 .. n - d
    <3>2. storedIndex(v, k + x) = k + x + d0
      BY <1>5, <3>1 DEF storedIndex
    <3> QED
      BY ONLY <3>1, <3>2
  <2>2. r.changes = {storedIndex(v, IF k > h THEN k + start - h - 1 ELSE k) : k \in q.changes}
    BY <1>5, <1>18 DEF rebaseRefs
  <2>3. h + 1 .. n - d \subseteq 1 .. Len(w)
    BY ONLY <1>19, h \in Nat, n \in Nat
  <2>4. q.changes = {j \in h + 1 .. n - d : q.messages[j].size # s[j + d].size}
    BY <1>14, <1>20, <1>26, <2>3
  <2>5. PICK f : f = q.changes
    OBVIOUS
  <2>6. f \subseteq h + 1 .. n - d
    BY <2>4, <2>5
  <2>7. {storedIndex(v, IF k > h THEN k + start - h - 1 ELSE k) : k \in f} = {k + d : k \in f}
    BY <2>1, <2>6
  <2> QED
    BY <2>2, <2>4, <2>5, <2>7
<1>28. s # <<>> => n > 0
  BY <1>0
<1>29. Len(q.messages) = n - d
  BY <1>14, <1>19
<1> HIDE DEF d
<1>30. PICK z : z = q.messages
  OBVIOUS
<1>31. z \in Seq(Msg) /\ r.messages = z
  BY <1>14, <1>18, <1>30
<1>32. RequestOf(s, r, h, d)
  <2>1. s # <<>> /\ s[n].role # "system" => h + d < n
    BY <1>25, <1>28
  <2> QED
    BY ONLY <1>0, <1>4, <1>19, <1>21, <1>22, <1>23, <1>24, <1>27, <1>29, <1>30, <1>31, <2>1
    DEF RequestOf
<1> QED
  BY <1>15, <1>19, <1>32

\* A request is as balanced as a history that has nothing open.
LEMMA RequestIsBalanced ==
    ASSUME NEW s \in Seq(Msg), NEW m \in Nat, WellMade(s, m), Formed(s), Closed(s),
           s # <<>>, s[Len(s)].role # "system"
    PROVE  LET r == deriveRequestMessages(s).messages
               sys == leadingSystem(r)
           IN  /\ r[sys + 1].role = "user"
               /\ \A i \in DOMAIN r :
                     /\ ~r[i].record
                     /\ Dangling(r, i) = {}
                     /\ r[i].role = "tool" =>
                           \E j \in 1 .. i - 1 : r[i].answers \in r[j].calls /\ BlockEnd(r, j) >= i
               /\ \A i \in DOMAIN s :
                     s[i].role = "user" /\ (\A j \in i + 1 .. Len(s) : s[j].role # "user")
                       => s[i].id \in Ids(r)
<1>0. PICK n \in Nat : n = Len(s) /\ DOMAIN s = 1 .. n
  BY LenProperties
<1>1. PICK q : q = deriveRequestMessages(s)
  OBVIOUS
<1>2. PICK h, d \in Nat : RequestOf(s, q, h, d)
  BY <1>1, RequestShape
<1>3. PICK r \in Seq(Msg) : r = q.messages
  BY <1>2 DEF RequestOf
<1>4. PICK l \in Nat : l = n - d /\ l = Len(r) /\ DOMAIN r = 1 .. l /\ h < l
  <2>1. Len(r) = n - d /\ h + d < n
    BY <1>0, <1>2, <1>3 DEF RequestOf
  <2>2. Len(r) \in Nat /\ DOMAIN r = 1 .. Len(r)
    BY LenProperties
  <2>3. h < n - d
    BY ONLY <2>1, h \in Nat, d \in Nat, n \in Nat
  <2> QED
    BY <2>1, <2>2, <2>3
<1>5. h \in {0, 1}
  BY <1>2 DEF RequestOf
<1>6. \A k \in h + 1 .. l : k + d \in h + d + 1 .. n /\ k + d \in 1 .. n /\ k \in 1 .. l
  BY ONLY <1>4, h \in Nat, d \in Nat, n \in Nat, l \in Nat
<1>7. \A k \in h + 1 .. l : Alike(r[k], s[k + d]) /\ s[k + d].role # "system"
  BY <1>0, <1>2, <1>3, <1>4, <1>6 DEF RequestOf
<1>8. \A k \in 1 .. l : \/ k \in h + 1 .. l
                        \/ /\ k = 1 /\ r[k].role = "system" /\ ~r[k].record /\ r[k].id = 0
                           /\ r[k].calls = {}
  <2> TAKE k \in 1 .. l
  <2>1. k \in h + 1 .. l \/ (k = 1 /\ h = 1)
    BY ONLY <1>4, <1>5, k \in 1 .. l
  <2> QED
    BY <1>2, <1>3, <2>1 DEF RequestOf
<1>9. h + 1 \in h + 1 .. l /\ r[h + 1].role = "user" /\ s[h + 1 + d].role = "user"
  <2>1. h + 1 \in h + 1 .. l /\ h + 1 + d = h + d + 1 /\ h + d < n
    BY ONLY <1>4, h \in Nat, d \in Nat, n \in Nat, l \in Nat
  <2>2. s[h + d + 1].role = "user"
    BY <1>0, <1>2, <2>1 DEF RequestOf
  <2> QED
    BY <1>7, <2>1, <2>2 DEF Alike
<1>10. leadingSystem(r) = h
  <2>1. h = 1 => r[1].role = "system" /\ ~r[1].record
    BY <1>2, <1>3 DEF RequestOf
  <2>2. h <= Len(r) /\ r[h + 1].role # "system"
    BY <1>4, <1>9
  <2> QED
    BY <1>5, <2>1, <2>2, LeadingSystem
<1>11. Owned(r)
  <2>1. ASSUME NEW i \in 1 .. l
        PROVE  /\ r[i].role # "assistant" => r[i].calls = {}
               /\ \A c \in r[i].calls : c[1] = r[i].id
    <3>1. CASE i \in h + 1 .. l
      <4>1. Alike(r[i], s[i + d]) /\ i + d \in 1 .. n
        BY <1>6, <1>7, <3>1
      <4> QED
        BY <1>0, <4>1 DEF Alike, WellMade, Owned
    <3> QED
      BY <1>8, <3>1
  <2>2. ASSUME NEW i \in 1 .. l, NEW j \in 1 .. l, r[i].role # "system", r[j].role # "system",
               r[i].id = r[j].id
        PROVE  i = j
    <3>1. i \in h + 1 .. l /\ j \in h + 1 .. l
      BY <1>8, <2>2
    <3>2. i + d = j + d
      <4>1. i + d \in 1 .. n /\ j + d \in 1 .. n
        BY <1>6, <3>1
      <4>2. s[i + d].id = s[j + d].id /\ s[i + d].role # "system" /\ s[j + d].role # "system"
        BY <1>7, <2>2, <3>1 DEF Alike
      <4> QED
        BY <1>0, <4>1, <4>2 DEF WellMade, Owned
    <3> QED
      BY ONLY <3>2, i \in 1 .. l, j \in 1 .. l, d \in Nat
  <2> QED
    BY <1>4, <2>1, <2>2 DEF Owned
<1>12. ASSUME NEW k \in 1 .. l, r[k].role = "tool"
       PROVE  \E i \in 1 .. k - 1 : /\ r[k].answers \in r[i].calls
                                    /\ \A j \in i + 1 .. k : r[j].role = "tool"
  <2>1. k \in h + 1 .. l
    BY <1>8, <1>12
  <2>2. k + d \in 1 .. n /\ Alike(r[k], s[k + d]) /\ s[k + d].role = "tool"
    BY <1>6, <1>7, <1>12, <2>1 DEF Alike
  <2>3. PICK i \in 1 .. k + d - 1 : /\ s[k + d].answers \in s[i].calls
                                    /\ \A j \in i + 1 .. k + d : s[j].role = "tool"
    <3>1. Answering(s)
      BY DEF Formed
    <3>2. PICK j : j = k + d
      OBVIOUS
    <3>3. j \in 1 .. Len(s) /\ s[j].role = "tool"
      BY <1>0, <2>2, <3>2
    <3>4. \E i \in 1 .. j - 1 : /\ s[j].answers \in s[i].calls
                                /\ \A z \in i + 1 .. j : s[z].role = "tool"
      BY ONLY <3>1, <3>3 DEF Answering
    <3> QED
      BY ONLY <3>2, <3>4
  <2>4. i >= h + 1 + d
    <3> SUFFICES ASSUME ~(i >= h + 1 + d) PROVE FALSE
      OBVIOUS
    <3>1. h + 1 + d \in i + 1 .. k + d
      BY ONLY <2>1, ~(i >= h + 1 + d), i \in 1 .. k + d - 1, h \in Nat, d \in Nat
    <3> QED
      BY <1>9, <2>3, <3>1
  <2>5. i - d \in h + 1 .. l /\ i - d \in 1 .. k - 1 /\ i - d + d = i
    BY ONLY <2>1, <2>4, i \in 1 .. k + d - 1, h \in Nat, d \in Nat, l \in Nat
  <2>6. r[k].answers \in r[i - d].calls
    BY <1>7, <2>2, <2>3, <2>5 DEF Alike
  <2>7. \A j \in i - d + 1 .. k : r[j].role = "tool"
    <3> TAKE j \in i - d + 1 .. k
    <3>1. j \in h + 1 .. l /\ j + d \in i + 1 .. k + d
      BY ONLY <2>1, <2>4, i \in 1 .. k + d - 1, j \in i - d + 1 .. k, h \in Nat, d \in Nat,
         l \in Nat
    <3> QED
      BY <1>7, <2>3, <3>1 DEF Alike
  <2> QED
    BY <2>5, <2>6, <2>7
<1>13. Answering(r)
  BY <1>4, <1>12 DEF Answering
<1>14. ASSUME NEW k \in 1 .. l PROVE Dangling(r, k) = {}
  <2>1. Dangling(r, k) = Unanswered(r, k)
    BY <1>4, <1>11, <1>13, DanglingIsUnanswered
  <2>2. CASE k \in h + 1 .. l
    <3>1. k + d \in 1 .. n /\ Alike(r[k], s[k + d])
      BY <1>6, <1>7, <2>2
    <3>2. ASSUME NEW c \in r[k].calls PROVE c \notin Unanswered(r, k)
      <4>1. c \in s[k + d].calls /\ c \notin Unanswered(s, k + d)
        BY <1>0, <3>1, <3>2 DEF Closed, Alike
      <4>2. PICK j \in k + d + 1 .. n : s[j].role = "tool" /\ s[j].answers = c
        BY <1>0, <4>1 DEF Unanswered
      <4>3. j - d \in k + 1 .. l /\ j - d \in h + 1 .. l /\ j - d + d = j
        BY ONLY <1>4, <2>2, j \in k + d + 1 .. n, h \in Nat, d \in Nat, n \in Nat, l \in Nat
      <4>4. r[j - d].role = "tool" /\ r[j - d].answers = c
        BY <1>7, <4>2, <4>3 DEF Alike
      <4> QED
        BY <1>4, <4>3, <4>4 DEF Unanswered
    <3> QED
      BY <2>1, <3>2 DEF Unanswered
  <2>3. CASE r[k].calls = {}
    BY <2>1, <2>3 DEF Unanswered
  <2> QED
    BY <1>8, <2>2, <2>3
<1>15. ASSUME NEW k \in 1 .. l PROVE ~r[k].record
  <2>1. CASE k \in h + 1 .. l
    BY <1>0, <1>6, <1>7, <2>1 DEF Alike, WellMade
  <2> QED
    BY <1>8, <2>1
<1>16. ASSUME NEW k \in 1 .. l, r[k].role = "tool"
       PROVE  \E j \in 1 .. k - 1 : r[k].answers \in r[j].calls /\ BlockEnd(r, j) >= k
  <2>1. PICK i \in 1 .. k - 1 : /\ r[k].answers \in r[i].calls
                                /\ \A j \in i + 1 .. k : r[j].role = "tool"
    BY <1>12, <1>16
  <2>2. i \in 1 .. Len(r) /\ k \in i + 1 .. Len(r)
    BY ONLY <1>4, k \in 1 .. l, i \in 1 .. k - 1
  <2>3. BlockEnd(r, i) >= k
    BY <2>1, <2>2, ResultInBlock
  <2> QED
    BY <2>1, <2>3
<1>17. ASSUME NEW p \in 1 .. n, s[p].role = "user", \A j \in p + 1 .. n : s[j].role # "user"
       PROVE  s[p].id \in Ids(r)
  <2>1. p >= h + 1 + d
    <3> SUFFICES ASSUME ~(p >= h + 1 + d) PROVE FALSE
      OBVIOUS
    <3>1. h + 1 + d \in p + 1 .. n
      BY ONLY <1>4, ~(p >= h + 1 + d), p \in 1 .. n, h \in Nat, d \in Nat, n \in Nat
    <3> QED
      BY <1>9, <1>17, <3>1
  <2>2. p - d \in h + 1 .. l /\ p - d \in 1 .. l /\ p - d + d = p
    BY ONLY <1>4, <2>1, p \in 1 .. n, h \in Nat, d \in Nat, n \in Nat
  <2>3. r[p - d].id = s[p].id /\ r[p - d].role = "user"
    BY <1>7, <1>17, <2>2 DEF Alike
  <2> QED
    BY <1>4, <2>2, <2>3 DEF Ids
<1>18. r = deriveRequestMessages(s).messages
  BY <1>1, <1>3
<1> QED
  BY ONLY <1>0, <1>4, <1>9, <1>10, <1>14, <1>15, <1>16, <1>17, <1>18

\* The positions a request reports are those of what it shortens.
LEMMA RefsAreStored ==
    ASSUME NEW s \in Seq(Msg), NEW m \in Nat, WellMade(s, m), Formed(s)
    PROVE  LET d == deriveRequestMessages(s)
               Shortened(a) == \E i \in DOMAIN d.messages :
                                   d.messages[i].id = a.id /\ d.messages[i].size # a.size
           IN  d.changes = {i \in DOMAIN s : s[i].role # "system" /\ Shortened(s[i])}
<1>0. PICK n \in Nat : n = Len(s) /\ DOMAIN s = 1 .. n
  BY LenProperties
<1>1. PICK q : q = deriveRequestMessages(s)
  OBVIOUS
<1>2. PICK h, d \in Nat : RequestOf(s, q, h, d)
  BY <1>1, RequestShape
<1>3. PICK r \in Seq(Msg) : r = q.messages
  BY <1>2 DEF RequestOf
<1>4. PICK l \in Nat : l = n - d /\ l = Len(r) /\ DOMAIN r = 1 .. l /\ h <= l
  <2>1. Len(r) = n - d /\ h + d <= n
    BY <1>0, <1>2, <1>3 DEF RequestOf
  <2>2. Len(r) \in Nat /\ DOMAIN r = 1 .. Len(r)
    BY LenProperties
  <2>3. h <= n - d
    BY ONLY <2>1, h \in Nat, d \in Nat, n \in Nat
  <2> QED
    BY <2>1, <2>2, <2>3
<1>5. h \in {0, 1}
  BY <1>2 DEF RequestOf
<1>6. \A k \in h + 1 .. l : k + d \in h + d + 1 .. n /\ k + d \in 1 .. n /\ k \in 1 .. l
  BY ONLY <1>4, h \in Nat, d \in Nat, n \in Nat, l \in Nat
<1>7. \A k \in h + 1 .. l : Alike(r[k], s[k + d]) /\ s[k + d].role # "system"
  BY <1>0, <1>2, <1>3, <1>4, <1>6 DEF RequestOf
<1>8. q.changes = {k + d : k \in {j \in h + 1 .. l : r[j].size # s[j + d].size}}
  BY <1>0, <1>2, <1>3, <1>4 DEF RequestOf
<1> DEFINE Shortened(a) == \E i \in 1 .. l : r[i].id = a.id /\ r[i].size # a.size
<1>9. ASSUME NEW i \in q.changes
      PROVE  i \in 1 .. n /\ s[i].role # "system" /\ Shortened(s[i])
  <2>1. PICK k \in h + 1 .. l : i = k + d /\ r[k].size # s[k + d].size
    BY <1>8, <1>9
  <2> QED
    BY <1>6, <1>7, <2>1 DEF Alike
<1>10. ASSUME NEW i \in 1 .. n, s[i].role # "system", Shortened(s[i])
       PROVE  i \in q.changes
  <2>1. PICK k \in 1 .. l : r[k].id = s[i].id /\ r[k].size # s[i].size
    BY <1>10
  <2>2. k \in h + 1 .. l
    <3> SUFFICES ASSUME ~(k \in h + 1 .. l) PROVE FALSE
      OBVIOUS
    <3>1. k = 1 /\ h = 1
      BY ONLY <1>4, <1>5, k \in 1 .. l, ~(k \in h + 1 .. l)
    <3>2. r[k].id = 0
      BY <1>2, <1>3, <3>1 DEF RequestOf
    <3>3. s[i].id \in 1 .. m
      BY <1>0, <1>10 DEF WellMade
    <3> QED
      BY <2>1, <3>2, <3>3
  <2>3. k + d \in 1 .. n /\ s[k + d].id = s[i].id /\ s[k + d].role # "system"
    BY <1>6, <1>7, <2>1, <2>2 DEF Alike
  <2>4. k + d = i
    BY <1>0, <1>10, <2>3 DEF WellMade, Owned
  <2> QED
    BY <1>8, <2>1, <2>2, <2>4
<1> QED
  BY <1>0, <1>1, <1>3, <1>4, <1>9, <1>10

\* t is s with a record that covers C before its p-th message.
Recorded(s, t, p, C) ==
    /\ p \in 1 .. Len(s) /\ t \in Seq(Msg) /\ Len(t) = Len(s) + 1
    /\ \A k \in 1 .. p - 1 : t[k] = s[k]
    /\ t[p] = Record(C)
    /\ \A k \in p + 1 .. Len(s) + 1 : t[k] = s[k - 1]

\* Insert of a compaction puts a record before a message.
LEMMA InsertIsRecorded ==
    ASSUME NEW s \in Seq(Msg), NEW p \in 1 .. Len(s), NEW C \in SUBSET Nat
    PROVE  Recorded(s, InsertAt(s, p, Record(C)), p, C)
<1>0. PICK n \in Nat : n = Len(s) /\ p \in 1 .. n
  BY LenProperties
<1>1. PICK x : x = Record(C)
  OBVIOUS
<1>2. x \in Msg
  BY <1>1 DEF Record, Message, Msg
<1>3. p \in 1 .. Len(s) + 1
  BY <1>0
<1>4. PICK t : t = InsertAt(s, p, x)
  OBVIOUS
<1>5. /\ t \in Seq(Msg) /\ Len(t) = n + 1
      /\ \A k \in 1 .. n + 1 : t[k] = IF k < p THEN s[k] ELSE IF k = p THEN x ELSE s[k - 1]
  <2>1. /\ t \in Seq(Msg) /\ Len(t) = Len(s) + 1
        /\ \A k \in 1 .. Len(s) + 1 : t[k] = IF k < p THEN s[k] ELSE IF k = p THEN x ELSE s[k - 1]
    BY ONLY <1>2, <1>3, <1>4, s \in Seq(Msg), InsertAtProperties
  <2> QED
    BY <1>0, <2>1
<1>6. \A k \in 1 .. p - 1 : t[k] = s[k]
  BY ONLY <1>0, <1>5, n \in Nat
<1>7. t[p] = x
  BY ONLY <1>0, <1>5, n \in Nat
<1>8. \A k \in p + 1 .. n + 1 : t[k] = s[k - 1]
  BY ONLY <1>0, <1>5, n \in Nat
<1> QED
  BY <1>0, <1>1, <1>4, <1>5, <1>6, <1>7, <1>8 DEF Recorded

\* Where a message of t stood in s.
LEMMA RecordedFrom ==
    ASSUME NEW s \in Seq(Msg), NEW t, NEW p, NEW C, Recorded(s, t, p, C),
           NEW k \in 1 .. Len(t), k # p
    PROVE  \E i \in 1 .. Len(s) : t[k] = s[i] /\ ((k < p /\ i = k) \/ (p < k /\ i = k - 1))
<1>0. PICK n \in Nat : n = Len(s) /\ p \in 1 .. n /\ k \in 1 .. n + 1
  BY LenProperties DEF Recorded
<1>1. CASE k < p
  <2>1. k \in 1 .. p - 1 /\ k \in 1 .. n
    BY ONLY <1>0, <1>1
  <2> QED
    BY <1>0, <1>1, <2>1 DEF Recorded
<1>2. CASE ~(k < p)
  <2>1. k \in p + 1 .. n + 1 /\ k - 1 \in 1 .. n
    BY <1>0, <1>2
  <2>2. t[k] = s[k - 1]
    BY <1>0, <2>1 DEF Recorded
  <2>3. p < k
    BY <1>0, <1>2
  <2> QED
    BY <1>0, <2>1, <2>2, <2>3
<1> QED
  BY <1>1, <1>2

\* A record that covers given identities alone leaves a history well made.
LEMMA RecordedWellMade ==
    ASSUME NEW s \in Seq(Msg), NEW m \in Nat, WellMade(s, m), NEW t, NEW p,
           NEW C \in SUBSET (1 .. m), Recorded(s, t, p, C)
    PROVE  WellMade(t, m)
<1>0. PICK n \in Nat : n = Len(s) /\ p \in 1 .. n /\ Len(t) = n + 1
  BY LenProperties DEF Recorded
<1>1. /\ t[p].role = "system" /\ t[p].id = 0 /\ t[p].calls = {} /\ t[p].covers = C
  BY DEF Recorded, Record, Message
<1>2. ASSUME NEW k \in 1 .. n + 1
      PROVE  /\ t[k].role # "assistant" => t[k].calls = {}
             /\ \A c \in t[k].calls : c[1] = t[k].id
             /\ t[k].record => t[k].role = "system"
             /\ t[k].role # "system" => t[k].id \in 1 .. m
             /\ t[k].role = "system" => t[k].id = 0
             /\ t[k].covers \subseteq 1 .. m
  <2>1. CASE k = p
    BY <1>1, <2>1
  <2>2. CASE k # p
    <3>1. PICK i \in 1 .. n : t[k] = s[i]
      BY <1>0, <2>2, RecordedFrom
    <3> QED
      BY <1>0, <3>1 DEF WellMade, Owned
  <2> QED
    BY <2>1, <2>2
<1>3. ASSUME NEW k \in 1 .. n + 1, NEW l \in 1 .. n + 1, t[k].role # "system",
             t[l].role # "system", t[k].id = t[l].id
      PROVE  k = l
  <2>0. \A q \in 1 .. n + 1 : q # p =>
           \E i \in 1 .. n : t[q] = s[i] /\ ((q < p /\ i = q) \/ (p < q /\ i = q - 1))
    BY <1>0, RecordedFrom
  <2>1. k # p /\ l # p
    BY <1>1, <1>3
  <2>2. PICK i \in 1 .. n : t[k] = s[i] /\ ((k < p /\ i = k) \/ (p < k /\ i = k - 1))
    BY <2>0, <2>1
  <2>3. PICK j \in 1 .. n : t[l] = s[j] /\ ((l < p /\ j = l) \/ (p < l /\ j = l - 1))
    BY <2>0, <2>1
  <2>4. i = j
    BY <1>0, <1>3, <2>2, <2>3 DEF WellMade, Owned
  <2>5. p \in Int /\ k \in Int /\ l \in Int
    BY <1>0
  <2> QED
    BY ONLY <2>2, <2>3, <2>4, <2>5
<1> QED
  BY <1>0, <1>2, <1>3 DEF WellMade, Owned

\* A record after the others that covers what is before it, apart from what was
\* left out, and nothing after it leaves no gap.
LEMMA RecordedGapless ==
    ASSUME NEW s \in Seq(Msg), NEW left, NEW more, Gapless(s, left),
           NEW t, NEW p, NEW C, Recorded(s, t, p, C),
           \A i \in 1 .. Len(s) : s[i].record => i < p,
           \A i \in 1 .. p - 1 : s[i].role # "system" => s[i].id \in C \union left \union more,
           \A i \in p .. Len(s) : s[i].role # "system" => s[i].id \notin C
    PROVE  Gapless(t, left \union more)
<1>0. PICK n \in Nat : n = Len(s) /\ p \in 1 .. n /\ Len(t) = n + 1
  BY LenProperties DEF Recorded
<1>1. t[p].role = "system" /\ t[p].covers = C
  BY DEF Recorded, Record, Message
<1>2. ASSUME NEW q \in 1 .. n + 1, t[q].record
      PROVE  /\ \A i \in 1 .. q : t[i].role # "system" => t[i].id \in t[q].covers \union left \union more
             /\ \A i \in q .. n + 1 : t[i].role # "system" => t[i].id \notin t[q].covers
  <2>1. CASE q = p
    <3>1. \A i \in 1 .. q : i = p \/ (i \in 1 .. p - 1 /\ t[i] = s[i])
      <4>1. \A i \in 1 .. q : i = p \/ i \in 1 .. p - 1
        BY ONLY <1>0, <2>1
      <4> QED
        BY <4>1 DEF Recorded
    <3>2. \A i \in q .. n + 1 : i = p \/ (i - 1 \in p .. n /\ t[i] = s[i - 1])
      <4>1. \A i \in q .. n + 1 : i = p \/ (i - 1 \in p .. n /\ i \in p + 1 .. n + 1)
        BY ONLY <1>0, <2>1, n \in Nat
      <4> QED
        BY <1>0, <4>1 DEF Recorded
    <3> QED
      BY <1>0, <1>1, <2>1, <3>1, <3>2
  <2>2. CASE q # p
    <3>1. q < p
      <4>1. PICK i \in 1 .. n : t[q] = s[i] /\ ((q < p /\ i = q) \/ (p < q /\ i = q - 1))
        BY <1>0, <2>2, RecordedFrom
      <4>2. i < p
        BY <1>0, <1>2, <4>1
      <4> QED
        BY ONLY <1>0, <2>2, <4>1, <4>2, q \in 1 .. n + 1
    <3>2. q \in 1 .. n /\ q \in 1 .. p - 1 /\ t[q] = s[q] /\ s[q].record
      <4>1. q \in 1 .. n /\ q \in 1 .. p - 1
        BY ONLY <1>0, <3>1, q \in 1 .. n + 1
      <4> QED
        BY <1>2, <4>1 DEF Recorded
    <3>3. \A i \in 1 .. q : t[i] = s[i]
      <4>1. \A i \in 1 .. q : i \in 1 .. p - 1
        BY ONLY <1>0, <3>2
      <4> QED
        BY <4>1 DEF Recorded
    <3>4. ASSUME NEW i \in q .. n + 1, t[i].role # "system" PROVE \E j \in q .. n : t[i] = s[j]
      <4>1. i # p /\ i \in 1 .. n + 1
        BY <1>1, <3>4
      <4>2. PICK j \in 1 .. n : t[i] = s[j] /\ ((i < p /\ j = i) \/ (p < i /\ j = i - 1))
        BY <1>0, <4>1, RecordedFrom
      <4>3. j \in q .. n
        BY ONLY <1>0, <3>1, <4>1, <4>2, i \in q .. n + 1, q \in 1 .. n + 1, j \in 1 .. n
      <4> QED
        BY <4>2, <4>3
    <3> QED
      BY <1>0, <3>2, <3>3, <3>4 DEF Gapless
  <2> QED
    BY <2>1, <2>2
<1> QED
  BY <1>0, <1>2 DEF Gapless

\* A record before a user message past the first leaves a history formed.
LEMMA RecordedFormed ==
    ASSUME NEW s \in Seq(Msg), Formed(s), NEW t, NEW p, NEW C, Recorded(s, t, p, C),
           p >= 2, s[p].role = "user", s[p - 1].role # "system"
    PROVE  Formed(t)
<1>0. PICK n \in Nat : n = Len(s) /\ p \in 2 .. n /\ Len(t) = n + 1
  BY LenProperties DEF Recorded
<1>1. /\ t[p].role = "system" /\ t[p].record /\ t[p].calls = {}
      /\ \A k \in 1 .. p - 1 : t[k] = s[k]
      /\ \A k \in p + 1 .. n + 1 : t[k] = s[k - 1]
  BY <1>0 DEF Recorded, Record, Message
<1>2. t[1].role \in {"system", "user"}
  <2>1. s # <<>> /\ 1 \in 1 .. p - 1
    BY <1>0
  <2> QED
    BY <1>1, <2>1 DEF Formed
<1>3. ASSUME NEW k \in 1 .. n + 1, t[k].role = "system"
      PROVE  /\ t[k].record <=> k # 1
             /\ k < n + 1 => t[k + 1].role = "user"
  <2>1. CASE k = p
    <3>1. p + 1 \in p + 1 .. n + 1 /\ p + 1 - 1 = p /\ p # 1
      BY <1>0
    <3>2. t[p + 1] = s[p]
      <4>1. PICK j \in p + 1 .. n + 1 : j = p + 1 /\ j - 1 = p
        BY ONLY <1>0, <3>1
      <4>2. t[j] = s[j - 1]
        BY <1>1
      <4> QED
        BY ONLY <4>1, <4>2
    <3> QED
      BY <1>1, <2>1, <3>1, <3>2
  <2>2. CASE k < p
    <3>1. k \in 1 .. p - 1 /\ k \in 1 .. n /\ k < n
      BY ONLY <1>0, <2>2, k \in 1 .. n + 1
    <3>2. t[k] = s[k] /\ (s[k].record <=> k # 1) /\ s[k + 1].role = "user"
      BY <1>0, <1>1, <1>3, <3>1 DEF Formed
    <3>3. k # p - 1
      BY <1>3, <3>2
    <3>4. k + 1 \in 1 .. p - 1
      BY ONLY <1>0, <2>2, <3>3, k \in 1 .. n + 1
    <3>5. t[k + 1] = s[k + 1]
      BY <1>1, <3>4
    <3> QED
      BY <3>2, <3>5
  <2>3. CASE p < k
    <3>1. k \in p + 1 .. n + 1 /\ k - 1 \in 1 .. n /\ k - 1 # 1 /\ k # 1
      BY ONLY <1>0, <2>3, k \in 1 .. n + 1
    <3>2. t[k] = s[k - 1]
      BY <1>1, <3>1
    <3>3. t[k].record
      BY <1>0, <1>3, <3>1, <3>2 DEF Formed
    <3>4. ASSUME k < n + 1 PROVE t[k + 1].role = "user"
      <4>1. k + 1 \in p + 1 .. n + 1 /\ k + 1 - 1 = k /\ k - 1 + 1 = k /\ k - 1 < n
        BY ONLY <1>0, <2>3, <3>4, k \in 1 .. n + 1
      <4>2. t[k + 1] = s[k]
        BY <1>1, <4>1
      <4>3. s[k - 1 + 1].role = "user"
        BY <1>0, <1>3, <3>1, <3>2, <4>1 DEF Formed
      <4> QED
        BY <4>1, <4>2, <4>3
    <3> QED
      BY <3>1, <3>3, <3>4
  <2> QED
    BY ONLY <1>0, <2>1, <2>2, <2>3, k \in 1 .. n + 1
<1>4. ASSUME NEW k \in 1 .. n + 1, t[k].role = "tool"
      PROVE  \E i \in 1 .. k - 1 : /\ t[k].answers \in t[i].calls
                                   /\ \A l \in i + 1 .. k : t[l].role = "tool"
  <2>1. CASE k < p
    <3>1. k \in 1 .. n /\ 1 .. k \subseteq 1 .. p - 1 /\ k \in 1 .. k
      BY ONLY <1>0, <2>1, k \in 1 .. n + 1
    <3>2. \A l \in 1 .. k : t[l] = s[l]
      BY <1>1, <3>1
    <3>3. PICK i \in 1 .. k - 1 : /\ s[k].answers \in s[i].calls
                                  /\ \A l \in i + 1 .. k : s[l].role = "tool"
      BY <1>0, <1>4, <3>1, <3>2 DEF Formed, Answering
    <3>4. i \in 1 .. k /\ i + 1 .. k \subseteq 1 .. k
      BY ONLY i \in 1 .. k - 1, k \in 1 .. n + 1
    <3> QED
      BY <3>1, <3>2, <3>3, <3>4
  <2>2. CASE p < k
    <3>1. k - 1 \in 1 .. n /\ k \in p + 1 .. n + 1
      BY ONLY <1>0, <2>2, k \in 1 .. n + 1
    <3>2. t[k] = s[k - 1]
      BY <1>1, <3>1
    <3>3. PICK i \in 1 .. k - 1 - 1 : /\ s[k - 1].answers \in s[i].calls
                                      /\ \A l \in i + 1 .. k - 1 : s[l].role = "tool"
      BY <1>0, <1>4, <3>1, <3>2 DEF Formed, Answering
    <3>4. i >= p
      <4> SUFFICES ASSUME ~(i >= p) PROVE FALSE
        OBVIOUS
      <4>1. p \in i + 1 .. k - 1
        BY ONLY <1>0, <2>2, ~(i >= p), i \in 1 .. k - 1 - 1, k \in 1 .. n + 1
      <4> QED
        BY <3>3, <4>1
    <3>5. i + 1 \in p + 1 .. n + 1 /\ i + 1 \in 1 .. k - 1 /\ i + 1 - 1 = i
      BY ONLY <1>0, <3>4, i \in 1 .. k - 1 - 1, k \in 1 .. n + 1
    <3>6. t[i + 1] = s[i]
      BY <1>1, <3>5
    <3>7. \A l \in i + 1 + 1 .. k : t[l].role = "tool"
      <4> TAKE l \in i + 1 + 1 .. k
      <4>1. l \in p + 1 .. n + 1 /\ l - 1 \in i + 1 .. k - 1
        BY ONLY <1>0, <3>4, i \in 1 .. k - 1 - 1, k \in 1 .. n + 1, l \in i + 1 + 1 .. k
      <4> QED
        BY <1>1, <3>3, <4>1
    <3> QED
      BY <3>2, <3>3, <3>5, <3>6, <3>7
  <2>3. k # p
    BY <1>1, <1>4
  <2> QED
    BY ONLY <1>0, <2>1, <2>2, <2>3, k \in 1 .. n + 1
<1>5. ASSUME NEW k \in 1 .. n + 1, Unanswered(t, k) # {}, NEW l \in k + 1 .. n + 1
      PROVE  t[l].role = "tool"
  <2>1. PICK c \in t[k].calls : \A j \in k + 1 .. n + 1 : t[j].role = "tool" => t[j].answers # c
    BY <1>0, <1>5 DEF Unanswered
  <2>2. k # p
    BY <1>1, <2>1
  <2>3. CASE k < p
    <3>1. k \in 1 .. p - 1 /\ k \in 1 .. n /\ p \in k + 1 .. n
      BY ONLY <1>0, <2>3, k \in 1 .. n + 1
    <3>2. ASSUME NEW j \in k + 1 .. n, s[j].role = "tool" PROVE s[j].answers # c
      <4>1. CASE j < p
        <5>1. j \in 1 .. p - 1 /\ j \in k + 1 .. n + 1
          BY ONLY <1>0, <4>1, j \in k + 1 .. n, k \in 1 .. n + 1
        <5> QED
          BY <1>1, <2>1, <3>2, <5>1
      <4>2. CASE ~(j < p)
        <5>1. j + 1 \in p + 1 .. n + 1 /\ j + 1 \in k + 1 .. n + 1 /\ j + 1 - 1 = j
          BY ONLY <1>0, <4>2, j \in k + 1 .. n, k \in 1 .. n + 1
        <5> QED
          BY <1>1, <2>1, <3>2, <5>1
      <4> QED
        BY <4>1, <4>2
    <3>3. c \in Unanswered(s, k)
      BY <1>0, <1>1, <2>1, <3>1, <3>2 DEF Unanswered
    <3>4. s[p].role = "tool"
      BY <1>0, <3>1, <3>3 DEF Formed
    <3> QED
      BY <3>4
  <2>4. CASE p < k
    <3>1. k \in p + 1 .. n + 1 /\ k - 1 \in 1 .. n /\ l - 1 \in k - 1 + 1 .. n /\ l \in p + 1 .. n + 1
      BY ONLY <1>0, <2>4, k \in 1 .. n + 1, l \in k + 1 .. n + 1
    <3>2. ASSUME NEW j \in k - 1 + 1 .. n, s[j].role = "tool" PROVE s[j].answers # c
      <4>1. j + 1 \in p + 1 .. n + 1 /\ j + 1 \in k + 1 .. n + 1 /\ j + 1 - 1 = j
        BY ONLY <1>0, <2>4, j \in k - 1 + 1 .. n, k \in 1 .. n + 1
      <4> QED
        BY <1>1, <2>1, <3>2, <4>1
    <3>3. c \in Unanswered(s, k - 1)
      BY <1>0, <1>1, <2>1, <3>1, <3>2 DEF Unanswered
    <3>4. s[l - 1].role = "tool"
      BY <1>0, <3>1, <3>3 DEF Formed
    <3> QED
      BY <1>1, <3>1, <3>4
  <2> QED
    BY ONLY <1>0, <2>2, <2>3, <2>4, k \in 1 .. n + 1
<1> QED
  BY <1>0, <1>2, <1>3, <1>4, <1>5 DEF Formed, Answering

\* Where a compaction cuts: at a user message past the first of the view.
LEMMA CutProperties ==
    ASSUME NEW s \in Seq(Msg), NEW v, NEW h, NEW d, ViewOf(s, v, h, d), NEW window
    PROVE  \/ CompactionCut(v, window) = 0
           \/ /\ CompactionCut(v, window) \in h + 2 .. Len(s) - d
              /\ s[CompactionCut(v, window) + d].role = "user"
<1>0. PICK n \in Nat : n = Len(s)
  BY LenProperties
<1>1. PICK t : t = v.msgs
  OBVIOUS
<1>2. PICK l \in Nat : l = n - d /\ l = Len(t) /\ DOMAIN t = 1 .. l /\ h \in {0, 1} /\ d \in Nat
  <2>1. t \in Seq(Msg) /\ Len(t) = n - d /\ h \in {0, 1} /\ d \in Nat
    BY <1>0, <1>1 DEF ViewOf
  <2> QED
    BY <2>1, LenProperties
<1>3. PICK cut : cut = CompactionCut(v, window)
  OBVIOUS
<1>4. PICK from : LET users == {i \in 1 .. l : h + 2 <= i /\ i <= from /\ t[i].role = "user"}
                  IN  cut = 0 \/ (users # {} /\ cut = CHOOSE i \in users : \A j \in users : j <= i)
  <2> DEFINE from == l - MaxOf(window \div 2, 1) + 1
             users == {i \in 1 .. l : h + 2 <= i /\ i <= from /\ t[i].role = "user"}
  <2>1. cut = IF l - h <= window \/ users = {} THEN 0 ELSE CHOOSE i \in users : \A j \in users : j <= i
    <3>1. v.head = h
      BY DEF ViewOf
    <3>2. cut = CompactionCut(v, window) /\ v.msgs = t /\ DOMAIN t = 1 .. l /\ Len(t) = l
      BY <1>1, <1>2, <1>3
    <3> QED
      BY ONLY <3>1, <3>2 DEF CompactionCut
  <2> HIDE DEF from
  <2> QED
    BY <2>1
<1> DEFINE users == {i \in 1 .. l : h + 2 <= i /\ i <= from /\ t[i].role = "user"}
<1>5. CASE users # {} /\ cut = CHOOSE i \in users : \A j \in users : j <= i
  <2>1. users \in SUBSET (0 .. l)
    OBVIOUS
  <2>2. cut \in users
    <3> HIDE DEF users
    <3> QED
      BY <1>5, <2>1, GreatestNatural
  <2>3. cut \in 1 .. l /\ h + 2 <= cut /\ t[cut].role = "user"
    BY <2>2
  <2>4. cut \in h + 2 .. n - d /\ cut \in h + 1 .. n - d
    BY ONLY <1>2, <2>3
  <2>5. t[cut] = s[cut + d]
    BY <1>0, <1>1, <2>4 DEF ViewOf
  <2> QED
    BY <1>0, <1>3, <2>3, <2>4, <2>5
<1> QED
  BY <1>3, <1>4, <1>5

\* Ids are the identities of the messages that are not of the system.
LEMMA IdsProperties ==
    ASSUME NEW s \in Seq(Msg), NEW x
    PROVE  x \in Ids(s) <=> \E i \in 1 .. Len(s) : s[i].role # "system" /\ s[i].id = x
<1>1. DOMAIN s = 1 .. Len(s)
  BY LenProperties
<1> QED
  BY <1>1 DEF Ids

\* A compaction leaves a history that is as well made, and no gap but what its
\* bounded input left out.
LEMMA CompactionProperties ==
    ASSUME NEW s \in Seq(Msg), NEW m \in Nat, NEW left \in SUBSET Nat,
           WellMade(s, m), Formed(s), Gapless(s, left), NEW c \in Compactions(s)
    PROVE  /\ c.msgs \in Seq(Msg) /\ c.left \in SUBSET Nat
           /\ WellMade(c.msgs, m) /\ Formed(c.msgs) /\ Gapless(c.msgs, left \union c.left)
<1>0. PICK n \in Nat : n = Len(s)
  BY LenProperties
<1>1. PICK v : v = compactedView(s)
  OBVIOUS
<1>2. PICK h, d \in Nat : ViewOf(s, v, h, d)
  BY <1>1, ViewShape
<1>3. PICK t \in Seq(Msg) : t = v.msgs
  BY <1>2 DEF ViewOf
<1>4. PICK cut : cut = CompactionCut(v, historyWindow)
  OBVIOUS
<1>5. v.head = h /\ v.shift = d /\ h \in {0, 1} /\ h + d <= n /\ Len(t) = n - d
  BY <1>0, <1>2, <1>3 DEF ViewOf
<1>6. PICK a : a = SubSeq(t, h + 1, cut - 1)
  OBVIOUS
<1>7. \/ c = [msgs |-> s, left |-> {}]
      \/ cut # 0 /\ \E from \in DOMAIN a :
            LET b == SubSeq(a, from, Len(a))
            IN  c = [msgs |-> Insert(s, v, cut, Record(Summary(s, v, b))), left |-> Ids(a) \ Ids(b)]
  <2>1. a = SubSeq(v.msgs, v.head + 1, cut - 1)
    BY <1>3, <1>5, <1>6
  <2>2. Compactions(s) =
           {[msgs |-> s, left |-> {}]} \union
           IF (~Compacts \/ historyWindow = 0) \/ cut = 0 THEN {}
           ELSE {[msgs |-> Insert(s, v, cut, Record(Summary(s, v, SubSeq(a, from, Len(a))))),
                  left |-> Ids(a) \ Ids(SubSeq(a, from, Len(a)))] : from \in DOMAIN a}
    BY ONLY <1>1, <1>4, <2>1 DEF Compactions
  <2>3. c \in Compactions(s)
    OBVIOUS
  <2> QED
    BY ONLY <2>2, <2>3
<1>8. CASE c = [msgs |-> s, left |-> {}]
  <2>1. c.msgs = s /\ c.left = {} /\ left \union c.left = left
    BY <1>8
  <2> QED
    BY <2>1
<1>9. CASE cut # 0 /\ \E from \in DOMAIN a :
            LET b == SubSeq(a, from, Len(a))
            IN  c = [msgs |-> Insert(s, v, cut, Record(Summary(s, v, b))), left |-> Ids(a) \ Ids(b)]
  <2>1. cut \in h + 2 .. n - d /\ s[cut + d].role = "user"
    BY <1>0, <1>2, <1>4, <1>9, CutProperties
  <2>2. a \in Seq(Msg) /\ Len(a) = cut - 1 - h /\ \A k \in 1 .. cut - 1 - h : a[k] = t[h + k]
    <3>1. /\ h + 1 \in 1 .. Len(t) + 1 /\ cut - 1 \in h + 1 - 1 .. Len(t)
          /\ cut - 1 - (h + 1) + 1 = cut - 1 - h
      BY ONLY <1>5, <2>1, n \in Nat, d \in Nat
    <3>2. \A k \in 1 .. cut - 1 - h : h + 1 + k - 1 = h + k
      BY ONLY <1>5
    <3>3. /\ a \in Seq(Msg) /\ Len(a) = cut - 1 - (h + 1) + 1
          /\ \A k \in 1 .. cut - 1 - (h + 1) + 1 : a[k] = t[h + 1 + k - 1]
      BY ONLY <1>6, <3>1, t \in Seq(Msg), Stretch
    <3> QED
      BY ONLY <3>1, <3>2, <3>3
  <2>3. \A k \in 1 .. cut - 1 - h : a[k] = s[h + d + k]
    <3> TAKE k \in 1 .. cut - 1 - h
    <3>1. h + k \in h + 1 .. n - d /\ h + k + d = h + d + k
      BY ONLY <1>5, <2>1, n \in Nat, d \in Nat, k \in 1 .. cut - 1 - h
    <3>2. t[h + k] = s[h + k + d]
      BY <1>0, <1>2, <1>3, <3>1 DEF ViewOf
    <3> QED
      BY ONLY <2>2, <3>1, <3>2, k \in 1 .. cut - 1 - h
  <2>4. PICK l \in Nat : l = Len(a) /\ l = cut - 1 - h /\ DOMAIN a = 1 .. l
    BY <2>2, LenProperties
  <2>5. PICK from \in 1 .. l :
            LET b == SubSeq(a, from, Len(a))
            IN  c = [msgs |-> Insert(s, v, cut, Record(Summary(s, v, b))), left |-> Ids(a) \ Ids(b)]
    BY <1>9, <2>4
  <2>6. PICK b : b = SubSeq(a, from, l)
    OBVIOUS
  <2>7. b \in Seq(Msg) /\ Len(b) = l - from + 1 /\ \A k \in 1 .. l - from + 1 : b[k] = a[from + k - 1]
    <3>1. from \in 1 .. Len(a) + 1 /\ l \in from - 1 .. Len(a)
      BY ONLY <2>4, from \in 1 .. l, l \in Nat
    <3>2. a \in Seq(Msg)
      BY <2>2
    <3> QED
      BY ONLY <2>6, <3>1, <3>2, Stretch
  <2>p. PICK p : p = cut + d
    OBVIOUS
  <2>c. PICK C : C = Summary(s, v, b)
    OBVIOUS
  <2>m. PICK more : more = Ids(a) \ Ids(b)
    OBVIOUS
  <2>8. c = [msgs |-> Insert(s, v, cut, Record(C)), left |-> more]
    BY <2>4, <2>5, <2>6, <2>c, <2>m
  <2>9. p \in h + d + 2 .. n /\ p \in 1 .. n /\ p >= 2 /\ p - 1 - (h + d) = cut - 1 - h
    <3>1. h \in {0, 1} /\ cut \in h + 2 .. n - d
      BY <1>5, <2>1
    <3> QED
      BY ONLY <3>1, <2>p, n \in Nat, d \in Nat
  <2>a. h \in Nat /\ p \in Int /\ h + d + 2 <= p /\ p <= n /\ l = p - 1 - (h + d)
    BY <1>5, <2>4, <2>9
  <2>10. c.msgs = InsertAt(s, p, Record(C)) /\ c.left = more
    <3>1. storedIndex(v, cut) = p
      <4>1. cut > h /\ ~(cut <= h)
        BY <1>5, <2>1
      <4>2. v.head = h /\ v.shift = d
        BY <1>5
      <4>3. storedIndex(v, cut) = cut + d
        BY ONLY <4>1, <4>2 DEF storedIndex
      <4> QED
        BY ONLY <4>3, <2>p
    <3> QED
      BY <2>8, <3>1 DEF Insert
  <2>11. \A x : x \in Ids(a) <=> \E i \in h + d + 1 .. p - 1 : s[i].id = x
    <3> TAKE x
    <3>1. \A i \in h + d + 1 .. p - 1 : i - (h + d) \in 1 .. l /\ h + d + (i - (h + d)) = i /\ i \in 1 .. n
      BY ONLY <2>a, n \in Nat, d \in Nat
    <3>2. \A k \in 1 .. l : h + d + k \in h + d + 1 .. p - 1 /\ h + d + k \in h + d + 1 .. n
      BY ONLY <2>a, n \in Nat, d \in Nat, l \in Nat
    <3>3. \A i \in h + d + 1 .. n : s[i].role # "system"
      BY <1>0, <1>2 DEF ViewOf
    <3>4. ASSUME x \in Ids(a) PROVE \E i \in h + d + 1 .. p - 1 : s[i].id = x
      <4>0. \E k \in 1 .. Len(a) : a[k].role # "system" /\ a[k].id = x
        BY ONLY <2>2, <3>4, IdsProperties
      <4>1. PICK k \in 1 .. l : a[k].id = x
        BY <2>2, <2>4, <4>0
      <4> QED
        BY <2>3, <2>4, <3>2, <4>1
    <3>5. ASSUME NEW i \in h + d + 1 .. p - 1, s[i].id = x PROVE x \in Ids(a)
      <4>1. PICK k \in 1 .. l : h + d + k = i
        BY <3>1
      <4>2. a[k] = s[i] /\ s[i].role # "system"
        BY <2>3, <2>4, <3>2, <3>3, <4>1
      <4> QED
        BY <2>2, <2>4, <3>5, <4>2, IdsProperties
    <3> QED
      BY <3>4, <3>5
  <2>12. Ids(b) \subseteq Ids(a)
    <3> SUFFICES ASSUME NEW x, x \in Ids(b) PROVE x \in Ids(a)
      OBVIOUS
    <3>1. PICK k \in 1 .. l - from + 1 : b[k].role # "system" /\ b[k].id = x
      BY <2>7, IdsProperties
    <3>2. from + k - 1 \in 1 .. l
      BY ONLY from \in 1 .. l, l \in Nat, k \in 1 .. l - from + 1
    <3>3. b[k] = a[from + k - 1]
      BY <2>7
    <3>4. PICK j \in 1 .. Len(a) : a[j].role # "system" /\ a[j].id = x
      BY ONLY <2>4, <3>1, <3>2, <3>3
    <3>5. a \in Seq(Msg)
      BY <2>2
    <3> QED
      BY ONLY <3>4, <3>5, IdsProperties
  <2>13. PICK rec \in 0 .. n : /\ rec = latestCompaction(s) /\ rec = v.record
                               /\ (rec > 0 => s[rec].record)
                               /\ \A k \in rec + 1 .. n : ~s[k].record
    BY <1>0, <1>2, LatestRecord DEF ViewOf
  <2>14. /\ rec = 0 => d = 0 /\ t = s
         /\ rec # 0 => h + d = rec
    BY <1>2, <1>3, <2>13 DEF ViewOf
  <2>15. PICK old : old = (IF rec = 0 THEN {} ELSE s[rec].covers) /\ C = Ids(b) \union old
    BY <2>c, <2>13 DEF Summary
  <2>16. old \subseteq 1 .. m
    BY <1>0, <2>13, <2>15 DEF WellMade
  <2>17. \A i \in h + d + 1 .. n : s[i].role # "system" /\ s[i].id \in 1 .. m /\ i \in 1 .. n
    <3>1. \A i \in h + d + 1 .. n : s[i].role # "system" /\ i \in 1 .. n
      <4>1. \A i \in h + d + 1 .. n : i \in 1 .. n
        BY ONLY <1>5, n \in Nat, d \in Nat
      <4> QED
        BY <1>0, <1>2, <4>1 DEF ViewOf
    <3> QED
      BY <1>0, <3>1 DEF WellMade
  <2>18. Ids(a) \subseteq 1 .. m
    <3> SUFFICES ASSUME NEW x, x \in Ids(a) PROVE x \in 1 .. m
      OBVIOUS
    <3>1. PICK i \in h + d + 1 .. p - 1 : s[i].id = x
      BY <2>11
    <3>2. i \in h + d + 1 .. n
      BY ONLY <1>5, <2>9, i \in h + d + 1 .. p - 1, n \in Nat, d \in Nat
    <3> QED
      BY <2>17, <3>1, <3>2
  <2>19. C \in SUBSET (1 .. m) /\ C \in SUBSET Nat
    BY <2>12, <2>15, <2>16, <2>18
  <2>20. s[p - 1].role # "system"
    <3>1. p - 1 \in h + d + 1 .. n
      BY ONLY <1>5, <2>9, n \in Nat, d \in Nat
    <3> QED
      BY <2>17, <3>1
  <2>21. \A i \in 1 .. n : s[i].record => i < p
    <3> SUFFICES ASSUME NEW i \in 1 .. n, s[i].record, ~(i < p) PROVE FALSE
      OBVIOUS
    <3>1. i \in h + d + 1 .. n
      BY ONLY <1>5, <2>9, i \in 1 .. n, ~(i < p), n \in Nat, d \in Nat
    <3> QED
      BY <1>0, <2>17, <3>1 DEF WellMade
  <2>22. \A i \in 1 .. p - 1 : s[i].role # "system" => s[i].id \in C \union left \union more
    <3> SUFFICES ASSUME NEW i \in 1 .. p - 1, s[i].role # "system"
                 PROVE  s[i].id \in C \union left \union more
      OBVIOUS
    <3>1. i \in 1 .. n /\ (~(i <= h + d) => i \in h + d + 1 .. p - 1)
      BY ONLY <1>5, <2>9, i \in 1 .. p - 1, n \in Nat, d \in Nat
    <3>2. CASE i <= h + d /\ rec = 0
      <4>1. i = 1 /\ h = 1 /\ t = s
        BY ONLY <1>5, <2>14, <3>1, <3>2
      <4>2. t[1].role = "system"
        BY <1>2, <1>3, <4>1 DEF ViewOf
      <4> QED
        BY <4>1, <4>2
    <3>3. CASE i <= h + d /\ rec # 0
      <4>1. rec \in 1 .. n /\ s[rec].record /\ i \in 1 .. rec
        <5>1. rec > 0 /\ i \in 1 .. rec
          BY ONLY <2>14, <3>1, <3>3, rec \in 0 .. n
        <5> QED
          BY <2>13, <5>1
      <4>2. s[i].id \in s[rec].covers \union left
        BY <1>0, <4>1 DEF Gapless
      <4> QED
        BY <2>15, <3>3, <4>2
    <3>4. CASE ~(i <= h + d)
      <4>1. s[i].id \in Ids(a)
        BY <2>11, <3>1, <3>4
      <4> QED
        BY <2>m, <2>15, <4>1
    <3> QED
      BY <3>2, <3>3, <3>4
  <2>23. \A i \in p .. n : s[i].role # "system" => s[i].id \notin C
    <3> SUFFICES ASSUME NEW i \in p .. n, s[i].id \in C PROVE FALSE
      OBVIOUS
    <3>1. i \in h + d + 1 .. n
      BY ONLY <1>5, <2>9, i \in p .. n, n \in Nat, d \in Nat
    <3>2. CASE s[i].id \in Ids(b)
      <4>1. PICK j \in h + d + 1 .. p - 1 : s[j].id = s[i].id
        BY <2>11, <2>12, <3>2
      <4>2. j \in h + d + 1 .. n /\ j # i
        BY ONLY <1>5, <2>9, i \in p .. n, j \in h + d + 1 .. p - 1, n \in Nat, d \in Nat
      <4>3. /\ s[j].role # "system" /\ s[i].role # "system" /\ j \in 1 .. n /\ i \in 1 .. n
        BY <2>17, <3>1, <4>2
      <4> QED
        BY <1>0, <4>1, <4>2, <4>3 DEF WellMade, Owned
    <3>3. CASE s[i].id \in old
      <4>1. rec # 0 /\ s[i].id \in s[rec].covers
        BY <2>15, <3>3
      <4>2. rec \in 1 .. n /\ s[rec].record /\ i \in rec .. n
        <5>1. rec > 0 /\ i \in rec .. n
          BY ONLY <1>5, <2>9, <2>14, <4>1, rec \in 0 .. n, i \in p .. n
        <5> QED
          BY <2>13, <5>1
      <4>3. s[i].role # "system"
        BY <2>17, <3>1
      <4> QED
        BY <1>0, <4>1, <4>2, <4>3 DEF Gapless
    <3> QED
      BY <2>15, <3>2, <3>3
  <2>24. PICK u : u = c.msgs
    OBVIOUS
  <2>25. Recorded(s, u, p, C)
    BY <1>0, <2>9, <2>10, <2>19, <2>24, InsertIsRecorded
  <2>26. u \in Seq(Msg)
    BY <2>25 DEF Recorded
  <2>27. WellMade(u, m)
    BY <2>19, <2>25, RecordedWellMade
  <2>28. Formed(u)
    BY <2>1, <2>9, <2>20, <2>25, RecordedFormed, <2>p
  <2>29. Gapless(u, left \union more)
    BY <1>0, <2>21, <2>22, <2>23, <2>25, RecordedGapless
  <2>30. more \in SUBSET Nat
    BY <2>18, <2>m
  <2> QED
    BY <2>10, <2>24, <2>26, <2>27, <2>28, <2>29, <2>30
<1> QED
  BY <1>7, <1>8, <1>9

\* t is s followed by w.
Extends(s, w, t) ==
    /\ s \in Seq(Msg) /\ w \in Seq(Msg) /\ t \in Seq(Msg) /\ Len(t) = Len(s) + Len(w)
    /\ \A k \in 1 .. Len(s) : t[k] = s[k]
    /\ \A k \in 1 .. Len(w) : t[Len(s) + k] = w[k]

\* What is concatenated extends.
LEMMA ConcatExtends ==
    ASSUME NEW s \in Seq(Msg), NEW w \in Seq(Msg)
    PROVE  Extends(s, w, s \o w)
<1>0. PICK n \in Nat, l \in Nat : n = Len(s) /\ l = Len(w)
  BY LenProperties
<1>1. PICK t : t = s \o w
  OBVIOUS
<1>2. /\ t \in Seq(Msg) /\ Len(t) = Len(s) + Len(w)
      /\ \A k \in 1 .. Len(s) + Len(w) : t[k] = IF k <= Len(s) THEN s[k] ELSE w[k - Len(s)]
  BY <1>1, ConcatProperties
<1>3. \A k \in 1 .. n : t[k] = s[k]
  <2> TAKE k \in 1 .. n
  <2>1. k \in 1 .. n + l /\ k <= n
    OBVIOUS
  <2> QED
    BY ONLY <1>0, <1>2, <2>1
<1>4. \A k \in 1 .. l : t[n + k] = w[k]
  <2> TAKE k \in 1 .. l
  <2>1. n + k \in 1 .. n + l /\ ~(n + k <= n) /\ n + k - n = k
    OBVIOUS
  <2> QED
    BY ONLY <1>0, <1>2, <2>1
<1> QED
  BY <1>0, <1>1, <1>2, <1>3, <1>4 DEF Extends

\* Each position of t is one of s or one of w.
LEMMA ExtensionSplits ==
    ASSUME NEW s, NEW w, NEW t, Extends(s, w, t), NEW k \in 1 .. Len(t)
    PROVE  \/ k \in 1 .. Len(s) /\ t[k] = s[k]
           \/ \E j \in 1 .. Len(w) : k = Len(s) + j /\ t[k] = w[j]
<1>0. PICK n \in Nat, l \in Nat : n = Len(s) /\ l = Len(w) /\ Len(t) = n + l
  BY LenProperties DEF Extends
<1>1. CASE k <= n
  <2>1. k \in 1 .. n
    BY <1>0, <1>1
  <2> QED
    BY <1>0, <2>1 DEF Extends
<1>2. CASE ~(k <= n)
  <2>1. k - n \in 1 .. l /\ n + (k - n) = k
    BY <1>0, <1>2
  <2>2. t[n + (k - n)] = w[k - n]
    BY <1>0, <2>1 DEF Extends
  <2> QED
    BY <1>0, <2>1, <2>2
<1> QED
  BY <1>1, <1>2

\* w brings the identities m + 1 .. m + n.
Fresh(w, m, n) ==
    /\ \A k \in 1 .. Len(w) :
          /\ w[k].role # "system" /\ ~w[k].record /\ w[k].covers = {}
          /\ w[k].id \in m + 1 .. m + n
          /\ w[k].role # "assistant" => w[k].calls = {}
          /\ \A c \in w[k].calls : c[1] = w[k].id
    /\ \A j, k \in 1 .. Len(w) : w[j].id = w[k].id => j = k
    /\ \A x \in m + 1 .. m + n : \E k \in 1 .. Len(w) : w[k].id = x

\* A well made history extended by fresh messages is well made, leaves no new
\* gap, and has as many new identities as Save counts.
LEMMA ExtensionProperties ==
    ASSUME NEW s, NEW w, NEW t, Extends(s, w, t), NEW m \in Nat, NEW n \in Nat,
           WellMade(s, m), Fresh(w, m, n), NEW left, Gapless(s, left)
    PROVE  /\ WellMade(t, m + n) /\ Gapless(t, left)
           /\ m + Cardinality({i \in Ids(t) : i > m}) = m + n
<1>0. PICK a \in Nat, b \in Nat : a = Len(s) /\ b = Len(w) /\ Len(t) = a + b
  BY LenProperties DEF Extends
<1>1. s \in Seq(Msg) /\ t \in Seq(Msg)
  BY DEF Extends
<1>2. ASSUME NEW k \in 1 .. a + b
      PROVE  \/ k \in 1 .. a /\ t[k] = s[k]
             \/ \E j \in 1 .. b : k = a + j /\ t[k] = w[j]
  <2>1. k \in 1 .. Len(t)
    BY <1>0
  <2>2. \/ k \in 1 .. Len(s) /\ t[k] = s[k]
        \/ \E j \in 1 .. Len(w) : k = Len(s) + j /\ t[k] = w[j]
    BY ONLY <2>1, Extends(s, w, t), ExtensionSplits
  <2> QED
    BY ONLY <1>0, <2>2
<1>3. 1 .. m \subseteq 1 .. m + n /\ m + 1 .. m + n \subseteq 1 .. m + n /\ m + n \in Nat
  OBVIOUS
<1>4. ASSUME NEW k \in 1 .. a + b
      PROVE  /\ t[k].role # "assistant" => t[k].calls = {}
             /\ \A c \in t[k].calls : c[1] = t[k].id
             /\ t[k].record => t[k].role = "system"
             /\ t[k].role # "system" => t[k].id \in 1 .. m + n
             /\ t[k].role = "system" => t[k].id = 0
             /\ t[k].covers \subseteq 1 .. m + n
  <2>1. CASE k \in 1 .. a /\ t[k] = s[k]
    <3>1. /\ t[k].role # "assistant" => t[k].calls = {}
          /\ \A c \in t[k].calls : c[1] = t[k].id
          /\ t[k].record => t[k].role = "system"
          /\ t[k].role # "system" => t[k].id \in 1 .. m
          /\ t[k].role = "system" => t[k].id = 0
          /\ t[k].covers \subseteq 1 .. m
      BY <1>0, <2>1 DEF WellMade, Owned
    <3> QED
      BY <1>3, <3>1
  <2>2. CASE \E j \in 1 .. b : k = a + j /\ t[k] = w[j]
    <3>1. PICK j \in 1 .. b : t[k] = w[j]
      BY <2>2
    <3>2. /\ t[k].role # "assistant" => t[k].calls = {}
          /\ \A c \in t[k].calls : c[1] = t[k].id
          /\ ~t[k].record /\ t[k].role # "system" /\ t[k].id \in m + 1 .. m + n
          /\ t[k].covers = {}
      BY <1>0, <3>1 DEF Fresh
    <3> QED
      BY <1>3, <3>2
  <2> QED
    BY <1>2, <2>1, <2>2
<1>5. \A k \in 1 .. a : s[k].role # "system" => s[k].id \in 1 .. m
  BY <1>0 DEF WellMade
<1>6. \A j \in 1 .. b : w[j].role # "system" /\ ~w[j].record /\ w[j].id \in m + 1 .. m + n
  BY <1>0 DEF Fresh
<1>7. \A x \in 1 .. m : x \notin m + 1 .. m + n
  OBVIOUS
<1>8. ASSUME NEW k \in 1 .. a + b, NEW l \in 1 .. a + b, t[k].role # "system",
             t[l].role # "system", t[k].id = t[l].id
      PROVE  k = l
  <2>1. CASE (k \in 1 .. a /\ t[k] = s[k]) /\ (l \in 1 .. a /\ t[l] = s[l])
    BY <1>0, <1>8, <2>1 DEF WellMade, Owned
  <2>2. CASE (\E j \in 1 .. b : k = a + j /\ t[k] = w[j]) /\ (\E j \in 1 .. b : l = a + j /\ t[l] = w[j])
    <3>1. PICK i \in 1 .. b : k = a + i /\ t[k] = w[i]
      BY <2>2
    <3>2. PICK j \in 1 .. b : l = a + j /\ t[l] = w[j]
      BY <2>2
    <3>3. i = j
      BY <1>0, <1>8, <3>1, <3>2 DEF Fresh
    <3> QED
      BY <3>1, <3>2, <3>3
  <2>3. CASE (k \in 1 .. a /\ t[k] = s[k]) /\ (\E j \in 1 .. b : l = a + j /\ t[l] = w[j])
    BY <1>5, <1>6, <1>7, <1>8, <2>3
  <2>4. CASE (l \in 1 .. a /\ t[l] = s[l]) /\ (\E j \in 1 .. b : k = a + j /\ t[k] = w[j])
    BY <1>5, <1>6, <1>7, <1>8, <2>4
  <2> QED
    BY <1>2, <2>1, <2>2, <2>3, <2>4
<1>9. WellMade(t, m + n)
  BY <1>0, <1>4, <1>8 DEF WellMade, Owned
<1>10. ASSUME NEW p \in 1 .. a + b, t[p].record
       PROVE  /\ \A i \in 1 .. p : t[i].role # "system" => t[i].id \in t[p].covers \union left
              /\ \A i \in p .. a + b : t[i].role # "system" => t[i].id \notin t[p].covers
  <2>1. p \in 1 .. a /\ t[p] = s[p]
    BY <1>2, <1>6, <1>10
  <2>2. \A i \in 1 .. p : i \in 1 .. a /\ t[i] = s[i]
    <3>1. \A i \in 1 .. p : i \in 1 .. a
      BY <2>1
    <3> QED
      BY <1>0, <3>1 DEF Extends
  <2>3. ASSUME NEW i \in p .. a + b, t[i].role # "system" PROVE t[i].id \notin t[p].covers
    <3>1. i \in 1 .. a + b
      OBVIOUS
    <3>2. CASE i \in 1 .. a /\ t[i] = s[i]
      <4>1. i \in p .. a
        BY <3>2
      <4> QED
        BY <1>0, <1>10, <2>1, <2>3, <3>2, <4>1 DEF Gapless
    <3>3. CASE \E j \in 1 .. b : i = a + j /\ t[i] = w[j]
      <4>1. t[i].id \in m + 1 .. m + n
        BY <1>6, <3>3
      <4>2. t[p].covers \subseteq 1 .. m
        BY <1>0, <2>1 DEF WellMade
      <4> QED
        BY <1>7, <4>1, <4>2
    <3> QED
      BY <1>2, <3>1, <3>2, <3>3
  <2> QED
    BY <1>0, <1>10, <2>1, <2>2, <2>3 DEF Gapless
<1>11. Gapless(t, left)
  BY <1>0, <1>10 DEF Gapless
<1>12. {i \in Ids(t) : i > m} = m + 1 .. m + n
  <2>1. ASSUME NEW x, x \in Ids(t), x > m PROVE x \in m + 1 .. m + n
    <3>1. PICK k \in 1 .. a + b : t[k].role # "system" /\ t[k].id = x
      BY <1>0, <1>1, <2>1, IdsProperties
    <3>2. CASE k \in 1 .. a /\ t[k] = s[k]
      BY <1>5, <2>1, <3>1, <3>2
    <3>3. CASE \E j \in 1 .. b : k = a + j /\ t[k] = w[j]
      BY <1>6, <3>1, <3>3
    <3> QED
      BY <1>2, <3>2, <3>3
  <2>2. ASSUME NEW x \in m + 1 .. m + n PROVE x \in Ids(t) /\ x > m
    <3>1. PICK j \in 1 .. b : w[j].id = x /\ w[j].role # "system"
      BY <1>0, <1>6 DEF Fresh
    <3>2. a + j \in 1 .. a + b
      OBVIOUS
    <3>3. t[a + j] = w[j]
      BY <1>0 DEF Extends
    <3>4. x \in Ids(t)
      BY <1>0, <1>1, <3>1, <3>2, <3>3, IdsProperties
    <3> QED
      BY <3>4
  <2>3. PICK T : T = Ids(t)
    OBVIOUS
  <2> QED
    BY <2>1, <2>2, <2>3
<1>13. Cardinality(m + 1 .. m + n) = n
  <2>1. m + 1 \in Int /\ m + n \in Int
    OBVIOUS
  <2>2. Cardinality(m + 1 .. m + n) = IF m + 1 <= m + n THEN m + n - (m + 1) + 1 ELSE 0
    BY <2>1, FS_Interval
  <2>3. (IF m + 1 <= m + n THEN m + n - (m + 1) + 1 ELSE 0) = n
    BY ONLY m \in Nat, n \in Nat
  <2> QED
    BY <2>2, <2>3
<1> QED
  BY <1>9, <1>11, <1>12, <1>13

\* What an extension keeps of the form of a history.
LEMMA ExtensionKeeps ==
    ASSUME NEW s, NEW w, NEW t, Extends(s, w, t), Formed(s),
           \A k \in 1 .. Len(w) : w[k].role # "system",
           w # <<>> => \/ w[1].role = "user"
                       \/ s # <<>> /\ s[Len(s)].role # "system"
    PROVE  /\ t # <<>> => t[1].role \in {"system", "user"}
           /\ \A p \in 1 .. Len(t) : t[p].role = "system" =>
                 /\ t[p].record <=> p # 1
                 /\ p < Len(t) => t[p + 1].role = "user"
           /\ \A j \in 1 .. Len(s) : t[j].role = "tool" =>
                 \E i \in 1 .. j - 1 : /\ t[j].answers \in t[i].calls
                                       /\ \A k \in i + 1 .. j : t[k].role = "tool"
           /\ \A i \in 1 .. Len(s) : Unanswered(t, i) \subseteq Unanswered(s, i)
<1>0. PICK a \in Nat, b \in Nat : a = Len(s) /\ b = Len(w) /\ Len(t) = a + b
  BY LenProperties DEF Extends
<1>1. /\ \A k \in 1 .. a : t[k] = s[k]
      /\ \A k \in 1 .. b : t[a + k] = w[k]
      /\ s \in Seq(Msg) /\ w \in Seq(Msg) /\ t \in Seq(Msg)
  BY <1>0 DEF Extends
<1>2. (s = <<>> <=> a = 0) /\ (w = <<>> <=> b = 0) /\ (t = <<>> <=> a + b = 0)
  BY <1>0, <1>1
<1>3. t # <<>> => t[1].role \in {"system", "user"}
  <2>1. CASE a > 0
    <3>1. 1 \in 1 .. a /\ s # <<>>
      BY <1>2, <2>1
    <3> QED
      BY <1>1, <3>1 DEF Formed
  <2>2. CASE a = 0 /\ b > 0
    <3>1. 1 \in 1 .. b /\ a + 1 = 1 /\ s = <<>> /\ w # <<>>
      BY <1>2, <2>2
    <3>2. t[a + 1] = w[1]
      BY <1>1, <3>1
    <3> QED
      BY <3>1, <3>2
  <2>3. CASE a = 0 /\ b = 0
    BY <1>2, <2>3
  <2> QED
    BY ONLY <2>1, <2>2, <2>3, a \in Nat, b \in Nat
<1>4. ASSUME NEW p \in 1 .. a + b, t[p].role = "system"
      PROVE  /\ t[p].record <=> p # 1
             /\ p < a + b => t[p + 1].role = "user"
  <2>1. p \in 1 .. a /\ t[p] = s[p]
    <3>1. \/ p \in 1 .. Len(s) /\ t[p] = s[p]
          \/ \E j \in 1 .. Len(w) : p = Len(s) + j /\ t[p] = w[j]
      <4>1. p \in 1 .. Len(t)
        BY <1>0
      <4> QED
        BY ONLY <4>1, Extends(s, w, t), ExtensionSplits
    <3> QED
      BY <1>0, <1>4, <3>1
  <2>2. (s[p].record <=> p # 1) /\ (p < a => s[p + 1].role = "user")
    BY <1>0, <1>4, <2>1 DEF Formed
  <2>3. CASE p < a
    <3>1. p + 1 \in 1 .. a
      BY ONLY <2>1, <2>3, a \in Nat
    <3>2. t[p + 1] = s[p + 1]
      BY <1>1, <3>1
    <3> QED
      BY <2>1, <2>2, <2>3, <3>2
  <2>4. CASE p = a
    <3>1. ASSUME p < a + b PROVE t[p + 1].role = "user"
      <4>1. 1 \in 1 .. b
        BY ONLY <2>4, <3>1, a \in Nat, b \in Nat
      <4>2. t[p + 1] = w[1]
        BY <1>1, <2>4, <4>1
      <4>3. w # <<>>
        BY <1>2, <4>1
      <4>4. w[1].role = "user"
        BY <1>0, <1>4, <2>1, <2>4, <4>3
      <4> QED
        BY <4>2, <4>4
    <3> QED
      BY <2>1, <2>2, <3>1
  <2> QED
    BY ONLY <2>1, <2>3, <2>4, a \in Nat
<1>5. ASSUME NEW j \in 1 .. a, t[j].role = "tool"
      PROVE  \E i \in 1 .. j - 1 : /\ t[j].answers \in t[i].calls
                                   /\ \A k \in i + 1 .. j : t[k].role = "tool"
  <2>1. PICK i \in 1 .. j - 1 : /\ s[j].answers \in s[i].calls
                                /\ \A k \in i + 1 .. j : s[k].role = "tool"
    <3>1. s[j].role = "tool" /\ j \in 1 .. Len(s)
      BY <1>0, <1>1, <1>5
    <3>2. Answering(s)
      BY DEF Formed
    <3> QED
      BY ONLY <3>1, <3>2 DEF Answering
  <2>2. i \in 1 .. a /\ \A k \in i + 1 .. j : k \in 1 .. a
    BY ONLY i \in 1 .. j - 1, j \in 1 .. a, a \in Nat
  <2> QED
    BY <1>1, <2>1, <2>2
<1>6. ASSUME NEW i \in 1 .. a, NEW c \in Unanswered(t, i) PROVE c \in Unanswered(s, i)
  <2>1. c \in t[i].calls /\ \A k \in i + 1 .. a + b : t[k].role = "tool" => t[k].answers # c
    BY <1>0 DEF Unanswered
  <2>2. \A k \in i + 1 .. a : k \in i + 1 .. a + b /\ k \in 1 .. a
    BY ONLY i \in 1 .. a, a \in Nat, b \in Nat
  <2> QED
    BY <1>0, <1>1, <2>1, <2>2 DEF Unanswered
<1> QED
  BY <1>0, <1>3, <1>4, <1>5, <1>6

\* A user message after a history with nothing open.
LEMMA UserExtension ==
    ASSUME NEW s, NEW u, NEW t, Extends(s, <<u>>, t), Formed(s), Closed(s),
           u.role = "user", u.calls = {}
    PROVE  Formed(t) /\ Closed(t)
<1>0. PICK a \in Nat : a = Len(s) /\ Len(t) = a + 1
  BY LenProperties DEF Extends
<1>1. Len(<<u>>) = 1 /\ <<u>>[1] = u /\ 1 \in 1 .. 1
  OBVIOUS
<1>2. t[a + 1] = u
  BY <1>0, <1>1 DEF Extends
<1>3. /\ t # <<>> => t[1].role \in {"system", "user"}
      /\ \A p \in 1 .. Len(t) : t[p].role = "system" =>
            /\ t[p].record <=> p # 1
            /\ p < Len(t) => t[p + 1].role = "user"
      /\ \A j \in 1 .. Len(s) : t[j].role = "tool" =>
            \E i \in 1 .. j - 1 : /\ t[j].answers \in t[i].calls
                                  /\ \A k \in i + 1 .. j : t[k].role = "tool"
      /\ \A i \in 1 .. Len(s) : Unanswered(t, i) \subseteq Unanswered(s, i)
  <2>1. \A k \in 1 .. Len(<<u>>) : <<u>>[k].role # "system"
    BY <1>1
  <2>2. <<u>>[1].role = "user"
    BY <1>1
  <2> QED
    BY <2>1, <2>2, ExtensionKeeps
<1>4. \A k \in 1 .. a + 1 : k \in 1 .. a \/ k = a + 1
  OBVIOUS
<1>5. Answering(t)
  BY <1>0, <1>2, <1>3, <1>4 DEF Answering
<1>6. \A i \in 1 .. a + 1 : Unanswered(t, i) = {}
  <2>1. Unanswered(t, a + 1) = {}
    BY <1>2 DEF Unanswered
  <2> QED
    BY <1>0, <1>3, <1>4, <2>1 DEF Closed
<1> QED
  BY <1>0, <1>3, <1>5, <1>6 DEF Formed, Closed

\* An assistant message and results of its calls after a history with nothing
\* open that does not end in a system message.
LEMMA TurnExtension ==
    ASSUME NEW s, NEW w, NEW t, Extends(s, w, t), Formed(s), Closed(s),
           s # <<>>, s[Len(s)].role # "system", w # <<>>, w[1].role = "assistant",
           \A k \in 2 .. Len(w) : /\ w[k].role = "tool" /\ w[k].calls = {}
                                  /\ w[k].answers \in w[1].calls
    PROVE  /\ Formed(t)
           /\ (\A c \in w[1].calls : \E k \in 2 .. Len(w) : w[k].answers = c) => Closed(t)
<1>0. PICK a \in Nat, b \in Nat : a = Len(s) /\ b = Len(w) /\ Len(t) = a + b /\ b > 0
  <2>1. s \in Seq(Msg) /\ w \in Seq(Msg) /\ Len(t) = Len(s) + Len(w)
    BY DEF Extends
  <2>2. Len(s) \in Nat /\ Len(w) \in Nat /\ Len(w) # 0
    BY <2>1
  <2> QED
    BY <2>1, <2>2
<1>1. /\ t # <<>> => t[1].role \in {"system", "user"}
      /\ \A p \in 1 .. Len(t) : t[p].role = "system" =>
            /\ t[p].record <=> p # 1
            /\ p < Len(t) => t[p + 1].role = "user"
      /\ \A j \in 1 .. Len(s) : t[j].role = "tool" =>
            \E i \in 1 .. j - 1 : /\ t[j].answers \in t[i].calls
                                  /\ \A k \in i + 1 .. j : t[k].role = "tool"
      /\ \A i \in 1 .. Len(s) : Unanswered(t, i) \subseteq Unanswered(s, i)
  <2>1. \A k \in 1 .. b : k = 1 \/ k \in 2 .. b
    OBVIOUS
  <2>2. \A k \in 1 .. Len(w) : w[k].role # "system"
    BY <1>0, <2>1
  <2> QED
    BY <2>2, ExtensionKeeps
<1>2. /\ \A k \in 1 .. a : t[k] = s[k]
      /\ \A k \in 1 .. b : t[a + k] = w[k]
  BY <1>0 DEF Extends
<1>3. t[a + 1] = w[1]
  <2>1. 1 \in 1 .. b
    BY <1>0
  <2> QED
    BY <1>2, <2>1
<1>4. ASSUME NEW k \in a + 2 .. a + b
      PROVE  k - a \in 2 .. b /\ t[k] = w[k - a] /\ t[k].role = "tool" /\ t[k].calls = {}
             /\ t[k].answers \in w[1].calls
  <2>1. k - a \in 2 .. b /\ k - a \in 1 .. b /\ a + (k - a) = k
    OBVIOUS
  <2>2. t[a + (k - a)] = w[k - a]
    BY <1>2, <2>1
  <2> QED
    BY <1>0, <2>1, <2>2
<1>5. \A k \in 1 .. a + b : k \in 1 .. a \/ k = a + 1 \/ k \in a + 2 .. a + b
  OBVIOUS
<1>6. Answering(t)
  <2>1. ASSUME NEW j \in 1 .. a + b, t[j].role = "tool"
        PROVE  \E i \in 1 .. j - 1 : /\ t[j].answers \in t[i].calls
                                     /\ \A k \in i + 1 .. j : t[k].role = "tool"
    <3>1. CASE j \in 1 .. a
      BY <1>0, <1>1, <2>1, <3>1
    <3>2. CASE j \in a + 2 .. a + b
      <4>1. a + 1 \in 1 .. j - 1 /\ \A k \in a + 1 + 1 .. j : k \in a + 2 .. a + b
        BY <3>2
      <4> QED
        BY <1>3, <1>4, <3>2, <4>1
    <3>3. j # a + 1
      BY <1>3, <2>1
    <3> QED
      BY <1>5, <3>1, <3>2, <3>3
  <2> QED
    BY <1>0, <2>1 DEF Answering
<1>7. \A i \in 1 .. a + b : i = a + 1 \/ Unanswered(t, i) = {}
  <2> TAKE i \in 1 .. a + b
  <2>1. CASE i \in 1 .. a
    BY <1>0, <1>1, <2>1 DEF Closed
  <2>2. CASE i \in a + 2 .. a + b
    BY <1>4, <2>2 DEF Unanswered
  <2> QED
    BY <1>5, <2>1, <2>2
<1>8. Formed(t)
  <2>1. ASSUME NEW i \in 1 .. a + b, Unanswered(t, i) # {}, NEW k \in i + 1 .. a + b
        PROVE  t[k].role = "tool"
    <3>1. i = a + 1
      BY <1>7, <2>1
    <3>2. k \in a + 2 .. a + b
      BY <3>1
    <3> QED
      BY <1>4, <3>2
  <2> QED
    BY <1>0, <1>1, <1>6, <2>1 DEF Formed
<1>9. ASSUME \A c \in w[1].calls : \E k \in 2 .. b : w[k].answers = c
      PROVE  Unanswered(t, a + 1) = {}
  <2> SUFFICES ASSUME NEW c \in w[1].calls, c \in Unanswered(t, a + 1) PROVE FALSE
    BY <1>3 DEF Unanswered
  <2>1. PICK k \in 2 .. b : w[k].answers = c
    BY <1>9
  <2>2. a + k \in a + 2 .. a + b /\ a + k \in a + 1 + 1 .. a + b /\ k \in 1 .. b
    OBVIOUS
  <2>3. t[a + k].role = "tool" /\ t[a + k].answers = c
    BY <1>2, <1>4, <2>1, <2>2
  <2> QED
    BY <1>0, <2>2, <2>3 DEF Unanswered
<1> QED
  BY <1>0, <1>7, <1>8, <1>9 DEF Closed

\* Results for everything the latest turn has open.
LEMMA ResultsExtension ==
    ASSUME NEW s, NEW w, NEW t, Extends(s, w, t), Formed(s), Owned(s),
           NEW turn \in 1 .. Len(s), Unanswered(s, turn) # {},
           \A k \in 1 .. Len(w) : /\ w[k].role = "tool" /\ w[k].calls = {}
                                  /\ w[k].answers \in Unanswered(s, turn),
           \A c \in Unanswered(s, turn) : \E k \in 1 .. Len(w) : w[k].answers = c
    PROVE  Formed(t) /\ Closed(t)
<1>0. PICK a \in Nat, b \in Nat : a = Len(s) /\ b = Len(w) /\ Len(t) = a + b /\ turn \in 1 .. a
  BY LenProperties DEF Extends
<1>1. \A k \in turn + 1 .. a : s[k].role = "tool"
  BY <1>0 DEF Formed
<1>2. s[turn].role = "assistant"
  BY DEF Owned, Unanswered
<1>3. s # <<>> /\ s[Len(s)].role # "system"
  <2>1. a \in turn + 1 .. a \/ a = turn
    BY <1>0
  <2>2. s[a].role # "system"
    BY <1>1, <1>2, <2>1
  <2> QED
    BY <1>0, <2>2
<1>4. /\ t # <<>> => t[1].role \in {"system", "user"}
      /\ \A p \in 1 .. Len(t) : t[p].role = "system" =>
            /\ t[p].record <=> p # 1
            /\ p < Len(t) => t[p + 1].role = "user"
      /\ \A j \in 1 .. Len(s) : t[j].role = "tool" =>
            \E i \in 1 .. j - 1 : /\ t[j].answers \in t[i].calls
                                  /\ \A k \in i + 1 .. j : t[k].role = "tool"
      /\ \A i \in 1 .. Len(s) : Unanswered(t, i) \subseteq Unanswered(s, i)
  <2>1. \A k \in 1 .. Len(w) : w[k].role # "system"
    OBVIOUS
  <2> QED
    BY <1>3, <2>1, ExtensionKeeps
<1>5. /\ \A k \in 1 .. a : t[k] = s[k]
      /\ \A k \in 1 .. b : t[a + k] = w[k]
  BY <1>0 DEF Extends
<1>6. ASSUME NEW k \in a + 1 .. a + b
      PROVE  t[k].role = "tool" /\ t[k].calls = {} /\ t[k].answers \in Unanswered(s, turn)
  <2>1. k - a \in 1 .. b /\ a + (k - a) = k
    OBVIOUS
  <2>2. t[a + (k - a)] = w[k - a]
    BY <1>5, <2>1
  <2> QED
    BY <1>0, <2>1, <2>2
<1>7. \A k \in 1 .. a + b : k \in 1 .. a \/ k \in a + 1 .. a + b
  OBVIOUS
<1>8. Answering(t)
  <2>1. ASSUME NEW j \in 1 .. a + b, t[j].role = "tool"
        PROVE  \E i \in 1 .. j - 1 : /\ t[j].answers \in t[i].calls
                                     /\ \A k \in i + 1 .. j : t[k].role = "tool"
    <3>1. CASE j \in 1 .. a
      BY <1>0, <1>4, <2>1, <3>1
    <3>2. CASE j \in a + 1 .. a + b
      <4>1. turn \in 1 .. j - 1 /\ \A k \in turn + 1 .. j : (k \in turn + 1 .. a /\ k \in 1 .. a) \/ k \in a + 1 .. a + b
        BY ONLY <1>0, <3>2, a \in Nat, b \in Nat
      <4>2. t[turn] = s[turn]
        BY <1>0, <1>5
      <4>3. t[j].answers \in t[turn].calls
        BY <1>6, <3>2, <4>2 DEF Unanswered
      <4>4. \A k \in turn + 1 .. j : t[k].role = "tool"
        BY <1>1, <1>5, <1>6, <4>1
      <4> QED
        BY <4>1, <4>3, <4>4
    <3> QED
      BY <1>7, <3>1, <3>2
  <2> QED
    BY <1>0, <2>1 DEF Answering
<1>9. \A i \in 1 .. a : Unanswered(s, i) # {} => i = turn
  <2> SUFFICES ASSUME NEW i \in 1 .. a, Unanswered(s, i) # {}, i # turn PROVE FALSE
    OBVIOUS
  <2>1. s[i].role = "assistant"
    BY <1>0 DEF Owned, Unanswered
  <2>2. CASE i < turn
    <3>1. turn \in i + 1 .. a
      BY ONLY <1>0, <2>2, i \in 1 .. a
    <3> QED
      BY <1>0, <1>2, <3>1 DEF Formed
  <2>3. CASE turn < i
    <3>1. i \in turn + 1 .. a
      BY ONLY <1>0, <2>3, i \in 1 .. a
    <3> QED
      BY <1>1, <2>1, <3>1
  <2> QED
    BY ONLY <1>0, <2>2, <2>3, i \in 1 .. a, i # turn
<1>10. \A i \in 1 .. a + b : Unanswered(t, i) = {}
  <2> SUFFICES ASSUME NEW i \in 1 .. a + b, NEW c, c \in Unanswered(t, i) PROVE FALSE
    OBVIOUS
  <2>1. CASE i \in 1 .. a
    <3>1. c \in Unanswered(s, i) /\ i = turn
      BY <1>0, <1>4, <1>9, <2>1
    <3>2. PICK k \in 1 .. b : w[k].answers = c
      BY <1>0, <3>1
    <3>3. a + k \in a + 1 .. a + b /\ a + k \in i + 1 .. a + b
      BY <2>1
    <3>4. t[a + k].role = "tool" /\ t[a + k].answers = c
      BY <1>5, <1>6, <3>2, <3>3
    <3> QED
      BY <1>0, <3>3, <3>4 DEF Unanswered
  <2>2. CASE i \in a + 1 .. a + b
    BY <1>6, <2>2 DEF Unanswered
  <2> QED
    BY <1>7, <2>1, <2>2
<1> QED
  BY <1>0, <1>4, <1>8, <1>10 DEF Formed, Closed

\* A prefix of a history is as well made.
LEMMA PrefixProperties ==
    ASSUME NEW s \in Seq(Msg), NEW m \in Nat, WellMade(s, m), Formed(s), NEW left, Gapless(s, left),
           NEW n \in 0 .. Len(s)
    PROVE  LET t == SubSeq(s, 1, n)
           IN  /\ t \in Seq(Msg) /\ WellMade(t, m) /\ Formed(t) /\ Gapless(t, left)
               /\ m + Cardinality({i \in Ids(t) : i > m}) = m
<1>0. PICK l \in Nat : l = Len(s) /\ n \in 0 .. l
  BY LenProperties
<1>1. PICK t : t = SubSeq(s, 1, n)
  OBVIOUS
<1>2. t \in Seq(Msg) /\ Len(t) = n /\ \A k \in 1 .. n : t[k] = s[k]
  <2>1. 1 \in 1 .. Len(s) + 1 /\ n \in 1 - 1 .. Len(s) /\ n - 1 + 1 = n /\ \A k \in 1 .. n : 1 + k - 1 = k
    BY <1>0
  <2>2. t \in Seq(Msg) /\ Len(t) = n - 1 + 1 /\ \A k \in 1 .. n - 1 + 1 : t[k] = s[1 + k - 1]
    BY ONLY <1>1, <2>1, s \in Seq(Msg), Stretch
  <2> QED
    BY ONLY <2>1, <2>2
<1>3. \A k \in 1 .. n : k \in 1 .. l
  BY <1>0
<1>4. WellMade(t, m)
  BY <1>0, <1>2, <1>3 DEF WellMade, Owned
<1>5. \A i \in 1 .. n : \A k \in i .. n : k \in i .. l /\ k \in 1 .. n
  BY <1>0
<1>6. Gapless(t, left)
  <2>1. ASSUME NEW p \in 1 .. n, t[p].record
        PROVE  /\ \A i \in 1 .. p : t[i].role # "system" => t[i].id \in t[p].covers \union left
               /\ \A i \in p .. n : t[i].role # "system" => t[i].id \notin t[p].covers
    <3>1. \A i \in 1 .. p : i \in 1 .. n
      BY <1>0
    <3> QED
      BY <1>0, <1>2, <1>3, <1>5, <2>1, <3>1 DEF Gapless
  <2> QED
    BY <1>2, <2>1 DEF Gapless
<1>7. t # <<>> => t[1].role \in {"system", "user"}
  <2> SUFFICES ASSUME t # <<>> PROVE t[1].role \in {"system", "user"}
    OBVIOUS
  <2>1. n # 0
    BY <1>2
  <2>2. 1 \in 1 .. n /\ s # <<>>
    BY <1>0, <2>1
  <2> QED
    BY <1>2, <2>2 DEF Formed
<1>8. ASSUME NEW p \in 1 .. n, t[p].role = "system"
      PROVE  /\ t[p].record <=> p # 1
             /\ p < n => t[p + 1].role = "user"
  <2>1. p < n => p + 1 \in 1 .. n /\ p < l
    BY <1>0
  <2> QED
    BY <1>0, <1>2, <1>3, <1>8, <2>1 DEF Formed
<1>9. ASSUME NEW j \in 1 .. n, t[j].role = "tool"
      PROVE  \E i \in 1 .. j - 1 : /\ t[j].answers \in t[i].calls
                                   /\ \A k \in i + 1 .. j : t[k].role = "tool"
  <2>0. s[j].role = "tool" /\ j \in 1 .. Len(s)
    BY <1>0, <1>2, <1>3, <1>9
  <2>1. PICK i \in 1 .. j - 1 : /\ s[j].answers \in s[i].calls
                                /\ \A k \in i + 1 .. j : s[k].role = "tool"
    BY <2>0 DEF Formed, Answering
  <2>2. i \in 1 .. n /\ \A k \in i + 1 .. j : k \in 1 .. n
    BY <1>0
  <2> QED
    BY <1>2, <2>1, <2>2
<1>10. ASSUME NEW i \in 1 .. n, Unanswered(t, i) # {}, NEW k \in i + 1 .. n
       PROVE  t[k].role = "tool"
  <2>1. PICK c \in s[i].calls : \A j \in i + 1 .. n : s[j].role = "tool" => s[j].answers # c
    <3>1. \A j \in i + 1 .. n : j \in 1 .. n
      BY <1>0
    <3> QED
      BY <1>2, <1>10, <3>1 DEF Unanswered
  <2>2. k \in 1 .. n /\ k \in i + 1 .. l /\ i \in 1 .. l
    BY <1>0
  <2>3. CASE c \in Unanswered(s, i)
    BY <1>0, <1>2, <2>2, <2>3 DEF Formed
  <2>4. CASE c \notin Unanswered(s, i)
    <3>1. PICK j \in i + 1 .. l : s[j].role = "tool" /\ s[j].answers = c
      BY <1>0, <2>4 DEF Unanswered
    <3>2. ~(j <= n) /\ j \in 1 .. l
      <4>1. j \in 1 .. l
        BY <1>0
      <4>2. ASSUME j <= n PROVE FALSE
        <5>1. j \in i + 1 .. n
          BY <1>0, <4>2
        <5> QED
          BY <2>1, <3>1, <5>1
      <4> QED
        BY <4>1, <4>2
    <3>3. PICK q \in 1 .. j - 1 : s[j].answers \in s[q].calls /\ \A z \in q + 1 .. j : s[z].role = "tool"
      BY <1>0, <3>1, <3>2 DEF Formed, Answering
    <3>4. q \in 1 .. l
      BY ONLY <3>2, q \in 1 .. j - 1, l \in Nat
    <3>5. q = i
      <4>1. Owned(s)
        BY DEF WellMade
      <4>2. i \in 1 .. Len(s) /\ q \in 1 .. Len(s) /\ c \in s[i].calls /\ c \in s[q].calls
        BY <1>0, <2>2, <3>1, <3>3, <3>4
      <4> QED
        BY ONLY <4>1, <4>2, OneCaller
    <3>6. k \in i + 1 .. j
      BY ONLY <1>0, <3>2, k \in i + 1 .. n, l \in Nat
    <3> QED
      BY <1>2, <2>2, <3>3, <3>5, <3>6
  <2> QED
    BY <2>3, <2>4
<1>11. Formed(t)
  BY <1>2, <1>7, <1>8, <1>9, <1>10 DEF Formed, Answering
<1>12. {i \in Ids(t) : i > m} = {}
  <2> SUFFICES ASSUME NEW x, x \in Ids(t), x > m PROVE FALSE
    <3>1. PICK T : T = Ids(t)
      OBVIOUS
    <3> QED
      BY <3>1
  <2>1. PICK k \in 1 .. n : t[k].role # "system" /\ t[k].id = x
    BY <1>2, IdsProperties
  <2>2. x \in 1 .. m
    BY <1>2, <1>4, <2>1 DEF WellMade
  <2> QED
    BY <2>2
<1>13. Cardinality({}) = 0
  BY FS_EmptySet
<1>14. m + Cardinality({i \in Ids(t) : i > m}) = m
  <2>1. PICK e : e = Cardinality({i \in Ids(t) : i > m})
    OBVIOUS
  <2>2. e = 0
    BY ONLY <1>12, <1>13, <2>1
  <2>3. m + 0 = m
    OBVIOUS
  <2> QED
    BY ONLY <2>1, <2>2, <2>3
<1> QED
  BY ONLY <1>1, <1>2, <1>4, <1>6, <1>11, <1>14

\* x is s, the results made up for its open calls and u.
Patched(s, w, u, last, x) ==
    /\ x = (s \o w) \o u
    /\ \A k \in 1 .. Len(w) :
          /\ w[k].role = "tool" /\ w[k].id = last + k /\ w[k].calls = {}
          /\ w[k].covers = {} /\ ~w[k].record
    /\ \A t : Extends(s, w, t) => Formed(t) /\ Closed(t)

\* The results made up for the open calls close a history.
LEMMA PatchProperties ==
    ASSUME NEW s \in Seq(Msg), Owned(s), Formed(s), NEW u \in Seq(Msg), Len(u) \in {0, 1},
           Len(u) = 1 => u[1].role = "user" /\ u[1].calls = {},
           NEW x, x = s \o u, Owned(x), NEW last \in Nat
    PROVE  \E w \in Seq(Msg) : Patched(s, w, u, last, patchDanglingToolCalls(x, last))
<1>0. PICK a \in Nat, b \in {0, 1} : a = Len(s) /\ b = Len(u)
  BY LenProperties
<1>1. x = s \o u
  OBVIOUS
<1>2. Extends(s, u, x)
  BY <1>1, ConcatExtends
<1>3. /\ x \in Seq(Msg) /\ Len(x) = a + b /\ \A k \in 1 .. a : x[k] = s[k]
      /\ b = 1 => x[a + 1].role = "user" /\ x[a + 1].calls = {}
  <2>1. b = 1 => x[a + 1] = u[1]
    <3>1. b = 1 => 1 \in 1 .. b
      OBVIOUS
    <3> QED
      BY <1>0, <1>2, <3>1 DEF Extends
  <2> QED
    BY <1>0, <1>2, <2>1 DEF Extends
<1>4. DOMAIN x = 1 .. a + b
  BY <1>3, LenProperties
<1>5. \A k \in 1 .. a + b : k \in 1 .. a \/ (k = a + 1 /\ b = 1)
  OBVIOUS
<1>6. Answering(x)
  <2>1. \A k \in 1 .. Len(u) : u[k].role # "system"
    <3>1. \A k \in 1 .. b : k = 1 /\ b = 1
      OBVIOUS
    <3> QED
      BY <1>0, <3>1
  <2>2. u # <<>> => u[1].role = "user"
    <3>1. u # <<>> => Len(u) # 0
      OBVIOUS
    <3> QED
      BY <1>0, <3>1
  <2>3. \A j \in 1 .. Len(s) : x[j].role = "tool" =>
            \E i \in 1 .. j - 1 : /\ x[j].answers \in x[i].calls
                                  /\ \A k \in i + 1 .. j : x[k].role = "tool"
    BY ONLY <1>2, <2>1, <2>2, Formed(s), ExtensionKeeps
  <2> QED
    BY ONLY <1>0, <1>3, <1>5, <2>3 DEF Answering
<1>7. \A i \in 1 .. a + b : Dangling(x, i) = Unanswered(x, i)
  <2>1. Owned(x) /\ x \in Seq(Msg) /\ Len(x) = a + b
    BY <1>1, <1>3
  <2> QED
    BY ONLY <1>6, <2>1, DanglingIsUnanswered
<1>8. \A i \in 1 .. a : Unanswered(x, i) = Unanswered(s, i)
  <2> TAKE i \in 1 .. a
  <2>1. ASSUME NEW c \in s[i].calls
        PROVE  (\A k \in i + 1 .. a + b : x[k].role = "tool" => x[k].answers # c)
               <=> (\A k \in i + 1 .. a : s[k].role = "tool" => s[k].answers # c)
    <3>1. \A k \in i + 1 .. a + b : k \in i + 1 .. a \/ (k = a + 1 /\ b = 1)
      BY ONLY i \in 1 .. a, a \in Nat, b \in {0, 1}
    <3>2. \A k \in i + 1 .. a : k \in i + 1 .. a + b /\ k \in 1 .. a
      BY ONLY i \in 1 .. a, a \in Nat, b \in {0, 1}
    <3> QED
      BY <1>3, <3>1, <3>2
  <2>2. x[i] = s[i] /\ Len(x) = a + b
    BY <1>3
  <2>3. Unanswered(x, i) =
           {c \in s[i].calls : \A k \in i + 1 .. a + b : x[k].role = "tool" => x[k].answers # c}
    BY ONLY <2>2 DEF Unanswered
  <2>4. Unanswered(s, i) =
           {c \in s[i].calls : \A k \in i + 1 .. a : s[k].role = "tool" => s[k].answers # c}
    BY ONLY <1>0 DEF Unanswered
  <2> QED
    BY ONLY <2>1, <2>3, <2>4
<1>9. b = 1 => Unanswered(x, a + 1) = {}
  BY <1>3 DEF Unanswered
<1> DEFINE open == {i \in 1 .. a + b : Dangling(x, i) # {}}
<1>10. open = {i \in 1 .. a : Unanswered(s, i) # {}}
  <2>1. 1 .. a \subseteq 1 .. a + b
    OBVIOUS
  <2> QED
    BY <1>5, <1>7, <1>8, <1>9, <2>1
<1>11. patchDanglingToolCalls(x, last) =
          IF open = {} THEN x
          ELSE LET turn == CHOOSE i \in open : TRUE
                   missing == SetToSeq(Dangling(x, turn))
               IN  SubSeq(x, 1, BlockEnd(x, turn))
                   \o [k \in DOMAIN missing |->
                          [Message("tool", last + k) EXCEPT !.answers = missing[k]]]
                   \o SubSeq(x, BlockEnd(x, turn) + 1, Len(x))
  BY <1>4 DEF patchDanglingToolCalls
<1> HIDE DEF open
<1>12. CASE open = {}
  <2>1. patchDanglingToolCalls(x, last) = x
    BY <1>11, <1>12
  <2>2. <<>> \in Seq(Msg) /\ Len(<<>>) = 0 /\ s \o <<>> = s
    BY ConcatEmptySeq
  <2>3. Closed(s)
    BY <1>0, <1>10, <1>12 DEF Closed
  <2>4. ASSUME NEW t, Extends(s, <<>>, t) PROVE t = s
    <3>1. t \in Seq(Msg) /\ Len(t) = Len(s) /\ \A k \in 1 .. Len(s) : t[k] = s[k]
      BY <1>0, <2>2, <2>4 DEF Extends
    <3> QED
      BY <3>1, SeqEqual
  <2>5. PICK w \in Seq(Msg) : w = <<>>
    BY <2>2
  <2>6. \A t : Extends(s, w, t) => Formed(t) /\ Closed(t)
    BY <2>3, <2>4, <2>5
  <2>7. patchDanglingToolCalls(x, last) = (s \o w) \o u
    BY <1>1, <2>1, <2>2, <2>5
  <2>8. 1 .. Len(w) = {}
    BY <2>5
  <2> QED
    BY ONLY <2>6, <2>7, <2>8, w \in Seq(Msg) DEF Patched
<1>13. CASE open # {}
  <2>1. PICK turn \in open : turn = CHOOSE i \in open : TRUE
    BY <1>13
  <2>2. turn \in 1 .. a /\ Unanswered(s, turn) # {}
    BY <1>10
  <2>3. PICK C : C = Unanswered(s, turn) /\ C = Dangling(x, turn)
    BY <1>0, <1>5, <1>7, <1>8, <2>2
  <2>4. C \subseteq Nat \X {1, 2} /\ IsFiniteSet(C)
    <3>1. s[turn] \in Msg /\ \A c \in C : c \in s[turn].calls /\ c[1] = s[turn].id
      BY <1>0, <2>2, <2>3, ElementOfSeq DEF Owned, Unanswered
    <3>2. PICK i \in Nat : i = s[turn].id
      BY <3>1 DEF Msg
    <3>3. \A c \in C : c \in Nat \X {1, 2}
      BY <3>1 DEF Msg
    <3>4. C \subseteq {<<i, 1>>, <<i, 2>>}
      <4> SUFFICES ASSUME NEW c \in C PROVE c \in {<<i, 1>>, <<i, 2>>}
        OBVIOUS
      <4>1. c \in Nat \X {1, 2} /\ c[1] = i
        BY <3>1, <3>2, <3>3
      <4> QED
        BY ONLY <4>1
    <3>5. IsFiniteSet({<<i, 1>>, <<i, 2>>})
      <4>1. IsFiniteSet({<<i, 2>>})
        BY FS_Singleton
      <4>2. IsFiniteSet({<<i, 2>>} \union {<<i, 1>>})
        BY <4>1, FS_AddElement
      <4> QED
        BY <4>2
    <3> QED
      BY <3>3, <3>4, <3>5, FS_Subset
  <2>5. PICK missing : missing = SetToSeq(C)
    OBVIOUS
  <2>6. PICK n \in Nat : /\ n = Len(missing) /\ missing \in Seq(Nat \X {1, 2}) /\ DOMAIN missing = 1 .. n
                         /\ \A k \in 1 .. n : missing[k] \in C
                         /\ \A c \in C : \E k \in 1 .. n : missing[k] = c
    <3>1. PICK n \in Nat : n = Cardinality(C)
      BY <2>4, SetToSeqProperties
    <3>2. /\ missing \in Seq(Nat \X {1, 2}) /\ Len(missing) = n
          /\ \A k \in 1 .. n : missing[k] \in C
          /\ \A c \in C : \E k \in 1 .. n : missing[k] = c
      <4>1. C \in SUBSET (Nat \X {1, 2})
        BY <2>4
      <4>2. IsFiniteSet(C)
        BY <2>4
      <4> QED
        BY ONLY <2>5, <3>1, <4>1, <4>2, SetToSeqProperties
    <3>3. DOMAIN missing = 1 .. n
      BY <3>2, LenProperties
    <3> QED
      BY <3>2, <3>3
  <2>7. PICK w : w = [k \in 1 .. n |-> [Message("tool", last + k) EXCEPT !.answers = missing[k]]]
    OBVIOUS
  <2>8. \A k \in 1 .. n : /\ w[k] \in Msg /\ w[k].role = "tool" /\ w[k].id = last + k /\ w[k].calls = {}
                          /\ w[k].covers = {} /\ ~w[k].record /\ w[k].answers = missing[k]
    <3> TAKE k \in 1 .. n
    <3>1. PICK r : r = [Message("tool", last + k) EXCEPT !.answers = missing[k]]
      OBVIOUS
    <3>2. missing[k] \in Nat \X {1, 2} /\ last + k \in Nat
      BY <2>4, <2>6
    <3>3. r = [role |-> "tool", id |-> last + k, calls |-> {}, answers |-> missing[k],
               size |-> "short", record |-> FALSE, covers |-> {}]
      BY <3>1 DEF Message
    <3>4. r \in Msg
      BY <3>2, <3>3 DEF Msg
    <3>5. w[k] = r
      BY <2>7, <3>1
    <3> QED
      BY <3>3, <3>4, <3>5
  <2>9. w \in Seq(Msg) /\ Len(w) = n
    <3>1. w \in [1 .. n -> Msg]
      BY <2>7, <2>8
    <3> QED
      BY ONLY <3>1, n \in Nat
  <2>10. BlockEnd(x, turn) = a
    <3>0. x \in Seq(Msg) /\ turn \in 1 .. Len(x) /\ Len(x) = a + b
      BY <1>3, <2>2
    <3>1. PICK e \in turn .. a + b : e = BlockEnd(x, turn)
      BY ONLY <3>0, BlockEndProperties
    <3>2. /\ \A k \in turn + 1 .. e : x[k].role \notin {"assistant", "user"}
          /\ e < a + b => x[e + 1].role \in {"assistant", "user"}
      BY ONLY <3>0, <3>1, BlockEndProperties
    <3>3. \A k \in turn + 1 .. a : x[k].role = "tool"
      <4>1. \A k \in turn + 1 .. a : k \in 1 .. a
        BY <2>2
      <4> QED
        BY <1>0, <1>3, <2>2, <4>1 DEF Formed
    <3>4. ~(e < a)
      <4> SUFFICES ASSUME e < a PROVE FALSE
        OBVIOUS
      <4>1. e + 1 \in turn + 1 .. a /\ e < a + b
        BY <2>2
      <4> QED
        BY <3>2, <3>3, <4>1
    <3>5. ~(a < e)
      <4> SUFFICES ASSUME a < e PROVE FALSE
        OBVIOUS
      <4>1. a + 1 \in turn + 1 .. e /\ b = 1
        BY <2>2
      <4> QED
        BY <1>3, <3>2, <4>1
    <3> QED
      BY <2>2, <3>1, <3>4, <3>5
  <2>11. SubSeq(x, 1, a) = s
    <3>1. 1 \in 1 .. Len(x) + 1 /\ a \in 1 - 1 .. Len(x) /\ a - 1 + 1 = a /\ \A k \in 1 .. a : 1 + k - 1 = k
      BY <1>3
    <3>2. PICK y : y = SubSeq(x, 1, a)
      OBVIOUS
    <3>3. x \in Seq(Msg)
      BY <1>3
    <3>4. y \in Seq(Msg) /\ Len(y) = a - 1 + 1 /\ \A k \in 1 .. a - 1 + 1 : y[k] = x[1 + k - 1]
      BY ONLY <3>1, <3>2, <3>3, Stretch
    <3>5. Len(y) = a /\ \A k \in 1 .. a : y[k] = s[k]
      BY ONLY <1>3, <3>1, <3>4
    <3>6. y \in Seq(Msg) /\ Len(y) = Len(s) /\ \A k \in 1 .. Len(s) : y[k] = s[k]
      BY ONLY <1>0, <3>4, <3>5
    <3>7. y = s
      BY ONLY <3>6, s \in Seq(Msg), SeqEqual
    <3> QED
      BY ONLY <3>2, <3>7
  <2>12. SubSeq(x, a + 1, a + b) = u
    <3>0. Len(x) = a + b
      BY <1>3
    <3>1. a + 1 \in 1 .. Len(x) + 1 /\ a + b \in a + 1 - 1 .. Len(x) /\ a + b - (a + 1) + 1 = b
      BY ONLY <3>0, a \in Nat, b \in {0, 1}
    <3>2. PICK y : y = SubSeq(x, a + 1, a + b)
      OBVIOUS
    <3>3. x \in Seq(Msg)
      BY <1>3
    <3>4. /\ y \in Seq(Msg) /\ Len(y) = a + b - (a + 1) + 1
          /\ \A k \in 1 .. a + b - (a + 1) + 1 : y[k] = x[a + 1 + k - 1]
      <4>1. PICK p, q : p = a + 1 /\ q = a + b
        OBVIOUS
      <4>2. p \in 1 .. Len(x) + 1 /\ q \in p - 1 .. Len(x) /\ y = SubSeq(x, p, q)
        BY <3>1, <3>2, <4>1
      <4>3. y \in Seq(Msg) /\ Len(y) = q - p + 1 /\ \A k \in 1 .. q - p + 1 : y[k] = x[p + k - 1]
        BY ONLY <3>3, <4>2, Stretch
      <4> QED
        BY ONLY <4>1, <4>3
    <3>5. Len(y) = b /\ \A k \in 1 .. b : y[k] = x[a + 1 + k - 1]
      BY ONLY <3>1, <3>4
    <3>6. \A k \in 1 .. b : y[k] = u[k]
      <4> TAKE k \in 1 .. b
      <4>1. a + 1 + k - 1 = a + k
        OBVIOUS
      <4>2. x[a + k] = u[k]
        BY <1>0, <1>2 DEF Extends
      <4> QED
        BY <3>5, <4>1, <4>2
    <3>7. y \in Seq(Msg) /\ Len(y) = Len(u) /\ \A k \in 1 .. Len(u) : y[k] = u[k]
      BY ONLY <1>0, <3>4, <3>5, <3>6
    <3>8. y = u
      BY ONLY <3>7, u \in Seq(Msg), SeqEqual
    <3> QED
      BY ONLY <3>2, <3>8
  <2>13. patchDanglingToolCalls(x, last) = (s \o w) \o u
    <3>1. missing = SetToSeq(Dangling(x, turn)) /\ Len(x) = a + b /\ BlockEnd(x, turn) = a
      BY <1>3, <2>3, <2>5, <2>10
    <3>2. patchDanglingToolCalls(x, last) = SubSeq(x, 1, a) \o w \o SubSeq(x, a + 1, a + b)
      BY <1>11, <1>13, <2>1, <2>6, <2>7, <3>1
    <3> QED
      BY <2>11, <2>12, <3>2
  <2>14. ASSUME NEW t, Extends(s, w, t) PROVE Formed(t) /\ Closed(t)
    <3>1. turn \in 1 .. Len(s) /\ Unanswered(s, turn) # {}
      BY <1>0, <2>2
    <3>2. \A k \in 1 .. Len(w) : /\ w[k].role = "tool" /\ w[k].calls = {}
                                 /\ w[k].answers \in Unanswered(s, turn)
      BY <2>3, <2>6, <2>8, <2>9
    <3>3. \A c \in C : \E k \in 1 .. Len(w) : w[k].answers = c
      <4> TAKE c \in C
      <4>1. PICK k \in 1 .. n : missing[k] = c
        BY <2>6
      <4>2. w[k].answers = c /\ k \in 1 .. Len(w)
        BY <2>8, <2>9, <4>1
      <4> QED
        BY ONLY <4>2
    <3>4. \A c \in Unanswered(s, turn) : \E k \in 1 .. Len(w) : w[k].answers = c
      BY ONLY <2>3, <3>3
    <3> QED
      BY ONLY <2>9, <2>14, <3>1, <3>2, <3>4, s \in Seq(Msg), Owned(s), Formed(s),
         ResultsExtension
  <2> QED
    BY ONLY <2>8, <2>9, <2>13, <2>14 DEF Patched
<1> QED
  BY <1>12, <1>13

\* A history with the properties each step keeps.
Sound(s, m, left) == s \in Seq(Msg) /\ WellMade(s, m) /\ Formed(s) /\ Gapless(s, left)

\* A history a run can iterate on.
Ready(s) == s # <<>> /\ Closed(s) /\ s[Len(s)].role # "system"

\* What Save(t) counts as made after m, and that t is sound with it.
Grows(t, m, left) ==
    /\ m + Cardinality({i \in Ids(t) : i > m}) \in Nat
    /\ Sound(t, m + Cardinality({i \in Ids(t) : i > m}), left)

\* A message is one of Msg.
LEMMA MessageIsMsg ==
    ASSUME NEW role \in {"system", "user", "assistant", "tool"}, NEW id \in Nat
    PROVE  Message(role, id) \in Msg
BY DEF Message, Msg

\* A history followed by fresh messages is as well made and counts them.
LEMMA FreshGrows ==
    ASSUME NEW s, NEW m \in Nat, NEW left, Sound(s, m, left), NEW w \in Seq(Msg), NEW n \in Nat,
           Fresh(w, m, n), NEW t, t = s \o w, Formed(t)
    PROVE  Grows(t, m, left)
<1>1. Extends(s, w, t) /\ WellMade(s, m) /\ Gapless(s, left)
  BY ConcatExtends DEF Sound
<1>2. WellMade(t, m + n) /\ Gapless(t, left) /\ m + Cardinality({i \in Ids(t) : i > m}) = m + n
  BY ONLY <1>1, m \in Nat, n \in Nat, Fresh(w, m, n), ExtensionProperties
<1>3. t \in Seq(Msg) /\ m + n \in Nat
  BY <1>1 DEF Extends
<1> QED
  BY <1>2, <1>3 DEF Grows, Sound

\* The first save of a run: the user message is added and the open calls closed.
LEMMA RunGrows ==
    ASSUME NEW s, NEW m \in Nat, NEW left, Sound(s, m, left),
           NEW t, t = patchDanglingToolCalls(Append(s, Message("user", m + 1)), m + 1)
    PROVE  Grows(t, m, left) /\ Ready(t)
<1>1. PICK x \in Msg : /\ x = Message("user", m + 1) /\ x.role = "user" /\ x.id = m + 1 /\ x.calls = {}
                       /\ ~x.record /\ x.covers = {}
  <2>1. m + 1 \in Nat
    OBVIOUS
  <2>2. Message("user", m + 1) \in Msg
    BY <2>1, MessageIsMsg
  <2> QED
    BY <2>2 DEF Message
<1>2. PICK u \in Seq(Msg) : u = <<x>> /\ Len(u) = 1 /\ u[1] = x
  <2>1. <<x>> \in Seq(Msg) /\ Len(<<x>>) = 1 /\ <<x>>[1] = x
    OBVIOUS
  <2> QED
    BY <2>1
<1>3. s \in Seq(Msg) /\ WellMade(s, m) /\ Owned(s) /\ Formed(s) /\ Gapless(s, left)
  BY DEF Sound, WellMade
<1>4. Append(s, x) = s \o u
  BY <1>2, <1>3, AppendIsConcat
<1>5. Owned(s \o u)
  <2>1. Fresh(u, m, 1)
    <3>1. m + 1 \in m + 1 .. m + 1 /\ \A k \in 1 .. 1 : k = 1
      OBVIOUS
    <3>2. \A y \in m + 1 .. m + 1 : y = m + 1
      OBVIOUS
    <3>3. 1 \in 1 .. 1
      OBVIOUS
    <3> QED
      BY <1>1, <1>2, <3>1, <3>2, <3>3 DEF Fresh
  <2>2. Extends(s, u, s \o u)
    BY <1>3, ConcatExtends
  <2>3. 1 \in Nat
    OBVIOUS
  <2>4. WellMade(s \o u, m + 1)
    BY ONLY <1>3, <2>1, <2>2, <2>3, m \in Nat, ExtensionProperties
  <2> QED
    BY <2>4 DEF WellMade
<1>6. PICK l \in Nat : l = m + 1
  OBVIOUS
<1>7. PICK w \in Seq(Msg) :
         /\ patchDanglingToolCalls(s \o u, l) = (s \o w) \o u
         /\ \A k \in 1 .. Len(w) :
               /\ w[k].role = "tool" /\ w[k].id = l + k /\ w[k].calls = {}
               /\ w[k].covers = {} /\ ~w[k].record
         /\ \A y : Extends(s, w, y) => Formed(y) /\ Closed(y)
  <2>0. PICK su : su = s \o u
    OBVIOUS
  <2>1. Len(u) \in {0, 1} /\ (Len(u) = 1 => u[1].role = "user" /\ u[1].calls = {})
    BY <1>1, <1>2
  <2> QED
    <3>1. Owned(su)
      BY <1>5, <2>0
    <3>2. \E w \in Seq(Msg) : Patched(s, w, u, l, patchDanglingToolCalls(su, l))
      BY ONLY <1>3, <2>0, <2>1, <3>1, u \in Seq(Msg), l \in Nat, PatchProperties
    <3> QED
      BY ONLY <2>0, <3>2 DEF Patched
<1>8. PICK sw : sw = s \o w
  OBVIOUS
<1>9. sw \in Seq(Msg) /\ Formed(sw) /\ Closed(sw) /\ t = sw \o u
  <2>1. Extends(s, w, sw)
    BY <1>3, <1>8, ConcatExtends
  <2>2. sw \in Seq(Msg)
    BY <2>1 DEF Extends
  <2>3. t = patchDanglingToolCalls(s \o u, l)
    BY <1>1, <1>4, <1>6
  <2> QED
    BY ONLY <1>7, <1>8, <2>1, <2>2, <2>3
<1>10. Extends(sw, <<x>>, t)
  BY <1>2, <1>9, ConcatExtends
<1>11. Formed(t) /\ Closed(t)
  BY ONLY <1>1, <1>9, <1>10, UserExtension
<1>12. PICK wu \in Seq(Msg) : wu = w \o u /\ t = s \o wu
  <2>1. (s \o w) \o u = s \o (w \o u)
    BY <1>3, ConcatAssociative
  <2>2. w \o u \in Seq(Msg)
    BY ConcatProperties
  <2> QED
    BY <1>8, <1>9, <2>1, <2>2
<1>13. PICK n \in Nat : n = Len(w)
  BY LenProperties
<1>14. Len(wu) = n + 1 /\ wu[n + 1] = x /\ \A k \in 1 .. n : wu[k] = w[k]
  <2>1. Extends(w, u, wu)
    BY <1>12, ConcatExtends
  <2>2. 1 \in 1 .. 1
    OBVIOUS
  <2> QED
    BY <1>2, <1>13, <2>1, <2>2 DEF Extends
<1>15. Fresh(wu, m, n + 1)
  <2>1. \A k \in 1 .. n + 1 : (k \in 1 .. n /\ l + k \in m + 1 .. m + (n + 1)) \/ (k = n + 1)
    BY <1>6
  <2>0. \A k \in 1 .. n : /\ wu[k].role = "tool" /\ wu[k].id = l + k /\ wu[k].calls = {}
                          /\ wu[k].covers = {} /\ ~wu[k].record
    BY ONLY <1>7, <1>13, <1>14
  <2>2. \A k \in 1 .. n + 1 : \/ /\ k \in 1 .. n /\ wu[k].role = "tool" /\ wu[k].id = l + k /\ wu[k].calls = {}
                                 /\ wu[k].covers = {} /\ ~wu[k].record
                              \/ k = n + 1 /\ wu[k] = x
    BY ONLY <1>14, <2>0, <2>1
  <2>3. m + 1 \in m + 1 .. m + (n + 1)
    OBVIOUS
  <2>4. \A k \in 1 .. n + 1 :
           /\ wu[k].role # "system" /\ ~wu[k].record /\ wu[k].covers = {}
           /\ wu[k].id \in m + 1 .. m + (n + 1) /\ wu[k].calls = {}
    <3> TAKE k \in 1 .. n + 1
    <3>2. CASE k \in 1 .. n
      <4>1. l + k \in m + 1 .. m + (n + 1)
        BY <1>6, <3>2
      <4> QED
        BY ONLY <2>0, <3>2, <4>1
    <3>3. CASE k = n + 1
      BY ONLY <1>1, <1>14, <2>3, <3>3
    <3> QED
      BY ONLY <2>1, <3>2, <3>3, k \in 1 .. n + 1
  <2>5. \A k \in 1 .. n + 1 : (k \in 1 .. n /\ wu[k].id = l + k) \/ (k = n + 1 /\ wu[k].id = m + 1)
    BY <1>1, <2>2
  <2>6. \A j, k \in 1 .. n + 1 : wu[j].id = wu[k].id => j = k
    <3> TAKE j, k \in 1 .. n + 1
    <3>1. PICK a, b : a = wu[j].id /\ b = wu[k].id
      OBVIOUS
    <3>2. (j \in 1 .. n /\ a = l + j) \/ (j = n + 1 /\ a = m + 1)
      BY ONLY <2>5, <3>1, j \in 1 .. n + 1
    <3>3. (k \in 1 .. n /\ b = l + k) \/ (k = n + 1 /\ b = m + 1)
      BY ONLY <2>5, <3>1, k \in 1 .. n + 1
    <3>4. a = b => j = k
      BY ONLY <1>6, <3>2, <3>3, m \in Nat, n \in Nat
    <3> QED
      BY ONLY <3>1, <3>4
  <2>7. \A y \in m + 1 .. m + (n + 1) : \E k \in 1 .. n + 1 : wu[k].id = y
    <3> TAKE y \in m + 1 .. m + (n + 1)
    <3>1. CASE y = m + 1
      <4>1. n + 1 \in 1 .. n + 1
        OBVIOUS
      <4> QED
        BY <1>1, <1>14, <3>1, <4>1
    <3>2. CASE y # m + 1
      <4>1. y - l \in 1 .. n /\ l + (y - l) = y /\ y - l \in 1 .. n + 1
        BY <1>6, <3>2
      <4>2. wu[y - l].id = l + (y - l)
        BY <1>7, <1>13, <1>14, <4>1
      <4> QED
        BY <4>1, <4>2
    <3> QED
      BY <3>1, <3>2
  <2> QED
    BY <1>14, <2>4, <2>6, <2>7 DEF Fresh
<1>16. Grows(t, m, left)
  <2>1. n + 1 \in Nat
    OBVIOUS
  <2> QED
    BY ONLY <1>11, <1>12, <1>15, <2>1, m \in Nat, Sound(s, m, left), FreshGrows
<1>17. t # <<>> /\ t[Len(t)].role # "system"
  <2>1. PICK a \in Nat : a = Len(sw)
    BY <1>9, LenProperties
  <2>2. Len(t) = a + 1 /\ t[a + 1] = x
    <3>1. Len(<<x>>) = 1 /\ <<x>>[1] = x /\ 1 \in 1 .. 1
      OBVIOUS
    <3> QED
      BY <1>10, <2>1, <3>1 DEF Extends
  <2>3. a + 1 # 0
    OBVIOUS
  <2> QED
    BY <1>1, <2>2, <2>3
<1> QED
  BY <1>11, <1>16, <1>17 DEF Ready

\* The first save of a continued run: the open calls are closed.
LEMMA ContinueGrows ==
    ASSUME NEW s, NEW m \in Nat, NEW left, Sound(s, m, left), s # <<>>,
           s[Len(s)].role # "system", NEW t, t = patchDanglingToolCalls(s, m)
    PROVE  Grows(t, m, left) /\ Ready(t)
<1>1. s \in Seq(Msg) /\ WellMade(s, m) /\ Owned(s) /\ Formed(s) /\ Gapless(s, left)
  BY DEF Sound, WellMade
<1>2. PICK u \in Seq(Msg) : u = <<>> /\ Len(u) = 0
  <2>1. <<>> \in Seq(Msg) /\ Len(<<>>) = 0
    OBVIOUS
  <2> QED
    BY <2>1
<1>3. s \o u = s
  BY <1>1, <1>2, ConcatEmptySeq
<1>4. PICK w \in Seq(Msg) :
         /\ patchDanglingToolCalls(s \o u, m) = (s \o w) \o u
         /\ \A k \in 1 .. Len(w) :
               /\ w[k].role = "tool" /\ w[k].id = m + k /\ w[k].calls = {}
               /\ w[k].covers = {} /\ ~w[k].record
         /\ \A y : Extends(s, w, y) => Formed(y) /\ Closed(y)
  <2>0. PICK su : su = s \o u
    OBVIOUS
  <2>1. Len(u) \in {0, 1} /\ (Len(u) = 1 => u[1].role = "user" /\ u[1].calls = {})
    BY ONLY <1>2
  <2>2. Owned(s \o u)
    BY <1>1, <1>3
  <2> QED
    <3>1. Owned(su)
      BY <2>0, <2>2
    <3>2. \E w \in Seq(Msg) : Patched(s, w, u, m, patchDanglingToolCalls(su, m))
      BY ONLY <1>1, <2>0, <2>1, <3>1, u \in Seq(Msg), m \in Nat, PatchProperties
    <3> QED
      BY ONLY <2>0, <3>2 DEF Patched
<1>5. PICK sw \in Seq(Msg) : sw = s \o w /\ Extends(s, w, sw)
  <2>1. Extends(s, w, s \o w)
    BY <1>1, ConcatExtends
  <2> QED
    BY <2>1 DEF Extends
<1>6. t = s \o w
  <2>1. sw \o u = sw
    BY <1>2, <1>5, ConcatEmptySeq
  <2> QED
    BY <1>3, <1>4, <1>5, <2>1
<1>7. Formed(t) /\ Closed(t) /\ Extends(s, w, t)
  BY <1>4, <1>5, <1>6
<1>8. PICK n \in Nat : n = Len(w)
  BY LenProperties
<1>9. Fresh(w, m, n)
  <2>1. \A k \in 1 .. n : m + k \in m + 1 .. m + n
    OBVIOUS
  <2>2. \A j, k \in 1 .. n : m + j = m + k => j = k
    OBVIOUS
  <2>3. \A y \in m + 1 .. m + n : y - m \in 1 .. n /\ m + (y - m) = y
    OBVIOUS
  <2>4. \A k \in 1 .. n : /\ w[k].role = "tool" /\ w[k].id = m + k /\ w[k].calls = {}
                          /\ w[k].covers = {} /\ ~w[k].record
    BY <1>4, <1>8
  <2>5. \A y \in m + 1 .. m + n : w[y - m].id = y
    BY <2>3, <2>4
  <2> QED
    BY <1>8, <2>1, <2>2, <2>3, <2>4, <2>5 DEF Fresh
<1>10. Grows(t, m, left)
  BY ONLY <1>6, <1>7, <1>9, m \in Nat, n \in Nat, w \in Seq(Msg), Sound(s, m, left), FreshGrows
<1>11. t # <<>> /\ t[Len(t)].role # "system"
  <2>1. PICK a \in Nat : a = Len(s) /\ a > 0
    BY <1>1, LenProperties
  <2>2. Len(t) = a + n /\ (\A k \in 1 .. a : t[k] = s[k]) /\ (\A k \in 1 .. n : t[a + k] = w[k])
    BY <1>7, <1>8, <2>1 DEF Extends
  <2>3. CASE n = 0
    <3>1. a + n = a /\ a \in 1 .. a /\ a # 0
      BY <2>1, <2>3
    <3> QED
      BY <2>1, <2>2, <3>1
  <2>4. CASE n # 0
    <3>1. n \in 1 .. n /\ a + n # 0
      BY <2>4
    <3> QED
      BY <1>4, <1>8, <2>2, <3>1
  <2> QED
    BY <2>3, <2>4
<1> QED
  BY <1>7, <1>10, <1>11 DEF Ready

\* Regenerate cuts within the prefix it is given.
LEMMA SafeTruncateProperties ==
    ASSUME NEW s, NEW n \in Nat
    PROVE  SafeTruncate(s, n) \in 0 .. n
<1> DEFINE T == {k \in 0 .. n : SafePrefix(s, k)}
<1>1. 0 \in T
  <2>1. 0 \in 0 .. n /\ ~(0 > 0)
    OBVIOUS
  <2> QED
    BY <2>1 DEF SafePrefix
<1>2. T \in SUBSET (0 .. n) /\ T # {}
  BY <1>1
<1>3. PICK k \in T : \A j \in T : j <= k
  <2> HIDE DEF T
  <2> QED
    BY <1>2, GreatestNatural
<1>4. \A j \in k + 1 .. n : ~SafePrefix(s, j)
  <2> SUFFICES ASSUME NEW j \in k + 1 .. n, SafePrefix(s, j) PROVE FALSE
    OBVIOUS
  <2>1. j \in 0 .. n /\ ~(j <= k)
    BY k \in 0 .. n
  <2> QED
    BY <1>3, <2>1
<1>5. k \in 0 .. n /\ SafePrefix(s, k) /\ \A j \in k + 1 .. n : ~SafePrefix(s, j)
  BY <1>4
<1> QED
  BY ONLY <1>5 DEF SafeTruncate

\* What Regenerate saves is a prefix of the history.
LEMMA CutGrows ==
    ASSUME NEW s, NEW m \in Nat, NEW left, Sound(s, m, left), NEW U,
           U = {i \in DOMAIN s : s[i].role = "user"}, U # {},
           NEW t, t = SubSeq(s, 1, SafeTruncate(s, (CHOOSE i \in U : \A j \in U : j <= i) - 1))
    PROVE  Grows(t, m, left)
<1>0. PICK n \in Nat : n = Len(s) /\ DOMAIN s = 1 .. n
  BY LenProperties DEF Sound
<1>1. U \in SUBSET (0 .. n)
  <2>1. 1 .. n \subseteq 0 .. n
    OBVIOUS
  <2> QED
    BY <1>0, <2>1
<1>2. \E i \in U : \A j \in U : j <= i
  BY <1>1, GreatestNatural
<1>3. PICK i \in 1 .. n : i = CHOOSE k \in U : \A j \in U : j <= k
  <2>1. (CHOOSE k \in U : \A j \in U : j <= k) \in U
    BY ONLY <1>2
  <2>2. \A k \in U : k \in 1 .. n
    BY <1>0
  <2> QED
    BY ONLY <2>1, <2>2
<1>4. i - 1 \in Nat
  OBVIOUS
<1>5. PICK k \in 0 .. n : t = SubSeq(s, 1, k)
  <2>1. SafeTruncate(s, i - 1) \in 0 .. i - 1
    BY ONLY <1>4, SafeTruncateProperties
  <2>2. SafeTruncate(s, i - 1) \in 0 .. n
    BY <2>1
  <2> QED
    BY <1>3, <2>2
<1>6. /\ t \in Seq(Msg) /\ WellMade(t, m) /\ Formed(t) /\ Gapless(t, left)
      /\ m + Cardinality({x \in Ids(t) : x > m}) = m
  <2>1. k \in 0 .. Len(s) /\ s \in Seq(Msg) /\ WellMade(s, m) /\ Formed(s) /\ Gapless(s, left)
    BY <1>0 DEF Sound
  <2> QED
    BY ONLY <1>5, <2>1, m \in Nat, PrefixProperties
<1> QED
  BY <1>6 DEF Grows, Sound

\* w is an assistant message with these calls and the results of the first n.
AskedTurn(w, m, n, calls) ==
    /\ w \in Seq(Msg) /\ Len(w) = n + 1
    /\ w[1] = [Message("assistant", m + 1) EXCEPT !.calls = calls]
    /\ \A k \in 2 .. n + 1 : /\ w[k].role = "tool" /\ w[k].calls = {} /\ w[k].id = m + k
                              /\ ~w[k].record /\ w[k].covers = {}
                              /\ w[k].answers = <<m + 1, k - 1>> /\ w[k].answers \in calls

\* A tool turn, complete or not, and an answer extend a history that is ready.
LEMMA TurnGrows ==
    ASSUME NEW s, NEW m \in Nat, NEW left, Sound(s, m, left), Ready(s),
           NEW n \in 0 .. 2, NEW calls \in SUBSET ({m + 1} \X {1, 2}),
           NEW w, AskedTurn(w, m, n, calls), NEW t, t = s \o w
    PROVE  /\ Grows(t, m, left)
           /\ calls = {} \/ n = 2 => Ready(t)
<1>0. PICK a : a = [Message("assistant", m + 1) EXCEPT !.calls = calls]
  OBVIOUS
<1>a. /\ w \in Seq(Msg) /\ Len(w) = n + 1 /\ w[1] = a
      /\ \A k \in 2 .. n + 1 : /\ w[k].role = "tool" /\ w[k].calls = {} /\ w[k].id = m + k
                                /\ ~w[k].record /\ w[k].covers = {}
                                /\ w[k].answers = <<m + 1, k - 1>> /\ w[k].answers \in calls
  BY <1>0 DEF AskedTurn
<1>1. /\ a.role = "assistant" /\ a.id = m + 1 /\ a.calls = calls /\ ~a.record /\ a.covers = {}
      /\ \A c \in calls : c[1] = m + 1
  BY <1>0 DEF Message
<1>2. w # <<>>
  <2>1. n + 1 # 0
    OBVIOUS
  <2> QED
    BY <1>a, <2>1
<1>3. Extends(s, w, t)
  BY <1>a, ConcatExtends DEF Sound
<1>4. \A k \in 2 .. Len(w) : /\ w[k].role = "tool" /\ w[k].calls = {}
                             /\ w[k].answers \in w[1].calls
  BY <1>a, <1>1
<1>5. /\ Formed(t)
      /\ (\A c \in w[1].calls : \E k \in 2 .. Len(w) : w[k].answers = c) => Closed(t)
  <2>1. /\ Formed(s) /\ Closed(s) /\ s # <<>> /\ s[Len(s)].role # "system"
        /\ w[1].role = "assistant"
    BY <1>a, <1>1 DEF Sound, Ready
  <2> QED
    BY ONLY <1>2, <1>3, <1>4, <2>1, TurnExtension
<1>6. \A k \in 1 .. n + 1 : k = 1 \/ k \in 2 .. n + 1
  OBVIOUS
<1>7. \A k \in 1 .. n + 1 : /\ w[k].role # "system" /\ ~w[k].record /\ w[k].covers = {}
                            /\ w[k].id = m + k
                            /\ w[k].role # "assistant" => w[k].calls = {}
                            /\ \A c \in w[k].calls : c[1] = w[k].id
  BY <1>a, <1>1, <1>6
<1>8. Fresh(w, m, n + 1)
  <2>0. Len(w) = n + 1
    BY <1>a
  <2>1. \A k \in 1 .. n + 1 : m + k \in m + 1 .. m + (n + 1)
    OBVIOUS
  <2>2. \A j, k \in 1 .. n + 1 : m + j = m + k => j = k
    OBVIOUS
  <2>3. \A y \in m + 1 .. m + (n + 1) : y - m \in 1 .. n + 1 /\ m + (y - m) = y
    OBVIOUS
  <2>4. \A y \in m + 1 .. m + (n + 1) : w[y - m].id = y
    BY ONLY <1>7, <2>3
  <2> QED
    BY ONLY <1>7, <2>0, <2>1, <2>2, <2>3, <2>4 DEF Fresh
<1>9. Grows(t, m, left)
  <2>1. n + 1 \in Nat
    OBVIOUS
  <2> QED
    BY ONLY <1>a, <1>5, <1>8, <2>1, m \in Nat, Sound(s, m, left), t = s \o w, FreshGrows
<1>10. t # <<>> /\ t[Len(t)].role # "system"
  <2>1. PICK l \in Nat : l = Len(s)
    BY LenProperties DEF Sound
  <2>2. n + 1 \in 1 .. n + 1 /\ l + (n + 1) # 0
    OBVIOUS
  <2>3. Len(t) = l + (n + 1) /\ t[l + (n + 1)] = w[n + 1]
    BY <1>a, <1>3, <2>1, <2>2 DEF Extends
  <2> QED
    BY <1>7, <2>2, <2>3
<1>11. ASSUME calls = {} \/ n = 2 PROVE Closed(t)
  <2>1. CASE calls = {}
    BY <1>a, <1>1, <1>5, <2>1
  <2>2. CASE n = 2
    <3>1. ASSUME NEW c \in calls PROVE \E k \in 2 .. 3 : w[k].answers = c
      <4>1. c = <<m + 1, 1>> \/ c = <<m + 1, 2>>
        OBVIOUS
      <4>2. w[2].answers = <<m + 1, 1>> /\ w[3].answers = <<m + 1, 2>>
        <5>1. 2 \in 2 .. n + 1 /\ 3 \in 2 .. n + 1 /\ 2 - 1 = 1 /\ 3 - 1 = 2
          BY <2>2
        <5> QED
          BY <1>a, <5>1
      <4>3. 2 \in 2 .. 3 /\ 3 \in 2 .. 3
        OBVIOUS
      <4> QED
        BY ONLY <4>1, <4>2, <4>3
    <3>2. Len(w) = 3
      BY <1>a, <2>2
    <3> QED
      BY <1>a, <1>1, <1>5, <3>1, <3>2
  <2> QED
    BY <1>11, <2>1, <2>2
<1> QED
  BY <1>9, <1>10, <1>11 DEF Ready

\* A save of a history that grows keeps the invariant.
LEMMA SaveKeeps ==
    ASSUME ConvIInv, NEW t, Save(t), omitted' \in SUBSET Nat, Grows(t, made, omitted'),
           running' \in BOOLEAN, running' => Ready(t)
    PROVE  ConvIInv'
<1>1. log' = t /\ made' = made + Cardinality({i \in Ids(t) : i > made})
  BY DEF Save
<1>2. log' \in Seq(Msg) /\ made' \in Nat /\ WellMade(log', made') /\ Formed(log') /\ Gapless(log', omitted')
  BY <1>1 DEF Grows, Sound
<1>3. running' => log' # <<>> /\ Closed(log') /\ log'[Len(log')].role # "system"
  BY <1>1 DEF Ready
<1> QED
  BY <1>2, <1>3 DEF ConvIInv

\* A session begins without history, with or without its system prompt.
LEMMA HistoriesAreSound ==
    ASSUME ConvIInv, NEW s \in Histories
    PROVE  Sound(s, made, omitted)
<1>1. CASE s = log
  BY <1>1 DEF ConvIInv, Sound
<1>2. CASE s = <<>>
  <2>1. <<>> \in Seq(Msg) /\ 1 .. Len(<<>>) = {}
    OBVIOUS
  <2> QED
    BY <1>2, <2>1 DEF Sound, WellMade, Owned, Formed, Answering, Gapless
<1>3. CASE s = <<Message("system", 0)>>
  <2>1. PICK x \in Msg : /\ x = Message("system", 0) /\ x.role = "system" /\ x.id = 0
                         /\ x.calls = {} /\ ~x.record /\ x.covers = {}
    <3>1. Message("system", 0) \in Msg
      BY MessageIsMsg
    <3> QED
      BY <3>1 DEF Message
  <2>2. s \in Seq(Msg) /\ Len(s) = 1 /\ s[1] = x
    <3>1. <<x>> \in Seq(Msg) /\ Len(<<x>>) = 1 /\ <<x>>[1] = x
      OBVIOUS
    <3> QED
      BY <1>3, <2>1, <3>1
  <2>3. \A k \in 1 .. Len(s) : k = 1 /\ s[k] = x
    BY <2>2
  <2>4. ~(1 < Len(s))
    BY <2>2
  <2>5. WellMade(s, made)
    BY <2>1, <2>3 DEF WellMade, Owned
  <2>6. Formed(s)
    <3>1. s[1] = x
      BY <2>2
    <3>2. \A i \in 1 .. Len(s) : Unanswered(s, i) = {}
      BY <2>1, <2>3 DEF Unanswered
    <3> QED
      BY <2>1, <2>3, <2>4, <3>1, <3>2 DEF Formed, Answering
  <2>7. Gapless(s, omitted)
    BY <2>1, <2>3 DEF Gapless
  <2> QED
    BY <2>2, <2>5, <2>6, <2>7 DEF Sound
<1> QED
  BY <1>1, <1>2, <1>3 DEF Histories

\* The empty history satisfies the invariant (ConvInit).
LEMMA ConvInitInvariant ==
    ConvInit => ConvIInv
<1> SUFFICES ASSUME ConvInit PROVE ConvIInv
  OBVIOUS
<1>1. <<>> \in Seq(Msg) /\ 1 .. Len(<<>>) = {}
  OBVIOUS
<1> QED
  BY <1>1 DEF ConvInit, ConvIInv, WellMade, Owned, Formed, Answering, Gapless

\* Each entry point and each step of a run keeps it: compaction, the patch of
\* open calls, the cut of Regenerate, a turn and an answer.
LEMMA ConvNextInvariant ==
    ConvIInv /\ [ConvNext]_convVars => ConvIInv'
<1> SUFFICES ASSUME ConvIInv, [ConvNext]_convVars PROVE ConvIInv'
  OBVIOUS
<1>0. /\ Sound(log, made, omitted) /\ made \in Nat /\ omitted \in SUBSET Nat
      /\ running => Ready(log)
  BY DEF ConvIInv, Sound, Ready
<1>1. CASE Run
  <2>1. running'
    BY <1>1 DEF Run
  <2>0. PICK s \in Histories : \E c \in Compactions(s) :
           /\ Save(patchDanglingToolCalls(Append(c.msgs, Message("user", made + 1)), made + 1))
           /\ omitted' = omitted \union c.left
    BY <1>1 DEF Run
  <2>2. PICK c \in Compactions(s) :
           /\ Save(patchDanglingToolCalls(Append(c.msgs, Message("user", made + 1)), made + 1))
           /\ omitted' = omitted \union c.left
    BY <2>0
  <2>3. /\ s \in Seq(Msg) /\ WellMade(s, made) /\ Formed(s) /\ Gapless(s, omitted)
    BY HistoriesAreSound DEF Sound
  <2>4. /\ c.msgs \in Seq(Msg) /\ c.left \in SUBSET Nat /\ WellMade(c.msgs, made)
        /\ Formed(c.msgs) /\ Gapless(c.msgs, omitted \union c.left)
    BY ONLY <1>0, <2>3, c \in Compactions(s), CompactionProperties
  <2>5. omitted' \in SUBSET Nat /\ Sound(c.msgs, made, omitted')
    BY <1>0, <2>2, <2>4 DEF Sound
  <2>6. PICK t : t = patchDanglingToolCalls(Append(c.msgs, Message("user", made + 1)), made + 1)
    OBVIOUS
  <2>7. Grows(t, made, omitted') /\ Ready(t)
    BY <1>0, <2>5, <2>6, RunGrows
  <2> QED
    BY <2>1, <2>2, <2>5, <2>6, <2>7, SaveKeeps
<1>2. CASE Continue
  <2>1. running' /\ omitted' = omitted /\ log # <<>> /\ Save(patchDanglingToolCalls(log, made))
    BY <1>2 DEF Continue
  <2>2. log[Len(log)].role # "system"
    BY <1>2 DEF Continue, Last
  <2>3. PICK t : t = patchDanglingToolCalls(log, made)
    OBVIOUS
  <2>4. Grows(t, made, omitted) /\ Ready(t)
    BY <1>0, <2>1, <2>2, <2>3, ContinueGrows
  <2> QED
    BY <1>0, <2>1, <2>3, <2>4, SaveKeeps
<1>3. CASE Regenerate
  <2>1. PICK U : U = {i \in DOMAIN log : log[i].role = "user"}
    OBVIOUS
  <2>2. PICK t : t = SubSeq(log, 1, SafeTruncate(log, (CHOOSE i \in U : \A j \in U : j <= i) - 1))
    OBVIOUS
  <2>3. U # {} /\ Save(t) /\ ~running' /\ omitted' = omitted
    BY <1>3, <2>1, <2>2 DEF Regenerate
  <2>4. Grows(t, made, omitted)
    BY <1>0, <2>1, <2>2, <2>3, CutGrows
  <2>5. running' \in BOOLEAN
    BY <1>3 DEF Regenerate, ConvIInv
  <2> QED
    BY <1>0, <2>3, <2>4, <2>5, SaveKeeps
<1>4. CASE ToolTurn
  <2>1. PICK n \in 0 .. 2, size \in {"short", "long", "huge"} :
           /\ Save(log \o <<[Message("assistant", made + 1) EXCEPT
                                !.calls = {<<made + 1, 1>>, <<made + 1, 2>>}]>>
                       \o [k \in 1 .. n |->
                             [Message("tool", made + 1 + k) EXCEPT
                                !.answers = <<made + 1, k>>, !.size = IF k = 1 THEN size ELSE "short"]])
           /\ running' = (n = 2)
    BY <1>4 DEF ToolTurn
  <2>2. running /\ omitted' = omitted
    BY <1>4 DEF ToolTurn
  <2>3. PICK m \in Nat : m = made
    BY <1>0
  <2>4. PICK calls \in SUBSET ({m + 1} \X {1, 2}) : calls = {<<m + 1, 1>>, <<m + 1, 2>>}
    <3>1. \A j \in {1, 2} : <<m + 1, j>> \in {m + 1} \X {1, 2}
      OBVIOUS
    <3>2. {<<m + 1, 1>>, <<m + 1, 2>>} \in SUBSET ({m + 1} \X {1, 2})
      BY <3>1
    <3> QED
      BY ONLY <3>2
  <2>5. PICK a : a = [Message("assistant", m + 1) EXCEPT !.calls = calls]
    OBVIOUS
  <2>6. a \in Msg
    <3>1. m + 1 \in Nat /\ calls \in SUBSET (Nat \X {1, 2})
      OBVIOUS
    <3>2. a = [role |-> "assistant", id |-> m + 1, calls |-> calls, answers |-> <<>>,
               size |-> "short", record |-> FALSE, covers |-> {}]
      BY <2>5 DEF Message
    <3> QED
      BY ONLY <3>1, <3>2 DEF Msg
  <2>7. PICK r : r = [k \in 1 .. n |->
                        [Message("tool", m + 1 + k) EXCEPT
                           !.answers = <<m + 1, k>>, !.size = IF k = 1 THEN size ELSE "short"]]
    OBVIOUS
  <2>8. \A k \in 1 .. n : /\ r[k] \in Msg /\ r[k].role = "tool" /\ r[k].calls = {}
                          /\ r[k].id = m + 1 + k /\ ~r[k].record /\ r[k].covers = {}
                          /\ r[k].answers = <<m + 1, k>>
    <3> TAKE k \in 1 .. n
    <3>1. PICK z : z = (IF k = 1 THEN size ELSE "short")
      OBVIOUS
    <3>2. z \in {"short", "long", "huge"}
      BY <3>1
    <3>3. PICK e : e = [Message("tool", m + 1 + k) EXCEPT !.answers = <<m + 1, k>>, !.size = z]
      OBVIOUS
    <3>4. e = [role |-> "tool", id |-> m + 1 + k, calls |-> {}, answers |-> <<m + 1, k>>,
               size |-> z, record |-> FALSE, covers |-> {}]
      BY <3>3 DEF Message
    <3>5. m + 1 + k \in Nat /\ <<m + 1, k>> \in Nat \X {1, 2}
      <4>1. m + 1 + k \in Nat /\ m + 1 \in Nat /\ k \in {1, 2}
        OBVIOUS
      <4> QED
        BY <4>1
    <3>6. e \in Msg
      BY ONLY <3>2, <3>4, <3>5 DEF Msg
    <3>7. r[k] = e
      BY <2>7, <3>1, <3>3
    <3> QED
      BY <3>4, <3>6, <3>7
  <2>9. n \in Nat
    OBVIOUS
  <2>10. r \in Seq(Msg) /\ Len(r) = n
    <3>1. r \in [1 .. n -> Msg]
      BY <2>7, <2>8
    <3> QED
      BY ONLY <2>9, <3>1
  <2>11. <<a>> \in Seq(Msg) /\ Len(<<a>>) = 1 /\ <<a>>[1] = a
    BY ONLY <2>6
  <2>12. PICK w \in Seq(Msg) : w = <<a>> \o r
    BY <2>10, <2>11, ConcatProperties
  <2>13. PICK t : t = log \o w
    OBVIOUS
  <2>14. Extends(<<a>>, r, w)
    BY <2>10, <2>11, <2>12, ConcatExtends
  <2>15. Len(w) = n + 1 /\ w[1] = a /\ \A k \in 1 .. n : w[1 + k] = r[k]
    <3>1. 1 + n = n + 1 /\ 1 \in 1 .. 1
      OBVIOUS
    <3> QED
      BY <2>10, <2>11, <2>14, <3>1 DEF Extends
  <2>16. Save(t)
    <3>1. (log \o <<a>>) \o r = log \o (<<a>> \o r)
      BY <1>0, <2>10, <2>11, ConcatAssociative DEF Sound
    <3> QED
      BY <2>1, <2>3, <2>4, <2>5, <2>7, <2>12, <2>13, <3>1
  <2>17. \A k \in 2 .. n + 1 : /\ w[k].role = "tool" /\ w[k].calls = {} /\ w[k].id = m + k
                               /\ ~w[k].record /\ w[k].covers = {}
                               /\ w[k].answers = <<m + 1, k - 1>> /\ w[k].answers \in calls
    <3> TAKE k \in 2 .. n + 1
    <3>1. k - 1 \in 1 .. n /\ 1 + (k - 1) = k /\ m + 1 + (k - 1) = m + k /\ k - 1 \in {1, 2}
      OBVIOUS
    <3>2. w[k] = r[k - 1]
      BY <2>15, <3>1
    <3>3. <<m + 1, k - 1>> \in calls
      BY <2>4, <3>1
    <3> QED
      BY ONLY <2>8, <3>1, <3>2, <3>3
  <2>18. Grows(t, m, omitted) /\ (n = 2 => Ready(t))
    <3>1. PICK s, left : s = log /\ left = omitted
      OBVIOUS
    <3>2. Sound(s, m, left) /\ Ready(s)
      BY <1>0, <2>2, <2>3, <3>1
    <3>3. t = s \o w
      BY <2>13, <3>1
    <3>4. AskedTurn(w, m, n, calls)
      BY <2>5, <2>15, <2>17 DEF AskedTurn
    <3>5. Grows(t, m, left) /\ (calls = {} \/ n = 2 => Ready(t))
      BY ONLY <3>2, <3>3, <3>4, m \in Nat, n \in 0 .. 2,
         calls \in SUBSET ({m + 1} \X {1, 2}), TurnGrows
    <3> QED
      BY <3>1, <3>5
  <2>19. running' \in BOOLEAN /\ (running' => Ready(t))
    BY <2>1, <2>18
  <2> QED
    BY <1>0, <2>2, <2>3, <2>16, <2>18, <2>19, SaveKeeps
<1>5. CASE Answer
  <2>1. running /\ ~running' /\ omitted' = omitted /\ Save(Append(log, Message("assistant", made + 1)))
    BY <1>5 DEF Answer
  <2>2. PICK m \in Nat : m = made
    BY <1>0
  <2>3. PICK calls \in SUBSET ({m + 1} \X {1, 2}) : calls = {}
    OBVIOUS
  <2>4. PICK a : a = Message("assistant", m + 1)
    OBVIOUS
  <2>5. a = [Message("assistant", m + 1) EXCEPT !.calls = calls] /\ a \in Msg
    <3>1. m + 1 \in Nat
      OBVIOUS
    <3>2. a \in Msg
      BY <2>4, <3>1, MessageIsMsg
    <3>3. PICK b : b = [Message("assistant", m + 1) EXCEPT !.calls = calls]
      OBVIOUS
    <3>4. b = [role |-> "assistant", id |-> m + 1, calls |-> {}, answers |-> <<>>,
               size |-> "short", record |-> FALSE, covers |-> {}]
      BY ONLY <2>3, <3>3 DEF Message
    <3>5. a = b
      BY ONLY <2>4, <3>4 DEF Message
    <3> QED
      BY <3>2, <3>3, <3>5
  <2>6. PICK w \in Seq(Msg) : w = <<a>> /\ Len(w) = 0 + 1 /\ w[1] = a
    <3>1. <<a>> \in Seq(Msg) /\ Len(<<a>>) = 0 + 1 /\ <<a>>[1] = a
      BY ONLY <2>5
    <3> QED
      BY <3>1
  <2>7. PICK t : t = log \o w
    OBVIOUS
  <2>8. Save(t)
    <3>1. Append(log, a) = log \o w
      BY <1>0, <2>5, <2>6, AppendIsConcat DEF Sound
    <3> QED
      BY <2>1, <2>2, <2>4, <2>7, <3>1
  <2>9. 0 \in 0 .. 2 /\ 2 .. 0 + 1 = {}
    OBVIOUS
  <2>10. Grows(t, m, omitted)
    <3>1. PICK s, left : s = log /\ left = omitted
      OBVIOUS
    <3>2. Sound(s, m, left) /\ Ready(s) /\ t = s \o w
      BY <1>0, <2>1, <2>2, <2>7, <3>1
    <3>3. AskedTurn(w, m, 0, calls)
      BY <2>5, <2>6, <2>9 DEF AskedTurn
    <3>4. Grows(t, m, left)
      BY ONLY <2>9, <3>2, <3>3, m \in Nat, calls \in SUBSET ({m + 1} \X {1, 2}), TurnGrows
    <3> QED
      BY <3>1, <3>4
  <2>11. running' \in BOOLEAN
    BY <1>5 DEF Answer
  <2> QED
    BY <1>0, <2>1, <2>2, <2>8, <2>10, <2>11, SaveKeeps
<1>6. CASE Stop
  BY <1>6 DEF Stop, ConvIInv
<1>7. CASE UNCHANGED convVars
  BY <1>7 DEF convVars, ConvIInv
<1> QED
  BY <1>1, <1>2, <1>3, <1>4, <1>5, <1>6, <1>7 DEF ConvNext

\* Whatever the interruptions, compactions and cuts, the stored history is one a
\* request can be made from.
THEOREM ConversationInvariant ==
    ConvSpec => []ConvIInv
BY ConvInitInvariant, ConvNextInvariant, PTL DEF ConvSpec

\* For every window, budget and number of messages, the request of a run is
\* balanced and keeps the message being answered, and its trace points at the
\* stored messages it shortens (deriveRequestMessages).
THEOREM RequestStandsForHistoryHolds ==
    ConvSpec => []RequestStandsForHistory
<1>1. ConvIInv => RequestStandsForHistory
  <2> SUFFICES ASSUME ConvIInv PROVE RequestStandsForHistory
    OBVIOUS
  <2>1. log \in Seq(Msg) /\ made \in Nat /\ WellMade(log, made) /\ Formed(log)
    BY DEF ConvIInv
  <2>2. ASSUME running PROVE log # <<>> /\ Closed(log) /\ log[Len(log)].role # "system"
    BY <2>2 DEF ConvIInv
  <2>3. RequestBalanced
    BY <2>1, <2>2, RequestIsBalanced DEF RequestBalanced
  <2>4. RefsPointAtStored
    BY <2>1, RefsAreStored DEF RefsPointAtStored
  <2> QED
    BY <2>3, <2>4 DEF RequestStandsForHistory
<1> QED
  BY <1>1, ConversationInvariant, PTL

\* However often a history is compacted and cut, a summary tells of all that is
\* before its record, apart from what the bounded input left out, and of nothing
\* after it (compactHistory).
THEOREM SummaryIsGaplessHolds ==
    ConvSpec => []SummaryIsGapless
<1>1. ConvIInv => SummaryIsGapless
  <2> SUFFICES ASSUME ConvIInv PROVE SummaryIsGapless
    OBVIOUS
  <2>0. PICK s \in Seq(Msg), n \in Nat : s = log /\ n = Len(s) /\ DOMAIN s = 1 .. n
    BY LenProperties DEF ConvIInv
  <2>1. Gapless(s, omitted)
    BY <2>0 DEF ConvIInv
  <2> SUFFICES ASSUME NEW p \in 1 .. n, s[p].record
               PROVE  /\ Ids(SubSeq(s, 1, p)) \subseteq s[p].covers \union omitted
                      /\ s[p].covers \intersect Ids(SubSeq(s, p, n)) = {}
    BY <2>0 DEF SummaryIsGapless
  <2>2. PICK a : a = SubSeq(s, 1, p)
    OBVIOUS
  <2>3. PICK b : b = SubSeq(s, p, n)
    OBVIOUS
  <2>4. a \in Seq(Msg) /\ Len(a) = p /\ \A k \in 1 .. p : a[k] = s[k]
    <3>1. 1 \in 1 .. Len(s) + 1 /\ p \in 1 - 1 .. Len(s) /\ p - 1 + 1 = p /\ \A k \in 1 .. p : 1 + k - 1 = k
      BY <2>0
    <3>2. a \in Seq(Msg) /\ Len(a) = p - 1 + 1 /\ \A k \in 1 .. p - 1 + 1 : a[k] = s[1 + k - 1]
      BY ONLY <2>2, <3>1, s \in Seq(Msg), Stretch
    <3> QED
      BY ONLY <3>1, <3>2
  <2>5. b \in Seq(Msg) /\ Len(b) = n - p + 1 /\ \A k \in 1 .. n - p + 1 : b[k] = s[p + k - 1]
    <3>1. p \in 1 .. Len(s) + 1 /\ n \in p - 1 .. Len(s)
      BY <2>0
    <3> QED
      BY ONLY <2>3, <3>1, s \in Seq(Msg), Stretch
  <2>6. ASSUME NEW x, x \in Ids(a) PROVE x \in s[p].covers \union omitted
    <3>1. PICK k \in 1 .. p : a[k].role # "system" /\ a[k].id = x
      BY <2>4, <2>6, IdsProperties
    <3> QED
      BY <2>0, <2>1, <2>4, <3>1 DEF Gapless
  <2>7. ASSUME NEW x, x \in Ids(b) PROVE x \notin s[p].covers
    <3>1. PICK k \in 1 .. n - p + 1 : b[k].role # "system" /\ b[k].id = x
      BY <2>5, <2>7, IdsProperties
    <3>2. PICK i \in p .. n : i = p + k - 1
      OBVIOUS
    <3> QED
      BY <2>0, <2>1, <2>5, <3>1, <3>2 DEF Gapless
  <2>8. PICK A, B : A = Ids(a) /\ B = Ids(b)
    OBVIOUS
  <2>9. (\A x : x \in A => x \in s[p].covers \union omitted) /\ (\A x : x \in B => x \notin s[p].covers)
    BY ONLY <2>6, <2>7, <2>8
  <2> QED
    BY ONLY <2>2, <2>3, <2>8, <2>9
<1> QED
  BY <1>1, ConversationInvariant, PTL
=============================================================================
