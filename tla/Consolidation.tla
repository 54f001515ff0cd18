----------------------------- MODULE Consolidation ----------------------------
(***************************************************************************)
(* Long-term memory (agent/memory.go, memory/inmem.go, loop_stream.go):    *)
(* after a run the loop may start a goroutine that reads the transcript    *)
(* and the notes of the scope, has a model merge them and replaces the     *)
(* notes.  Runs go on meanwhile, the host writes notes of its own, and     *)
(* Shutdown waits for the goroutines.                                      *)
(*                                                                         *)
(* One session per scope.  A note is its key; the n-th run of a session    *)
(* teaches the note n, and the host's notes come after those.  A scope is  *)
(* the sequence of its notes, the one to evict first first.                *)
(***************************************************************************)
EXTENDS Naturals, Sequences, FiniteSets, SequencesExt, Ordered

CONSTANTS
    Scopes,
    NTurns,        \* FirePolicy.NTurns; MinInterval is never zero
    MinRuns,       \* runs it takes for MinTranscriptMessages
    MaxNotes,      \* Consolidator.MaxNotes
    MaxLoaded,     \* notes that fit in the prompt
    MaxPerScope,   \* InMemStore.maxPerScope, 0 for no cap
    MaxEnded,      \* bound on the runs of a session
    MaxPuts        \* bound on the notes the host writes

ASSUME MemoryAssumption ==
    {NTurns, MinRuns, MaxNotes, MaxLoaded, MaxPerScope, MaxEnded, MaxPuts} \subseteq Nat

VARIABLES
    notes,    \* the store
    block,    \* the notes the run of the session under way was given
    ended,    \* runs of the session that have ended
    fire,     \* fireState of each scope
    jobs,     \* the goroutines; one is known by its scope and its run
    bg,       \* bgWg
    puts,
    shut,     \* the Shutdown under way: the jobs it found, and its result
    taught,   \* ghost: notes written and not omitted, evicted or deleted since
    raced     \* ghost: scopes written between a job's List and its ReplaceAll

noteVars == <<notes, block, ended, fire, jobs, bg, puts, shut, taught, raced>>

SetOfNotes(s) == {s[i] : i \in DOMAIN s}
NoShutdown == [at |-> "none", jobs |-> {}]
NoRun == <<0>>   \* no note has the key 0

NotesInit ==
    /\ notes = [s \in Scopes |-> <<>>] /\ ended = [s \in Scopes |-> 0]
    /\ block = [s \in Scopes |-> NoRun]
    /\ fire = [s \in Scopes |-> [fired |-> FALSE, turns |-> 0, cooled |-> FALSE]]
    /\ jobs = {} /\ bg = 0 /\ puts = 0 /\ shut = NoShutdown
    /\ taught = [s \in Scopes |-> {}] /\ raced = {}

-----------------------------------------------------------------------------
(* InMemStore                                                              *)

\* evictOldest until the notes fit.
Fitting(s) ==
    IF MaxPerScope > 0 /\ Len(s) > MaxPerScope
    THEN SubSeq(s, Len(s) - MaxPerScope + 1, Len(s)) ELSE s

\* A key has one note.
WithoutNote(s, key) ==
    IF key \in SetOfNotes(s) THEN RemoveAt(s, CHOOSE i \in DOMAIN s : s[i] = key) ELSE s

\* An update is the newest note; a new key may evict the oldest.
PutNote(s, key) == Append(IF key \in SetOfNotes(s) \/ MaxPerScope = 0 \/ Len(s) < MaxPerScope
                          THEN WithoutNote(s, key) ELSE Tail(s), key)

\* One time stamp for all, so the lowest keys are evicted first.
Replacement(keys) == Fitting(Ascending(keys))

Raced(s) == IF \E j \in jobs : j.scope = s /\ j.at \in {"merge", "replace"}
            THEN raced \union {s} ELSE raced

\* The host adds a note or corrects one, without a consolidation.
Put(s, key) ==
    /\ puts < MaxPuts /\ puts' = puts + 1
    /\ notes' = [notes EXCEPT ![s] = PutNote(@, key)]
    /\ taught' = [taught EXCEPT ![s] = (@ \union {key}) \intersect SetOfNotes(notes'[s])]
    /\ raced' = Raced(s)
    /\ UNCHANGED <<block, ended, fire, jobs, bg, shut>>

DeleteNote(s, key) ==
    /\ key \in SetOfNotes(notes[s])
    /\ notes' = [notes EXCEPT ![s] = WithoutNote(@, key)]
    /\ taught' = [taught EXCEPT ![s] = @ \ {key}]
    /\ raced' = Raced(s)
    /\ UNCHANGED <<block, ended, fire, jobs, bg, puts, shut>>

-----------------------------------------------------------------------------
(* The runs of a session *)

\* loadMemoryForRun: the newest notes, so many as MaxNotes and the token budget
\* let in; a failed List leaves none.
NotesLoaded(s) == LET n == IF Len(notes[s]) < MaxLoaded THEN Len(notes[s]) ELSE MaxLoaded
             IN SubSeq(notes[s], Len(notes[s]) - n + 1, Len(notes[s]))

RunBegins(s) ==
    /\ block[s] = NoRun /\ ended[s] < MaxEnded
    /\ \E given \in {NotesLoaded(s), <<>>} : block' = [block EXCEPT ![s] = given]
    /\ UNCHANGED <<notes, ended, fire, jobs, bg, puts, shut, taught, raced>>

\* FirePolicy: the first run of a scope, and then one after NTurns runs and
\* MinInterval.
shouldFire(f) == ~f.fired \/ (f.cooled /\ f.turns + 1 >= NTurns)

NewJob(s, at) == [scope |-> s, run |-> ended[s] + 1, at |-> at,
                  upTo |-> 0, seen |-> {}, keys |-> {}]
\* Mutant of Launch: the goroutine counts itself when it runs.
LaunchUncounted(s) == jobs' = jobs \union {NewJob(s, "start")} /\ bg' = bg
Launch(s) == jobs' = jobs \union {NewJob(s, "read")} /\ bg' = bg + 1

\* fireConsolidator; without a scope or a consolidator there is nothing to do.
RunEnds(s) ==
    /\ block[s] # NoRun /\ block' = [block EXCEPT ![s] = NoRun]
    /\ ended' = [ended EXCEPT ![s] = @ + 1]
    /\ \/ /\ shouldFire(fire[s]) /\ Launch(s)
          /\ fire' = [fire EXCEPT ![s] = [fired |-> TRUE, turns |-> 0, cooled |-> FALSE]]
       \/ /\ ~shouldFire(fire[s]) /\ UNCHANGED <<jobs, bg>>
          /\ fire' = [fire EXCEPT ![s].turns = IF @ < NTurns THEN @ + 1 ELSE @]
    /\ UNCHANGED <<notes, puts, shut, taught, raced>>

\* MinInterval has gone by since the last fire.
Cools(s) ==
    /\ fire[s].fired /\ ~fire[s].cooled /\ fire' = [fire EXCEPT ![s].cooled = TRUE]
    /\ UNCHANGED <<notes, block, ended, jobs, bg, puts, shut, taught, raced>>

-----------------------------------------------------------------------------
(* runConsolidator, Consolidate                                            *)

Becomes(j, k) ==
    /\ jobs' = (jobs \ {j}) \union {k}
    /\ UNCHANGED <<notes, block, ended, fire, bg, puts, shut, taught, raced>>

\* Every way out reports MemoryConsolidatedEvent and leaves the wait group.
Leaves(j) == jobs' = jobs \ {j} /\ bg' = bg - 1

\* History failed, List failed, the model failed or ReplaceAll did, or the
\* transcript is too short.
GivesUp(j) ==
    /\ Leaves(j) /\ UNCHANGED <<notes, block, ended, fire, puts, shut, taught, raced>>

\* The transcript is read now, so it may hold later runs.
ReadHistory(j) ==
    /\ j.at = "read" /\ ended[j.scope] >= MinRuns
    /\ Becomes(j, [j EXCEPT !.at = "list", !.upTo = ended[j.scope]])

ListNotes(j) ==
    /\ j.at = "list"
    /\ Becomes(j, [j EXCEPT !.at = "merge", !.seen = SetOfNotes(notes[j.scope])])

\* Mutant of Payload: the notes that are there are not shown to the model.
PayloadOfTranscript(j) == 1 .. j.upTo
\* What the model is shown: the notes that are there and what the transcript
\* teaches.
Payload(j) == j.seen \union 1 .. j.upTo

\* The model returns some of that, each key once; of a longer answer the first
\* MaxNotes are taken.
Merged(j) ==
    /\ j.at = "merge"
    /\ \E keys \in SUBSET Payload(j) :
          /\ Cardinality(keys) <= MaxNotes
          /\ Becomes(j, [j EXCEPT !.at = "replace", !.keys = keys])

\* What the model was shown and omitted is forgotten.
Replace(j) ==
    /\ j.at = "replace" /\ Leaves(j)
    /\ notes' = [notes EXCEPT ![j.scope] = Replacement(j.keys)]
    /\ LET kept == SetOfNotes(notes'[j.scope])
       IN taught' = [taught EXCEPT ![j.scope] =
                        (@ \ ((Payload(j) \ j.keys) \union (j.keys \ kept))) \union kept]
    /\ raced' = IF \E k \in jobs \ {j} : k.scope = j.scope /\ k.at \in {"merge", "replace"}
                THEN raced \union {j.scope} ELSE raced
    /\ UNCHANGED <<block, ended, fire, puts, shut>>

-----------------------------------------------------------------------------
(* Shutdown *)

Shutdown ==
    /\ shut.at = "none" /\ shut' = [at |-> "waiting", jobs |-> jobs]
    /\ UNCHANGED <<notes, block, ended, fire, jobs, bg, puts, taught, raced>>

Drained ==
    /\ shut.at = "waiting" /\ bg = 0 /\ shut' = [shut EXCEPT !.at = "drained"]
    /\ UNCHANGED <<notes, block, ended, fire, jobs, bg, puts, taught, raced>>

\* With both the wait group done and the context over, either.
ShutdownReturns ==
    /\ \/ shut.at = "drained" /\ shut' = [shut EXCEPT !.at = "nil"]
       \/ shut.at \in {"waiting", "drained"} /\ shut' = [shut EXCEPT !.at = "expired"]
    /\ UNCHANGED <<notes, block, ended, fire, jobs, bg, puts, taught, raced>>

NotesNext ==
    \/ Shutdown \/ Drained \/ ShutdownReturns
    \/ \E s \in Scopes :
          \/ RunBegins(s) \/ RunEnds(s) \/ Cools(s)
          \/ \E key \in SetOfNotes(notes[s]) : DeleteNote(s, key)
          \/ \E key \in SetOfNotes(notes[s]) \union {MaxEnded + puts + 1} : Put(s, key)
    \/ \E j \in jobs : ReadHistory(j) \/ ListNotes(j) \/ Merged(j) \/ Replace(j) \/ GivesUp(j)

NotesSpec == NotesInit /\ [][NotesNext]_noteVars

-----------------------------------------------------------------------------
(* Properties *)

(* Nothing that was written to a scope gets lost: what is not there was    *)
(* shown to the model and omitted, evicted at the cap or deleted.          *)
(* Excluded are scopes that were written to between the List and the       *)
(* ReplaceAll of a consolidation, which nothing serialises (Consolidate,   *)
(* fireConsolidator).                                                      *)
NotesAreKept == \A s \in Scopes \ raced : taught[s] \subseteq SetOfNotes(notes[s])

(* A Shutdown that returned nil waited for every consolidation that a run  *)
(* had started before it was called, although runs start others meanwhile  *)
(* (bgWg, fireConsolidator).                                               *)
ShutdownWaits ==
    shut.at = "nil" =>
        \A j \in shut.jobs : ~\E k \in jobs : k.scope = j.scope /\ k.run = j.run

(* What long-term memory promises its host: written notes are kept and     *)
(* Shutdown waits (Consolidate, fireConsolidator).                         *)
MemoryIsKept == NotesAreKept /\ ShutdownWaits
=============================================================================
