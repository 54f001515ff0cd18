------------------------------ MODULE MemSessions -----------------------------
(***************************************************************************)
(* InMemSessionManager (history/inmem_session_manager.go) and the          *)
(* background summarizer it starts (history/background_summarizer.go):     *)
(* maps under one lock, so a call is a step; a summary is written by a     *)
(* goroutine that works outside the lock for as long as its model takes.   *)
(*                                                                         *)
(* A message is a number, a profile the set of messages it was made from.  *)
(* Task maps, titles and times are left out: any session can have been     *)
(* unused for TTL.                                                         *)
(***************************************************************************)
EXTENDS Naturals, Sequences, FiniteSets

CONSTANTS
    MemKeys,   \* session keys
    Trigger,   \* backgroundSumTriggerThreshold
    Gap,       \* backgroundSumNewMsgThreshold
    MaxSaid    \* bound on the messages made

ASSUME MemAssumption == {Trigger, Gap, MaxSaid} \subseteq Nat /\ Gap > 0

VARIABLES
    sessions,   \* key -> messages, for the keys there are
    behaviors,  \* key -> profile
    lastSumLen,
    deletedAt,  \* tombstones
    flying,     \* summaries being made
    said,       \* messages made so far
    spoilt      \* keys whose profile can miss messages, and why

memVars == <<sessions, behaviors, lastSumLen, deletedAt, flying, said, spoilt>>
summaries == <<behaviors, lastSumLen, flying, spoilt>>

MemInit ==
    /\ sessions = <<>> /\ deletedAt = {}
    /\ behaviors = [k \in MemKeys |-> {}] /\ lastSumLen = [k \in MemKeys |-> 0]
    /\ flying = {} /\ said = 0 /\ spoilt = [k \in MemKeys |-> {}]

Known == DOMAIN sessions
With(k, s) == [j \in Known \union {k} |-> IF j = k THEN s ELSE sessions[j]]
Remaining(ks) == [j \in Known \ ks |-> sessions[j]]
Spoil(k, why) == spoilt' = [spoilt EXCEPT ![k] = @ \union {why}]

-----------------------------------------------------------------------------
(* Messages and profiles                                                   *)

Messages(k) == IF k \in Known THEN sessions[k] ELSE <<>>
SetOf(s) == {s[i] : i \in DOMAIN s}

Since(k, s) == SubSeq(s, lastSumLen[k] + 1, Len(s))

shouldSummarize(k, s) == Len(s) >= Trigger /\ Len(s) >= lastSumLen[k] + Gap

\* lastSumLen counts messages that a shorter log no longer has.
Rewrites(k, s) == Len(s) < lastSumLen[k]

(* A run appends, Regenerate cuts. *)
SaveHistory(k) ==
    /\ \E s \in {Messages(k) \o [i \in 1 .. n |-> said + i] : n \in 0 .. 2}
               \union {SubSeq(Messages(k), 1, n) : n \in 0 .. Len(Messages(k))} :
         /\ said' = said + Cardinality({i \in SetOf(s) : i > said}) /\ said' <= MaxSaid
         /\ sessions' = With(k, s)
         /\ IF shouldSummarize(k, s)
            THEN /\ lastSumLen' = [lastSumLen EXCEPT ![k] = Len(s)]
                 /\ flying' = flying \union
                        {[key |-> k, new |-> SetOf(Since(k, s)), previous |-> behaviors[k]]}
                 /\ IF \E f \in flying : f.key = k THEN Spoil(k, "overlap")
                    ELSE spoilt' = spoilt
            ELSE /\ UNCHANGED <<lastSumLen, flying>>
                 /\ IF Rewrites(k, s) THEN Spoil(k, "cut") ELSE spoilt' = spoilt
    /\ UNCHANGED <<deletedAt, behaviors>>

(* What a SummaryProvider promises: it merges into the previous profile. *)
Merged(f) == f.previous \union f.new

(* BackgroundBehaviorSummarizer, UpdateBehaviorSummary *)
Summarized(f) ==
    /\ flying' = flying \ {f}
    /\ \/ behaviors' = [behaviors EXCEPT ![f.key] = Merged(f)] /\ UNCHANGED spoilt
       \/ Spoil(f.key, "failed") /\ UNCHANGED behaviors
    /\ UNCHANGED <<sessions, deletedAt, lastSumLen, said>>

-----------------------------------------------------------------------------
(* The other calls                                                         *)

\* Mutant of ForkedSum: the fork counts as summarized as far as its source.
ForkedWithCount(k) == lastSumLen[k]
\* The profile is copied, how far it goes is not.
ForkedSum(k) == 0

Fork(k, new) ==
    /\ k \in Known /\ new \notin Known /\ behaviors[new] = {}
    /\ \A f \in flying : f.key # new
    /\ \E n \in 0 .. Len(sessions[k]) : sessions' = With(new, SubSeq(sessions[k], 1, n))
    /\ behaviors' = [behaviors EXCEPT ![new] = behaviors[k]]
    /\ lastSumLen' = [lastSumLen EXCEPT ![new] = ForkedSum(k)]
    /\ UNCHANGED <<deletedAt, flying, said, spoilt>>

\* Mutant of Forget: the profiles are kept.
ForgetMessages(ks) ==
    /\ sessions' = Remaining(ks) /\ UNCHANGED behaviors
    /\ lastSumLen' = [k \in MemKeys |-> IF k \in ks THEN 0 ELSE lastSumLen[k]]
    /\ spoilt' = [k \in MemKeys |-> IF k \in ks THEN {} ELSE spoilt[k]]

\* What is left of sessions and profiles; a summary of theirs may be under way.
Forget(ks) ==
    /\ sessions' = Remaining(ks)
    /\ behaviors' = [k \in MemKeys |-> IF k \in ks THEN {} ELSE behaviors[k]]
    /\ lastSumLen' = [k \in MemKeys |-> IF k \in ks THEN 0 ELSE lastSumLen[k]]
    /\ spoilt' = [k \in MemKeys |-> IF k \notin ks THEN spoilt[k]
                                    ELSE IF \E f \in flying : f.key = k THEN {"late"} ELSE {}]

purgeKeyLocked(ks) == Forget(ks) /\ deletedAt' = deletedAt \ ks

Delete(k) == purgeKeyLocked({k}) /\ UNCHANGED <<flying, said>>

SoftDelete(k) ==
    /\ k \in Known /\ deletedAt' = deletedAt \union {k}
    /\ UNCHANGED <<sessions, summaries, said>>

Restore(k) ==
    /\ deletedAt' = deletedAt \ {k}
    /\ UNCHANGED <<sessions, summaries, said>>

\* Every tombstone is older than the given time, or only some of them are.
PurgeDeletedBefore ==
    /\ \E ks \in SUBSET deletedAt : ks # {} /\ purgeKeyLocked(ks)
    /\ UNCHANGED <<flying, said>>

\* Any of the sessions may have gone unused for TTL; tombstones stay.
evictExpired ==
    /\ \E ks \in SUBSET Known : ks # {} /\ Forget(ks)
    /\ UNCHANGED <<deletedAt, flying, said>>

MemNext ==
    \/ PurgeDeletedBefore \/ evictExpired
    \/ \E f \in flying : Summarized(f)
    \/ \E k \in MemKeys :
          \/ SaveHistory(k) \/ Delete(k) \/ SoftDelete(k) \/ Restore(k)
          \/ \E new \in MemKeys : Fork(k, new)

MemSpec == MemInit /\ [][MemNext]_memVars

-----------------------------------------------------------------------------
(* Properties *)

(* The profile of a session was made from every message up to lastSumLen,  *)
(* once no summary is being made.  The only ways a message can miss it for *)
(* good: its summary failed, another was under way when it was begun, or   *)
(* the log was cut below lastSumLen and has grown again (SaveHistory stamps *)
(* lastSumLen before the summary exists).                                  *)
ProfileIsComplete ==
    \A k \in Known :
        spoilt[k] = {} /\ (\A f \in flying : f.key # k) =>
            {sessions[k][i] : i \in (1 .. lastSumLen[k]) \intersect DOMAIN sessions[k]}
                \subseteq behaviors[k]

(* A profile never tells of a session that is gone, except through a       *)
(* summary that was under way when it went: what a later session of the    *)
(* same key is told about its user is from its own messages or those it    *)
(* was forked with (Delete, evictExpired, UpdateBehaviorSummary).          *)
NoProfileWithoutSession ==
    \A k \in MemKeys : k \notin Known /\ "late" \notin spoilt[k] => behaviors[k] = {}

(* Profiles and sessions agree (SaveHistory, UpdateBehaviorSummary).       *)
ProfilesMatchSessions == ProfileIsComplete /\ NoProfileWithoutSession
=============================================================================
