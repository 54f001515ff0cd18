----------------------------- MODULE LoopDetector -----------------------------
(***************************************************************************)
(* The anti-loop supervisor (pkg/agent/anti_loop.go) and its callers: the  *)
(* tool goroutines of one wave call AddCall and then Detect, two critical  *)
(* sections of the same mutex, and a new run rebuilds the detector from    *)
(* the persisted history (loopDetectorFromHistory).                        *)
(*                                                                         *)
(* A turn is one wave of at most one call per worker.  Arguments, results  *)
(* and their hashes are values that can only be compared.  A persisted     *)
(* result is the raw result, the count of the warning appended to it (0:   *)
(* none), and the number of calls of its assistant message.  The three     *)
(* constants of the Go code are parameters.                                *)
(***************************************************************************)
EXTENDS Integers, Sequences, FiniteSets

CONSTANTS
    Tools, Args, Results,
    Workers,     \* the number of calls in a turn is at most this
    MaxRecent,   \* maxRecentCalls
    WarnAt,      \* loopWarnThreshold
    KillAt,      \* loopKillThreshold
    MaxLogged,    \* bound on the calls persisted, over all runs
    None,        \* the zero callEntry
    NotRun,      \* the content that seals a call after a kill
    Refused      \* the content of a call answered without running its tool

ASSUME DetectorAssumption ==
    /\ MaxRecent \in Nat \ {0} /\ WarnAt \in Nat /\ KillAt \in Nat /\ MaxLogged \in Nat
    /\ Workers \in Nat
    /\ WarnAt <= KillAt /\ KillAt <= MaxRecent
    /\ {None, NotRun, Refused} \cap Results = {}
    /\ None \notin {NotRun, Refused}

VARIABLES
    ring, head, count,  \* the loopDetector
    log,                \* every entry given to AddCall since it was created
    hist,               \* the persisted (tool call, tool result) pairs
    turn,               \* the calls of the turn under way, one per worker
    pc,                 \* where each worker of the turn stands
    msg,                \* the tool message each worker recorded
    fatal               \* waveState.fatalErr is set; it ends the run

detector == <<ring, head, count, log>>
loopVars == <<ring, head, count, log, hist, turn, pc, msg, fatal>>

LoggedCall == [tool : Tools, args : Args]
Content == Results \cup {NotRun, Refused}
Entry == [tool : Tools, args : Args, result : Content]
Pair == [tool : Tools, args : Args, result : Content, warn : 0..MaxRecent, of : 1..Workers]
NoMsg == [result |-> None, warn |-> 0]
Msg == [result : Content, warn : 0..MaxRecent] \cup {NoMsg}

LoopInit ==
    /\ ring = [i \in 0..(MaxRecent - 1) |-> None]
    /\ head = 0 /\ count = 0 /\ log = <<>>
    /\ hist = <<>> /\ turn = <<>> /\ pc = <<>> /\ msg = <<>>
    /\ fatal = FALSE

-----------------------------------------------------------------------------
(* Mutant of Index: the "-1" that steps back from the next write dropped. *)
IndexFromHead(k) == (head - k + MaxRecent) % MaxRecent

Index(k) == (head - 1 - k + MaxRecent) % MaxRecent

(* The entry k positions before the most recent write. *)
At(k) == ring[Index(k)]

(* Mutant of NextHead: the cursor runs off the end. *)
NextHeadPastEnd == head + 1

NextHead == (head + 1) % MaxRecent

AddCall(e) ==
    /\ ring' = [ring EXCEPT ![head] = e]
    /\ head' = NextHead
    /\ count' = IF count < MaxRecent THEN count + 1 ELSE count
    /\ log' = Append(log, e)

(***************************************************************************)
(* Detect walks back over the trailing run of calls to the last tool.  It  *)
(* counts the calls with the last call's arguments, and apart from those   *)
(* the calls with its result.                                              *)
(***************************************************************************)
Trailing == {k \in 0..(count - 1) : \A j \in 0..k : At(j).tool = At(0).tool}

SameArgs == Cardinality({k \in Trailing : At(k).args = At(0).args})

SameResult ==
    Cardinality({k \in Trailing : At(k).args # At(0).args /\ At(k).result = At(0).result})

(* Mutant of Kills: ">" where the code says ">=". *)
KillsLate == count >= WarnAt /\ (SameArgs > KillAt \/ SameResult > KillAt)

Kills ==
    /\ count >= WarnAt
    /\ \/ SameArgs >= KillAt
       \/ SameArgs < WarnAt /\ SameResult >= KillAt

(* The count the warning quotes, 0 when Detect is silent. *)
Warning ==
    IF count < WarnAt THEN 0
    ELSE IF SameArgs >= WarnAt THEN SameArgs
    ELSE IF SameResult >= WarnAt THEN SameResult ELSE 0

-----------------------------------------------------------------------------
(* The model asks for a batch of calls; every goroutine is spawned. *)
StartTurn ==
    /\ turn = <<>> /\ ~fatal
    /\ \E n \in 1..Workers : \E batch \in [1..n -> LoggedCall] :
          /\ Len(hist) + n <= MaxLogged
          /\ turn' = batch
          /\ pc' = [w \in 1..n |-> "start"]
          /\ msg' = [w \in 1..n |-> NoMsg]
    /\ UNCHANGED <<ring, head, count, log, hist, fatal>>

(* A goroutine that finds the wave aborted returns without an answer. *)
SeesFatal(w) ==
    /\ pc[w] = "start" /\ fatal
    /\ pc' = [pc EXCEPT ![w] = "done"]
    /\ UNCHANGED <<ring, head, count, log, hist, turn, msg, fatal>>

Begin(w) ==
    /\ pc[w] = "start" /\ ~fatal
    /\ pc' = [pc EXCEPT ![w] = "run"]
    /\ UNCHANGED <<ring, head, count, log, hist, turn, msg, fatal>>

(* A denied, unknown or cached call is answered and never reaches AddCall. *)
AnswerWithoutRunning(w) ==
    /\ pc[w] = "run"
    /\ msg' = [msg EXCEPT ![w] = [result |-> Refused, warn |-> 0]]
    /\ pc' = [pc EXCEPT ![w] = "done"]
    /\ UNCHANGED <<ring, head, count, log, hist, turn, fatal>>

ExecuteAndAdd(w) ==
    /\ pc[w] = "run"
    /\ \E r \in Results :
          /\ AddCall([tool |-> turn[w].tool, args |-> turn[w].args, result |-> r])
          /\ msg' = [msg EXCEPT ![w] = [result |-> r, warn |-> 0]]
    /\ pc' = [pc EXCEPT ![w] = "added"]
    /\ UNCHANGED <<hist, turn, fatal>>

(***************************************************************************)
(* Detect, then either the answer with its warning is recorded, or the     *)
(* wave is aborted and this call's result is dropped.                      *)
(***************************************************************************)
Detect(w) ==
    /\ pc[w] = "added"
    /\ fatal' = (fatal \/ Kills)
    /\ msg' = [msg EXCEPT ![w] = IF Kills THEN NoMsg ELSE [@ EXCEPT !.warn = Warning]]
    /\ pc' = [pc EXCEPT ![w] = "done"]
    /\ UNCHANGED <<ring, head, count, log, hist, turn>>

TurnOver == turn # <<>> /\ \A w \in DOMAIN pc : pc[w] = "done"

(* The turn is persisted in call order; unanswered calls are sealed. *)
EndTurn ==
    /\ TurnOver
    /\ hist' = hist \o [w \in DOMAIN turn |->
                  [tool |-> turn[w].tool, args |-> turn[w].args,
                   result |-> IF msg[w] = NoMsg THEN NotRun ELSE msg[w].result,
                   warn |-> msg[w].warn, of |-> Len(turn)]]
    /\ turn' = <<>> /\ pc' = <<>> /\ msg' = <<>>
    /\ UNCHANGED <<ring, head, count, log, fatal>>

(* Mutant of SeedEntry: the persisted content is hashed with its warning. *)
SeedUnstripped(p) ==
    [tool |-> p.tool, args |-> p.args,
     result |-> IF p.warn = 0 THEN p.result ELSE <<p.result, p.warn>>]

(* stripLoopWarning removes the warning before the result is hashed. *)
SeedEntry(p) == [tool |-> p.tool, args |-> p.args, result |-> p.result]

(* The latest MaxRecent pairs, in the order they were persisted. *)
Seeds ==
    LET n == IF Len(hist) < MaxRecent THEN Len(hist) ELSE MaxRecent
    IN  [i \in 1..n |-> SeedEntry(hist[Len(hist) - n + i])]

(***************************************************************************)
(* The next run of the session, in this process or after a restart, seeds  *)
(* a fresh detector: AddCall of every seed, oldest first.                  *)
(***************************************************************************)
NewRun ==
    /\ turn = <<>>
    /\ ring' = [i \in 0..(MaxRecent - 1) |-> IF i < Len(Seeds) THEN Seeds[i + 1] ELSE None]
    /\ head' = Len(Seeds) % MaxRecent
    /\ count' = Len(Seeds)
    /\ log' = Seeds
    /\ fatal' = FALSE
    /\ UNCHANGED <<hist, turn, pc, msg>>

LoopNext ==
    \/ StartTurn \/ EndTurn \/ NewRun
    \/ \E w \in DOMAIN turn :
          SeesFatal(w) \/ Begin(w) \/ AnswerWithoutRunning(w) \/ ExecuteAndAdd(w) \/ Detect(w)

LoopSpec == LoopInit /\ [][LoopNext]_loopVars

-----------------------------------------------------------------------------
LoopTypeOK ==
    /\ ring \in [0..(MaxRecent - 1) -> Entry \cup {None}]
    /\ head \in 0..(MaxRecent - 1) /\ count \in 0..MaxRecent
    /\ log \in Seq(Entry)
    /\ hist \in Seq(Pair)
    /\ turn \in Seq(LoggedCall) /\ Len(turn) <= Workers
    /\ DOMAIN pc = DOMAIN turn /\ DOMAIN msg = DOMAIN turn
    /\ \A w \in DOMAIN turn : pc[w] \in {"start", "run", "added", "done"} /\ msg[w] \in Msg
    /\ fatal \in BOOLEAN

(***************************************************************************)
(* The ring is the end of the log: at(k) is the k-th latest AddCall, for   *)
(* as many calls as the ring holds, through every wrap-around and rebuild. *)
(***************************************************************************)
RingIsRecentLog ==
    /\ count = IF Len(log) < MaxRecent THEN Len(log) ELSE MaxRecent
    /\ \A k \in 0..(count - 1) : At(k) = log[Len(log) - k]

SameCall(a, b) == a.tool = b.tool /\ a.args = b.args

(* The log ends in n calls that are one and the same. *)
EndsRepeating(n) ==
    Len(log) >= n /\ \A j \in (Len(log) - n + 1)..Len(log) : SameCall(log[j], log[Len(log)])

(***************************************************************************)
(* loopKillThreshold identical calls in a row end the run.  The calls of a *)
(* wave interleave their AddCall and Detect, so one Detect may miss them;  *)
(* yet a wave after which the log ends in that many identical calls, the   *)
(* last of them just executed, is aborted in whatever order they ran.      *)
(***************************************************************************)
FinalRepeatsAreKilled ==
    TurnOver /\ ~fatal /\ (\E w \in DOMAIN turn : msg[w].result \in Results)
        => ~EndsRepeating(KillAt)

(***************************************************************************)
(* A rebuilt detector knows what the live one knew: when every persisted   *)
(* call of the session was run and answered, one per turn, the entries the *)
(* ring holds are the same before and after the restart, warnings          *)
(* notwithstanding.                                                        *)
(***************************************************************************)
SeedMatchesLive ==
    [][NewRun /\ (\A i \in DOMAIN hist : hist[i].result \in Results /\ hist[i].of = 1)
          => \A k \in 0..(count - 1) : At(k)' = At(k)]_loopVars

=============================================================================
