---------------------------- MODULE AgentRunProofs ----------------------------
(***************************************************************************)
(* Proofs about AgentRun for every limit, every number of runs and faults: *)
(* its persisted history implements SessionTranscript, one frame ends a    *)
(* run, is its last and durable, requests are balanced, and the cap on     *)
(* tool calls stops the run.                                               *)
(*                                                                         *)
(* The inductive invariant is TypeOK and three parts.  TranscriptInv says  *)
(* what the working copy is at each phase: it continues the persisted      *)
(* history, with an open turn at its end exactly while a tool turn is      *)
(* under way.  FrameInv says which frames were shown at each phase and     *)
(* keeps the persisted history equal to the working copy from the last     *)
(* save to the end.  CapInv bounds the count of tool calls while the loop  *)
(* goes on.                                                                *)
(* A second invariant over the first isolates the attempts: FreshInv says  *)
(* which attempt a speculation belongs to, ShownInv what the user has been *)
(* shown, and ReportInv that a degradation consumed is filed until the one *)
(* event that reports it.                                                  *)
(***************************************************************************)
EXTENDS AgentRun, TLAPS

NoOpen(s) == \A i \in DOMAIN s : s[i] # "open"

(* The phases in which the working copy is ahead of the persisted history. *)
Working == {"firstSave", "iterate", "attempt", "stream", "backoff", "saveCalls", "tools",
            "saveTurn", "lastSave"}

TranscriptInv ==
    /\ Transcript!Balanced(store)
    /\ phase \in Working => Transcript!Continues(store, msgs) /\ Transcript!Balanced(msgs)
    /\ phase \in {"firstSave", "iterate", "attempt", "stream", "backoff", "saveTurn"} => NoOpen(msgs)
    /\ phase \in {"saveCalls", "tools"} => Ends(msgs, "open")
    /\ phase = "load" /\ entry = "resume" => Ends(store, "open")

(* The frames shown before the last one. *)
Noticed(s) == \A i \in DOMAIN s : s[i] \in Notices
Ended(s) ==
    /\ s # <<>> /\ s[Len(s)] \notin Notices
    /\ \A i \in DOMAIN s : s[i] \in Notices \/ i = Len(s)

FrameInv ==
    /\ phase \in {"load", "firstSave"} => terminal = <<>>
    /\ phase \notin {"idle", "sweep"} => Noticed(terminal)
    /\ phase = "sweep" => Ended(terminal) /\ Ends(terminal, ending)
    /\ phase = "idle" => Noticed(terminal) \/ Ended(terminal)
    /\ Over => Ended(terminal)
    /\ phase = "lastSave" => ending \notin {"refused", "none"}
    /\ phase \in {"degraded", "emit", "sweep"} => ending # "none"
    /\ phase = "degraded" => ending = "done"
    /\ phase = "emit" /\ ending = "refused" => terminal = <<>>
    /\ phase = "sweep" /\ ending = "refused" => terminal = <<"refused">>
    /\ phase \in {"degraded", "emit", "sweep"} /\ ending # "refused" /\ ~lost => store = msgs

CapInv ==
    phase \in (Working \ {"lastSave"}) \cup {"load"} /\ MaxPerSession > 0
        => total < MaxPerSession

BoundInv ==
    /\ phase = "load" => calls = 0
    /\ phase = "backoff" => attempt < MaxRetries
    /\ phase \in {"attempt", "stream", "backoff"} => iteration < MaxIters
    /\ phase \in {"saveCalls", "tools", "saveTurn"}
          => iteration < MaxIters \/ (entry = "resume" /\ calls = 0)

IInv == TypeOK /\ TranscriptInv /\ FrameInv /\ CapInv /\ BoundInv

-----------------------------------------------------------------------------
(* Facts about transcripts, for any sequences of entries. *)

LEMMA ContinuesRefl ==
    ASSUME NEW s \in Seq(Kinds) PROVE Transcript!Continues(s, s)
  BY DEF Transcript!Continues

LEMMA ContinuesAppend ==
    ASSUME NEW s \in Seq(Kinds), NEW t \in Seq(Kinds), NEW k \in Kinds,
           Transcript!Continues(s, t)
    PROVE  Transcript!Continues(s, Append(t, k))
  BY DEF Transcript!Continues

LEMMA BalancedAppend ==
    ASSUME NEW t \in Seq(Kinds), NEW k \in Kinds, NoOpen(t)
    PROVE  /\ Transcript!Balanced(Append(t, k))
           /\ k # "open" => NoOpen(Append(t, k))
           /\ Ends(Append(t, k), k)
  BY DEF Transcript!Balanced, NoOpen, Ends

LEMMA NoOpenBalanced ==
    ASSUME NEW t \in Seq(Kinds), NoOpen(t) PROVE Transcript!Balanced(t)
  BY DEF Transcript!Balanced, NoOpen

(* Closing the open turn at the end of t answers every call of it. *)
LEMMA ClosedTurn ==
    ASSUME NEW s \in Seq(Kinds), NEW t \in Seq(Kinds),
           Transcript!Continues(s, t), Transcript!Balanced(t), Ends(t, "open")
    PROVE  /\ Closed(t, "tools") \in Seq(Kinds)
           /\ NoOpen(Closed(t, "tools"))
           /\ Transcript!Continues(s, Closed(t, "tools"))
<1>1. Len(t) \in Nat \ {0} /\ DOMAIN t = 1..Len(t) /\ t[Len(t)] = "open"
  BY DEF Ends
<1>2. Closed(t, "tools") \in Seq(Kinds) /\ Len(Closed(t, "tools")) = Len(t)
  BY <1>1 DEF Closed, Kinds
<1>3. \A i \in DOMAIN t : Closed(t, "tools")[i] = IF i = Len(t) THEN "tools" ELSE t[i]
  BY <1>1 DEF Closed
<1>4. NoOpen(Closed(t, "tools"))
  BY <1>1, <1>2, <1>3 DEF NoOpen, Transcript!Balanced
<1>5. Transcript!Continues(s, Closed(t, "tools"))
  BY <1>1, <1>2, <1>3 DEF Transcript!Continues
<1> QED BY <1>2, <1>4, <1>5

(* patchDanglingToolCalls only touches open turns, and leaves none. *)
LEMMA PatchedTranscript ==
    ASSUME NEW s \in Seq(Kinds), NEW t \in Seq(Kinds), Transcript!Continues(s, t)
    PROVE  /\ Patched(t) \in Seq(Kinds)
           /\ NoOpen(Patched(t))
           /\ Transcript!Continues(s, Patched(t))
<1>1. Patched(t) \in Seq(Kinds) /\ Len(Patched(t)) = Len(t)
  BY DEF Patched, Kinds
<1>2. \A i \in DOMAIN t : Patched(t)[i] = IF t[i] = "open" THEN "sealed" ELSE t[i]
  BY DEF Patched
<1>3. NoOpen(Patched(t))
  BY <1>1, <1>2 DEF NoOpen
<1>4. Transcript!Continues(s, Patched(t))
  BY <1>1, <1>2 DEF Transcript!Continues
<1> QED BY <1>1, <1>3, <1>4

(* The rewound history is what precedes the last user message. *)
LEMMA Rewound ==
    ASSUME store \in Seq(Kinds), Transcript!Balanced(store), NEW u \in DOMAIN store, LastUser(u)
    PROVE  LET t == SubSeq(store, 1, SafeTruncate(u - 1))
           IN  /\ t \in Seq(Kinds) /\ Transcript!Balanced(t)
               /\ Transcript!Precedes(t, store)
<1> DEFINE n == u - 1
           t == SubSeq(store, 1, n)
<1>2. u \in 1..Len(store) /\ store[u] = "user"
  BY DEF LastUser
<1>3. n \in Nat /\ n < Len(store) /\ (n = 0 \/ store[n] # "open")
  BY <1>2 DEF Transcript!Balanced
<1>4. SafeTruncate(n) = n
  <2> DEFINE P(k) == (k = 0 \/ store[k] # "open") /\ (\A j \in (k + 1)..n : store[j] = "open")
  <2>1. P(n) /\ n \in 0..n
    BY <1>3
  <2>2. \A k \in 0..n : P(k) => k = n
    <3> SUFFICES ASSUME NEW k \in 0..n, P(k), k # n PROVE FALSE
      OBVIOUS
    <3>1. n \in (k + 1)..n /\ n # 0
      BY <1>3
    <3> QED BY <3>1, <1>3
  <2>3. SafeTruncate(n) = CHOOSE k \in 0..n : P(k)
    BY DEF SafeTruncate
  <2> HIDE DEF P
  <2> QED BY <2>1, <2>2, <2>3
<1>5. t \in Seq(Kinds) /\ Len(t) = n /\ \A i \in 1..n : t[i] = store[i]
  BY <1>3
<1>6. Transcript!Balanced(t)
  BY <1>3, <1>5 DEF Transcript!Balanced
<1>7. Transcript!Precedes(t, store)
  BY <1>2, <1>3, <1>5 DEF Transcript!Precedes
<1> QED BY <1>4, <1>5, <1>6, <1>7

-----------------------------------------------------------------------------
(***************************************************************************)
(* Type correctness.  The Boolean variables are apart: they are Zenon's    *)
(* part of the work, the rest is the SMT solver's.                         *)
(***************************************************************************)
FlagType == emitted \in BOOLEAN /\ lost \in BOOLEAN /\ crashed \in BOOLEAN /\ left \in BOOLEAN

DataType ==
    /\ store \in Seq(Kinds) /\ msgs \in Seq(Kinds)
    /\ phase \in Phases /\ entry \in {"run", "continue", "resume"}
    /\ ctx \in {"live", "cancelled"}
    /\ iteration \in 0..MaxIters /\ total \in Nat /\ scheduled \in 0..MaxCalls
    /\ attempt \in 0..MaxRetries /\ calls \in Nat /\ streamed \in Nat
    /\ spec \in [state : SpecStates, at : Nat]
    /\ ending \in Verdicts \cup {"none"} /\ terminal \in Seq(Verdicts \cup Notices)
    /\ acc \subseteq Nat /\ reported \in Seq(SUBSET Nat)
    /\ consumed \subseteq Nat
    /\ runs \in 0..MaxRuns /\ faults \in 0..MaxFaults

LEMMA TypeParts == TypeOK <=> DataType /\ FlagType
  BY DEF TypeOK, DataType, FlagType

LEMMA Limits ==
    /\ MaxIters \in Nat /\ MaxPerSession \in Nat /\ MaxRetries \in Nat
    /\ MaxCalls \in Nat /\ MaxRuns \in Nat /\ MaxFaults \in Nat
  BY RunAssumption

LEMMA PatchedType == ASSUME NEW t \in Seq(Kinds) PROVE Patched(t) \in Seq(Kinds)
  BY DEF Patched, Kinds

LEMMA ReportType ==
    ASSUME acc \subseteq Nat, reported \in Seq(SUBSET Nat), Report
    PROVE  acc' \subseteq Nat /\ reported' \in Seq(SUBSET Nat)
<1>1. acc \in SUBSET Nat
  OBVIOUS
<1>2. Append(reported, acc) \in Seq(SUBSET Nat)
  BY <1>1
<1> QED BY <1>2 DEF Report, Drain

LEMMA FlagStep == FlagType /\ [Next]_vars => FlagType'
<1> SUFFICES ASSUME FlagType, [Next]_vars PROVE FlagType'
  OBVIOUS
<1> USE DEF FlagType
<1>1. CASE LoadFails
  BY <1>1 DEF LoadFails, GoTo, Fail, Quiet, Aside, history, loop, llm, degradation
<1>2. CASE Load
  BY <1>2 DEF Load, GoTo, Quiet, Aside, loop, llm, degradation
<1>3. CASE FirstSave
  BY <1>3 DEF FirstSave, GoTo, Fail, Quiet, Aside, Saved, SaveFails, loop, llm, degradation
<1>4. CASE Iterate
  BY <1>4 DEF Iterate, GoTo, Finish, NoSpec, history, loop, degradation
<1>5. CASE CallLLM
  BY <1>5 DEF CallLLM, GoTo, NoSpec, history, frames
<1>6. CASE StreamAnswers
  BY <1>6 DEF StreamAnswers, GoTo, Finish, Quiet, Aside, NoSpec, loop, llm, degradation
<1>7. CASE StreamCallsTools
  BY <1>7 DEF StreamCallsTools, GoTo, Quiet, Aside, llm, degradation
<1>8. CASE StreamFails
  BY <1>8 DEF StreamFails, GoTo, Finish, MayRetry, Verdict, history, loop, llm
<1>9. CASE Backoff
  BY <1>9 DEF Backoff, GoTo, Finish, history, loop, degradation
<1>10. CASE SpeculationEnds
  BY <1>10 DEF SpeculationEnds, history, loop, llm, frames, degradation
<1>11. CASE SaveCalls
  BY <1>11 DEF SaveCalls, SaveOrNotify, GoTo, Quiet, Aside, Saved, SaveFails, loop, llm,
       degradation
<1>12. CASE ToolTurn
  BY <1>12 DEF ToolTurn, GoTo, Finish, NoSpec, FirstCall, loop, llm
<1>13. CASE SaveTurn
  BY <1>13 DEF SaveTurn, SaveOrNotify, GoTo, Finish, Quiet, Aside, Saved, SaveFails,
       CapReached, llm,
       degradation
<1>14. CASE LastSave
  BY <1>14 DEF LastSave, GoTo, Quiet, Aside, Saved, SaveFails, loop, llm, degradation
<1>15. CASE EmitDegraded
  BY <1>15 DEF EmitDegraded, GoTo, Report, Drain, history, loop, llm, frames
<1>16. CASE Emit
  BY <1>16 DEF Emit, GoTo, history, loop, llm, degradation
<1>17. CASE Sweep
  BY <1>17 DEF Sweep, GoTo, Report, Drain, history, loop, llm, frames
<1>18. CASE Run
  BY <1>18 DEF Run, NewRun, Starts, NoSpec
<1>19. CASE Continue
  BY <1>19 DEF Continue, NewRun, Starts, Announced, NoSpec
<1>20. CASE Resume
  BY <1>20 DEF Resume, NewRun, Starts, Announced, NoSpec
<1>21. CASE Regenerate
  BY <1>21 DEF Regenerate, NewRun, Starts, Announced, NoSpec
<1>22. CASE StreamContent
  BY <1>22 DEF StreamContent, history, loop, frames, degradation
<1>23. CASE Speculate
  BY <1>23 DEF Speculate, NoSpec, history, loop, llm, frames, degradation
<1>24. CASE Cancel
  BY <1>24 DEF Cancel, history, loop, llm, frames, degradation
<1>25. CASE Crash
  BY <1>25 DEF Crash, GoTo, NoSpec, loop, llm, frames
<1>26. CASE UNCHANGED vars
  BY <1>26 DEF vars, history, loop, llm, frames, degradation
<1> QED BY <1>1, <1>2, <1>3, <1>4, <1>5, <1>6, <1>7, <1>8, <1>9, <1>10, <1>11, <1>12,
     <1>13, <1>14, <1>15, <1>16, <1>17, <1>18, <1>19, <1>20, <1>21, <1>22, <1>23, <1>24,
     <1>25, <1>26 DEF Next, Progress

LEMMA NoticeType ==
    ASSUME NEW t \in Seq(Verdicts \cup Notices), NEW n \in Notices
    PROVE  Append(t, n) \in Seq(Verdicts \cup Notices)
  OBVIOUS

LEMMA DataStep == IInv /\ [Next]_vars => DataType'
<1> SUFFICES ASSUME DataType, TranscriptInv, FrameInv, BoundInv, [Next]_vars PROVE DataType'
  BY TypeParts DEF IInv
<1> USE Limits DEF DataType, Kinds, Phases, SpecStates, Verdicts
<1>1. CASE LoadFails
  BY <1>1 DEF LoadFails, GoTo, Fail, Quiet, Aside, history, loop, llm, degradation
<1>2. CASE Load
  <2>1. Patched(store) \in Seq(Kinds) /\ Patched(Append(store, "user")) \in Seq(Kinds)
    <3>1. store \in Seq(Kinds) /\ Append(store, "user") \in Seq(Kinds)
      OBVIOUS
    <3> QED BY <3>1, PatchedType
  <2> QED BY <1>2, <2>1 DEF Load, GoTo, Quiet, Aside, loop, llm, degradation
<1>3. CASE FirstSave
  BY <1>3 DEF FirstSave, GoTo, Fail, Quiet, Aside, Saved, SaveFails, loop, llm, degradation
<1>4. CASE Iterate
  BY <1>4 DEF Iterate, GoTo, Finish, NoSpec, history, loop, degradation
<1>5. CASE CallLLM
  <2>1. acc' \subseteq Nat /\ spec' \in [state : SpecStates, at : Nat]
    BY <1>5 DEF CallLLM, NoSpec
  <2> QED BY <1>5, <2>1 DEF CallLLM, GoTo, history, frames
<1>6. CASE StreamAnswers
  BY <1>6 DEF StreamAnswers, GoTo, Finish, Quiet, Aside, NoSpec, loop, llm, degradation
<1>7. CASE StreamCallsTools
  BY <1>7 DEF StreamCallsTools, GoTo, Quiet, Aside, llm, degradation
<1>8. CASE StreamFails
  BY <1>8 DEF StreamFails, degradation, GoTo, Finish, MayRetry, Verdict, history, loop, llm
<1>9. CASE Backoff
  <2>1. attempt' \in 0..MaxRetries
    BY <1>9 DEF Backoff, BoundInv
  <2> QED BY <1>9, <2>1 DEF Backoff, GoTo, Finish, history, loop, degradation
<1>10. CASE SpeculationEnds
  <2>1. spec' \in [state : SpecStates, at : Nat]
    <3>1. PICK s \in {"clean", "failed", "degraded"} : spec' = [spec EXCEPT !.state = s]
      BY <1>10 DEF SpeculationEnds
    <3> QED BY <3>1
  <2>2. UNCHANGED <<history, phase, loop, ctx, llm, frames, degradation, runs, faults>>
    BY <1>10 DEF SpeculationEnds
  <2> QED BY <2>1, <2>2 DEF history, loop, llm, frames, degradation
<1>11. CASE SaveCalls
  <2>1. terminal' \in Seq(Verdicts \cup Notices)
    BY <1>11, NoticeType DEF SaveCalls, SaveOrNotify, Notices
  <2> QED BY <1>11, <2>1 DEF SaveCalls, SaveOrNotify, GoTo, Aside, Saved, SaveFails, loop, llm,
       degradation
<1>12. CASE ToolTurn
  <2>1. Closed(msgs, "tools") \in Seq(Kinds)
    <3>1. Ends(msgs, "open")
      BY <1>12 DEF ToolTurn, TranscriptInv
    <3> QED BY <3>1 DEF Closed, Ends
  <2>2. acc' \subseteq Nat /\ consumed' \subseteq Nat
    BY <1>12 DEF ToolTurn, FirstCall
  <2>3. terminal' \in Seq(Verdicts \cup Notices)
    BY <1>12, NoticeType DEF ToolTurn, FirstCall, Notices
  <2>4. faults' \in 0..MaxFaults
    BY <1>12 DEF ToolTurn, FirstCall
  <2> QED BY <1>12, <2>1, <2>2, <2>3, <2>4 DEF ToolTurn, GoTo, Finish, loop, llm
<1>13. CASE SaveTurn
  <2>1. iteration' \in 0..MaxIters
    BY <1>13 DEF SaveTurn, SaveOrNotify, Finish, GoTo, BoundInv
  <2>2. total' \in Nat
    BY <1>13 DEF SaveTurn
  <2>3. terminal' \in Seq(Verdicts \cup Notices)
    BY <1>13, NoticeType DEF SaveTurn, SaveOrNotify, Notices
  <2> QED BY <1>13, <2>1, <2>2, <2>3 DEF SaveTurn, SaveOrNotify, GoTo, Finish, Aside, Saved,
       SaveFails, llm, degradation
<1>14. CASE LastSave
  BY <1>14 DEF LastSave, GoTo, Quiet, Aside, Saved, SaveFails, loop, llm, degradation
<1>15. CASE EmitDegraded
  <2>1. acc' \subseteq Nat /\ reported' \in Seq(SUBSET Nat)
    BY <1>15, ReportType DEF EmitDegraded
  <2> QED BY <1>15, <2>1 DEF EmitDegraded, GoTo, history, loop, llm, frames
<1>16. CASE Emit
  <2>1. ending \in Verdicts
    BY <1>16 DEF Emit, FrameInv
  <2> QED BY <1>16, <2>1 DEF Emit, GoTo, history, loop, llm, degradation
<1>17. CASE Sweep
  <2>1. acc' \subseteq Nat /\ reported' \in Seq(SUBSET Nat)
    BY <1>17, ReportType DEF Sweep
  <2> QED BY <1>17, <2>1 DEF Sweep, GoTo, history, loop, llm, frames
<1>18. CASE Run
  BY <1>18 DEF Run, NewRun, Starts, NoSpec
<1>19. CASE Continue
  BY <1>19 DEF Continue, NewRun, Starts, Announced, NoSpec
<1>20. CASE Resume
  BY <1>20 DEF Resume, NewRun, Starts, Announced, NoSpec
<1>21. CASE Regenerate
  <2>1. store' \in Seq(Kinds)
    <3>1. ASSUME NEW u \in DOMAIN store, LastUser(u),
                 store' = SubSeq(store, 1, SafeTruncate(u - 1))
          PROVE  store' \in Seq(Kinds)
      BY <3>1, Rewound DEF TranscriptInv
    <3> QED BY <1>21, <3>1 DEF Regenerate
  <2> QED BY <1>21, <2>1 DEF Regenerate, NewRun, Starts, Announced, NoSpec
<1>22. CASE StreamContent
  BY <1>22 DEF StreamContent, history, loop, frames, degradation
<1>23. CASE Speculate
  BY <1>23 DEF Speculate, NoSpec, history, loop, llm, frames, degradation
<1>24. CASE Cancel
  BY <1>24 DEF Cancel, history, loop, llm, frames, degradation
<1>25. CASE Crash
  BY <1>25 DEF Crash, GoTo, NoSpec, loop, llm, frames
<1>26. CASE UNCHANGED vars
  BY <1>26 DEF vars, history, loop, llm, frames, degradation
<1> QED BY <1>1, <1>2, <1>3, <1>4, <1>5, <1>6, <1>7, <1>8, <1>9, <1>10, <1>11, <1>12,
     <1>13, <1>14, <1>15, <1>16, <1>17, <1>18, <1>19, <1>20, <1>21, <1>22, <1>23, <1>24,
     <1>25, <1>26 DEF Next, Progress

-----------------------------------------------------------------------------
(* The working copy continues the persisted history. *)
LEMMA TranscriptStep == IInv /\ [Next]_vars => TranscriptInv'
<1> SUFFICES ASSUME DataType, TranscriptInv, [Next]_vars PROVE TranscriptInv'
  BY TypeParts DEF IInv
<1> USE DEF DataType, TranscriptInv, Working, Kinds
<1>1. CASE LoadFails
  BY <1>1 DEF LoadFails, GoTo, Fail, Quiet, Aside, history, loop, llm, degradation
<1>2. CASE Load
  <2>1. Transcript!Continues(store, store)
    BY ContinuesRefl
  <2>2. CASE entry = "resume"
    <3>1. UNCHANGED store /\ msgs' = store /\ phase' = "tools"
      BY <1>2, <2>2 DEF Load, GoTo
    <3> QED BY <1>2, <2>1, <2>2, <3>1 DEF Load
  <2>3. ASSUME NEW t \in Seq(Kinds), msgs' = Patched(t), Transcript!Continues(store, t),
               phase' = "firstSave"
        PROVE  TranscriptInv'
    <3>1. NoOpen(Patched(t)) /\ Transcript!Continues(store, Patched(t))
          /\ Transcript!Balanced(Patched(t))
      BY <2>3, PatchedTranscript, NoOpenBalanced
    <3> QED BY <1>2, <2>3, <3>1 DEF Load
  <2>4. CASE entry = "continue"
    BY <1>2, <2>1, <2>3, <2>4 DEF Load, GoTo
  <2>5. CASE entry = "run"
    <3>1. Append(store, "user") \in Seq(Kinds)
          /\ Transcript!Continues(store, Append(store, "user"))
      BY <2>1, ContinuesAppend
    <3> QED BY <1>2, <2>3, <2>5, <3>1 DEF Load, GoTo
  <2> QED BY <2>2, <2>4, <2>5
<1>3. CASE FirstSave
  <2>1. Transcript!Continues(msgs, msgs)
    BY ContinuesRefl
  <2>2. msgs' = msgs /\ (entry' = entry \/ phase' # "load")
    BY <1>3 DEF FirstSave, GoTo, Fail, Saved, SaveFails
  <2> QED BY <1>3, <2>1, <2>2 DEF FirstSave, GoTo, Fail, Saved, SaveFails
<1>4. CASE Iterate
  BY <1>4 DEF Iterate, GoTo, Finish, NoSpec, history, loop, degradation
<1>5. CASE CallLLM
  BY <1>5 DEF CallLLM, GoTo, NoSpec, history, frames
<1>6. CASE StreamAnswers
  <2>1. NoOpen(msgs) /\ Transcript!Continues(store, msgs)
    BY <1>6 DEF StreamAnswers
  <2>2. Transcript!Balanced(Append(msgs, "answer"))
        /\ Transcript!Continues(store, Append(msgs, "answer"))
    BY <2>1, BalancedAppend, ContinuesAppend
  <2> QED BY <1>6, <2>2 DEF StreamAnswers, Finish, GoTo
<1>7. CASE StreamCallsTools
  <2>1. NoOpen(msgs) /\ Transcript!Continues(store, msgs)
    BY <1>7 DEF StreamCallsTools
  <2>2. Transcript!Balanced(Append(msgs, "open")) /\ Ends(Append(msgs, "open"), "open")
        /\ Transcript!Continues(store, Append(msgs, "open"))
    BY <2>1, BalancedAppend, ContinuesAppend
  <2> QED BY <1>7, <2>2 DEF StreamCallsTools, GoTo
<1>8. CASE StreamFails
  BY <1>8 DEF StreamFails, GoTo, Finish, MayRetry, Verdict, history, loop, llm
<1>9. CASE Backoff
  BY <1>9 DEF Backoff, GoTo, Finish, history, loop, degradation
<1>10. CASE SpeculationEnds
  BY <1>10 DEF SpeculationEnds, history, loop, llm, frames, degradation
<1>11. CASE SaveCalls
  <2>1. Transcript!Continues(msgs, msgs)
    BY ContinuesRefl
  <2>2. msgs' = msgs /\ (entry' = entry \/ phase' # "load")
    BY <1>11 DEF SaveCalls, SaveOrNotify, GoTo, Saved, SaveFails
  <2> QED BY <1>11, <2>1, <2>2 DEF SaveCalls, SaveOrNotify, GoTo, Saved, SaveFails
<1>12. CASE ToolTurn
  <2>1. Ends(msgs, "open") /\ Transcript!Continues(store, msgs) /\ Transcript!Balanced(msgs)
    BY <1>12 DEF ToolTurn
  <2>2. /\ NoOpen(Closed(msgs, "tools")) /\ Closed(msgs, "tools") \in Seq(Kinds)
        /\ Transcript!Continues(store, Closed(msgs, "tools"))
    BY <2>1, ClosedTurn
  <2>3. Transcript!Balanced(Closed(msgs, "tools"))
    BY <2>2, NoOpenBalanced
  <2> QED BY <1>12, <2>1, <2>2, <2>3 DEF ToolTurn, Finish, GoTo
<1>13. CASE SaveTurn
  <2>1. Transcript!Continues(msgs, msgs)
    BY ContinuesRefl
  <2>2. msgs' = msgs /\ (entry' = entry \/ phase' # "load")
    BY <1>13 DEF SaveTurn, SaveOrNotify, GoTo, Finish, Saved, SaveFails
  <2> QED BY <1>13, <2>1, <2>2 DEF SaveTurn, SaveOrNotify, GoTo, Finish, Saved, SaveFails
<1>14. CASE LastSave
  <2>1. Transcript!Continues(msgs, msgs)
    BY ContinuesRefl
  <2>2. msgs' = msgs /\ (entry' = entry \/ phase' # "load")
    BY <1>14 DEF LastSave, GoTo, Saved, SaveFails
  <2> QED BY <1>14, <2>1, <2>2 DEF LastSave, GoTo, Saved, SaveFails
<1>15. CASE EmitDegraded
  BY <1>15 DEF EmitDegraded, GoTo, Report, Drain, history, loop, llm, frames
<1>16. CASE Emit
  BY <1>16 DEF Emit, GoTo, history, loop, llm, degradation
<1>17. CASE Sweep
  BY <1>17 DEF Sweep, GoTo, Report, Drain, history, loop, llm, frames
<1>18. CASE Run
  BY <1>18 DEF Run, NewRun, Starts, NoSpec
<1>19. CASE Continue
  BY <1>19 DEF Continue, NewRun, Starts, Announced, NoSpec
<1>20. CASE Resume
  BY <1>20 DEF Resume, NewRun, Starts, Announced, NoSpec
<1>21. CASE Regenerate
  <2>1. Transcript!Balanced(store')
    <3>1. ASSUME NEW u \in DOMAIN store, LastUser(u),
                 store' = SubSeq(store, 1, SafeTruncate(u - 1))
          PROVE  Transcript!Balanced(store')
      BY <3>1, Rewound
    <3> QED BY <1>21, <3>1 DEF Regenerate
  <2> QED BY <1>21, <2>1 DEF Regenerate, NewRun, Starts, Announced
<1>22. CASE StreamContent
  BY <1>22 DEF StreamContent, history, loop, frames, degradation
<1>23. CASE Speculate
  BY <1>23 DEF Speculate, NoSpec, history, loop, llm, frames, degradation
<1>24. CASE Cancel
  BY <1>24 DEF Cancel, history, loop, llm, frames, degradation
<1>25. CASE Crash
  BY <1>25 DEF Crash, GoTo, NoSpec, loop, llm, frames
<1>26. CASE UNCHANGED vars
  BY <1>26 DEF vars, history, loop, llm, frames, degradation
<1> QED BY <1>1, <1>2, <1>3, <1>4, <1>5, <1>6, <1>7, <1>8, <1>9, <1>10, <1>11, <1>12,
     <1>13, <1>14, <1>15, <1>16, <1>17, <1>18, <1>19, <1>20, <1>21, <1>22, <1>23, <1>24,
     <1>25, <1>26 DEF Next, Progress

(* A notice is never the frame that ends a run, a verdict is. *)
LEMMA NoticeAdded ==
    ASSUME NEW t \in Seq(Verdicts \cup Notices), NEW n \in Notices, Noticed(t)
    PROVE  Noticed(Append(t, n))
  BY DEF Noticed

LEMMA VerdictAdded ==
    ASSUME NEW t \in Seq(Verdicts \cup Notices), NEW v \in Verdicts, Noticed(t)
    PROVE  Ended(Append(t, v)) /\ Ends(Append(t, v), v)
<1>1. v \notin Notices
  BY DEF Verdicts, Notices
<1>2. /\ Append(t, v) # <<>> /\ Len(Append(t, v)) = Len(t) + 1
      /\ DOMAIN Append(t, v) = 1..(Len(t) + 1) /\ Append(t, v)[Len(t) + 1] = v
      /\ \A i \in 1..Len(t) : Append(t, v)[i] = t[i]
  OBVIOUS
<1>3. \A i \in 1..(Len(t) + 1) : i \in 1..Len(t) \/ i = Len(t) + 1
  OBVIOUS
<1> QED BY <1>1, <1>2, <1>3 DEF Noticed, Ended, Ends

LEMMA NothingNoticed == Noticed(<<>>)
  BY DEF Noticed

(* The frames shown, phase by phase. *)
LEMMA FrameStep == IInv /\ [Next]_vars => FrameInv'
<1> SUFFICES ASSUME DataType, FrameInv, [Next]_vars PROVE FrameInv'
  BY TypeParts DEF IInv
<1> USE NothingNoticed DEF DataType, FrameInv, Over, Ends
<1>1. CASE LoadFails
  BY <1>1 DEF LoadFails, GoTo, Fail, Quiet, Aside, history, loop, llm, degradation
<1>2. CASE Load
  BY <1>2 DEF Load, GoTo, Quiet, Aside, loop, llm, degradation
<1>3. CASE FirstSave
  BY <1>3 DEF FirstSave, GoTo, Fail, Quiet, Aside, Saved, SaveFails, loop, llm, degradation
<1>4. CASE Iterate
  BY <1>4 DEF Iterate, GoTo, Finish, NoSpec, history, loop, degradation
<1>5. CASE CallLLM
  BY <1>5 DEF CallLLM, GoTo, NoSpec, history, frames
<1>6. CASE StreamAnswers
  BY <1>6 DEF StreamAnswers, GoTo, Finish, Quiet, Aside, NoSpec, loop, llm, degradation
<1>7. CASE StreamCallsTools
  BY <1>7 DEF StreamCallsTools, GoTo, Quiet, Aside, llm, degradation
<1>8. CASE StreamFails
  BY <1>8 DEF StreamFails, GoTo, Finish, MayRetry, Verdict, history, loop, llm
<1>9. CASE Backoff
  BY <1>9 DEF Backoff, GoTo, Finish, history, loop, degradation
<1>10. CASE SpeculationEnds
  BY <1>10 DEF SpeculationEnds, history, loop, llm, frames, degradation
<1>11. CASE SaveCalls
  <2>1. Noticed(terminal')
    BY <1>11, NoticeAdded DEF SaveCalls, SaveOrNotify, Notices
  <2> QED BY <1>11, <2>1 DEF SaveCalls, GoTo
<1>12. CASE ToolTurn
  <2>1. Noticed(terminal')
    BY <1>12, NoticeAdded DEF ToolTurn, FirstCall, Notices
  <2>2. phase' = "saveTurn" \/ (phase' = "lastSave" /\ ending' \notin {"refused", "none"})
    BY <1>12 DEF ToolTurn, GoTo, Finish
  <2> QED BY <2>1, <2>2
<1>13. CASE SaveTurn
  <2>1. Noticed(terminal')
    BY <1>13, NoticeAdded DEF SaveTurn, SaveOrNotify, Notices
  <2>2. phase' = "iterate" \/ (phase' = "lastSave" /\ ending' \notin {"refused", "none"})
    BY <1>13 DEF SaveTurn, GoTo, Finish
  <2> QED BY <2>1, <2>2
<1>14. CASE LastSave
  BY <1>14 DEF LastSave, GoTo, Quiet, Aside, Saved, SaveFails, loop, llm, degradation
<1>15. CASE EmitDegraded
  BY <1>15 DEF EmitDegraded, GoTo, Report, Drain, history, loop, llm, frames
<1>16. CASE Emit
  <2>1. Noticed(terminal) /\ ending \in Verdicts
    BY <1>16 DEF Emit
  <2>2. Ended(terminal') /\ terminal' # <<>> /\ terminal'[Len(terminal')] = ending
    BY <1>16, <2>1, VerdictAdded DEF Emit
  <2>3. ending = "refused" => terminal' = <<"refused">>
    BY <1>16 DEF Emit
  <2>4. /\ phase = "emit" /\ phase' = "sweep" /\ UNCHANGED <<store, msgs, lost, ending>>
    BY <1>16 DEF Emit, GoTo, history
  <2> QED BY <2>2, <2>3, <2>4
<1>17. CASE Sweep
  BY <1>17 DEF Sweep, GoTo, frames
<1>18. CASE Run
  BY <1>18 DEF Run, NewRun, Starts, NoSpec
<1>19. CASE Continue
  BY <1>19 DEF Continue, NewRun, Starts, Announced, NoSpec
<1>20. CASE Resume
  BY <1>20 DEF Resume, NewRun, Starts, Announced, NoSpec
<1>21. CASE Regenerate
  BY <1>21 DEF Regenerate, NewRun, Starts, Announced, NoSpec
<1>22. CASE StreamContent
  BY <1>22 DEF StreamContent, history, loop, frames, degradation
<1>23. CASE Speculate
  BY <1>23 DEF Speculate, NoSpec, history, loop, llm, frames, degradation
<1>24. CASE Cancel
  BY <1>24 DEF Cancel, history, loop, llm, frames, degradation
<1>25. CASE Crash
  BY <1>25 DEF Crash, GoTo, frames
<1>26. CASE UNCHANGED vars
  BY <1>26 DEF vars, history, loop, llm, frames, degradation
<1> QED BY <1>1, <1>2, <1>3, <1>4, <1>5, <1>6, <1>7, <1>8, <1>9, <1>10, <1>11, <1>12,
     <1>13, <1>14, <1>15, <1>16, <1>17, <1>18, <1>19, <1>20, <1>21, <1>22, <1>23, <1>24,
     <1>25, <1>26 DEF Next, Progress

(* The count of tool calls. *)
LEMMA CapStep == IInv /\ [Next]_vars => CapInv'
<1> SUFFICES ASSUME DataType, CapInv, [Next]_vars PROVE CapInv'
  BY TypeParts DEF IInv
<1> USE Limits DEF DataType, CapInv, Working
<1>1. CASE LoadFails
  BY <1>1 DEF LoadFails, GoTo, Fail, Quiet, Aside, history, loop, llm, degradation
<1>2. CASE Load
  BY <1>2 DEF Load, GoTo, Quiet, Aside, loop, llm, degradation
<1>3. CASE FirstSave
  BY <1>3 DEF FirstSave, GoTo, Fail, Quiet, Aside, Saved, SaveFails, loop, llm, degradation
<1>4. CASE Iterate
  BY <1>4 DEF Iterate, GoTo, Finish, NoSpec, history, loop, degradation
<1>5. CASE CallLLM
  BY <1>5 DEF CallLLM, GoTo, NoSpec, history, frames
<1>6. CASE StreamAnswers
  BY <1>6 DEF StreamAnswers, GoTo, Finish, Quiet, Aside, NoSpec, loop, llm, degradation
<1>7. CASE StreamCallsTools
  BY <1>7 DEF StreamCallsTools, GoTo, Quiet, Aside, llm, degradation
<1>8. CASE StreamFails
  BY <1>8 DEF StreamFails, GoTo, Finish, MayRetry, Verdict, history, loop, llm
<1>9. CASE Backoff
  BY <1>9 DEF Backoff, GoTo, Finish, history, loop, degradation
<1>10. CASE SpeculationEnds
  BY <1>10 DEF SpeculationEnds, history, loop, llm, frames, degradation
<1>11. CASE SaveCalls
  BY <1>11 DEF SaveCalls, SaveOrNotify, GoTo, Quiet, Aside, Saved, SaveFails, loop, llm,
       degradation
<1>12. CASE ToolTurn
  BY <1>12 DEF ToolTurn, GoTo, Finish, NoSpec, FirstCall, loop, llm
<1>13. CASE SaveTurn
  BY <1>13 DEF SaveTurn, SaveOrNotify, GoTo, Finish, Quiet, Aside, Saved, SaveFails,
       CapReached, llm,
       degradation
<1>14. CASE LastSave
  BY <1>14 DEF LastSave, GoTo, Quiet, Aside, Saved, SaveFails, loop, llm, degradation
<1>15. CASE EmitDegraded
  BY <1>15 DEF EmitDegraded, GoTo, Report, Drain, history, loop, llm, frames
<1>16. CASE Emit
  BY <1>16 DEF Emit, GoTo, history, loop, llm, degradation
<1>17. CASE Sweep
  BY <1>17 DEF Sweep, GoTo, Report, Drain, history, loop, llm, frames
<1>18. CASE Run
  BY <1>18 DEF Run, NewRun, Starts, NoSpec
<1>19. CASE Continue
  BY <1>19 DEF Continue, NewRun, Starts, Announced, NoSpec
<1>20. CASE Resume
  BY <1>20 DEF Resume, NewRun, Starts, Announced, NoSpec
<1>21. CASE Regenerate
  BY <1>21 DEF Regenerate, NewRun, Starts, Announced, NoSpec
<1>22. CASE StreamContent
  BY <1>22 DEF StreamContent, history, loop, frames, degradation
<1>23. CASE Speculate
  BY <1>23 DEF Speculate, NoSpec, history, loop, llm, frames, degradation
<1>24. CASE Cancel
  BY <1>24 DEF Cancel, history, loop, llm, frames, degradation
<1>25. CASE Crash
  BY <1>25 DEF Crash, GoTo, NoSpec, loop, llm, frames
<1>26. CASE UNCHANGED vars
  BY <1>26 DEF vars, history, loop, llm, frames, degradation
<1> QED BY <1>1, <1>2, <1>3, <1>4, <1>5, <1>6, <1>7, <1>8, <1>9, <1>10, <1>11, <1>12,
     <1>13, <1>14, <1>15, <1>16, <1>17, <1>18, <1>19, <1>20, <1>21, <1>22, <1>23, <1>24,
     <1>25, <1>26 DEF Next, Progress

(* Iterations and attempts. *)
LEMMA BoundStep == IInv /\ [Next]_vars => BoundInv'
<1> SUFFICES ASSUME DataType, BoundInv, [Next]_vars PROVE BoundInv'
  BY TypeParts DEF IInv
<1> USE Limits DEF DataType, BoundInv
<1>1. CASE LoadFails
  BY <1>1 DEF LoadFails, GoTo, Fail, Quiet, Aside, history, loop, llm, degradation
<1>2. CASE Load
  BY <1>2 DEF Load, GoTo, Quiet, Aside, loop, llm, degradation
<1>3. CASE FirstSave
  BY <1>3 DEF FirstSave, GoTo, Fail, Quiet, Aside, Saved, SaveFails, loop, llm, degradation
<1>4. CASE Iterate
  BY <1>4 DEF Iterate, GoTo, Finish, NoSpec, history, loop, degradation
<1>5. CASE CallLLM
  BY <1>5 DEF CallLLM, GoTo, NoSpec, history, frames
<1>6. CASE StreamAnswers
  BY <1>6 DEF StreamAnswers, GoTo, Finish, Quiet, Aside, NoSpec, loop, llm, degradation
<1>7. CASE StreamCallsTools
  BY <1>7 DEF StreamCallsTools, GoTo, Quiet, Aside, llm, degradation
<1>8. CASE StreamFails
  BY <1>8 DEF StreamFails, GoTo, Finish, MayRetry, Verdict, history, loop, llm
<1>9. CASE Backoff
  BY <1>9 DEF Backoff, GoTo, Finish, history, loop, degradation
<1>10. CASE SpeculationEnds
  BY <1>10 DEF SpeculationEnds, history, loop, llm, frames, degradation
<1>11. CASE SaveCalls
  BY <1>11 DEF SaveCalls, SaveOrNotify, GoTo, Quiet, Aside, Saved, SaveFails, loop, llm,
       degradation
<1>12. CASE ToolTurn
  BY <1>12 DEF ToolTurn, GoTo, Finish, NoSpec, FirstCall, loop, llm
<1>13. CASE SaveTurn
  BY <1>13 DEF SaveTurn, SaveOrNotify, GoTo, Finish, Quiet, Aside, Saved, SaveFails,
       CapReached, llm,
       degradation
<1>14. CASE LastSave
  BY <1>14 DEF LastSave, GoTo, Quiet, Aside, Saved, SaveFails, loop, llm, degradation
<1>15. CASE EmitDegraded
  BY <1>15 DEF EmitDegraded, GoTo, Report, Drain, history, loop, llm, frames
<1>16. CASE Emit
  BY <1>16 DEF Emit, GoTo, history, loop, llm, degradation
<1>17. CASE Sweep
  BY <1>17 DEF Sweep, GoTo, Report, Drain, history, loop, llm, frames
<1>18. CASE Run
  BY <1>18 DEF Run, NewRun, Starts, NoSpec
<1>19. CASE Continue
  BY <1>19 DEF Continue, NewRun, Starts, Announced, NoSpec
<1>20. CASE Resume
  BY <1>20 DEF Resume, NewRun, Starts, Announced, NoSpec
<1>21. CASE Regenerate
  BY <1>21 DEF Regenerate, NewRun, Starts, Announced, NoSpec
<1>22. CASE StreamContent
  BY <1>22 DEF StreamContent, history, loop, frames, degradation
<1>23. CASE Speculate
  BY <1>23 DEF Speculate, NoSpec, history, loop, llm, frames, degradation
<1>24. CASE Cancel
  BY <1>24 DEF Cancel, history, loop, llm, frames, degradation
<1>25. CASE Crash
  BY <1>25 DEF Crash, GoTo, NoSpec, loop, llm, frames
<1>26. CASE UNCHANGED vars
  BY <1>26 DEF vars, history, loop, llm, frames, degradation
<1> QED BY <1>1, <1>2, <1>3, <1>4, <1>5, <1>6, <1>7, <1>8, <1>9, <1>10, <1>11, <1>12,
     <1>13, <1>14, <1>15, <1>16, <1>17, <1>18, <1>19, <1>20, <1>21, <1>22, <1>23, <1>24,
     <1>25, <1>26 DEF Next, Progress

-----------------------------------------------------------------------------
LEMMA InitIInv == Init => IInv
<1> SUFFICES ASSUME Init PROVE IInv
  OBVIOUS
<1>1. DataType
  <2>1. <<>> \in Seq(Kinds) /\ <<>> \in Seq(Verdicts) /\ <<>> \in Seq(SUBSET Nat)
    OBVIOUS
  <2> QED BY <2>1, Limits DEF Init, DataType, NoSpec, Phases, SpecStates, Verdicts
<1>2. FlagType
  BY DEF Init, FlagType
<1>3. TranscriptInv
  BY DEF Init, TranscriptInv, Working, Transcript!Balanced
<1>4. FrameInv
  BY NothingNoticed DEF Init, FrameInv, Over
<1>5. CapInv /\ BoundInv
  BY DEF Init, CapInv, BoundInv, Working
<1> QED BY <1>1, <1>2, <1>3, <1>4, <1>5, TypeParts DEF IInv

LEMMA NextIInv == IInv /\ [Next]_vars => IInv'
<1> SUFFICES ASSUME IInv, [Next]_vars PROVE IInv'
  OBVIOUS
<1>1. DataType' /\ FlagType'
  BY DataStep, FlagStep, TypeParts DEF IInv
<1>2. TypeOK'
  BY <1>1 DEF TypeOK, DataType, FlagType
<1>3. TranscriptInv' /\ FrameInv' /\ CapInv' /\ BoundInv'
  BY TranscriptStep, FrameStep, CapStep, BoundStep
<1> QED BY <1>2, <1>3 DEF IInv

(***************************************************************************)
(* The inductive invariant holds throughout every run of the session.      *)
(***************************************************************************)
THEOREM RunInvariant == Spec => []IInv
  BY InitIInv, NextIInv, PTL DEF Spec

(***************************************************************************)
(* Every variable of the loop keeps its type: the iteration count its      *)
(* limit, the attempts theirs, and no terminal frame without a ending.    *)
(***************************************************************************)
THEOREM RunTypeCorrect == Spec => []TypeOK
<1>1. IInv => TypeOK
  BY DEF IInv
<1> QED BY <1>1, RunInvariant, PTL

(***************************************************************************)
(* One frame ends a run and nothing follows it; only errors of a run that  *)
(* goes on precede it; and a run that is neither killed nor left at its    *)
(* first frame has it.                                                     *)
(***************************************************************************)
THEOREM TerminalFrameIsUnique == Spec => []OneTerminalFrame
<1>1. IInv => OneTerminalFrame
  <2> SUFFICES ASSUME FrameInv PROVE OneTerminalFrame
    BY DEF IInv
  <2>1. Noticed(terminal) \/ Ended(terminal)
    BY DEF FrameInv
  <2>2. Over => Ended(terminal)
    BY DEF FrameInv
  <2> QED BY <2>1, <2>2 DEF OneTerminalFrame, Noticed, Ended
<1> QED BY <1>1, RunInvariant, PTL

(***************************************************************************)
(* When the consumer sees the terminal frame the persisted history is what *)
(* the loop worked on, unless a save that must precede the frame failed.   *)
(***************************************************************************)
THEOREM TerminalFrameIsDurable == Spec => []TerminalIsDurable
<1>1. IInv => TerminalIsDurable
  BY DEF IInv, FrameInv, TerminalIsDurable, Ends
<1> QED BY <1>1, RunInvariant, PTL

(***************************************************************************)
(* A run ends once, with a frame that is durable (sendTerminal).           *)
(***************************************************************************)
THEOREM RunEndsOnceDurably == Spec => []OneDurableEnd
<1>1. OneTerminalFrame /\ TerminalIsDurable => OneDurableEnd
  BY DEF OneDurableEnd
<1> QED BY <1>1, TerminalFrameIsUnique, TerminalFrameIsDurable, PTL

(***************************************************************************)
(* The model is never sent a tool call without its result.                 *)
(***************************************************************************)
THEOREM EveryRequestBalanced == Spec => []RequestsBalanced
<1>1. IInv => RequestsBalanced
  BY DEF IInv, TranscriptInv, RequestsBalanced, NoOpen
<1> QED BY <1>1, RunInvariant, PTL

(***************************************************************************)
(* The cap on a run's tool calls is never reached when the model is        *)
(* called: the run has stopped before.                                     *)
(***************************************************************************)
THEOREM CapIsEnforced == Spec => []CapStopsRun
<1>1. IInv => CapStopsRun
  BY DEF IInv, CapInv, CapStopsRun, Working
<1> QED BY <1>1, RunInvariant, PTL

(* A save takes the persisted history to a transcript that continues it. *)
LEMMA SaveStep ==
    ASSUME IInv, phase \in Working, Saved
    PROVE  Transcript!Next
<1>1. /\ store \in Seq(Kinds) /\ msgs \in Seq(Kinds) /\ store' = msgs
      /\ Transcript!Continues(store, msgs) /\ Transcript!Balanced(msgs)
  BY DEF IInv, TypeOK, TranscriptInv, Saved
<1>2. Transcript!Save
  BY <1>1 DEF Transcript!Save
<1>3. store' \in Seq(Transcript!Kinds)
  BY <1>1 DEF Kinds, Transcript!Kinds
<1> QED BY <1>2, <1>3 DEF Transcript!Next

(* Every step of the loop saves, rewinds or leaves the persisted history. *)
LEMMA StoreStep == IInv /\ [Next]_vars => [Transcript!Next]_store
<1> SUFFICES ASSUME IInv, [Next]_vars PROVE Transcript!Next \/ UNCHANGED store
  OBVIOUS
<1>1. CASE LoadFails
  BY <1>1 DEF LoadFails, history
<1>2. CASE Load
  BY <1>2 DEF Load
<1>3. CASE FirstSave
  BY <1>3, SaveStep DEF FirstSave, SaveFails, Working
<1>4. CASE Iterate
  BY <1>4 DEF Iterate, history
<1>5. CASE CallLLM
  BY <1>5 DEF CallLLM, history
<1>6. CASE StreamAnswers
  BY <1>6 DEF StreamAnswers
<1>7. CASE StreamCallsTools
  BY <1>7 DEF StreamCallsTools
<1>8. CASE StreamFails
  BY <1>8 DEF StreamFails, history
<1>9. CASE Backoff
  BY <1>9 DEF Backoff, history
<1>10. CASE SpeculationEnds
  BY <1>10 DEF SpeculationEnds, history
<1>11. CASE SaveCalls
  BY <1>11, SaveStep DEF SaveCalls, SaveOrNotify, SaveFails, Working
<1>12. CASE ToolTurn
  BY <1>12 DEF ToolTurn, history
<1>13. CASE SaveTurn
  BY <1>13, SaveStep DEF SaveTurn, SaveOrNotify, SaveFails, Working
<1>14. CASE LastSave
  BY <1>14, SaveStep DEF LastSave, SaveFails, Working
<1>15. CASE EmitDegraded
  BY <1>15 DEF EmitDegraded, history
<1>16. CASE Emit
  BY <1>16 DEF Emit, history
<1>17. CASE Sweep
  BY <1>17 DEF Sweep, history
<1>18. CASE Run
  BY <1>18 DEF Run
<1>19. CASE Continue
  BY <1>19 DEF Continue
<1>20. CASE Resume
  BY <1>20 DEF Resume
<1>21. CASE Regenerate
  <2>1. store \in Seq(Kinds) /\ Transcript!Balanced(store)
    BY DEF IInv, TypeOK, TranscriptInv
  <2>2. ASSUME NEW u \in DOMAIN store, LastUser(u),
               store' = SubSeq(store, 1, SafeTruncate(u - 1))
        PROVE  Transcript!Next
    <3>1. store' \in Seq(Kinds) /\ Transcript!Precedes(store', store)
      BY <2>1, <2>2, Rewound
    <3>2. store' \in Seq(Transcript!Kinds)
      BY <3>1 DEF Kinds, Transcript!Kinds
    <3> QED BY <3>1, <3>2 DEF Transcript!Next, Transcript!Rewind
  <2> QED BY <1>21, <2>2 DEF Regenerate
<1>22. CASE StreamContent
  BY <1>22 DEF StreamContent, history
<1>23. CASE Speculate
  BY <1>23 DEF Speculate, history
<1>24. CASE Cancel
  BY <1>24 DEF Cancel, history
<1>25. CASE Crash
  BY <1>25 DEF Crash
<1>26. CASE UNCHANGED vars
  BY <1>26 DEF vars, history
<1> QED BY <1>1, <1>2, <1>3, <1>4, <1>5, <1>6, <1>7, <1>8, <1>9, <1>10, <1>11, <1>12,
     <1>13, <1>14, <1>15, <1>16, <1>17, <1>18, <1>19, <1>20, <1>21, <1>22, <1>23, <1>24,
     <1>25, <1>26 DEF Next, Progress

(***************************************************************************)
(* The loop keeps SessionTranscript's promise: through retries, failed     *)
(* saves, cancellations, crashes and resumed or regenerated turns, nothing *)
(* that was persisted is lost or rewritten, and no closed turn reopens.    *)
(***************************************************************************)
THEOREM RunsKeepTranscript == Spec => KeepsTranscript
<1>1. Init => Transcript!Init
  BY DEF Init, Transcript!Init
<1>2. IInv /\ [Next]_vars => [Transcript!Next]_store
  BY StoreStep
<1> QED BY <1>1, <1>2, RunInvariant, PTL DEF Spec, KeepsTranscript, Transcript!Spec

(* A speculation belongs to the attempt under way from the stream to the   *)
(* tool turn, and to no later one before.                                  *)
FreshInv ==
    /\ spec = NoSpec \/ spec.state # "none"
    /\ phase \in {"load", "firstSave"} => spec = NoSpec
    /\ phase \in {"stream", "saveCalls", "tools"} /\ spec # NoSpec => spec.at = calls

(* Only the attempt under way has shown content, and only if emitted.      *)
ShownInv ==
    /\ streamed <= 1
    /\ phase \in {"attempt", "backoff"} => streamed = 0
    /\ phase = "stream" => emitted \/ streamed = 0

(* The degradations are reported by one event, which leaves none to file:  *)
(* until then each one consumed is filed.                                  *)
ReportInv ==
    /\ reported = <<>> \/ (phase \in {"idle", "emit", "sweep"} /\ acc = {} /\ Len(reported) = 1)
    /\ phase \in {"emit", "sweep"} /\ ending = "done" => acc = {}
    /\ phase # "idle" => ~crashed
    /\ ~crashed => consumed \subseteq acc \cup Reported
    /\ phase = "idle" /\ ~crashed => acc = {}
    /\ phase = "idle" /\ Ends(terminal, "done") => consumed \subseteq Reported

LEMMA FreshStep == IInv /\ FreshInv /\ [Next]_vars => FreshInv'
<1> SUFFICES ASSUME DataType, FreshInv, BoundInv, [Next]_vars PROVE FreshInv'
  BY TypeParts DEF IInv
<1> USE DEF DataType, FreshInv, BoundInv
<1>1. CASE LoadFails
  BY <1>1 DEF LoadFails, GoTo, Fail, Quiet, Aside, history, loop, llm, degradation
<1>2. CASE Load
  BY <1>2 DEF Load, GoTo, Quiet, Aside, loop, llm, degradation
<1>3. CASE FirstSave
  BY <1>3 DEF FirstSave, GoTo, Fail, Quiet, Aside, Saved, SaveFails, loop, llm, degradation
<1>4. CASE Iterate
  BY <1>4 DEF Iterate, GoTo, Finish, NoSpec, history, loop, degradation
<1>5. CASE CallLLM
  BY <1>5 DEF CallLLM, GoTo, NoSpec, history, frames
<1>6. CASE StreamAnswers
  BY <1>6 DEF StreamAnswers, GoTo, Finish, Quiet, Aside, NoSpec, loop, llm, degradation
<1>7. CASE StreamCallsTools
  BY <1>7 DEF StreamCallsTools, GoTo, Quiet, Aside, llm, degradation
<1>8. CASE StreamFails
  BY <1>8 DEF StreamFails, GoTo, Finish, MayRetry, Verdict, history, loop, llm, degradation
<1>9. CASE Backoff
  BY <1>9 DEF Backoff, GoTo, Finish, history, loop, degradation
<1>10. CASE SpeculationEnds
  <2>1. PICK s \in {"clean", "failed", "degraded"} : spec' = [spec EXCEPT !.state = s]
    BY <1>10 DEF SpeculationEnds
  <2>2. spec'.state = s /\ spec'.at = spec.at
    BY <2>1
  <2>3. spec # NoSpec
    BY <1>10 DEF SpeculationEnds, NoSpec
  <2>4. UNCHANGED <<phase, calls>>
    BY <1>10 DEF SpeculationEnds, loop
  <2> QED BY <2>2, <2>3, <2>4
<1>11. CASE SaveCalls
  BY <1>11 DEF SaveCalls, SaveOrNotify, GoTo, Quiet, Aside, Saved, SaveFails, loop, llm,
       degradation
<1>12. CASE ToolTurn
  BY <1>12 DEF ToolTurn, GoTo, Finish, NoSpec, FirstCall, loop, llm
<1>13. CASE SaveTurn
  BY <1>13 DEF SaveTurn, SaveOrNotify, GoTo, Finish, Quiet, Aside, Saved, SaveFails,
       CapReached, llm, degradation
<1>14. CASE LastSave
  BY <1>14 DEF LastSave, GoTo, Quiet, Aside, Saved, SaveFails, loop, llm, degradation
<1>15. CASE EmitDegraded
  BY <1>15 DEF EmitDegraded, GoTo, Report, Drain, history, loop, llm, frames
<1>16. CASE Emit
  BY <1>16 DEF Emit, GoTo, history, loop, llm, degradation
<1>17. CASE Sweep
  BY <1>17 DEF Sweep, GoTo, Report, Drain, history, loop, llm, frames
<1>18. CASE Run
  BY <1>18 DEF Run, NewRun, Starts, NoSpec
<1>19. CASE Continue
  BY <1>19 DEF Continue, NewRun, Starts, Announced, NoSpec
<1>20. CASE Resume
  BY <1>20 DEF Resume, NewRun, Starts, Announced, NoSpec
<1>21. CASE Regenerate
  BY <1>21 DEF Regenerate, NewRun, Starts, Announced, NoSpec
<1>22. CASE StreamContent
  BY <1>22 DEF StreamContent, history, loop, frames, degradation
<1>23. CASE Speculate
  <2>1. spec'.state = "running" /\ spec'.at = calls
    BY <1>23 DEF Speculate
  <2>2. phase = "stream" /\ UNCHANGED <<phase, calls>>
    BY <1>23 DEF Speculate, loop
  <2> QED BY <2>1, <2>2
<1>24. CASE Cancel
  BY <1>24 DEF Cancel, history, loop, llm, frames, degradation
<1>25. CASE Crash
  BY <1>25 DEF Crash, GoTo, NoSpec, loop, llm, frames
<1>26. CASE UNCHANGED vars
  BY <1>26 DEF vars, history, loop, llm, frames, degradation
<1> QED BY <1>1, <1>2, <1>3, <1>4, <1>5, <1>6, <1>7, <1>8, <1>9, <1>10, <1>11, <1>12,
     <1>13, <1>14, <1>15, <1>16, <1>17, <1>18, <1>19, <1>20, <1>21, <1>22, <1>23, <1>24,
     <1>25, <1>26 DEF Next, Progress

LEMMA ShownStep == IInv /\ ShownInv /\ [Next]_vars => ShownInv'
<1> SUFFICES ASSUME DataType, FlagType, ShownInv, [Next]_vars PROVE ShownInv'
  BY TypeParts DEF IInv
<1> USE DEF DataType, FlagType, ShownInv
<1>1. CASE LoadFails
  BY <1>1 DEF LoadFails, GoTo, Fail, Quiet, Aside, history, loop, llm, degradation
<1>2. CASE Load
  BY <1>2 DEF Load, GoTo, Quiet, Aside, loop, llm, degradation
<1>3. CASE FirstSave
  BY <1>3 DEF FirstSave, GoTo, Fail, Quiet, Aside, Saved, SaveFails, loop, llm, degradation
<1>4. CASE Iterate
  BY <1>4 DEF Iterate, GoTo, Finish, NoSpec, history, loop, degradation
<1>5. CASE CallLLM
  BY <1>5 DEF CallLLM, GoTo, NoSpec, history, frames
<1>6. CASE StreamAnswers
  BY <1>6 DEF StreamAnswers, GoTo, Finish, Quiet, Aside, NoSpec, loop, llm, degradation
<1>7. CASE StreamCallsTools
  BY <1>7 DEF StreamCallsTools, GoTo, Quiet, Aside, llm, degradation
<1>8. CASE StreamFails
  BY <1>8 DEF StreamFails, GoTo, Finish, MayRetry, Verdict, history, loop, llm, degradation
<1>9. CASE Backoff
  BY <1>9 DEF Backoff, GoTo, Finish, history, loop, degradation
<1>10. CASE SpeculationEnds
  BY <1>10 DEF SpeculationEnds, history, loop, llm, frames, degradation
<1>11. CASE SaveCalls
  BY <1>11 DEF SaveCalls, SaveOrNotify, GoTo, Quiet, Aside, Saved, SaveFails, loop, llm,
       degradation
<1>12. CASE ToolTurn
  BY <1>12 DEF ToolTurn, GoTo, Finish, NoSpec, FirstCall, loop, llm
<1>13. CASE SaveTurn
  BY <1>13 DEF SaveTurn, SaveOrNotify, GoTo, Finish, Quiet, Aside, Saved, SaveFails,
       CapReached, llm, degradation
<1>14. CASE LastSave
  BY <1>14 DEF LastSave, GoTo, Quiet, Aside, Saved, SaveFails, loop, llm, degradation
<1>15. CASE EmitDegraded
  BY <1>15 DEF EmitDegraded, GoTo, Report, Drain, history, loop, llm, frames
<1>16. CASE Emit
  BY <1>16 DEF Emit, GoTo, history, loop, llm, degradation
<1>17. CASE Sweep
  BY <1>17 DEF Sweep, GoTo, Report, Drain, history, loop, llm, frames
<1>18. CASE Run
  BY <1>18 DEF Run, NewRun, Starts, NoSpec
<1>19. CASE Continue
  BY <1>19 DEF Continue, NewRun, Starts, Announced, NoSpec
<1>20. CASE Resume
  BY <1>20 DEF Resume, NewRun, Starts, Announced, NoSpec
<1>21. CASE Regenerate
  BY <1>21 DEF Regenerate, NewRun, Starts, Announced, NoSpec
<1>22. CASE StreamContent
  BY <1>22 DEF StreamContent, history, loop, frames, degradation
<1>23. CASE Speculate
  BY <1>23 DEF Speculate, NoSpec, history, loop, llm, frames, degradation
<1>24. CASE Cancel
  BY <1>24 DEF Cancel, history, loop, llm, frames, degradation
<1>25. CASE Crash
  BY <1>25 DEF Crash, GoTo, NoSpec, loop, llm, frames
<1>26. CASE UNCHANGED vars
  BY <1>26 DEF vars, history, loop, llm, frames, degradation
<1> QED BY <1>1, <1>2, <1>3, <1>4, <1>5, <1>6, <1>7, <1>8, <1>9, <1>10, <1>11, <1>12,
     <1>13, <1>14, <1>15, <1>16, <1>17, <1>18, <1>19, <1>20, <1>21, <1>22, <1>23, <1>24,
     <1>25, <1>26 DEF Next, Progress

LEMMA SameReports == reported' = reported => Reported' = Reported
  BY DEF Reported

(* Report makes one event of what is filed. *)
LEMMA ReportOnce ==
    ASSUME DataType, Report, reported = <<>> \/ (acc = {} /\ Len(reported) = 1)
    PROVE  /\ acc' = {} /\ (reported' = <<>> \/ Len(reported') = 1)
           /\ acc \cup Reported \subseteq Reported'
<1>1. acc' = {}
  BY DEF Report, Drain
<1>2. CASE acc = {}
  <2>1. reported' = reported
    BY <1>2 DEF Report
  <2> QED BY <1>1, <1>2, <2>1, SameReports
<1>3. CASE acc # {} /\ reported = <<>>
  <2>1. reported' = <<acc>>
    BY <1>3 DEF Report
  <2>2. Len(reported') = 1 /\ 1 \in DOMAIN reported' /\ reported'[1] = acc
    BY <2>1
  <2>3. Reported = {}
    BY <1>3 DEF Reported
  <2>4. acc \subseteq Reported'
    BY <2>2 DEF Reported
  <2> QED BY <1>1, <2>2, <2>3, <2>4
<1> QED BY <1>2, <1>3

(* Done is shown by the frame that ends the run. *)
LEMMA DoneEnds ==
    ASSUME DataType, FrameInv, Ends(terminal, "done"), phase # "idle"
    PROVE  phase = "sweep" /\ ending = "done"
<1>1. ~Noticed(terminal)
  <2>1. terminal \in Seq(Verdicts \cup Notices)
    BY DEF DataType
  <2>2. Len(terminal) \in DOMAIN terminal /\ terminal[Len(terminal)] = "done"
    BY <2>1 DEF Ends
  <2> QED BY <2>2 DEF Noticed, Notices
<1> QED BY <1>1 DEF FrameInv, Ends

LEMMA ReportStep == IInv /\ ReportInv /\ [Next]_vars => ReportInv'
<1> SUFFICES ASSUME DataType, FlagType, FrameInv, ReportInv, [Next]_vars PROVE ReportInv'
  BY TypeParts DEF IInv
<1> USE SameReports DEF DataType, FlagType, ReportInv
<1>1. CASE LoadFails
  BY <1>1 DEF LoadFails, GoTo, Fail, Quiet, Aside, history, loop, llm, degradation
<1>2. CASE Load
  BY <1>2 DEF Load, GoTo, Quiet, Aside, loop, llm, degradation
<1>3. CASE FirstSave
  BY <1>3 DEF FirstSave, GoTo, Fail, Quiet, Aside, Saved, SaveFails, loop, llm, degradation
<1>4. CASE Iterate
  BY <1>4 DEF Iterate, GoTo, Finish, NoSpec, history, loop, degradation
<1>5. CASE CallLLM
  BY <1>5 DEF CallLLM, GoTo, NoSpec, history, frames
<1>6. CASE StreamAnswers
  BY <1>6 DEF StreamAnswers, GoTo, Finish, Quiet, Aside, NoSpec, loop, llm, degradation
<1>7. CASE StreamCallsTools
  BY <1>7 DEF StreamCallsTools, GoTo, Quiet, Aside, llm, degradation
<1>8. CASE StreamFails
  BY <1>8 DEF StreamFails, GoTo, Finish, MayRetry, Verdict, history, loop, llm, degradation
<1>9. CASE Backoff
  BY <1>9 DEF Backoff, GoTo, Finish, history, loop, degradation
<1>10. CASE SpeculationEnds
  BY <1>10 DEF SpeculationEnds, history, loop, llm, frames, degradation
<1>11. CASE SaveCalls
  BY <1>11 DEF SaveCalls, SaveOrNotify, GoTo, Quiet, Aside, Saved, SaveFails, loop, llm,
       degradation
<1>12. CASE ToolTurn
  BY <1>12 DEF ToolTurn, GoTo, Finish, NoSpec, FirstCall, loop, llm
<1>13. CASE SaveTurn
  BY <1>13 DEF SaveTurn, SaveOrNotify, GoTo, Finish, Quiet, Aside, Saved, SaveFails,
       CapReached, llm, degradation
<1>14. CASE LastSave
  BY <1>14 DEF LastSave, GoTo, Quiet, Aside, Saved, SaveFails, loop, llm, degradation
<1>15. CASE EmitDegraded
  <2>1. /\ acc' = {} /\ (reported' = <<>> \/ Len(reported') = 1)
        /\ acc \cup Reported \subseteq Reported'
    BY <1>15, ReportOnce DEF EmitDegraded
  <2>2. phase = "degraded" /\ phase' = "emit" /\ UNCHANGED <<consumed, crashed>>
    BY <1>15 DEF EmitDegraded, GoTo
  <2> QED BY <2>1, <2>2
<1>16. CASE Emit
  BY <1>16 DEF Emit, GoTo, history, loop, llm, degradation
<1>17. CASE Sweep
  <2>1. /\ acc' = {} /\ (reported' = <<>> \/ Len(reported') = 1)
        /\ acc \cup Reported \subseteq Reported'
    BY <1>17, ReportOnce DEF Sweep
  <2>2. phase = "sweep" /\ phase' = "idle" /\ UNCHANGED <<consumed, crashed>>
    BY <1>17 DEF Sweep, GoTo
  <2> QED BY <2>1, <2>2
<1>18. CASE Run
  BY <1>18 DEF Run, NewRun, Starts, NoSpec
<1>19. CASE Continue
  BY <1>19 DEF Continue, NewRun, Starts, Announced, NoSpec
<1>20. CASE Resume
  BY <1>20 DEF Resume, NewRun, Starts, Announced, NoSpec
<1>21. CASE Regenerate
  BY <1>21 DEF Regenerate, NewRun, Starts, Announced, NoSpec
<1>22. CASE StreamContent
  BY <1>22 DEF StreamContent, history, loop, frames, degradation
<1>23. CASE Speculate
  BY <1>23 DEF Speculate, NoSpec, history, loop, llm, frames, degradation
<1>24. CASE Cancel
  BY <1>24 DEF Cancel, history, loop, llm, frames, degradation
<1>25. CASE Crash
  <2>1. /\ phase # "idle" /\ phase' = "idle" /\ crashed' = TRUE /\ acc' = {}
        /\ UNCHANGED <<reported, consumed, terminal, ending>>
    BY <1>25 DEF Crash, GoTo, frames
  <2>2. ASSUME Ends(terminal, "done")
        PROVE  consumed \subseteq Reported
    <3>1. phase = "sweep" /\ ending = "done"
      BY <2>1, <2>2, DoneEnds
    <3> QED BY <2>1, <3>1
  <2>3. ~crashed'
        => consumed' \subseteq acc' \cup Reported'
    BY <2>1
  <2>4. reported' = <<>> \/ (phase' = "idle" /\ acc' = {} /\ Len(reported') = 1)
    BY <2>1
  <2> QED BY <2>1, <2>2, <2>3, <2>4
<1>26. CASE UNCHANGED vars
  BY <1>26 DEF vars, history, loop, llm, frames, degradation
<1> QED BY <1>1, <1>2, <1>3, <1>4, <1>5, <1>6, <1>7, <1>8, <1>9, <1>10, <1>11, <1>12,
     <1>13, <1>14, <1>15, <1>16, <1>17, <1>18, <1>19, <1>20, <1>21, <1>22, <1>23, <1>24,
     <1>25, <1>26 DEF Next, Progress


LEMMA InitIsolation == Init => FreshInv /\ ShownInv /\ ReportInv
<1> SUFFICES ASSUME Init PROVE FreshInv /\ ShownInv /\ ReportInv
  OBVIOUS
<1>1. FreshInv /\ ShownInv
  BY DEF Init, FreshInv, ShownInv
<1>2. ReportInv
  BY DEF Init, ReportInv
<1> QED BY <1>1, <1>2

(***************************************************************************)
(* Whatever attempts of the model call fail, are retried, cancelled or     *)
(* killed: text is shown by one attempt of an iteration, a tool turn       *)
(* consumes speculations of its own response only, and every degradation   *)
(* it consumed is reported by one event (callLLM, emitDegradedIfAny).      *)
(***************************************************************************)
THEOREM AttemptsStayIsolated == Spec => []AttemptsAreIsolated
<1>1. FreshInv /\ ShownInv => SpeculationIsFresh /\ ShownOnce
  BY DEF FreshInv, ShownInv, SpeculationIsFresh, ShownOnce
<1>2. IInv /\ ReportInv => DegradedReportedOnce
  <2> SUFFICES ASSUME DataType, FrameInv, ReportInv PROVE DegradedReportedOnce
    BY TypeParts DEF IInv
  <2>1. \A i, j \in DOMAIN reported : i = j
    <3>1. CASE reported = <<>>
      BY <3>1
    <3>2. CASE Len(reported) = 1
      <4>1. DOMAIN reported = 1..1
        BY <3>2 DEF DataType
      <4> QED BY <4>1
    <3> QED BY <3>1, <3>2 DEF ReportInv
  <2>2. ASSUME Over PROVE consumed \subseteq Reported
    BY <2>2 DEF Over, ReportInv
  <2>3. ASSUME Ends(terminal, "done") PROVE consumed \subseteq Reported
    <3>1. CASE phase = "idle"
      BY <2>3, <3>1 DEF ReportInv
    <3>2. CASE phase # "idle"
      BY <2>3, <3>2, DoneEnds DEF ReportInv
    <3> QED BY <3>1, <3>2
  <2> QED BY <2>1, <2>2, <2>3 DEF DegradedReportedOnce
<1>3. Spec => [](FreshInv /\ ShownInv /\ ReportInv)
  BY InitIsolation, FreshStep, ShownStep, ReportStep, RunInvariant, PTL DEF Spec
<1> QED BY <1>1, <1>2, <1>3, RunInvariant, PTL DEF AttemptsAreIsolated
==============================================================================
