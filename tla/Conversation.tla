----------------------------- MODULE Conversation -----------------------------
(***************************************************************************)
(* From stored history to the messages of one LLM call (compaction.go,     *)
(* history_window.go, pruning.go, loop_iteration_helpers.go): the newest   *)
(* compaction record folds what it covers into the system message, the     *)
(* window drops the oldest turns, the budget prunes what is left.  Runs,   *)
(* tool turns, interruptions, Continue and Regenerate make the history.    *)
(*                                                                         *)
(* A text is stood for by its size class, a summary by the identities of   *)
(* the messages it tells of.                                               *)
(***************************************************************************)
EXTENDS Integers, Sequences, FiniteSets, SequencesExt

CONSTANTS
    Window,       \* AgentLoop.HistoryWindow, 0 for none
    Budget,       \* MaxTokenBudget in units of a short message, 0 for none
    Compacts,     \* a Compactor is configured
    MaxMessages,  \* bound on the messages ever made
    MaxBulky      \* bound on the messages that are not short

ASSUME ConversationAssumption ==
    {Window, Budget, MaxMessages, MaxBulky} \subseteq Nat /\ Compacts \in BOOLEAN

VARIABLES
    log,      \* stored history
    running,  \* a run is iterating on it
    made,     \* the number of messages made so far
    omitted   \* messages the bounded input of a compaction left out

convVars == <<log, running, made, omitted>>

\* The token estimate of a text of each class.
Weight == [short |-> 1, long |-> 4, huge |-> 9, trimmed |-> 2, discarded |-> 1, clipped |-> 1]
Message(role, id) ==
    [role |-> role, id |-> id, calls |-> {}, answers |-> <<>>, size |-> "short",
     record |-> FALSE, covers |-> {}]
MaxOf(a, b) == IF a > b THEN a ELSE b
Ids(s) == {s[i].id : i \in {j \in DOMAIN s : s[j].role # "system"}}

ConvInit == log = <<>> /\ running = FALSE /\ made = 0 /\ omitted = {}

-----------------------------------------------------------------------------
(* The view of a history that has a compaction record                      *)

leadingSystem(s) ==
    CHOOSE n \in 0 .. Len(s) :
        /\ \A i \in 1 .. n : s[i].role = "system" /\ ~s[i].record
        /\ n < Len(s) => s[n + 1].role # "system" \/ s[n + 1].record

\* Positions count from 1, so 0 is the index -1 of the code.
latestCompaction(s) ==
    LET records == {i \in DOMAIN s : s[i].record}
    IN  IF records = {} THEN 0 ELSE CHOOSE i \in records : \A j \in records : j <= i

\* head messages of msgs are the system block; beyond it stored = view + shift.
compactedView(s) ==
    LET sys == leadingSystem(s)
        rec == latestCompaction(s)
        tail == SubSeq(s, rec + 1, Len(s))
    IN  IF rec = 0
        THEN [msgs |-> s, head |-> sys, shift |-> 0, synthetic |-> FALSE, record |-> 0]
        ELSE IF sys = 0
        THEN [msgs |-> <<[Message("system", 0) EXCEPT !.covers = s[rec].covers]>> \o tail,
              head |-> 1, shift |-> rec - 1, synthetic |-> TRUE, record |-> rec]
        ELSE [msgs |-> [SubSeq(s, 1, sys) EXCEPT ![1].covers = s[rec].covers] \o tail,
              head |-> sys, shift |-> rec - sys, synthetic |-> FALSE, record |-> rec]

storedIndex(v, i) ==
    CASE i > v.head -> i + v.shift
      [] i <= v.head /\ v.synthetic -> 0
      [] OTHER -> i

\* Mutant of WindowStart: the cut is not moved back to a user message.
WindowStartAnywhere(s, window) ==
    LET sys == leadingSystem(s)
        step == MaxOf(window \div 2, 1)
        excess == Len(s) - sys - window
    IN  IF window = 0 \/ excess <= 0 THEN sys + 1
        ELSE sys + 1 + ((excess + step - 1) \div step) * step

(* historyWindowStart: the first message kept after the system block. *)
WindowStart(s, window) ==
    LET sys == leadingSystem(s)
        step == MaxOf(window \div 2, 1)
        excess == Len(s) - sys - window
        cut == sys + 1 + ((excess + step - 1) \div step) * step
        users == {i \in DOMAIN s : sys + 2 <= i /\ i <= cut /\ s[i].role = "user"}
    IN  IF window = 0 \/ excess <= 0 \/ users = {} THEN sys + 1
        ELSE CHOOSE i \in users : \A j \in users : j <= i

applyHistoryWindow(s, start) ==
    SubSeq(s, 1, leadingSystem(s)) \o SubSeq(s, start, Len(s))

-----------------------------------------------------------------------------
(* The budget                                                              *)

estimateTokens(s) == FoldLeft(LAMBDA n, m : n + Weight[m.size], 0, s)

\* The class of a pruned message; the last protectedEnds are not touched.
Pruned(m) ==
    CASE m.size = "huge" -> "discarded" [] m.size = "long" -> "trimmed" [] OTHER -> m.size
pruneContextMessages(s, protectedEnds) ==
    [i \in DOMAIN s |->
        IF s[i].role \in {"tool", "assistant"} /\ i <= Len(s) - protectedEnds
        THEN [s[i] EXCEPT !.size = Pruned(s[i])] ELSE s[i]]

truncateToolArguments(s) ==
    [i \in DOMAIN s |->
        IF s[i].role = "tool" /\ s[i].size \in {"long", "huge"}
        THEN [s[i] EXCEPT !.size = "clipped"] ELSE s[i]]

\* Each pass reports the positions it rewrote.
Rewritten(s, t) == {i \in DOMAIN s : s[i] # t[i]}

applyTokenBudget(s, budget) ==
    LET est == estimateTokens(s)
        warn == budget > 0 /\ est > (budget * 85) \div 100 /\ est <= budget
        clipped == IF warn THEN truncateToolArguments(s) ELSE s
        emergency == budget > 0 /\ estimateTokens(clipped) > budget
        pruned == pruneContextMessages(clipped, IF emergency THEN 1 ELSE 3)
    IN  [messages |-> pruned,
         changes |-> Rewritten(s, clipped) \union Rewritten(clipped, pruned)]

\* Mutant of rebaseRefs: the positions of the windowed view are reported.
RefsOfView(refs, v, start) == {storedIndex(v, i) : i \in refs}

(* The positions in the windowed view as positions in stored history. *)
rebaseRefs(refs, v, start) ==
    {storedIndex(v, IF i > v.head THEN i + start - v.head - 1 ELSE i) : i \in refs}

historyWindow == IF Window = 0 /\ Compacts THEN 100 ELSE Window

deriveRequestMessages(s) ==
    LET v == compactedView(s)
        start == WindowStart(v.msgs, historyWindow)
        d == applyTokenBudget(applyHistoryWindow(v.msgs, start), Budget)
    IN  [d EXCEPT !.changes = rebaseRefs(@, v, start)]

-----------------------------------------------------------------------------
(* Compaction                                                              *)

(* planCompaction: the first message kept, 0 if there is nothing to compact. *)
CompactionCut(v, window) ==
    LET from == Len(v.msgs) - MaxOf(window \div 2, 1) + 1
        users == {i \in DOMAIN v.msgs :
                      v.head + 2 <= i /\ i <= from /\ v.msgs[i].role = "user"}
    IN  IF Len(v.msgs) - v.head <= window \/ users = {} THEN 0
        ELSE CHOOSE i \in users : \A j \in users : j <= i

Record(covers) == [Message("system", 0) EXCEPT !.record = TRUE, !.covers = covers]

\* Mutant of Insert: the record goes where the cut is in the view.
InsertAtViewIndex(s, v, cut, m) == InsertAt(s, cut, m)
Insert(s, v, cut, m) == InsertAt(s, storedIndex(v, cut), m)

\* The model is handed the earlier summary with the span.
Summary(s, v, span) == Ids(span) \union IF v.record = 0 THEN {} ELSE s[v.record].covers

(***************************************************************************)
(* compactHistory: without a compactor, with nothing to compact or when    *)
(* its LLM call fails the history is taken as it is.  boundSpan leaves the *)
(* oldest messages of a span out when the others fill the input of a call, *)
(* which depends on text sizes: any suffix may be what is left.            *)
(***************************************************************************)
Compactions(s) ==
    LET v == compactedView(s)
        cut == CompactionCut(v, historyWindow)
        span == SubSeq(v.msgs, v.head + 1, cut - 1)
        Bound(from) == SubSeq(span, from, Len(span))
    IN  {[msgs |-> s, left |-> {}]} \union
        IF ~Compacts \/ historyWindow = 0 \/ cut = 0 THEN {}
        ELSE {[msgs |-> Insert(s, v, cut, Record(Summary(s, v, Bound(from)))),
               left |-> Ids(span) \ Ids(Bound(from))] : from \in DOMAIN span}

-----------------------------------------------------------------------------
(* What the entry points and a run do to the history                       *)

\* Where the tool results of the assistant message at i end.
BlockEnd(s, i) ==
    LET Speaks(j) == s[j].role \in {"assistant", "user"}
    IN  CHOOSE j \in i .. Len(s) :
            /\ \A k \in i + 1 .. j : ~Speaks(k)
            /\ j < Len(s) => Speaks(j + 1)
Dangling(s, i) ==
    s[i].calls \ {s[j].answers : j \in {k \in i + 1 .. BlockEnd(s, i) : s[k].role = "tool"}}

\* Tool results are made up for the calls that have none.  Only the latest turn
\* can have such calls, and its results are numbered from last on.
patchDanglingToolCalls(s, last) ==
    LET open == {i \in DOMAIN s : Dangling(s, i) # {}}
        turn == CHOOSE i \in open : TRUE
        missing == SetToSeq(Dangling(s, turn))
    IN  IF open = {} THEN s
        ELSE SubSeq(s, 1, BlockEnd(s, turn))
             \o [k \in DOMAIN missing |->
                    [Message("tool", last + k) EXCEPT !.answers = missing[k]]]
             \o SubSeq(s, BlockEnd(s, turn) + 1, Len(s))

\* snapToSafeBoundary: the longest prefix that does not end inside a tool turn.
SafePrefix(s, n) ==
    /\ n > 0 /\ s[n].role = "assistant" => s[n].calls = {}
    /\ n > 0 /\ s[n].role = "tool" =>
          \E i \in 1 .. n - 1 : /\ s[n].answers \in s[i].calls
                                /\ Dangling(SubSeq(s, 1, n), i) = {}
SafeTruncate(s, n) == CHOOSE k \in 0 .. n : /\ SafePrefix(s, k)
                                            /\ \A j \in k + 1 .. n : ~SafePrefix(s, j)

Bulky == Cardinality({i \in DOMAIN log : log[i].size # "short"})
Save(s) ==
    /\ log' = s /\ made' = made + Cardinality({i \in Ids(s) : i > made})
    /\ made' <= MaxMessages

\* A session manager gives a session without history its system prompt, or not.
Histories == IF log # <<>> THEN {log} ELSE {<<>>, <<Message("system", 0)>>}

(* runLogicLoop: compaction, the user message, the patch, the first save. *)
Run ==
    /\ ~running /\ running' = TRUE
    /\ \E s \in Histories : \E c \in Compactions(s) :
         /\ Save(patchDanglingToolCalls(Append(c.msgs, Message("user", made + 1)), made + 1))
         /\ omitted' = omitted \union c.left

(* canContinue, continueLogicLoop *)
Continue ==
    /\ ~running /\ running' = TRUE /\ log # <<>>
    /\ \/ Last(log).role \in {"user", "tool"}
       \/ Last(log).role = "assistant" /\ Last(log).calls # {}
    /\ Save(patchDanglingToolCalls(log, made))
    /\ UNCHANGED omitted

(* Regenerate: the history is cut before the last user message. *)
Regenerate ==
    /\ ~running /\ UNCHANGED <<running, omitted>>
    /\ LET users == {i \in DOMAIN log : log[i].role = "user"}
       IN  /\ users # {}
           /\ Save(SubSeq(log, 1, SafeTruncate(log, (CHOOSE i \in users : \A j \in users : j <= i) - 1)))

(* recordToolTurn: an assistant message with two calls and the results of  *)
(* those that ran; a turn with calls that wait for a decision ends the run. *)
ToolTurn ==
    /\ running /\ UNCHANGED omitted
    /\ \E n \in 0 .. 2, size \in {"short", "long", "huge"} :
         LET call(k) == <<made + 1, k>>
             asked == [Message("assistant", made + 1) EXCEPT !.calls = {call(1), call(2)}]
             result(k) == [Message("tool", made + 1 + k) EXCEPT
                              !.answers = call(k), !.size = IF k = 1 THEN size ELSE "short"]
         IN  /\ size # "short" => n > 0 /\ Bulky < MaxBulky
             /\ Save(log \o <<asked>> \o [k \in 1 .. n |-> result(k)])
             /\ running' = (n = 2)

Answer ==
    /\ running /\ running' = FALSE /\ UNCHANGED omitted
    /\ Save(Append(log, Message("assistant", made + 1)))

\* A limit, a cancellation, an error or a crash.
Stop == running /\ running' = FALSE /\ UNCHANGED <<log, made, omitted>>

ConvNext == Run \/ Continue \/ Regenerate \/ ToolTurn \/ Answer \/ Stop

ConvSpec == ConvInit /\ [][ConvNext]_convVars

-----------------------------------------------------------------------------
(* Properties *)

(* What goes to the model while a run iterates never separates a tool call *)
(* from its result, begins with a user message after the system block,     *)
(* carries no compaction record and keeps the message being answered,      *)
(* whatever the window, the records and the interruptions before it        *)
(* (deriveRequestMessages).                                                *)
RequestBalanced ==
    running =>
        LET r == deriveRequestMessages(log).messages
            sys == leadingSystem(r)
        IN  /\ r[sys + 1].role = "user"
            /\ \A i \in DOMAIN r :
                  /\ ~r[i].record
                  /\ Dangling(r, i) = {}
                  /\ r[i].role = "tool" =>
                        \E j \in 1 .. i - 1 : r[i].answers \in r[j].calls /\ BlockEnd(r, j) >= i
            /\ \A i \in DOMAIN log :
                  log[i].role = "user" /\ (\A j \in i + 1 .. Len(log) : log[j].role # "user")
                    => log[i].id \in Ids(r)

(* A summary tells of every message before its record, apart from those    *)
(* the bounded input left out, and of none after it: successive compactions, *)
(* runs that failed to compact and Regenerate in between leave no gap      *)
(* between the summary and the messages that are sent as they are          *)
(* (planCompaction, compactHistory).                                       *)
SummaryIsGapless ==
    \A rec \in {i \in DOMAIN log : log[i].record} :
        /\ Ids(SubSeq(log, 1, rec)) \subseteq log[rec].covers \union omitted
        /\ log[rec].covers \intersect Ids(SubSeq(log, rec, Len(log))) = {}

(* The positions a ContextTraceEvent reports are those of the messages the *)
(* request carries in a shortened form, in stored history and not in the   *)
(* view they were found in (ContextRef.Index, rebaseRefs).                 *)
RefsPointAtStored ==
    LET d == deriveRequestMessages(log)
        Shortened(m) == \E i \in DOMAIN d.messages :
                            d.messages[i].id = m.id /\ d.messages[i].size # m.size
    IN  d.changes = {i \in DOMAIN log : log[i].role # "system" /\ Shortened(log[i])}

(* The request a run sends and the trace it reports of it both stand for   *)
(* the stored history (deriveRequestMessages).                             *)
RequestStandsForHistory == RequestBalanced /\ RefsPointAtStored
=============================================================================
