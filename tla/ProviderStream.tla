---------------------------- MODULE ProviderStream ----------------------------
(***************************************************************************)
(* A call of a model (llm/router.go, llm/anthropic, llm/openai,            *)
(* llm/gemini): the router picks a provider, the provider translates the   *)
(* history, follows the stream and returns what it put together.  The      *)
(* calls returned become part of the history that a later request, perhaps *)
(* to another provider, translates.                                        *)
(*                                                                         *)
(* Text deltas and the fragments of a call's arguments are left out: they  *)
(* are passed on and appended.                                             *)
(***************************************************************************)
EXTENDS Naturals, Sequences, FiniteSets, SequencesExt, Ordered

CONSTANTS
    Routes,       \* the providers behind the router, in order
    Fallback,     \* and the one that is asked when no condition holds
    Names,        \* the tools
    MaxTurns,     \* bound on the requests
    MaxCalls      \* bound on the tool calls of a response

ASSUME ProviderAssumption ==
    /\ Range(Routes) \union {Fallback} \subseteq {"anthropic", "openai", "gemini"}
    /\ {MaxTurns, MaxCalls} \subseteq Nat /\ "id" \notin Names   \* see Given

VARIABLES
    past,     \* the calls of each earlier turn, all with results
    call      \* the request under way

provVars == <<past, call>>

\* ready and limits are the events sent; said is the response so far, by index;
\* open is the index of the block that is not finished.
Idle == [at |-> "idle", dialect |-> "none", structured |-> FALSE, said |-> <<>>,
         open |-> 0, ready |-> {}, limits |-> 0, reason |-> "", cut |-> FALSE,
         calls |-> <<>>, err |-> "none"]

ProvInit == past = <<>> /\ call = Idle

Becomes(c) == call' = c /\ UNCHANGED past
Streams(d) == call.at = "stream" /\ call.dialect = d

-----------------------------------------------------------------------------
(* The request *)

\* Gemini pairs a response with its call by name: the name the id has in the
\* turn that came last.
functionResponseName(turns, id) ==
    LET uses == {p \in (1 .. Len(turns)) \X (1 .. MaxCalls) :
                     p[2] \in 1 .. Len(turns[p[1]]) /\ turns[p[1]][p[2]].id = id}
        last == CHOOSE p \in uses : \A q \in uses : q[1] < p[1] \/ (q[1] = p[1] /\ q[2] <= p[2])
    IN turns[last[1]][last[2]].name

\* Only a user's message may carry media, and only what the API takes.
Renders(m) == m.part = "none" \/ (m.role = "user" /\ m.part \in {"text", "image"})
Message == [role : {"user", "other"}, part : {"none", "text", "empty", "image", "video"}]

Opens(d, m, structured) ==
    IF Renders(m) THEN Becomes([Idle EXCEPT !.at = "stream", !.dialect = d, !.structured = structured])
    ELSE Becomes([Idle EXCEPT !.at = "done", !.dialect = d, !.err = "unrenderable"])

Refused(d, err) == Becomes([Idle EXCEPT !.at = "done", !.dialect = d, !.err = err])

\* A schema becomes a tool the model must call.  An earlier call must have
\* arguments that parse; another provider may have returned it without.
AnthropicRequest ==
    \/ \E m \in Message, structured \in BOOLEAN : Opens("anthropic", m, structured)
    \/ past # <<>> /\ Refused("anthropic", "corrupt arguments")
\* A schema fails the request where the endpoint has no JSON mode.
OpenAIRequest ==
    \/ \E m \in Message : Opens("openai", m, FALSE)
    \/ Refused("openai", "no json mode")
GeminiRequest == \E m \in Message : Opens("gemini", m, FALSE)

\* The first route whose condition holds, or the fallback; the conditions look
\* at the conversation, so any of them may hold.
Routed(matching) ==
    IF matching = {} THEN Fallback ELSE Routes[CHOOSE i \in matching : \A j \in matching : i <= j]

GenerateStream ==
    /\ call.at = "idle" /\ Len(past) < MaxTurns
    /\ \E matching \in SUBSET DOMAIN Routes :
          LET d == Routed(matching)
          IN \/ d = "anthropic" /\ AnthropicRequest
             \/ d = "openai" /\ OpenAIRequest
             \/ d = "gemini" /\ GeminiRequest

-----------------------------------------------------------------------------
(* Tool calls *)

NewCall(id, name) == [id |-> id, name |-> name]
Heard == (UNION {ToSet(past[t]) : t \in DOMAIN past}) \union ToSet(call.said)
\* The id a service gives a call; it gives none twice.
Given == LET taken == {k.id.n : k \in {c \in Heard : c.id.base = "id"}}
         IN [base |-> "id", n |-> CHOOSE n \in 1 .. Cardinality(taken) + 1 : n \notin taken]
CanCall == call.reason = "" /\ Len(call.said) < MaxCalls

\* OpenAI: the deltas of parallel calls arrive mixed, each with the index of its
\* call; the first one brings id and name.
OpenAIDelta ==
    /\ Streams("openai") /\ CanCall
    /\ \E n \in Names : Becomes([call EXCEPT !.said = Append(@, NewCall(Given, n))])

\* Anthropic: one block after the other; with a schema the synthesized tool is
\* called, and no other.
BlockStart ==
    /\ Streams("anthropic") /\ CanCall /\ call.open = 0
    /\ \E n \in IF call.structured THEN {"structured"} ELSE Names :
          Becomes([call EXCEPT !.said = Append(@, NewCall(Given, n)),
                               !.open = Len(call.said) + 1])

\* The loop may start the call from here on.
BlockStop ==
    /\ Streams("anthropic") /\ call.open > 0 /\ call.reason = ""
    /\ Becomes([call EXCEPT !.ready = @ \union {call.open}, !.open = 0])

\* The SDK cannot take up a block that was cut; without content that is an error.
AccumulateFails ==
    /\ Streams("anthropic") /\ call.open > 0 /\ call.reason = ""
    /\ Becomes([call EXCEPT !.limits = @ + 1, !.cut = TRUE, !.at = "ended"])

\* Mutant of pendingCallID: the name alone.
pendingCallName(name) == [base |-> name, n |-> 1]
\* A call without an id gets its name, and a number when that is taken.
pendingCallID(name) ==
    [base |-> name,
     n |-> Cardinality({i \in 1 .. Len(call.said) : call.said[i].name = name}) + 1]

\* Gemini: a part holds a whole call.
GeminiPart ==
    /\ Streams("gemini") /\ CanCall
    /\ \E n \in Names : \E id \in {Given, pendingCallID(n)} :
          Becomes([call EXCEPT !.said = Append(@, NewCall(id, n))])

-----------------------------------------------------------------------------
(* The end *)

\* The reason arrives before the stream ends; a clean one after whole blocks.
FinishReason ==
    /\ call.at = "stream" /\ call.reason = ""
    /\ \E r \in {"stop", "length", "filter", "other"} :
          /\ r = "stop" => call.open = 0
          /\ Becomes([call EXCEPT !.reason = r])

\* classifyErr: a connection that fails with 401 or 403 is not worth a retry.
\* Nothing of the response is returned.
StreamBreaks ==
    /\ call.at = "stream"
    /\ \E e \in {"auth", "transient"} : Becomes([call EXCEPT !.at = "done", !.err = e])

StreamEnds == call.at = "stream" /\ Becomes([call EXCEPT !.at = "ended"])

\* stopReasonErr, finishReasonErr: no reason at all counts as a clean stop.
reasonErr(r) == CASE r \in {"", "stop"} -> "none"
                  [] r = "length" -> "truncated"
                  [] r = "filter" -> "blocked"
                  [] OTHER -> "incomplete"

\* What arrived rides on an error too, and the token limit is announced.
Returns(reason, calls, limits) ==
    Becomes([call EXCEPT !.at = "done", !.err = reasonErr(reason), !.calls = calls,
                         !.limits = @ + limits])
Limits(reason) == IF reason = "length" THEN 1 ELSE 0
Ended(d) == call.at = "ended" /\ call.dialect = d

\* Mutant of Reason: a cut block leaves the reason the service gave, if any.
ReasonGiven(c) == c.reason
\* The reason that counts; a cut block was cut by the token limit.
Reason(c) == IF c.cut THEN "length" ELSE c.reason

\* An unfinished block is dropped, unless its arguments happen to parse.
Extracted(c) ==
    IF c.open = 0 THEN {c.said} ELSE {Front(c.said)} \union IF c.cut THEN {} ELSE {c.said}

\* The arguments of the synthesized tool are the content.
AnthropicReturn ==
    /\ Ended("anthropic")
    /\ \E got \in Extracted(call) :
          Returns(Reason(call), AtPositions(got, {i \in DOMAIN got : got[i].name # "structured"}),
                  IF call.cut THEN 0 ELSE Limits(call.reason))

OpenAIReturn == Ended("openai") /\ Returns(call.reason, call.said, Limits(call.reason))
GeminiReturn == Ended("gemini") /\ Returns(call.reason, call.said, Limits(call.reason))

\* The loop runs the calls of a response without error and asks again.
NextTurn ==
    /\ call.at = "done" /\ call' = Idle
    /\ past' = IF call.err = "none" /\ call.calls # <<>> THEN Append(past, call.calls) ELSE past

ProvNext ==
    \/ GenerateStream \/ OpenAIDelta \/ BlockStart \/ BlockStop
    \/ AccumulateFails \/ GeminiPart \/ FinishReason \/ StreamBreaks \/ StreamEnds
    \/ AnthropicReturn \/ OpenAIReturn \/ GeminiReturn \/ NextTurn

ProvSpec == ProvInit /\ [][ProvNext]_provVars

-----------------------------------------------------------------------------
(* Properties *)

(* A response that is known to be cut, because the service gave a reason   *)
(* for it or the SDK could not take up a block, is an error of the right   *)
(* kind, the limit is announced once, a success that has a reason has      *)
(* every call, and a call the loop was allowed to start early is always    *)
(* among those returned (stopReasonErr, finishReasonErr, GenerateStream).  *)
(* Of a stream that ends with no reason, in the middle of a block perhaps, *)
(* nothing is said: the code takes it for a whole response.                *)
ReportedCutIsNoSuccess ==
    call.at = "done" /\ call.err \in {"none", "truncated", "blocked", "incomplete"} =>
        /\ call.err = "none" => call.reason \in {"", "stop"} /\ ~call.cut
        /\ call.limits = IF call.err = "truncated" THEN 1 ELSE 0
        /\ \A i \in DOMAIN call.said :
              i \in call.ready \/ (call.err = "none" /\ call.reason # "") =>
                  call.said[i].name = "structured" \/ call.said[i] \in ToSet(call.calls)

(* A result finds its call, with every provider that may answer next: the  *)
(* ids of a turn are distinct, and the name Gemini is told for an id is    *)
(* the name of the call, although ids come back in later turns             *)
(* (pendingCallID, functionResponseName).                                  *)
ResultsFindTheirCalls ==
    \A t \in 1 .. Len(past) :
        LET turn == past[t]
        IN /\ \A i, j \in 1 .. Len(turn) : turn[i].id = turn[j].id => i = j
           /\ \A i \in 1 .. Len(turn) :
                 functionResponseName(SubSeq(past, 1, t), turn[i].id) = turn[i].name

(* What a provider's adapter owes the loop (GenerateStream).               *)
StreamIsTruthful == ReportedCutIsNoSuccess /\ ResultsFindTheirCalls
=============================================================================
