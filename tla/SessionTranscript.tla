--------------------------- MODULE SessionTranscript ---------------------------
(***************************************************************************)
(* What the agent promises of a session's persisted history, whoever runs  *)
(* on it and whatever fails: it only grows, an unanswered tool turn can    *)
(* only be its end, such a turn is closed once and for good, and only      *)
(* Regenerate takes anything away, from a user message on.                 *)
(*                                                                         *)
(* An entry is a user message, a final answer, or a tool turn: the         *)
(* assistant message with its tool results.  A turn is "open" while some   *)
(* call has no result, "tools" when its calls were answered and "sealed"   *)
(* when the missing results were made up by patchDanglingToolCalls.        *)
(***************************************************************************)
EXTENDS Naturals, Sequences

VARIABLE log

Kinds == {"user", "answer", "open", "tools", "sealed"}

(* Only the last tool turn may wait for results. *)
Balanced(s) == \A i \in DOMAIN s : s[i] = "open" => i = Len(s)

(* t continues s: nothing is dropped and only an open turn changes. *)
Continues(s, t) ==
    /\ Len(s) <= Len(t)
    /\ \A i \in DOMAIN s :
          \/ t[i] = s[i]
          \/ s[i] = "open" /\ t[i] \in {"tools", "sealed"}

(* t is what precedes one of the user messages of s. *)
Precedes(t, s) ==
    /\ Len(t) < Len(s) /\ s[Len(t) + 1] = "user"
    /\ \A i \in DOMAIN t : t[i] = s[i]

Init == log = <<>>

Save == Continues(log, log') /\ Balanced(log')

Rewind == Precedes(log', log)

Next == log' \in Seq(Kinds) /\ (Save \/ Rewind)

Spec == Init /\ [][Next]_log

=============================================================================
