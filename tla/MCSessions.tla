----------------------------- MODULE MCSessions -----------------------------
(***************************************************************************)
(* What a session leaves behind: its history and the requests derived from *)
(* it, its file, and the notes distilled from it.  The three meet only in  *)
(* the sequence of messages, which each has in its own form, so a          *)
(* behaviour runs one of them, the one in focus, and the state space is    *)
(* the sum of theirs.                                                      *)
(***************************************************************************)
EXTENDS Conversation, FileSessions, Consolidation

VARIABLE focus

SessInit == focus \in {"history", "files", "notes"} /\ ConvInit /\ Init /\ NotesInit

SessNext ==
    /\ UNCHANGED focus
    /\ \/ focus = "history" /\ ConvNext /\ UNCHANGED <<vars, noteVars>>
       \/ focus = "files" /\ Next /\ UNCHANGED <<convVars, noteVars>>
       \/ focus = "notes" /\ NotesNext /\ UNCHANGED <<convVars, vars>>

SessSpec == SessInit /\ [][SessNext]_<<focus, convVars, vars, noteVars>>
=============================================================================
