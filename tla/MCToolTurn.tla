------------------------------ MODULE MCToolTurn ------------------------------
(***************************************************************************)
(* The scenarios of the ToolTurn runs: which tools the model can call,     *)
(* with which references, and how the loop is configured.                  *)
(***************************************************************************)
EXTENDS ToolTurn, TLC

Turn(n, tools, args, refs) == [1..n -> [tool : tools, args : args, refs : refs]]

(* What most loops have in common. *)
Loop ==
    [maxPerTurn |-> 2, maxParallel |-> 0, speculativeTools |-> FALSE, deferApprovals |-> FALSE,
     interactive |-> TRUE, maxFaults |-> 0, maxResumes |-> 0, maxToggles |-> 0]
WithTurns(loop, turns, planModes) ==
    {[turn |-> t, planMode |-> p] @@ loop : t \in turns, p \in planModes}

(* Two calls of any tool, with every combination of references, the ones   *)
(* that cannot be scheduled included.                                      *)
GatedTurns == Turn(2, {"read", "write", "denied", "escalated", "exit"}, {"x"}, SUBSET (1..2))
Blocking == WithTurns([Loop EXCEPT !.maxToggles = 1], GatedTurns, BOOLEAN)
Unattended == WithTurns([Loop EXCEPT !.interactive = FALSE], GatedTurns, BOOLEAN)

(* Three calls, of which the later ones may depend on the earlier ones,    *)
(* over two resumptions and a crash or a failed save.                      *)
DeferredTurns ==
    {t \in Turn(3, {"read", "write"}, {"x"}, SUBSET (1..2)) :
        \A c \in 1..3 : t[c].refs \subseteq 1..(c - 1)}
Deferred ==
    WithTurns([Loop EXCEPT !.deferApprovals = TRUE, !.maxFaults = 1, !.maxResumes = 2],
              DeferredTurns, {FALSE})

(* Three independent calls under a cap of two. *)
ParallelTurns == Turn(3, {"read", "write", "trusted", "unknown"}, {"x", "y"}, {{}})
Parallel == WithTurns([Loop EXCEPT !.maxPerTurn = 3, !.maxParallel = 2], ParallelTurns, {FALSE})

(* Calls that can be speculated, calls that cannot, and references. *)
SpeculativeTurns ==
    Turn(2, {"read", "write", "trusted", "denied", "exit"}, {"x"}, SUBSET (1..2))
Speculative ==
    WithTurns([Loop EXCEPT !.speculativeTools = TRUE, !.maxFaults = 1, !.maxResumes = 1,
                           !.maxToggles = 1],
              SpeculativeTurns, BOOLEAN)

(* A call the policy escalates: speculated, deferred, and resumed.         *)
EscalatedTurns == Turn(2, {"read", "write", "escalated"}, {"x"}, {{}, {1}})
Escalated ==
    WithTurns([Loop EXCEPT !.speculativeTools = TRUE, !.deferApprovals = TRUE,
                           !.maxFaults = 1, !.maxResumes = 2],
              EscalatedTurns, {FALSE})

AllScenarios ==
    Blocking \cup Unattended \cup Deferred \cup Parallel \cup Speculative \cup Escalated

(* Two gated calls, the second of which may depend on the first. *)
ResumedScenarios ==
    WithTurns([Loop EXCEPT !.deferApprovals = TRUE, !.maxResumes = 1],
              {t \in Turn(2, {"write"}, {"x"}, SUBSET (1..1)) : t[1].refs = {}}, {FALSE})

=============================================================================
