-------------------------- MODULE MCPermissionRules --------------------------
(***************************************************************************)
(* The permission rules on arguments in which the wildcard characters      *)
(* occur as text.                                                          *)
(***************************************************************************)
EXTENDS PermissionRules

StarGlobs == {<<"*", "a">>, <<"*", "a", "b">>, <<"a", "*", "b">>}
Texts == UNION {[1 .. n -> {"a", "b", "*"}] : n \in 0 .. 3}

\* "Supports * (any sequence, including empty)" (permissions.go, globMatch),
\* whatever characters the sequence has: a call that a rule's glob stands for
\* does not fall through to the prompt.
StarStandsForAnySequence ==
    decided # NoCall =>
        ((\E list \in Lists : \E r \in rules[list] :
             r.tool = decided.tool /\ Means(r.glob, decided.args))
           => decided.decision # "prompt")
=============================================================================
