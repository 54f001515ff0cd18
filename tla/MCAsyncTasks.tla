----------------------------- MODULE MCAsyncTasks -----------------------------
(***************************************************************************)
(* Two workers of one session and one tool call at a time.  Tasks and      *)
(* clients are strings: liveness is checked, so no symmetry is declared.   *)
(***************************************************************************)
EXTENDS AsyncTasks

TwoTasks == {"t1", "t2"}
OneClient == {"c1"}
NoneOrOne == {0, 1}
=============================================================================
