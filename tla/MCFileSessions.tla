---------------------------- MODULE MCFileSessions ----------------------------
(***************************************************************************)
(* A session and a key for its fork, one call at a time or two.            *)
(***************************************************************************)
EXTENDS FileSessions

TwoKeys == {"k1", "k2"}
OneKey == {"k1"}
OneClient == {"c1"}
TwoClients == {"c1", "c2"}
=============================================================================
