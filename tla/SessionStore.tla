----------------------------- MODULE SessionStore -----------------------------
(***************************************************************************)
(* What a session manager with a cache promises of one process: a session  *)
(* is a record; each operation changes one part of its latest record; what *)
(* is durable is always a whole record that was the latest one at some     *)
(* moment, never a mixture; a restart falls back to the durable records.   *)
(***************************************************************************)
CONSTANTS Keys, Sessions, NoSession

VARIABLES latest, durable

Init ==
    /\ latest = [k \in Keys |-> NoSession]
    /\ durable = [k \in Keys |-> NoSession]

\* One of the messages, the title and the tombstone changes.
Similar(s, r) ==
    \/ s.title = r.title /\ s.deleted = r.deleted
    \/ s.msgs = r.msgs /\ s.deleted = r.deleted
    \/ s.msgs = r.msgs /\ s.title = r.title

Change(k) ==
    /\ \E s \in Sessions : Similar(s, latest[k]) /\ latest' = [latest EXCEPT ![k] = s]
    /\ UNCHANGED durable

Persist(k) ==
    /\ durable' = [durable EXCEPT ![k] = latest[k]]
    /\ UNCHANGED latest

\* Changes that could not be made durable are given up before a removal.
GiveUp(k) ==
    /\ latest' = [latest EXCEPT ![k] = durable[k]]
    /\ UNCHANGED durable

Remove(k) ==
    /\ latest' = [latest EXCEPT ![k] = NoSession]
    /\ durable' = [durable EXCEPT ![k] = NoSession]

Restart == latest' = durable /\ UNCHANGED durable

Next ==
    \/ \E k \in Keys : Change(k) \/ Persist(k) \/ GiveUp(k) \/ Remove(k)
    \/ Restart

Spec == Init /\ [][Next]_<<latest, durable>>
=============================================================================
