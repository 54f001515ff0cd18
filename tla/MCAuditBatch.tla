----------------------------- MODULE MCAuditBatch -----------------------------
(***************************************************************************)
(* Two senders, one Flush, a queue of two and batches of two.              *)
(***************************************************************************)
EXTENDS AuditBatch

TwoSenders == {"s1", "s2"}
OneFlusher == {"f1"}
=============================================================================
