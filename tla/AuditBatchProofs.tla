--------------------------- MODULE AuditBatchProofs ---------------------------
(***************************************************************************)
(* The audit batcher loses, repeats and reorders nothing it has accepted,  *)
(* a Flush that succeeds is a barrier, and Close leaves nothing behind, for *)
(* every number of senders, queue size, batch size and number of attempts. *)
(* What the collector receives it receives in that order too (ArrivedInv). *)
(***************************************************************************)
EXTENDS AuditBatch, SequenceTheorems, TLAPS

(* A batch that has reached its size is being exported. *)
BatchesLeave == worker # "export" => Len(pending) < MaxBatch

(* What the worker does when it leaves its loop. *)
WorkerInv ==
    /\ worker = "select" => task = "batch"
    /\ worker = "drain" => task # "batch"
    /\ worker = "exited" => task = "stop" /\ queue = <<>> /\ pending = <<>>
    /\ last => worker = "export" /\ task # "batch"
    /\ last /\ task = "stop" => queue = <<>>

(* Closing comes before stopping, and no Send is under way by then. *)
CloseInv ==
    /\ task = "stop" => closer \in {"stopped", "drained", "expired"}
    /\ closer # "open" => Sending = {}
    /\ closer = "drained" => worker = "exited"
    /\ again => closer # "open"

(* The last batch of a flush reaches the flush's barrier. *)
FlushInv == \A f \in Flushers :
    /\ barrier[f] <= Len(accepted)
    /\ f = acking => flusher[f] # "idle"
    /\ last /\ f = acking => barrier[f] <= Len(settled) + Len(pending)
    /\ flusher[f] = "flushed" => barrier[f] <= Len(settled)

IInv ==
    /\ TypeOK /\ BatchesLeave /\ NoneLostOrReordered /\ WorkerInv /\ CloseInv /\ FlushInv

-----------------------------------------------------------------------------
(* Concatenations of four sequences associate.                             *)
LEMMA Reassociate ==
    ASSUME NEW S, NEW s \in Seq(S), NEW p \in Seq(S), NEW h \in Seq(S), NEW t \in Seq(S)
    PROVE  (s \o (p \o h)) \o t = (s \o p) \o (h \o t)
<1>0. p \o h \in Seq(S)
  BY ConcatProperties
<1>1. h \o t \in Seq(S)
  BY ConcatProperties
<1>2. (s \o (p \o h)) \o t = s \o ((p \o h) \o t)
  BY <1>0, ConcatAssociative
<1>3. (p \o h) \o t = p \o (h \o t)
  BY ConcatAssociative
<1>4. \A w \in Seq(S) : (s \o p) \o w = s \o (p \o w)
  <2> TAKE w \in Seq(S)
  <2> QED BY ONLY s \in Seq(S), p \in Seq(S), w \in Seq(S), ConcatAssociative
<1>5. (s \o p) \o (h \o t) = s \o (p \o (h \o t))
  BY ONLY <1>1, <1>4
<1> QED BY ONLY <1>2, <1>3, <1>5

(* Moving the head of the queue to the end of the batch keeps their        *)
(* concatenation.                                                          *)
LEMMA MoveHead ==
    ASSUME TypeOK, queue # <<>>
    PROVE  /\ Tail(queue) \in Seq(Events) /\ Len(Tail(queue)) = Len(queue) - 1
           /\ Append(pending, Head(queue)) \in Seq(Events)
           /\ Len(Append(pending, Head(queue))) = Len(pending) + 1
           /\ settled \o Append(pending, Head(queue)) \o Tail(queue)
                 = settled \o pending \o queue
<1>1. settled \in Seq(Events) /\ pending \in Seq(Events) /\ queue \in Seq(Events)
  BY DEF TypeOK
<1>2. /\ Head(queue) \in Events /\ Tail(queue) \in Seq(Events)
      /\ Len(Tail(queue)) = Len(queue) - 1 /\ Len(queue) \in Nat
  BY <1>1, HeadTailProperties, LenProperties
<1>3. /\ Append(pending, Head(queue)) \in Seq(Events)
      /\ Len(Append(pending, Head(queue))) = Len(pending) + 1
  BY <1>1, <1>2, AppendProperties
<1>4. <<Head(queue)>> \in Seq(Events)
  BY <1>2
<1>5. PICK h \in Seq(Events) : h = <<Head(queue)>>
  BY <1>4
<1>6. queue = h \o Tail(queue)
  <2>1. Len(h \o Tail(queue)) = Len(queue) /\ h \o Tail(queue) \in Seq(Events)
    BY <1>2, <1>5, ConcatProperties
  <2>2. ASSUME NEW i \in 1 .. Len(queue) PROVE queue[i] = (h \o Tail(queue))[i]
    BY <1>1, <1>2, <1>5, ConcatProperties, HeadTailProperties
  <2> QED BY <1>1, <2>1, <2>2, SeqEqual
<1>7. Append(pending, Head(queue)) = pending \o h
  BY <1>1, <1>2, <1>5, AppendIsConcat
<1>8. (settled \o (pending \o h)) \o Tail(queue) = (settled \o pending) \o (h \o Tail(queue))
  BY <1>1, <1>2, <1>5, Reassociate
<1> QED BY <1>2, <1>3, <1>6, <1>7, <1>8

(* What enters the queue enters the history of the accepted.               *)
LEMMA EnterQueue ==
    ASSUME NEW S, NEW x \in Seq(S), NEW q \in Seq(S), NEW e \in S
    PROVE  /\ Append(q, e) \in Seq(S) /\ Len(Append(q, e)) = Len(q) + 1
           /\ x \o Append(q, e) = Append(x \o q, e)
<1>1. Append(q, e) = q \o <<e>> /\ <<e>> \in Seq(S)
  BY AppendIsConcat
<1>2. x \o q \in Seq(S)
  BY ConcatProperties
<1>3. Append(x \o q, e) = (x \o q) \o <<e>>
  BY <1>2, AppendIsConcat
<1> QED BY <1>1, <1>3, ConcatAssociative, AppendProperties

(* The history is as long as its parts.                                    *)
LEMMA Lengths ==
    ASSUME TypeOK, NoneLostOrReordered
    PROVE  Len(accepted) = Len(settled) + Len(pending) + Len(queue)
<1>1. settled \in Seq(Events) /\ pending \in Seq(Events) /\ queue \in Seq(Events)
  BY DEF TypeOK
<1>2. settled \o pending \in Seq(Events) /\ Len(settled \o pending) = Len(settled) + Len(pending)
  BY <1>1, ConcatProperties
<1>3. Len((settled \o pending) \o queue) = Len(settled \o pending) + Len(queue)
  BY <1>1, <1>2, ConcatProperties
<1> QED BY <1>2, <1>3 DEF NoneLostOrReordered

-----------------------------------------------------------------------------
LEMMA InitIInv == Init => IInv
<1> SUFFICES ASSUME Init PROVE IInv
  OBVIOUS
<1>1. <<>> \in Seq(Events) /\ <<>> \in Seq(Seq(Events)) /\ Len(<<>>) = 0
  BY EmptySeq
<1>2. BufferSize >= 0 /\ MaxBatch > 0 /\ 0 \in 0 .. MaxEvents /\ 0 \in 0 .. MaxAttempts
  BY BatchAssumption
<1>3. TypeOK
  <2>1. /\ accepted \in Seq(Events) /\ settled \in Seq(Events)
        /\ collector \in Seq(Seq(Events))
    <3> SUFFICES <<>> \in Seq(Events) /\ <<>> \in Seq(Seq(Events))
      BY Zenon DEF Init
    <3> QED BY <1>1
  <2>5. sent \in 0 .. MaxEvents /\ dropped \subseteq Events /\ failed \subseteq Events
    BY <1>2 DEF Init
  <2>4. sending \in [Senders -> Seq(Events)]
    BY <1>1 DEF Init
  <2>2. /\ queue \in Seq(Events) /\ Len(queue) <= BufferSize
        /\ pending \in Seq(Events) /\ Len(pending) <= MaxBatch
    <3>1. queue = <<>> /\ pending = <<>>
      BY DEF Init
    <3>2. Len(queue) = 0 /\ Len(pending) = 0
      BY <1>1, <3>1
    <3>3. 0 <= BufferSize /\ 0 <= MaxBatch
      BY BatchAssumption
    <3> QED BY <1>1, <3>1, <3>2, <3>3, Zenon
  <2>3. /\ flusher \in [Flushers -> {"idle", "offers", "waits", "flushed", "failed"}]
        /\ barrier \in [Flushers -> Nat] /\ attempt \in 0 .. MaxAttempts
        /\ acking \in Flushers \union {NoFlusher}
    BY <1>2 DEF Init
  <2> QED BY <2>1, <2>2, <2>3, <2>4, <2>5 DEF Init, TypeOK
<1>4. NoneLostOrReordered
  BY <1>1, ConcatEmptySeq DEF Init, NoneLostOrReordered
<1>5. BatchesLeave
  BY <1>1, <1>2 DEF Init, BatchesLeave
<1>6. WorkerInv /\ CloseInv
  BY DEF Init, WorkerInv, CloseInv, Sending
<1>7. FlushInv
  BY <1>1, BatchAssumption DEF Init, FlushInv
<1> QED BY <1>3, <1>4, <1>5, <1>6, <1>7 DEF IInv

(* Send and Enqueue: under the read lock, so before Close takes the lock.  *)
LEMMA SendIInv ==
    ASSUME IInv, NEW s \in Senders, NEW n \in 1 .. MaxSend, Send(s, n) PROVE IInv'
<1> USE DEF Send, client, export, calls
<1>1. [i \in 1 .. n |-> sent + i] \in Seq(Events)
  <2>1. n \in Nat /\ \A i \in 1 .. n : sent + i \in Events
    BY BatchAssumption DEF IInv, TypeOK, Events
  <2> QED BY <2>1
<1>2. TypeOK'
  <2>1. sending' \in [Senders -> Seq(Events)]
    BY <1>1 DEF IInv, TypeOK
  <2>2. sent' \in 0 .. MaxEvents
    <3>1. n \in Nat /\ MaxEvents \in Nat
      BY BatchAssumption
    <3> QED BY <3>1 DEF IInv, TypeOK
  <2> QED BY <2>1, <2>2 DEF IInv, TypeOK
<1> QED BY <1>2 DEF IInv, BatchesLeave, NoneLostOrReordered, WorkerInv, CloseInv, FlushInv

LEMMA EnqueueIInv ==
    ASSUME IInv, NEW s \in Senders, Enqueue(s) PROVE IInv'
<1> USE DEF Enqueue, export, calls
<1>1. sending[s] \in Seq(Events) /\ Head(sending[s]) \in Events /\ Tail(sending[s]) \in Seq(Events)
  BY HeadTailProperties DEF IInv, TypeOK
<1>2. closer = "open" /\ task # "stop" /\ worker # "exited"
  BY DEF IInv, CloseInv, WorkerInv, Sending
<1>3. CASE HasRoom
  <2>0. queue' = Append(queue, Head(sending[s])) /\ accepted' = Append(accepted, Head(sending[s]))
    BY <1>3
  <2>1. /\ queue' \in Seq(Events) /\ Len(queue') = Len(queue) + 1
        /\ accepted' \in Seq(Events) /\ Len(accepted') = Len(accepted) + 1
    <3>1. queue \in Seq(Events) /\ accepted \in Seq(Events)
      BY DEF IInv, TypeOK
    <3> QED BY <1>1, <2>0, <3>1, AppendProperties
  <2>2. NoneLostOrReordered'
    <3>1. settled \o pending \in Seq(Events) /\ queue \in Seq(Events)
      BY ConcatProperties DEF IInv, TypeOK
    <3>2. (settled \o pending) \o Append(queue, Head(sending[s]))
             = Append((settled \o pending) \o queue, Head(sending[s]))
      BY <1>1, <3>1, EnterQueue
    <3>3. settled' = settled /\ pending' = pending
      OBVIOUS
    <3> QED BY <2>0, <3>2, <3>3 DEF IInv, NoneLostOrReordered
  <2>3. Len(queue) \in Nat /\ Len(accepted) \in Nat /\ BufferSize \in Nat
    BY LenProperties, BatchAssumption DEF IInv, TypeOK
  <2>4. TypeOK'
    BY <1>1, <1>3, <2>1, <2>3 DEF IInv, TypeOK, HasRoom
  <2>5. FlushInv'
    BY <1>3, <2>1, <2>3 DEF IInv, TypeOK, FlushInv
  <2> QED BY <1>2, <1>3, <2>2, <2>4, <2>5
          DEF IInv, BatchesLeave, WorkerInv, CloseInv
<1>4. CASE ~HasRoom
  <2>1. TypeOK'
    BY <1>1, <1>4 DEF IInv, TypeOK
  <2> QED BY <1>2, <1>4, <2>1
          DEF IInv, BatchesLeave, NoneLostOrReordered, WorkerInv, CloseInv, FlushInv
<1> QED BY <1>3, <1>4

-----------------------------------------------------------------------------
(* The worker. *)
LEMMA AddIInv ==
    ASSUME IInv, worker \in {"select", "drain"}, Add PROVE IInv'
<1> USE DEF Add, client, calls
<1>1. /\ settled \in Seq(Events) /\ pending \in Seq(Events) /\ queue \in Seq(Events)
      /\ queue # <<>>
  BY DEF IInv, TypeOK
<1> HIDE DEF Add, client, calls
<1>2. /\ Tail(queue) \in Seq(Events) /\ Append(pending, Head(queue)) \in Seq(Events)
      /\ Len(Append(pending, Head(queue))) = Len(pending) + 1
      /\ Len(Tail(queue)) = Len(queue) - 1
      /\ settled \o Append(pending, Head(queue)) \o Tail(queue) = settled \o pending \o queue
  BY <1>1, MoveHead DEF IInv
<1> USE DEF Add, client, calls
<1>3. /\ Len(pending) \in Nat /\ Len(queue) \in Nat /\ MaxBatch \in Nat \ {0}
      /\ BufferSize \in Nat /\ 1 \in 0 .. MaxAttempts
  BY <1>1, LenProperties, BatchAssumption
<1>4. Len(pending) < MaxBatch /\ ~last
  BY DEF IInv, BatchesLeave, WorkerInv
<1>5. TypeOK'
  BY <1>2, <1>3, <1>4 DEF IInv, TypeOK, Armed
<1>6. BatchesLeave'
  BY <1>2, <1>3, <1>4 DEF IInv, BatchesLeave, TypeOK
<1>7. NoneLostOrReordered'
  BY <1>2 DEF IInv, NoneLostOrReordered
<1>8. WorkerInv' /\ CloseInv'
  BY <1>4 DEF IInv, WorkerInv, CloseInv, Sending
<1>9. FlushInv'
  BY <1>4 DEF IInv, FlushInv
<1> QED BY <1>5, <1>6, <1>7, <1>8, <1>9 DEF IInv

LEMMA TakeIInv ==
    ASSUME IInv, TimerFires \/ TakeTimer \/ TakeStop \/ \E f \in Flushers : TakeFlush(f)
    PROVE  IInv'
<1> USE DEF client, export, calls
<1>1. 0 \in 0 .. MaxAttempts /\ 1 \in 0 .. MaxAttempts
  BY BatchAssumption
<1>2. CASE TimerFires
  BY <1>2 DEF TimerFires, IInv, TypeOK, BatchesLeave, NoneLostOrReordered, WorkerInv,
              CloseInv, FlushInv, Sending
<1>3. CASE TakeTimer
  <2>1. TypeOK'
    BY <1>1, <1>3 DEF TakeTimer, IInv, TypeOK
  <2> QED BY <1>3, <2>1 DEF TakeTimer, IInv, BatchesLeave, NoneLostOrReordered,
                            WorkerInv, CloseInv, FlushInv, Sending
<1>4. CASE TakeStop
  <2>1. TypeOK'
    BY <1>4 DEF TakeStop, IInv, TypeOK
  <2> QED BY <1>4, <2>1 DEF TakeStop, IInv, BatchesLeave, NoneLostOrReordered,
                            WorkerInv, CloseInv, FlushInv, Sending
<1>5. ASSUME NEW f \in Flushers, TakeFlush(f) PROVE IInv'
  <2>1. TypeOK'
    BY <1>5 DEF TakeFlush, IInv, TypeOK
  <2>2. ~last
    BY <1>5 DEF TakeFlush, IInv, WorkerInv
  <2>3. FlushInv'
    BY <1>5, <2>2 DEF TakeFlush, IInv, TypeOK, FlushInv
  <2> QED BY <1>5, <2>1, <2>2, <2>3 DEF TakeFlush, IInv, BatchesLeave,
                            NoneLostOrReordered, WorkerInv, CloseInv, Sending
<1> QED BY <1>2, <1>3, <1>4, <1>5

LEMMA DrainEndsIInv ==
    ASSUME IInv, DrainEnds PROVE IInv'
<1> USE DEF DrainEnds, client, export, calls
<1>1. Len(accepted) = Len(settled) + Len(pending) + Len(queue) /\ Len(queue) = 0
  BY Lengths, EmptySeq DEF IInv
<1>2. Len(settled) \in Nat /\ Len(pending) \in Nat /\ MaxBatch \in Nat \ {0}
  BY LenProperties, BatchAssumption DEF IInv, TypeOK
<1>3. CASE pending = <<>>
  <2>1. Len(pending) = 0
    BY <1>3, EmptySeq
  <2>2. TypeOK'
    <3>1. /\ worker' \in {"select", "exited"} /\ task' \in {"batch", "stop"}
          /\ acking' = NoFlusher
          /\ flusher' \in [Flushers -> {"idle", "offers", "waits", "flushed", "failed"}]
      BY <1>3 DEF IInv, TypeOK, Drained
    <3>2. UNCHANGED <<client, queue, pending, settled, failed, collector, barrier, closer, again,
                      last, attempt>> /\ timer' = "off"
      BY <1>3
    <3> QED BY <3>1, <3>2 DEF IInv, TypeOK
  <2>3. FlushInv'
    <3>1. barrier' = barrier /\ accepted' = accepted /\ settled' = settled /\ acking' = NoFlusher
      BY <1>3 DEF Drained
    <3>2. \A f \in Flushers :
             flusher'[f] = IF f = acking /\ flusher[f] = "waits" THEN "flushed" ELSE flusher[f]
      BY <1>3 DEF Drained
    <3>3. \A f \in Flushers :
             barrier[f] <= Len(accepted) /\ (flusher[f] = "flushed" => barrier[f] <= Len(settled))
      BY DEF IInv, FlushInv
    <3>4. Len(accepted) = Len(settled)
      BY <1>1, <1>2, <2>1
    <3>5. \A f \in Flushers : f # acking'
      BY <3>1, BatchAssumption
    <3>6. \A f \in Flushers : flusher'[f] = "flushed" => barrier[f] <= Len(settled)
      BY <3>2, <3>3, <3>4
    <3> QED BY <3>1, <3>3, <3>5, <3>6, Zenon DEF FlushInv
  <2>4. WorkerInv' /\ CloseInv'
    BY <1>3 DEF IInv, WorkerInv, CloseInv, Drained, Sending, TypeOK
  <2> QED BY <1>2, <1>3, <2>1, <2>2, <2>3, <2>4
          DEF IInv, BatchesLeave, NoneLostOrReordered
<1>4. CASE pending # <<>>
  <2>1. TypeOK'
    <3>1. 1 \in 0 .. MaxAttempts
      BY BatchAssumption
    <3>2. /\ UNCHANGED <<client, queue, pending, settled, failed, collector, barrier, closer, again,
                         task, acking, flusher>>
          /\ timer' = "off" /\ worker' = "export" /\ last' = TRUE /\ attempt' = 1
      BY <1>4
    <3> QED BY <3>1, <3>2 DEF IInv, TypeOK
  <2>2. FlushInv'
    BY <1>1, <1>2, <1>4 DEF IInv, TypeOK, FlushInv
  <2>3. WorkerInv' /\ CloseInv'
    BY <1>4 DEF IInv, WorkerInv, CloseInv, Sending
  <2> QED BY <1>4, <2>1, <2>2, <2>3 DEF IInv, BatchesLeave, NoneLostOrReordered
<1> QED BY <1>3, <1>4

(* A batch is settled, and the worker goes on. *)
LEMMA ResumeIInv ==
    ASSUME IInv, worker = "export", Resume, failed' \subseteq Events,
           collector' \in Seq(Seq(Events)),
           UNCHANGED <<client, queue, timer, barrier, closer, again>>
    PROVE  IInv'
<1> USE DEF Resume, client
<1>1. /\ settled \in Seq(Events) /\ pending \in Seq(Events)
      /\ settled \o pending \in Seq(Events)
      /\ Len(settled \o pending) = Len(settled) + Len(pending)
  BY ConcatProperties DEF IInv, TypeOK
<1>2. <<>> \in Seq(Events) /\ Len(<<>>) = 0 /\ MaxBatch \in Nat \ {0} /\ 0 \in 0 .. MaxAttempts
  BY EmptySeq, BatchAssumption
<1>3. Len(settled) \in Nat /\ Len(pending) \in Nat
  BY <1>1, LenProperties
<1>4. TypeOK'
  <2>1. /\ worker' \in {"select", "drain", "exited"} /\ task' \in {"batch", "flush", "stop"}
        /\ acking' \in Flushers \union {NoFlusher}
        /\ flusher' \in [Flushers -> {"idle", "offers", "waits", "flushed", "failed"}]
    BY DEF IInv, TypeOK, Drained
  <2>2. settled' \in Seq(Events) /\ pending' \in Seq(Events) /\ Len(pending') <= MaxBatch
    BY <1>1, <1>2
  <2> QED BY <1>2, <2>1, <2>2 DEF IInv, TypeOK
<1>5. NoneLostOrReordered'
  BY <1>1, ConcatEmptySeq DEF IInv, NoneLostOrReordered
<1>6. WorkerInv' /\ CloseInv'
  BY DEF IInv, WorkerInv, CloseInv, Drained, Sending, TypeOK
<1>7. FlushInv'
  <2>1. /\ Len(settled') = Len(settled) + Len(pending) /\ barrier' = barrier
        /\ accepted' = accepted /\ ~last'
    BY <1>1
  <2>2. Len(accepted) \in Nat /\ barrier \in [Flushers -> Nat]
    BY LenProperties DEF IInv, TypeOK
  <2> SUFFICES ASSUME NEW f \in Flushers
               PROVE  /\ f = acking' => flusher'[f] # "idle"
                      /\ flusher'[f] = "flushed" => barrier[f] <= Len(settled')
    BY <2>1 DEF IInv, FlushInv
  <2>3. /\ f = acking => flusher[f] # "idle"
        /\ last /\ f = acking => barrier[f] <= Len(settled) + Len(pending)
        /\ flusher[f] = "flushed" => barrier[f] <= Len(settled)
    BY DEF IInv, FlushInv
  <2>4. CASE last
    <3>1. /\ flusher'[f] = IF f = acking /\ flusher[f] = "waits" THEN "flushed" ELSE flusher[f]
          /\ acking' = NoFlusher
      BY <2>4 DEF Drained
    <3>2. f # acking'
      BY <3>1, BatchAssumption
    <3> QED BY <1>3, <2>1, <2>2, <2>3, <2>4, <3>1, <3>2
  <2>5. CASE ~last
    BY <1>3, <2>1, <2>2, <2>3, <2>5
  <2> QED BY <2>4, <2>5
<1>8. BatchesLeave'
  BY <1>2 DEF BatchesLeave
<1> QED BY <1>4, <1>5, <1>6, <1>7, <1>8 DEF IInv

LEMMA ExportIInv ==
    ASSUME IInv, Delivered \/ Retry \/ Fails PROVE IInv'
<1>1. Append(collector, pending) \in Seq(Seq(Events)) /\ EventsOf(pending) \subseteq Events
  <2>1. pending \in Seq(Events) /\ collector \in Seq(Seq(Events))
    BY DEF IInv, TypeOK
  <2>2. \A i \in DOMAIN pending : pending[i] \in Events
    BY <2>1, LenProperties, ElementOfSeq
  <2> QED BY <2>1, <2>2, AppendProperties DEF EventsOf
<1>2. CASE Delivered
  BY <1>1, <1>2, ResumeIInv DEF Delivered, IInv, TypeOK
<1>3. CASE Fails
  BY <1>1, <1>3, ResumeIInv DEF Fails, IInv, TypeOK
<1>4. CASE Retry
  <2>1. attempt' \in 0 .. MaxAttempts
    BY <1>4, BatchAssumption DEF Retry, IInv, TypeOK
  <2>2. TypeOK'
    BY <1>1, <1>4, <2>1 DEF Retry, IInv, TypeOK, client, calls
  <2> QED BY <1>4, <2>2 DEF Retry, IInv, BatchesLeave, NoneLostOrReordered, WorkerInv,
                            CloseInv, FlushInv, Sending, client, calls
<1> QED BY <1>2, <1>3, <1>4

-----------------------------------------------------------------------------
LEMMA CallsIInv ==
    ASSUME IInv,
           \/ \E f \in Flushers : Flush(f) \/ FlushFails(f)
           \/ Close \/ StopWorker \/ CloseReturns \/ CloseAgain
    PROVE  IInv'
<1> USE DEF client, export
<1>1. ASSUME NEW f \in Flushers, Flush(f) PROVE IInv'
  <2>1. Len(accepted) \in Nat
    BY LenProperties DEF IInv, TypeOK
  <2>2. TypeOK'
    BY <1>1, <2>1 DEF Flush, IInv, TypeOK
  <2>3. FlushInv'
    BY <1>1, <2>1 DEF Flush, IInv, TypeOK, FlushInv
  <2> QED BY <1>1, <2>2, <2>3 DEF Flush, IInv, BatchesLeave, NoneLostOrReordered,
                                  WorkerInv, CloseInv, Sending
<1>2. ASSUME NEW f \in Flushers, FlushFails(f) PROVE IInv'
  <2>1. TypeOK'
    BY <1>2 DEF FlushFails, IInv, TypeOK
  <2>2. FlushInv'
    BY <1>2 DEF FlushFails, IInv, TypeOK, FlushInv
  <2> QED BY <1>2, <2>1, <2>2 DEF FlushFails, IInv, BatchesLeave, NoneLostOrReordered,
                                  WorkerInv, CloseInv, Sending
<1>3. CASE Close
  BY <1>3 DEF Close, IInv, TypeOK, BatchesLeave, NoneLostOrReordered, WorkerInv,
              CloseInv, FlushInv, Sending
<1>4. CASE StopWorker
  BY <1>4 DEF StopWorker, IInv, TypeOK, BatchesLeave, NoneLostOrReordered, WorkerInv,
              CloseInv, FlushInv, Sending
<1>5. CASE CloseReturns
  BY <1>5 DEF CloseReturns, IInv, TypeOK, BatchesLeave, NoneLostOrReordered, WorkerInv,
              CloseInv, FlushInv, Sending
<1>6. CASE CloseAgain
  BY <1>6 DEF CloseAgain, IInv, TypeOK, BatchesLeave, NoneLostOrReordered, WorkerInv,
              CloseInv, FlushInv, Sending
<1> QED BY <1>1, <1>2, <1>3, <1>4, <1>5, <1>6

LEMMA NextIInv == IInv /\ [Next]_vars => IInv'
<1> SUFFICES ASSUME IInv, [Next]_vars PROVE IInv'
  OBVIOUS
<1>1. CASE UNCHANGED vars
  BY <1>1 DEF vars, client, export, calls, IInv, TypeOK, BatchesLeave,
              NoneLostOrReordered, WorkerInv, CloseInv, FlushInv, Sending
<1>2. CASE Next
  BY <1>2, SendIInv, EnqueueIInv, AddIInv, TakeIInv, DrainEndsIInv, ExportIInv, CallsIInv
     DEF Next, Worker, TakeItem, DrainItem
<1> QED BY <1>1, <1>2

(* The inductive invariant of the batcher, for every size and any number of *)
(* senders and flushers (batch.go, client.go).                              *)
THEOREM BatcherInvariant == Spec => []IInv
<1> QED BY InitIInv, NextIInv, PTL DEF Spec

(* Queue and batches keep to their sizes, whatever the exports do. *)
THEOREM BatcherTypeCorrect == Spec => []TypeOK
<1>1. IInv => TypeOK
  BY DEF IInv
<1> QED BY <1>1, BatcherInvariant, PTL

(* No event that Send accepted is lost, repeated or overtaken. *)
THEOREM NoEventLostOrReordered == Spec => []NoneLostOrReordered
<1>1. IInv => NoneLostOrReordered
  BY DEF IInv
<1> QED BY <1>1, BatcherInvariant, PTL

(* When the worker is gone, and when the first Close returns without an      *)
(* error, nothing is left in the queue or the batch, and no Send is about to *)
(* add to it; a later Close, which returns at once, vouches for the Sends    *)
(* only (client.go, Close).                                                  *)
THEOREM CloseLeavesNothing == Spec => []CloseDrains
<1>1. IInv => CloseDrains
  <2> SUFFICES ASSUME IInv PROVE CloseDrains
    OBVIOUS
  <2>1. Len(accepted) = Len(settled) + Len(pending) + Len(queue)
    BY Lengths DEF IInv
  <2>2. worker = "exited" => Len(pending) = 0 /\ Len(queue) = 0 /\ Sending = {}
    BY EmptySeq DEF IInv, WorkerInv, CloseInv
  <2>3. Len(settled) \in Nat
    BY LenProperties DEF IInv, TypeOK
  <2> QED BY <2>1, <2>2, <2>3 DEF CloseDrains, IInv, CloseInv
<1> QED BY <1>1, BatcherInvariant, PTL

(* A Flush that returns without an error has seen every event accepted      *)
(* before it decided.                                                       *)
THEOREM FlushReachesBarrier == Spec => []FlushIsBarrier
<1>1. IInv => FlushIsBarrier
  <2> SUFFICES ASSUME IInv PROVE FlushIsBarrier
    OBVIOUS
  <2>1. Len(settled) \in Nat
    BY LenProperties DEF IInv, TypeOK
  <2> QED BY <2>1 DEF IInv, TypeOK, FlushInv, FlushIsBarrier
<1> QED BY <1>1, BatcherInvariant, PTL

(* The first Close, and each Flush, that succeeds left nothing undecided of  *)
(* what it covers, for every number of senders and flushers (client.go).     *)
THEOREM CallsLeaveNothing == Spec => []CallsMeanSettled
<1>1. CloseDrains /\ FlushIsBarrier => CallsMeanSettled
  BY DEF CallsMeanSettled
<1> QED BY <1>1, CloseLeavesNothing, FlushReachesBarrier, PTL

-----------------------------------------------------------------------------
(* What the collector has received is either decided, or the batch being   *)
(* exported: a batch that arrives comes after everything decided.          *)
ArrivedInOrder ==
    \A i, j \in DOMAIN collector : i < j =>
       \/ collector[i] = collector[j]
       \/ \A d \in EventsOf(collector[i]), e \in EventsOf(collector[j]) : Precedes(d, e)

ArrivedInv ==
    /\ ArrivedInOrder
    /\ \A i \in DOMAIN collector :
          \/ worker = "export" /\ collector[i] = pending
          \/ EventsOf(collector[i]) \subseteq EventsOf(settled)
    /\ \A e \in EventsOf(settled) \ failed :
          \E i \in DOMAIN collector : e \in EventsOf(collector[i])

(* Of two parts of the accepted events, one precedes the other.            *)
LEMMA SettledPrecedePending ==
    ASSUME TypeOK, NoneLostOrReordered, NEW d \in EventsOf(settled), NEW e \in EventsOf(pending)
    PROVE  Precedes(d, e)
<1>1. PICK p \in DOMAIN settled : d = settled[p]
  BY DEF EventsOf
<1>2. PICK q \in DOMAIN pending : e = pending[q]
  BY DEF EventsOf
<1> DEFINE r == Len(settled) + q
<1>3. settled \in Seq(Events) /\ pending \in Seq(Events) /\ queue \in Seq(Events)
  BY DEF TypeOK
<1>4. /\ p \in 1 .. Len(settled) /\ q \in 1 .. Len(pending)
      /\ Len(settled) \in Nat /\ Len(pending) \in Nat /\ Len(queue) \in Nat
  BY <1>1, <1>2, <1>3, LenProperties
<1>5. accepted = (settled \o pending) \o queue
  BY DEF NoneLostOrReordered
<1>6. /\ Len(settled \o pending) = Len(settled) + Len(pending)
      /\ settled \o pending \in Seq(Events)
      /\ (settled \o pending)[p] = d /\ (settled \o pending)[r] = e
  BY <1>1, <1>2, <1>3, <1>4
<1>7. /\ p \in 1 .. Len(settled \o pending) /\ r \in 1 .. Len(settled \o pending) /\ p < r
  BY <1>4, <1>6
<1> HIDE DEF r
<1>8. PICK w \in Seq(Events) : w = settled \o pending
  BY <1>6
<1>9. accepted[p] = w[p] /\ accepted[r] = w[r] /\ p \in DOMAIN accepted /\ r \in DOMAIN accepted
  BY <1>3, <1>4, <1>5, <1>7, <1>8
<1> QED BY <1>6, <1>7, <1>8, <1>9 DEF Precedes

(* Accepting one more event changes the order of none.                     *)
LEMMA OrderStands ==
    ASSUME TypeOK, NEW x \in Events, accepted' = Append(accepted, x), UNCHANGED collector,
           ArrivedInOrder
    PROVE  ArrivedInOrder'
<1>1. \A p \in DOMAIN accepted : p \in DOMAIN accepted' /\ accepted'[p] = accepted[p]
  BY DEF TypeOK
<1>2. ASSUME NEW d, NEW e, Precedes(d, e) PROVE Precedes(d, e)'
  BY <1>1, <1>2 DEF Precedes
<1> QED BY <1>2 DEF ArrivedInOrder, EventsOf

(* A batch that arrives now is the one that arrived last or a later one.   *)
LEMMA Arrival ==
    ASSUME TypeOK, NoneLostOrReordered, ArrivedInv, worker = "export",
           collector' = Append(collector, pending), UNCHANGED accepted
    PROVE  ArrivedInOrder'
<1>1. /\ collector \in Seq(Seq(Events)) /\ pending \in Seq(Events)
      /\ Len(collector) \in Nat
  BY DEF TypeOK
<1>2. /\ DOMAIN collector' = 1 .. (Len(collector) + 1) /\ DOMAIN collector = 1 .. Len(collector)
      /\ collector'[Len(collector) + 1] = pending
      /\ \A i \in DOMAIN collector : collector'[i] = collector[i]
  BY <1>1
<1>3. ASSUME NEW d, NEW e, Precedes(d, e) PROVE Precedes(d, e)'
  BY <1>3 DEF Precedes
<1> SUFFICES ASSUME NEW i \in DOMAIN collector', NEW j \in DOMAIN collector', i < j,
                    collector'[i] # collector'[j],
                    NEW d \in EventsOf(collector'[i]), NEW e \in EventsOf(collector'[j])
             PROVE  Precedes(d, e)'
  BY DEF ArrivedInOrder, EventsOf
<1>4. i \in DOMAIN collector /\ collector'[i] = collector[i]
  BY <1>1, <1>2
<1>5. CASE j \in DOMAIN collector
  BY <1>2, <1>3, <1>4, <1>5 DEF ArrivedInv, ArrivedInOrder
<1>6. CASE j = Len(collector) + 1
  <2>1. d \in EventsOf(settled) /\ e \in EventsOf(pending)
    BY <1>2, <1>4, <1>6 DEF ArrivedInv
  <2> QED BY <2>1, <1>3, SettledPrecedePending
<1> QED BY <1>1, <1>2, <1>5, <1>6

(* What receiving the batch adds to what was received.                     *)
LEMMA Receipt ==
    ASSUME TypeOK, collector' = Append(collector, pending)
    PROVE  /\ \A i \in DOMAIN collector : i \in DOMAIN collector' /\ collector'[i] = collector[i]
           /\ \A i \in DOMAIN collector' : i \in DOMAIN collector \/ collector'[i] = pending
           /\ \E i \in DOMAIN collector' : collector'[i] = pending
<1>1. collector \in Seq(Seq(Events)) /\ pending \in Seq(Events) /\ Len(collector) \in Nat
  BY DEF TypeOK
<1>2. /\ DOMAIN collector' = 1 .. (Len(collector) + 1)
      /\ DOMAIN collector = 1 .. Len(collector)
      /\ collector'[Len(collector) + 1] = pending
      /\ \A i \in DOMAIN collector : collector'[i] = collector[i]
  BY <1>1
<1>3. Len(collector) + 1 \in DOMAIN collector'
  BY <1>1, <1>2
<1>4. \A i \in DOMAIN collector' : i \in DOMAIN collector \/ i = Len(collector) + 1
  BY <1>1, <1>2
<1>5. \A i \in DOMAIN collector : i \in DOMAIN collector'
  BY <1>1, <1>2
<1> QED BY <1>2, <1>3, <1>4, <1>5, Zenon

(* The batch is decided: received, or reported as failed.                  *)
LEMMA Decision ==
    ASSUME TypeOK, ArrivedInv, worker = "export", Resume, ArrivedInOrder',
           \/ collector' = Append(collector, pending)
           \/ collector' = collector,
           failed \subseteq failed',
           collector' = collector => EventsOf(pending) \subseteq failed'
    PROVE  ArrivedInv'
<1>1. /\ collector \in Seq(Seq(Events)) /\ pending \in Seq(Events) /\ settled \in Seq(Events)
      /\ Len(collector) \in Nat
  BY DEF TypeOK
<1>2. EventsOf(settled') = EventsOf(settled) \union EventsOf(pending)
  <2>1. settled' = settled \o pending
    BY DEF Resume
  <2>2. /\ Len(settled) \in Nat /\ Len(pending) \in Nat
        /\ DOMAIN settled = 1 .. Len(settled) /\ DOMAIN pending = 1 .. Len(pending)
        /\ DOMAIN settled' = 1 .. (Len(settled) + Len(pending))
        /\ \A k \in 1 .. Len(settled) : settled'[k] = settled[k]
        /\ \A k \in 1 .. Len(pending) : settled'[Len(settled) + k] = pending[k]
    BY <1>1, <2>1
  <2>3. EventsOf(settled') \subseteq EventsOf(settled) \union EventsOf(pending)
    <3> SUFFICES ASSUME NEW k \in DOMAIN settled'
                 PROVE  settled'[k] \in EventsOf(settled) \union EventsOf(pending)
      BY DEF EventsOf
    <3>1. CASE k \in 1 .. Len(settled)
      BY <3>1, <2>2 DEF EventsOf
    <3>2. CASE k \notin 1 .. Len(settled)
      <4>1. k - Len(settled) \in 1 .. Len(pending) /\ k = Len(settled) + (k - Len(settled))
        BY <3>2, <2>2
      <4>2. settled'[k] = pending[k - Len(settled)]
        BY <4>1, <2>2
      <4> QED BY <4>1, <4>2, <2>2 DEF EventsOf
    <3> QED BY <3>1, <3>2
  <2>4. EventsOf(settled) \subseteq EventsOf(settled')
    <3>1. \A k \in DOMAIN settled : k \in DOMAIN settled'
      BY <2>2
    <3> QED BY <3>1, <2>2 DEF EventsOf
  <2>5. EventsOf(pending) \subseteq EventsOf(settled')
    <3>1. \A k \in DOMAIN pending : Len(settled) + k \in DOMAIN settled'
      BY <2>2
    <3> QED BY <3>1, <2>2 DEF EventsOf
  <2> QED BY <2>3, <2>4, <2>5
<1>3. /\ \A i \in DOMAIN collector : i \in DOMAIN collector' /\ collector'[i] = collector[i]
      /\ \A i \in DOMAIN collector' : i \in DOMAIN collector \/ collector'[i] = pending
      /\ collector' # collector => \E i \in DOMAIN collector' : collector'[i] = pending
  <2>1. CASE collector' = collector
    BY <2>1
  <2>2. CASE collector' = Append(collector, pending)
    BY <2>2, Receipt
  <2> QED BY <2>1, <2>2
<1>4. \A i \in DOMAIN collector' : EventsOf(collector'[i]) \subseteq EventsOf(settled')
  <2> TAKE i \in DOMAIN collector'
  <2>1. CASE collector'[i] = pending
    BY <2>1, <1>2
  <2>2. CASE i \in DOMAIN collector
    BY <2>2, <1>2, <1>3 DEF ArrivedInv
  <2> QED BY <2>1, <2>2, <1>3
<1>5. ASSUME NEW e \in EventsOf(settled') \ failed'
      PROVE  \E i \in DOMAIN collector' : e \in EventsOf(collector'[i])
  <2>1. CASE e \in EventsOf(settled)
    <3>1. e \in EventsOf(settled) \ failed
      BY <2>1, <1>5
    <3>2. PICK i \in DOMAIN collector : e \in EventsOf(collector[i])
      BY <3>1 DEF ArrivedInv
    <3> QED BY <3>2, <1>3
  <2>2. CASE e \in EventsOf(pending)
    BY <2>2, <1>3, <1>5
  <2> QED BY <2>1, <2>2, <1>2
<1> QED BY <1>4, <1>5 DEF ArrivedInv, EventsOf

LEMMA InitArrived == Init => ArrivedInv
  BY DEF Init, ArrivedInv, ArrivedInOrder, EventsOf

LEMMA ArrivedStep == IInv /\ ArrivedInv /\ [Next]_vars => ArrivedInv'
<1> SUFFICES ASSUME TypeOK, NoneLostOrReordered, ArrivedInv, [Next]_vars PROVE ArrivedInv'
  BY DEF IInv
<1>1. ASSUME UNCHANGED <<accepted, collector>> PROVE ArrivedInOrder'
  BY <1>1 DEF ArrivedInv, ArrivedInOrder, Precedes, EventsOf
<1>2. ASSUME UNCHANGED <<accepted, collector, settled, failed, pending, worker>> PROVE ArrivedInv'
  BY <1>1, <1>2 DEF ArrivedInv, EventsOf
<1>3. ASSUME UNCHANGED <<accepted, collector, settled, failed>>, worker # "export" PROVE ArrivedInv'
  BY <1>1, <1>3 DEF ArrivedInv, EventsOf
<1>4. ASSUME NEW s \in Senders, Enqueue(s) PROVE ArrivedInv'
  <2>1. CASE UNCHANGED accepted
    BY <2>1, <1>2, <1>4 DEF Enqueue, export
  <2>2. CASE HasRoom
    <3>1. Head(sending[s]) \in Events /\ accepted' = Append(accepted, Head(sending[s]))
      BY <1>4, <2>2, HeadTailProperties DEF Enqueue, TypeOK
    <3>2. UNCHANGED <<pending, worker, settled, failed, collector>>
      BY <1>4 DEF Enqueue, export
    <3>3. ArrivedInOrder'
      BY <3>1, <3>2, OrderStands DEF ArrivedInv
    <3> QED BY <3>2, <3>3 DEF ArrivedInv, EventsOf
  <2> QED BY <2>1, <2>2, <1>4 DEF Enqueue
<1>5. ASSUME NEW s \in Senders, NEW n \in 1 .. MaxSend, Send(s, n) PROVE ArrivedInv'
  BY <1>2, <1>5 DEF Send, export
<1>6. CASE TakeItem \/ DrainItem \/ DrainEnds \/ TakeTimer
  BY <1>3, <1>6 DEF TakeItem, DrainItem, Add, DrainEnds, TakeTimer, client, export
<1>7. CASE TakeStop \/ \E f \in Flushers : TakeFlush(f)
  BY <1>3, <1>7 DEF TakeStop, TakeFlush, client, export
<1>8. CASE TimerFires \/ Close \/ StopWorker \/ CloseReturns \/ CloseAgain
           \/ \E f \in Flushers : Flush(f) \/ FlushFails(f)
  BY <1>2, <1>8 DEF TimerFires, Close, StopWorker, CloseReturns, CloseAgain, Flush,
                    FlushFails, client, export
<1>9. CASE Delivered
  <2>1. ArrivedInOrder'
    BY <1>9, Arrival DEF Delivered, client
  <2>2. collector' = Append(collector, pending) /\ collector' # collector /\ UNCHANGED failed
    <3>1. collector' = Append(collector, pending) /\ UNCHANGED failed
      BY <1>9 DEF Delivered
    <3>2. Len(collector') = Len(collector) + 1 /\ Len(collector) \in Nat
      BY <3>1 DEF TypeOK
    <3> QED BY <3>1, <3>2
  <2> QED BY <1>9, <2>1, <2>2, Decision DEF Delivered
<1>10. CASE Fails
  <2>1. ArrivedInOrder'
    BY <1>1, <1>10, Arrival DEF Fails, client
  <2> QED BY <1>10, <2>1, Decision DEF Fails
<1>11. CASE Retry
  <2>1. CASE UNCHANGED collector
    BY <1>2, <1>11, <2>1 DEF Retry, client
  <2>2. CASE collector' = Append(collector, pending)
    <3>1. ArrivedInOrder' /\ UNCHANGED <<pending, worker, settled, failed>> /\ worker = "export"
      BY <1>11, <2>2, Arrival DEF Retry, client
    <3>2. /\ \A i \in DOMAIN collector : i \in DOMAIN collector' /\ collector'[i] = collector[i]
          /\ \A i \in DOMAIN collector' : i \in DOMAIN collector \/ collector'[i] = pending
      BY <2>2, Receipt
    <3>3. ASSUME NEW i \in DOMAIN collector'
          PROVE  \/ worker' = "export" /\ collector'[i] = pending'
                 \/ EventsOf(collector'[i]) \subseteq EventsOf(settled')
      <4>1. CASE collector'[i] = pending
        BY <3>1, <4>1
      <4>2. CASE i \in DOMAIN collector
        BY <3>1, <3>2, <4>2 DEF ArrivedInv
      <4> QED BY <3>2, <4>1, <4>2
    <3>4. ASSUME NEW e \in EventsOf(settled') \ failed'
          PROVE  \E i \in DOMAIN collector' : e \in EventsOf(collector'[i])
      <4>1. PICK i \in DOMAIN collector : e \in EventsOf(collector[i])
        BY <3>1 DEF ArrivedInv
      <4> QED BY <3>2, <4>1
    <3> QED BY <3>1, <3>3, <3>4 DEF ArrivedInv, EventsOf
  <2> QED BY <2>1, <2>2, <1>11 DEF Retry
<1>12. CASE UNCHANGED vars
  BY <1>2, <1>12 DEF vars, client, export
<1> QED BY <1>4, <1>5, <1>6, <1>7, <1>8, <1>9, <1>10, <1>11, <1>12 DEF Next, Worker

(***************************************************************************)
(* Whatever exports time out, fail or are retried, the collector receives  *)
(* the batches in the order the events were accepted, one again only by a  *)
(* retry, and what was decided and not reported to OnError has arrived     *)
(* (exportWithRetry, batch.go).                                            *)
(***************************************************************************)
THEOREM BatchesArriveInOrder == Spec => []CollectorOrder
<1>1. ArrivedInv => CollectorOrder
  BY DEF ArrivedInv, ArrivedInOrder, CollectorOrder
<1>2. Spec => []ArrivedInv
  BY InitArrived, ArrivedStep, BatcherInvariant, PTL DEF Spec
<1> QED BY <1>1, <1>2, PTL
=============================================================================
