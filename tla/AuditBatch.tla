------------------------------ MODULE AuditBatch ------------------------------
(***************************************************************************)
(* The audit client in ModeBatch (auditlog/client.go, batch.go): Send puts *)
(* events in a bounded queue, one worker groups them into batches and      *)
(* exports each with retries, Flush waits for what is queued, Close stops  *)
(* the worker after a last drain.                                          *)
(*                                                                         *)
(* Events are numbered as Send accepts them.  A collector may receive a    *)
(* batch whose export is reported as failed: the attempt timed out after   *)
(* delivery.  Invalid events, which Send refuses whole, are left out.      *)
(***************************************************************************)
EXTENDS Naturals, Sequences, FiniteSets

CONSTANTS
    Senders, Flushers,
    BufferSize,    \* BatchConfig.BufferSize
    MaxBatch,      \* BatchConfig.MaxBatch
    MaxAttempts,   \* Config.MaxAttempts
    MaxSend,       \* bound on the events of one Send
    MaxEvents      \* bound on the events of all

NoFlusher == "nobody"

ASSUME BatchAssumption ==
    /\ {BufferSize, MaxBatch, MaxAttempts, MaxSend} \subseteq Nat \ {0}
    /\ MaxEvents \in Nat
    /\ NoFlusher \notin Flushers

VARIABLES
    sending,    \* the events each Send has still to enqueue; it holds mu.RLock
    sent,       \* how many events were passed to Send
    accepted,   \* the events that entered the queue, in order
    dropped,    \* the events Send reported as dropped
    queue, pending,
    timer,      \* "off", "armed" or "fired"
    worker,     \* "select", "drain", "export" or "exited"
    task,       \* what it exports for: "batch", "flush" or "stop"
    last,       \* the export is the one that ends a drain
    attempt,    \* of exportWithRetry
    acking,     \* the flusher whose ack the worker holds, if any
    settled,    \* the events whose export was decided, in order
    failed,     \* those among them reported to OnError
    collector,  \* the batches the collector has received
    flusher,    \* where each Flush stands
    barrier,    \* how many events were accepted when it was called
    closer,     \* where the first Close stands
    again       \* a later Close has returned

client == <<sending, sent, accepted, dropped>>
export == <<attempt, settled, failed, collector>>
calls == <<flusher, barrier, closer, again>>
vars == <<client, queue, pending, timer, worker, task, last, acking, export, calls>>

Events == 1 .. MaxEvents

Init ==
    /\ sending = [s \in Senders |-> <<>>] /\ sent = 0
    /\ accepted = <<>> /\ dropped = {}
    /\ queue = <<>> /\ pending = <<>> /\ timer = "off"
    /\ worker = "select" /\ task = "batch" /\ last = FALSE /\ attempt = 0
    /\ acking = NoFlusher
    /\ settled = <<>> /\ failed = {} /\ collector = <<>>
    /\ flusher = [f \in Flushers |-> "idle"] /\ barrier = [f \in Flushers |-> 0]
    /\ closer = "open" /\ again = FALSE

-----------------------------------------------------------------------------
(* Send *)

\* Mutant of Sending: nothing is locked while the events are enqueued.
NotSending == {}

Sending == {s \in Senders : sending[s] # <<>>}

\* A closed client refuses the events.
Send(s, n) ==
    /\ s \notin Sending /\ sending[s] = <<>> /\ closer = "open"
    /\ sent + n <= MaxEvents
    /\ sending' = [sending EXCEPT ![s] = [i \in 1 .. n |-> sent + i]]
    /\ sent' = sent + n
    /\ UNCHANGED <<accepted, dropped, queue, pending, timer, worker, task, last, acking,
                   export, calls>>

\* Mutant of HasRoom: one event too many.
HasRoomOffByOne == Len(queue) <= BufferSize

HasRoom == Len(queue) < BufferSize

\* enqueue never blocks: what does not fit is dropped and reported.
Enqueue(s) ==
    /\ sending[s] # <<>>
    /\ sending' = [sending EXCEPT ![s] = Tail(@)]
    /\ IF HasRoom
       THEN /\ queue' = Append(queue, Head(sending[s]))
            /\ accepted' = Append(accepted, Head(sending[s]))
            /\ UNCHANGED dropped
       ELSE /\ dropped' = dropped \union {Head(sending[s])}
            /\ UNCHANGED <<queue, accepted>>
    /\ UNCHANGED <<sent, pending, timer, worker, task, last, acking, export, calls>>

-----------------------------------------------------------------------------
(* The worker *)

\* Mutant of Armed: the timer is set by a full batch only.
ArmedLate == IF Len(pending) + 1 = MaxBatch THEN "armed" ELSE timer

\* The first event of a batch starts the timer.
Armed == IF pending = <<>> THEN "armed" ELSE timer

\* add: the event joins the batch, a full batch is exported.
Add ==
    /\ queue # <<>>
    /\ queue' = Tail(queue)
    /\ pending' = Append(pending, Head(queue))
    /\ IF Len(pending) + 1 >= MaxBatch
       THEN worker' = "export" /\ timer' = "off" /\ attempt' = 1
       ELSE timer' = Armed /\ UNCHANGED <<worker, attempt>>
    /\ UNCHANGED <<client, task, last, acking, settled, failed, collector, calls>>

TakeItem == worker = "select" /\ Add

\* MaxWait has passed.
TimerFires ==
    /\ timer = "armed" /\ timer' = "fired"
    /\ UNCHANGED <<client, queue, pending, worker, task, last, acking, export, calls>>

TakeTimer ==
    /\ worker = "select" /\ timer = "fired"
    /\ worker' = IF pending = <<>> THEN "select" ELSE "export"
    /\ attempt' = IF pending = <<>> THEN 0 ELSE 1
    /\ timer' = "off"
    /\ UNCHANGED <<client, queue, pending, task, last, acking, settled, failed,
                   collector, calls>>

TakeFlush(f) ==
    /\ worker = "select" /\ flusher[f] = "offers"
    /\ worker' = "drain" /\ task' = "flush" /\ acking' = f
    /\ flusher' = [flusher EXCEPT ![f] = "waits"]
    /\ UNCHANGED <<client, queue, pending, timer, last, export, barrier, closer, again>>

TakeStop ==
    /\ worker = "select" /\ closer \in {"stopped", "expired"}
    /\ worker' = "drain" /\ task' = "stop"
    /\ UNCHANGED <<client, queue, pending, timer, last, acking, export, calls>>

DrainItem == worker = "drain" /\ Add

\* The end of a drain: acknowledge the flush, or return.
Drained ==
    /\ worker' = IF task = "stop" THEN "exited" ELSE "select"
    /\ task' = IF task = "stop" THEN "stop" ELSE "batch"
    /\ flusher' = [f \in Flushers |->
          IF f = acking /\ flusher[f] = "waits" THEN "flushed" ELSE flusher[f]]
    /\ acking' = NoFlusher

\* Mutant of DrainEnds: it leaves the partial batch.
DrainEndsPartial ==
    /\ worker = "drain" /\ queue = <<>> /\ timer' = "off"
    /\ Drained
    /\ UNCHANGED <<client, queue, pending, last, export, barrier, closer, again>>

\* The queue is empty: export the partial batch, if any.
DrainEnds ==
    /\ worker = "drain" /\ queue = <<>> /\ timer' = "off"
    /\ \/ /\ pending = <<>> /\ Drained
          /\ UNCHANGED <<last, attempt>>
       \/ /\ pending # <<>> /\ worker' = "export" /\ last' = TRUE /\ attempt' = 1
          /\ UNCHANGED <<task, acking, flusher>>
    /\ UNCHANGED <<client, queue, pending, settled, failed, collector, barrier, closer,
                   again>>

\* After an export the loop it was called from goes on.
Resume ==
    /\ pending' = <<>> /\ attempt' = 0 /\ last' = FALSE
    /\ settled' = settled \o pending
    /\ IF last THEN Drained
       ELSE /\ worker' = IF task = "batch" THEN "select" ELSE "drain"
            /\ UNCHANGED <<task, flusher, acking>>

EventsOf(batch) == {batch[i] : i \in DOMAIN batch}

\* Also after Close gave up: what is under way may arrive, an HTTP client sends on.
Delivered ==
    /\ worker = "export"
    /\ collector' = Append(collector, pending)
    /\ Resume
    /\ UNCHANGED <<client, queue, timer, failed, barrier, closer, again>>

\* Mutant of Retry: the attempts are not counted.
RetryForEver ==
    /\ worker = "export"
    /\ attempt' = IF attempt < MaxAttempts THEN attempt + 1 ELSE 1
    /\ UNCHANGED <<client, queue, pending, timer, worker, task, last, acking, settled,
                   failed, collector, calls>>

\* A transient failure, which the collector may have received all the same.
Retry ==
    /\ worker = "export" /\ attempt < MaxAttempts
    /\ attempt' = attempt + 1
    /\ collector' \in {collector, Append(collector, pending)}
    /\ UNCHANGED <<client, queue, pending, timer, worker, task, last, acking, settled,
                   failed, calls>>

\* Mutant of Fails: the batch is put back, at the end of the queue.
FailsRequeued ==
    /\ worker = "export" /\ attempt = MaxAttempts
    /\ queue' = queue \o pending
    /\ failed' = failed
    /\ collector' = collector
    /\ pending' = <<>> /\ attempt' = 0 /\ last' = FALSE /\ settled' = settled
    /\ worker' = IF task = "batch" THEN "select" ELSE "drain"
    /\ UNCHANGED <<client, timer, task, acking, calls>>

\* The last attempt, or one that a retry cannot help: OnError is told.
Fails ==
    /\ worker = "export"
    /\ failed' = failed \union EventsOf(pending)
    /\ collector' \in {collector, Append(collector, pending)}
    /\ Resume
    /\ UNCHANGED <<client, queue, timer, barrier, closer, again>>

-----------------------------------------------------------------------------
(* Flush and Close.  Either may give up waiting when its context ends. *)

Flush(f) ==
    /\ flusher[f] = "idle"
    /\ flusher' = [flusher EXCEPT ![f] = "offers"]
    /\ barrier' = [barrier EXCEPT ![f] = Len(accepted)]
    /\ UNCHANGED <<client, queue, pending, timer, worker, task, last, acking, export,
                   closer, again>>

\* ErrClosed once the worker is gone, or the end of its context.
FlushFails(f) ==
    /\ flusher[f] \in {"offers", "waits"}
    /\ flusher' = [flusher EXCEPT ![f] = "failed"]
    /\ UNCHANGED <<client, queue, pending, timer, worker, task, last, acking, export,
                   barrier, closer, again>>

\* mu.Lock waits for the Sends under way.
Close ==
    /\ closer = "open" /\ Sending = {}
    /\ closer' = "closed"
    /\ UNCHANGED <<client, queue, pending, timer, worker, task, last, acking, export,
                   flusher, barrier, again>>

StopWorker ==
    /\ closer = "closed" /\ closer' = "stopped"
    /\ UNCHANGED <<client, queue, pending, timer, worker, task, last, acking, export,
                   flusher, barrier, again>>

\* A client that is closed, or being closed: a later Close returns nil at once.
CloseAgain ==
    /\ closer # "open" /\ Sending = {}
    /\ again' = TRUE
    /\ UNCHANGED <<client, queue, pending, timer, worker, task, last, acking, export,
                   flusher, barrier, closer>>

\* The worker is done, or the context ended first; the connection is closed.
CloseReturns ==
    /\ closer = "stopped"
    /\ closer' \in (IF worker = "exited" THEN {"drained", "expired"} ELSE {"expired"})
    /\ UNCHANGED <<client, queue, pending, timer, worker, task, last, acking, export,
                   flusher, barrier, again>>

-----------------------------------------------------------------------------
Worker ==
    \/ TakeItem \/ TakeTimer \/ TakeStop \/ \E f \in Flushers : TakeFlush(f)
    \/ DrainItem \/ DrainEnds
    \/ Delivered \/ Retry \/ Fails

Next ==
    \/ \E s \in Senders : Enqueue(s) \/ \E n \in 1 .. MaxSend : Send(s, n)
    \/ Worker \/ TimerFires
    \/ \E f \in Flushers : Flush(f) \/ FlushFails(f)
    \/ Close \/ StopWorker \/ CloseReturns \/ CloseAgain

\* The worker goes on, every attempt ending by its timeout at the latest, and
\* timers fire.  As only MaxEvents events come in, select cannot put a ready
\* case off for ever, which in Go its random choice sees to.
Fairness == WF_vars(Worker) /\ WF_vars(TimerFires) /\ WF_vars(StopWorker)

Spec == Init /\ [][Next]_vars /\ Fairness

-----------------------------------------------------------------------------
TypeOK ==
    /\ sending \in [Senders -> Seq(Events)] /\ sent \in 0 .. MaxEvents
    /\ accepted \in Seq(Events) /\ dropped \subseteq Events
    /\ queue \in Seq(Events) /\ Len(queue) <= BufferSize
    /\ pending \in Seq(Events) /\ Len(pending) <= MaxBatch
    /\ timer \in {"off", "armed", "fired"} /\ last \in BOOLEAN
    /\ worker \in {"select", "drain", "export", "exited"}
    /\ task \in {"batch", "flush", "stop"} /\ attempt \in 0 .. MaxAttempts
    /\ acking \in Flushers \union {NoFlusher}
    /\ settled \in Seq(Events) /\ failed \subseteq Events
    /\ collector \in Seq(Seq(Events))
    /\ flusher \in [Flushers -> {"idle", "offers", "waits", "flushed", "failed"}]
    /\ barrier \in [Flushers -> Nat]
    /\ closer \in {"open", "closed", "stopped", "drained", "expired"}
    /\ again \in BOOLEAN

\* Every accepted event is decided, in the batch or in the queue: none lost,
\* none twice, none out of order (batch.go:33: "keeps records in sequence
\* order"), across full batches, timers, flushes, failures and the last drain.
NoneLostOrReordered == settled \o pending \o queue = accepted

\* No event is left behind once the first Close has returned without an error,
\* and none enters a queue that nobody reads any more (client.go:127: mu guards
\* closed against in-flight enqueues).  A later Close, which has nothing to wait
\* for, vouches for that second half only.
CloseDrains ==
    /\ worker = "exited" => Len(settled) = Len(accepted) /\ Sending = {}
    /\ closer = "drained" => Len(settled) = Len(accepted)
    /\ again => Sending = {}

\* A Flush that succeeds has seen every event accepted before it exported or
\* reported (client.go:165), also if other events keep coming in.
FlushIsBarrier == \A f \in Flushers :
    flusher[f] = "flushed" => Len(settled) >= barrier[f]

\* The first Close, or a Flush, that returned with success left nothing undecided
\* of what it covers; a later Close has seen the last event enter the queue, no
\* more (client.go, Close and Flush).
CallsMeanSettled == CloseDrains /\ FlushIsBarrier

\* What the collector receives it receives in order: a batch again, by a
\* retry, or a later one; an event not reported as failed was received.
Precedes(d, e) == \E p, q \in DOMAIN accepted : p < q /\ accepted[p] = d /\ accepted[q] = e
CollectorOrder ==
    /\ \A i, j \in DOMAIN collector : i < j =>
          \/ collector[i] = collector[j]
          \/ \A d \in EventsOf(collector[i]), e \in EventsOf(collector[j]) : Precedes(d, e)
    /\ \A e \in EventsOf(settled) \ failed : \E i \in DOMAIN collector :
          e \in EventsOf(collector[i])

\* Events do not wait for a Flush: each accepted one is decided in the end.
EventsSettle == queue \o pending # <<>> ~> queue \o pending = <<>>

\* Flush and Close return, whatever the collector does.
CallsReturn ==
    /\ \A f \in Flushers :
          flusher[f] \in {"offers", "waits"} ~>
              flusher[f] \in {"flushed", "failed"} \/ worker = "exited"
    /\ closer = "closed" ~> worker = "exited"

\* Nothing waits for ever (batchWorker): no event, and no caller.
EverythingSettles == EventsSettle /\ CallsReturn
=============================================================================
