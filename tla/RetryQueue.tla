----------------------------- MODULE RetryQueue -----------------------------
(***************************************************************************)
(* The retry queue for messages whose send failed                          *)
(* (teneo-agent-sdk/pkg/network/retry_queue.go).                           *)
(*                                                                         *)
(* One processor goroutine takes everything that is due out of the queue   *)
(* under the lock and then retries it message by message without the lock, *)
(* while senders enqueue and somebody may clear the queue or stop it.      *)
(*                                                                         *)
(* A message stands for one entry: one call of Enqueue.  The slices are    *)
(* sets (their order only decides which message of a batch goes first),    *)
(* time is the set of entries whose NextRetry has passed, and metrics are  *)
(* the counters the code keeps, under another lock than the slice: every   *)
(* change of the slice and the update of the counters are two steps, the   *)
(* first taking q.mu and the second releasing it.  The sets enqueued,      *)
(* delivered, exhausted and cleared record what was entrusted to the queue *)
(* and what became of it; the code keeps no such record, it only counts.   *)
(***************************************************************************)
EXTENDS Naturals, FiniteSets

CONSTANTS
  Msgs,        \* entries
  MaxRetries,  \* policy.MaxRetries, 3 in DefaultRetryPolicy
  None         \* no message

ASSUME QueueAssumption ==
  /\ IsFiniteSet(Msgs)
  /\ MaxRetries \in Nat \ {0}
  /\ None \notin Msgs

VARIABLES
  queue,       \* q.queue
  due,         \* entries of the queue whose NextRetry has passed
  batch,       \* readyMessages, the processor's local slice
  sending,     \* the entry retryMessage is at work on, or None
  retryCount,
  metrics,     \* RetryMetrics, under a lock of its own
  mu,          \* who holds q.mu with the slice changed and the metrics not yet
               \* written: "nobody", "enqueue", "processor" or "clear"
  clearing,    \* dropped, the count a Clear under way has taken
  processing,  \* q.processing
  ctxDone,     \* q.ctx is cancelled; it is never replaced
  processor,   \* where the processor goroutine is (ProcessorPC)
  enqueued, delivered, exhausted, cleared

rqVars == <<queue, due, batch, sending, retryCount, metrics, mu, clearing, processing,
            ctxDone, processor, enqueued, delivered, exhausted, cleared>>
control == <<processing, ctxDone>>
lock == <<mu, clearing>>
fates == <<enqueued, delivered, exhausted, cleared>>

Metrics == [total : Nat, successful : Nat, failed : Nat, dropped : Nat, size : Nat]

\* None started; at its select; in the loop over readyMessages; inside sendFunc;
\* back from it with nil, or with an error; about to count the entry as dropped;
\* about to lock q.mu and queue it again.
ProcessorPC == {"none", "waiting", "batch", "sending", "succeeded", "failed", "dropping",
                "requeueing"}

QueueTypeOK ==
  /\ queue \subseteq Msgs /\ due \subseteq queue /\ batch \subseteq Msgs
  /\ sending \in Msgs \cup {None}
  /\ retryCount \in [Msgs -> 0..MaxRetries]
  /\ metrics \in Metrics
  /\ mu \in {"nobody", "enqueue", "processor", "clear"} /\ clearing \in Nat
  /\ processing \in BOOLEAN /\ ctxDone \in BOOLEAN
  /\ processor \in ProcessorPC
  /\ enqueued \subseteq Msgs
  /\ delivered \subseteq Msgs /\ exhausted \subseteq Msgs /\ cleared \subseteq Msgs

\* Nothing queued, nothing counted.
QueueEmpty ==
  /\ queue = {} /\ due = {} /\ batch = {} /\ sending = None
  /\ retryCount = [m \in Msgs |-> 0]
  /\ metrics = [total |-> 0, successful |-> 0, failed |-> 0, dropped |-> 0, size |-> 0]
  /\ mu = "nobody" /\ clearing = 0
  /\ enqueued = {} /\ delivered = {} /\ exhausted = {} /\ cleared = {}

\* NewMessageRetryQueue: the processor is not started.
QueueInit ==
  /\ QueueEmpty
  /\ processing = FALSE /\ ctxDone = FALSE /\ processor = "none"

Sending == {sending} \ {None}

-----------------------------------------------------------------------------
\* Enqueue appends under q.mu; RetryableError of the default policy accepts
\* every error.
Enqueue(m) ==
  /\ mu = "nobody" /\ mu' = "enqueue"
  /\ m \in Msgs \ enqueued
  /\ enqueued' = enqueued \cup {m}
  /\ queue' = queue \cup {m}
  /\ retryCount' = [retryCount EXCEPT ![m] = 0]
  /\ UNCHANGED <<due, batch, sending, metrics, clearing, control, processor, delivered,
                 exhausted, cleared>>

\* updateMetrics and the release of q.mu, for whoever changed the slice.
SizeCounted(who) ==
  /\ mu = who /\ mu' = "nobody"
  /\ metrics' = [metrics EXCEPT !.size = Cardinality(queue)]
  /\ UNCHANGED <<queue, due, batch, sending, retryCount, clearing, control, processor, fates>>

EnqueueReturns == SizeCounted("enqueue")

\* NextRetry of an entry passes.
BecomesDue(m) ==
  /\ m \in queue \ due
  /\ due' = due \cup {m}
  /\ UNCHANGED <<queue, batch, sending, retryCount, metrics, lock, control, processor, fates>>

\* Mutant: q.mu is released and the size metric not updated when the batch is
\* taken out.
TickStaleSize ==
  /\ processor = "waiting" /\ due # {} /\ mu = "nobody"
  /\ processor' = "batch"
  /\ batch' = due
  /\ queue' = queue \ due
  /\ due' = {}
  /\ UNCHANGED <<sending, retryCount, metrics, lock, control, fates>>

\* The ticker fires and processReadyMessages splits the queue.  After Stop the
\* select may still pick the ticker once more.
Tick ==
  /\ processor = "waiting" /\ due # {}
  /\ mu = "nobody" /\ mu' = "processor"
  /\ processor' = "batch"
  /\ batch' = due
  /\ queue' = queue \ due
  /\ due' = {}
  /\ UNCHANGED <<sending, retryCount, metrics, clearing, control, fates>>

\* The processor writes the size after a split or after queueing an entry again,
\* and goes on without the lock.
ProcessorCounts == SizeCounted("processor")

InBatch == processor = "batch" /\ mu # "processor"

\* retryMessage counts the attempt and calls sendFunc.
BeginRetry(m) ==
  /\ InBatch /\ m \in batch
  /\ batch' = batch \ {m}
  /\ sending' = m
  /\ processor' = "sending"
  /\ retryCount' = [retryCount EXCEPT ![m] = @ + 1]
  /\ UNCHANGED <<queue, due, metrics, lock, control, fates>>

\* sendFunc returned nil,
RetrySucceeds(m) ==
  /\ processor = "sending" /\ sending = m
  /\ sending' = None
  /\ processor' = "succeeded"
  /\ delivered' = delivered \cup {m}
  /\ UNCHANGED <<queue, due, batch, retryCount, metrics, lock, control, enqueued, exhausted,
                 cleared>>

\* which is counted without q.mu.
CountSuccess ==
  /\ processor = "succeeded" /\ processor' = "batch"
  /\ metrics' = [metrics EXCEPT !.successful = @ + 1, !.total = @ + 1]
  /\ UNCHANGED <<queue, due, batch, sending, retryCount, lock, control, fates>>

\* sendFunc failed.
RetryFails(m) ==
  /\ processor = "sending" /\ sending = m
  /\ processor' = "failed"
  /\ UNCHANGED <<queue, due, batch, sending, retryCount, metrics, lock, control, fates>>

\* Mutant: off by one in the number of retries.
CountAttemptLate ==
  /\ processor = "failed"
  /\ processor' = IF retryCount[sending] > MaxRetries THEN "dropping" ELSE "requeueing"
  /\ metrics' = [metrics EXCEPT !.total = @ + 1]
  /\ UNCHANGED <<queue, due, batch, sending, retryCount, lock, control, fates>>

\* The attempt is counted; the entry is dropped after MaxRetries attempts.
CountAttempt ==
  /\ processor = "failed"
  /\ processor' = IF retryCount[sending] >= MaxRetries THEN "dropping" ELSE "requeueing"
  /\ metrics' = [metrics EXCEPT !.total = @ + 1]
  /\ UNCHANGED <<queue, due, batch, sending, retryCount, lock, control, fates>>

\* Mutant: the entry is counted as dropped, but the return is missing and it is
\* queued again.
DropKeeps ==
  /\ processor = "dropping" /\ processor' = "requeueing"
  /\ exhausted' = exhausted \cup {sending}
  /\ metrics' = [metrics EXCEPT !.failed = @ + 1, !.dropped = @ + 1]
  /\ UNCHANGED <<queue, due, batch, sending, retryCount, lock, control, enqueued, delivered,
                 cleared>>

\* An entry out of attempts is counted and forgotten.
Drop ==
  /\ processor = "dropping" /\ processor' = "batch"
  /\ sending' = None
  /\ exhausted' = exhausted \cup {sending}
  /\ metrics' = [metrics EXCEPT !.failed = @ + 1, !.dropped = @ + 1]
  /\ UNCHANGED <<queue, due, batch, retryCount, lock, control, enqueued, delivered, cleared>>

\* The other one is queued again, under q.mu, with a new NextRetry.
Requeue ==
  /\ processor = "requeueing" /\ processor' = "batch"
  /\ mu = "nobody" /\ mu' = "processor"
  /\ sending' = None
  /\ queue' = queue \cup {sending}
  /\ UNCHANGED <<due, batch, retryCount, metrics, clearing, control, fates>>

\* processReadyMessages returns and the processor is back at its select.
EndBatch ==
  /\ InBatch /\ batch = {}
  /\ processor' = "waiting"
  /\ UNCHANGED <<queue, due, batch, sending, retryCount, metrics, lock, control, fates>>

\* Clear empties the queue; what the processor has taken out is not reached.
Clear ==
  /\ mu = "nobody" /\ mu' = "clear"
  /\ queue # {}
  /\ cleared' = cleared \cup queue
  /\ clearing' = Cardinality(queue)
  /\ queue' = {} /\ due' = {}
  /\ UNCHANGED <<batch, sending, retryCount, metrics, control, processor, enqueued, delivered,
                 exhausted>>

ClearReturns ==
  /\ mu = "clear" /\ mu' = "nobody"
  /\ metrics' = [metrics EXCEPT !.dropped = @ + clearing, !.size = 0]
  /\ clearing' = 0
  /\ UNCHANGED <<queue, due, batch, sending, retryCount, control, processor, fates>>

\* Start.  A processor started on the cancelled context returns at once.
Start ==
  /\ mu = "nobody" /\ ~processing
  /\ processing' = TRUE
  /\ processor' = IF ctxDone THEN processor ELSE "waiting"
  /\ UNCHANGED <<queue, due, batch, sending, retryCount, metrics, lock, ctxDone, fates>>

\* Stop cancels the context (and then waits for the processor).
Stop ==
  /\ mu = "nobody" /\ processing
  /\ processing' = FALSE
  /\ ctxDone' = TRUE
  /\ UNCHANGED <<queue, due, batch, sending, retryCount, metrics, lock, processor, fates>>

ProcessorExits ==
  /\ processor = "waiting" /\ ctxDone
  /\ processor' = "none"
  /\ UNCHANGED <<queue, due, batch, sending, retryCount, metrics, lock, control, fates>>

\* What the processor does by itself, apart from the result of sendFunc.
ProcessorStep ==
  \/ Tick \/ ProcessorCounts \/ EndBatch \/ ProcessorExits
  \/ \E m \in Msgs : BeginRetry(m)
  \/ CountSuccess \/ CountAttempt \/ Drop \/ Requeue

QueueNext ==
  \/ \E m \in Msgs : Enqueue(m) \/ BecomesDue(m) \/ RetrySucceeds(m) \/ RetryFails(m)
  \/ EnqueueReturns \/ ProcessorStep
  \/ Clear \/ ClearReturns \/ Start \/ Stop

QueueSpec == QueueInit /\ [][QueueNext]_rqVars

-----------------------------------------------------------------------------
\* The queue neither loses nor duplicates a message: whatever was entrusted to
\* it is in exactly one place, although it leaves the slice under the lock and
\* is retried, and put back, without it.
Conserved ==
  /\ enqueued = queue \cup batch \cup Sending \cup delivered \cup exhausted \cup cleared
  /\ queue \cap batch = {} /\ (queue \cup batch) \cap Sending = {}
  /\ (queue \cup batch \cup Sending) \cap (delivered \cup exhausted \cup cleared) = {}
  /\ delivered \cap exhausted = {} /\ delivered \cap cleared = {} /\ exhausted \cap cleared = {}

\* A message is given up only after exactly MaxRetries attempts, and one that
\* still waits has attempts left.
AttemptsExact ==
  /\ \A m \in exhausted : retryCount[m] = MaxRetries
  /\ \A m \in queue \cup batch : retryCount[m] < MaxRetries

\* GetMetrics takes only the metrics' lock and so may read them while the slice
\* is already changed.  It is off by no more than the update under way: with q.mu
\* free the size is the length of the queue, each outcome is counted once or
\* about to be counted by the goroutine that brought it about, and no outcome is
\* counted before its attempt.
MetricsAgree ==
  /\ mu = "nobody" => metrics.size = Cardinality(queue)
  /\ metrics.successful = Cardinality(delivered) - (IF processor = "succeeded" THEN 1 ELSE 0)
  /\ metrics.failed = Cardinality(exhausted)
  /\ metrics.dropped = Cardinality(exhausted) + Cardinality(cleared) - clearing
  /\ metrics.successful + metrics.failed <= metrics.total
=============================================================================
