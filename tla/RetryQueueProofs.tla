-------------------------- MODULE RetryQueueProofs --------------------------
(***************************************************************************)
(* Proofs about the retry queue, for any finite set of entries and any     *)
(* positive number of retries.  Types, Conserved and AttemptsExact need    *)
(* each other: an entry's count stays within its type because an entry     *)
(* that waits has attempts left, and that is kept because an entry is in   *)
(* one place only.  With what the processor holds at each point of         *)
(* processReadyMessages they are inductive.  The metrics follow, although  *)
(* they are written in steps of their own.                                 *)
(***************************************************************************)
EXTENDS RetryQueue, FiniteSetTheorems, TLAPS

USE QueueAssumption

\* What the processor holds, by where it is: an entry only while retryMessage is
\* at work on it, q.mu only in the batch; an entry to be dropped is out of
\* attempts and one to be queued again is not.  A Clear counts only while it
\* holds q.mu, with the slice empty, and a queue that may still be started has
\* no processor yet.
Held ==
  /\ sending # None <=> processor \in {"sending", "failed", "dropping", "requeueing"}
  /\ processor \in {"none", "waiting"} => batch = {}
  /\ mu = "processor" => processor = "batch"
  /\ processor = "dropping" => retryCount[sending] = MaxRetries
  /\ processor = "requeueing" => retryCount[sending] < MaxRetries
  /\ mu # "clear" => clearing = 0
  /\ mu = "clear" => queue = {}
  /\ ~processing /\ ~ctxDone => processor = "none"

QueueInv == QueueTypeOK /\ Conserved /\ AttemptsExact /\ Held

-----------------------------------------------------------------------------
(* The counters stay natural numbers. *)
LEMMA FieldsNat ==
  ASSUME NEW M \in Metrics, NEW i \in Nat, NEW j \in Nat
  PROVE  /\ [M EXCEPT !.size = i] \in Metrics
         /\ [M EXCEPT !.total = i] \in Metrics
         /\ [M EXCEPT !.successful = i, !.total = j] \in Metrics
         /\ [M EXCEPT !.failed = i, !.dropped = j] \in Metrics
         /\ [M EXCEPT !.dropped = i, !.size = j] \in Metrics
  <1>1. [M EXCEPT !.size = i] \in Metrics
    BY DEF Metrics
  <1>2. [M EXCEPT !.total = i] \in Metrics
    BY DEF Metrics
  <1>3. [M EXCEPT !.successful = i, !.total = j] \in Metrics
    BY DEF Metrics
  <1>4. [M EXCEPT !.failed = i, !.dropped = j] \in Metrics
    BY DEF Metrics
  <1>5. [M EXCEPT !.dropped = i, !.size = j] \in Metrics
    BY DEF Metrics
  <1>6. QED
    BY <1>1, <1>2, <1>3, <1>4, <1>5

LEMMA CountersGrow ==
  ASSUME NEW M \in Metrics, NEW n \in Nat
  PROVE  /\ [M EXCEPT !.size = n] \in Metrics
         /\ [M EXCEPT !.total = @ + 1] \in Metrics
         /\ [M EXCEPT !.successful = @ + 1, !.total = @ + 1] \in Metrics
         /\ [M EXCEPT !.failed = @ + 1, !.dropped = @ + 1] \in Metrics
         /\ [M EXCEPT !.dropped = @ + n, !.size = 0] \in Metrics
  <1>1. /\ M.total + 1 \in Nat /\ M.successful + 1 \in Nat /\ M.failed + 1 \in Nat
        /\ M.dropped + 1 \in Nat /\ M.dropped + n \in Nat
    BY DEF Metrics
  <1>2. [M EXCEPT !.size = n] \in Metrics
    BY FieldsNat
  <1>3. [M EXCEPT !.total = M.total + 1] \in Metrics
    BY <1>1, FieldsNat
  <1>4. [M EXCEPT !.successful = M.successful + 1, !.total = M.total + 1] \in Metrics
    BY <1>1, FieldsNat
  <1>5. [M EXCEPT !.failed = M.failed + 1, !.dropped = M.dropped + 1] \in Metrics
    BY <1>1, FieldsNat
  <1>6. [M EXCEPT !.dropped = M.dropped + n, !.size = 0] \in Metrics
    BY <1>1, FieldsNat
  <1>7. QED
    BY <1>2, <1>3, <1>4, <1>5, <1>6

(* The length of the slice is a number. *)
LEMMA Lengths ==
  ASSUME QueueTypeOK
  PROVE  /\ IsFiniteSet(queue) /\ IsFiniteSet(delivered)
         /\ IsFiniteSet(exhausted) /\ IsFiniteSet(cleared)
         /\ Cardinality(queue) \in Nat /\ Cardinality(delivered) \in Nat
         /\ Cardinality(exhausted) \in Nat /\ Cardinality(cleared) \in Nat
  BY FS_Subset, FS_CardinalityType DEF QueueTypeOK

(* An empty queue satisfies the invariant, whether or not it is started. *)
LEMMA EmptyInv ==
  ASSUME QueueEmpty, processing \in BOOLEAN, ctxDone \in BOOLEAN,
         processor \in {"none", "waiting"},
         ~processing /\ ~ctxDone => processor = "none"
  PROVE  QueueInv
  <1>1. metrics \in Metrics
    BY DEF QueueEmpty, Metrics
  <1>2. QueueTypeOK
    BY <1>1 DEF QueueEmpty, QueueTypeOK, ProcessorPC
  <1>3. Conserved /\ AttemptsExact /\ Held
    BY DEF QueueEmpty, Conserved, AttemptsExact, Held, Sending
  <1>4. QED
    BY <1>2, <1>3 DEF QueueInv

(* Enqueue takes in an entry that was nowhere before. *)
LEMMA EnqueueInv ==
  ASSUME QueueInv, NEW m \in Msgs, Enqueue(m)
  PROVE  QueueInv'
  <1> USE DEF QueueInv, QueueTypeOK, Enqueue, control
  <1>1. QueueTypeOK'
    OBVIOUS
  <1>2. Conserved'
    BY DEF Conserved, Sending
  <1>3. AttemptsExact'
    BY DEF Conserved, AttemptsExact
  <1>4. sending \in Msgs => sending # m
    BY DEF Conserved, Sending
  <1>5. Held'
    BY <1>4 DEF Held
  <1>6. QED
    BY <1>1, <1>2, <1>3, <1>5

(* Writing the metrics moves no entry. *)
LEMMA CountingInv ==
  ASSUME QueueInv,
         \/ \E who \in {"enqueue", "processor"} : SizeCounted(who)
         \/ CountSuccess \/ ClearReturns
  PROVE  QueueInv'
  <1> USE DEF QueueInv, QueueTypeOK, control, fates, lock
  <1>1. Cardinality(queue) \in Nat
    BY Lengths
  <1>2. CASE \E who \in {"enqueue", "processor"} : SizeCounted(who)
    <2>1. metrics \in Metrics /\ metrics' = [metrics EXCEPT !.size = Cardinality(queue)]
      BY <1>2 DEF SizeCounted
    <2>2. metrics' \in Metrics
      BY ONLY <1>1, <2>1, CountersGrow
    <2>3. QueueTypeOK'
      BY <1>2, <2>2 DEF SizeCounted
    <2>4. QED
      BY <1>2, <2>3 DEF SizeCounted, Conserved, AttemptsExact, Held, Sending
  <1>3. CASE CountSuccess
    <2>1. metrics' \in Metrics
      BY <1>3, CountersGrow DEF CountSuccess
    <2>2. QueueTypeOK'
      BY <1>3, <2>1 DEF CountSuccess, ProcessorPC
    <2>3. QED
      BY <1>3, <2>2 DEF CountSuccess, Conserved, AttemptsExact, Held, Sending
  <1>4. CASE ClearReturns
    <2>1. metrics' \in Metrics
      BY <1>4, CountersGrow DEF ClearReturns
    <2>2. QueueTypeOK'
      BY <1>4, <2>1 DEF ClearReturns
    <2>3. QED
      BY <1>4, <2>2 DEF ClearReturns, Conserved, AttemptsExact, Held, Sending
  <1>5. QED
    BY <1>2, <1>3, <1>4

(* What sendFunc returns. *)
LEMMA RetryResultInv ==
  ASSUME QueueInv, NEW m \in Msgs, RetrySucceeds(m) \/ RetryFails(m)
  PROVE  QueueInv'
  <1> USE DEF QueueInv, QueueTypeOK, RetrySucceeds, RetryFails, control, fates, lock
  <1>1. QueueTypeOK'
    BY DEF ProcessorPC
  <1>2. Conserved'
    BY DEF Conserved, Sending
  <1>3. AttemptsExact'
    BY DEF AttemptsExact
  <1>4. Held'
    BY DEF Held
  <1>5. QED
    BY <1>1, <1>2, <1>3, <1>4

(* processReadyMessages splits the slice. *)
LEMMA TickInv ==
  ASSUME QueueInv, Tick
  PROVE  QueueInv'
  <1> USE DEF QueueInv, QueueTypeOK, Tick, control, fates
  <1>1. batch = {} /\ sending = None
    BY DEF Held
  <1>2. QueueTypeOK'
    BY DEF ProcessorPC
  <1>3. Conserved'
    BY <1>1 DEF Conserved, Sending
  <1>4. AttemptsExact' /\ Held'
    BY <1>1 DEF AttemptsExact, Held
  <1>5. QED
    BY <1>2, <1>3, <1>4

(* retryMessage takes the next entry, which has attempts left. *)
LEMMA BeginRetryInv ==
  ASSUME QueueInv, NEW m \in Msgs, BeginRetry(m)
  PROVE  QueueInv'
  <1> USE DEF QueueInv, QueueTypeOK, BeginRetry, InBatch, control, fates, lock
  <1>1. m \notin queue /\ m \notin exhausted /\ retryCount[m] < MaxRetries
    BY DEF Conserved, AttemptsExact
  <1>2. sending = None
    BY DEF Held
  <1>3. retryCount' \in [Msgs -> 0..MaxRetries]
    BY <1>1
  <1>4. QueueTypeOK'
    BY <1>3 DEF ProcessorPC
  <1>5. Conserved'
    BY <1>2 DEF Conserved, Sending
  <1>6. AttemptsExact'
    BY <1>1 DEF AttemptsExact
  <1>7. Held'
    BY QueueAssumption DEF Held
  <1>8. QED
    BY <1>4, <1>5, <1>6, <1>7

(* A failed attempt is counted, and its entry dropped at exactly MaxRetries or *)
(* queued again.                                                              *)
LEMMA FailedAttemptInv ==
  ASSUME QueueInv, CountAttempt \/ Drop \/ Requeue
  PROVE  QueueInv'
  <1> USE DEF QueueInv, QueueTypeOK, control, fates, lock
  <1>1. sending \in Msgs /\ retryCount[sending] \in 0..MaxRetries
    BY DEF Held, CountAttempt, Drop, Requeue
  <1>2. CASE CountAttempt
    <2>1. metrics' \in Metrics
      BY <1>2, CountersGrow DEF CountAttempt
    <2>2. QueueTypeOK'
      BY <1>2, <2>1 DEF CountAttempt, ProcessorPC
    <2>3. Held'
      BY <1>1, <1>2 DEF CountAttempt, Held
    <2>4. QED
      BY <1>2, <2>2, <2>3 DEF CountAttempt, Conserved, AttemptsExact, Sending
  <1>3. CASE Drop
    <2>1. metrics' \in Metrics
      BY <1>3, CountersGrow DEF Drop
    <2>2. QueueTypeOK'
      BY <1>1, <1>3, <2>1 DEF Drop, ProcessorPC
    <2>3. Conserved'
      BY <1>1, <1>3 DEF Drop, Conserved, Sending
    <2>4. AttemptsExact'
      BY <1>1, <1>3 DEF Drop, AttemptsExact, Held
    <2>5. Held'
      BY <1>3 DEF Drop, Held
    <2>6. QED
      BY <2>2, <2>3, <2>4, <2>5
  <1>4. CASE Requeue
    <2>1. QueueTypeOK'
      BY <1>1, <1>4 DEF Requeue, ProcessorPC
    <2>2. Conserved'
      BY <1>1, <1>4 DEF Requeue, Conserved, Sending
    <2>3. AttemptsExact'
      BY <1>1, <1>4 DEF Requeue, AttemptsExact, Held
    <2>4. Held'
      BY <1>4 DEF Requeue, Held
    <2>5. QED
      BY <2>1, <2>2, <2>3, <2>4
  <1>5. QED
    BY <1>2, <1>3, <1>4

(* What the processor does by itself moves entries on without losing any. *)
LEMMA ProcessorInv ==
  ASSUME QueueInv, ProcessorStep
  PROVE  QueueInv'
  <1>1. CASE EndBatch \/ ProcessorExits
    BY <1>1 DEF EndBatch, ProcessorExits, InBatch, QueueInv, QueueTypeOK, ProcessorPC, control,
                fates, lock, Conserved, AttemptsExact, Held, Sending
  <1>2. QED
    BY <1>1, TickInv, BeginRetryInv, CountingInv, FailedAttemptInv
       DEF ProcessorStep, ProcessorCounts

(* Clear drops exactly what is in the queue; it does not reach the batch. *)
LEMMA ClearInv ==
  ASSUME QueueInv, Clear
  PROVE  QueueInv'
  <1> USE DEF QueueInv, QueueTypeOK, Clear, control
  <1>1. Cardinality(queue) \in Nat
    BY Lengths
  <1>2. QueueTypeOK'
    BY <1>1
  <1>3. Conserved'
    BY DEF Conserved, Sending
  <1>4. AttemptsExact' /\ Held'
    BY DEF AttemptsExact, Held
  <1>5. QED
    BY <1>2, <1>3, <1>4

(* Starting, stopping and the passing of time leave the entries alone. *)
LEMMA ControlInv ==
  ASSUME QueueInv, Start \/ Stop \/ (\E m \in Msgs : BecomesDue(m)) \/ UNCHANGED rqVars
  PROVE  QueueInv'
  <1> USE DEF QueueInv, QueueTypeOK, ProcessorPC, control, fates, lock, Conserved,
              AttemptsExact, Held, Sending
  <1>1. CASE Start
    BY <1>1 DEF Start
  <1>2. CASE Stop
    BY <1>2 DEF Stop
  <1>3. CASE \E m \in Msgs : BecomesDue(m)
    BY <1>3 DEF BecomesDue
  <1>4. CASE UNCHANGED rqVars
    BY <1>4 DEF rqVars
  <1>5. QED
    BY <1>1, <1>2, <1>3, <1>4

(* Every step of the queue keeps the invariant. *)
LEMMA QueueNextInv ==
  QueueInv /\ [QueueNext]_rqVars => QueueInv'
  BY EnqueueInv, RetryResultInv, CountingInv, ProcessorInv, ClearInv, ControlInv
     DEF QueueNext, EnqueueReturns

\* An attempt is counted before the drop that ends it.
MetricsInv ==
  /\ MetricsAgree
  /\ processor = "dropping" => metrics.successful + metrics.failed < metrics.total

(* The counters follow the sets.  A step that changes the slice takes q.mu, one *)
(* that frees q.mu writes the size, and an outcome is counted once, by whoever  *)
(* brought it about.                                                           *)
LEMMA MetricsNext ==
  ASSUME QueueInv, QueueInv', MetricsInv, [QueueNext]_rqVars
  PROVE  MetricsInv'
  <1> USE DEF MetricsInv, MetricsAgree
  <1>1. /\ metrics \in Metrics
        /\ IsFiniteSet(queue) /\ IsFiniteSet(delivered)
        /\ IsFiniteSet(exhausted) /\ IsFiniteSet(cleared)
        /\ Cardinality(queue) \in Nat /\ Cardinality(delivered) \in Nat
        /\ Cardinality(exhausted) \in Nat /\ Cardinality(cleared) \in Nat
        /\ clearing \in Nat
    BY Lengths DEF QueueInv, QueueTypeOK
  <1>2. ASSUME NEW m \in Msgs, RetrySucceeds(m) PROVE MetricsInv'
    <2>1. m \notin delivered
      BY <1>2 DEF RetrySucceeds, QueueInv, Conserved, Sending
    <2>2. Cardinality(delivered') = Cardinality(delivered) + 1
      BY <1>1, <1>2, <2>1, FS_AddElement DEF RetrySucceeds
    <2>3. QED
      BY <1>1, <1>2, <2>2 DEF RetrySucceeds, Metrics, lock
  <1>3. CASE Drop
    <2>1. sending \in Msgs /\ sending \notin exhausted
      BY <1>3 DEF Drop, QueueInv, QueueTypeOK, Conserved, Held, Sending
    <2>2. Cardinality(exhausted') = Cardinality(exhausted) + 1
      BY <1>1, <1>3, <2>1, FS_AddElement DEF Drop
    <2>3. /\ metrics'.size = metrics.size /\ metrics'.total = metrics.total
          /\ metrics'.successful = metrics.successful
          /\ metrics'.failed = metrics.failed + 1
          /\ metrics'.dropped = metrics.dropped + 1
          /\ metrics.total \in Nat /\ metrics.successful \in Nat /\ metrics.failed \in Nat
      BY <1>1, <1>3 DEF Drop, Metrics
    <2>4. QED
      BY <1>1, <1>3, <2>2, <2>3 DEF Drop, lock, control
  <1>4. CASE Clear
    <2>1. cleared \cap queue = {} /\ clearing = 0
      BY <1>4 DEF QueueInv, Conserved, Held, Clear
    <2>2. Cardinality(cleared') = Cardinality(cleared) + Cardinality(queue)
      <3>1. Cardinality(cleared \cup queue)
              = Cardinality(cleared) + Cardinality(queue) - Cardinality(cleared \cap queue)
        BY <1>1, FS_Union
      <3>2. Cardinality(cleared \cap queue) = 0
        BY <2>1, FS_EmptySet
      <3>3. QED
        BY <1>1, <1>4, <3>1, <3>2 DEF Clear
    <2>3. QED
      BY <1>1, <1>4, <2>1, <2>2 DEF Clear, Metrics
  <1>5. CASE ClearReturns
    <2>1. Cardinality(queue) = 0
      BY <1>5, FS_EmptySet DEF ClearReturns, QueueInv, Held
    <2>2. QED
      BY <1>1, <1>5, <2>1 DEF ClearReturns, Metrics, fates
  <1>6. CASE \E who \in {"enqueue", "processor"} : SizeCounted(who)
    BY <1>1, <1>6 DEF SizeCounted, Metrics, fates
  <1>7. CASE CountSuccess
    <2>1. metrics' = [metrics EXCEPT !.successful = metrics.successful + 1,
                                     !.total = metrics.total + 1]
      BY <1>7 DEF CountSuccess
    <2>2. /\ metrics'.size = metrics.size /\ metrics'.total = metrics.total + 1
          /\ metrics'.successful = metrics.successful + 1
          /\ metrics'.failed = metrics.failed /\ metrics'.dropped = metrics.dropped
          /\ metrics.total \in Nat /\ metrics.successful \in Nat /\ metrics.failed \in Nat
      BY <1>1, <2>1 DEF Metrics
    <2>3. QED
      BY <1>1, <1>7, <2>2 DEF CountSuccess, lock, fates
  <1>8. CASE CountAttempt
    <2>1. /\ metrics'.size = metrics.size /\ metrics'.total = metrics.total + 1
          /\ metrics'.successful = metrics.successful
          /\ metrics'.failed = metrics.failed /\ metrics'.dropped = metrics.dropped
          /\ metrics.total \in Nat /\ metrics.successful \in Nat /\ metrics.failed \in Nat
      BY <1>1, <1>8 DEF CountAttempt, Metrics
    <2>2. QED
      BY <1>1, <1>8, <2>1 DEF CountAttempt, lock, fates
  <1>9. CASE \/ \E m \in Msgs : \/ Enqueue(m) \/ BecomesDue(m) \/ BeginRetry(m)
                                \/ RetryFails(m)
             \/ Tick \/ Requeue \/ EndBatch \/ ProcessorExits \/ Stop \/ UNCHANGED rqVars
    BY <1>9 DEF Enqueue, BecomesDue, BeginRetry, RetryFails, Tick, Requeue, EndBatch, InBatch,
                ProcessorExits, Stop, rqVars, fates, lock
  <1>10. CASE Start
    BY <1>10 DEF Start, fates, lock, QueueInv, Held
  <1>11. QED
    BY <1>2, <1>3, <1>4, <1>5, <1>6, <1>7, <1>8, <1>9, <1>10
       DEF QueueNext, ProcessorStep, EnqueueReturns, ProcessorCounts

(* The invariant holds initially and throughout. *)
LEMMA QueueInvariant == QueueSpec => []QueueInv
  <1>1. QueueInit => QueueInv
    BY EmptyInv DEF QueueInit
  <1>2. QED
    BY <1>1, QueueNextInv, PTL DEF QueueSpec

-----------------------------------------------------------------------------
(* The queue's state is well typed: in particular no entry is ever tried more  *)
(* than MaxRetries times by retryMessage.                                      *)
THEOREM QueueTyping == QueueSpec => []QueueTypeOK
  BY QueueInvariant, PTL DEF QueueInv

(* The queue neither loses nor duplicates a message between Enqueue,           *)
(* processReadyMessages, retryMessage and Clear.                               *)
THEOREM NothingLost == QueueSpec => []Conserved
  BY QueueInvariant, PTL DEF QueueInv

(* retryMessage gives a message up after exactly MaxRetries attempts.          *)
THEOREM AttemptsCounted == QueueSpec => []AttemptsExact
  BY QueueInvariant, PTL DEF QueueInv

(* GetMetrics, which looks between the change of the slice and the update of   *)
(* the counters, is never off by more than that update: Enqueue,               *)
(* processReadyMessages, retryMessage and Clear count each outcome once.       *)
THEOREM MetricsExact == QueueSpec => []MetricsAgree
  <1>1. QueueInit => MetricsInv
    BY FS_EmptySet DEF QueueInit, QueueEmpty, MetricsInv, MetricsAgree
  <1>2. QueueInv /\ QueueInv' /\ MetricsInv /\ [QueueNext]_rqVars => MetricsInv'
    BY MetricsNext
  <1>3. QED
    BY <1>1, <1>2, QueueInvariant, PTL DEF QueueSpec, MetricsInv
=============================================================================
