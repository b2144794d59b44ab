--------------------------- MODULE MessageDelivery ---------------------------
(***************************************************************************)
(* The way of a message from SendMessage to the wire (client.go): the      *)
(* circuit breaker admits the call, sendMessageDirect puts the message     *)
(* into sendChan, a failed send goes to the retry queue, whose processor   *)
(* calls sendMessageDirect again, and the writer takes messages out of     *)
(* sendChan.  Composes CircuitBreaker and RetryQueue; the connection is    *)
(* reduced to what these two and the writer can see of it (NetworkClient   *)
(* models it in full).                                                     *)
(***************************************************************************)
EXTENDS RetryQueue, Sequences, Functions

CONSTANTS
  MaxFailures, HalfOpenRequests,
  Capacity,          \* of sendChan, 100 in NewNetworkClient
  MaxLosses          \* bound on how often the link is lost

ASSUME DeliveryAssumption ==
  /\ MaxFailures \in Nat \ {0} /\ HalfOpenRequests \in Nat \ {0}
  /\ Capacity \in Nat \ {0} /\ MaxLosses \in Nat

VARIABLES
  state, failures, successCount, halfOpenAttempts, cooled, pc, seen, failed,
  returned,    \* returned[m]: what the sendMessageDirect of m's call has returned,
               \* "failed" and "queueing" before and inside the Enqueue after an error
  selecting,   \* messages whose sendMessageDirect found running set and is
               \* blocked in its select
  interrupted, \* ... on a context that has been cancelled since
  sendChan,
  holding,     \* the message the writer took out of sendChan, or None
  writer,      \* the writer goroutine exists
  link,        \* "up"; "dead": the client has not noticed; "down": not running
  losses,
  wire, lost, refused,
  answer       \* answer[m]: what SendMessage returned

breaker == <<state, failures, successCount, halfOpenAttempts, cooled, pc, seen, failed>>
calls == <<returned, refused, answer>>
channel == <<sendChan, holding, writer, wire, lost>>
conn == <<link, losses>>
selects == <<selecting, interrupted>>
vars == <<rqVars, breaker, calls, channel, conn, selects>>

\* A message stands for the one call of SendMessage that sends it, whichever
\* goroutine makes that call.
CB == INSTANCE CircuitBreaker WITH Callers <- Msgs

TypeOK ==
  /\ QueueTypeOK
  /\ CB!TypeOK
  /\ returned \in [Msgs -> {"no", "nil", "failed", "queueing", "error"}]
  /\ interrupted \subseteq selecting /\ selecting \subseteq Msgs
  /\ sendChan \in Seq(Msgs) /\ Len(sendChan) <= Capacity
  /\ holding \in Msgs \cup {None}
  /\ writer \in BOOLEAN
  /\ link \in {"up", "dead", "down"} /\ losses \in 0..MaxLosses
  /\ wire \subseteq Msgs /\ lost \subseteq Msgs /\ refused \subseteq Msgs
  /\ answer \in [Msgs -> {"nothing", "nil", "error"}]

\* A client that has just connected and so started its queue, with the circuit
\* breaker new or left open by an earlier outage.
Init ==
  /\ QueueEmpty
  /\ processing = TRUE /\ ctxDone = FALSE /\ processor = "waiting"
  /\ \/ CB!Init
     \/ /\ state = "open" /\ failures = MaxFailures /\ cooled = TRUE
        /\ successCount = 0 /\ halfOpenAttempts = 0
        /\ pc = [m \in Msgs |-> "idle"]
        /\ seen = [m \in Msgs |-> "closed"]
        /\ failed = [m \in Msgs |-> FALSE]
  /\ returned = [m \in Msgs |-> "no"]
  /\ selecting = {} /\ interrupted = {}
  /\ sendChan = <<>> /\ holding = None /\ writer = TRUE
  /\ link = "up" /\ losses = 0
  /\ wire = {} /\ lost = {} /\ refused = {}
  /\ answer = [m \in Msgs |-> "nothing"]

-----------------------------------------------------------------------------
(* SendMessage *)
Begun(m) == pc[m] # "idle" \/ answer[m] # "nothing"

BeginSend(m) ==
  /\ ~Begun(m)
  /\ CB!LoadState(m)
  /\ UNCHANGED <<rqVars, calls, channel, conn, selects>>

\* The open and half-open branches of CanAttempt; when they refuse, SendMessage
\* returns "circuit breaker is open" and the message is not queued for retry.
AskBreaker(m) ==
  /\ CB!CheckTimeout(m) \/ CB!EnterHalfOpen(m) \/ CB!ClaimSlot(m)
  /\ IF pc'[m] = "idle"
       THEN refused' = refused \cup {m} /\ answer' = [answer EXCEPT ![m] = "error"]
       ELSE UNCHANGED <<refused, answer>>
  /\ UNCHANGED <<rqVars, returned, channel, conn, selects>>

Trying(m) == pc[m] \in {"calling", "probing"} /\ returned[m] = "no"

\* sendMessageDirect, for whoever runs it: the check of running ...
EntersSelect(m) ==
  /\ m \notin selecting
  /\ link # "down"
  /\ selecting' = selecting \cup {m}
  /\ UNCHANGED interrupted

\* ... the error return when the client is not running ...
NotRunning(m) ==
  /\ m \notin selecting
  /\ link = "down"
  /\ UNCHANGED selects

\* Mutant: the channel has no bound.
SentUnbounded(m) ==
  /\ m \in selecting
  /\ Len(sendChan) <= Capacity
  /\ sendChan' = Append(sendChan, m)
  /\ selecting' = selecting \ {m} /\ interrupted' = interrupted \ {m}

\* ... and the select: the channel takes the message, if it has room,
Sent(m) ==
  /\ m \in selecting
  /\ Len(sendChan) < Capacity
  /\ sendChan' = Append(sendChan, m)
  /\ selecting' = selecting \ {m} /\ interrupted' = interrupted \ {m}

\* or the context is cancelled or five seconds pass without room.
NotSent(m) ==
  /\ m \in selecting
  /\ m \in interrupted \/ Len(sendChan) = Capacity
  /\ selecting' = selecting \ {m} /\ interrupted' = interrupted \ {m}

TryDirect(m) ==
  /\ Trying(m)
  /\ EntersSelect(m)
  /\ UNCHANGED <<rqVars, breaker, calls, channel, conn>>

\* Mutant: the message is queued for retry although the channel took it (the
\* error of RecordMessageSent, say, taken for the error of the send).
DirectOkQueues(m) ==
  /\ Trying(m)
  /\ Sent(m)
  /\ Enqueue(m)
  /\ returned' = [returned EXCEPT ![m] = "queueing"]
  /\ UNCHANGED <<breaker, refused, answer, holding, writer, wire, lost, conn>>

\* The channel took the message.
DirectOk(m) ==
  /\ Trying(m)
  /\ Sent(m)
  /\ returned' = [returned EXCEPT ![m] = "nil"]
  /\ UNCHANGED <<rqVars, breaker, refused, answer, holding, writer, wire, lost, conn>>

\* The send failed.
DirectFails(m) ==
  /\ Trying(m)
  /\ NotRunning(m) \/ NotSent(m)
  /\ returned' = [returned EXCEPT ![m] = "failed"]
  /\ UNCHANGED <<rqVars, breaker, refused, answer, channel, conn>>

\* The message is queued for retry, and SendMessage will return the error.
QueuesForRetry(m) ==
  /\ returned[m] = "failed" /\ returned' = [returned EXCEPT ![m] = "queueing"]
  /\ Enqueue(m)
  /\ UNCHANGED <<breaker, refused, answer, channel, conn, selects>>

QueuedForRetry(m) ==
  /\ returned[m] = "queueing" /\ returned' = [returned EXCEPT ![m] = "error"]
  /\ EnqueueReturns
  /\ UNCHANGED <<breaker, refused, answer, channel, conn, selects>>

\* RecordResult: first the load of the state word, then the update.
LoadForResult(m) ==
  /\ returned[m] \in {"nil", "error"} /\ CB!FinishWith(m, returned[m] = "error")
  /\ UNCHANGED <<rqVars, calls, channel, conn, selects>>

ReturnToCaller(m) ==
  /\ CB!RecordFailure(m) \/ CB!RecordSuccess(m)
  /\ answer' = [answer EXCEPT ![m] = returned[m]]
  /\ returned' = [returned EXCEPT ![m] = "no"]
  /\ UNCHANGED <<rqVars, refused, channel, conn, selects>>

CoolDown ==
  /\ CB!CoolDown
  /\ UNCHANGED <<rqVars, calls, channel, conn, selects>>

-----------------------------------------------------------------------------
(* The retry queue's processor, whose sendFunc is sendMessageDirect. *)
Outside == <<breaker, calls, conn>>

QueueOnly == UNCHANGED <<Outside, channel, selects>>

ProcessorRuns == ProcessorStep /\ QueueOnly
TimePasses(m) == BecomesDue(m) /\ QueueOnly
\* Connect starts the queue, Disconnect stops it; Clear is there for whoever
\* holds the queue.
QueueStarts == Start /\ QueueOnly
QueueControl == (Stop \/ Clear) /\ QueueOnly
QueueCleared == ClearReturns /\ QueueOnly

RetryEnters ==
  /\ processor = "sending"
  /\ EntersSelect(sending)
  /\ UNCHANGED <<rqVars, Outside, channel>>

RetryOk ==
  /\ processor = "sending"
  /\ Sent(sending)
  /\ RetrySucceeds(sending)
  /\ UNCHANGED <<Outside, holding, writer, wire, lost>>

RetryNotOk ==
  /\ processor = "sending"
  /\ NotRunning(sending) \/ NotSent(sending)
  /\ RetryFails(sending)
  /\ UNCHANGED <<Outside, channel>>

-----------------------------------------------------------------------------
(* The writer and the link. *)
WriterTakes ==
  /\ writer /\ holding = None /\ sendChan # <<>>
  /\ holding' = Head(sendChan)
  /\ sendChan' = Tail(sendChan)
  /\ UNCHANGED <<rqVars, Outside, selects, writer, wire, lost>>

\* Mutant: a message that could not be written is put back and also counted
\* as lost.
WriterWritesRequeues ==
  /\ holding # None
  /\ holding' = None
  /\ IF link = "up" THEN wire' = wire \cup {holding} /\ UNCHANGED <<lost, sendChan>>
                    ELSE /\ lost' = lost \cup {holding} /\ UNCHANGED wire
                         /\ sendChan' = Append(sendChan, holding)
  /\ writer' = (link # "dead")
  /\ UNCHANGED <<rqVars, Outside, selects>>

\* The write; with no connection the message is dropped, and after a write
\* error it is lost with the writer.
WriterWrites ==
  /\ holding # None
  /\ holding' = None
  /\ IF link = "up" THEN wire' = wire \cup {holding} /\ UNCHANGED lost
                    ELSE lost' = lost \cup {holding} /\ UNCHANGED wire
  /\ writer' = (link # "dead")
  /\ UNCHANGED <<rqVars, Outside, selects, sendChan>>

\* The cancelled context ends a writer at its select, if that is what it picks.
WriterExits ==
  /\ link = "down" /\ writer /\ holding = None
  /\ writer' = FALSE
  /\ UNCHANGED <<rqVars, Outside, selects, sendChan, holding, wire, lost>>

LinkLost ==
  /\ link = "up" /\ losses < MaxLosses
  /\ link' = "dead" /\ losses' = losses + 1
  /\ UNCHANGED <<rqVars, breaker, calls, channel, selects>>

\* reconnect() or Disconnect: running is cleared and the context cancelled.
TearDown ==
  /\ link = "dead" \/ (link = "up" /\ losses < MaxLosses)
  /\ link' = "down"
  /\ losses' = IF link = "up" THEN losses + 1 ELSE losses
  /\ interrupted' = selecting
  /\ UNCHANGED <<rqVars, breaker, calls, channel, selecting>>

\* Mutant: reconnect() starts no writer.
ReconnectedNoWriter ==
  /\ link = "down"
  /\ link' = "up"
  /\ UNCHANGED <<rqVars, breaker, calls, sendChan, holding, writer, wire, lost, losses, selects>>

\* reconnect() has a connection and starts a writer.
Reconnected ==
  /\ link = "down"
  /\ link' = "up"
  /\ writer' = TRUE
  /\ UNCHANGED <<rqVars, breaker, calls, sendChan, holding, wire, lost, losses, selects>>

-----------------------------------------------------------------------------
SenderStep(m) ==
  \/ AskBreaker(m) \/ TryDirect(m) \/ DirectOk(m) \/ DirectFails(m)
  \/ QueuesForRetry(m) \/ QueuedForRetry(m) \/ LoadForResult(m) \/ ReturnToCaller(m)

RetryStep == RetryEnters \/ RetryOk \/ RetryNotOk

Next ==
  \/ \E m \in Msgs : BeginSend(m) \/ SenderStep(m)
  \/ CoolDown
  \/ ProcessorRuns \/ (\E m \in Msgs : TimePasses(m)) \/ RetryStep
  \/ QueueStarts \/ QueueControl \/ QueueCleared
  \/ WriterTakes \/ WriterWrites \/ WriterExits
  \/ LinkLost \/ TearDown \/ Reconnected

\* Goroutines inside a call run on: the senders, the queue's processor (its
\* ticker ticks, its entries become due), a Clear under way and the writer.  Nothing starts or
\* stops the queue, loses the link or restores it by itself.
Fairness ==
  /\ \A m \in Msgs : WF_vars(SenderStep(m))
  /\ WF_vars(ProcessorRuns \/ RetryStep)
  /\ WF_vars(\E m \in Msgs : TimePasses(m))
  /\ WF_vars(QueueCleared)
  /\ WF_vars(WriterTakes \/ WriterWrites)

Spec == Init /\ [][Next]_vars /\ Fairness

-----------------------------------------------------------------------------
\* The places a message can be in, and what has become of it.
Place == [
  calling   |-> {m \in Msgs : pc[m] # "idle" /\ returned[m] \in {"no", "failed"}},
  queued    |-> queue \cup batch \cup Sending,
  channel   |-> Range(sendChan),
  writer    |-> {holding} \ {None},
  wire      |-> wire,
  lost      |-> lost,
  dropped   |-> exhausted \cup cleared,
  refused   |-> refused ]

\* One SendMessage call never multiplies its message: it is in one place only,
\* with the sender, the queue, the channel or the writer, or it is on the wire,
\* lost, dropped or refused; sendChan holds no message twice.
AtMostOnce ==
  /\ Cardinality(Range(sendChan)) = Len(sendChan)
  /\ LET P == Place
     IN \A m \in Msgs : Cardinality({p \in DOMAIN P : m \in P[p]}) <= 1

Status(m) ==
  CASE ~Begun(m) -> "new"
    [] m \in wire -> "wire"
    [] m \in lost -> "lost"
    [] m \in refused -> "refused"
    [] m \in exhausted \/ m \in cleared -> "dropped"
    [] OTHER -> "pending"

Contract == INSTANCE DeliveryContract
  WITH status <- [m \in Msgs |-> Status(m)], told <- answer

\* The client keeps the contract of DeliveryContract: one outcome per call, for
\* good, and only a message whose caller got an error is ever given up.
KeepsContract == Contract!Spec

\* If the link keeps coming back under a queue that was started and never
\* stopped, no message stays pending: neither the breaker nor the channel nor
\* the queue nor the writer holds one for ever.
EverySendSettles ==
  []<>(link = "up" /\ processing /\ ~ctxDone) =>
    <>[](\A m \in Msgs : Status(m) # "pending")
=============================================================================
