------------------------ MODULE MessageDeliveryProofs ------------------------
(***************************************************************************)
(* Proofs about the way of a message through the client, for any messages, *)
(* limits and losses.                                                      *)
(*                                                                         *)
(* First the parts: whatever else the client does, its retry queue takes   *)
(* steps of RetryQueue only and its breaker steps of CircuitBreaker only,  *)
(* so that their invariants hold in the composition as well.  The          *)
(* composition starts the queue at once and may find the breaker open, so  *)
(* it inherits the inductive invariants and not the Inits.                 *)
(*                                                                         *)
(* Then the whole: one invariant, Placed, says where a message can be at   *)
(* each point of its call.  At most once and the contract of               *)
(* DeliveryContract follow from it.                                        *)
(***************************************************************************)
EXTENDS MessageDelivery, RetryQueueProofs

(* Every step of the composition is a step of the queue or leaves it alone.   *)
LEMMA QueueStep ==
  ASSUME QueueInv, [Next]_vars
  PROVE  [QueueNext]_rqVars
  <1>1. ASSUME NEW m \in Msgs, BeginSend(m) \/ SenderStep(m) PROVE [QueueNext]_rqVars
    BY <1>1 DEF BeginSend, SenderStep, AskBreaker, TryDirect, DirectOk, DirectFails,
                QueuesForRetry, QueuedForRetry, LoadForResult, ReturnToCaller, QueueNext
  <1>2. CASE CoolDown
    BY <1>2 DEF CoolDown
  <1>3. CASE \/ ProcessorRuns \/ (\E m \in Msgs : TimePasses(m))
             \/ QueueStarts \/ QueueControl \/ QueueCleared
    BY <1>3 DEF ProcessorRuns, TimePasses, QueueStarts, QueueControl, QueueCleared, QueueNext
  <1>4. CASE RetryStep
    <2>1. processor = "sending" => sending \in Msgs
      BY DEF QueueInv, QueueTypeOK, Held
    <2>2. QED
      BY <1>4, <2>1 DEF RetryStep, RetryEnters, RetryOk, RetryNotOk, QueueNext
  <1>5. CASE WriterTakes \/ WriterWrites \/ WriterExits \/ LinkLost \/ TearDown \/ Reconnected
    BY <1>5 DEF WriterTakes, WriterWrites, WriterExits, LinkLost, TearDown, Reconnected
  <1>6. CASE UNCHANGED vars
    BY <1>6 DEF vars
  <1>7. QED
    BY <1>1, <1>2, <1>3, <1>4, <1>5, <1>6 DEF Next

(* So the queue's invariant holds in the client.                              *)
LEMMA QueueInvHere == Spec => []QueueInv
  <1>1. Init => QueueInv
    BY EmptyInv DEF Init
  <1>2. QueueInv /\ [Next]_vars => QueueInv'
    BY QueueStep, QueueNextInv
  <1>3. QED
    BY <1>1, <1>2, PTL DEF Spec

-----------------------------------------------------------------------------
(* Whatever SendMessage entrusted to the retry queue is waiting, with the     *)
(* processor, delivered, exhausted or cleared, and nowhere twice, although    *)
(* processReadyMessages works on its batch without the lock.                  *)
THEOREM ConservedInClient == Spec => []Conserved
  BY QueueInvHere, PTL DEF QueueInv

(* A message whose sendMessageDirect keeps failing is given up after exactly  *)
(* MaxRetries calls of it by retryMessage.                                    *)
THEOREM AttemptsInClient == Spec => []AttemptsExact
  BY QueueInvHere, PTL DEF QueueInv

(* The queue's metrics, which GetMetrics reads without q.mu, are off from what *)
(* became of its messages by no more than the one update that SendMessage's   *)
(* Enqueue, the processor or a Clear is about to make.                        *)
THEOREM MetricsInClient == Spec => []MetricsAgree
  <1>1. Init => MetricsInv
    BY FS_EmptySet DEF Init, QueueEmpty, MetricsInv, MetricsAgree
  <1>2. QueueInv /\ QueueInv' /\ MetricsInv /\ [Next]_vars => MetricsInv'
    BY QueueStep, MetricsNext
  <1>3. QED
    BY <1>1, <1>2, QueueInvHere, PTL DEF Spec, MetricsInv

-----------------------------------------------------------------------------
\* The proofs about the circuit breaker, for the breaker inside the client.
Breaker == INSTANCE CircuitBreakerProofs WITH Callers <- Msgs

(* The breaker's assumptions hold of the client's constants.                  *)
LEMMA BreakerConstants ==
  /\ Breaker!IsFiniteSet(Msgs)
  /\ MaxFailures \in Nat \ {0} /\ HalfOpenRequests \in Nat \ {0}
  BY QueueAssumption, DeliveryAssumption DEF IsFiniteSet, Breaker!IsFiniteSet

(* The types the client states of its breaker are those the breaker keeps.    *)
LEMMA SameTypes == CB!TypeOK <=> Breaker!TypeOK
  BY DEF CB!TypeOK, Breaker!TypeOK, CB!CircuitState, Breaker!CircuitState,
         CB!CallPC, Breaker!CallPC

(* The client starts with a well-typed breaker whose slots are accounted for. *)
LEMMA BreakerStarts == Init => Breaker!TypeOK /\ Breaker!SlotsAccounted
  <1>1. CASE CB!Init
    <2>1. Breaker!Init
      BY <1>1 DEF CB!Init, Breaker!Init
    <2>2. QED
      BY <2>1, BreakerConstants, Breaker!InitTypeOK, Breaker!InitSlots
  <1>2. ASSUME state = "open", failures = MaxFailures, cooled = TRUE,
               successCount = 0, halfOpenAttempts = 0,
               pc = [m \in Msgs |-> "idle"], seen = [m \in Msgs |-> "closed"],
               failed = [m \in Msgs |-> FALSE]
        PROVE  Breaker!TypeOK /\ Breaker!SlotsAccounted
    BY <1>2, DeliveryAssumption
       DEF Breaker!TypeOK, Breaker!SlotsAccounted, Breaker!CircuitState, Breaker!CallPC
  <1>3. QED
    BY <1>1, <1>2 DEF Init

(* Every step of the client is a step of the breaker or leaves it alone.      *)
LEMMA BreakerStep ==
  ASSUME [Next]_vars
  PROVE  [Breaker!Next]_(Breaker!vars)
  <1> USE DEF breaker, Breaker!vars
  <1>1. ASSUME NEW m \in Msgs, BeginSend(m) PROVE Breaker!Next
    BY <1>1 DEF BeginSend, Breaker!Next, CB!LoadState, Breaker!LoadState, CB!Goto,
                Breaker!Goto, CB!counters, Breaker!counters
  <1>2. ASSUME NEW m \in Msgs, AskBreaker(m) PROVE Breaker!Next
    <2>1. CB!CheckTimeout(m) => Breaker!CheckTimeout(m)
      BY DEF CB!CheckTimeout, Breaker!CheckTimeout, CB!Goto, Breaker!Goto,
             CB!counters, Breaker!counters
    <2>2. CB!EnterHalfOpen(m) => Breaker!EnterHalfOpen(m)
      BY DEF CB!EnterHalfOpen, Breaker!EnterHalfOpen, CB!Goto, Breaker!Goto
    <2>3. CB!ClaimSlot(m) => Breaker!ClaimSlot(m)
      BY DEF CB!ClaimSlot, Breaker!ClaimSlot, CB!Goto, Breaker!Goto
    <2>4. QED
      BY <1>2, <2>1, <2>2, <2>3 DEF AskBreaker, Breaker!Next, Breaker!Continue
  <1>3. ASSUME NEW m \in Msgs, LoadForResult(m) PROVE Breaker!Next
    <2>1. PICK err \in BOOLEAN : CB!FinishWith(m, err)
      BY <1>3 DEF LoadForResult
    <2>2. Breaker!FinishWith(m, err)
      BY <2>1 DEF CB!FinishWith, Breaker!FinishWith, CB!Goto, Breaker!Goto,
                  CB!counters, Breaker!counters
    <2>3. QED
      BY <2>2 DEF Breaker!Next, Breaker!Continue, Breaker!FinishCall
  <1>4. ASSUME NEW m \in Msgs, ReturnToCaller(m) PROVE Breaker!Next
    <2>1. CB!RecordFailure(m) => Breaker!RecordFailure(m)
      BY DEF CB!RecordFailure, Breaker!RecordFailure, CB!Return, Breaker!Return,
             CB!Goto, Breaker!Goto
    <2>2. CB!RecordSuccess(m) => Breaker!RecordSuccess(m)
      BY DEF CB!RecordSuccess, Breaker!RecordSuccess, CB!Return, Breaker!Return,
             CB!Goto, Breaker!Goto, CB!ProbesPassed, Breaker!ProbesPassed,
             CB!counters, Breaker!counters
    <2>3. QED
      BY <1>4, <2>1, <2>2 DEF ReturnToCaller, Breaker!Next, Breaker!Continue
  <1>5. CASE CoolDown
    BY <1>5 DEF CoolDown, CB!CoolDown, Breaker!Next, Breaker!CoolDown, CB!counters,
                Breaker!counters
  <1>6. ASSUME NEW m \in Msgs, \/ TryDirect(m) \/ DirectOk(m) \/ DirectFails(m)
                               \/ QueuesForRetry(m) \/ QueuedForRetry(m)
        PROVE  UNCHANGED Breaker!vars
    BY <1>6 DEF TryDirect, DirectOk, DirectFails, QueuesForRetry, QueuedForRetry
  <1>7. ASSUME \/ ProcessorRuns \/ (\E m \in Msgs : TimePasses(m)) \/ RetryStep
               \/ QueueStarts \/ QueueControl \/ QueueCleared \/ WriterTakes \/ WriterWrites
               \/ WriterExits \/ LinkLost \/ TearDown \/ Reconnected
               \/ UNCHANGED vars
        PROVE  UNCHANGED Breaker!vars
    BY <1>7 DEF ProcessorRuns, TimePasses, QueueStarts, QueueControl, QueueCleared, QueueOnly,
                Outside, RetryStep, RetryEnters, RetryOk, RetryNotOk, WriterTakes,
                WriterWrites, WriterExits, LinkLost, TearDown, Reconnected, vars
  <1>8. QED
    BY <1>1, <1>2, <1>3, <1>4, <1>5, <1>6, <1>7 DEF Next, SenderStep

(* So the breaker's invariants hold in the client.                            *)
LEMMA BreakerHere == Spec => [](Breaker!TypeOK /\ Breaker!SlotsAccounted)
  <1>1. Breaker!TypeOK /\ Breaker!SlotsAccounted /\ [Next]_vars
          => (Breaker!TypeOK /\ Breaker!SlotsAccounted)'
    BY BreakerStep, BreakerConstants, Breaker!NextTypeOK, Breaker!NextSlots
  <1>2. QED
    BY <1>1, BreakerStarts, PTL DEF Spec

(* Whatever goes on around it, the circuit breaker of the client never refuses *)
(* every message for ever: a half-open circuit has a slot left in CanAttempt   *)
(* or a call of sendMessageDirect under way whose result will decide it.       *)
THEOREM BreakerNeverStuckInClient == Spec => []CB!HalfOpenNotStuck
  <1>1. Breaker!TypeOK /\ Breaker!SlotsAccounted => Breaker!HalfOpenNotStuck
    BY BreakerConstants, Breaker!AccountedNotStuck
  <1>2. Breaker!HalfOpenNotStuck <=> CB!HalfOpenNotStuck
    BY DEF CB!HalfOpenNotStuck, Breaker!HalfOpenNotStuck, CB!Undecided, Breaker!Undecided
  <1>3. QED
    BY <1>1, <1>2, BreakerHere, PTL

-----------------------------------------------------------------------------
(* sendChan as a set: a send adds its message, the writer takes one out.      *)
LEMMA RangeAppend ==
  ASSUME NEW s \in Seq(Msgs), NEW m \in Msgs
  PROVE  Range(Append(s, m)) = Range(s) \cup {m}
  <1>1. /\ DOMAIN Append(s, m) = 1..Len(s) + 1
        /\ \A i \in 1..Len(s) : Append(s, m)[i] = s[i]
        /\ Append(s, m)[Len(s) + 1] = m
        /\ DOMAIN s = 1..Len(s) /\ Len(s) \in Nat
    OBVIOUS
  <1>2. 1..Len(s) + 1 = 1..Len(s) \cup {Len(s) + 1}
    BY <1>1
  <1>3. QED
    BY <1>1, <1>2 DEF Range

\* No message is in s twice.
NoRepeats(s) == \A i, j \in DOMAIN s : s[i] = s[j] => i = j

LEMMA AppendNoRepeats ==
  ASSUME NEW s \in Seq(Msgs), NEW m \in Msgs, NoRepeats(s), m \notin Range(s)
  PROVE  NoRepeats(Append(s, m))
  BY DEF NoRepeats, Range

(* The writer's receive takes the head, which is in the rest no more.         *)
LEMMA RangeTail ==
  ASSUME NEW s \in Seq(Msgs), s # <<>>
  PROVE  /\ Head(s) \in Range(s)
         /\ Range(s) = {Head(s)} \cup Range(Tail(s))
         /\ NoRepeats(s) => NoRepeats(Tail(s)) /\ Head(s) \notin Range(Tail(s))
  <1>1. /\ DOMAIN Tail(s) = 1..Len(s) - 1
        /\ \A i \in 1..Len(s) - 1 : Tail(s)[i] = s[i + 1]
        /\ Head(s) = s[1]
        /\ DOMAIN s = 1..Len(s) /\ Len(s) \in Nat \ {0}
    OBVIOUS
  <1>2. ASSUME NEW i \in DOMAIN s PROVE i = 1 \/ \E j \in DOMAIN Tail(s) : Tail(s)[j] = s[i]
    <2>1. i # 1 => (i - 1) \in 1..Len(s) - 1 /\ (i - 1) + 1 = i
      BY <1>1
    <2>2. QED
      BY <1>1, <2>1
  <1>3. ASSUME NEW i \in DOMAIN Tail(s)
        PROVE  i + 1 \in DOMAIN s /\ i + 1 # 1 /\ i \in Nat /\ Tail(s)[i] = s[i + 1]
    BY <1>1
  <1>4. 1 \in DOMAIN s
    BY <1>1
  <1>5. Range(s) = {Head(s)} \cup Range(Tail(s))
    <2>1. Head(s) \in Range(s)
      BY <1>1, <1>4 DEF Range
    <2>2. Range(Tail(s)) \subseteq Range(s)
      BY <1>3 DEF Range
    <2>3. ASSUME NEW m \in Range(s), m # Head(s) PROVE m \in Range(Tail(s))
      <3>1. PICK i \in DOMAIN s : m = s[i]
        BY DEF Range
      <3>2. PICK j \in DOMAIN Tail(s) : Tail(s)[j] = m
        BY <1>1, <1>2, <2>3, <3>1
      <3>3. QED
        BY <3>2 DEF Range
    <2>4. QED
      BY <2>1, <2>2, <2>3
  <1>6. ASSUME NoRepeats(s) PROVE NoRepeats(Tail(s))
    <2>1. ASSUME NEW i \in DOMAIN Tail(s), NEW j \in DOMAIN Tail(s), i + 1 = j + 1
          PROVE  i = j
      BY <1>3, <2>1
    <2>2. QED
      BY <1>3, <1>6, <2>1 DEF NoRepeats
  <1>7. ASSUME NoRepeats(s) PROVE Head(s) \notin Range(Tail(s))
    BY <1>1, <1>3, <1>4, <1>7 DEF NoRepeats, Range
  <1>8. QED
    BY <1>5, <1>6, <1>7

(* A sequence without repeats is as long as it has elements.                  *)
LEMMA NoRepeatsLength ==
  ASSUME NEW s \in Seq(Msgs), NoRepeats(s)
  PROVE  Cardinality(Range(s)) = Len(s)
  <1>1. s \in Bijection(1..Len(s), Range(s))
    BY DEF NoRepeats, Range, Bijection, Injection, Surjection, IsInjective
  <1>2. QED
    BY <1>1, FS_CountingElements DEF ExistsBijection

-----------------------------------------------------------------------------
\* What TypeOK says besides the types of the queue and of the breaker.
OwnTypeOK ==
  /\ returned \in [Msgs -> {"no", "nil", "failed", "queueing", "error"}]
  /\ interrupted \subseteq selecting /\ selecting \subseteq Msgs
  /\ sendChan \in Seq(Msgs) /\ Len(sendChan) <= Capacity
  /\ holding \in Msgs \cup {None}
  /\ writer \in BOOLEAN
  /\ link \in {"up", "dead", "down"} /\ losses \in 0..MaxLosses
  /\ wire \subseteq Msgs /\ lost \subseteq Msgs /\ refused \subseteq Msgs
  /\ answer \in [Msgs -> {"nothing", "nil", "error"}]

\* The messages sendChan has taken, wherever they went from there.
Accepted == Range(sendChan) \cup ({holding} \ {None}) \cup wire \cup lost

\* How far the call of SendMessage is says where its message can be: before
\* sendMessageDirect has returned, and before the Enqueue after an error, nowhere,
\* and in the retry queue only with an error for the caller.
CallPlaced(m) ==
  /\ pc[m] # "idle" => answer[m] = "nothing"
  /\ returned[m] # "no" => pc[m] \in {"calling", "probing", "record"}
  /\ pc[m] = "record" => returned[m] \in {"nil", "error"}
  /\ returned[m] \in {"no", "failed"} /\ answer[m] = "nothing" =>
       m \notin enqueued \cup Accepted \cup refused
  /\ m \in enqueued => returned[m] \in {"queueing", "error"} \/ answer[m] = "error"
  /\ m \in refused => answer[m] = "error"

\* What the channel took is out of the retry queue's hands, what the breaker
\* refused is nowhere else, and no message is twice on the way to the wire.
PlacesApart ==
  /\ Accepted \cap enqueued \subseteq delivered
  /\ refused \cap (Accepted \cup enqueued) = {}
  /\ holding \notin Range(sendChan) \cup wire \cup lost
  /\ Range(sendChan) \cap (wire \cup lost) = {} /\ wire \cap lost = {}
  /\ NoRepeats(sendChan)

Placed == PlacesApart /\ \A m \in Msgs : CallPlaced(m)

\* Inductive, given the invariants of the queue and the types of the breaker.
ClientInv == OwnTypeOK /\ Placed

PartsOK == QueueInv /\ CB!TypeOK

(* NewNetworkClient and Connect: no message is anywhere.                      *)
LEMMA ClientInvInit == Init => ClientInv
  <1> SUFFICES ASSUME Init PROVE ClientInv
    OBVIOUS
  <1>1. /\ pc = [m \in Msgs |-> "idle"] /\ enqueued = {}
        /\ returned = [m \in Msgs |-> "no"] /\ answer = [m \in Msgs |-> "nothing"]
        /\ sendChan = <<>> /\ holding = None /\ wire = {} /\ lost = {} /\ refused = {}
    BY DEF Init, CB!Init, QueueEmpty
  <1>2. Range(<<>>) = {} /\ NoRepeats(<<>>)
    BY DEF Range, NoRepeats
  <1>3. OwnTypeOK
    BY <1>1, DeliveryAssumption DEF Init, OwnTypeOK
  <1>4. Placed
    BY <1>1, <1>2 DEF Placed, PlacesApart, CallPlaced, Accepted
  <1>5. QED
    BY <1>3, <1>4 DEF ClientInv

(* Steps that move no message and change no call.                             *)
LEMMA PlacedStays ==
  ASSUME Placed,
         UNCHANGED <<pc, returned, answer, refused, enqueued, delivered,
                     sendChan, holding, wire, lost>>
  PROVE  Placed'
  BY DEF Placed, PlacesApart, CallPlaced, Accepted

(* SendMessage asks the breaker: the call begins, goes on or is refused.      *)
LEMMA AskingClientInv ==
  ASSUME PartsOK, ClientInv, NEW m \in Msgs, BeginSend(m) \/ AskBreaker(m)
  PROVE  ClientInv'
  <1> USE DEF ClientInv, PartsOK
  <1>1. /\ UNCHANGED <<returned, enqueued, delivered, sendChan, holding, wire, lost>>
        /\ UNCHANGED <<selects, writer, conn>>
        /\ pc \in [Msgs -> CB!CallPC]
    BY DEF BeginSend, AskBreaker, rqVars, fates, channel, calls, CB!TypeOK
  <1>2. PICK to \in CB!CallPC \ {"record"} :
          /\ pc' = [pc EXCEPT ![m] = to]
          /\ pc[m] \in {"idle", "timeoutCheck", "enterHalfOpen", "claimSlot"}
          /\ \/ to # "idle" /\ UNCHANGED <<refused, answer>> /\ answer[m] = "nothing"
             \/ /\ to = "idle" /\ pc[m] # "idle"
                /\ refused' = refused \cup {m} /\ answer' = [answer EXCEPT ![m] = "error"]
    <2>1. CASE BeginSend(m)
      <3>1. state \in CB!CircuitState
        BY DEF CB!TypeOK
      <3>2. pc' = [pc EXCEPT ![m] = CASE state = "closed"   -> "calling"
                                      [] state = "open"     -> "timeoutCheck"
                                      [] state = "halfOpen" -> "claimSlot"]
        BY <2>1 DEF BeginSend, CB!LoadState, CB!Goto
      <3>3. \E to \in {"calling", "timeoutCheck", "claimSlot"} : pc' = [pc EXCEPT ![m] = to]
        BY <3>1, <3>2 DEF CB!CircuitState
      <3>4. QED
        BY <2>1, <3>3 DEF BeginSend, Begun, calls, CB!CallPC
    <2>2. CASE AskBreaker(m)
      <3>1. \E to \in {"idle", "enterHalfOpen", "probing"} :
              /\ pc' = [pc EXCEPT ![m] = to]
              /\ pc[m] \in {"timeoutCheck", "enterHalfOpen", "claimSlot"}
        BY <2>2 DEF AskBreaker, CB!CheckTimeout, CB!EnterHalfOpen, CB!ClaimSlot, CB!Goto
      <3>2. answer[m] = "nothing"
        BY <3>1 DEF Placed, CallPlaced
      <3>3. QED
        BY <1>1, <2>2, <3>1, <3>2 DEF AskBreaker, CB!CallPC
    <2>3. QED
      BY <2>1, <2>2
  <1>3. returned[m] = "no" /\ answer[m] = "nothing"
    BY <1>2 DEF Placed, CallPlaced
  <1>4. m \notin enqueued \cup Accepted \cup refused
    BY <1>3 DEF Placed, CallPlaced
  <1>5. OwnTypeOK'
    BY <1>1, <1>2 DEF OwnTypeOK, selects, conn
  <1>6. Accepted' = Accepted
    BY <1>1 DEF Accepted
  <1>7. PlacesApart'
    BY <1>1, <1>2, <1>4, <1>6 DEF Placed, PlacesApart
  <1>8. ASSUME NEW n \in Msgs PROVE CallPlaced(n)'
    <2>1. CallPlaced(n)
      BY DEF Placed
    <2>2. CASE n = m
      BY <1>1, <1>2, <1>3, <1>4, <1>6, <2>1, <2>2 DEF CallPlaced, OwnTypeOK
    <2>3. CASE n # m
      BY <1>1, <1>2, <1>6, <2>1, <2>3 DEF CallPlaced, OwnTypeOK
    <2>4. QED
      BY <2>2, <2>3
  <1>9. QED
    BY <1>5, <1>7, <1>8 DEF Placed

(* While sendMessageDirect runs for the caller, the message is in no queue,   *)
(* in no channel and not refused.                                             *)
LEMMA TryingInHand ==
  ASSUME Placed, NEW m \in Msgs, Trying(m)
  PROVE  answer[m] = "nothing" /\ m \notin enqueued \cup Accepted \cup refused
  BY DEF Placed, CallPlaced, Trying

(* sendChan takes a message that is nowhere on the way to the wire yet.       *)
LEMMA ChannelTakes ==
  ASSUME OwnTypeOK, PlacesApart, NEW m \in Msgs, m \notin Accepted \cup refused,
         sendChan' = Append(sendChan, m), Len(sendChan) < Capacity,
         UNCHANGED <<holding, wire, lost, refused>>,
         delivered \subseteq delivered', enqueued' = enqueued, m \in enqueued => m \in delivered'
  PROVE  /\ Accepted' = Accepted \cup {m}
         /\ sendChan' \in Seq(Msgs) /\ Len(sendChan') <= Capacity
         /\ PlacesApart'
  <1> USE DEF OwnTypeOK
  <1>1. Range(sendChan') = Range(sendChan) \cup {m}
    BY RangeAppend
  <1>2. Accepted' = Accepted \cup {m}
    BY <1>1 DEF Accepted
  <1>3. sendChan' \in Seq(Msgs) /\ Len(sendChan') <= Capacity
    BY DeliveryAssumption
  <1>4. NoRepeats(sendChan')
    BY AppendNoRepeats DEF PlacesApart, Accepted
  <1>5. m # None /\ m # holding
    BY QueueAssumption DEF Accepted
  <1>6. /\ holding \notin Range(sendChan') \cup wire \cup lost
        /\ Range(sendChan') \cap (wire \cup lost) = {}
    BY <1>1, <1>5 DEF PlacesApart, Accepted
  <1>7. /\ Accepted' \cap enqueued' \subseteq delivered'
        /\ refused' \cap (Accepted' \cup enqueued') = {}
    BY <1>2 DEF PlacesApart
  <1>8. PlacesApart'
    BY <1>4, <1>6, <1>7 DEF PlacesApart
  <1>9. QED
    BY <1>2, <1>3, <1>8

(* sendMessageDirect for the caller, with its three results.                  *)
LEMMA DirectClientInv ==
  ASSUME PartsOK, ClientInv, NEW m \in Msgs,
         TryDirect(m) \/ DirectOk(m) \/ DirectFails(m)
  PROVE  ClientInv'
  <1> USE DEF ClientInv, PartsOK
  <1>1. CASE TryDirect(m)
    <2>1. OwnTypeOK'
      BY <1>1 DEF TryDirect, EntersSelect, OwnTypeOK, calls, channel, conn
    <2>2. QED
      BY <1>1, <2>1, PlacedStays DEF TryDirect, rqVars, fates, breaker, calls, channel
  <1>2. CASE DirectOk(m)
    <2>1. /\ sendChan' = Append(sendChan, m) /\ Len(sendChan) < Capacity
          /\ selecting' = selecting \ {m} /\ interrupted' = interrupted \ {m}
          /\ returned' = [returned EXCEPT ![m] = "nil"]
          /\ UNCHANGED <<pc, refused, answer, holding, writer, wire, lost, link, losses,
                         enqueued, delivered>>
      BY <1>2 DEF DirectOk, Sent, rqVars, fates, breaker, conn
    <2>2. answer[m] = "nothing" /\ m \notin enqueued \cup Accepted \cup refused
      BY <1>2, TryingInHand DEF DirectOk
    <2>3. /\ Accepted' = Accepted \cup {m}
          /\ sendChan' \in Seq(Msgs) /\ Len(sendChan') <= Capacity
          /\ PlacesApart'
      BY <2>1, <2>2, ChannelTakes DEF Placed
    <2>4. OwnTypeOK'
      BY <2>1, <2>3 DEF OwnTypeOK
    <2>5. ASSUME NEW n \in Msgs PROVE CallPlaced(n)'
      <3>1. CallPlaced(n) /\ pc[m] \in {"calling", "probing"}
        BY <1>2 DEF Placed, DirectOk, Trying
      <3>2. CASE n = m
        BY <2>1, <2>2, <3>1, <3>2 DEF CallPlaced, OwnTypeOK
      <3>3. CASE n # m
        BY <2>1, <2>3, <3>1, <3>3 DEF CallPlaced, OwnTypeOK
      <3>4. QED
        BY <3>2, <3>3
    <2>6. QED
      BY <2>3, <2>4, <2>5 DEF Placed
  <1>3. CASE DirectFails(m)
    <2>1. /\ selecting' \subseteq selecting /\ interrupted' \subseteq interrupted
          /\ interrupted' \subseteq selecting'
          /\ returned' = [returned EXCEPT ![m] = "failed"]
          /\ UNCHANGED <<pc, refused, answer, sendChan, holding, writer, wire, lost, link,
                         losses, enqueued, delivered>>
      BY <1>3 DEF DirectFails, NotRunning, NotSent, rqVars, fates, breaker, channel, conn,
                  selects, OwnTypeOK
    <2>2. OwnTypeOK'
      BY <2>1 DEF OwnTypeOK
    <2>3. Accepted' = Accepted
      BY <2>1 DEF Accepted
    <2>4. PlacesApart'
      BY <2>1, <2>3 DEF Placed, PlacesApart
    <2>5. ASSUME NEW n \in Msgs PROVE CallPlaced(n)'
      <3>1. CallPlaced(n) /\ pc[m] \in {"calling", "probing"} /\ returned[m] = "no"
        BY <1>3 DEF Placed, DirectFails, Trying
      <3>2. CASE n = m
        BY <2>1, <2>3, <3>1, <3>2 DEF CallPlaced, OwnTypeOK
      <3>3. CASE n # m
        BY <2>1, <2>3, <3>1, <3>3 DEF CallPlaced, OwnTypeOK
      <3>4. QED
        BY <3>2, <3>3
    <2>6. QED
      BY <2>2, <2>4, <2>5 DEF Placed
  <1>4. QED
    BY <1>1, <1>2, <1>3

(* The Enqueue after an error puts the message into the retry queue, which    *)
(* nobody else holds, before the caller has its error.                        *)
LEMMA EnqueueClientInv ==
  ASSUME PartsOK, ClientInv, NEW m \in Msgs, QueuesForRetry(m) \/ QueuedForRetry(m)
  PROVE  ClientInv'
  <1> USE DEF ClientInv, PartsOK
  <1>1. UNCHANGED <<pc, refused, answer, sendChan, holding, writer, wire, lost, link, losses,
                    selecting, interrupted, delivered>>
    BY DEF QueuesForRetry, QueuedForRetry, Enqueue, EnqueueReturns, SizeCounted, fates, breaker,
           channel, conn, selects
  <1>2. Accepted' = Accepted
    BY <1>1 DEF Accepted
  <1>3. CASE QueuesForRetry(m)
    <2>1. /\ returned[m] = "failed" /\ returned' = [returned EXCEPT ![m] = "queueing"]
          /\ enqueued' = enqueued \cup {m}
      BY <1>3 DEF QueuesForRetry, Enqueue
    <2>2. CallPlaced(m) /\ pc[m] \in {"calling", "probing"} /\ answer[m] = "nothing"
      BY <2>1 DEF Placed, CallPlaced
    <2>3. m \notin enqueued \cup Accepted \cup refused
      BY <2>1, <2>2 DEF CallPlaced
    <2>4. OwnTypeOK'
      BY <1>1, <2>1 DEF OwnTypeOK
    <2>5. PlacesApart'
      BY <1>1, <1>2, <2>1, <2>3 DEF Placed, PlacesApart
    <2>6. ASSUME NEW n \in Msgs PROVE CallPlaced(n)'
      <3>1. CASE n = m
        BY <1>1, <1>2, <2>1, <2>2, <2>3, <3>1 DEF CallPlaced, OwnTypeOK
      <3>2. CASE n # m
        BY <1>1, <1>2, <2>1, <3>2 DEF Placed, CallPlaced, OwnTypeOK
      <3>3. QED
        BY <3>1, <3>2
    <2>7. QED
      BY <2>4, <2>5, <2>6 DEF Placed
  <1>4. CASE QueuedForRetry(m)
    <2>1. /\ returned[m] = "queueing" /\ returned' = [returned EXCEPT ![m] = "error"]
          /\ enqueued' = enqueued
      BY <1>4 DEF QueuedForRetry, EnqueueReturns, SizeCounted, fates
    <2>2. OwnTypeOK'
      BY <1>1, <2>1 DEF OwnTypeOK
    <2>3. PlacesApart'
      BY <1>1, <1>2, <2>1 DEF Placed, PlacesApart
    <2>4. ASSUME NEW n \in Msgs PROVE CallPlaced(n)'
      <3>1. CallPlaced(n)
        BY DEF Placed
      <3>2. CASE n = m
        BY <1>1, <1>2, <2>1, <3>1, <3>2 DEF CallPlaced, OwnTypeOK
      <3>3. CASE n # m
        BY <1>1, <1>2, <2>1, <3>1, <3>3 DEF CallPlaced, OwnTypeOK
      <3>4. QED
        BY <3>2, <3>3
    <2>5. QED
      BY <2>2, <2>3, <2>4 DEF Placed
  <1>5. QED
    BY <1>3, <1>4

(* RecordResult, and the answer to the caller.                                *)
LEMMA RecordingClientInv ==
  ASSUME PartsOK, ClientInv, NEW m \in Msgs, LoadForResult(m) \/ ReturnToCaller(m)
  PROVE  ClientInv'
  <1> USE DEF ClientInv, PartsOK
  <1>1. /\ UNCHANGED <<enqueued, delivered, sendChan, holding, wire, lost, refused>>
        /\ UNCHANGED <<selecting, interrupted, writer, link, losses>>
        /\ pc \in [Msgs -> CB!CallPC]
    BY DEF LoadForResult, ReturnToCaller, rqVars, fates, channel, calls, selects, conn,
           CB!TypeOK
  <1>2. Accepted' = Accepted
    BY <1>1 DEF Accepted
  <1>3. PlacesApart'
    BY <1>1, <1>2 DEF Placed, PlacesApart
  <1>4. CASE LoadForResult(m)
    <2>1. /\ pc' = [pc EXCEPT ![m] = "record"] /\ pc[m] \in {"calling", "probing"}
          /\ returned[m] \in {"nil", "error"} /\ UNCHANGED <<returned, answer>>
      BY <1>4 DEF LoadForResult, CB!FinishWith, CB!Goto, calls
    <2>2. OwnTypeOK'
      BY <1>1, <2>1 DEF OwnTypeOK
    <2>3. ASSUME NEW n \in Msgs PROVE CallPlaced(n)'
      BY <1>1, <1>2, <2>1 DEF Placed, CallPlaced, CB!TypeOK, CB!CallPC
    <2>4. QED
      BY <1>3, <2>2, <2>3 DEF Placed
  <1>5. CASE ReturnToCaller(m)
    <2>1. /\ pc' = [pc EXCEPT ![m] = "idle"] /\ pc[m] = "record"
          /\ returned' = [returned EXCEPT ![m] = "no"]
          /\ answer' = [answer EXCEPT ![m] = returned[m]]
      BY <1>5 DEF ReturnToCaller, CB!RecordFailure, CB!RecordSuccess, CB!Return, CB!Goto
    <2>2. returned[m] \in {"nil", "error"} /\ answer[m] = "nothing"
      BY <2>1 DEF Placed, CallPlaced, OwnTypeOK
    <2>3. OwnTypeOK'
      BY <1>1, <2>1, <2>2 DEF OwnTypeOK
    <2>4. ASSUME NEW n \in Msgs PROVE CallPlaced(n)'
      <3>1. CallPlaced(n)
        BY DEF Placed
      <3>2. CASE n = m
        BY <1>1, <1>2, <2>1, <2>2, <3>1, <3>2 DEF CallPlaced, OwnTypeOK
      <3>3. CASE n # m
        BY <1>1, <1>2, <2>1, <3>1, <3>3 DEF CallPlaced, OwnTypeOK
      <3>4. QED
        BY <3>2, <3>3
    <2>5. QED
      BY <1>3, <2>3, <2>4 DEF Placed
  <1>6. QED
    BY <1>4, <1>5

(* The retry queue's sendFunc is sendMessageDirect as well; what it sends has *)
(* been entrusted to the queue and is still there.                            *)
LEMMA RetryClientInv ==
  ASSUME PartsOK, ClientInv, RetryStep
  PROVE  ClientInv'
  <1> USE DEF ClientInv, PartsOK
  <1>0. processor = "sending" =>
          sending \in Msgs /\ sending \in enqueued /\ sending \notin delivered
    BY DEF QueueInv, QueueTypeOK, Conserved, Held, Sending
  <1>1. CASE RetryEnters
    <2>1. OwnTypeOK'
      BY <1>0, <1>1 DEF RetryEnters, EntersSelect, OwnTypeOK, Outside, calls, channel, conn
    <2>2. QED
      BY <1>1, <2>1, PlacedStays DEF RetryEnters, rqVars, fates, Outside, breaker, calls, channel
  <1>2. CASE RetryOk
    <2> DEFINE m == sending
    <2>1. m \in Msgs /\ m \in enqueued /\ m \notin delivered
      BY <1>0, <1>2 DEF RetryOk
    <2> HIDE DEF m
    <2>2. /\ sendChan' = Append(sendChan, m) /\ Len(sendChan) < Capacity
          /\ selecting' = selecting \ {m} /\ interrupted' = interrupted \ {m}
          /\ delivered' = delivered \cup {m}
          /\ UNCHANGED <<pc, returned, refused, answer, holding, writer, wire, lost, link,
                         losses, enqueued>>
      BY <1>2 DEF m, RetryOk, Sent, RetrySucceeds, Outside, breaker, calls, conn
    <2>3. m \notin Accepted \cup refused
      BY <2>1 DEF Placed, PlacesApart
    <2>4. /\ Accepted' = Accepted \cup {m}
          /\ sendChan' \in Seq(Msgs) /\ Len(sendChan') <= Capacity
          /\ PlacesApart'
      BY <2>1, <2>2, <2>3, ChannelTakes DEF Placed
    <2>5. OwnTypeOK'
      BY <2>2, <2>4 DEF OwnTypeOK
    <2>6. ASSUME NEW n \in Msgs PROVE CallPlaced(n)'
      BY <2>1, <2>2, <2>4 DEF Placed, CallPlaced
    <2>7. QED
      BY <2>4, <2>5, <2>6 DEF Placed
  <1>3. CASE RetryNotOk
    <2>1. /\ selecting' \subseteq selecting /\ interrupted' \subseteq selecting'
          /\ UNCHANGED <<enqueued, delivered>>
      BY <1>3 DEF RetryNotOk, NotRunning, NotSent, RetryFails, fates, selects, OwnTypeOK
    <2>2. OwnTypeOK'
      BY <1>3, <2>1 DEF RetryNotOk, OwnTypeOK, Outside, calls, channel, conn
    <2>3. QED
      BY <1>3, <2>1, <2>2, PlacedStays DEF RetryNotOk, Outside, breaker, calls, channel
  <1>4. QED
    BY <1>1, <1>2, <1>3 DEF RetryStep

(* The writer takes the oldest message and writes it or loses it.             *)
LEMMA WriterClientInv ==
  ASSUME PartsOK, ClientInv, WriterTakes \/ WriterWrites
  PROVE  ClientInv'
  <1> USE DEF ClientInv, PartsOK
  <1>1. /\ UNCHANGED <<pc, returned, answer, refused, enqueued, delivered>>
        /\ UNCHANGED <<selecting, interrupted, link, losses>>
    BY DEF WriterTakes, WriterWrites, rqVars, fates, Outside, breaker, calls, selects, conn
  <1>2. CASE WriterTakes
    <2> USE DEF OwnTypeOK
    <2>1. /\ holding = None /\ holding' = Head(sendChan) /\ sendChan' = Tail(sendChan)
          /\ sendChan # <<>> /\ UNCHANGED <<writer, wire, lost>>
      BY <1>2 DEF WriterTakes
    <2>2. /\ Head(sendChan) \in Range(sendChan)
          /\ Range(sendChan) = {Head(sendChan)} \cup Range(Tail(sendChan))
          /\ NoRepeats(Tail(sendChan)) /\ Head(sendChan) \notin Range(Tail(sendChan))
      BY <2>1, RangeTail DEF Placed, PlacesApart
    <2>3. Head(sendChan) \in Msgs /\ Tail(sendChan) \in Seq(Msgs)
          /\ Len(Tail(sendChan)) <= Capacity
      BY <2>1, DeliveryAssumption
    <2>4. Accepted' = Accepted
      BY <2>1, <2>2, <2>3, QueueAssumption DEF Accepted
    <2>5. OwnTypeOK'
      BY <1>1, <2>1, <2>3
    <2>6. PlacesApart'
      BY <1>1, <2>1, <2>2, <2>4 DEF Placed, PlacesApart
    <2>7. \A n \in Msgs : CallPlaced(n)'
      BY <1>1, <2>4 DEF Placed, CallPlaced
    <2>8. QED
      BY <2>5, <2>6, <2>7 DEF Placed
  <1>3. CASE WriterWrites
    <2>1. /\ holding # None /\ holding' = None /\ sendChan' = sendChan
          /\ writer' \in BOOLEAN
          /\ \/ wire' = wire \cup {holding} /\ lost' = lost
             \/ lost' = lost \cup {holding} /\ wire' = wire
      BY <1>3 DEF WriterWrites
    <2>2. holding \in Msgs /\ None \notin Range(sendChan) \cup wire \cup lost
      BY <2>1, QueueAssumption DEF OwnTypeOK, Range
    <2>3. Accepted' = Accepted
      BY <2>1 DEF Accepted
    <2>4. OwnTypeOK'
      BY <1>1, <2>1, <2>2 DEF OwnTypeOK
    <2>5. Range(sendChan') \cap (wire' \cup lost') = {} /\ wire' \cap lost' = {}
      BY <2>1 DEF Placed, PlacesApart
    <2>6. holding' \notin Range(sendChan') \cup wire' \cup lost'
      BY <2>1, <2>2, QueueAssumption
    <2>7. PlacesApart'
      BY <1>1, <2>1, <2>3, <2>5, <2>6 DEF Placed, PlacesApart
    <2>8. \A n \in Msgs : CallPlaced(n)'
      BY <1>1, <2>3 DEF Placed, CallPlaced
    <2>9. QED
      BY <2>4, <2>7, <2>8 DEF Placed
  <1>4. QED
    BY <1>2, <1>3

(* Everything else: the processor between two sends, the queue's control, the *)
(* link, and time.                                                            *)
LEMMA OtherClientInv ==
  ASSUME PartsOK, ClientInv,
         \/ CoolDown \/ ProcessorRuns \/ (\E m \in Msgs : TimePasses(m))
         \/ QueueStarts \/ QueueControl \/ QueueCleared
         \/ WriterExits \/ LinkLost \/ TearDown \/ Reconnected \/ UNCHANGED vars
  PROVE  ClientInv'
  <1> USE DEF ClientInv, PartsOK
  <1>1. /\ UNCHANGED <<pc, returned, answer, refused, enqueued, delivered>>
        /\ UNCHANGED <<sendChan, holding, wire, lost>>
    <2>1. CASE \/ ProcessorRuns \/ (\E m \in Msgs : TimePasses(m))
               \/ QueueStarts \/ QueueControl \/ QueueCleared
      <3>1. UNCHANGED <<enqueued, delivered>>
        BY <2>1 DEF ProcessorRuns, ProcessorStep, Tick, ProcessorCounts, SizeCounted, EndBatch,
                    ProcessorExits, BeginRetry, CountSuccess, CountAttempt, Drop, Requeue,
                    TimePasses, BecomesDue, QueueStarts, Start, QueueControl, Stop, Clear,
                    QueueCleared, ClearReturns, fates
      <3>2. QED
        BY <2>1, <3>1 DEF ProcessorRuns, TimePasses, QueueStarts, QueueControl, QueueCleared,
                          QueueOnly, Outside, breaker, calls, channel
    <2>2. CASE CoolDown \/ WriterExits \/ LinkLost \/ TearDown \/ Reconnected \/ UNCHANGED vars
      BY <2>2 DEF CoolDown, CB!CoolDown, WriterExits, LinkLost, TearDown, Reconnected, vars,
                  rqVars, fates, Outside, breaker, calls, channel
    <2>3. QED
      BY <2>1, <2>2
  <1>2. /\ selecting' = selecting /\ interrupted' \subseteq selecting
        /\ writer' \in BOOLEAN /\ link' \in {"up", "dead", "down"}
        /\ losses' \in 0..MaxLosses
    <2>1. CASE \/ ProcessorRuns \/ (\E m \in Msgs : TimePasses(m))
               \/ QueueStarts \/ QueueControl \/ QueueCleared
      BY <2>1 DEF ProcessorRuns, TimePasses, QueueStarts, QueueControl, QueueCleared, QueueOnly,
                  Outside, channel, selects, conn, OwnTypeOK
    <2>2. CASE CoolDown \/ WriterExits \/ Reconnected \/ UNCHANGED vars
      BY <2>2 DEF CoolDown, WriterExits, Reconnected, vars, Outside, channel, selects, conn,
                  OwnTypeOK
    <2>3. CASE LinkLost \/ TearDown
      BY <2>3, DeliveryAssumption DEF LinkLost, TearDown, channel, selects, conn, OwnTypeOK
    <2>4. QED
      BY <2>1, <2>2, <2>3
  <1>3. OwnTypeOK'
    BY <1>1, <1>2 DEF OwnTypeOK
  <1>4. QED
    BY <1>1, <1>3, PlacedStays

LEMMA ClientNextInv == PartsOK /\ ClientInv /\ [Next]_vars => ClientInv'
  BY AskingClientInv, DirectClientInv, EnqueueClientInv, RecordingClientInv, RetryClientInv,
     WriterClientInv, OtherClientInv DEF Next, SenderStep

(* The parts keep their invariants and the whole keeps its own.               *)
LEMMA ClientInvariant == Spec => [](PartsOK /\ ClientInv)
  <1>1. Breaker!TypeOK => CB!TypeOK
    BY SameTypes
  <1>2. QED
    BY <1>1, ClientInvInit, ClientNextInv, QueueInvHere, BreakerHere, PTL DEF Spec, PartsOK

-----------------------------------------------------------------------------
(* SendMessage, the circuit breaker, the retry queue, sendChan and the writer  *)
(* stay within the types of their state; sendChan never exceeds its buffer.    *)
THEOREM DeliveryTyping == Spec => []TypeOK
  <1>1. PartsOK /\ ClientInv => TypeOK
    BY DEF PartsOK, ClientInv, OwnTypeOK, QueueInv, TypeOK
  <1>2. QED
    BY <1>1, ClientInvariant, PTL

(* A set with no two elements has at most one.                                *)
LEMMA AtMostOneElement ==
  ASSUME NEW S, \A p, q \in S : p = q
  PROVE  Cardinality(S) <= 1
  <1>1. CASE S = {}
    BY <1>1, FS_EmptySet
  <1>2. ASSUME NEW p \in S PROVE Cardinality(S) <= 1
    <2>1. S = {p}
      OBVIOUS
    <2>2. Cardinality({p}) = 1
      BY FS_Singleton
    <2>3. QED
      BY <2>1, <2>2
  <1>3. QED
    BY <1>1, <1>2

(* Where the parts and the whole agree, no message is in two places.          *)
LEMMA PlacesDisjoint ==
  ASSUME PartsOK, ClientInv, NEW m \in Msgs,
         NEW p \in DOMAIN Place, NEW q \in DOMAIN Place, m \in Place[p], m \in Place[q]
  PROVE  p = q
  <1>1. DOMAIN Place = {"calling", "queued", "channel", "writer", "wire", "lost", "dropped",
                        "refused"}
    BY DEF Place
  <1>2. /\ Place["calling"] = {n \in Msgs : pc[n] # "idle" /\ returned[n] \in {"no", "failed"}}
        /\ Place["queued"] = queue \cup batch \cup Sending
        /\ Place["channel"] = Range(sendChan) /\ Place["writer"] = {holding} \ {None}
        /\ Place["wire"] = wire /\ Place["lost"] = lost
        /\ Place["dropped"] = exhausted \cup cleared /\ Place["refused"] = refused
    BY DEF Place
  <1>3. m \in Place["calling"] => m \notin enqueued \cup Accepted \cup refused
    BY <1>2 DEF ClientInv, Placed, CallPlaced
  <1>4. Place["queued"] \cup Place["dropped"] \subseteq enqueued \ delivered
    BY <1>2 DEF PartsOK, QueueInv, Conserved
  <1>5. Place["queued"] \cap Place["dropped"] = {}
    BY <1>2 DEF PartsOK, QueueInv, Conserved
  <1>6. /\ Place["channel"] \cup Place["writer"] \cup Place["wire"] \cup Place["lost"] = Accepted
        /\ Accepted \cap (enqueued \ delivered) = {}
        /\ Place["refused"] \cap (Accepted \cup enqueued) = {}
    BY <1>2 DEF ClientInv, Placed, PlacesApart, Accepted
  <1>7. /\ Place["channel"] \cap (Place["wire"] \cup Place["lost"]) = {}
        /\ Place["writer"] \cap (Place["channel"] \cup Place["wire"] \cup Place["lost"]) = {}
        /\ Place["wire"] \cap Place["lost"] = {}
    BY <1>2 DEF ClientInv, Placed, PlacesApart
  <1> HIDE DEF Place
  <1>8. QED
    BY <1>1, <1>2, <1>3, <1>4, <1>5, <1>6, <1>7

(* One call of SendMessage never multiplies its message on its way through    *)
(* sendMessageDirect, the retry queue, sendChan and the writer.               *)
THEOREM NeverTwice == Spec => []AtMostOnce
  <1>1. ASSUME PartsOK, ClientInv PROVE AtMostOnce
    <2>1. Cardinality(Range(sendChan)) = Len(sendChan)
      BY <1>1, NoRepeatsLength DEF ClientInv, OwnTypeOK, Placed, PlacesApart
    <2>2. ASSUME NEW m \in Msgs
          PROVE  Cardinality({p \in DOMAIN Place : m \in Place[p]}) <= 1
      BY <1>1, PlacesDisjoint, AtMostOneElement
    <2>3. QED
      BY <2>1, <2>2 DEF AtMostOnce
  <1>2. QED
    BY <1>1, ClientInvariant, PTL

-----------------------------------------------------------------------------
\* The mapping of DeliveryContract's status.
Standing == [m \in Msgs |-> Status(m)]

(* Before SendMessage begins, its message is nowhere.                         *)
LEMMA NewIsNowhere ==
  ASSUME ClientInv, NEW m \in Msgs, ~Begun(m)
  PROVE  m \notin enqueued \cup Accepted \cup refused
  BY DEF ClientInv, Placed, CallPlaced, Begun, OwnTypeOK

\* What the status of a message says: its cases exclude each other.
StatusRight ==
  \A m \in Msgs :
    /\ ~Begun(m) => Status(m) = "new"
    /\ m \in wire => Status(m) = "wire"
    /\ m \in lost => Status(m) = "lost"
    /\ m \in refused => Status(m) = "refused"
    /\ m \in exhausted \cup cleared => Status(m) = "dropped"
    /\ Begun(m) /\ m \notin wire \cup lost \cup refused \cup exhausted \cup cleared
         => Status(m) = "pending"

(* It follows from where messages can be.                                     *)
LEMMA StatusValues == PartsOK /\ ClientInv => StatusRight
  <1> SUFFICES ASSUME PartsOK, ClientInv, NEW m \in Msgs
               PROVE  /\ ~Begun(m) => Status(m) = "new"
                      /\ m \in wire => Status(m) = "wire"
                      /\ m \in lost => Status(m) = "lost"
                      /\ m \in refused => Status(m) = "refused"
                      /\ m \in exhausted \cup cleared => Status(m) = "dropped"
                      /\ Begun(m) /\ m \notin wire \cup lost \cup refused \cup exhausted
                                              \cup cleared
                           => Status(m) = "pending"
    BY DEF StatusRight
  <1>1. ~Begun(m) => m \notin wire \cup lost \cup refused \cup exhausted \cup cleared
    BY NewIsNowhere DEF PartsOK, QueueInv, Conserved, Accepted
  <1>2. /\ m \in wire => m \notin lost \cup refused \cup exhausted \cup cleared
        /\ m \in lost => m \notin refused \cup exhausted \cup cleared
        /\ m \in refused => m \notin exhausted \cup cleared
    BY DEF PartsOK, QueueInv, Conserved, ClientInv, Placed, PlacesApart, Accepted
  <1> HIDE DEF Begun
  <1>3. QED
    BY <1>1, <1>2 DEF Status

(* A message that is neither settled nor new is pending.                      *)
LEMMA HeldIsPending ==
  ASSUME PartsOK, ClientInv, NEW m \in Msgs,
         \/ m \in queue \cup batch \cup Sending
         \/ m = holding
  PROVE  Status(m) = "pending"
  <1> USE DEF ClientInv, Placed
  <1>1. CASE m \in queue \cup batch \cup Sending
    <2>1. m \in enqueued /\ m \notin delivered \cup exhausted \cup cleared
      BY <1>1 DEF PartsOK, QueueInv, Conserved
    <2>2. m \notin Accepted \cup refused
      BY <2>1 DEF PlacesApart
    <2>3. Begun(m)
      BY <2>1, NewIsNowhere
    <2>4. QED
      BY <2>1, <2>2, <2>3, StatusValues DEF Accepted, StatusRight
  <1>2. CASE m = holding
    <2>1. m \in Accepted
      BY <1>2, QueueAssumption DEF Accepted
    <2>2. m \notin refused \cup exhausted \cup cleared
      BY <2>1 DEF PlacesApart, PartsOK, QueueInv, Conserved
    <2>3. m \notin wire \cup lost
      BY <1>2 DEF PlacesApart
    <2>4. Begun(m)
      BY <2>1, NewIsNowhere
    <2>5. QED
      BY <2>2, <2>3, <2>4, StatusValues DEF StatusRight
  <1>3. QED
    BY <1>1, <1>2

(* A step that begins no call and settles no message leaves every status.     *)
LEMMA StatusStays ==
  ASSUME NEW m \in Msgs, Begun(m)' <=> Begun(m),
         UNCHANGED <<wire, lost, refused, exhausted, cleared>>
  PROVE  Status(m)' = Status(m)
  BY DEF Status

(* Steps that leave calls, answers and outcomes alone are invisible.          *)
LEMMA Invisible ==
  ASSUME UNCHANGED <<pc, answer, wire, lost, refused, exhausted, cleared>>
  PROVE  UNCHANGED <<Standing, answer>>
  BY StatusStays DEF Standing, Begun

(* BeginSend and AskBreaker, as the contract sees them.                       *)
LEMMA AskingKeeps ==
  ASSUME PartsOK, ClientInv, StatusRight, StatusRight', NEW m \in Msgs,
         BeginSend(m) \/ AskBreaker(m)
  PROVE  [Contract!Next]_<<Standing, answer>>
  <1>1. /\ UNCHANGED <<wire, lost, exhausted, cleared>>
        /\ pc \in [Msgs -> CB!CallPC] /\ answer \in [Msgs -> {"nothing", "nil", "error"}]
    BY DEF BeginSend, AskBreaker, rqVars, fates, channel, PartsOK, CB!TypeOK, ClientInv,
           OwnTypeOK
  <1>2. CASE BeginSend(m)
    <2>1. /\ ~Begun(m) /\ UNCHANGED <<refused, answer>>
          /\ \E to : pc' = [pc EXCEPT ![m] = to]
          /\ pc'[m] # "idle"
      <3>1. state \in CB!CircuitState
        BY DEF PartsOK, CB!TypeOK
      <3>2. QED
        BY <1>1, <1>2, <3>1 DEF BeginSend, CB!LoadState, CB!Goto, CB!CircuitState, calls
    <2>2. m \notin wire \cup lost \cup refused \cup exhausted \cup cleared
      BY <2>1, NewIsNowhere DEF PartsOK, QueueInv, Conserved, Accepted
    <2>3. Status(m) = "new" /\ Status(m)' = "pending"
      BY <1>1, <2>1, <2>2 DEF StatusRight, Begun
    <2>4. ASSUME NEW n \in Msgs \ {m} PROVE Status(n)' = Status(n)
      <3>1. Begun(n)' <=> Begun(n)
        BY <1>1, <2>1 DEF Begun
      <3>2. QED
        BY <1>1, <2>1, <3>1, StatusStays
    <2>5. Standing' = [Standing EXCEPT ![m] = "pending"]
      BY <2>3, <2>4 DEF Standing
    <2>6. Contract!Begin(m)
      BY <2>1, <2>3, <2>5 DEF Contract!Begin, Standing
    <2>7. QED
      BY <2>6 DEF Contract!Next
  <1>3. CASE AskBreaker(m)
    <2>1. /\ \E to : pc' = [pc EXCEPT ![m] = to]
          /\ pc[m] \in {"timeoutCheck", "enterHalfOpen", "claimSlot"}
          /\ \/ /\ refused' = refused \cup {m}
                /\ answer' = [answer EXCEPT ![m] = "error"]
             \/ pc'[m] # "idle" /\ UNCHANGED <<refused, answer>>
      BY <1>3 DEF AskBreaker, CB!CheckTimeout, CB!EnterHalfOpen, CB!ClaimSlot, CB!Goto
    <2>2. answer[m] = "nothing" /\ returned[m] = "no" /\ Begun(m) /\ Begun(m)'
      BY <1>1, <2>1 DEF ClientInv, Placed, CallPlaced, Begun
    <2>3. m \notin wire \cup lost \cup refused \cup exhausted \cup cleared
      BY <2>2 DEF ClientInv, Placed, CallPlaced, PartsOK, QueueInv, Conserved, Accepted
    <2>4. \A n \in Msgs : Begun(n)' <=> Begun(n)
      BY <1>1, <2>1, <2>2 DEF Begun
    <2>5. CASE UNCHANGED <<refused, answer>>
      BY <1>1, <2>4, <2>5, StatusStays DEF Standing
    <2>6. CASE refused' = refused \cup {m} /\ answer' = [answer EXCEPT ![m] = "error"]
      <3>1. Status(m) = "pending" /\ Status(m)' = "refused"
        BY <2>2, <2>3, <2>6 DEF StatusRight
      <3>2. ASSUME NEW n \in Msgs \ {m} PROVE Status(n)' = Status(n)
        BY <1>1, <2>4, <2>6 DEF Status
      <3>3. Standing' = [Standing EXCEPT ![m] = "refused"]
        BY <3>1, <3>2 DEF Standing
      <3>4. Contract!Refuse(m)
        BY <2>2, <2>6, <3>1, <3>3 DEF Contract!Refuse, Standing
      <3>5. QED
        BY <3>4 DEF Contract!Next
    <2>7. QED
      BY <2>1, <2>5, <2>6
  <1>4. QED
    BY <1>2, <1>3

(* ReturnToCaller is the contract's Answer.                                   *)
LEMMA AnswerKeeps ==
  ASSUME PartsOK, ClientInv, StatusRight, NEW m \in Msgs, ReturnToCaller(m)
  PROVE  [Contract!Next]_<<Standing, answer>>
  <1>1. /\ UNCHANGED <<wire, lost, refused, exhausted, cleared>>
        /\ pc \in [Msgs -> CB!CallPC] /\ answer \in [Msgs -> {"nothing", "nil", "error"}]
        /\ pc' = [pc EXCEPT ![m] = "idle"] /\ pc[m] = "record"
        /\ answer' = [answer EXCEPT ![m] = returned[m]]
    BY DEF ReturnToCaller, CB!RecordFailure, CB!RecordSuccess, CB!Return, CB!Goto, rqVars,
           fates, channel, PartsOK, CB!TypeOK, ClientInv, OwnTypeOK
  <1>2. returned[m] \in {"nil", "error"} /\ answer[m] = "nothing"
    BY <1>1 DEF ClientInv, Placed, CallPlaced, OwnTypeOK
  <1>3. \A n \in Msgs : Begun(n)' <=> Begun(n)
    BY <1>1, <1>2 DEF Begun
  <1>4. Standing' = Standing
    BY <1>1, <1>3, StatusStays DEF Standing
  <1>5. Begun(m) /\ m \notin refused
    BY <1>1, <1>2 DEF Begun, ClientInv, Placed, CallPlaced
  <1>6. Status(m) \in {"wire", "lost", "dropped", "pending"}
    BY <1>5 DEF StatusRight
  <1>7. Status(m) = "dropped" => returned[m] = "error"
    <2>1. Status(m) = "dropped" => m \in exhausted \cup cleared
      BY <1>5 DEF StatusRight
    <2>2. m \in exhausted \cup cleared => m \in enqueued
      BY DEF PartsOK, QueueInv, Conserved
    <2>3. m \in enqueued => returned[m] = "error"
      BY <1>2 DEF ClientInv, Placed, CallPlaced
    <2>4. QED
      BY <2>1, <2>2, <2>3
  <1>8. Contract!Answer(m)
    BY <1>1, <1>2, <1>4, <1>6, <1>7 DEF Contract!Answer, Standing
  <1>9. QED
    BY <1>8 DEF Contract!Next

(* WriterWrites is the contract's Write.                                      *)
LEMMA WriteKeeps ==
  ASSUME PartsOK, ClientInv, StatusRight, StatusRight', WriterWrites
  PROVE  [Contract!Next]_<<Standing, answer>>
  <1>1. PICK m \in Msgs : m = holding
    BY DEF WriterWrites, ClientInv, OwnTypeOK
  <1>2. /\ UNCHANGED <<pc, answer, refused, exhausted, cleared>>
        /\ \/ wire' = wire \cup {m} /\ lost' = lost
           \/ lost' = lost \cup {m} /\ wire' = wire
    BY <1>1 DEF WriterWrites, rqVars, fates, Outside, breaker, calls
  <1>3. Status(m) = "pending"
    BY <1>1, HeldIsPending
  <1>4. PICK to \in {"wire", "lost"} : Status(m)' = to
    BY <1>2 DEF StatusRight
  <1>5. ASSUME NEW n \in Msgs \ {m} PROVE Status(n)' = Status(n)
    BY <1>2 DEF Status, Begun
  <1>6. Standing' = [Standing EXCEPT ![m] = to]
    BY <1>4, <1>5 DEF Standing
  <1>7. Contract!Write(m)
    BY <1>2, <1>3, <1>6 DEF Contract!Write, Standing
  <1>8. QED
    BY <1>7 DEF Contract!Next

(* What the retry queue gives up, out of attempts or cleared, is pending and  *)
(* its caller was not told that it was sent.                                  *)
LEMMA GivingUpKeeps ==
  ASSUME PartsOK, ClientInv, StatusRight, StatusRight',
         NEW S \in SUBSET Msgs, S # {}, S \subseteq queue \cup batch \cup Sending,
         exhausted' \cup cleared' = exhausted \cup cleared \cup S,
         UNCHANGED <<pc, answer, wire, lost, refused>>
  PROVE  [Contract!Next]_<<Standing, answer>>
  <1>1. \A m \in S : Status(m) = "pending"
    BY HeldIsPending
  <1>2. \A m \in S : answer[m] # "nil"
    <2>1. S \subseteq enqueued
      BY DEF PartsOK, QueueInv, Conserved
    <2>2. QED
      BY <2>1 DEF ClientInv, Placed, CallPlaced
  <1>3. \A m \in S : Status(m)' = "dropped"
    BY DEF StatusRight
  <1>4. ASSUME NEW m \in Msgs \ S PROVE Status(m)' = Status(m)
    <2>1. (m \in exhausted' \/ m \in cleared') <=> (m \in exhausted \/ m \in cleared)
      OBVIOUS
    <2>2. QED
      BY <2>1 DEF Status, Begun
  <1>5. Standing' = [m \in Msgs |-> IF m \in S THEN "dropped" ELSE Standing[m]]
    BY <1>3, <1>4 DEF Standing
  <1>6. Contract!GiveUp(S)
    BY <1>1, <1>2, <1>5 DEF Contract!GiveUp, Standing
  <1>7. QED
    BY <1>6 DEF Contract!Next

(* Every other step settles nothing: the status and the answers stay.         *)
LEMMA OthersKeep ==
  ASSUME PartsOK, ClientInv,
         \/ \E m \in Msgs : \/ TryDirect(m) \/ DirectOk(m) \/ DirectFails(m)
                            \/ QueuesForRetry(m) \/ QueuedForRetry(m) \/ LoadForResult(m)
         \/ CoolDown \/ (ProcessorRuns /\ ~Drop) \/ (\E m \in Msgs : TimePasses(m))
         \/ RetryStep \/ QueueStarts \/ QueueCleared \/ (QueueControl /\ ~Clear) \/ WriterTakes
         \/ WriterExits \/ LinkLost \/ TearDown \/ Reconnected \/ UNCHANGED vars
  PROVE  UNCHANGED <<Standing, answer>>
  <1>1. ASSUME NEW m \in Msgs, LoadForResult(m) PROVE UNCHANGED <<Standing, answer>>
    <2>1. /\ pc' = [pc EXCEPT ![m] = "record"] /\ pc[m] # "idle"
          /\ UNCHANGED <<answer, wire, lost, refused, exhausted, cleared>>
          /\ pc \in [Msgs -> CB!CallPC]
      BY <1>1 DEF LoadForResult, CB!FinishWith, CB!Goto, rqVars, fates, calls, channel, PartsOK,
                  CB!TypeOK
    <2>2. \A n \in Msgs : Begun(n)' <=> Begun(n)
      BY <2>1 DEF Begun
    <2>3. QED
      BY <2>1, <2>2, StatusStays DEF Standing
  <1>2. ASSUME NEW m \in Msgs, \/ TryDirect(m) \/ DirectOk(m) \/ DirectFails(m)
                               \/ QueuesForRetry(m) \/ QueuedForRetry(m)
        PROVE  UNCHANGED <<Standing, answer>>
    BY <1>2, Invisible DEF TryDirect, DirectOk, DirectFails, QueuesForRetry, QueuedForRetry,
                           Enqueue, EnqueueReturns, SizeCounted, rqVars, fates, breaker, calls,
                           channel
  <1>3. CASE \/ (ProcessorRuns /\ ~Drop) \/ (\E m \in Msgs : TimePasses(m)) \/ QueueStarts
             \/ (QueueControl /\ ~Clear) \/ QueueCleared
    <2>1. UNCHANGED <<exhausted, cleared>>
      BY <1>3 DEF ProcessorRuns, ProcessorStep, Tick, ProcessorCounts, SizeCounted, EndBatch,
                  ProcessorExits, BeginRetry, CountSuccess, CountAttempt, Requeue, TimePasses,
                  BecomesDue, QueueStarts, Start, QueueControl, Stop, QueueCleared,
                  ClearReturns, fates
    <2>2. UNCHANGED <<pc, answer, wire, lost, refused>>
      BY <1>3 DEF ProcessorRuns, TimePasses, QueueStarts, QueueControl, QueueCleared, QueueOnly,
                  Outside, breaker, calls, channel
    <2>3. QED
      BY <2>1, <2>2, Invisible
  <1>4. CASE RetryStep
    BY <1>4, Invisible DEF RetryStep, RetryEnters, RetryOk, RetrySucceeds, RetryNotOk,
                           RetryFails, rqVars, fates, Outside, breaker, calls, channel
  <1>5. CASE WriterTakes \/ WriterExits \/ LinkLost \/ TearDown \/ Reconnected
    BY <1>5, Invisible DEF WriterTakes, WriterExits, LinkLost, TearDown, Reconnected, rqVars,
                           fates, Outside, breaker, calls, channel
  <1>6. CASE CoolDown \/ UNCHANGED vars
    BY <1>6, Invisible DEF CoolDown, CB!CoolDown, vars, rqVars, fates, breaker, calls, channel
  <1>7. QED
    BY <1>1, <1>2, <1>3, <1>4, <1>5, <1>6

(* The two ways the retry queue gives messages up.                            *)
LEMMA QueueGivesUp ==
  ASSUME PartsOK, ClientInv, StatusRight, StatusRight',
         (ProcessorRuns /\ Drop) \/ (QueueControl /\ Clear)
  PROVE  [Contract!Next]_<<Standing, answer>>
  <1>1. UNCHANGED <<pc, answer, wire, lost, refused>>
    BY DEF ProcessorRuns, QueueControl, QueueOnly, Outside, breaker, calls, channel
  <1>2. CASE QueueControl /\ Clear
    <2>1. queue # {} /\ cleared' = cleared \cup queue /\ exhausted' = exhausted
          /\ queue \subseteq Msgs
      BY <1>2 DEF Clear, PartsOK, QueueInv, QueueTypeOK
    <2>2. exhausted' \cup cleared' = exhausted \cup cleared \cup queue
      BY <2>1
    <2>3. QED
      BY <1>1, <2>1, <2>2, GivingUpKeeps
  <1>3. CASE ProcessorRuns /\ Drop
    <2>1. /\ sending \in Msgs /\ cleared' = cleared
          /\ exhausted' = exhausted \cup {sending}
      BY <1>3 DEF Drop, PartsOK, QueueInv, QueueTypeOK, Held
    <2>2. PICK S \in SUBSET Msgs : S = {sending}
      BY <2>1
    <2>3. S # {} /\ S \subseteq queue \cup batch \cup Sending
      BY <2>1, <2>2, QueueAssumption DEF Sending
    <2>4. exhausted' \cup cleared' = exhausted \cup cleared \cup S
      BY <2>1, <2>2
    <2>5. QED
      BY <1>1, <2>3, <2>4, GivingUpKeeps
  <1>4. QED
    BY <1>2, <1>3

(* Every step of the client is a step of the contract or invisible to it.     *)
LEMMA StepKeepsContract ==
  PartsOK /\ ClientInv /\ StatusRight /\ StatusRight' /\ [Next]_vars
    => [Contract!Next]_<<Standing, answer>>
  BY AskingKeeps, AnswerKeeps, WriteKeeps, QueueGivesUp, OthersKeep
     DEF Next, SenderStep, RetryStep

(* The client keeps the contract of DeliveryContract: for each SendMessage one *)
(* outcome, for good, and only messages whose callers were not told that they  *)
(* were sent are ever given up by the retry queue.                             *)
THEOREM ContractKept == Spec => KeepsContract
  <1>1. ASSUME Init PROVE Contract!Init
    <2>1. PartsOK /\ ClientInv
      BY <1>1, EmptyInv, BreakerStarts, SameTypes, ClientInvInit DEF Init, PartsOK
    <2>2. \A m \in Msgs : ~Begun(m)
      BY <1>1 DEF Init, CB!Init, Begun
    <2>3. \A m \in Msgs : Status(m) = "new"
      BY <2>1, <2>2, StatusValues DEF StatusRight
    <2>4. QED
      BY <1>1, <2>3 DEF Init, Contract!Init
  <1>2. [Contract!Next]_<<Standing, answer>>
          => [Contract!Next]_<<[m \in Msgs |-> Status(m)], answer>>
    BY DEF Standing
  <1>3. QED
    BY <1>1, <1>2, StepKeepsContract, StatusValues, ClientInvariant, PTL
       DEF Spec, KeepsContract, Contract!Spec
=============================================================================
