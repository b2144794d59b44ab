--------------------------- MODULE CircuitBreaker ---------------------------
(***************************************************************************)
(* The circuit breaker that guards every send of the network client        *)
(* (teneo-agent-sdk/pkg/network/circuit_breaker.go).                       *)
(*                                                                         *)
(* Any number of goroutines run Call concurrently.  The state word is read *)
(* atomically but without the mutex, and read a second time when the       *)
(* result is recorded, so a goroutine acts on values that may be stale;    *)
(* each unlocked read is therefore a step of its own.                      *)
(*                                                                         *)
(* Time is abstracted to the one comparison the code makes of it: cooled   *)
(* says whether more than resetTimeout has passed since lastFailTime.  The *)
(* failure counter is only ever compared with maxFailures and zero, so it  *)
(* saturates at MaxFailures.                                               *)
(***************************************************************************)
EXTENDS Naturals, FiniteSets

CONSTANTS
  Callers,           \* the goroutines that send
  MaxFailures,       \* maxFailures, 3 in NewNetworkClient
  HalfOpenRequests   \* halfOpenRequests, 1 in NewCircuitBreaker

ASSUME BreakerAssumption ==
  /\ IsFiniteSet(Callers)
  /\ MaxFailures \in Nat \ {0}
  /\ HalfOpenRequests \in Nat \ {0}

CircuitState == {"closed", "open", "halfOpen"}

\* Where a goroutine is inside Call.  "probing" and "calling" both run fn:
\* they tell apart the branch of CanAttempt that admitted the call.
CallPC == {"idle", "timeoutCheck", "enterHalfOpen", "claimSlot",
           "calling", "probing", "record"}

VARIABLES
  state,             \* the atomic state word
  failures,
  successCount,
  halfOpenAttempts,
  cooled,            \* time.Since(lastFailTime) > resetTimeout
  pc,                \* pc[c]: where goroutine c is inside Call
  seen,              \* seen[c]: the state word RecordResult loaded
  failed             \* failed[c]: whether fn returned an error

vars == <<state, failures, successCount, halfOpenAttempts, cooled, pc, seen, failed>>
counters == <<failures, successCount, halfOpenAttempts>>

TypeOK ==
  /\ state \in CircuitState
  /\ failures \in 0..MaxFailures
  /\ successCount \in 0..(HalfOpenRequests - 1)
  /\ halfOpenAttempts \in 0..HalfOpenRequests
  /\ cooled \in BOOLEAN
  /\ pc \in [Callers -> CallPC]
  /\ seen \in [Callers -> CircuitState]
  /\ failed \in [Callers -> BOOLEAN]

\* NewCircuitBreaker: closed, and lastFailTime is the zero time.
Init ==
  /\ state = "closed"
  /\ failures = 0 /\ successCount = 0 /\ halfOpenAttempts = 0
  /\ cooled = TRUE
  /\ pc = [c \in Callers |-> "idle"]
  /\ seen = [c \in Callers |-> "closed"]
  /\ failed = [c \in Callers |-> FALSE]

-----------------------------------------------------------------------------
Goto(c, from, to) == pc[c] = from /\ pc' = [pc EXCEPT ![c] = to]

\* CanAttempt loads the state word without the lock and branches on it.
LoadState(c) ==
  /\ Goto(c, "idle", CASE state = "closed"   -> "calling"
                       [] state = "open"     -> "timeoutCheck"
                       [] state = "halfOpen" -> "claimSlot")
  /\ UNCHANGED <<state, counters, cooled, seen, failed>>

\* Mutant: the comparison with resetTimeout is the wrong way round.
CheckTimeoutInverted(c) ==
  /\ Goto(c, "timeoutCheck", IF cooled THEN "idle" ELSE "enterHalfOpen")
  /\ UNCHANGED <<state, counters, cooled, seen, failed>>

\* The open branch compares the clock under the read lock, then unlocks.
CheckTimeout(c) ==
  /\ Goto(c, "timeoutCheck", IF cooled THEN "enterHalfOpen" ELSE "idle")
  /\ UNCHANGED <<state, counters, cooled, seen, failed>>

\* transitionToLocked(CircuitHalfOpen): nothing when already there.  The
\* caller goes on to run fn without claiming a half-open slot.
EnterHalfOpen(c) ==
  /\ Goto(c, "enterHalfOpen", "probing")
  /\ state' = "halfOpen"
  /\ IF state = "halfOpen"
       THEN UNCHANGED <<successCount, halfOpenAttempts>>
       ELSE successCount' = 0 /\ halfOpenAttempts' = 0
  /\ UNCHANGED <<failures, cooled, seen, failed>>

\* Mutant: off by one in the number of slots.
ClaimSlotExtra(c) ==
  /\ IF halfOpenAttempts <= HalfOpenRequests
       THEN Goto(c, "claimSlot", "probing") /\ halfOpenAttempts' = halfOpenAttempts + 1
       ELSE Goto(c, "claimSlot", "idle") /\ UNCHANGED halfOpenAttempts
  /\ UNCHANGED <<state, failures, successCount, cooled, seen, failed>>

\* The half-open branch takes a slot if one is left; it does not look at the
\* state word again.
ClaimSlot(c) ==
  /\ IF halfOpenAttempts < HalfOpenRequests
       THEN Goto(c, "claimSlot", "probing") /\ halfOpenAttempts' = halfOpenAttempts + 1
       ELSE Goto(c, "claimSlot", "idle") /\ UNCHANGED halfOpenAttempts
  /\ UNCHANGED <<state, failures, successCount, cooled, seen, failed>>

\* Mutant: the result is recorded against the state CanAttempt had seen, not
\* against a state loaded after fn returned.
FinishCallAdmissionState(c) ==
  /\ \/ Goto(c, "calling", "record") /\ seen' = [seen EXCEPT ![c] = "closed"]
     \/ Goto(c, "probing", "record") /\ seen' = [seen EXCEPT ![c] = "open"]
  /\ \E err \in BOOLEAN : failed' = [failed EXCEPT ![c] = err]
  /\ UNCHANGED <<state, counters, cooled>>

\* fn returns and RecordResult loads the state word, still without the lock.
FinishWith(c, err) ==
  /\ \/ Goto(c, "calling", "record")
     \/ Goto(c, "probing", "record")
  /\ seen' = [seen EXCEPT ![c] = state]
  /\ failed' = [failed EXCEPT ![c] = err]
  /\ UNCHANGED <<state, counters, cooled>>

FinishCall(c) == \E err \in BOOLEAN : FinishWith(c, err)

\* The result is recorded under the lock; the goroutine's locals end with Call.
Return(c) ==
  /\ Goto(c, "record", "idle")
  /\ seen' = [seen EXCEPT ![c] = "closed"]
  /\ failed' = [failed EXCEPT ![c] = FALSE]

\* Mutant: a failure while half-open is counted but does not reopen the circuit.
RecordFailureOnlyClosed(c) ==
  /\ failed[c]
  /\ Return(c)
  /\ failures' = IF failures < MaxFailures THEN failures + 1 ELSE MaxFailures
  /\ cooled' = FALSE
  /\ state' = IF seen[c] = "closed" /\ failures' >= MaxFailures THEN "open" ELSE state
  /\ UNCHANGED <<successCount, halfOpenAttempts>>

\* recordFailure branches on the loaded state, not on the current one.
RecordFailure(c) ==
  /\ failed[c]
  /\ Return(c)
  /\ failures' = IF failures < MaxFailures THEN failures + 1 ELSE MaxFailures
  /\ cooled' = FALSE
  /\ state' = IF \/ seen[c] = "halfOpen"
                 \/ seen[c] = "closed" /\ failures' >= MaxFailures
                THEN "open" ELSE state
  /\ halfOpenAttempts' = IF seen[c] = "halfOpen" THEN 0 ELSE halfOpenAttempts
  /\ UNCHANGED successCount

ProbesPassed == successCount + 1 >= HalfOpenRequests

\* recordSuccess: as many successes as half-open requests close the circuit.
RecordSuccess(c) ==
  /\ ~failed[c]
  /\ Return(c)
  /\ \/ /\ seen[c] = "halfOpen" /\ ProbesPassed
        /\ state' = "closed"
        /\ failures' = 0 /\ successCount' = 0 /\ halfOpenAttempts' = 0
     \/ /\ seen[c] = "halfOpen" /\ ~ProbesPassed
        /\ successCount' = successCount + 1
        /\ UNCHANGED <<state, failures, halfOpenAttempts>>
     \/ /\ seen[c] = "closed"
        /\ failures' = 0
        /\ UNCHANGED <<state, successCount, halfOpenAttempts>>
     \/ /\ seen[c] = "open"
        /\ UNCHANGED <<state, counters>>
  /\ UNCHANGED cooled

\* resetTimeout passes since the last failure.
CoolDown ==
  /\ ~cooled
  /\ cooled' = TRUE
  /\ UNCHANGED <<state, counters, pc, seen, failed>>

\* Reset, by whoever holds the breaker: lastFailTime becomes the zero time.
Reset ==
  /\ state' = "closed"
  /\ failures' = 0 /\ successCount' = 0 /\ halfOpenAttempts' = 0
  /\ cooled' = TRUE
  /\ UNCHANGED <<pc, seen, failed>>

\* What a goroutine inside Call does next.
Continue(c) ==
  \/ CheckTimeout(c) \/ EnterHalfOpen(c) \/ ClaimSlot(c)
  \/ FinishCall(c) \/ RecordFailure(c) \/ RecordSuccess(c)

Next ==
  \/ \E c \in Callers : LoadState(c) \/ Continue(c)
  \/ CoolDown
  \/ Reset

\* The scheduler runs every goroutine inside Call, fn returns (the send it
\* wraps gives up after five seconds), and time passes.  Nothing makes a
\* goroutine start a call, and nothing calls Reset.
Fairness ==
  /\ \A c \in Callers : WF_vars(Continue(c))
  /\ WF_vars(CoolDown)

Spec == Init /\ [][Next]_vars /\ Fairness

-----------------------------------------------------------------------------
\* The calls whose result will decide a half-open circuit: fn is running, or
\* it returned while the circuit was half-open and the result is not recorded.
Undecided == {c \in Callers : \/ pc[c] \in {"calling", "probing"}
                              \/ pc[c] = "record" /\ seen[c] = "halfOpen"}

\* A half-open circuit never wedges: either a call is on its way whose result
\* will close or reopen it, or CanAttempt still has a slot to hand out.  The
\* half-open branch of CanAttempt has no timeout, so a circuit that used up its
\* slots with nobody left to report would refuse every send for ever.
HalfOpenNotStuck ==
  state = "halfOpen" => Undecided # {} \/ halfOpenAttempts < HalfOpenRequests

\* NewCircuitBreaker's comment: "Allow one request in half-open state".
HalfOpenLimit ==
  state = "halfOpen" => Cardinality({c \in Callers : pc[c] = "probing"}) <= HalfOpenRequests

\* With one request per half-open circuit, as NewCircuitBreaker sets it, a
\* half-open circuit is always left again, without anybody starting a new
\* call: the call that entered it decides it.
HalfOpenResolves == state = "halfOpen" ~> state # "halfOpen"

\* As long as somebody keeps trying to send, an open circuit does not stay
\* open: the cool-down is not extended for ever by results still under way.
OpenRecovers ==
  []<><<\E c \in Callers : LoadState(c)>>_vars => (state = "open" ~> state # "open")
=============================================================================
