------------------------ MODULE CircuitBreakerProofs ------------------------
(***************************************************************************)
(* Proofs about the circuit breaker, for any finite set of goroutines and  *)
(* any positive MaxFailures and HalfOpenRequests.                          *)
(***************************************************************************)
EXTENDS CircuitBreaker, FiniteSetTheorems, TLAPS

USE BreakerAssumption DEF CircuitState, CallPC

-----------------------------------------------------------------------------
(* NewCircuitBreaker starts well typed, and every step of Call keeps it so.   *)
LEMMA InitTypeOK == Init => TypeOK
  BY DEF Init, TypeOK

(* The types are inductive by themselves.                                     *)
LEMMA NextTypeOK == TypeOK /\ [Next]_vars => TypeOK'
  <1> SUFFICES ASSUME TypeOK, [Next]_vars PROVE TypeOK'
    OBVIOUS
  <1> USE DEF TypeOK, Goto, counters
  <1>1. ASSUME NEW c \in Callers, LoadState(c) PROVE TypeOK'
    BY <1>1 DEF LoadState
  <1>2. ASSUME NEW c \in Callers, CheckTimeout(c) PROVE TypeOK'
    BY <1>2 DEF CheckTimeout
  <1>3. ASSUME NEW c \in Callers, EnterHalfOpen(c) PROVE TypeOK'
    BY <1>3 DEF EnterHalfOpen
  <1>4. ASSUME NEW c \in Callers, ClaimSlot(c) PROVE TypeOK'
    BY <1>4 DEF ClaimSlot
  <1>5. ASSUME NEW c \in Callers, FinishCall(c) PROVE TypeOK'
    BY <1>5 DEF FinishCall, FinishWith
  <1>6. ASSUME NEW c \in Callers, RecordFailure(c) PROVE TypeOK'
    <2>1. /\ pc' \in [Callers -> CallPC] /\ seen' \in [Callers -> CircuitState]
          /\ failed' \in [Callers -> BOOLEAN]
      BY <1>6 DEF RecordFailure, Return
    <2>2. failures' \in 0..MaxFailures /\ state' \in CircuitState
      BY <1>6 DEF RecordFailure
    <2>3. halfOpenAttempts' \in 0..HalfOpenRequests
      BY <1>6 DEF RecordFailure
    <2>4. successCount' \in 0..(HalfOpenRequests - 1)
      BY <1>6 DEF RecordFailure
    <2>5. cooled' \in BOOLEAN
      BY <1>6 DEF RecordFailure
    <2>6. QED
      BY <2>1, <2>2, <2>3, <2>4, <2>5
  <1>7. ASSUME NEW c \in Callers, RecordSuccess(c) PROVE TypeOK'
    BY <1>7 DEF RecordSuccess, Return, ProbesPassed
  <1>8. CASE CoolDown
    BY <1>8 DEF CoolDown
  <1>9. CASE Reset
    BY <1>9 DEF Reset
  <1>10. CASE UNCHANGED vars
    BY <1>10 DEF vars
  <1>11. QED
    BY <1>1, <1>2, <1>3, <1>4, <1>5, <1>6, <1>7, <1>8, <1>9, <1>10
       DEF Next, Continue

(* Every reachable state is well typed; in particular halfOpenAttempts never *)
(* exceeds halfOpenRequests and successCount never reaches it.               *)
THEOREM Typing == Spec => []TypeOK
  BY InitTypeOK, NextTypeOK, PTL DEF Spec

-----------------------------------------------------------------------------
(* There are finitely many undecided calls.                                  *)
LEMMA UndecidedFinite ==
  /\ IsFiniteSet(Undecided)
  /\ Cardinality(Undecided) \in Nat
  BY FS_Subset, FS_CardinalityType DEF Undecided

(* A step that takes no call out of Undecided keeps at least as many there.  *)
LEMMA UndecidedGrows ==
  ASSUME Undecided \subseteq Undecided'
  PROVE  Cardinality(Undecided) <= Cardinality(Undecided')
  <1>1. IsFiniteSet(Undecided')
    BY FS_Subset DEF Undecided
  <1>2. QED
    BY <1>1, FS_Subset

(* A step that adds an admitted call to Undecided counts one more there.     *)
LEMMA UndecidedJoins ==
  ASSUME NEW c \in Callers, c \notin Undecided, Undecided' = Undecided \cup {c}
  PROVE  Cardinality(Undecided') = Cardinality(Undecided) + 1
  BY UndecidedFinite, FS_AddElement

(* A step that records the result of one call takes at most one out.         *)
LEMMA UndecidedLeaves ==
  ASSUME NEW c \in Callers, Undecided \ {c} \subseteq Undecided'
  PROVE  Cardinality(Undecided) <= Cardinality(Undecided') + 1
  <1>1. IsFiniteSet(Undecided')
    BY FS_Subset DEF Undecided
  <1>2. Cardinality(Undecided') \in Nat
    BY <1>1, FS_CardinalityType
  <1>3. Cardinality(Undecided \ {c}) <= Cardinality(Undecided')
    BY <1>1, FS_Subset
  <1>4. /\ IsFiniteSet(Undecided \ {c})
        /\ Cardinality(Undecided \ {c}) =
             IF c \in Undecided THEN Cardinality(Undecided) - 1 ELSE Cardinality(Undecided)
    BY UndecidedFinite, FS_RemoveElement
  <1>5. Cardinality(Undecided \ {c}) \in Nat
    BY <1>4, FS_CardinalityType
  <1>6. QED
    BY <1>2, <1>3, <1>4, <1>5, UndecidedFinite

(* Only recording a result takes a call out of Undecided: the state word it  *)
(* was recorded against is the half-open one.                                *)
LEMMA UndecidedStays ==
  ASSUME TypeOK, NEW c \in Callers,
         seen' = seen,
         \/ Goto(c, "idle", "calling") \/ Goto(c, "idle", "timeoutCheck")
         \/ Goto(c, "idle", "claimSlot")
         \/ Goto(c, "timeoutCheck", "enterHalfOpen") \/ Goto(c, "timeoutCheck", "idle")
         \/ Goto(c, "enterHalfOpen", "probing")
         \/ Goto(c, "claimSlot", "probing") \/ Goto(c, "claimSlot", "idle")
  PROVE  Undecided \subseteq Undecided'
  BY DEF Undecided, Goto, TypeOK

-----------------------------------------------------------------------------
\* Every slot handed out in a half-open circuit is held by an undecided call or
\* was turned into a success (the strengthening behind HalfOpenNotStuck).
SlotsAccounted == state = "halfOpen" => halfOpenAttempts <= successCount + Cardinality(Undecided)

(* A closed circuit has no slots to account for.                             *)
LEMMA InitSlots == Init => SlotsAccounted
  BY DEF Init, SlotsAccounted

(* A slot is handed out only to a call that joins Undecided, and a call leaves  *)
(* it only with a success counted or the circuit left.                       *)
LEMMA NextSlots == TypeOK /\ SlotsAccounted /\ [Next]_vars => SlotsAccounted'
  <1> SUFFICES ASSUME TypeOK, SlotsAccounted, [Next]_vars, state' = "halfOpen"
               PROVE  halfOpenAttempts' <= successCount' + Cardinality(Undecided')
    BY DEF SlotsAccounted
  <1>0. TypeOK'
    BY NextTypeOK
  <1>a. /\ Cardinality(Undecided) \in Nat
        /\ Cardinality(Undecided') \in Nat
    BY UndecidedFinite, FS_Subset, FS_CardinalityType DEF Undecided
  <1>b. /\ halfOpenAttempts \in Nat /\ halfOpenAttempts' \in Nat
        /\ successCount \in Nat /\ successCount' \in Nat
    BY <1>0 DEF TypeOK
  \* Steps that stay half-open, touch no counter and take no call out.
  <1>c. ASSUME state = "halfOpen", Undecided \subseteq Undecided',
               halfOpenAttempts' = halfOpenAttempts, successCount' = successCount
        PROVE  halfOpenAttempts' <= successCount' + Cardinality(Undecided')
    BY <1>a, <1>b, <1>c, UndecidedGrows DEF SlotsAccounted
  <1>1. ASSUME NEW c \in Callers, LoadState(c)
        PROVE  halfOpenAttempts' <= successCount' + Cardinality(Undecided')
    <2>1. Undecided \subseteq Undecided'
      BY <1>1, UndecidedStays DEF LoadState, TypeOK
    <2>2. QED
      BY <1>1, <1>c, <2>1 DEF LoadState, counters
  <1>2. ASSUME NEW c \in Callers, CheckTimeout(c)
        PROVE  halfOpenAttempts' <= successCount' + Cardinality(Undecided')
    <2>1. Undecided \subseteq Undecided'
      BY <1>2, UndecidedStays DEF CheckTimeout
    <2>2. QED
      BY <1>2, <1>c, <2>1 DEF CheckTimeout, counters
  <1>3. ASSUME NEW c \in Callers, EnterHalfOpen(c)
        PROVE  halfOpenAttempts' <= successCount' + Cardinality(Undecided')
    <2>1. Undecided \subseteq Undecided'
      BY <1>3, UndecidedStays DEF EnterHalfOpen
    <2>2. CASE state = "halfOpen"
      BY <1>3, <1>c, <2>1, <2>2 DEF EnterHalfOpen
    <2>3. CASE state # "halfOpen"
      BY <1>3, <1>a, <2>3 DEF EnterHalfOpen
    <2>4. QED
      BY <2>2, <2>3
  <1>4. ASSUME NEW c \in Callers, ClaimSlot(c)
        PROVE  halfOpenAttempts' <= successCount' + Cardinality(Undecided')
    <2>1. Undecided \subseteq Undecided'
      BY <1>4, UndecidedStays DEF ClaimSlot
    <2>2. CASE halfOpenAttempts < HalfOpenRequests
      <3>1. c \notin Undecided
        BY <1>4, <2>2 DEF ClaimSlot, Goto, Undecided
      <3>2. Undecided' = Undecided \cup {c}
        BY <1>4, <2>2 DEF ClaimSlot, Goto, Undecided, TypeOK
      <3>3. Cardinality(Undecided') = Cardinality(Undecided) + 1
        BY <3>1, <3>2, UndecidedJoins
      <3>4. /\ halfOpenAttempts' = halfOpenAttempts + 1
            /\ successCount' = successCount /\ state = "halfOpen"
        BY <1>4, <2>2 DEF ClaimSlot
      <3>5. QED
        BY <1>a, <1>b, <3>3, <3>4 DEF SlotsAccounted
    <2>3. CASE ~(halfOpenAttempts < HalfOpenRequests)
      BY <1>4, <1>c, <2>1, <2>3 DEF ClaimSlot
    <2>4. QED
      BY <2>2, <2>3
  <1>5. ASSUME NEW c \in Callers, FinishCall(c)
        PROVE  halfOpenAttempts' <= successCount' + Cardinality(Undecided')
    <2>1. state = "halfOpen"
      BY <1>5 DEF FinishCall, FinishWith
    <2>2. Undecided \subseteq Undecided'
      BY <1>5, <2>1 DEF FinishCall, FinishWith, Goto, Undecided, TypeOK
    <2>3. QED
      BY <1>5, <1>c, <2>1, <2>2 DEF FinishCall, FinishWith, counters
  <1>6. ASSUME NEW c \in Callers, RecordFailure(c)
        PROVE  halfOpenAttempts' <= successCount' + Cardinality(Undecided')
    <2>1. seen[c] # "halfOpen" /\ state = "halfOpen"
      BY <1>6 DEF RecordFailure
    <2>2. Undecided \subseteq Undecided'
      BY <1>6, <2>1 DEF RecordFailure, Return, Goto, Undecided, TypeOK
    <2>3. QED
      BY <1>6, <1>c, <2>1, <2>2 DEF RecordFailure
  <1>7. ASSUME NEW c \in Callers, RecordSuccess(c)
        PROVE  halfOpenAttempts' <= successCount' + Cardinality(Undecided')
    <2>1. state = "halfOpen"
      BY <1>7 DEF RecordSuccess
    <2>2. CASE seen[c] = "halfOpen"
      <3>1. Undecided \ {c} \subseteq Undecided'
        BY <1>7 DEF RecordSuccess, Return, Goto, Undecided, TypeOK
      <3>2. Cardinality(Undecided) <= Cardinality(Undecided') + 1
        BY <3>1, UndecidedLeaves
      <3>3. successCount' = successCount + 1 /\ halfOpenAttempts' = halfOpenAttempts
        BY <1>7, <2>2 DEF RecordSuccess
      <3>4. QED
        BY <1>a, <1>b, <2>1, <3>2, <3>3 DEF SlotsAccounted
    <2>3. CASE seen[c] # "halfOpen"
      <3>1. Undecided \subseteq Undecided'
        BY <1>7, <2>3 DEF RecordSuccess, Return, Goto, Undecided, TypeOK
      <3>2. halfOpenAttempts' = halfOpenAttempts /\ successCount' = successCount
        BY <1>7, <2>3 DEF RecordSuccess, counters
      <3>3. QED
        BY <1>c, <2>1, <3>1, <3>2
    <2>4. QED
      BY <2>2, <2>3
  <1>8. CASE CoolDown
    BY <1>8, <1>c DEF CoolDown, counters, Undecided
  <1>9. CASE Reset
    BY <1>9 DEF Reset
  <1>10. CASE UNCHANGED vars
    BY <1>10, <1>c DEF vars, Undecided
  <1>11. QED
    BY <1>1, <1>2, <1>3, <1>4, <1>5, <1>6, <1>7, <1>8, <1>9, <1>10
       DEF Next, Continue

(* Every slot of a half-open circuit is held by a call still under way or    *)
(* has become a success.                                                     *)
LEMMA SlotAccounting == Spec => []SlotsAccounted
  BY InitSlots, NextSlots, Typing, InitTypeOK, NextTypeOK, PTL DEF Spec

(* When all slots are accounted for, used-up slots mean an undecided call.   *)
LEMMA AccountedNotStuck == TypeOK /\ SlotsAccounted => HalfOpenNotStuck
  <1> SUFFICES ASSUME TypeOK, SlotsAccounted, state = "halfOpen", Undecided = {}
               PROVE  halfOpenAttempts < HalfOpenRequests
    BY DEF HalfOpenNotStuck
  <1>1. Cardinality(Undecided) = 0
    BY FS_EmptySet
  <1>2. QED
    BY <1>1 DEF SlotsAccounted, TypeOK

(* A half-open circuit never wedges: some call under way will decide it, or  *)
(* CanAttempt still has a slot to hand out.                                  *)
THEOREM NeverStuck == Spec => []HalfOpenNotStuck
  BY Typing, SlotAccounting, AccountedNotStuck, PTL
=============================================================================
