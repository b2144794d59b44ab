------------------------ MODULE TaskCoordinatorProofs ------------------------
(***************************************************************************)
(* Proofs about the task coordinator, for any finite set of messages, any  *)
(* ids the senders may choose, any limit and any length of the window.     *)
(***************************************************************************)
EXTENDS TaskCoordinator, FiniteSetTheorems, TLAPS

USE CoordinatorAssumption

-----------------------------------------------------------------------------
(* NewTaskCoordinator's fields have their types. *)
LEMMA InitTypeOK == Init => TypeOK
  BY DEF Init, TypeOK, Phase, NoId

(* Whatever id a message brings, or is given from the clock, is an id. *)
LEMMA TaskIdsAreIds ==
  ASSUME TypeOK, NEW kind \in {"task", "user"}
  PROVE  TaskIds(kind) \subseteq Ids
  BY DEF TypeOK, TaskIds, Ids

(* Every step keeps the types. *)
LEMMA NextTypeOK == TypeOK /\ [Next]_vars => TypeOK'
  <1> SUFFICES ASSUME TypeOK, [Next]_vars PROVE TypeOK'
    OBVIOUS
  <1> USE DEF TypeOK, Phase
  <1>1. ASSUME NEW m \in Msgs, Ignore(m) PROVE TypeOK'
    BY <1>1 DEF Ignore
  <1>2. ASSUME NEW m \in Msgs, Accept(m) PROVE TypeOK'
    <2>1. \E id \in Ids : taskID' = [taskID EXCEPT ![m] = id]
      BY <1>2, TaskIdsAreIds DEF Accept
    <2>2. taskID' \in [Msgs -> Ids \cup {NoId}]
      BY <2>1
    <2>3. stamps' \subseteq Msgs
      BY <1>2 DEF Accept, Fresh
    <2>4. QED
      BY <1>2, <2>2, <2>3 DEF Accept
  <1>3. ASSUME NEW m \in Msgs, Reject(m) PROVE TypeOK'
    BY <1>3 DEF Reject, Fresh
  <1>4. ASSUME NEW m \in Msgs, Track(m) PROVE TypeOK'
    BY <1>4 DEF Track
  <1>5. ASSUME NEW m \in Msgs, Respond(m) PROVE TypeOK'
    BY <1>5 DEF Respond
  <1>6. ASSUME NEW m \in Msgs, Finish(m) PROVE TypeOK'
    BY <1>6 DEF Finish
  <1>7. ASSUME NEW m \in Msgs, Timeout(m) PROVE TypeOK'
    BY <1>7 DEF Timeout
  <1>8. ASSUME NEW id \in Ids, CancelTask(id) PROVE TypeOK'
    BY <1>8 DEF CancelTask
  <1>9. CASE CancelAllTasks
    BY <1>9 DEF CancelAllTasks, GetActiveTasks
  <1>10. CASE Tick
    BY <1>10 DEF Tick
  <1>11. CASE UNCHANGED vars
    BY <1>11 DEF vars
  <1>12. QED
    BY <1>1, <1>2, <1>3, <1>4, <1>5, <1>6, <1>7, <1>8, <1>9, <1>10, <1>11 DEF Next

(* Every reachable state is well typed: no accepted task is without an id of *)
(* one of the three forms, and only executions are listed.                   *)
THEOREM Typing == Spec => []TypeOK
  BY InitTypeOK, NextTypeOK, PTL DEF Spec

-----------------------------------------------------------------------------
(* Steps that change the phase of one accepted message to another accepted  *)
(* one, or of no message at all, change neither Accepted nor its stamps.     *)
LEMMA AcceptedSame ==
  ASSUME TypeOK, [Next]_vars, NEW x \in Msgs,
         \A m \in Msgs : ~Accept(m)
  PROVE  x \in Accepted' <=> x \in Accepted
  <1> USE DEF TypeOK, Phase, Accepted
  <1>1. ASSUME NEW m \in Msgs, Ignore(m) \/ Reject(m) PROVE x \in Accepted' <=> x \in Accepted
    BY <1>1 DEF Ignore, Reject
  <1>2. ASSUME NEW m \in Msgs, Track(m) \/ Respond(m) \/ Finish(m)
        PROVE x \in Accepted' <=> x \in Accepted
    BY <1>2 DEF Track, Respond, Finish
  <1>3. ASSUME phase' = phase PROVE x \in Accepted' <=> x \in Accepted
    BY <1>3
  <1>4. QED
    BY <1>1, <1>2, <1>3 DEF Next, Timeout, CancelTask, CancelAllTasks, Tick, vars

(* Accepting m adds m, which was new, and nothing else. *)
LEMMA AcceptAdds ==
  ASSUME TypeOK, NEW m \in Msgs, Accept(m)
  PROVE  Accepted' = Accepted \cup {m} /\ m \notin Accepted
  BY DEF TypeOK, Phase, Accepted, Accept

(* At the start nothing is accepted and the slice is empty. *)
LEMMA InitStamps == Init => StampsExact
  BY DEF Init, StampsExact, Accepted

(* Pruning, accepting and the clock keep the slice exact. *)
LEMMA NextStamps == TypeOK /\ StampsExact /\ [Next]_vars => StampsExact'
  <1> SUFFICES ASSUME TypeOK, StampsExact, [Next]_vars PROVE StampsExact'
    OBVIOUS
  <1>1. ASSUME NEW m \in Msgs, Accept(m) PROVE StampsExact'
    <2>1. Accepted' = Accepted \cup {m} /\ m \notin Accepted
      BY <1>1, AcceptAdds
    <2>2. stamps' \subseteq Accepted'
      BY <1>1, <2>1 DEF Accept, Fresh, StampsExact
    <2>3. PICK id \in Ids : taskID' = [taskID EXCEPT ![m] = id]
      BY <1>1, TaskIdsAreIds DEF Accept
    <2>4. /\ acceptedAt' = [acceptedAt EXCEPT ![m] = now] /\ now' = now
          /\ Limit # 0 => stamps' = Fresh \cup {m}
      BY <1>1 DEF Accept
    <2>5. ASSUME NEW x \in Accepted'
          PROVE  /\ acceptedAt'[x] <= now' /\ taskID'[x] \in Ids
                 /\ Limit # 0 /\ acceptedAt'[x] > now' - Window => x \in stamps'
      <3>1. CASE x = m
        BY <2>3, <2>4, <3>1 DEF TypeOK
      <3>2. CASE x # m
        <4>1. x \in Accepted /\ x \in Msgs
          BY <2>1, <2>5, <3>2 DEF Accepted
        <4>2. acceptedAt'[x] = acceptedAt[x] /\ taskID'[x] = taskID[x]
          BY <2>3, <2>4, <3>2, <4>1 DEF TypeOK
        <4>3. QED
          BY <2>4, <4>1, <4>2 DEF StampsExact, Fresh
      <3>3. QED
        BY <3>1, <3>2
    <2>6. QED
      BY <2>2, <2>5 DEF StampsExact
  <1>2. ASSUME \A m \in Msgs : ~Accept(m) PROVE StampsExact'
    <2>1. Accepted' = Accepted
      <3>1. Accepted \subseteq Msgs /\ Accepted' \subseteq Msgs
        BY DEF Accepted
      <3>2. QED
        BY <1>2, <3>1, AcceptedSame
    <2>2. acceptedAt' = acceptedAt /\ taskID' = taskID
      BY <1>2 DEF Next, Ignore, Reject, Track, Respond, Finish, Timeout, CancelTask,
                  CancelAllTasks, Tick, vars
    <2>3. now' = now \/ now' = now + 1
      BY <1>2 DEF Next, Ignore, Reject, Track, Respond, Finish, Timeout, CancelTask,
                  CancelAllTasks, Tick, vars
    <2>4. stamps' = stamps \/ (stamps' = Fresh /\ now' = now)
      BY <1>2 DEF Next, Ignore, Reject, Track, Respond, Finish, Timeout, CancelTask,
                  CancelAllTasks, Tick, vars
    <2>5. now \in Nat /\ \A x \in Accepted : acceptedAt[x] \in Nat
      BY DEF TypeOK, Accepted
    <2>6. QED
      BY <2>1, <2>2, <2>3, <2>4, <2>5 DEF StampsExact, Fresh
  <1>3. QED
    BY <1>1, <1>2

(* The slice holds exactly the accepted messages that count for the limit.   *)
THEOREM Stamps == Spec => []StampsExact
  BY InitStamps, NextStamps, Typing, PTL DEF Spec

-----------------------------------------------------------------------------
(* What counts in a minute is finite. *)
LEMMA InMinuteFinite ==
  ASSUME NEW t PROVE IsFiniteSet(InMinute(t)) /\ Cardinality(InMinute(t)) \in Nat
  <1>1. InMinute(t) \subseteq Msgs
    BY DEF InMinute, Accepted
  <1>2. QED
    BY <1>1, FS_Subset, FS_CardinalityType

(* At the start no minute has seen a task. *)
LEMMA InitRate == Init => RateRespected
  <1> SUFFICES ASSUME Init, Limit # 0, NEW t \in 0..MaxTime
               PROVE  Cardinality(InMinute(t)) <= Limit
    BY DEF RateRespected
  <1>1. InMinute(t) = {}
    BY DEF InMinute, Accepted, Init
  <1>2. QED
    BY <1>1, FS_EmptySet

(* Accepting a message overfills no minute: one that ends before now does not *)
(* see it, and one that ends now or later sees only what is in the slice.     *)
LEMMA AcceptRate ==
  ASSUME TypeOK, StampsExact, RateRespected, Limit # 0,
         NEW m \in Msgs, Accept(m), NEW t \in 0..MaxTime
  PROVE  Cardinality(InMinute(t)') <= Limit
  <1>1. Accepted' = Accepted \cup {m} /\ m \notin Accepted
    BY AcceptAdds
  <1>2. acceptedAt' = [acceptedAt EXCEPT ![m] = now] /\ now \in Nat /\ t \in Nat
    BY DEF Accept, TypeOK
  <1>3. CASE t < now
    <2>1. InMinute(t)' = InMinute(t)
      BY <1>1, <1>2, <1>3 DEF InMinute, TypeOK, Accepted
    <2>2. QED
      BY <2>1 DEF RateRespected
  <1>4. CASE now <= t
    <2>1. Fresh \subseteq Msgs
      BY DEF Fresh, TypeOK
    <2>2. IsFiniteSet(Fresh) /\ Cardinality(Fresh) \in Nat
      BY <2>1, FS_Subset, FS_CardinalityType
    <2>3. Cardinality(Fresh) < Limit
      BY DEF Accept, Allowed
    <2>4. IsFiniteSet(Fresh \cup {m}) /\ Cardinality(Fresh \cup {m}) <= Limit
      <3>1. /\ IsFiniteSet(Fresh \cup {m})
            /\ Cardinality(Fresh \cup {m}) =
                 IF m \in Fresh THEN Cardinality(Fresh) ELSE Cardinality(Fresh) + 1
        BY <2>2, FS_AddElement, ZenonT(30)
      <3>2. QED
        BY <2>2, <2>3, <3>1
    <2>5. ASSUME NEW x \in InMinute(t)', x # m PROVE x \in Fresh
      <3>1. x \in Accepted /\ x \in Msgs
        BY <1>1, <2>5 DEF InMinute, Accepted
      <3>2. acceptedAt'[x] = acceptedAt[x] /\ acceptedAt[x] \in Nat
        BY <1>2, <2>5, <3>1 DEF TypeOK
      <3>3. acceptedAt[x] > now - Window
        BY <1>2, <1>4, <2>5, <3>2 DEF InMinute
      <3>4. QED
        BY <3>1, <3>3 DEF StampsExact, Fresh
    <2>6. InMinute(t)' \subseteq Fresh \cup {m}
      BY <2>5
    <2>7. IsFiniteSet(InMinute(t)') /\ Cardinality(InMinute(t)') <= Cardinality(Fresh \cup {m})
      BY <2>4, <2>6, FS_Subset
    <2>8. Cardinality(InMinute(t)') \in Nat /\ Cardinality(Fresh \cup {m}) \in Nat
      BY <2>4, <2>7, FS_CardinalityType
    <2>9. QED
      BY <2>4, <2>7, <2>8
  <1>5. QED
    BY <1>2, <1>3, <1>4

(* No other step accepts a message or changes when one was accepted. *)
LEMMA NextRate == TypeOK /\ StampsExact /\ RateRespected /\ [Next]_vars => RateRespected'
  <1> SUFFICES ASSUME TypeOK, StampsExact, RateRespected, [Next]_vars,
                      Limit # 0, NEW t \in 0..MaxTime
               PROVE  Cardinality(InMinute(t)') <= Limit
    BY DEF RateRespected
  <1>1. ASSUME NEW m \in Msgs, Accept(m) PROVE Cardinality(InMinute(t)') <= Limit
    BY <1>1, AcceptRate
  <1>2. ASSUME \A m \in Msgs : ~Accept(m) PROVE Cardinality(InMinute(t)') <= Limit
    <2>1. Accepted' = Accepted
      <3>1. Accepted \subseteq Msgs /\ Accepted' \subseteq Msgs
        BY DEF Accepted
      <3>2. QED
        BY <1>2, <3>1, AcceptedSame
    <2>2. acceptedAt' = acceptedAt
      BY <1>2 DEF Next, Ignore, Reject, Track, Respond, Finish, Timeout, CancelTask,
                  CancelAllTasks, Tick, vars
    <2>3. InMinute(t)' = InMinute(t)
      BY <2>1, <2>2 DEF InMinute
    <2>4. QED
      BY <2>3 DEF RateRespected
  <1>3. QED
    BY <1>1, <1>2

(* However messages arrive, no minute sees more than Limit tasks accepted.   *)
THEOREM RateLimited == Spec => []RateRespected
  BY InitRate, NextRate, Typing, Stamps, PTL DEF Spec

(* A step rejects a message only when the minute that ends now is full. *)
LEMMA RejectWhenFull ==
  ASSUME TypeOK, StampsExact, [Next]_vars,
         NEW m \in Msgs, phase[m] = "new", phase'[m] = "rejected"
  PROVE  Cardinality(InMinute(now)) >= Limit
  <1>1. Reject(m)
    BY DEF Next, Ignore, Accept, Reject, Track, Respond, Finish, Timeout, CancelTask,
           CancelAllTasks, Tick, vars, TypeOK
  <1>2. Fresh \subseteq InMinute(now)
    BY DEF Fresh, InMinute, StampsExact
  <1>3. /\ IsFiniteSet(InMinute(now)) /\ Cardinality(InMinute(now)) \in Nat
        /\ Cardinality(Fresh) <= Cardinality(InMinute(now))
    BY <1>2, InMinuteFinite, FS_Subset
  <1>4. IsFiniteSet(Fresh) /\ Cardinality(Fresh) \in Nat
    BY <1>2, <1>3, FS_Subset, FS_CardinalityType
  <1>5. ~(Cardinality(Fresh) < Limit)
    BY <1>1 DEF Reject, Allowed
  <1>6. QED
    BY <1>3, <1>4, <1>5

(* A message is rejected only when the limit was used up in the last minute. *)
THEOREM RejectsExactly == Spec => RejectsOnlyWhenFull
  <1>1. TypeOK /\ StampsExact /\ [Next]_vars =>
          [\A m \in Msgs : phase[m] = "new" /\ phase'[m] = "rejected"
             => Cardinality(InMinute(now)) >= Limit]_vars
    BY RejectWhenFull
  <1>2. QED
    BY <1>1, Typing, Stamps, PTL DEF Spec, RejectsOnlyWhenFull
-----------------------------------------------------------------------------
(* At the start nothing is listed. *)
LEMMA InitListed == Init => ListedIsExecuting
  BY DEF Init, ListedIsExecuting

(* What leaves the executing phases is taken out of the map by its id, under *)
(* which alone it can be listed.                                             *)
LEMMA NextListed == TypeOK /\ ListedIsExecuting /\ [Next]_vars => ListedIsExecuting'
  <1> SUFFICES ASSUME TypeOK, ListedIsExecuting, [Next]_vars,
                      NEW i \in Ids, active'[i] # None
               PROVE  active'[i] \in Executing' /\ taskID'[active'[i]] = i
    BY DEF ListedIsExecuting
  <1> USE DEF TypeOK, Executing
  <1>1. ASSUME NEW m \in Msgs, Ignore(m)
        PROVE  active'[i] \in Executing' /\ taskID'[active'[i]] = i
    BY <1>1 DEF Ignore, ListedIsExecuting
  <1>2. ASSUME NEW m \in Msgs, Accept(m)
        PROVE  active'[i] \in Executing' /\ taskID'[active'[i]] = i
    <2>1. active' = active /\ active[i] \in Executing /\ taskID[active[i]] = i
      BY <1>2 DEF Accept, ListedIsExecuting
    <2>2. active[i] # m
      BY <1>2, <2>1 DEF Accept
    <2>3. phase'[active[i]] = phase[active[i]]
      BY <1>2, <2>1, <2>2 DEF Accept
    <2>4. taskID'[active[i]] = taskID[active[i]]
      BY <1>2, <2>1, <2>2 DEF Accept
    <2>5. QED
      BY <2>1, <2>3, <2>4
  <1>3. ASSUME NEW m \in Msgs, Reject(m)
        PROVE  active'[i] \in Executing' /\ taskID'[active'[i]] = i
    BY <1>3 DEF Reject, ListedIsExecuting
  <1>4. ASSUME NEW m \in Msgs, Track(m)
        PROVE  active'[i] \in Executing' /\ taskID'[active'[i]] = i
    BY <1>4 DEF Track, ListedIsExecuting
  <1>5. ASSUME NEW m \in Msgs, Respond(m)
        PROVE  active'[i] \in Executing' /\ taskID'[active'[i]] = i
    BY <1>5 DEF Respond, ListedIsExecuting
  <1>6. ASSUME NEW m \in Msgs, Finish(m)
        PROVE  active'[i] \in Executing' /\ taskID'[active'[i]] = i
    BY <1>6 DEF Finish, ListedIsExecuting
  <1>7. ASSUME NEW m \in Msgs, Timeout(m)
        PROVE  active'[i] \in Executing' /\ taskID'[active'[i]] = i
    BY <1>7 DEF Timeout, ListedIsExecuting
  <1>8. ASSUME NEW id \in Ids, CancelTask(id)
        PROVE  active'[i] \in Executing' /\ taskID'[active'[i]] = i
    BY <1>8 DEF CancelTask, ListedIsExecuting
  <1>9. CASE CancelAllTasks
    BY <1>9 DEF CancelAllTasks
  <1>10. CASE Tick
    BY <1>10 DEF Tick, ListedIsExecuting
  <1>11. CASE UNCHANGED vars
    BY <1>11 DEF vars, ListedIsExecuting
  <1>12. QED
    BY <1>1, <1>2, <1>3, <1>4, <1>5, <1>6, <1>7, <1>8, <1>9, <1>10, <1>11 DEF Next

(* The map of active tasks never holds an execution that has ended.          *)
THEOREM NothingStaysListed == Spec => []ListedIsExecuting
  BY InitListed, NextListed, Typing, PTL DEF Spec

-----------------------------------------------------------------------------
(* At the start nothing executes. *)
LEMMA InitUnique == Init => UniqueIsListed
  BY DEF Init, UniqueIsListed, Executing

(* A task that shares its id with nobody after a step shared it with nobody  *)
(* before it either, if it was accepted by then.                             *)
LEMMA SharingStays ==
  ASSUME TypeOK, [Next]_vars, NEW x \in Accepted, SharesId(x)
  PROVE  SharesId(x)'
  <1>1. PICK n \in Accepted \ {x} : taskID[n] = taskID[x]
    BY DEF SharesId
  <1>2. CASE \E m \in Msgs : Accept(m)
    <2>1. PICK m \in Msgs : Accept(m)
      BY <1>2
    <2>2. Accepted' = Accepted \cup {m} /\ m \notin Accepted
      BY <2>1, AcceptAdds
    <2>3. n # m /\ x # m /\ n \in Msgs /\ x \in Msgs
      BY <1>1, <2>2 DEF Accepted
    <2>4. \E id : taskID' = [taskID EXCEPT ![m] = id]
      BY <2>1 DEF Accept
    <2>5. taskID'[n] = taskID[n] /\ taskID'[x] = taskID[x]
      BY <2>3, <2>4 DEF TypeOK
    <2>6. QED
      BY <1>1, <2>2, <2>5 DEF SharesId
  <1>3. CASE \A m \in Msgs : ~Accept(m)
    <2>1. n \in Msgs
      BY <1>1 DEF Accepted
    <2>2. n \in Accepted'
      BY <1>1, <1>3, <2>1, AcceptedSame
    <2>3. taskID' = taskID
      BY <1>3 DEF Next, Ignore, Reject, Track, Respond, Finish, Timeout, CancelTask,
                  CancelAllTasks, Tick, vars
    <2>4. QED
      BY <1>1, <2>2, <2>3 DEF SharesId
  <1>4. QED
    BY <1>2, <1>3

(* Only a task with the same id can take an execution's place in the map,    *)
(* and only cancelling or ending that execution can empty it.                *)
LEMMA NextUnique ==
  TypeOK /\ StampsExact /\ UniqueIsListed /\ [Next]_vars => UniqueIsListed'
  <1> SUFFICES ASSUME TypeOK, StampsExact, UniqueIsListed, [Next]_vars,
                      NEW x \in Executing', x \notin cancelled', ~SharesId(x)'
               PROVE  active'[taskID'[x]] = x
    BY DEF UniqueIsListed
  <1> USE DEF TypeOK
  <1>0. x \in Msgs
    BY DEF Executing
  <1>a. ASSUME x \in Executing \ cancelled PROVE active[taskID[x]] = x /\ x \in Accepted
    <2>1. x \in Accepted
      BY <1>a DEF Executing, Accepted
    <2>2. QED
      BY <1>a, <2>1, SharingStays DEF UniqueIsListed
  <1>b. \A m \in Accepted : taskID[m] \in Ids
    BY DEF StampsExact
  <1>1. ASSUME NEW m \in Msgs, Ignore(m) PROVE active'[taskID'[x]] = x
    BY <1>0, <1>1, <1>a DEF Ignore, Executing
  <1>2. ASSUME NEW m \in Msgs, Accept(m) PROVE active'[taskID'[x]] = x
    <2>1. x # m /\ x \in Executing \ cancelled
      BY <1>0, <1>2 DEF Accept, Executing
    <2>2. \E id : taskID' = [taskID EXCEPT ![m] = id]
      BY <1>2 DEF Accept
    <2>3. taskID'[x] = taskID[x] /\ active' = active
      BY <1>0, <1>2, <2>1, <2>2 DEF Accept
    <2>4. QED
      BY <1>a, <2>1, <2>3
  <1>3. ASSUME NEW m \in Msgs, Reject(m) PROVE active'[taskID'[x]] = x
    BY <1>0, <1>3, <1>a DEF Reject, Executing
  <1>4. ASSUME NEW m \in Msgs, Track(m) PROVE active'[taskID'[x]] = x
    <2>1. m \in Accepted /\ taskID[m] \in Ids /\ taskID' = taskID
      BY <1>4, <1>b DEF Track, Accepted
    <2>2. active' = [active EXCEPT ![taskID[m]] = m]
      BY <1>4 DEF Track
    <2>3. CASE x = m
      BY <2>1, <2>2, <2>3
    <2>4. CASE x # m
      <3>1. x \in Executing \ cancelled
        BY <1>0, <1>4, <2>4 DEF Track, Executing
      <3>2. active[taskID[x]] = x /\ x \in Accepted
        BY <1>a, <3>1
      <3>3. ~SharesId(x)
        BY <3>2, SharingStays
      <3>4. taskID[m] # taskID[x]
        BY <2>1, <2>4, <3>3 DEF SharesId
      <3>5. QED
        BY <1>b, <2>1, <2>2, <3>2, <3>4
    <2>5. QED
      BY <2>3, <2>4
  <1>5. ASSUME NEW m \in Msgs, Respond(m) PROVE active'[taskID'[x]] = x
    BY <1>0, <1>5, <1>a DEF Respond, Executing
  <1>6. ASSUME NEW m \in Msgs, Finish(m) PROVE active'[taskID'[x]] = x
    <2>1. x # m /\ x \in Executing \ cancelled
      BY <1>0, <1>6 DEF Finish, Executing
    <2>2. active[taskID[x]] = x /\ x \in Accepted /\ ~SharesId(x)
      BY <1>a, <2>1, SharingStays
    <2>3. m \in Accepted
      BY <1>6 DEF Finish, Accepted
    <2>4. taskID[m] # taskID[x]
      BY <2>1, <2>2, <2>3 DEF SharesId
    <2>5. QED
      BY <1>6, <1>b, <2>2, <2>4 DEF Finish
  <1>7. ASSUME NEW m \in Msgs, Timeout(m) PROVE active'[taskID'[x]] = x
    BY <1>0, <1>7, <1>a DEF Timeout, Executing
  <1>8. ASSUME NEW id \in Ids, CancelTask(id) PROVE active'[taskID'[x]] = x
    <2>1. /\ x \in Executing \ cancelled /\ x # active[id] /\ taskID' = taskID
          /\ active' = [active EXCEPT ![id] = None]
      BY <1>0, <1>8 DEF CancelTask, Executing
    <2>2. active[taskID[x]] = x /\ x \in Accepted
      BY <1>a, <2>1
    <2>3. taskID[x] # id
      BY <2>1, <2>2
    <2>4. QED
      BY <1>b, <2>1, <2>2, <2>3
  <1>9. ASSUME CancelAllTasks PROVE active'[taskID'[x]] = x
    <2>1. x \in Executing \ cancelled /\ x \notin GetActiveTasks
      BY <1>0, <1>9 DEF CancelAllTasks, Executing
    <2>2. active[taskID[x]] = x /\ taskID[x] \in Ids /\ x # None
      BY <1>0, <1>a, <1>b, <2>1
    <2>3. QED
      BY <2>1, <2>2 DEF GetActiveTasks
  <1>10. CASE Tick
    BY <1>0, <1>10, <1>a DEF Tick, Executing
  <1>11. CASE UNCHANGED vars
    BY <1>0, <1>11, <1>a DEF vars, Executing
  <1>12. QED
    BY <1>1, <1>2, <1>3, <1>4, <1>5, <1>6, <1>7, <1>8, <1>9, <1>10, <1>11 DEF Next

(* An execution with an id of its own is listed until it ends or is          *)
(* cancelled: there CancelTask and CancelAllTasks find it.                   *)
THEOREM UniqueTaskIsFound == Spec => []UniqueIsListed
  BY InitUnique, NextUnique, Typing, Stamps, PTL DEF Spec
=============================================================================
