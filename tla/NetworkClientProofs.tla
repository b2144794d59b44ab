------------------------ MODULE NetworkClientProofs ------------------------
(***************************************************************************)
(* Proofs about the connection, for any kinds of goroutines, any number of *)
(* overlapping reconnections, any limit on attempts and any number of      *)
(* connections.                                                            *)
(***************************************************************************)
EXTENDS NetworkClient, FiniteSetTheorems, TLAPS

USE ClientAssumption DEF ConnId, Gen, ReconnectPC

-----------------------------------------------------------------------------
(* One goroutine moves.                                                      *)
LEMMA MoveTyped ==
  ASSUME worker \in [Kinds -> [Gen -> Worker]], NEW k \in Kinds, NEW g \in Gen,
         NEW w \in Worker
  PROVE  [worker EXCEPT ![k][g] = w] \in [Kinds -> [Gen -> Worker]]
  OBVIOUS

(* Zero, nil in the code, is a connection number.                            *)
LEMMA NilConn == 0 \in ConnId
  OBVIOUS

(* The states a goroutine moves to.                                          *)
LEMMA WorkerStates ==
  /\ [pc |-> "none", on |-> 0] \in Worker
  /\ [pc |-> "done", on |-> 0] \in Worker
  /\ [pc |-> "err", on |-> 0] \in Worker
  /\ [pc |-> "cancelled", on |-> 0] \in Worker
  /\ [pc |-> "seen", on |-> 0] \in Worker
  /\ \A c \in ConnId : [pc |-> "use", on |-> c] \in Worker
  BY NilConn DEF Worker, WorkerPC

(* A goroutine that is started, or that goes back to waiting.                *)
LEMMA RestingTyped ==
  ASSUME NEW k \in Kinds, NEW done \in BOOLEAN
  PROVE  Resting(k, done) \in Worker
  BY DEF Resting, Worker, WorkerPC

(* New goroutines are started for a connection.                              *)
LEMMA SpawnedTyped ==
  ASSUME worker \in [Kinds -> [Gen -> Worker]], ctxDone' \in BOOLEAN,
         NEW K, NEW g \in Gen
  PROVE  Spawned(K, g) \in [Kinds -> [Gen -> Worker]]
  <1>1. ASSUME NEW k \in Kinds PROVE [worker[k] EXCEPT ![g] = Resting(k, ctxDone')] \in [Gen -> Worker]
    BY RestingTyped
  <1>2. QED
    BY <1>1 DEF Spawned

(* The context is cancelled under the goroutines.                            *)
LEMMA CancelledTyped ==
  ASSUME worker \in [Kinds -> [Gen -> Worker]], NEW gone
  PROVE  Cancelled(gone) \in [Kinds -> [Gen -> Worker]]
  BY WorkerStates DEF Cancelled

(* A step of a goroutine of a connection.                                    *)
LEMMA WorkerTyped ==
  ASSUME TypeOK, NEW k \in Kinds, NEW g \in Gen, WorkerStep(k, g)
  PROVE  TypeOK'
  <1> USE DEF TypeOK, link, app
  <1>1. CASE k = "read" /\ ReaderLoop(g)
    <2>1. worker' \in [Kinds -> [Gen -> Worker]]
      <3>1. \/ worker' = [worker EXCEPT ![k][g] = [pc |-> "done", on |-> 0]]
            \/ worker' = [worker EXCEPT ![k][g] = [pc |-> "seen", on |-> 0]]
        BY <1>1 DEF ReaderLoop, Move
      <3>2. [pc |-> "done", on |-> 0] \in Worker /\ [pc |-> "seen", on |-> 0] \in Worker
        BY WorkerStates
      <3>3. PICK w \in Worker : worker' = [worker EXCEPT ![k][g] = w]
        BY <3>1, <3>2
      <3>4. [worker EXCEPT ![k][g] = w] \in [Kinds -> [Gen -> Worker]]
        BY MoveTyped
      <3>5. QED
        BY <3>3, <3>4
    <2>2. QED
      BY <1>1, <2>1 DEF ReaderLoop
  <1>2. CASE Wake(k, g)
    <2>1. worker' \in [Kinds -> [Gen -> Worker]]
      <3>1. \/ worker' = [worker EXCEPT ![k][g] = Resting(k, ctxDone)]
            \/ worker' = [worker EXCEPT ![k][g] = [pc |-> "use", on |-> conn]]
            \/ worker' = [worker EXCEPT ![k][g] = [pc |-> "seen", on |-> 0]]
        BY <1>2 DEF Wake, Move
      <3>2. /\ Resting(k, ctxDone) \in Worker /\ [pc |-> "use", on |-> conn] \in Worker
            /\ [pc |-> "seen", on |-> 0] \in Worker
        BY WorkerStates, RestingTyped
      <3>3. PICK w \in Worker : worker' = [worker EXCEPT ![k][g] = w]
        BY <3>1, <3>2
      <3>4. [worker EXCEPT ![k][g] = w] \in [Kinds -> [Gen -> Worker]]
        BY MoveTyped
      <3>5. QED
        BY <3>3, <3>4
    <2>2. QED
      BY <1>2, <2>1 DEF Wake
  <1>3. CASE Exit(k, g)
    <2>1. worker' \in [Kinds -> [Gen -> Worker]]
      BY <1>3, MoveTyped, WorkerStates DEF Exit, Move
    <2>2. QED
      BY <1>3, <2>1 DEF Exit
  <1>4. CASE UseOk(k, g)
    <2>1. worker' \in [Kinds -> [Gen -> Worker]]
      BY <1>4, MoveTyped, RestingTyped DEF UseOk
    <2>2. QED
      BY <1>4, <2>1 DEF UseOk
  <1>5. CASE UseFails(k, g)
    <2>1. worker' \in [Kinds -> [Gen -> Worker]]
      BY <1>5, MoveTyped, WorkerStates DEF UseFails, Move
    <2>2. QED
      BY <1>5, <2>1 DEF UseFails
  <1>6. CASE Trigger(k, g)
    <2>1. worker' \in [Kinds -> [Gen -> Worker]]
      BY <1>6, MoveTyped, WorkerStates DEF Trigger, Move
    <2>2. rec' \in [Reconnectors -> ReconnectPC]
      BY <1>6 DEF Trigger, Active
    <2>3. QED
      BY <1>6, <2>1, <2>2 DEF Trigger
  <1>7. CASE LookAgain(k, g)
    <2>1. worker' \in [Kinds -> [Gen -> Worker]]
      <3>1. \/ worker' = [worker EXCEPT ![k][g] = [pc |-> "use", on |-> conn]]
            \/ worker' = [worker EXCEPT ![k][g] = [pc |-> "done", on |-> 0]]
        BY <1>7 DEF LookAgain, Move
      <3>2. [pc |-> "use", on |-> conn] \in Worker /\ [pc |-> "done", on |-> 0] \in Worker
        BY WorkerStates
      <3>3. PICK w \in Worker : worker' = [worker EXCEPT ![k][g] = w]
        BY <3>1, <3>2
      <3>4. [worker EXCEPT ![k][g] = w] \in [Kinds -> [Gen -> Worker]]
        BY MoveTyped
      <3>5. QED
        BY <3>3, <3>4
    <2>2. QED
      BY <1>7, <2>1 DEF LookAgain
  <1>8. QED
    BY <1>1, <1>2, <1>3, <1>4, <1>5, <1>6, <1>7 DEF WorkerStep

(* A step of attemptReconnection.                                            *)
LEMMA ReconnectTyped ==
  ASSUME TypeOK, NEW r \in Reconnectors, ReconnectStep(r)
  PROVE  TypeOK'
  <1> USE DEF TypeOK, link, app, At
  <1>1. CASE CheckAttempts(r)
    BY <1>1 DEF CheckAttempts
  <1>2. CASE CountAttempt(r)
    BY <1>2 DEF CountAttempt
  <1>3. CASE TearDown(r)
    <2>1. worker' \in [Kinds -> [Gen -> Worker]]
      BY <1>3, CancelledTyped DEF TearDown
    <2>2. rec' \in [Reconnectors -> ReconnectPC] /\ open' \subseteq Gen
      BY <1>3 DEF TearDown
    <2>3. QED
      BY <1>3, <2>1, <2>2, NilConn DEF TearDown
  <1>4. CASE DialSucceeds(r)
    <2>1. dialed' \in Gen
      BY <1>4 DEF DialSucceeds
    <2>2. worker' \in [Kinds -> [Gen -> Worker]]
      BY <1>4, <2>1, SpawnedTyped DEF DialSucceeds
    <2>3. rec' \in [Reconnectors -> ReconnectPC]
      BY <1>4 DEF DialSucceeds
    <2>4. QED
      BY <1>4, <2>1, <2>2, <2>3 DEF DialSucceeds
  <1>5. CASE DialFails(r)
    BY <1>5 DEF DialFails
  <1>6. CASE TryAgain(r)
    BY <1>6 DEF TryAgain
  <1>7. CASE ResetAttempts(r)
    BY <1>7 DEF ResetAttempts
  <1>8. CASE ClearFlag(r)
    BY <1>8 DEF ClearFlag
  <1>9. QED
    BY <1>1, <1>2, <1>3, <1>4, <1>5, <1>6, <1>7, <1>8 DEF ReconnectStep

(* What the application and the network do.                                  *)
LEMMA OutsideTyped ==
  ASSUME TypeOK,
         \/ BeginConnect \/ ConnectSucceeds \/ ConnectFails
         \/ BeginDisconnect \/ EndDisconnect \/ LinkLost
  PROVE  TypeOK'
  <1> USE DEF TypeOK
  <1>1. CASE ConnectSucceeds
    <2>1. dialed' \in Gen /\ lastCall' \in {"none", "first", "Connect", "Disconnect", "again"}
      BY <1>1 DEF ConnectSucceeds
    <2>2. /\ conn' \in ConnId /\ open' \subseteq Gen /\ dialed' \in ConnId
          /\ running' \in BOOLEAN /\ ctxDone' \in BOOLEAN /\ connecting' \in BOOLEAN
          /\ reconnecting' \in {0, 1} /\ attempts' \in Nat /\ rec' \in [Reconnectors -> ReconnectPC]
          /\ closing' \in [active : BOOLEAN, old : ConnId]
      <3>1. /\ conn' = dialed' /\ open' = open \cup {dialed'} /\ running' = TRUE /\ connecting' = FALSE
            /\ UNCHANGED <<ctxDone, reconnecting, attempts, rec, closing>>
        BY <1>1, Zenon DEF ConnectSucceeds
      <3>2. conn' \in ConnId /\ dialed' \in ConnId /\ open' \subseteq Gen
        BY <2>1, <3>1
      <3>3. QED
        BY <3>1, <3>2
    <2>3. CASE supRunning
      <3>1. /\ worker' \in [Kinds -> [Gen -> Worker]] /\ supRunning' \in BOOLEAN
            /\ supervised' \in [Kinds -> ConnId]
        BY <1>1, <2>3 DEF ConnectSucceeds
      <3>2. QED
        BY <2>1, <2>2, <3>1
    <2>4. CASE ~supRunning
      <3>1. worker' \in [Kinds -> [Gen -> Worker]]
        BY <1>1, <2>1, <2>4, SpawnedTyped DEF ConnectSucceeds
      <3>2. supervised' \in [Kinds -> ConnId] /\ supRunning' \in BOOLEAN
        BY <1>1, <2>1, <2>4 DEF ConnectSucceeds
      <3>3. QED
        BY <2>1, <2>2, <3>1, <3>2
    <2>5. QED
      BY <2>3, <2>4
  <1>2. CASE BeginDisconnect
    <2>1. closing' \in [active : BOOLEAN, old : ConnId]
      BY <1>2 DEF BeginDisconnect
    <2>2. QED
      BY <1>2, <2>1, NilConn DEF BeginDisconnect
  <1>3. CASE EndDisconnect
    <2>1. worker' \in [Kinds -> [Gen -> Worker]]
      BY <1>3, CancelledTyped DEF EndDisconnect
    <2>2. closing' \in [active : BOOLEAN, old : ConnId]
      BY <1>3 DEF EndDisconnect
    <2>3. QED
      BY <1>3, <2>1, <2>2 DEF EndDisconnect
  <1>4. CASE LinkLost
    BY <1>4 DEF LinkLost, app
  <1>5. CASE BeginConnect \/ ConnectFails
    BY <1>5 DEF BeginConnect, ConnectFails, link
  <1>6. QED
    BY <1>1, <1>2, <1>3, <1>4, <1>5

(* The types are inductive by themselves.                                    *)
LEMMA NextTyped == TypeOK /\ [Next]_vars => TypeOK'
  <1>1. TypeOK /\ Next => TypeOK'
    BY WorkerTyped, ReconnectTyped, OutsideTyped DEF Next
  <1>2. TypeOK /\ UNCHANGED vars => TypeOK'
    BY DEF TypeOK, vars
  <1>3. QED
    BY <1>1, <1>2

(* The client's state is well typed; in particular the field c.conn and every  *)
(* goroutine refer to connections that were dialed within the bound.         *)
THEOREM Typing == Spec => []TypeOK
  <1>1. Init => TypeOK
    <2>1. Init => worker \in [Kinds -> [Gen -> Worker]]
      BY WorkerStates DEF Init
    <2>2. Init => rec \in [Reconnectors -> ReconnectPC] /\ supervised \in [Kinds -> ConnId]
      BY DEF Init
    <2>3. Init => closing \in [active : BOOLEAN, old : ConnId]
      BY DEF Init
    <2>4. Init => conn \in ConnId /\ open \subseteq Gen /\ dialed \in ConnId
      BY NilConn DEF Init
    <2>5. Init => attempts \in Nat /\ reconnecting \in {0, 1}
      BY DEF Init
    <2>6. QED
      BY <2>1, <2>2, <2>3, <2>4, <2>5 DEF Init, TypeOK
  <1>2. QED
    BY <1>1, NextTyped, PTL DEF Spec

-----------------------------------------------------------------------------
(* The flag is set only together with the start of an attemptReconnection,   *)
(* and none ends, or hands over to the next, without clearing it.            *)
LEMMA FlagNext == TypeOK /\ FlagHeld /\ [Next]_vars => FlagHeld'
  <1> SUFFICES ASSUME TypeOK, FlagHeld, [Next]_vars, reconnecting' = 1
               PROVE  Active' # {}
    BY DEF FlagHeld
  <1> USE DEF TypeOK, FlagHeld, Active, link, app
  <1>1. ASSUME NEW k \in Kinds, NEW g \in Gen, WorkerStep(k, g) PROVE Active' # {}
    <2>1. CASE Trigger(k, g) /\ reconnecting = 0
      <3>1. PICK r \in Reconnectors \ Active : rec' = [rec EXCEPT ![r] = "check"]
        BY <2>1 DEF Trigger
      <3>2. r \in Active'
        BY <3>1
      <3>3. QED
        BY <3>2
    <2>2. CASE ~(Trigger(k, g) /\ reconnecting = 0)
      <3>1. reconnecting' = reconnecting /\ rec' = rec
        BY <1>1, <2>2 DEF WorkerStep, ReaderLoop, LookAgain, Wake, Exit, UseOk, UseFails, Trigger
      <3>2. QED
        BY <3>1
    <2>3. QED
      BY <2>1, <2>2
  <1>2. ASSUME NEW r \in Reconnectors, ReconnectStep(r) PROVE Active' # {}
    <2>1. rec'[r] # "idle"
      BY <1>2 DEF ReconnectStep, CheckAttempts, CountAttempt, TearDown, DialSucceeds,
                  DialFails, TryAgain, ResetAttempts, ClearFlag, At
    <2>2. QED
      BY <2>1
  <1>3. CASE \/ BeginConnect \/ ConnectSucceeds \/ ConnectFails
             \/ BeginDisconnect \/ EndDisconnect \/ LinkLost
    BY <1>3 DEF BeginConnect, ConnectSucceeds, ConnectFails, BeginDisconnect, EndDisconnect, LinkLost
  <1>4. CASE UNCHANGED vars
    BY <1>4 DEF vars
  <1>5. QED
    BY <1>1, <1>2, <1>3, <1>4 DEF Next

(* attemptReconnection never leaves the reconnecting flag set behind itself,  *)
(* however many of them overlap: automatic reconnection is never disabled by *)
(* a flag nobody will clear.                                                 *)
THEOREM FlagNeverOrphaned == Spec => []FlagHeld
  <1>1. Init => FlagHeld
    BY DEF Init, FlagHeld
  <1>2. QED
    BY <1>1, FlagNext, Typing, PTL DEF Spec

-----------------------------------------------------------------------------
(* Served is not inductive: that SOME reader will read the connection says   *)
(* nothing of what the next step does to it.  What is: the reader started    *)
(* for the installed connection itself is at its loop head, about to read it *)
(* or reading it, as long as the connection works; the context it looks at   *)
(* is live; and the first Connect finds no supervised goroutine that would   *)
(* keep it from starting one.                                                *)
OnDuty(c) == \/ worker["read"][c].pc \in {"top", "seen"}
             \/ worker["read"][c] = [pc |-> "use", on |-> c]

LeftAlone ==
  /\ ~closing.active /\ ~ctxDone
  /\ lastCall = "none" => ~supRunning /\ \A k \in Kinds : supervised[k] = 0
  /\ conn # 0 /\ conn \in open => OnDuty(conn)

ServedInv == lastCall \in {"none", "first"} => LeftAlone

(* One goroutine is made to move, all others stay where they are.            *)
LEMMA OneMoves ==
  ASSUME TypeOK, NEW k \in Kinds, NEW g \in Gen, NEW w,
         worker' = [worker EXCEPT ![k][g] = w]
  PROVE  /\ worker'[k][g] = w
         /\ \A c \in Gen : ~(k = "read" /\ c = g) => worker'["read"][c] = worker["read"][c]
  BY DEF TypeOK

(* A goroutine that moves leaves the reader of the installed connection on   *)
(* duty: it turns to that connection, or back to its loop head.              *)
LEMMA WorkerServes ==
  ASSUME TypeOK, LeftAlone, NEW k \in Kinds, NEW g \in Gen, WorkerStep(k, g)
  PROVE  LeftAlone'
  <1>1. /\ closing' = closing /\ ctxDone' = ctxDone /\ supRunning' = supRunning
        /\ supervised' = supervised /\ lastCall' = lastCall /\ conn' = conn /\ open' = open
    BY DEF WorkerStep, ReaderLoop, LookAgain, Wake, Exit, UseOk, UseFails, Trigger, link, app
  <1>2. ASSUME conn # 0, conn \in open PROVE OnDuty(conn)'
    <2>1. OnDuty(conn) /\ conn \in Gen /\ ~ctxDone
      BY <1>2 DEF LeftAlone, TypeOK
    <2>2. PICK w : worker' = [worker EXCEPT ![k][g] = w]
      BY DEF WorkerStep, ReaderLoop, LookAgain, Wake, Exit, UseOk, UseFails, Trigger, Move
    <2>3. CASE ~(k = "read" /\ g = conn)
      BY <1>1, <2>1, <2>2, <2>3, OneMoves DEF OnDuty
    <2>4. CASE k = "read" /\ g = conn
      <3>1. ~Wake(k, g) /\ ~Exit(k, g) /\ ~UseFails(k, g) /\ ~Trigger(k, g)
        BY <1>2, <2>1, <2>4 DEF Wake, Exit, UseFails, Trigger, OnDuty
      <3>2. ReaderLoop(g) \/ LookAgain(k, g) \/ UseOk(k, g)
        BY <3>1 DEF WorkerStep
      <3>3. \/ worker' = [worker EXCEPT ![k][g] = [pc |-> "use", on |-> conn]]
            \/ worker' = [worker EXCEPT ![k][g] = [pc |-> "seen", on |-> 0]]
            \/ worker' = [worker EXCEPT ![k][g] = Resting(k, ctxDone)]
        BY <1>2, <2>1, <2>4, <3>2 DEF ReaderLoop, LookAgain, UseOk, Move
      <3>4. PICK v : /\ worker' = [worker EXCEPT ![k][g] = v]
                     /\ \/ v = [pc |-> "use", on |-> conn] \/ v = Resting(k, ctxDone)
                        \/ v = [pc |-> "seen", on |-> 0]
        BY <3>3
      <3>5. worker'[k][g] = v
        BY <3>4 DEF TypeOK
      <3>6. QED
        BY <1>1, <2>4, <3>4, <3>5 DEF OnDuty, Resting
    <2>5. QED
      BY <2>3, <2>4
  <1>3. QED
    BY <1>1, <1>2 DEF LeftAlone

(* Reconnections replace the connection only together with its reader,       *)
(* whatever the ones they overtake or overlap do: a late one tears down the  *)
(* new connection too, and installs another with a reader of its own.        *)
LEMMA ReconnectServes ==
  ASSUME TypeOK, LeftAlone, NEW r \in Reconnectors, ReconnectStep(r)
  PROVE  LeftAlone'
  <1> USE DEF LeftAlone, link, app
  <1>1. CASE TearDown(r)
    BY <1>1 DEF TearDown
  <1>2. CASE DialSucceeds(r)
    <2>1. conn' \in Gen /\ dialed' = conn' /\ ctxDone' = ctxDone
      BY <1>2 DEF DialSucceeds, TypeOK
    <2>2. worker'["read"] = [worker["read"] EXCEPT ![conn'] = Resting("read", ctxDone')]
      BY <1>2, <2>1 DEF DialSucceeds, Spawned
    <2>3. worker'["read"][conn'] = Resting("read", ctxDone')
      BY <2>1, <2>2 DEF TypeOK
    <2>4. OnDuty(conn)'
      BY <2>3 DEF OnDuty, Resting
    <2>5. QED
      BY <1>2, <2>1, <2>4 DEF DialSucceeds
  <1>3. CASE CheckAttempts(r) \/ CountAttempt(r) \/ DialFails(r) \/ TryAgain(r)
             \/ ResetAttempts(r) \/ ClearFlag(r)
    BY <1>3 DEF CheckAttempts, CountAttempt, DialFails, TryAgain, ResetAttempts,
                ClearFlag, OnDuty
  <1>4. QED
    BY <1>1, <1>2, <1>3 DEF ReconnectStep

(* The first Connect starts a reader with the connection it installs.        *)
LEMMA ConnectServes ==
  ASSUME TypeOK, LeftAlone, lastCall = "none", ConnectSucceeds
  PROVE  LeftAlone'
  <1> USE DEF LeftAlone
  <1>1. conn' \in Gen /\ dialed' = conn' /\ ctxDone' = ctxDone /\ closing' = closing
    BY DEF ConnectSucceeds, TypeOK
  <1>2. lastCall' = "first"
    BY DEF ConnectSucceeds
  <1>3. worker'["read"] = [worker["read"] EXCEPT ![conn'] = Resting("read", ctxDone')]
    BY <1>1 DEF ConnectSucceeds, Spawned
  <1>4. worker'["read"][conn'] = Resting("read", ctxDone')
    BY <1>1, <1>3 DEF TypeOK
  <1>5. OnDuty(conn)'
    BY <1>4 DEF OnDuty, Resting
  <1>6. QED
    BY <1>1, <1>2, <1>5

(* Nothing else the application can do keeps the history at its first call.  *)
LEMMA ServedNext == TypeOK /\ ServedInv /\ [Next]_vars => ServedInv'
  <1> SUFFICES ASSUME TypeOK, ServedInv, [Next]_vars, lastCall' \in {"none", "first"}
               PROVE  LeftAlone'
    BY DEF ServedInv
  <1>1. ASSUME NEW k \in Kinds, NEW g \in Gen, WorkerStep(k, g) PROVE LeftAlone'
    <2>1. lastCall' = lastCall
      BY <1>1 DEF WorkerStep, ReaderLoop, LookAgain, Wake, Exit, UseOk, UseFails, Trigger, app
    <2>2. QED
      BY <1>1, <2>1, WorkerServes DEF ServedInv
  <1>2. ASSUME NEW r \in Reconnectors, ReconnectStep(r) PROVE LeftAlone'
    <2>1. lastCall' = lastCall
      BY <1>2 DEF ReconnectStep, CheckAttempts, CountAttempt, TearDown, DialSucceeds,
                  DialFails, TryAgain, ResetAttempts, ClearFlag, app
    <2>2. QED
      BY <1>2, <2>1, ReconnectServes DEF ServedInv
  <1>3. CASE ConnectSucceeds
    <2>1. lastCall = "none"
      BY <1>3 DEF ConnectSucceeds, TypeOK
    <2>2. QED
      BY <1>3, <2>1, ConnectServes DEF ServedInv
  <1>4. CASE BeginDisconnect
    BY <1>4 DEF BeginDisconnect
  <1>5. CASE EndDisconnect
    BY <1>5 DEF EndDisconnect, ServedInv, LeftAlone
  <1>6. CASE LinkLost
    <2>1. open' \subseteq open /\ UNCHANGED <<conn, ctxDone, worker, app>>
      BY <1>6 DEF LinkLost
    <2>2. QED
      BY <2>1 DEF ServedInv, LeftAlone, OnDuty, app
  <1>7. CASE UNCHANGED vars
    BY <1>7 DEF vars, ServedInv, LeftAlone, OnDuty
  <1>8. CASE BeginConnect \/ ConnectFails
    BY <1>8 DEF BeginConnect, ConnectFails, link, ServedInv, LeftAlone, OnDuty
  <1>9. QED
    BY <1>1, <1>2, <1>3, <1>4, <1>5, <1>6, <1>7, <1>8 DEF Next

(* As long as only the automatic reconnection replaces connections, a        *)
(* connection that works has a reader, however old and new goroutines and    *)
(* any number of reconnections overlap: also in the middle of them, which is *)
(* more than the property asks.                                              *)
THEOREM ReconnectionKeepsReader == Spec => []ReconnectionServes
  <1>1. Init => ServedInv
    BY DEF Init, ServedInv, LeftAlone
  <1>2. TypeOK /\ ServedInv => ReconnectionServes
    <2> SUFFICES ASSUME TypeOK, ServedInv, Undisturbed, Up
                 PROVE  Reading(conn)
      BY DEF ReconnectionServes, Served
    <2>1. conn \in Gen /\ OnDuty(conn)
      BY DEF ServedInv, LeftAlone, Undisturbed, Up, IsConnected, TypeOK
    <2>2. QED
      BY <2>1 DEF OnDuty, Reading
  <1>3. QED
    BY <1>1, <1>2, ServedNext, Typing, PTL DEF Spec

-----------------------------------------------------------------------------
(* ShouldReconnect and the counting of the attempt are two steps, so         *)
(* attempts may pass the limit.  Each reconnection that has been let through *)
(* and has not counted yet is one attempt more to come.                      *)
Counting == {r \in Reconnectors : rec[r] = "count"}

WithinLimit(count) == count = 0 \/ count < MaxAttempts + Cardinality(Reconnectors)

AttemptsLimited == WithinLimit(attempts)

ToCome == WithinLimit(attempts + Cardinality(Counting))

(* Reconnections that count are some of those there are.                     *)
LEMMA CountingFinite ==
  /\ IsFiniteSet(Counting) /\ Cardinality(Counting) \in Nat
  /\ Cardinality(Reconnectors) \in Nat /\ Cardinality(Counting) <= Cardinality(Reconnectors)
  BY FS_Subset, FS_CardinalityType DEF Counting

(* Fewer attempts, or fewer to come, are within the limit as well.           *)
LEMMA FewerToCome ==
  ASSUME TypeOK, ToCome, attempts' \in Nat, attempts' <= attempts, Counting' \subseteq Counting
  PROVE  ToCome'
  <1>1. Cardinality(Counting') <= Cardinality(Counting) /\ Cardinality(Counting') \in Nat
    BY CountingFinite, FS_Subset, FS_CardinalityType
  <1>2. attempts \in Nat /\ Cardinality(Counting) \in Nat /\ Cardinality(Reconnectors) \in Nat
    BY CountingFinite DEF TypeOK
  <1>3. ASSUME NEW n \in Nat, NEW m \in Nat, m <= n, WithinLimit(n) PROVE WithinLimit(m)
    BY <1>2, <1>3 DEF WithinLimit
  <1>4. /\ attempts' + Cardinality(Counting') <= attempts + Cardinality(Counting)
        /\ attempts' + Cardinality(Counting') \in Nat /\ attempts + Cardinality(Counting) \in Nat
    BY <1>1, <1>2
  <1>5. WithinLimit(attempts' + Cardinality(Counting'))
    BY <1>3, <1>4 DEF ToCome
  <1>6. QED
    BY <1>5 DEF ToCome, WithinLimit

LEMMA CountNext == TypeOK /\ ToCome /\ [Next]_vars => ToCome'
  <1> SUFFICES ASSUME TypeOK, ToCome, [Next]_vars PROVE ToCome'
    OBVIOUS
  <1>1. attempts \in Nat /\ attempts' \in Nat /\ rec \in [Reconnectors -> ReconnectPC]
    BY NextTyped DEF TypeOK
  <1>2. ASSUME NEW r \in Reconnectors, CheckAttempts(r), ShouldReconnect PROVE ToCome'
    <2>1. attempts' = attempts /\ attempts < MaxAttempts
      BY <1>2 DEF CheckAttempts, ShouldReconnect
    <2>2. Cardinality(Counting)' <= Cardinality(Reconnectors) /\ Cardinality(Counting)' \in Nat
      BY FS_Subset, FS_CardinalityType DEF Counting
    <2>3. Cardinality(Reconnectors) \in Nat
      BY CountingFinite
    <2>4. QED
      BY <1>1, <2>1, <2>2, <2>3 DEF ToCome, WithinLimit
  <1>3. ASSUME NEW r \in Reconnectors, CountAttempt(r) PROVE ToCome'
    <2>1. r \in Counting /\ Counting' = Counting \ {r}
      BY <1>1, <1>3 DEF CountAttempt, At, Counting
    <2>2. Cardinality(Counting') = Cardinality(Counting) - 1
      BY <2>1, CountingFinite, FS_RemoveElement
    <2>3. attempts' = attempts + 1
      BY <1>3 DEF CountAttempt
    <2>4. attempts' + Cardinality(Counting') = attempts + Cardinality(Counting)
      BY <1>1, <2>2, <2>3, CountingFinite
    <2>5. QED
      BY <2>4 DEF ToCome, WithinLimit
  <1>4. ASSUME NEW r \in Reconnectors,
               \/ CheckAttempts(r) /\ ~ShouldReconnect
               \/ TearDown(r) \/ DialSucceeds(r) \/ DialFails(r) \/ TryAgain(r)
               \/ ResetAttempts(r) \/ ClearFlag(r)
        PROVE  ToCome'
    <2>1. attempts' = attempts \/ attempts' = 0
      BY <1>4 DEF CheckAttempts, TearDown, DialSucceeds, DialFails, TryAgain, ResetAttempts,
                  ClearFlag
    <2>2. Counting' \subseteq Counting
      <3>1. \A q \in Reconnectors : rec'[q] = "count" => rec[q] = "count"
        BY <1>1, <1>4 DEF CheckAttempts, TearDown, DialSucceeds, DialFails, TryAgain,
                          ResetAttempts, ClearFlag, At
      <3>2. QED
        BY <3>1 DEF Counting
    <2>3. QED
      BY <1>1, <2>1, <2>2, FewerToCome
  <1>5. ASSUME NEW k \in Kinds, NEW g \in Gen, WorkerStep(k, g) PROVE ToCome'
    <2>1. attempts' = attempts /\ \A q \in Reconnectors : rec'[q] = "count" => rec[q] = "count"
      BY <1>1, <1>5 DEF WorkerStep, ReaderLoop, LookAgain, Wake, Exit, UseOk, UseFails, Trigger
    <2>2. QED
      BY <1>1, <2>1, FewerToCome DEF Counting
  <1>6. CASE \/ BeginConnect \/ ConnectSucceeds \/ ConnectFails
             \/ BeginDisconnect \/ EndDisconnect \/ LinkLost \/ UNCHANGED vars
    <2>1. attempts' = attempts /\ rec' = rec
      BY <1>6 DEF BeginConnect, ConnectSucceeds, ConnectFails, BeginDisconnect, EndDisconnect, LinkLost, vars
    <2>2. QED
      BY <1>1, <2>1, FewerToCome DEF Counting
  <1>7. QED
    BY <1>2, <1>3, <1>4, <1>5, <1>6 DEF Next, ReconnectStep

(* maxAttempts may be exceeded, but only by one for every further            *)
(* reconnection that is under way at the same time: where there is never     *)
(* more than one attemptReconnection, the limit is exact.                    *)
THEOREM AttemptsOverrun == Spec => []AttemptsLimited
  <1>1. Init => ToCome
    <2>1. Init => Counting = {} /\ attempts = 0
      BY DEF Init, Counting
    <2>2. QED
      BY <2>1, FS_EmptySet DEF ToCome, WithinLimit
  <1>2. TypeOK /\ ToCome => AttemptsLimited
    BY CountingFinite DEF TypeOK, ToCome, WithinLimit, AttemptsLimited
  <1>3. QED
    BY <1>1, <1>2, CountNext, Typing, PTL DEF Spec
=============================================================================
