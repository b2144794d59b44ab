---------------------------- MODULE NetworkClient ----------------------------
(***************************************************************************)
(* The life of the WebSocket connection: NetworkClient.Connect, Disconnect *)
(* and the automatic reconnection, with the goroutines that read from,     *)
(* write to and ping the connection (pkg/network/client.go, connection.go, *)
(* and what supervisor.go does when the client starts and stops it).       *)
(*                                                                         *)
(* conn, running and ctx are fields that reconnect() changes without the   *)
(* mutex while the goroutines read them, so an action is one stretch of    *)
(* code between two points where a goroutine can wait or be overtaken.     *)
(* Connections are numbered in the order in which they are dialed; 0 is    *)
(* nil.  The goroutines started for connection n have generation n, but    *)
(* they use whatever connection the field holds when they look.            *)
(***************************************************************************)
EXTENDS Integers, FiniteSets

CONSTANTS
  Kinds,         \* the goroutines started per connection: "read" always,
                 \* and out of "write" and "ping"
  Reconnectors,  \* slots for running attemptReconnection goroutines (a bound)
  MaxAttempts,   \* reconnector.maxAttempts
  MaxDials       \* bound on the connections established in a behaviour

ASSUME ClientAssumption ==
  /\ Kinds \subseteq {"read", "write", "ping"} /\ "read" \in Kinds
  /\ IsFiniteSet(Reconnectors)
  /\ MaxAttempts \in Nat
  /\ MaxDials \in Nat \ {0}

ConnId == 0..MaxDials
Gen == 1..MaxDials

\* "top": the reader's loop head.  "wait": a writer or pinger blocked in its
\* select on a live context; "cancelled": that context is cancelled, and the
\* select may pick either case.  "seen": c.conn was not nil when the goroutine
\* looked, and it is about to look again.  "use": inside ReadMessage, WriteMessage or
\* WriteControl on the connection "on".  "err": the call failed, the
\* compare-and-swap on reconnecting is next.
WorkerPC == {"none", "top", "wait", "cancelled", "seen", "use", "err", "done"}
Worker == [pc : WorkerPC, on : ConnId]

\* attemptReconnection, statement by statement where it can be overtaken.
ReconnectPC == {"idle", "check", "count", "backoff", "dial", "failed", "reset", "clear"}

VARIABLES
  conn,          \* c.conn
  open,          \* connections whose socket works at both ends
  dialed,        \* connections established so far
  running,       \* c.running
  ctxDone,       \* the context c.ctx refers to is cancelled
  reconnecting,  \* the atomic flag
  attempts,      \* reconnector.attempts
  worker,        \* worker[k][g]: the goroutine of kind k started for connection g
  rec,           \* rec[r]: where the attemptReconnection goroutine r is
  supRunning,    \* supervisor.running
  supervised,    \* supervised[k]: generation of the supervised goroutine, or 0
  closing,       \* Disconnect under way: [active, old connection]
  connecting,    \* Connect is dialing, and holds the mutex c.mu
  lastCall       \* what the application called last (history, for properties)

vars == <<conn, open, dialed, running, ctxDone, reconnecting, attempts, worker, rec,
          supRunning, supervised, closing, connecting, lastCall>>
link == <<conn, open, dialed, running, ctxDone>>
app == <<supRunning, supervised, closing, connecting, lastCall>>

TypeOK ==
  /\ conn \in ConnId /\ open \subseteq Gen /\ dialed \in ConnId
  /\ running \in BOOLEAN /\ ctxDone \in BOOLEAN
  /\ reconnecting \in {0, 1}
  /\ attempts \in Nat
  /\ worker \in [Kinds -> [Gen -> Worker]]
  /\ rec \in [Reconnectors -> ReconnectPC]
  /\ supRunning \in BOOLEAN
  /\ supervised \in [Kinds -> ConnId]
  /\ closing \in [active : BOOLEAN, old : ConnId]
  /\ connecting \in BOOLEAN
  /\ lastCall \in {"none", "first", "Connect", "Disconnect", "again"}

\* NewNetworkClient.
Init ==
  /\ conn = 0 /\ open = {} /\ dialed = 0
  /\ running = FALSE /\ ctxDone = FALSE
  /\ reconnecting = 0 /\ attempts = 0
  /\ worker = [k \in Kinds |-> [g \in Gen |-> [pc |-> "none", on |-> 0]]]
  /\ rec = [r \in Reconnectors |-> "idle"]
  /\ supRunning = FALSE
  /\ supervised = [k \in Kinds |-> 0]
  /\ closing = [active |-> FALSE, old |-> 0]
  /\ connecting = FALSE
  /\ lastCall = "none"

-----------------------------------------------------------------------------
Alive(k, g) == worker[k][g].pc \notin {"none", "done"}
IsConnected == running /\ conn # 0
ShouldReconnect == attempts < MaxAttempts
Active == {r \in Reconnectors : rec[r] # "idle"}

\* Where a goroutine of kind k waits for work, given whether the context it
\* waits on is already cancelled.
Resting(k, done) ==
  [pc |-> IF k = "read" THEN "top" ELSE IF done THEN "cancelled" ELSE "wait", on |-> 0]

\* The four go statements of reconnect(), or the supervised start.
Spawned(kinds, g) ==
  [k \in Kinds |-> IF k \in kinds
                     THEN [worker[k] EXCEPT ![g] = Resting(k, ctxDone')]
                     ELSE worker[k]]

\* c.cancel(): every goroutine selecting on the context is woken, and readers
\* at their loop head may happen to look at it.
Cancelled(readersGone) ==
  [k \in Kinds |-> [g \in Gen |->
     CASE worker[k][g].pc = "wait" -> [pc |-> "cancelled", on |-> 0]
       [] k = "read" /\ g \in readersGone -> [pc |-> "done", on |-> 0]
       [] OTHER -> worker[k][g]]]

ReadersAtTop == {g \in Gen : "read" \in Kinds /\ worker["read"][g].pc = "top"}

Move(k, g, pc, on) == worker' = [worker EXCEPT ![k][g] = [pc |-> pc, on |-> on]]

-----------------------------------------------------------------------------
(* The goroutines of a connection. *)

\* readMessages, loop head: the context and c.conn are read without the lock.
ReaderLoop(g) ==
  /\ worker["read"][g].pc = "top"
  /\ \/ ctxDone /\ Move("read", g, "done", 0)
     \/ ~ctxDone /\ conn # 0 /\ Move("read", g, "seen", 0)
  /\ UNCHANGED <<link, reconnecting, attempts, rec, app>>

\* Readers and writers read c.conn a second time, for the call on it: if it has become
\* nil, they panic, recover, and end without asking for a reconnection.
LookAgain(k, g) ==
  /\ worker[k][g].pc = "seen"
  /\ IF conn # 0 THEN Move(k, g, "use", conn) ELSE Move(k, g, "done", 0)
  /\ UNCHANGED <<link, reconnecting, attempts, rec, app>>

\* A pinger's first tick is 25 seconds after its start, a reconnection that
\* succeeded runs two statements more: no tick falls between those.
TickerFar == \A r \in Reconnectors : rec[r] \notin {"reset", "clear"}

\* writeMessages takes a message from sendChan, pingPongHandler sees its ticker:
\* both then look at c.conn, the pinger once, and at running, under the lock.
Wake(k, g) ==
  /\ k # "read"
  /\ k = "ping" => TickerFar /\ ~connecting
  /\ worker[k][g].pc \in {"wait", "cancelled"}
  /\ IF conn # 0 /\ (k = "ping" => running)
       THEN IF k = "ping" THEN Move(k, g, "use", conn) ELSE Move(k, g, "seen", 0)
       ELSE worker' = [worker EXCEPT ![k][g] = Resting(k, ctxDone)]
  /\ UNCHANGED <<link, reconnecting, attempts, rec, app>>

\* ... or its select picks the cancelled context.
Exit(k, g) ==
  /\ worker[k][g].pc = "cancelled"
  /\ Move(k, g, "done", 0)
  /\ UNCHANGED <<link, reconnecting, attempts, rec, app>>

\* The call on the connection succeeds while the link works.
UseOk(k, g) ==
  /\ worker[k][g].pc = "use" /\ worker[k][g].on \in open
  /\ worker' = [worker EXCEPT ![k][g] = Resting(k, ctxDone)]
  /\ UNCHANGED <<link, reconnecting, attempts, rec, app>>

UseFails(k, g) ==
  /\ worker[k][g].pc = "use" /\ worker[k][g].on \notin open
  /\ Move(k, g, "err", 0)
  /\ UNCHANGED <<link, reconnecting, attempts, rec, app>>

\* Mutant: only the reader starts a reconnection.
TriggerReaderOnly(k, g) ==
  /\ worker[k][g].pc = "err"
  /\ \/ /\ k = "read" /\ reconnecting = 0
        /\ reconnecting' = 1
        /\ \E r \in Reconnectors \ Active : rec' = [rec EXCEPT ![r] = "check"]
     \/ (k # "read" \/ reconnecting = 1) /\ UNCHANGED <<reconnecting, rec>>
  /\ Move(k, g, "done", 0)
  /\ UNCHANGED <<link, attempts, app>>

\* The compare-and-swap: whoever wins starts attemptReconnection; either way
\* the goroutine is over.  It does not ask which connection had failed.
Trigger(k, g) ==
  /\ worker[k][g].pc = "err"
  /\ \/ /\ reconnecting = 0
        /\ reconnecting' = 1
        /\ \E r \in Reconnectors \ Active : rec' = [rec EXCEPT ![r] = "check"]
     \/ reconnecting = 1 /\ UNCHANGED <<reconnecting, rec>>
  /\ Move(k, g, "done", 0)
  /\ UNCHANGED <<link, attempts, app>>

-----------------------------------------------------------------------------
(* attemptReconnection. *)
At(r, from, to) == rec[r] = from /\ rec' = [rec EXCEPT ![r] = to]

\* Mutant: giving up returns before the store that clears the flag.
CheckAttemptsNoDefer(r) ==
  /\ At(r, "check", IF ShouldReconnect THEN "count" ELSE "idle")
  /\ UNCHANGED <<link, reconnecting, attempts, worker, app>>

\* ShouldReconnect, before taking the lock.
CheckAttempts(r) ==
  /\ At(r, "check", IF ShouldReconnect THEN "count" ELSE "clear")
  /\ UNCHANGED <<link, reconnecting, attempts, worker, app>>

\* Mutant: the attempt is not counted.
CountAttemptNot(r) ==
  /\ At(r, "count", "backoff")
  /\ ~connecting
  /\ UNCHANGED <<link, reconnecting, attempts, worker, app>>

\* Under the mutex.
CountAttempt(r) ==
  /\ At(r, "count", "backoff")
  /\ ~connecting
  /\ attempts' = attempts + 1
  /\ UNCHANGED <<link, reconnecting, worker, app>>

\* Mutant: the cancelled context is not replaced.
TearDownKeepsContext(r) ==
  /\ At(r, "backoff", "dial")
  /\ open' = open \ {conn}
  /\ conn' = 0
  /\ running' = FALSE
  /\ ctxDone' = TRUE
  /\ \E gone \in SUBSET ReadersAtTop : worker' = Cancelled(gone)
  /\ UNCHANGED <<dialed, reconnecting, attempts, app>>

\* The backoff is over: reconnect() closes the connection it finds, replaces
\* the context and begins to dial.
TearDown(r) ==
  /\ At(r, "backoff", "dial")
  /\ open' = open \ {conn}
  /\ conn' = 0
  /\ running' = FALSE
  /\ ctxDone' = FALSE
  /\ \E gone \in SUBSET ReadersAtTop : worker' = Cancelled(gone)
  /\ UNCHANGED <<dialed, reconnecting, attempts, app>>

\* A new connection is installed, whatever has happened during the dial.
DialSucceeds(r) ==
  /\ At(r, "dial", "reset")
  /\ dialed < MaxDials
  /\ dialed' = dialed + 1
  /\ open' = open \cup {dialed'}
  /\ conn' = dialed'
  /\ running' = TRUE
  /\ UNCHANGED ctxDone
  /\ worker' = Spawned(Kinds, dialed')
  /\ UNCHANGED <<reconnecting, attempts, app>>

DialFails(r) ==
  /\ At(r, "dial", "failed")
  /\ UNCHANGED <<link, reconnecting, attempts, worker, app>>

\* After a failed reconnect(): if attempts are left the flag is cleared first
\* and then a second attemptReconnection is started.
TryAgain(r) ==
  /\ rec[r] = "failed"
  /\ \/ /\ ShouldReconnect
        /\ reconnecting' = 0
        /\ \E next \in Reconnectors \ Active :
             rec' = [rec EXCEPT ![r] = "clear", ![next] = "check"]
     \/ /\ ~ShouldReconnect
        /\ rec' = [rec EXCEPT ![r] = "clear"]
        /\ UNCHANGED reconnecting
  /\ UNCHANGED <<link, attempts, worker, app>>

ResetAttempts(r) ==
  /\ At(r, "reset", "clear")
  /\ attempts' = 0
  /\ UNCHANGED <<link, reconnecting, worker, app>>

\* Mutant: the flag is decremented instead of stored.
ClearFlagByDecrement(r) ==
  /\ At(r, "clear", "idle")
  /\ reconnecting' = reconnecting - 1
  /\ UNCHANGED <<link, attempts, worker, app>>

\* The deferred store.
ClearFlag(r) ==
  /\ At(r, "clear", "idle")
  /\ reconnecting' = 0
  /\ UNCHANGED <<link, attempts, worker, app>>

-----------------------------------------------------------------------------
(* The application: Connect at start-up, then from the agent's health check; *)
(* Disconnect when the agent stops.                                          *)

\* Connect holds the mutex from here on, but reconnect() does without it: what Connect
\* finds not running may be running when its dial ends.
BeginConnect ==
  /\ ~connecting
  /\ ~running
  /\ dialed < MaxDials
  /\ connecting' = TRUE
  /\ UNCHANGED <<link, reconnecting, attempts, worker, rec, supRunning, supervised, closing, lastCall>>

\* When the supervisor is still running, Connect returns an error after it has
\* installed the connection.
ConnectSucceeds ==
  /\ connecting
  /\ dialed < MaxDials
  /\ dialed' = dialed + 1
  /\ open' = open \cup {dialed'}
  /\ conn' = dialed'
  /\ running' = TRUE
  /\ UNCHANGED ctxDone
  /\ IF supRunning
       THEN UNCHANGED <<supRunning, supervised, worker>>
       ELSE LET startable == {k \in Kinds : supervised[k] = 0 \/ ~Alive(k, supervised[k])}
            IN /\ supRunning' = TRUE
               /\ supervised' = [k \in Kinds |-> IF k \in startable THEN dialed'
                                                                 ELSE supervised[k]]
               /\ worker' = Spawned(startable, dialed')
  /\ lastCall' = CASE lastCall = "none" -> "first"
                      [] lastCall \in {"first", "Connect"} -> "Connect"
                      [] OTHER -> "again"
  /\ connecting' = FALSE
  /\ UNCHANGED <<reconnecting, attempts, rec, closing>>

ConnectFails ==
  /\ connecting
  /\ connecting' = FALSE
  /\ UNCHANGED <<link, reconnecting, attempts, worker, rec, supRunning, supervised, closing, lastCall>>

\* Disconnect, under the mutex.
BeginDisconnect ==
  /\ ~closing.active /\ ~connecting
  /\ running
  /\ running' = FALSE
  /\ conn' = 0
  /\ closing' = [active |-> TRUE, old |-> conn]
  /\ lastCall' = "Disconnect"
  /\ UNCHANGED <<open, dialed, ctxDone, reconnecting, attempts, worker, rec,
                 supRunning, supervised, connecting>>

\* supervisor.Stop cancels contexts nobody looks at and waits at most ten
\* seconds; then the old connection is closed and c.ctx cancelled.
EndDisconnect ==
  /\ closing.active
  /\ supRunning' = FALSE
  /\ open' = open \ {closing.old}
  /\ ctxDone' = TRUE
  /\ \E gone \in SUBSET ReadersAtTop : worker' = Cancelled(gone)
  /\ closing' = [active |-> FALSE, old |-> 0]
  /\ UNCHANGED <<conn, dialed, running, reconnecting, attempts, rec, supervised, connecting, lastCall>>

\* The server or the network drops a connection.
LinkLost ==
  /\ \E c \in open : open' = open \ {c}
  /\ UNCHANGED <<conn, dialed, running, ctxDone, reconnecting, attempts, worker, rec, app>>

-----------------------------------------------------------------------------
WorkerStep(k, g) ==
  \/ k = "read" /\ ReaderLoop(g)
  \/ LookAgain(k, g)
  \/ Wake(k, g) \/ Exit(k, g)
  \/ UseOk(k, g) \/ UseFails(k, g) \/ Trigger(k, g)

ReconnectStep(r) ==
  \/ CheckAttempts(r) \/ CountAttempt(r) \/ TearDown(r)
  \/ DialSucceeds(r) \/ DialFails(r)
  \/ TryAgain(r) \/ ResetAttempts(r) \/ ClearFlag(r)

Next ==
  \/ \E k \in Kinds, g \in Gen : WorkerStep(k, g)
  \/ \E r \in Reconnectors : ReconnectStep(r)
  \/ BeginConnect \/ ConnectSucceeds \/ ConnectFails
  \/ BeginDisconnect \/ EndDisconnect
  \/ LinkLost

\* The scheduler runs every goroutine: a read on a dead link ends in an error
\* (the read deadline, 60 s), a dial ends (its own timeout), the ping ticker
\* keeps ticking, and a mutex that becomes free again and again is had in the end.
\* Nothing makes messages arrive or the application call.
Fairness ==
  /\ \A k \in Kinds, g \in Gen :
       /\ WF_vars(UseFails(k, g))
       /\ WF_vars(Trigger(k, g))
       /\ WF_vars(LookAgain(k, g))
       /\ k = "read" => WF_vars(ReaderLoop(g))
       /\ k = "ping" => WF_vars(Wake(k, g))
  /\ \A r \in Reconnectors : WF_vars(ReconnectStep(r)) /\ SF_vars(CountAttempt(r))
  /\ WF_vars(ConnectSucceeds \/ ConnectFails)

Spec == Init /\ [][Next]_vars /\ Fairness

-----------------------------------------------------------------------------
Up == IsConnected /\ conn \in open
Dead == IsConnected /\ conn \notin open
\* Since its first Connect the application has left the client alone.
Undisturbed == lastCall = "first"

\* A reader that will read from connection c, or is reading from it.
Reading(c) == \E g \in Gen : \/ worker["read"][g].pc \in {"top", "seen"}
                             \/ worker["read"][g] = [pc |-> "use", on |-> c]

\* The reconnecting flag is never left set by nobody: that would disable
\* automatic reconnection for good, without a trace.
FlagHeld == reconnecting = 1 => Active # {}

\* The client says it is connected, over a link that works, and no
\* reconnection or Disconnect is under way: then a reader serves it.
Served == Up /\ Active = {} /\ ~closing.active => Reading(conn)

\* That is so as long as only the automatic reconnection replaces connections,
\* in whatever order old and new goroutines and reconnections overlap.
ReconnectionServes == Undisturbed => Served

\* README.md:442, "The SDK handles reconnection automatically": also beside
\* the Connect of the agent's own health check (runner.go:398-404).
ConnectedIsServed == lastCall \in {"first", "Connect"} => Served

\* "Disconnect closes the WebSocket connection with graceful shutdown": it
\* stays closed until Connect is called again.
StaysDisconnected == lastCall = "Disconnect" => ~running

\* A link that died under a client that says it is connected is noticed: it
\* is torn down, even if the reader's compare-and-swap lost against a
\* reconnection that was just ending.
DeadLinkNoticed == (Undisturbed /\ Dead) ~> ~(Undisturbed /\ Dead)

\* A client that lost its connection gets one again or has used up its attempts.
RecoversOrGivesUp ==
  (Undisturbed /\ ~Up) ~> (Up \/ attempts >= MaxAttempts \/ ~Undisturbed)

\* Reconnection always comes to rest: no chain of attempts runs for ever.
Settles == <>[](Active = {})
=============================================================================
