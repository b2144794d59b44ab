--------------------------- MODULE TaskCoordinator ---------------------------
(***************************************************************************)
(* Tasks and user messages that arrive over the connection, the sliding-   *)
(* window rate limiter they pass, and the goroutines that execute them     *)
(* (teneo-agent-sdk/pkg/network/coordinator.go).                           *)
(*                                                                         *)
(* The connection's single processor goroutine calls the handlers one      *)
(* after the other; every accepted task then runs in a goroutine of its    *)
(* own, listed in activeTasks under a task id that need not be unique: the *)
(* sender may repeat one, and a missing one is made from the clock, which  *)
(* counts whole seconds.  now is that clock.  The slice of time stamps is  *)
(* the set of the messages they belong to, with acceptedAt.                *)
(***************************************************************************)
EXTENDS Integers, FiniteSets

CONSTANTS
  Msgs,      \* messages of type "task" or "message" that arrive
  GivenIds,  \* task ids the sender may put into a task
  Limit,     \* rateLimitPerMin, set before anything arrives; 0 is unlimited
  Window,    \* one minute, in ticks of the clock
  MaxTime,   \* bound on the clock
  None       \* no execution

ASSUME CoordinatorAssumption ==
  /\ IsFiniteSet(Msgs) /\ None \notin Msgs
  /\ Limit \in Nat
  /\ Window \in Nat \ {0}
  /\ MaxTime \in Nat

Ids == ({"given"} \X GivenIds) \cup ({"task", "user-msg"} \X (0..MaxTime))
NoId == <<"none", 0>>

\* "spawned": the goroutine is started but has not listed itself; "running":
\* the agent's handler runs; "responded": it returned and its answer is sent,
\* the deferred clean-up is still to come.
Phase == {"new", "ignored", "rejected", "spawned", "running", "responded", "done"}

VARIABLES
  now,
  phase,       \* phase[m]
  taskID,      \* taskID[m], once m is accepted
  acceptedAt,  \* acceptedAt[m]: the time stamp taken for m
  stamps,      \* requestTimestamps: the messages whose stamp is in the slice
  active,      \* activeTasks: active[id] is the execution listed under id
  cancelled    \* executions whose context is cancelled or has timed out

vars == <<now, phase, taskID, acceptedAt, stamps, active, cancelled>>

TypeOK ==
  /\ now \in 0..MaxTime
  /\ phase \in [Msgs -> Phase]
  /\ taskID \in [Msgs -> Ids \cup {NoId}]
  /\ acceptedAt \in [Msgs -> 0..MaxTime]
  /\ stamps \subseteq Msgs
  /\ active \in [Ids -> Msgs \cup {None}]
  /\ cancelled \subseteq Msgs

\* NewTaskCoordinator, and SetRateLimit before the agent connects.
Init ==
  /\ now = 0
  /\ phase = [m \in Msgs |-> "new"]
  /\ taskID = [m \in Msgs |-> NoId]
  /\ acceptedAt = [m \in Msgs |-> 0]
  /\ stamps = {}
  /\ active = [i \in Ids |-> None]
  /\ cancelled = {}

Accepted == {m \in Msgs : phase[m] \in {"spawned", "running", "responded", "done"}}
Executing == {m \in Msgs : phase[m] \in {"running", "responded"}}
GetActiveTasks == {active[i] : i \in Ids} \ {None}

-----------------------------------------------------------------------------
\* The stamps that survive the pruning of checkRateLimit.
Fresh == {m \in stamps : acceptedAt[m] > now - Window}

\* Mutant: one task too many fits into the window.
AllowedOneMore == Limit = 0 \/ Cardinality(Fresh) <= Limit

Allowed == Limit = 0 \/ Cardinality(Fresh) < Limit

\* Mutant: a task without an id keeps the empty one.
TaskIdsNoFallback(kind) ==
  IF kind = "user" THEN {<<"user-msg", now>>}
                   ELSE ({"given"} \X GivenIds) \cup {<<"", now>>}

\* extractTaskID, or an id made from the time when there is none.
TaskIds(kind) ==
  IF kind = "user" THEN {<<"user-msg", now>>}
                   ELSE ({"given"} \X GivenIds) \cup {<<"task", now>>}

\* HandleIncomingTask ignores what looks like a response and what does not come
\* from the coordinator, HandleUserMessage what comes from the system or itself.
Ignore(m) ==
  /\ phase[m] = "new"
  /\ phase' = [phase EXCEPT ![m] = "ignored"]
  /\ UNCHANGED <<now, taskID, acceptedAt, stamps, active, cancelled>>

\* Both handlers: the limiter lets the message pass and a goroutine is started.
Accept(m) ==
  /\ phase[m] = "new"
  /\ Allowed
  /\ stamps' = IF Limit = 0 THEN stamps ELSE Fresh \cup {m}
  /\ acceptedAt' = [acceptedAt EXCEPT ![m] = now]
  /\ \E kind \in {"task", "user"} : \E id \in TaskIds(kind) :
       taskID' = [taskID EXCEPT ![m] = id]
  /\ phase' = [phase EXCEPT ![m] = "spawned"]
  /\ UNCHANGED <<now, active, cancelled>>

\* Mutant: a rejected message takes a stamp as well.
RejectStamped(m) ==
  /\ phase[m] = "new"
  /\ ~Allowed
  /\ stamps' = Fresh \cup {m}
  /\ acceptedAt' = [acceptedAt EXCEPT ![m] = now]
  /\ phase' = [phase EXCEPT ![m] = "rejected"]
  /\ UNCHANGED <<now, taskID, active, cancelled>>

\* ... or it is answered with rate_limit_exceeded.
Reject(m) ==
  /\ phase[m] = "new"
  /\ ~Allowed
  /\ stamps' = Fresh
  /\ phase' = [phase EXCEPT ![m] = "rejected"]
  /\ UNCHANGED <<now, taskID, acceptedAt, active, cancelled>>

-----------------------------------------------------------------------------
(* ExecuteTask *)

\* The new execution takes the place of one listed under the same id.
Track(m) ==
  /\ phase[m] = "spawned"
  /\ phase' = [phase EXCEPT ![m] = "running"]
  /\ active' = [active EXCEPT ![taskID[m]] = m]
  /\ UNCHANGED <<now, taskID, acceptedAt, stamps, cancelled>>

\* The agent's handler returns, with or without an error, and the answer is
\* handed to SendMessage; the context is not looked at.
Respond(m) ==
  /\ phase[m] = "running"
  /\ phase' = [phase EXCEPT ![m] = "responded"]
  /\ UNCHANGED <<now, taskID, acceptedAt, stamps, active, cancelled>>

\* Mutant: the execution is left listed when it was cancelled.
FinishUnlessCancelled(m) ==
  /\ phase[m] = "responded"
  /\ phase' = [phase EXCEPT ![m] = "done"]
  /\ active' = IF m \in cancelled THEN active ELSE [active EXCEPT ![taskID[m]] = None]
  /\ cancelled' = cancelled \ {m}
  /\ UNCHANGED <<now, taskID, acceptedAt, stamps>>

\* The deferred functions: whatever is listed under the id is deleted, and the
\* context, of which nobody has a use any more, cancelled.
Finish(m) ==
  /\ phase[m] = "responded"
  /\ phase' = [phase EXCEPT ![m] = "done"]
  /\ active' = [active EXCEPT ![taskID[m]] = None]
  /\ cancelled' = cancelled \ {m}
  /\ UNCHANGED <<now, taskID, acceptedAt, stamps>>

\* The thirty seconds of the task's context pass.
Timeout(m) ==
  /\ m \in Executing \ cancelled
  /\ cancelled' = cancelled \cup {m}
  /\ UNCHANGED <<now, phase, taskID, acceptedAt, stamps, active>>

-----------------------------------------------------------------------------
\* Mutant: the whole map is replaced.
CancelTaskClears(id) ==
  /\ active[id] # None
  /\ cancelled' = cancelled \cup {active[id]}
  /\ active' = [i \in Ids |-> None]
  /\ UNCHANGED <<now, phase, taskID, acceptedAt, stamps>>

CancelTask(id) ==
  /\ active[id] # None
  /\ cancelled' = cancelled \cup {active[id]}
  /\ active' = [active EXCEPT ![id] = None]
  /\ UNCHANGED <<now, phase, taskID, acceptedAt, stamps>>

\* Called when the agent stops.
CancelAllTasks ==
  /\ GetActiveTasks # {}
  /\ cancelled' = cancelled \cup GetActiveTasks
  /\ active' = [i \in Ids |-> None]
  /\ UNCHANGED <<now, phase, taskID, acceptedAt, stamps>>

Tick ==
  /\ now < MaxTime
  /\ now' = now + 1
  /\ UNCHANGED <<phase, taskID, acceptedAt, stamps, active, cancelled>>

Next ==
  \/ \E m \in Msgs :
       \/ Ignore(m) \/ Accept(m) \/ Reject(m)
       \/ Track(m) \/ Respond(m) \/ Finish(m) \/ Timeout(m)
  \/ \E id \in Ids : CancelTask(id)
  \/ CancelAllTasks
  \/ Tick

Spec == Init /\ [][Next]_vars

-----------------------------------------------------------------------------
\* The messages accepted in the minute that ends at time t.
InMinute(t) == {m \in Accepted : t - Window < acceptedAt[m] /\ acceptedAt[m] <= t}

\* No minute, wherever it begins, sees more than Limit tasks accepted: the
\* pruning of the slice never forgets one that still counts.
RateRespected == Limit # 0 => \A t \in 0..MaxTime : Cardinality(InMinute(t)) <= Limit

\* The slice forgets no stamp of the last minute and holds none of a message
\* that was not accepted; every accepted message has an id (the strengthening
\* behind the properties of the limiter and the list).
StampsExact ==
  /\ stamps \subseteq Accepted
  /\ \A m \in Accepted :
       /\ acceptedAt[m] <= now /\ taskID[m] \in Ids
       /\ Limit # 0 /\ acceptedAt[m] > now - Window => m \in stamps

\* And a message is turned away only when the last minute really was full.
RejectsOnlyWhenFull ==
  [][\A m \in Msgs : phase[m] = "new" /\ phase'[m] = "rejected"
       => Cardinality(InMinute(now)) >= Limit]_vars

\* What is listed is being executed, under the id it is listed by: nothing
\* stays in the map after its goroutine has ended, in whatever order tasks that
\* share an id begin, end and are cancelled.
ListedIsExecuting ==
  \A i \in Ids : active[i] # None => active[i] \in Executing /\ taskID[active[i]] = i

SharesId(m) == \E n \in Accepted \ {m} : taskID[n] = taskID[m]

\* A task that shares its id with no other is listed as long as it executes
\* and is not cancelled: only there can CancelTask find it.
UniqueIsListed ==
  \A m \in Executing \ cancelled : ~SharesId(m) => active[taskID[m]] = m

\* "CancelAllTasks cancels all active tasks."
CancelAllReaches == [][CancelAllTasks => Executing \subseteq cancelled']_vars
=============================================================================
