------------------------------ MODULE Supervisor ------------------------------
(***************************************************************************)
(* The goroutine supervisor (teneo-agent-sdk/pkg/network/supervisor.go):   *)
(* it starts registered functions, runs a failed one again after a delay,  *)
(* up to a limit, and stops or restarts them through their contexts.       *)
(*                                                                         *)
(* Every start makes a context and an instance of runGoroutine; both have  *)
(* its number.  An instance looks at the field sg.ctx, which a later start *)
(* overwrites; its function keeps the context it was called with.  One     *)
(* goroutine at a time uses the supervisor.  That is an assumption: the    *)
(* client calls Start under its mutex, but Stop after it has unlocked it,  *)
(* so a last health check's Connect may start what Disconnect is stopping. *)
(***************************************************************************)
EXTENDS Naturals, FiniteSets

CONSTANTS
  Goroutines,   \* ids that may be registered
  Heeding,      \* those whose function returns when its context is cancelled
  MaxRestarts,  \* policy.MaxRestarts, 5 in DefaultRestartPolicy
  MaxStarts     \* bound on the starts of one goroutine

ASSUME SupervisorAssumption ==
  /\ Heeding \subseteq Goroutines
  /\ MaxRestarts \in Nat /\ MaxStarts \in Nat \ {0}

Starts == 1..MaxStarts

\* "enter": past the check of the supervisor's running flag.  "err": the function
\* returned an error.  "limit": the failure is counted.  "end" and "leaving":
\* before each deferred statement.
InstancePC == {"none", "loop", "enter", "run", "err", "count", "limit", "backoff",
               "end", "leaving", "done"}
Instance == [pc : InstancePC, ctx : 0..MaxStarts]

VARIABLES
  registered,
  supRunning,    \* gs.running
  supDone,       \* gs.ctx is cancelled; it is never replaced
  running,       \* running[g]: sg.running
  restartCount,
  ctx,           \* ctx[g]: sg.ctx and sg.cancel, 0 if nil
  cancelled,     \* cancelled[g]: the cancelled ones of g's contexts
  inst,          \* inst[g][n], with the context its function was called with
  op,            \* what the user of the supervisor is doing
  todo           \* what Start has still to start, or RestartGoroutine to restart

vars == <<registered, supRunning, supDone, running, restartCount, ctx, cancelled, inst, op, todo>>
user == <<registered, supRunning, supDone, op, todo>>

TypeOK ==
  /\ registered \subseteq Goroutines
  /\ supRunning \in BOOLEAN /\ supDone \in BOOLEAN
  /\ running \in [Goroutines -> BOOLEAN]
  /\ restartCount \in [Goroutines -> 0..(MaxRestarts + MaxStarts)]
  /\ ctx \in [Goroutines -> 0..MaxStarts]
  /\ cancelled \in [Goroutines -> SUBSET Starts]
  /\ inst \in [Goroutines -> [Starts -> Instance]]
  /\ op \in {"none", "start", "stop", "restart", "reset"}
  /\ todo \subseteq Goroutines

\* NewGoroutineSupervisor.
Init ==
  /\ registered = {}
  /\ supRunning = FALSE /\ supDone = FALSE
  /\ running = [g \in Goroutines |-> FALSE]
  /\ restartCount = [g \in Goroutines |-> 0]
  /\ ctx = [g \in Goroutines |-> 0]
  /\ cancelled = [g \in Goroutines |-> {}]
  /\ inst = [g \in Goroutines |-> [n \in Starts |-> [pc |-> "none", ctx |-> 0]]]
  /\ op = "none" /\ todo = {}

Alive(g) == {n \in Starts : inst[g][n].pc \notin {"none", "leaving", "done"}}
Waited(g) == {n \in Starts : inst[g][n].pc \notin {"none", "done"}}

-----------------------------------------------------------------------------
(* The user of the supervisor. *)
Register(g) ==
  /\ op = "none" /\ g \notin registered
  /\ registered' = registered \cup {g}
  /\ UNCHANGED <<supRunning, supDone, running, restartCount, ctx, cancelled, inst, op, todo>>

\* Mutant: the check of sg.running is missing.
StartGoroutineUnchecked(g) ==
  /\ ctx[g] < MaxStarts
  /\ ctx' = [ctx EXCEPT ![g] = @ + 1]
  /\ cancelled' = IF supDone THEN [cancelled EXCEPT ![g] = @ \cup {ctx'[g]}] ELSE cancelled
  /\ running' = [running EXCEPT ![g] = TRUE]
  /\ inst' = [inst EXCEPT ![g][ctx[g] + 1].pc = "loop"]

\* Mutant: the context is replaced before sg.running is checked.
StartGoroutineContextFirst(g) ==
  /\ ctx[g] < MaxStarts
  /\ ctx' = [ctx EXCEPT ![g] = @ + 1]
  /\ cancelled' = IF supDone THEN [cancelled EXCEPT ![g] = @ \cup {ctx'[g]}] ELSE cancelled
  /\ running' = [running EXCEPT ![g] = TRUE]
  /\ inst' = IF running[g] THEN inst ELSE [inst EXCEPT ![g][ctx[g] + 1].pc = "loop"]

\* startGoroutine does nothing while an instance is running.  Otherwise there
\* is a new context under the supervisor's, and a new instance.
StartGoroutine(g) ==
  \/ running[g] /\ UNCHANGED <<ctx, cancelled, running, inst>>
  \/ /\ ~running[g] /\ ctx[g] < MaxStarts
     /\ ctx' = [ctx EXCEPT ![g] = @ + 1]
     /\ cancelled' = IF supDone THEN [cancelled EXCEPT ![g] = @ \cup {ctx'[g]}] ELSE cancelled
     /\ running' = [running EXCEPT ![g] = TRUE]
     /\ inst' = [inst EXCEPT ![g][ctx[g] + 1].pc = "loop"]

\* Start takes what is registered and starts it one by one.
Start ==
  /\ op = "none" /\ ~supRunning
  /\ supRunning' = TRUE
  /\ op' = "start" /\ todo' = registered
  /\ UNCHANGED <<registered, supDone, running, restartCount, ctx, cancelled, inst>>

StartNext(g) ==
  /\ op = "start" /\ g \in todo
  /\ StartGoroutine(g)
  /\ todo' = todo \ {g}
  /\ UNCHANGED <<registered, supRunning, supDone, restartCount, op>>

\* Mutant: the contexts of the goroutines are not cancelled with the supervisor's.
StopOnlySupervisor ==
  /\ op = "none" /\ supRunning
  /\ supRunning' = FALSE
  /\ supDone' = TRUE
  /\ op' = "stop"
  /\ UNCHANGED <<registered, running, restartCount, ctx, cancelled, inst, todo>>

\* Stop cancels the supervisor's context and with it every other; then it waits
\* for the instances, ten seconds at most.
Stop ==
  /\ op = "none" /\ supRunning
  /\ supRunning' = FALSE
  /\ supDone' = TRUE
  /\ cancelled' = [g \in Goroutines |-> 1..ctx[g]]
  /\ op' = "stop"
  /\ UNCHANGED <<registered, running, restartCount, ctx, inst, todo>>

\* RestartGoroutine cancels, waits a moment, resets the count and starts.
Restart(g) ==
  /\ op = "none" /\ g \in registered
  /\ cancelled' = IF ctx[g] = 0 THEN cancelled ELSE [cancelled EXCEPT ![g] = @ \cup {ctx[g]}]
  /\ op' = "restart" /\ todo' = {g}
  /\ UNCHANGED <<registered, supRunning, supDone, running, restartCount, ctx, inst>>

\* The count is reset without synchronization: an instance that is incrementing
\* it may overwrite the zero.
ResetCount(g) ==
  /\ op = "restart" /\ g \in todo
  /\ \/ restartCount' = [restartCount EXCEPT ![g] = 0]
     \/ /\ \E n \in Starts : inst[g][n].pc = "count"
        /\ UNCHANGED restartCount
  /\ op' = "reset"
  /\ UNCHANGED <<registered, supRunning, supDone, running, ctx, cancelled, inst, todo>>

StartAgain(g) ==
  /\ op = "reset" /\ g \in todo
  /\ StartGoroutine(g)
  /\ todo' = {} /\ op' = "none"
  /\ UNCHANGED <<registered, supRunning, supDone, restartCount>>

\* Start has started everything, or Stop has seen all instances end, or has
\* waited long enough.
Return ==
  /\ (op = "start" /\ todo = {}) \/ op = "stop"
  /\ op' = "none"
  /\ UNCHANGED <<registered, supRunning, supDone, running, restartCount, ctx, cancelled, inst, todo>>

-----------------------------------------------------------------------------
(* runGoroutine *)
Goto(g, n, from, to) == inst[g][n].pc = from /\ inst' = [inst EXCEPT ![g][n].pc = to]
Cancelled(g) == ctx[g] \in cancelled[g]

CheckRunning(g, n) ==
  /\ Goto(g, n, "loop", IF supRunning THEN "enter" ELSE "end")
  /\ UNCHANGED <<user, running, restartCount, ctx, cancelled>>

CallFunction(g, n) ==
  /\ inst[g][n].pc = "enter"
  /\ inst' = [inst EXCEPT ![g][n] = [pc |-> "run", ctx |-> ctx[g]]]
  /\ UNCHANGED <<user, running, restartCount, ctx, cancelled>>

\* A nil error ends the instance, whether its context is cancelled or not.
FunctionReturns(g, n) ==
  /\ Goto(g, n, "run", "end") \/ Goto(g, n, "run", "err")
  /\ UNCHANGED <<user, running, restartCount, ctx, cancelled>>

\* After an error the context is looked at first.
CheckResult(g, n) ==
  /\ Goto(g, n, "err", IF Cancelled(g) THEN "end" ELSE "count")
  /\ UNCHANGED <<user, running, restartCount, ctx, cancelled>>

CountFailure(g, n) ==
  /\ Goto(g, n, "count", "limit")
  /\ restartCount' = [restartCount EXCEPT ![g] = @ + 1]
  /\ UNCHANGED <<user, running, ctx, cancelled>>

\* Mutant: the limit allows one failure more.
CheckLimitLate(g, n) ==
  /\ Goto(g, n, "limit", IF restartCount[g] > MaxRestarts + 1 THEN "end" ELSE "backoff")
  /\ UNCHANGED <<user, running, restartCount, ctx, cancelled>>

\* One failure more than MaxRestarts is one too many; RestartGoroutine may have
\* reset the count meanwhile.
CheckLimit(g, n) ==
  /\ Goto(g, n, "limit", IF restartCount[g] > MaxRestarts THEN "end" ELSE "backoff")
  /\ UNCHANGED <<user, running, restartCount, ctx, cancelled>>

\* The delay is over, or the context is cancelled during it.
BackoffEnds(g, n) ==
  /\ \/ Goto(g, n, "backoff", "loop")
     \/ Cancelled(g) /\ Goto(g, n, "backoff", "end")
  /\ UNCHANGED <<user, running, restartCount, ctx, cancelled>>

\* Mutant: a function that gave up is left marked as running.
ClearRunningUnlessGivenUp(g, n) ==
  /\ Goto(g, n, "end", "leaving")
  /\ running' = IF restartCount[g] > MaxRestarts THEN running ELSE [running EXCEPT ![g] = FALSE]
  /\ UNCHANGED <<user, restartCount, ctx, cancelled>>

\* The deferred store, and then wg.Done.
ClearRunning(g, n) ==
  /\ Goto(g, n, "end", "leaving")
  /\ running' = [running EXCEPT ![g] = FALSE]
  /\ UNCHANGED <<user, restartCount, ctx, cancelled>>

Leave(g, n) ==
  /\ Goto(g, n, "leaving", "done")
  /\ UNCHANGED <<user, running, restartCount, ctx, cancelled>>

-----------------------------------------------------------------------------
UserStep(g) == StartNext(g) \/ ResetCount(g) \/ StartAgain(g)

\* What an instance does by itself, apart from its function returning.
InstanceStep(g, n) ==
  \/ CheckRunning(g, n) \/ CallFunction(g, n) \/ CheckResult(g, n)
  \/ CountFailure(g, n) \/ CheckLimit(g, n) \/ BackoffEnds(g, n)
  \/ ClearRunning(g, n) \/ Leave(g, n)

Next ==
  \/ \E g \in Goroutines : Register(g) \/ Restart(g) \/ UserStep(g)
  \/ Start \/ Stop \/ Return
  \/ \E g \in Goroutines, n \in Starts : InstanceStep(g, n) \/ FunctionReturns(g, n)

\* Instances run on, delays pass, and a function that heeds its context returns
\* once it is cancelled.  No other function has to return, and nobody has to
\* use the supervisor.
Fairness ==
  \A g \in Goroutines, n \in Starts :
    /\ WF_vars(InstanceStep(g, n))
    /\ WF_vars(g \in Heeding /\ inst[g][n].ctx \in cancelled[g] /\ FunctionReturns(g, n))

Spec == Init /\ [][Next]_vars /\ Fairness

-----------------------------------------------------------------------------
\* A function never runs twice at the same time, whether Start, a restart after
\* a failure or RestartGoroutine runs it.
OneInstance == \A g \in Goroutines : Cardinality(Alive(g)) <= 1

\* Stop and RestartGoroutine can reach every function under way: the context it
\* was called with is the one in the field, and cancelled once Stop was called.
Reachable ==
  \A g \in Goroutines, n \in Starts : inst[g][n].pc = "run" =>
    /\ inst[g][n].ctx = ctx[g]
    /\ supDone => inst[g][n].ctx \in cancelled[g]

\* GetStatus and IsHealthy tell the truth: what is marked as running has an
\* instance, what is not has none, so it can be started.
StatusTrue == \A g \in Goroutines : running[g] <=> Alive(g) # {}

\* An instance runs its function again only while it has restarts left, though
\* RestartGoroutine changes the count under it.  (A new start runs it once even
\* when none are left: only RestartGoroutine resets the count.)
RerunsWithinLimit ==
  [][\A g \in Goroutines, n \in Starts :
       /\ inst[g][n].pc # "run" /\ inst'[g][n].pc = "run"
       /\ inst[g][n].ctx # 0
       => restartCount[g] <= MaxRestarts]_vars

\* Once the supervisor was stopped, functions that heed their contexts come to
\* an end, also those in a delay, or started afterwards.
StopEnds == supDone ~> \A g \in Heeding : Waited(g) = {}
=============================================================================
