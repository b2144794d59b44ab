--------------------------- MODULE SupervisorProofs ---------------------------
(***************************************************************************)
(* Proofs about the supervisor, for any goroutines, restart limits and     *)
(* numbers of starts.  The properties rest on one fact: an instance that   *)
(* is alive is the newest of its goroutine, because startGoroutine starts  *)
(* none while sg.running is set, and only the newest one clears it.        *)
(***************************************************************************)
EXTENDS Supervisor, FiniteSetTheorems, TLAPS

USE SupervisorAssumption DEF Starts

AlivePC == {"loop", "enter", "run", "err", "count", "limit", "backoff", "end"}

\* Only the newest instance is alive, later ones are not yet used, and a
\* goroutine is marked as running exactly then.
Newest ==
  \A g \in Goroutines : \A n \in Starts :
    /\ inst[g][n].pc \in AlivePC => n = ctx[g] /\ running[g]
    /\ n > ctx[g] => inst[g][n] = [pc |-> "none", ctx |-> 0]

Marked == \A g \in Goroutines : running[g] =>
            /\ ctx[g] \in Starts
            /\ inst[g][ctx[g]].pc \in AlivePC

\* A function is called with its instance's own context, and the supervisor's
\* context cancels all others.
Contexts ==
  /\ \A g \in Goroutines : \A n \in Starts : inst[g][n].pc = "run" => inst[g][n].ctx = ctx[g]
  /\ supDone => \A g \in Goroutines : \A n \in Starts : n <= ctx[g] => n \in cancelled[g]

\* Every start can exceed the limit once, at its end.
Counts ==
  \A g \in Goroutines :
    /\ restartCount[g] <= MaxRestarts + ctx[g]
    /\ \A n \in Starts : inst[g][n].pc \in AlivePC \ {"limit", "end"} =>
         restartCount[g] + 1 <= MaxRestarts + ctx[g]
    /\ \A n \in Starts : inst[g][n].ctx # 0 /\ inst[g][n].pc \in {"loop", "enter", "backoff"} =>
         restartCount[g] <= MaxRestarts

\* The types without the bound on restartCount, which Counts gives.
Types ==
  /\ registered \subseteq Goroutines
  /\ supRunning \in BOOLEAN /\ supDone \in BOOLEAN
  /\ running \in [Goroutines -> BOOLEAN]
  /\ restartCount \in [Goroutines -> Nat]
  /\ ctx \in [Goroutines -> 0..MaxStarts]
  /\ cancelled \in [Goroutines -> SUBSET Starts]
  /\ inst \in [Goroutines -> [Starts -> Instance]]
  /\ op \in {"none", "start", "stop", "restart", "reset"}
  /\ todo \subseteq Goroutines

Inv == Types /\ Newest /\ Marked /\ Contexts /\ Counts

-----------------------------------------------------------------------------
(* What a step of one instance does to the others.                           *)
LEMMA SetInst ==
  ASSUME Types, NEW g \in Goroutines, NEW n \in Starts, NEW w \in Instance,
         inst' = [inst EXCEPT ![g][n] = w]
  PROVE  /\ inst' \in [Goroutines -> [Starts -> Instance]]
         /\ inst'[g][n] = w
         /\ \A h \in Goroutines : \A k \in Starts :
              h # g \/ k # n => inst'[h][k] = inst[h][k]
  BY DEF Types

(* What a program point of one instance changing does to inst.               *)
LEMMA GotoEffect ==
  ASSUME Types, NEW g \in Goroutines, NEW n \in Starts, NEW from, NEW to \in InstancePC,
         Goto(g, n, from, to)
  PROVE  /\ inst[g][n].pc = from
         /\ inst' \in [Goroutines -> [Starts -> Instance]]
         /\ inst'[g][n].pc = to /\ inst'[g][n].ctx = inst[g][n].ctx
         /\ \A h \in Goroutines : \A k \in Starts :
              h # g \/ k # n => inst'[h][k] = inst[h][k]
  <1>1. inst[g][n] \in Instance
    BY DEF Types
  <1>2. [inst[g][n] EXCEPT !.pc = to] \in Instance
    BY <1>1 DEF Instance
  <1>3. PICK w \in Instance : w = [inst[g][n] EXCEPT !.pc = to]
    BY <1>2
  <1>4. w.pc = to /\ w.ctx = inst[g][n].ctx
    BY <1>1, <1>3 DEF Instance
  <1>5. inst[g][n].pc = from /\ inst' = [inst EXCEPT ![g][n] = w]
    BY <1>3 DEF Goto
  <1>6. /\ inst' \in [Goroutines -> [Starts -> Instance]]
        /\ inst'[g][n] = w
        /\ \A h \in Goroutines : \A k \in Starts :
             h # g \/ k # n => inst'[h][k] = inst[h][k]
    BY <1>5, SetInst
  <1>7. QED
    BY <1>4, <1>5, <1>6

(* A step of the newest instance leaves it the newest.                       *)
LEMMA NewestKept ==
  ASSUME Types, Newest, NEW g \in Goroutines, NEW n \in Starts, n = ctx[g], ctx' = ctx,
         inst'[g][n].pc \in AlivePC => running'[g],
         \A h \in Goroutines : h # g => running'[h] = running[h],
         \A h \in Goroutines : \A k \in Starts : h # g \/ k # n => inst'[h][k] = inst[h][k]
  PROVE  Newest'
  <1>1. ASSUME NEW h \in Goroutines, NEW k \in Starts
        PROVE  /\ inst'[h][k].pc \in AlivePC => k = ctx[h] /\ running'[h]
               /\ k > ctx[h] => inst'[h][k] = [pc |-> "none", ctx |-> 0]
    <2>1. CASE h # g
      BY <2>1 DEF Newest
    <2>2. CASE h = g /\ k = n
      BY <2>2 DEF Types
    <2>3. CASE h = g /\ k # n
      BY <2>3 DEF Newest
    <2>4. QED
      BY <2>1, <2>2, <2>3
  <1>2. QED
    BY <1>1 DEF Newest

(* An instance that moves on inside its loop.                                *)
LEMMA MoveInv ==
  ASSUME Inv, NEW g \in Goroutines, NEW n \in Starts, NEW from \in AlivePC,
         NEW to \in AlivePC \ {"run"}, Goto(g, n, from, to),
         to \notin {"limit", "end"} => restartCount[g] + 1 <= MaxRestarts + ctx[g],
         inst[g][n].ctx # 0 /\ to \in {"loop", "enter", "backoff"} =>
           restartCount[g] <= MaxRestarts,
         UNCHANGED <<user, running, restartCount, ctx, cancelled>>
  PROVE  Inv'
  <1>1. /\ inst[g][n].pc = from
        /\ inst' \in [Goroutines -> [Starts -> Instance]]
        /\ inst'[g][n].pc = to /\ inst'[g][n].ctx = inst[g][n].ctx
        /\ \A h \in Goroutines : \A k \in Starts :
             h # g \/ k # n => inst'[h][k] = inst[h][k]
    BY GotoEffect DEF Inv, AlivePC, InstancePC
  <1>2. n = ctx[g] /\ running[g]
    BY <1>1 DEF Inv, Newest
  <1>3. Types'
    BY <1>1 DEF Inv, Types, user
  <1>4. Newest'
    BY <1>1, <1>2, NewestKept DEF Inv
  <1>5. Marked'
    BY <1>1, <1>2 DEF Inv, Marked
  <1>6. Contexts'
    BY <1>1 DEF Inv, Contexts, user
  <1>7. Counts'
    BY <1>1 DEF Inv, Counts
  <1>8. QED
    BY <1>3, <1>4, <1>5, <1>6, <1>7 DEF Inv

(* The end of an instance: it is no longer alive.                            *)
LEMMA ClearRunningInv ==
  ASSUME Inv, NEW g \in Goroutines, NEW n \in Starts, ClearRunning(g, n)
  PROVE  Inv'
  <1> USE DEF Inv
  <1>1. /\ inst[g][n].pc = "end"
        /\ inst' \in [Goroutines -> [Starts -> Instance]]
        /\ inst'[g][n].pc = "leaving" /\ inst'[g][n].ctx = inst[g][n].ctx
        /\ \A h \in Goroutines : \A k \in Starts :
             h # g \/ k # n => inst'[h][k] = inst[h][k]
    BY GotoEffect DEF ClearRunning, InstancePC
  <1>2. n = ctx[g] /\ running[g]
    BY <1>1 DEF Newest, AlivePC
  <1>3. /\ running' = [running EXCEPT ![g] = FALSE]
        /\ UNCHANGED <<user, restartCount, ctx, cancelled>>
    BY DEF ClearRunning
  <1>4. Types'
    BY <1>1, <1>3 DEF Types, user
  <1>5. Newest'
    <2>1. \A h \in Goroutines : h # g => running'[h] = running[h]
      BY <1>3 DEF Types
    <2>2. inst'[g][n].pc \notin AlivePC /\ ctx' = ctx
      BY <1>1, <1>3 DEF AlivePC
    <2>3. QED
      BY <1>1, <1>2, <2>1, <2>2, NewestKept
  <1>6. Marked'
    BY <1>1, <1>2, <1>3 DEF Marked, Types, AlivePC
  <1>7. Contexts'
    BY <1>1, <1>3 DEF Contexts, user
  <1>8. Counts'
    BY <1>1, <1>3 DEF Counts, AlivePC
  <1>9. QED
    BY <1>4, <1>5, <1>6, <1>7, <1>8

(* wg.Done.                                                                  *)
LEMMA LeaveInv ==
  ASSUME Inv, NEW g \in Goroutines, NEW n \in Starts, Leave(g, n)
  PROVE  Inv'
  <1> USE DEF Inv
  <1>1. /\ inst[g][n].pc = "leaving"
        /\ inst' \in [Goroutines -> [Starts -> Instance]]
        /\ inst'[g][n].pc = "done" /\ inst'[g][n].ctx = inst[g][n].ctx
        /\ \A h \in Goroutines : \A k \in Starts :
             h # g \/ k # n => inst'[h][k] = inst[h][k]
    BY GotoEffect DEF Leave, InstancePC
  <1>2. UNCHANGED <<user, running, restartCount, ctx, cancelled>>
    BY DEF Leave
  <1>3. Types'
    BY <1>1, <1>2 DEF Types, user
  <1>4. Newest'
    <2>1. ASSUME NEW h \in Goroutines, NEW k \in Starts
          PROVE  /\ inst'[h][k].pc \in AlivePC => k = ctx[h] /\ running[h]
                 /\ k > ctx[h] => inst'[h][k] = [pc |-> "none", ctx |-> 0]
      <3>1. CASE h # g \/ k # n
        BY <1>1, <3>1 DEF Newest
      <3>2. CASE h = g /\ k = n
        BY <1>1, <3>2 DEF Newest, AlivePC
      <3>3. QED
        BY <3>1, <3>2
    <2>2. QED
      BY <1>2, <2>1 DEF Newest
  <1>5. Marked'
    BY <1>1, <1>2 DEF Marked, AlivePC
  <1>6. Contexts'
    BY <1>1, <1>2 DEF Contexts, user
  <1>7. Counts'
    BY <1>1, <1>2 DEF Counts, AlivePC
  <1>8. QED
    BY <1>3, <1>4, <1>5, <1>6, <1>7

(* A failure is counted.                                                     *)
LEMMA CountFailureInv ==
  ASSUME Inv, NEW g \in Goroutines, NEW n \in Starts, CountFailure(g, n)
  PROVE  Inv'
  <1> USE DEF Inv
  <1>1. /\ inst[g][n].pc = "count"
        /\ inst' \in [Goroutines -> [Starts -> Instance]]
        /\ inst'[g][n].pc = "limit" /\ inst'[g][n].ctx = inst[g][n].ctx
        /\ \A h \in Goroutines : \A k \in Starts :
             h # g \/ k # n => inst'[h][k] = inst[h][k]
    BY GotoEffect DEF CountFailure, InstancePC
  <1>2. n = ctx[g] /\ running[g]
    BY <1>1 DEF Newest, AlivePC
  <1>3. /\ restartCount' = [restartCount EXCEPT ![g] = @ + 1]
        /\ UNCHANGED <<user, running, ctx, cancelled>>
    BY DEF CountFailure
  <1>4. /\ restartCount'[g] = restartCount[g] + 1 /\ restartCount[g] \in Nat
        /\ \A h \in Goroutines : h # g => restartCount'[h] = restartCount[h]
    BY <1>3 DEF Types
  <1>5. Types'
    BY <1>1, <1>3, <1>4 DEF Types, user
  <1>6. Newest'
    BY <1>1, <1>2, <1>3, NewestKept
  <1>7. Marked'
    BY <1>1, <1>2, <1>3 DEF Marked, AlivePC
  <1>8. Contexts'
    BY <1>1, <1>3 DEF Contexts, user
  <1>9. Counts'
    <2>1. \A k \in Starts : inst'[g][k].pc \in AlivePC => k = n
      BY <1>1, <1>2 DEF Newest
    <2>2. \A k \in Starts : inst'[g][k].pc \notin AlivePC \ {"limit", "end"}
      BY <1>1, <2>1
    <2>3. restartCount'[g] <= MaxRestarts + ctx'[g]
      BY <1>1, <1>3, <1>4 DEF Counts, AlivePC
    <2>4. \A h \in Goroutines : h # g =>
            /\ restartCount'[h] = restartCount[h] /\ ctx'[h] = ctx[h]
            /\ \A k \in Starts : inst'[h][k] = inst[h][k]
      BY <1>1, <1>3, <1>4
    <2>5. QED
      BY <2>2, <2>3, <2>4 DEF Counts, AlivePC
  <1>10. QED
    BY <1>5, <1>6, <1>7, <1>8, <1>9

(* The instance goes on only with restarts left.                             *)
LEMMA CheckLimitInv ==
  ASSUME Inv, NEW g \in Goroutines, NEW n \in Starts, CheckLimit(g, n)
  PROVE  Inv'
  <1>1. inst[g][n].pc = "limit" /\ UNCHANGED <<user, running, restartCount, ctx, cancelled>>
    BY DEF CheckLimit, Goto
  <1>2. ctx[g] \in Nat /\ ctx[g] >= 1 /\ restartCount[g] \in Nat
    BY <1>1 DEF Inv, Newest, Types, AlivePC
  <1>3. CASE restartCount[g] > MaxRestarts
    <2>1. Goto(g, n, "limit", "end")
      BY <1>3 DEF CheckLimit
    <2>2. QED
      BY <1>1, <2>1, MoveInv DEF AlivePC
  <1>4. CASE ~(restartCount[g] > MaxRestarts)
    <2>1. Goto(g, n, "limit", "backoff")
      BY <1>4 DEF CheckLimit
    <2>2. restartCount[g] <= MaxRestarts /\ restartCount[g] + 1 <= MaxRestarts + ctx[g]
      BY <1>2, <1>4
    <2>3. QED
      BY <1>1, <2>1, <2>2, MoveInv DEF AlivePC
  <1>5. QED
    BY <1>3, <1>4

(* The steps that look at a flag or a context, and the function's return.    *)
LEMMA LoopInv ==
  ASSUME Inv, NEW g \in Goroutines, NEW n \in Starts,
         \/ CheckRunning(g, n) \/ FunctionReturns(g, n)
         \/ CheckResult(g, n) \/ BackoffEnds(g, n)
  PROVE  Inv'
  <1>1. UNCHANGED <<user, running, restartCount, ctx, cancelled>>
    BY DEF CheckRunning, FunctionReturns, CheckResult, BackoffEnds
  <1>2. ASSUME NEW from \in AlivePC \ {"limit", "end"},
               NEW to \in AlivePC \ {"run"}, Goto(g, n, from, to),
               to \in {"loop", "enter", "backoff"} => from \in {"loop", "enter", "backoff"}
        PROVE  Inv'
    <2>1. inst[g][n].pc = from
      BY <1>2 DEF Goto
    <2>2. restartCount[g] + 1 <= MaxRestarts + ctx[g]
      BY <1>2, <2>1 DEF Inv, Counts
    <2>3. inst[g][n].ctx # 0 /\ to \in {"loop", "enter", "backoff"} =>
            restartCount[g] <= MaxRestarts
      BY <1>2, <2>1 DEF Inv, Counts
    <2>4. QED
      BY <1>1, <1>2, <2>2, <2>3, MoveInv
  <1>3. CASE CheckRunning(g, n)
    <2>1. Goto(g, n, "loop", "enter") \/ Goto(g, n, "loop", "end")
      BY <1>3 DEF CheckRunning
    <2>2. QED
      BY <1>2, <2>1 DEF AlivePC
  <1>4. CASE FunctionReturns(g, n)
    BY <1>2, <1>4 DEF FunctionReturns, AlivePC
  <1>5. CASE CheckResult(g, n)
    <2>1. Goto(g, n, "err", "end") \/ Goto(g, n, "err", "count")
      BY <1>5 DEF CheckResult
    <2>2. QED
      BY <1>2, <2>1 DEF AlivePC
  <1>6. CASE BackoffEnds(g, n)
    BY <1>2, <1>6 DEF BackoffEnds, AlivePC
  <1>7. QED
    BY <1>3, <1>4, <1>5, <1>6

(* The function is called with the context in the field, the instance's own. *)
LEMMA CallFunctionInv ==
  ASSUME Inv, NEW g \in Goroutines, NEW n \in Starts, CallFunction(g, n)
  PROVE  Inv'
  <1> USE DEF Inv
  <1>1. Types
    OBVIOUS
  <1>2. n = ctx[g] /\ running[g]
    BY DEF CallFunction, Newest, AlivePC
  <1>3. [pc |-> "run", ctx |-> ctx[g]] \in Instance
    BY DEF Types, Instance, InstancePC
  <1>4. PICK w \in Instance : w = [pc |-> "run", ctx |-> ctx[g]]
    BY <1>3
  <1>5. inst' = [inst EXCEPT ![g][n] = w]
    BY <1>4 DEF CallFunction
  <1>6. w.pc = "run" /\ w.ctx = ctx[g]
    BY <1>4
  <1>7. /\ inst' \in [Goroutines -> [Starts -> Instance]]
        /\ inst'[g][n].pc = "run" /\ inst'[g][n].ctx = ctx[g]
        /\ \A h \in Goroutines : \A k \in Starts :
             h # g \/ k # n => inst'[h][k] = inst[h][k]
    <2>1. /\ inst' \in [Goroutines -> [Starts -> Instance]]
          /\ inst'[g][n] = w
          /\ \A h \in Goroutines : \A k \in Starts :
               h # g \/ k # n => inst'[h][k] = inst[h][k]
      BY <1>1, <1>5, SetInst
    <2>2. QED
      BY <1>6, <2>1
  <1>8. inst[g][n].pc = "enter" /\ UNCHANGED <<user, running, restartCount, ctx, cancelled>>
    BY DEF CallFunction
  <1>9. Types'
    BY <1>7, <1>8 DEF Types, user
  <1>10. Newest'
    BY <1>2, <1>7, <1>8, NewestKept
  <1>11. Marked'
    BY <1>2, <1>7, <1>8 DEF Marked, AlivePC
  <1>12. Contexts'
    BY <1>7, <1>8 DEF Contexts, user
  <1>13. Counts'
    BY <1>2, <1>7, <1>8 DEF Counts, AlivePC
  <1>14. QED
    BY <1>9, <1>10, <1>11, <1>12, <1>13

(* startGoroutine starts an instance only when none is alive; its context is *)
(* cancelled at once if the supervisor's is.                                 *)
LEMMA StartGoroutineInv ==
  ASSUME Inv, NEW g \in Goroutines, StartGoroutine(g),
         UNCHANGED <<registered, supRunning, supDone, restartCount>>,
         op' \in {"none", "start"}, todo' \subseteq Goroutines
  PROVE  Inv'
  <1> USE DEF Inv
  <1>1. CASE running[g]
    <2>1. UNCHANGED <<ctx, cancelled, running, inst>>
      BY <1>1 DEF StartGoroutine
    <2>2. QED
      BY <2>1 DEF Types, Newest, Marked, Contexts, Counts
  <1>2. CASE ~running[g]
    <2> DEFINE new == ctx[g] + 1
    <2>1. /\ ctx[g] \in Nat /\ new \in Starts /\ new > ctx[g]
          /\ ctx' = [ctx EXCEPT ![g] = new]
          /\ running' = [running EXCEPT ![g] = TRUE]
          /\ inst' = [inst EXCEPT ![g][new].pc = "loop"]
          /\ cancelled' = IF supDone THEN [cancelled EXCEPT ![g] = @ \cup {new}] ELSE cancelled
      BY <1>2 DEF StartGoroutine, Types
    <2> HIDE DEF new
    <2>2. inst[g][new] = [pc |-> "none", ctx |-> 0]
      BY <2>1 DEF Newest
    <2>3. /\ inst' \in [Goroutines -> [Starts -> Instance]]
          /\ inst'[g][new].pc = "loop" /\ inst'[g][new].ctx = 0
          /\ \A h \in Goroutines : \A k \in Starts :
               h # g \/ k # new => inst'[h][k] = inst[h][k]
      <3>1. Goto(g, new, "none", "loop")
        BY <2>1, <2>2 DEF Goto
      <3>2. QED
        BY <2>1, <2>2, <3>1, GotoEffect DEF InstancePC
    <2>4. /\ ctx'[g] = new /\ running'[g] = TRUE
          /\ \A h \in Goroutines : h # g => ctx'[h] = ctx[h] /\ running'[h] = running[h]
      BY <2>1 DEF Types
    <2>5. /\ cancelled' \in [Goroutines -> SUBSET Starts]
          /\ \A h \in Goroutines : cancelled[h] \subseteq cancelled'[h]
          /\ supDone => new \in cancelled'[g]
      BY <2>1 DEF Types
    <2>6. \A k \in Starts : inst[g][k].pc \notin AlivePC
      BY <1>2 DEF Newest
    <2>7. Types'
      BY <2>1, <2>3, <2>5 DEF Types
    <2>8. Newest'
      <3>1. ASSUME NEW h \in Goroutines, NEW k \in Starts
            PROVE  /\ inst'[h][k].pc \in AlivePC => k = ctx'[h] /\ running'[h]
                   /\ k > ctx'[h] => inst'[h][k] = [pc |-> "none", ctx |-> 0]
        <4>1. CASE h # g
          BY <2>3, <2>4, <4>1 DEF Newest
        <4>2. CASE h = g /\ k = new
          BY <2>1, <2>4, <4>2
        <4>3. CASE h = g /\ k # new
          <5>1. inst'[h][k] = inst[g][k] /\ inst'[h][k].pc \notin AlivePC
            BY <2>3, <2>6, <4>3
          <5>2. k > ctx'[h] => k > ctx[g]
            BY <2>1, <2>4, <4>3
          <5>3. QED
            BY <5>1, <5>2, <4>3 DEF Newest
        <4>4. QED
          BY <4>1, <4>2, <4>3
      <3>2. QED
        BY <3>1 DEF Newest
    <2>9. Marked'
      BY <2>1, <2>3, <2>4 DEF Marked, AlivePC
    <2>10. Contexts'
      <3>1. ASSUME NEW h \in Goroutines, NEW k \in Starts
            PROVE  /\ inst'[h][k].pc = "run" => inst'[h][k].ctx = ctx'[h]
                   /\ supDone /\ k <= ctx'[h] => k \in cancelled'[h]
        <4>1. CASE h # g
          BY <2>3, <2>4, <2>5, <4>1 DEF Contexts
        <4>2. CASE h = g /\ k = new
          BY <2>3, <2>5, <4>2
        <4>3. CASE h = g /\ k # new
          <5>1. inst'[h][k].pc # "run"
            BY <2>3, <2>6, <4>3 DEF AlivePC
          <5>2. k <= ctx'[h] => k <= ctx[g]
            BY <2>1, <2>4, <4>3 DEF new
          <5>3. QED
            BY <5>1, <5>2, <2>5, <4>3 DEF Contexts
        <4>4. QED
          BY <4>1, <4>2, <4>3
      <3>2. supDone' = supDone
        OBVIOUS
      <3>3. QED
        BY <3>1, <3>2 DEF Contexts
    <2>11. Counts'
      <3>1. ASSUME NEW h \in Goroutines
            PROVE  /\ restartCount[h] <= MaxRestarts + ctx'[h]
                   /\ \A k \in Starts : inst'[h][k].pc \in AlivePC \ {"limit", "end"} =>
                        restartCount[h] + 1 <= MaxRestarts + ctx'[h]
                   /\ \A k \in Starts : inst'[h][k].ctx # 0
                          /\ inst'[h][k].pc \in {"loop", "enter", "backoff"} =>
                        restartCount[h] <= MaxRestarts
        <4>1. CASE h # g
          <5>1. ctx'[h] = ctx[h] /\ \A k \in Starts : inst'[h][k] = inst[h][k]
            BY <2>3, <2>4, <4>1
          <5>2. QED
            BY <5>1 DEF Counts
        <4>2. CASE h = g
          <5>1. restartCount[g] \in Nat /\ restartCount[g] + 1 <= MaxRestarts + ctx'[g]
            BY <2>1, <2>4 DEF Counts, Types, new
          <5>2. restartCount[g] <= MaxRestarts + ctx'[g]
            BY <5>1, <2>1, <2>4
          <5>3. \A k \in Starts : inst'[g][k].pc \in {"loop", "enter", "backoff"} => k = new
            BY <2>3, <2>6 DEF AlivePC
          <5>4. QED
            BY <4>2, <5>1, <5>2, <5>3, <2>3
        <4>3. QED
          BY <4>1, <4>2
      <3>2. restartCount' = restartCount
        OBVIOUS
      <3>3. QED
        BY <3>1, <3>2 DEF Counts
    <2>12. QED
      BY <2>7, <2>8, <2>9, <2>10, <2>11
  <1>3. QED
    BY <1>1, <1>2

(* Cancelling, registering and waiting leave the instances alone.            *)
LEMMA UserInv ==
  ASSUME Inv, \/ \E g \in Goroutines : Register(g) \/ Restart(g) \/ ResetCount(g)
              \/ Start \/ Stop \/ Return \/ UNCHANGED vars
  PROVE  Inv'
  <1> USE DEF Inv
  <1>1. ASSUME NEW g \in Goroutines, Register(g) PROVE Inv'
    BY <1>1 DEF Register, Types, Newest, Marked, Contexts, Counts
  <1>2. ASSUME NEW g \in Goroutines, Restart(g) PROVE Inv'
    <2>1. /\ cancelled' \in [Goroutines -> SUBSET Starts]
          /\ \A h \in Goroutines : cancelled[h] \subseteq cancelled'[h]
      BY <1>2 DEF Restart, Types
    <2>2. UNCHANGED <<registered, supRunning, supDone, running, restartCount, ctx, inst>>
      BY <1>2 DEF Restart
    <2>3. Types'
      BY <1>2, <2>1, <2>2 DEF Restart, Types
    <2>4. Newest' /\ Marked' /\ Counts'
      BY <2>2 DEF Newest, Marked, Counts
    <2>5. Contexts'
      BY <2>1, <2>2 DEF Contexts
    <2>6. QED
      BY <2>3, <2>4, <2>5
  <1>3. ASSUME NEW g \in Goroutines, ResetCount(g) PROVE Inv'
    <2>1. /\ \/ restartCount' = [restartCount EXCEPT ![g] = 0]
             \/ UNCHANGED restartCount
          /\ UNCHANGED <<registered, supRunning, supDone, running, ctx, cancelled, inst, todo>>
      BY <1>3 DEF ResetCount
    <2>2. \A h \in Goroutines : restartCount'[h] = restartCount[h] \/ restartCount'[h] = 0
      BY <2>1 DEF Types
    <2>3. Types'
      <3>1. restartCount' \in [Goroutines -> Nat]
        BY <2>1 DEF Types
      <3>2. op' \in {"none", "start", "stop", "restart", "reset"}
        BY <1>3 DEF ResetCount
      <3>3. QED
        BY <2>1, <3>1, <3>2 DEF Types
    <2>4. Newest' /\ Marked' /\ Contexts'
      BY <2>1 DEF Newest, Marked, Contexts
    <2>5. Counts'
      <3>1. ASSUME NEW h \in Goroutines, NEW k \in Starts, inst[h][k].pc \in AlivePC
            PROVE  ctx[h] \in Nat /\ ctx[h] >= 1
        BY <3>1 DEF Newest, Types
      <3>2. \A h \in Goroutines : ctx[h] \in Nat
        BY DEF Types
      <3>3. QED
        BY <2>1, <2>2, <3>1, <3>2 DEF Counts
    <2>6. QED
      BY <2>3, <2>4, <2>5
  <1>4. CASE Start
    BY <1>4 DEF Start, Types, Newest, Marked, Contexts, Counts
  <1>5. CASE Stop
    <2>1. /\ cancelled' = [g \in Goroutines |-> 1..ctx[g]]
          /\ UNCHANGED <<registered, running, restartCount, ctx, inst, todo>>
      BY <1>5 DEF Stop
    <2>2. cancelled' \in [Goroutines -> SUBSET Starts]
      BY <2>1 DEF Types
    <2>3. Types'
      BY <1>5, <2>1, <2>2 DEF Stop, Types
    <2>4. Newest' /\ Marked' /\ Counts'
      BY <2>1 DEF Newest, Marked, Counts
    <2>5. Contexts'
      BY <2>1 DEF Contexts, Types
    <2>6. QED
      BY <2>3, <2>4, <2>5
  <1>6. CASE Return
    BY <1>6 DEF Return, Types, Newest, Marked, Contexts, Counts
  <1>7. CASE UNCHANGED vars
    BY <1>7 DEF vars, Types, Newest, Marked, Contexts, Counts
  <1>8. QED
    BY <1>1, <1>2, <1>3, <1>4, <1>5, <1>6, <1>7

LEMMA InitInv == Init => Inv
  <1> SUFFICES ASSUME Init PROVE Inv
    OBVIOUS
  <1>1. [pc |-> "none", ctx |-> 0] \in Instance
    BY DEF Instance, InstancePC
  <1>2. \A g \in Goroutines : \A n \in Starts : inst[g][n] = [pc |-> "none", ctx |-> 0]
    BY DEF Init
  <1>3. Types
    <2>1. PICK w \in Instance : w = [pc |-> "none", ctx |-> 0]
      BY <1>1
    <2>2. inst = [g \in Goroutines |-> [n \in Starts |-> w]]
      BY <2>1 DEF Init
    <2>3. inst \in [Goroutines -> [Starts -> Instance]]
      BY <2>2
    <2>4. ctx \in [Goroutines -> 0..MaxStarts] /\ restartCount \in [Goroutines -> Nat]
      BY DEF Init
    <2>5. cancelled \in [Goroutines -> SUBSET Starts]
      BY DEF Init
    <2>6. QED
      BY <2>3, <2>4, <2>5 DEF Init, Types
  <1>4. Newest /\ Contexts
    BY <1>2 DEF Init, Newest, Contexts, AlivePC
  <1>5. Marked
    BY DEF Init, Marked
  <1>6. Counts
    BY <1>2 DEF Init, Counts, AlivePC
  <1>7. QED
    BY <1>3, <1>4, <1>5, <1>6 DEF Inv

LEMMA NextInv == Inv /\ [Next]_vars => Inv'
  <1> SUFFICES ASSUME Inv, [Next]_vars PROVE Inv'
    OBVIOUS
  <1>1. ASSUME NEW g \in Goroutines, StartNext(g) PROVE Inv'
    <2>1. op' = "start" /\ todo' \subseteq Goroutines
      BY <1>1 DEF StartNext, Inv, Types
    <2>2. QED
      BY <1>1, <2>1, StartGoroutineInv DEF StartNext
  <1>2. ASSUME NEW g \in Goroutines, StartAgain(g) PROVE Inv'
    BY <1>2, StartGoroutineInv DEF StartAgain
  <1>3. ASSUME NEW g \in Goroutines, Register(g) \/ Restart(g) \/ UserStep(g) PROVE Inv'
    BY <1>1, <1>2, <1>3, UserInv DEF UserStep
  <1>4. ASSUME NEW g \in Goroutines, NEW n \in Starts,
               InstanceStep(g, n) \/ FunctionReturns(g, n)
        PROVE  Inv'
    BY <1>4, LoopInv, CallFunctionInv, CountFailureInv, CheckLimitInv, ClearRunningInv,
       LeaveInv DEF InstanceStep
  <1>5. CASE Start \/ Stop \/ Return \/ UNCHANGED vars
    BY <1>5, UserInv
  <1>6. QED
    BY <1>3, <1>4, <1>5 DEF Next

(* The invariant in every state.                                             *)
THEOREM Invariance == Spec => []Inv
  BY InitInv, NextInv, PTL DEF Spec

(* What is alive, by program points.                                         *)
LEMMA AliveIs ==
  ASSUME Types, NEW g \in Goroutines
  PROVE  Alive(g) = {n \in Starts : inst[g][n].pc \in AlivePC}
  BY DEF Alive, Types, Instance, InstancePC, AlivePC

-----------------------------------------------------------------------------
(* Types are kept; in particular a goroutine fails at most MaxRestarts times *)
(* and once more for every start before it is given up.                      *)
THEOREM TypeCorrect == Spec => []TypeOK
  <1>1. Inv => TypeOK
    <2> SUFFICES ASSUME Inv PROVE TypeOK
      OBVIOUS
    <2>1. \A g \in Goroutines : restartCount[g] \in 0..(MaxRestarts + MaxStarts)
      BY DEF Inv, Types, Counts
    <2>2. QED
      BY <2>1 DEF Inv, Types, TypeOK
  <1>2. QED
    BY <1>1, Invariance, PTL

(* A function never runs twice at the same time (startGoroutine, Start and   *)
(* RestartGoroutine).                                                        *)
THEOREM NoSecondInstance == Spec => []OneInstance
  <1>1. Inv => OneInstance
    <2> SUFFICES ASSUME Inv, NEW g \in Goroutines PROVE Cardinality(Alive(g)) <= 1
      BY DEF OneInstance
    <2>1. Alive(g) \subseteq {ctx[g]}
      BY AliveIs DEF Inv, Newest
    <2>2. IsFiniteSet({ctx[g]}) /\ Cardinality({ctx[g]}) = 1
      BY FS_Singleton
    <2>3. QED
      BY <2>1, <2>2, FS_Subset
  <1>2. QED
    BY <1>1, Invariance, PTL

(* Every function under way runs with the context that Stop and              *)
(* RestartGoroutine cancel, and it is cancelled once Stop was called.        *)
THEOREM EveryFunctionReachable == Spec => []Reachable
  <1>1. Inv => Reachable
    <2> SUFFICES ASSUME Inv, NEW g \in Goroutines, NEW n \in Starts, inst[g][n].pc = "run"
                 PROVE  inst[g][n].ctx = ctx[g] /\ (supDone => inst[g][n].ctx \in cancelled[g])
      BY DEF Reachable
    <2>1. n = ctx[g]
      BY DEF Inv, Newest, AlivePC
    <2>2. QED
      BY <2>1 DEF Inv, Contexts
  <1>2. QED
    BY <1>1, Invariance, PTL

(* What GetStatus reports as running has an instance, and only that.         *)
THEOREM StatusIsTrue == Spec => []StatusTrue
  <1>1. Inv => StatusTrue
    <2> SUFFICES ASSUME Inv, NEW g \in Goroutines PROVE running[g] <=> Alive(g) # {}
      BY DEF StatusTrue
    <2>1. Alive(g) = {n \in Starts : inst[g][n].pc \in AlivePC}
      BY AliveIs DEF Inv
    <2>2. running[g] => ctx[g] \in Alive(g)
      BY <2>1 DEF Inv, Marked
    <2>3. Alive(g) # {} => running[g]
      BY <2>1 DEF Inv, Newest, Types
    <2>4. QED
      BY <2>2, <2>3
  <1>2. QED
    BY <1>1, Invariance, PTL

(* A failed function runs again only while its count is within the limit.    *)
THEOREM RerunsLimited == Spec => RerunsWithinLimit
  <1> DEFINE Rerun == \A g \in Goroutines, n \in Starts :
                        /\ inst[g][n].pc # "run" /\ inst'[g][n].pc = "run"
                        /\ inst[g][n].ctx # 0
                        => restartCount[g] <= MaxRestarts
  <1>1. ASSUME Inv, Next, NEW g \in Goroutines, NEW n \in Starts,
               inst[g][n].pc # "run", inst'[g][n].pc = "run"
        PROVE  inst[g][n].pc = "enter"
    <2>1. Types /\ inst' # inst
      BY <1>1 DEF Inv
    <2>2. ASSUME NEW h \in Goroutines, StartGoroutine(h) PROVE FALSE
      <3>1. Goto(h, ctx[h] + 1, "none", "loop") /\ ctx[h] + 1 \in Starts
        BY <1>1, <2>1, <2>2 DEF StartGoroutine, Goto, Inv, Newest, Types
      <3>2. QED
        BY <1>1, <2>1, <3>1, GotoEffect DEF InstancePC
    <2>3. PICK h \in Goroutines, k \in Starts : InstanceStep(h, k) \/ FunctionReturns(h, k)
      BY <1>1, <2>1, <2>2 DEF Next, Register, Restart, UserStep, StartNext, ResetCount,
         StartAgain, Start, Stop, Return
    <2>4. CASE CallFunction(h, k)
      <3>1. [pc |-> "run", ctx |-> ctx[h]] \in Instance
        BY <2>1 DEF Types, Instance, InstancePC
      <3>2. PICK w \in Instance : w = [pc |-> "run", ctx |-> ctx[h]]
        BY <3>1
      <3>3. inst' = [inst EXCEPT ![h][k] = w] /\ inst[h][k].pc = "enter"
        BY <2>4, <3>2 DEF CallFunction
      <3>4. g = h /\ n = k
        BY <1>1, <2>1, <3>3, SetInst
      <3>5. QED
        BY <3>3, <3>4
    <2>5. CASE ~CallFunction(h, k)
      <3>1. ASSUME NEW from, NEW to \in InstancePC \ {"run"}, Goto(h, k, from, to)
            PROVE  FALSE
        BY <1>1, <2>1, <3>1, GotoEffect
      <3>2. \/ CheckRunning(h, k) \/ FunctionReturns(h, k) \/ CheckResult(h, k)
            \/ CountFailure(h, k) \/ CheckLimit(h, k) \/ BackoffEnds(h, k)
            \/ ClearRunning(h, k) \/ Leave(h, k)
        BY <2>3, <2>5 DEF InstanceStep
      <3>3. CASE CheckRunning(h, k)
        <4>1. Goto(h, k, "loop", "enter") \/ Goto(h, k, "loop", "end")
          BY <3>3 DEF CheckRunning
        <4>2. QED
          BY <3>1, <4>1 DEF InstancePC
      <3>4. CASE CheckResult(h, k)
        <4>1. Goto(h, k, "err", "end") \/ Goto(h, k, "err", "count")
          BY <3>4 DEF CheckResult
        <4>2. QED
          BY <3>1, <4>1 DEF InstancePC
      <3>5. CASE CheckLimit(h, k)
        <4>1. Goto(h, k, "limit", "end") \/ Goto(h, k, "limit", "backoff")
          BY <3>5 DEF CheckLimit
        <4>2. QED
          BY <3>1, <4>1 DEF InstancePC
      <3>6. CASE FunctionReturns(h, k) \/ CountFailure(h, k) \/ BackoffEnds(h, k)
                 \/ ClearRunning(h, k) \/ Leave(h, k)
        BY <3>1, <3>6 DEF FunctionReturns, CountFailure, BackoffEnds, ClearRunning, Leave,
           InstancePC
      <3>7. QED
        BY <3>2, <3>3, <3>4, <3>5, <3>6
    <2>6. QED
      BY <2>4, <2>5
  <1>2. Inv /\ [Next]_vars => [Rerun]_vars
    BY <1>1 DEF Inv, Counts
  <1>3. QED
    BY <1>2, Invariance, PTL DEF Spec, RerunsWithinLimit
=============================================================================
