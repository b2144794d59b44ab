# CryptoSentinel: specifications, checks and proofs

CryptoSentinel is a chat agent for crypto market data. It hangs on a WebSocket
connection to the Teneo network, which the vendored `teneo-agent-sdk` keeps up: almost
all of the program's concurrency, failure handling and timing lives in that SDK
(`src/teneo-agent-sdk/pkg`), little of it in the agent's own code (`src/internal`). This
directory holds TLA+ specifications of the parts where order matters, the TLC
configurations that check them on small instances, and TLAPS proofs of the invariants
that hold for every instance. `PROJECT.json` lists the components, the runs, the lines
every definition stands for, the hazards, the findings and the theorems.

- [Inventory](#inventory) · [Modules](#modules) · [Runs](#runs) ·
  [Disagreements found](#disagreements-found) · [Proofs](#proofs) ·
  [Not modelled](#not-modelled) · [Plan](#plan)

To check something: `tlc -config X.cfg M` for a run, `tlapm M.tla` for a proof module.

## Inventory

`cmd/cryptosentinel/main.go` builds the clients, the alert service and the command
router, and hands the agent to the SDK's `EnhancedAgent` (`pkg/agent/runner.go`), which
owns a `NetworkClient`, a `ProtocolHandler`, a `TaskCoordinator` and a health server.

| component (source) | state it keeps | operations | talks to | what is hard | what makes it correct |
|---|---|---|---|---|---|
| circuit breaker (`network/circuit_breaker.go`) | atomic state word, three counters, time of last failure | `Call` = `CanAttempt`, fn, `RecordResult`; `Reset` | wraps every `SendMessage` | the state word is read without the lock, before and after fn, and used later under it | a half-open circuit never wedges and is left; an open one recovers |
| connection (`client.go`, `connection.go`) | `conn`, `running`, `ctx`, `reconnecting`, `attempts`, four goroutines per connection | `Connect`, `Disconnect`, `attemptReconnection`, `reconnect`, the loops | supervisor, server, the agent's health check | several reconnections overlap; goroutines of old connections live on and look at the new one; fields changed without the mutex | a working connection is served; a dead one is noticed; the flag is not orphaned; reconnection ends |
| sending (`client.go`) | `sendChan`, the writer | `SendMessage`, `sendMessageDirect`, `writeMessages` | breaker, retry queue, connection | a message changes hands four times, and the context is replaced under it | one outcome per call, no duplicates, nothing pending for ever |
| retry queue (`retry_queue.go`) | slice of entries, metrics under a lock of their own, a processor goroutine | `Enqueue`, `processReadyMessages`, `retryMessage`, `Clear`, `Start`, `Stop` | `sendMessageDirect` | a batch leaves the queue under the lock and returns without it | conservation, exact number of attempts, metrics that are off by no more than the update under way |
| task coordinator (`coordinator.go`) | rate-limiter slice, `activeTasks` by task id, one goroutine per task | `HandleIncomingTask`, `HandleUserMessage`, `ExecuteTask`, `CancelTask`, `CancelAllTasks` | protocol handler, agent's handler | ids that collide, clean-ups in any order, the window's edge | the limit is exact both ways, nothing stays listed, what is listed can be cancelled |
| goroutine supervisor (`supervisor.go`) | registered functions, restart counts, contexts | `Start`, `Stop`, `runGoroutine`, `RestartGoroutine` | started by the client | restart races with stop and with a manual restart; limits | at most one instance of a goroutine, restarts bounded |
| authentication (`protocol.go`, `auth/manager.go`) | `lastChallenge` and its signature, `authenticated` | `StartAuthentication`, the challenge, success and error handlers, `SendRegistration` | the connection, the health check, the server | two fields without a lock, written by whoever starts and by every processor; a challenge or an acceptance that arrives late or for an earlier connection | a signature is of the challenge it is sent with; authenticated only after an acceptance |
| health monitor (`health_monitor.go`) | status, consecutive errors | periodic check, `Record*` | client, senders, reconnection | the status is computed under a lock and written after it; the context is not replaced after `Stop` | a lasting condition is reported in the end |
| agent life cycle (`agent/runner.go`) | running flag, context | `NewEnhancedAgent`, `Start`, `Stop`, periodic tasks | all of the above | the health check connects and authenticates beside `Start` and the automatic reconnection | an agent whose connection lasts is authenticated again and again |
| price alerts (`internal/services/alert_service.go`) | list of alerts under a mutex | `Add`, `List`, `Remove`, `Clear`, checker | price client, chat command | the checker works on a copy without the mutex; removal by index | an alert is marked for its own condition, and is if that stays met |
| NFT minting (`nft/minter.go`, `agent/runner.go`, `agent/openai_simple.go`) | `NFT_TOKEN_ID`, the configuration, the chain's | `MintAgent`, six steps | back end, node, contract, other wallets | a failure between sending and recording; others mint meanwhile | the token an agent is made with is its wallet's |
| router and commands (`internal/commands`) | none | 27 commands, each a sequence of requests | market data clients, task context | requests that fail in their own ways half-way; a context that ends; a random generator shared by tasks | no figures without data, in no section of a reply either; every task is answered |
| market data clients (`internal/clients`) | none | one function per service and exchange | HTTP services | statuses not looked at, parse errors ignored, empty lists, requests in a row that fail one by one | a failure is never a value; rankings are the extremes |
| naming, version, health server, business cards | none | pure functions, reports | – | nothing concurrent | formatting and lookup |

Interactions that matter for the specifications: `SendMessage` runs
`sendMessageDirect` inside the breaker and queues what fails; the queue's processor runs
`sendMessageDirect` again, outside the breaker; the writer takes from the same channel;
`reconnect()` replaces the connection and the context all of them look at; the agent's
health check calls `Connect` and authentication on its own clock; incoming messages go
through one processor goroutine to the coordinator's handlers.

## Modules

| module | models | checked by | proofs |
|---|---|---|---|
| `CircuitBreaker` | `circuit_breaker.go` | `breaker`, `breaker_probes` | `CircuitBreakerProofs` |
| `NetworkClient` | connection and reconnection in `client.go`, with `connection.go` and what the client sees of the supervisor and of `performHealthCheck` | `client`, `client_gives_up`, `client_health_check`, `client_disconnect` | `NetworkClientProofs` |
| `RetryQueue` | `retry_queue.go` | `delivery` | `RetryQueueProofs` |
| `MessageDelivery` | `SendMessage`, `sendMessageDirect`, `writeMessages`; composes `CircuitBreaker` (`INSTANCE`, one caller per message) and `RetryQueue` (`EXTENDS`) | `delivery` | `MessageDeliveryProofs` |
| `DeliveryContract` | the abstract promise of one `SendMessage` call | refined by `MessageDelivery` in `delivery` | `MessageDeliveryProofs` |
| `Supervisor` | `supervisor.go` | `supervisor` | `SupervisorProofs` |
| `TaskCoordinator` | `coordinator.go` | `coordinator`, `coordinator_cancel_all` | `TaskCoordinatorProofs` |
| `Authentication` | `protocol.go`, and what `client.go` does to the flag, the channels and the processors | `agent` | `AgentProofs` |
| `HealthMonitor` | `health_monitor.go` | `agent` | `AgentProofs` |
| `Minter` | `nft/minter.go`, `NewEnhancedAgent`, `NewSimpleOpenAIAgent` | `agent` | `AgentProofs` |
| `Agent` | `agent/runner.go`; composes the three above (`EXTENDS`) | `agent`, with `MCAgent` | `AgentProofs` |
| `MarketData` | `internal/clients`: what each function returns for each kind of answer, and the rankings | `application` | `ApplicationProofs` |
| `Indicators` | the mood, trend, volatility and index note of the analytic commands | `application` | `ApplicationProofs` |
| `Commands` | `internal/commands` and the router: the requests of every command as data | `application` | `ApplicationProofs` |
| `AlertService` | `services/alert_service.go` | `application` | `ApplicationProofs` |
| `Application` | tasks that execute commands beside the alert checker; composes the four above (`EXTENDS`) | `application`, with `MCApplication` | `ApplicationProofs` |

An operator named in a comment as *Mutant* stands before the definition it falsifies and
is used by no specification: it is the bug the property is there to catch.

**CircuitBreaker.** A goroutine's way through `Call` is `pc`: the load of the state word
(`LoadState`), the timeout check under the read lock, the transition or the claim of a
slot under the write lock, fn (`calling` or `probing`, by the branch that admitted it),
the second load when fn returns (`FinishCall`, whose value is `seen`), and the record
under the lock. `lastFailTime` is the Boolean `cooled`. `failures` counts to
`MaxFailures` and no further: the code only compares it with that limit, and every branch
that compares it behaves alike above it.

**NetworkClient.** Connections are numbered, 0 is nil. `worker[k][g]` is the goroutine
of kind `k` started for connection `g`; it uses whatever `conn` holds when it looks,
which is how the code behaves, since the loops read the fields without the mutex. An
action is a stretch between two points where a goroutine can wait or be overtaken, so
`attemptReconnection` has eight program points. `Connect` checks `running` and dials
(`BeginConnect`) before it installs what it got (`ConnectSucceeds`, `ConnectFails`);
`connecting` says that it holds the mutex meanwhile, which keeps out whoever locks it
(`CountAttempt`, the pinger's look, `BeginDisconnect`) but not `reconnect()`, which
changes the same fields without it. Reader and writer read `c.conn` again for the call on
it (`LookAgain`, from `seen`); if it has become nil by then they panic, recover, and end
without asking for a reconnection. The writer's loop has the same shape as
the pinger's and starts reconnection the same way; the instance has the reader and the
pinger. The message processor and the `authenticated` flag are left out.

**RetryQueue.** Slices are sets; entries become due one by one; `enqueued`,
`delivered`, `exhausted` and `cleared` are history the code does not keep, against which
its counters are compared. The slice is changed under `q.mu` and the counters under the
metrics' own lock, and `GetMetrics` takes only the latter: so every change of the slice is
one step, which takes `q.mu` (`mu` says who has it), and the update of the size another,
which releases it (`SizeCounted`). What an attempt comes to is counted without `q.mu`,
one update at a time (`CountSuccess`, `CountAttempt`, `Drop`), before the entry is queued
again (`Requeue`).

**MessageDelivery.** A message stands for the one `SendMessage` call that sends it. The
select of `sendMessageDirect` is a set of blocked messages (`selecting`), those whose
context has been cancelled meanwhile being `interrupted`; between a failed send and the
end of `Enqueue` a call is at `failed` and then `queueing`; the connection is `up`, `dead`
(unnoticed) or `down`. The runs begin with a client that has connected, its queue
started, its breaker new or left open by an outage before.

**Supervisor.** `inst[g][n]` is the instance of `runGoroutine` that the `n`-th start of
`g` began, with the context its function was called with; `ctx[g]` is the field `sg.ctx`,
which the next start overwrites and every instance looks at. Each statement of
`runGoroutine` after which another goroutine may matter is an action, the two deferred
ones included; `restartCount` is incremented and reset without synchronization, so a reset
may be lost to an increment under way (`ResetCount`). The user's calls (`Start`, `Stop`,
`RestartGoroutine`) are cut where they wait or touch the next goroutine, and run one at a
time. That is an assumption: the client calls `Start` under its mutex but `Stop` after
unlocking it (`client.go:166`, `:169`), so the `Connect` of a last health check may start
what `Disconnect` is stopping; `Authentication` has that overlap. A function returns nil
or an error whenever it likes, or never.

**TaskCoordinator.** The two handlers run one after the other in the processor
goroutine, so each is one action; a task is then `spawned`, `running` (it has listed
itself), `responded`, `done`. Ids are given by the sender, and may repeat, or made from
the clock, whose unit in the code is the second.

**Authentication.** The connection is that of `NetworkClient` seen from outside: it is up
(`conn`, which is also `running`), its link may break, it is torn down, dialed again or
given up. `reconnect()` installs a connection and clears the flag afterwards, without a
lock (`Redial`, then `StartServing`, with `redialing` between them); `Disconnect` clears
`conn` and cancels the context only after it has waited for the supervisor
(`BeginDisconnect`, `EndDisconnect`, with `disconnecting` between them). `sendChan` and
`receiveChan` are the client's; a message's handler is cut at every access to a shared
field, so a processor of messages is at `sign` between storing a challenge and storing its
signature, and at `read` and `register` around the two reads of `SendRegistration`. Taking
a message and the first statement of its handler are one step, and so are a handler's last
access and its send. Old processors live on after a reconnection, as in the code, until
they see their context cancelled; a `select` may still take a message then.
`StartAuthentication` is two steps (`starter`), since the fields it clears are read
meanwhile. A challenge is the connection it was issued on and a number, taken again only
when nobody holds it; a signature is the challenge it was made from. The server (`Server`)
issues, accepts, refuses, sends a message without a challenge (`Empty`) or with an empty
one (`Blank`, which the handler signs like any other), or does not answer. `late` is
history: an acceptance was still unprocessed when the current connection was installed.
The code then takes it for an acceptance of the new one.

**HealthMonitor.** The check computes the new status under the lock (`PerformHealthCheck`)
and writes it after (`UpdateStatus`); `errors` is counted no further than the last
threshold. Every connection, `reconnect()`'s included, resets it
(`RecordConnectionEstablished`), so an agent whose link keeps being restored before the
third failing check stays healthy for ever, authenticated or not. **Minter.** A token is
its position in the contract's sequence. `launch` is where `NewEnhancedAgent` or
`MintAgent` is; every step may fail, a failed launch starts over, and sending may fail
although the node has taken the transaction. **Agent.** `main` is the goroutine that calls
`Start` and `Stop` (which is three steps: the agent's context, `BeginDisconnect`, and the
end of `Disconnect`), `loop` that of `startPeriodicTasks`. All state of the parts changes
through their operators, which is what `AgentAuthenticates` proves.

**Application.** A command is data: what it may refuse, the key it needs, and its plans,
each a sequence of requests with the outcome of every kind of answer (`next`, `text`,
`error`). `Execute` interprets it, one action per request; four commands have a reply of
sections, one for each exchange or token, whose failures do not end the command: such a
section is one action (`AskExchange`, `AskToken`), and `shown` has what it asked, what was
answered, and whether it says figures, that there is nothing, an error, or
(`gainers_compare`) only a heading (`Says`). Answers are `ok`, `empty`, `garbled`,
`refused`, `down`; once the task's 30 seconds are over every request is `down`.
**MarketData** has the deviations of each service (a status nobody looks at, an error
object that is no array, an unparsable number taken for 0), and rankings as the sets of
lists `sort.Slice` may return. An exchange's answers are a function of the parts it is
asked for: one for all, and for Coinbase one for each pair, each of which may fail and be
left out by itself (`Parts`, `Good`). **Indicators** has the bullish and the bearish
bounds of `sentiment` separately, as the code has them. **AlertService** keeps an alert's
identity as the number of its `Add`, so that the checker's copied pointers and the user's
indices can be told apart.

## Runs

States are distinct states of a complete search.

| run | instance | states | shows |
|---|---|---|---|
| `breaker` | 3 goroutines, 2 failures to open, 1 half-open request | 26 thousand | types; `HalfOpenNotStuck`: a half-open circuit has an undecided call or a free slot; `HalfOpenResolves`, `OpenRecovers`: it is left, and an open circuit is left as long as somebody sends |
| `breaker_probes` | same | – | violated: `HalfOpenLimit` |
| `client` | reader and pinger, 3 overlapping reconnections, 2 attempts, 2 connections | 410 thousand | types; `FlagHeld`; `ReconnectionServes`: a working connection has a reader, however old and new goroutines overlap; `DeadLinkNoticed`; `Settles` |
| `client_gives_up`, `client_health_check`, `client_disconnect` | same | – | violated: `RecoversOrGivesUp`, `ConnectedIsServed`, `StaysDisconnected` |
| `delivery` | 2 messages, 2 retries, channel of 1, 1 failure to open, 1 loss of the link | 585 thousand | types; `AtMostOnce`; `Conserved`; `AttemptsExact`; `MetricsAgree`: what `GetMetrics` reads is off by no more than the update under way, the size being exact whenever `q.mu` is free; `KeepsContract`: every behaviour is one of `DeliveryContract`; `EverySendSettles` |
| `supervisor` | 2 goroutines, one of which heeds its context, 1 restart, 2 starts of each | 1.4 million | types, with the bound on `restartCount`; `OneInstance`; `Reachable`: what runs can be cancelled; `StatusTrue`; `RerunsWithinLimit`; `StopEnds` |
| `coordinator` | 3 messages, limit 1, window 2, clock to 4 | 203 thousand | types; `RateRespected` and `RejectsOnlyWhenFull`: the limiter is exact in both directions; `ListedIsExecuting`; `UniqueIsListed` |
| `coordinator_cancel_all` | limit 2, clock to 3 | – | violated: `CancelAllReaches` |
| `agent` | 2 processors, 2 connections, 2 challenges, 3 tokens, 2 tries, the thresholds of the code, eight scenarios | 210 thousand | `SignaturesMatch`: no answer pairs a challenge with another's signature, whatever clears or overwrites the fields; `AuthenticatedBacked`: the flag is set only if the server has accepted on this connection, or an earlier connection's acceptance was under way when it was installed; `TokenIsOurs`; `AuthenticatesAgain`; `StatusFollows`: once no more connections are made, a lasting condition is reported in the end |
| `application` | 2 tasks, all 27 commands, 2 symbols, prices to 3, 2 alerts, four menus | 87 thousand | types; `AnswersRestOnData`: in a reply without sections, no figures after a request that failed; `SectionsRestOnData`: no section has figures after a failure, or calls an exchange empty that has failed, but for the exceptions below; `RankingsRight`; `IndicatorsRight`; `TriggeredWasReached`; `TasksEnd`; `AlertsSettle` |

### Bounds, and why they are enough

- *Goroutines in the breaker.* Three: one whose stale result arrives, one that moves the
  circuit meanwhile, one that probes. Two failures to open distinguish "a failure" from
  "the last failure".
- *Reconnections.* `Reconnectors` are slots. Two chains of attempts already overlap after
  one early clearing of the flag; the third slot lets a chain hand over to its successor
  while another runs. Two connections (`MaxDials`) are the old one and the new one; two
  attempts are one that fails with another left and one that fails with none left.
- *Messages.* Two: one in the channel of capacity 1, which is therefore full, and one
  that meets it full. Two retries tell the last from one before. One loss of the link is
  no real restriction, because the link may stay down arbitrarily long and so fail any
  number of sends.
- *The supervisor.* Goroutines do not interact except through the supervisor's flag and
  context; two are one that heeds its context and one that does not, in one `Start`. One
  restart has a failure with and one without a restart left; two starts are an instance
  that ends and the one that follows it.
- *The coordinator's clock.* A window of two ticks in a clock that reaches 4 has a stamp
  inside, at the edge of and outside the window; with limit 1 and three messages one is
  accepted, one rejected, and one accepted after the first has left the window.
- *The agent.* A scenario is what one behaviour sees, chosen at the start: the minting; a
  connection that is lost and replaced; two overlapping round trips on one connection; the
  health monitor, on two connections, the second of which resets its count; pings; `Stop`,
  with round trips, with a health check that connects while it disconnects, and with a
  server that is asked and issues no challenge. Two challenges held at a time are what a
  mix-up needs; at most `rounds` round trips overlap, since health checks are 30 seconds
  apart; two tries stand for the code's three, a failure with and one without a try left.
  `sendChan` (100 messages) is never full, and the retry queue's resend is one more delay
  of a message and left out: both are in `MessageDelivery`. The last connection of a
  scenario lasts, unless the monitor watches; three tokens are ours, another's, and one of
  a launch that failed.
- *The application.* Two tasks run beside each other for the commands that share
  something (the random generator of `dexmeme`) and for one of each shape; tasks
  otherwise share nothing, so the other menus have one: all other commands, those that
  read figures (on listings with ties, zeros and unparsable tickers, and at both sides of
  every threshold), and the alert commands beside the checker, whose two alerts are the
  one it asks for and one that is added, removed or cleared meanwhile.
- The theorems below hold without these bounds.

### Fairness, and what justifies it

Weak fairness is used throughout, and only for steps the Go scheduler, a timer or a
deadline brings about.

- `CircuitBreaker`: a goroutine inside `Call` runs on (fn, a send, gives up after five
  seconds) and time passes. Nobody has to start a call: `OpenRecovers` assumes in its own
  formula that somebody does. `Reset` is never forced.
- `NetworkClient`: a use of a dead connection fails (the reader's sixty second deadline),
  whoever failed goes on to the compare-and-swap, the reader loops, the ping ticker ticks,
  and `attemptReconnection` proceeds; that a dial ends, in either way, is its own timeout,
  for `Connect`'s dial too. `CountAttempt` needs strong fairness, since `Connect` holds the
  mutex it locks again and again (Go's mutex lets no waiter starve).
  Nothing makes a dial succeed, the link fail, a message arrive or the application call.
- `TickerFar` is the one timing assumption: a pinger's first tick comes 25 seconds after
  its start, so none falls between the last two statements of the
  `attemptReconnection` that started it. Without it that tick's trigger could be swallowed
  by the flag that is about to be cleared.
- `MessageDelivery`: senders inside a call, the queue's processor, its entries' timers, a
  `Clear` under way and the writer proceed. `EverySendSettles` assumes in its formula that
  the link keeps coming back and that the queue is started and was not stopped.

- `Supervisor`: instances run on, delays pass, and a function that heeds its context
  returns once it is cancelled, which is what `Stop` relies on. No other function has to
  return (none of the client's looks at the context it is given), and nobody has to use
  the supervisor; `StopEnds` speaks only of functions that heed.

- `Agent`: processors, the starter, the periodic tasks, the monitor and reconnection run
  on (sends, dials and the waits in `Start` and in `Disconnect` have timeouts). Strong
  fairness for three things outside the client: the server issues a challenge and accepts
  a signature again and again if it is asked again and again, and the breaker lets a
  request through. `AuthenticatesAgain` assumes in its formula that the connection lasts
  and is served.
- `Application`: a task runs on, since every client has a timeout, and the checker's
  ticker ticks. `AlertsSettle` needs strong fairness for the answers to one alert's
  requests (for symbols in `Answering`); nothing is assumed of the other symbol, whose
  requests may fail for ever.

Deadlock is checked in the breaker runs. The others end: connections, messages or clock
ticks run out by their bounds, a client may have been disconnected for good, the agent
is stopped, or the program dies of the shared random generator (`Shuffle`).

## Disagreements found

Each is a run TLC ends with a counterexample, listed under `findings` with the quoted
lines.

1. `HalfOpenLimit`: the goroutine that makes the circuit half-open takes no slot
   (`circuit_breaker.go:93-96`), so two requests run although the constructor's comment
   allows one. Harmless otherwise: `HalfOpenNotStuck` and `HalfOpenResolves` hold.
2. `RecoversOrGivesUp`: the flag is cleared before the next attempt is started
   (`client.go:415`). Two chains of attempts can run at once, the later one tears down
   what the earlier has established, finds no attempts left and gives up; the earlier one
   resets the counter. The client is down with attempts left.
3. `ConnectedIsServed`: after the reconnection has given up, the health check's `Connect`
   installs a connection and then fails, because the supervisor still runs
   (`client.go:141-143`). `IsConnected` is true and nobody reads.
4. `StaysDisconnected`: `Disconnect` closes the connection under its own reader, whose
   read error starts a reconnection (`client.go:178-182`, `:301`).
5. `CancelAllReaches`: task ids made from whole seconds, or repeated by the sender,
   collide; the later execution replaces the earlier in `activeTasks`, which
   `CancelAllTasks` then misses (`coordinator.go:152`, `:185`, `:221`).

## Proofs

Proved by TLAPS for every value of the constants that the named assumptions allow
(`BreakerAssumption`, `ClientAssumption`, `QueueAssumption`, `DeliveryAssumption`,
`SupervisorAssumption`, `CoordinatorAssumption`, `AuthenticationAssumption`,
`MonitorAssumption`, `MinterAssumption`, `AgentAssumption`, `AlertAssumption`,
`ApplicationAssumption`: finite sets of goroutines, messages or listed tokens, limits in
`Nat`, positive where the code sets them so, `Kinds` with the reader that every connection
gets, figures that are numbers). All safety properties of the passing runs are theorems
here, in the systems the runs explore.

- **Circuit breaker.** `HalfOpenNotStuck` is not inductive: that every slot is taken and
  somebody is undecided says nothing about the state after that somebody has finished. Its
  strengthening, `SlotsAccounted`, counts: the slots handed out are at most the undecided
  calls and the successes counted. Each step moves one call and at most one slot, so the
  proof is about cardinalities of `Undecided` before and after (`UndecidedJoins`,
  `UndecidedLeaves`); with no undecided call and `successCount < HalfOpenRequests` (the
  type invariant) a slot is free. `SlotsAccounted` stands in the proof module
  (`SlotAccounting`). Theorems `Typing`, `NeverStuck`.
- **Connection.** `FlagHeld` is inductive beside the types: only `Trigger` sets the flag,
  together with a new `attemptReconnection`, and every path of that function that ends
  clears it. `ReconnectionServes` is not: that *some* reader is at its loop head says
  nothing about the next step. `ServedInv` follows the reader started for the installed
  connection itself: while nobody but the reconnection replaces connections it is on duty
  (`OnDuty`) as long as the connection works, the context it looks at is live, and the
  first `Connect` finds no supervised goroutine in its way; nothing has to be said of the
  other goroutines, nor of how reconnections overlap. It holds in the middle of
  reconnections too, more than the property asks. `AttemptsOverrun` says how far
  `attempts` may pass `maxAttempts`: whoever has been let through and has not counted yet
  is one attempt more to come (`ToCome`). The theorems are for any number of overlapping
  reconnections, which is what a run with three slots cannot show. Theorems `Typing`,
  `FlagNeverOrphaned`, `ReconnectionKeepsReader`, `AttemptsOverrun`.
- **Retry queue.** Types, `Conserved` and `AttemptsExact` need one another: a count stays
  in its type because a waiting entry has attempts left, which is kept because an entry is
  in one place only; `Held` adds where the processor is when it holds
  entries. `QueueInv` is their conjunction. `MetricsAgree` is inductive beside it, by
  counting: who holds `q.mu` says which length is
  still to be written, where the processor is says which outcome is still to be counted
  (`MetricsNext`). Theorems `QueueTyping`, `NothingLost`, `AttemptsCounted`,
  `MetricsExact`.
- **Sending.** Every step of `MessageDelivery` is a step of `RetryQueue` or leaves it
  alone (`QueueStep`), so `QueueInv` holds in the composition, which is the system the
  `delivery` run explores; and likewise of the breaker inside it (`BreakerStep`), although
  it may start open: `BreakerNeverStuckInClient`. About the whole there is one invariant,
  `Placed`: how far a call is says where its message can be (`CallPlaced`), and the places
  are apart (`PlacesApart`; a message is in `sendChan` once, hence the lemmas on sequences
  without repetition). `AtMostOnce` follows, since the queue tries a message again only
  while nobody has taken it. So does the refinement `KeepsContract`, one lemma per group
  of actions: a step that changes no message's status is a stutter (`Invisible`), and each
  other one is an action of `DeliveryContract` (`AskingKeeps`, `AnswerKeeps`, `WriteKeeps`,
  `GivingUpKeeps`). Theorems `ConservedInClient`, `AttemptsInClient`, `MetricsInClient`,
  `BreakerNeverStuckInClient`, `DeliveryTyping`, `NeverTwice`, `ContractKept`.
- **Supervisor.** None of the properties is inductive; all rest on `Newest` and `Marked`:
  an instance that is alive is the newest of its goroutine, and there is one exactly while
  the goroutine is marked as running. `startGoroutine` keeps it because it checks the mark,
  the end of an instance because only the newest one clears it. `Contexts` (a function runs
  with its own instance's context, and `Stop` reached them all) and `Counts` (every start
  can exceed the limit once, at its end) follow the instances; `Inv` is the conjunction.
  `MoveInv` treats all steps inside the loop at once. Theorems `TypeCorrect`,
  `NoSecondInstance`, `EveryFunctionReachable`, `StatusIsTrue`, `RerunsLimited`.
- **Coordinator.** The limiter's strengthening is `StampsExact`: the slice holds only
  accepted messages and every accepted message younger than the window. `RateRespected`
  is about all minutes, not only the one that ends now; the step that matters is `Accept`,
  where the minutes that contain the new message are compared with `Fresh`.
  `RejectsOnlyWhenFull` is an action property from the same invariant. `ListedIsExecuting`
  and `UniqueIsListed` are inductive beside the types and the ids of accepted messages.
  Theorems `Typing`, `Stamps`, `RateLimited`, `RejectsExactly`, `NothingStaysListed`,
  `UniqueTaskIsFound`.

- **Authentication and agent.** `AuthTyping` first: the messages in both channels and the
  states of all processors are of their types. `AuthenticatedBacked` is inductive once it
  speaks of the acceptances still to be processed as well (`Backed`): the server's
  acceptance sets `session`, an old one found at the installation of a connection sets
  `late`: `AuthenticationBacked`. `SignaturesMatch` about answers rests on `Signed` (what
  a processor is about to sign is a challenge, and what is sent is signed by its own);
  about registrations, on `FirstConnection`: on the first connection there is one
  processor (`OneProcessor`), and the two fields fit each other whenever it is not between
  writing them, at most one of them being cleared (`FieldsFit`). `AuthSpec` lets any user
  call the operations at any time; `AgentAuthenticates` shows that the agent is one such
  user, so `AgentBacked` and `AgentSignaturesRight` follow. `AgentTokenOurs` is by
  `TokenInv`: the environment, the configuration and the receipt hold tokens of ours or
  none. `AgentTyping` adds the types of the rest; every step is one of the monitor's
  (`MonitorNext`), whose thresholds leave no count without a status.
- **Alerts and application.** `TriggeredWasReached` is not inductive: at the moment of
  marking, the price may have moved on. The invariant adds that the alert the checker is
  about to mark is in `reached`, which the comparison (`Market`) establishes because
  `Meets` agrees with the code's switch, and which nothing takes back. As with the agent,
  `ApplicationUsesAlerts` shows that every step of the composition is one of the service
  (`AlertsRight`) or leaves it alone, and `MarkedWasReached` carries the invariant over.
- **Commands.** `AnswersRestOnData` relates the answer of a task to all it has heard. Each
  of the 27 commands has a shape (`HandleFits`): its requests go on only with data, except
  in the four commands with sections, and every plan is of the kind its command
  needs. The invariant `TasksInv` says where a task is in its plan and that what it has
  heard so far could be answered on (`Grounds`). `SectionsRestOnData` is about one section
  and the answers to its own requests, by the exchange that was asked (`FetchedFits`,
  `ExchangeShows`, `TokenShows`). Theorems `AnswersGrounded`, `SectionsGrounded`,
  `ApplicationTyping`.
- **Figures.** A ranking `Ranked` may return is sorted and leaves out nothing more
  extreme, and what it ranks is what the answers contained (`RankedOf`, `FetchedFits`,
  `ExchangeShows`). Mood and index note are arithmetic (`MoodSymmetric`, which says that
  the bearish bounds, written out separately, mirror the bullish ones; `MoodMonotone`,
  that no bound is out of order; `NoteFits`), volatility needs the least and the greatest
  of a sequence (`Greatest`, `ClassOfSpread`). The trend compares averages over windows of
  any length, whose sums are folds. The library's induction theorems cannot be used here,
  since they take operators as parameters; but `Induction` follows, in a form about sets,
  from the fact that the subsets of a finite set are well-founded (`Smallest`,
  `LeastNatural`), and the same fact yields that the fold is defined everywhere and does
  not depend on the order (`SumsDefined`, `SumsAnyOrder`). Then the sum of the last k+1
  prices is that of the last k and one price more (`TrailingStep`), an average is between
  the least and the greatest (`Averages`), and monotone prices have ordered averages
  (`MonotoneAverages`). `ShownInv` carries all of this to what the tasks show. Theorems
  `ExtremesShown`, `IndicatorsFit`, `MonotoneTrend`, `MoodSymmetric`, `MoodMonotone`,
  `NoteFits`.

Only model-checked: the liveness properties (`HalfOpenResolves`, `OpenRecovers`,
`DeadLinkNoticed`, `Settles`, `EverySendSettles`, `StopEnds`, `AuthenticatesAgain`,
`StatusFollows`, `TasksEnd`, `AlertsSettle`), since fairness is about `ENABLED`, which is
beyond the prover. The runs that end in a counterexample are about the code as it is and
have no theorem.

## Not modelled

- Components with status `not_modelled` in `PROJECT.json`: generated contract bindings and
  the assembly of business cards (no state), the health server (reports what others
  keep), naming and version (pure functions on strings, with tables of tests), and of the
  legacy and OpenAI agents what is not minting. `examples/` is no part of the program.
- Message contents, wording, logging; cryptography (a signature is that of the challenge
  it equals); HTTP and JSON decoding beyond the five kinds of answers.
- The agent's registered token: `NewEnhancedAgent` hands the protocol handler
  `config.Config.NFTTokenID` (`runner.go:189`), not the token just minted.
- In the agent, `conn` and `running` are one. A `reconnect()` whose connection `Disconnect`
  sets to nil before its goroutines are started panics and ends the process; that step is
  disabled (`StartServing`). A late acceptance of the previous connection is taken for the
  new one's, so an agent may believe for ever that it is authenticated: `late` makes this
  visible and `AuthenticatedBacked` excepts it, and `AuthenticatesAgain` is about what the
  agent believes.
- In the application, figures that are copied from an answer to the reply; the averages
  `gainers_compare` makes of the lists it has; paging; which
  of several matches a name resolves to; the health of the checker after its context ends,
  which is that of `main`.
- The type assertion `content.(string)` on a task's content (`coordinator.go:70`), which
  panics for data of another type: the models abstract from message data.
- `reconnect()` reads `c.conn` twice without the lock (`client.go:427-430`); a
  `Disconnect` between the two would make it call `Close` on nil. The two reads are one
  step here.
- What the code does and no property forbids, since no document promises otherwise: a
  refusal of OKX or KuCoin becomes an empty list and in `gainers_compare` a bare heading;
  the pairs Coinbase does not answer are left out without a word; KuCoin's gainers rank an
  unparsable change as zero, and `feargreed` explains an unparsable index as 0
  (`SectionsRestOnData`, `RankingsRight` and `IndicatorsRight` except exactly these); an
  error of `SendMessage` for a message that is queued and may still be sent; a task that
  starts after `CancelAllTasks` because it was not listed yet; an alert removed by an index
  that has changed since it was shown; the shared random generator's panic, which
  `TasksEnd` excepts.
- The socket an overlapping dial overwrites without closing it.
- The delays themselves (backoff, jitter): only which comes first, where that matters.
- Concurrent callers of the supervisor: two that start the same goroutine at once could
  both pass the check in `startGoroutine`. The client's only starts are `Connect`'s, under
  its mutex; its `Stop` is not (see above).
- `RestartGoroutine` of a function that does not heed its context starts nothing, and the
  old instance ends at its next error. The model has this behaviour; no property forbids
  it, since nothing in the program calls `RestartGoroutine`.
- Two statements one might expect do not hold and are promised nowhere: that at most one
  `attemptReconnection` runs, and that `attempts` never exceeds `maxAttempts` (two
  overlapping ones check before either counts; `AttemptsOverrun` gives the bound that does
  hold).

## Plan

Done: the network client, its parts and their composition; the coordinator and the
supervisor; the agent; the application. In order of weight, what is left:

1. The composition of `Supervisor` with `NetworkClient`, whose `Disconnect` waits for
   goroutines the supervisor's contexts do not reach, and the two reads of `c.conn` in
   `reconnect()` as two steps.
2. Proofs: what the liveness properties rest on, as safety: from which states a helpful
   step is possible, and that no step of another goroutine undoes it.
3. Pure functions as operators: backoff with its cap, agent-id and version rules.
