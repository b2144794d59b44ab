-------------------------------- MODULE Agent --------------------------------
(***************************************************************************)
(* The life of an EnhancedAgent (pkg/agent/runner.go): it is made, with or *)
(* without minting its token; Start connects and begins the                *)
(* authentication; the goroutine of startPeriodicTasks pings, connects and *)
(* authenticates again; Stop ends it.  Beside it run the goroutines of the *)
(* network client and its health monitor.                                  *)
(***************************************************************************)
EXTENDS Authentication, HealthMonitor, Minter

CONSTANTS
  Scenarios,   \* what of the program a behaviour is long enough to see: one is
               \* chosen at the start
  Tries        \* connectRetries and authRetries

Scenario == [mint : BOOLEAN, monitor : BOOLEAN, ping : BOOLEAN, stop : BOOLEAN,
             conns : 0..MaxConns, challenges : SUBSET (1..MaxChallenges), rounds : Nat]

ASSUME AgentAssumption == Scenarios \subseteq Scenario /\ Tries \in Nat \ {0}

VARIABLES
  scenario,
  main,       \* the goroutine that calls Start and Stop; a.running in "connect",
              \* "authenticate" and "up"
  tries,      \* attempts Start has made
  loop,       \* startPeriodicTasks
  cancelled   \* a.ctx

agentVars == <<scenario, main, tries, loop, cancelled>>
vars == <<agentVars, authVars, healthVars, mintVars>>

TypeOK ==
  /\ scenario \in Scenarios
  /\ main \in {"made", "connect", "authenticate", "up", "stopping", "disconnecting", "stopped"}
  /\ tries \in 0..(Tries - 1)
  /\ loop \in {"off", "select", "connection", "starting"}
  /\ cancelled \in BOOLEAN
  /\ AuthTypeOK /\ HealthTypeOK /\ MinterTypeOK

Init ==
  /\ scenario \in Scenarios
  /\ main = "made" /\ tries = 0 /\ loop = "off" /\ cancelled = FALSE
  /\ AuthInit /\ HealthInit
  /\ IF scenario.mint THEN MinterInit
     ELSE owners = <<"us">> /\ env = 1 /\ tokenID = 1 /\ launch = "made" /\ mined = 0

-----------------------------------------------------------------------------
\* A message that could not be sent is recorded by the monitor.
Recorded(failed) ==
  /\ IF failed THEN RecordMessageFailed ELSE UNCHANGED errors
  /\ UNCHANGED <<status, newStatus, monitor>>

\* NewEnhancedAgent.
Make == /\ scenario.mint
        /\ MinterNext
        /\ UNCHANGED <<agentVars, authVars, healthVars>>

Start ==
  /\ main = "made" /\ launch = "made"
  /\ main' = "connect" /\ tries' = 0
  /\ UNCHANGED <<scenario, loop, cancelled, authVars, healthVars, mintVars>>

\* Connect, with what it starts; a Connect that finds the supervisor running
\* returns before it reaches the monitor.
ConnectClient ==
  /\ dialed < scenario.conns
  /\ Connect
  /\ IF dialed = 0 \/ ctxDone \/ served'
     THEN StartMonitor /\ RecordConnectionEstablished /\ UNCHANGED <<status, newStatus>>
     ELSE UNCHANGED healthVars

StartConnects ==
  /\ main = "connect"
  /\ ConnectClient
  /\ main' = "authenticate" /\ tries' = 0 /\ StartAuthentication
  /\ UNCHANGED <<scenario, loop, cancelled, mintVars>>

\* The last failure is Start's: it may be called again.
StartFailsToConnect ==
  /\ main = "connect"
  /\ IF tries + 1 < Tries THEN tries' = tries + 1 /\ UNCHANGED main
                          ELSE tries' = 0 /\ main' = "made"
  /\ UNCHANGED <<scenario, loop, cancelled, authVars, healthVars, mintVars>>

(* StartAuthentication, for Start and for the health check. *)
Starter ==
  /\ ClearChallenge
  /\ UNCHANGED <<agentVars, healthVars, mintVars>>

StarterRequests ==
  /\ \E failed \in BOOLEAN : RequestChallenge(failed) /\ Recorded(failed)
  /\ IF main = "authenticate"
     THEN /\ main' = "up" /\ loop' = "select" /\ tries' = 0
     ELSE /\ loop' = "select" /\ UNCHANGED <<main, tries>>
  /\ UNCHANGED <<scenario, cancelled, mintVars>>

\* Start tries again; when the last try fails it leaves it to the health check.
StartTriesAgain ==
  /\ main = "authenticate" /\ tries + 1 < Tries
  /\ \E failed \in BOOLEAN : RequestAgain(failed) /\ Recorded(failed)
  /\ tries' = tries + 1
  /\ UNCHANGED <<scenario, main, loop, cancelled, mintVars>>

-----------------------------------------------------------------------------
(* startPeriodicTasks.  Its select may pick a tick when a.ctx is cancelled.  *)
Ping ==
  /\ loop = "select" /\ scenario.ping
  /\ \E failed \in BOOLEAN : SendPing(failed) /\ Recorded(failed)
  /\ UNCHANGED <<agentVars, mintVars>>

\* Mutant: not while there is a challenge from an authentication begun before.
NeedsAuthenticationNoChallenge ==
  conn # 0 /\ ~authenticated /\ lastChallenge = Empty /\ UnderWay < scenario.rounds

\* Health checks are half a minute apart, far more than a round trip takes: but
\* scenario.rounds of these overlap.
NeedsAuthentication == conn # 0 /\ ~authenticated /\ UnderWay < scenario.rounds

\* performHealthCheck, unless it finds the client not connected.
HealthCheck ==
  /\ loop = "select" /\ NeedsAuthentication
  /\ loop' = "starting" /\ StartAuthentication
  /\ UNCHANGED <<scenario, main, tries, cancelled, connVars, authenticated, stored, chans,
                 processor, healthVars, mintVars>>

HealthCheckConnects ==
  /\ loop = "select" /\ conn = 0
  /\ loop' = "connection"
  /\ UNCHANGED <<scenario, main, tries, cancelled, authVars, healthVars, mintVars>>

CheckConnects ==
  /\ loop = "connection"
  /\ ConnectClient
  /\ IF UnderWay < scenario.rounds
     THEN loop' = "starting" /\ StartAuthentication
     ELSE loop' = "select" /\ UNCHANGED starter
  /\ UNCHANGED <<scenario, main, tries, cancelled, mintVars>>

\* The dial fails, or the client is running again.
CheckFailsToConnect ==
  /\ loop = "connection"
  /\ IF NeedsAuthentication
     THEN loop' = "starting" /\ StartAuthentication
     ELSE loop' = "select" /\ UNCHANGED starter
  /\ UNCHANGED <<scenario, main, tries, cancelled, connVars, authenticated, stored, chans,
                 processor, healthVars, mintVars>>

EndLoop ==
  /\ loop = "select" /\ cancelled
  /\ loop' = "off"
  /\ UNCHANGED <<scenario, main, tries, cancelled, authVars, healthVars, mintVars>>

PeriodicTasks ==
  HealthCheck \/ HealthCheckConnects \/ CheckConnects \/ CheckFailsToConnect \/ EndLoop

-----------------------------------------------------------------------------
(* Stop. *)
Stop ==
  /\ main = "up" /\ scenario.stop
  /\ main' = "stopping" /\ cancelled' = TRUE
  /\ UNCHANGED <<scenario, tries, loop, authVars, healthVars, mintVars>>

StopDisconnects ==
  /\ main = "stopping"
  /\ main' = IF conn = 0 THEN "stopped" ELSE "disconnecting"
  /\ BeginDisconnect
  /\ UNCHANGED <<scenario, tries, loop, cancelled, healthVars, mintVars>>

Stopped ==
  /\ main = "disconnecting" /\ main' = "stopped"
  /\ EndDisconnect
  /\ StopMonitor /\ UNCHANGED errors
  /\ UNCHANGED <<scenario, tries, loop, cancelled, mintVars>>

-----------------------------------------------------------------------------
(* The goroutines of the client. *)
Processor(p) ==
  /\ \E failed \in BOOLEAN : Process(p, failed) /\ Recorded(failed)
  /\ UNCHANGED <<agentVars, mintVars>>

ServerStep == Server(scenario.challenges) /\ UNCHANGED <<agentVars, healthVars, mintVars>>

\* attemptReconnection; a success resets the count of errors.
Reconnection ==
  /\ \/ (TearDown \/ GiveUp) /\ UNCHANGED healthVars
     \/ dialed < scenario.conns /\ Redial /\ UNCHANGED healthVars
     \/ /\ StartServing
        /\ RecordConnectionEstablished /\ UNCHANGED <<status, newStatus, monitor>>
  /\ UNCHANGED <<agentVars, mintVars>>

\* The last connection of a scenario lasts, if nobody watches it, and so does
\* the one that Stop ends.
Loss == /\ (dialed < scenario.conns /\ ~scenario.stop) \/ scenario.monitor
        /\ LinkLost
        /\ UNCHANGED <<agentVars, healthVars, mintVars>>

\* healthCheck: connected, running and authenticated.
Working == conn # 0 /\ authenticated

Monitor ==
  /\ scenario.monitor
  /\ PerformHealthCheck(~Working) \/ UpdateStatus
  /\ UNCHANGED <<agentVars, authVars, mintVars>>

Next ==
  \/ Make \/ Start \/ StartConnects \/ StartFailsToConnect
  \/ Starter \/ StarterRequests \/ StartTriesAgain
  \/ Ping \/ PeriodicTasks
  \/ Stop \/ StopDisconnects \/ Stopped
  \/ \E p \in Processors : Processor(p)
  \/ ServerStep \/ Reconnection \/ Loss \/ Monitor

\* Goroutines run; the tickers tick; sends, the dial and the waits in Start and in
\* Disconnect have timeouts.  The server answers, and the breaker lets through, again and again.
Fairness ==
  /\ WF_vars(Starter) /\ WF_vars(StarterRequests)
  /\ WF_vars(PeriodicTasks) /\ WF_vars(Stopped)
  /\ \A p \in Processors : WF_vars(Processor(p))
  /\ WF_vars(ServerStep) /\ WF_vars(Reconnection) /\ WF_vars(Monitor)
  /\ SF_vars(StarterRequests /\ sendChan' # sendChan)
  /\ SF_vars(ServerStep /\ IssueChallenge(scenario.challenges))
  /\ \A p \in Processors :
       SF_vars(Processor(p) /\ At(p, "sign") /\ processor[p].chal # Blank /\ sendChan' # sendChan)
  /\ SF_vars(ServerStep /\ Accept)

Spec == Init /\ [][Next]_vars /\ Fairness

-----------------------------------------------------------------------------
\* An agent whose connection lasts, with the goroutines that serve it, counts
\* as authenticated again and again, whatever was lost, refused, cleared or
\* overwritten before, and whatever late answers of earlier connections say.
\* (Where the scenario has health checks that authenticate, and challenges.)
AuthenticatesAgain ==
  /\ scenario.rounds > 0 /\ scenario.challenges # {}
  /\ <>[](conn # 0 /\ alive /\ served /\ loop # "off")
  => []<>authenticated

\* A health status that is watched for long enough tells the truth, once no more
\* connections are established: an agent that stays without connection or
\* authentication is reported unhealthy from some time on, one that stays connected
\* and authenticated healthy, whatever resets, failures of senders and statuses
\* computed earlier came in between.  (Every connection resets the count: an agent
\* whose link keeps being restored before the third check after its loss is reported
\* healthy for ever, authenticated or not.)
StatusFollows ==
  /\ <>[](monitor = "on" /\ scenario.monitor)
  /\ <>[][dialed' = dialed /\ Working' = Working]_vars
  => <>[](status = IF Working THEN "healthy" ELSE "unhealthy")
=============================================================================
