---------------------------- MODULE Authentication ----------------------------
(***************************************************************************)
(* How the agent proves who it is (protocol.go, and what client.go does to *)
(* the authenticated flag): it requests a challenge, signs it, and         *)
(* registers when the server accepts the signature.  The challenge and its *)
(* signature are kept, without a lock, in two fields that the goroutine    *)
(* which starts the authentication clears and the processors of incoming   *)
(* messages write and read.                                                *)
(*                                                                         *)
(* The connection is abstracted from NetworkClient: it breaks, is torn     *)
(* down, and is dialed again.  The server is the environment.  A challenge *)
(* is the connection on which it is issued, and a number that is used      *)
(* again once nobody holds the challenge any more.  A signature is that of *)
(* the challenge it equals.                                                *)
(***************************************************************************)
EXTENDS Integers, Sequences, FiniteSets, Functions

CONSTANTS
  Processors,     \* slots for processMessages goroutines (a bound)
  MaxChallenges,  \* bound on the challenges of a connection held at a time
  MaxConns        \* bound on the connections

ASSUME AuthenticationAssumption ==
  /\ MaxChallenges \in Nat
  /\ MaxConns \in Nat \ {0}

VARIABLES
  conn,           \* c.conn, 0 for nil; c.running is conn # 0
  dialed,         \* connections established so far
  alive,          \* the link of the current connection works
  redialing,      \* reconnect: "no"; "dialing"; "installed", with a connection whose
                  \* goroutines are still to be started
  disconnecting,  \* between c.conn = nil and c.cancel() of Disconnect
  ctxDone,        \* c.ctx is cancelled
  served,         \* the connection has the goroutines that read and write
  authenticated,  \* c.authenticated
  lastChallenge, lastChallengeSignature,
  sendChan, receiveChan,
  processor,
  starter,        \* where StartAuthentication is
  session,        \* the server has accepted a signature on the current connection
  late            \* history: an acceptance was still to be processed when the
                  \* current connection was installed

connVars == <<conn, dialed, alive, redialing, disconnecting, ctxDone, served, session, late>>
stored == <<lastChallenge, lastChallengeSignature>>
chans == <<sendChan, receiveChan>>
authVars == <<connVars, authenticated, stored, chans, processor, starter>>

Conns == 1..MaxConns
Empty == <<0, 0>>
Challenges == Conns \X (1..MaxChallenges)

\* The empty string as a challenge of the server's, told apart here from a field
\* that has been cleared; the code never looks whether a field is empty.
Blank == <<0, 1>>
Ids == Challenges \cup {Empty, Blank}
Msg(type, chal, sig) == [type |-> type, chal |-> chal, sig |-> sig]
Requests == [type : {"request_challenge", "auth", "register", "ping"}, chal : Ids, sig : Ids]
Replies == [type : {"challenge", "auth_success", "auth_error"}, chal : Ids, sig : Ids]

ProcessorPC == {"none", "select", "cancelled", "sign", "read", "register"}

AuthTypeOK ==
  /\ dialed \in Conns \cup {0} /\ conn \in {0, dialed}
  /\ {alive, disconnecting, ctxDone, served, authenticated, session, late} \subseteq BOOLEAN
  /\ redialing \in {"no", "dialing", "installed"}
  /\ lastChallenge \in Ids /\ lastChallengeSignature \in Ids
  /\ sendChan \in Seq(Requests)
  /\ receiveChan \in Seq(Replies)
  /\ processor \in [Processors -> [pc : ProcessorPC, chal : Ids]]
  /\ starter \in {"none", "clear", "request"}
  /\ served => conn # 0

\* NewNetworkClient, NewProtocolHandler.
AuthInit ==
  /\ conn = 0 /\ dialed = 0 /\ alive = FALSE /\ redialing = "no"
  /\ disconnecting = FALSE /\ ctxDone = FALSE /\ served = FALSE
  /\ authenticated = FALSE /\ session = FALSE /\ late = FALSE
  /\ lastChallenge = Empty /\ lastChallengeSignature = Empty
  /\ sendChan = <<>> /\ receiveChan = <<>>
  /\ processor = [p \in Processors |-> [pc |-> "none", chal |-> Empty]]
  /\ starter = "none"

-----------------------------------------------------------------------------
At(p, pc) == processor[p].pc = pc
Goto(p, pc, chal) == processor' = [processor EXCEPT ![p] = [pc |-> pc, chal |-> chal]]
Waiting == [pc |-> IF ctxDone THEN "cancelled" ELSE "select", chal |-> Empty]
Done(p) == processor' = [processor EXCEPT ![p] = Waiting]

\* SendMessage fails if the client is not running; its retry (MessageDelivery) is
\* one more delay, like that of the channel, and is left out.  Without an attempt
\* there is an error if the circuit breaker is open.  The channel holds a hundred
\* messages and is never full here.
SendMessage(msg, failed) ==
  IF failed
  THEN conn = 0 /\ UNCHANGED sendChan
  ELSE \/ conn # 0 /\ sendChan' = Append(sendChan, msg)
       \/ UNCHANGED sendChan

\* The round trips under way: what is, or will be, an answer to a challenge.
UnderWay ==
  LET answers(msg) == msg.type \in {"request_challenge", "challenge", "auth"}
  IN  Len(SelectSeq(sendChan \o receiveChan, answers)) + Cardinality({p \in Processors : At(p, "sign")})

-----------------------------------------------------------------------------
(* StartAuthentication, called by one goroutine at a time. *)
StartAuthentication == starter' = "clear"

ClearChallenge ==
  /\ starter = "clear" /\ starter' = "request"
  /\ lastChallenge' = Empty
  /\ UNCHANGED <<connVars, authenticated, lastChallengeSignature, chans, processor>>

\* The signature is cleared too, and the request sent.
RequestChallenge(failed) ==
  /\ starter = "request" /\ starter' = "none"
  /\ lastChallengeSignature' = Empty
  /\ SendMessage(Msg("request_challenge", Empty, Empty), failed)
  /\ UNCHANGED <<connVars, authenticated, lastChallenge, receiveChan, processor>>

\* Start makes the request again when it has failed.
RequestAgain(failed) ==
  /\ starter = "request" /\ starter' = "clear"
  /\ lastChallengeSignature' = Empty
  /\ SendMessage(Msg("request_challenge", Empty, Empty), failed) /\ sendChan' = sendChan
  /\ UNCHANGED <<connVars, authenticated, lastChallenge, receiveChan, processor>>

\* SendPing, of an authenticated client; pings do not pile up.
SendPing(failed) ==
  /\ conn # 0 /\ authenticated
  /\ \A m \in Range(sendChan) : m.type # "ping"
  /\ SendMessage(Msg("ping", Empty, Empty), failed)
  /\ UNCHANGED <<connVars, authenticated, stored, receiveChan, processor, starter>>

-----------------------------------------------------------------------------
(* processMessages and the handlers.  Taking a message and the first thing   *)
(* its handler does are one step, and so are a handler's last access to a    *)
(* shared field and its send.                                                *)

\* A select whose context is cancelled may still take a message.
Takes(p, type) ==
  /\ At(p, "select") \/ At(p, "cancelled")
  /\ receiveChan # <<>> /\ Head(receiveChan).type = type
  /\ receiveChan' = Tail(receiveChan)

ExitProcessor(p) ==
  /\ At(p, "cancelled")
  /\ processor' = [processor EXCEPT ![p].pc = "none"]
  /\ UNCHANGED <<connVars, authenticated, stored, chans, starter>>

\* HandleChallenge: data without a challenge is an error, an empty one is not.
HandleChallenge(p) ==
  /\ Takes(p, "challenge")
  /\ LET challenge == Head(receiveChan).chal
     IN  IF challenge = Empty THEN Done(p) /\ UNCHANGED lastChallenge
         ELSE Goto(p, "sign", challenge) /\ lastChallenge' = challenge
  /\ UNCHANGED <<connVars, authenticated, lastChallengeSignature, sendChan, starter>>

\* Mutant: what is signed is read from the field.
AuthenticateStored(p, failed) ==
  /\ At(p, "sign")
  /\ lastChallengeSignature' = lastChallenge
  /\ SendMessage(Msg("auth", lastChallenge, lastChallenge), failed)
  /\ Done(p)
  /\ UNCHANGED <<connVars, authenticated, lastChallenge, receiveChan, starter>>

\* Authenticate signs its argument, stores the signature and sends both.
Authenticate(p, failed) ==
  /\ At(p, "sign")
  /\ lastChallengeSignature' = processor[p].chal
  /\ SendMessage(Msg("auth", processor[p].chal, processor[p].chal), failed)
  /\ Done(p)
  /\ UNCHANGED <<connVars, authenticated, lastChallenge, receiveChan, starter>>

\* HandleAuthSuccess; an "auth" message whose content says "successful" has the
\* same handling (HandleAuthResponse).
HandleAuthSuccess(p) ==
  /\ Takes(p, "auth_success")
  /\ authenticated' = TRUE
  /\ Goto(p, "read", Empty)
  /\ UNCHANGED <<connVars, stored, sendChan, starter>>

\* HandleAuthError, and any other "auth" message.
HandleAuthError(p) ==
  /\ Takes(p, "auth_error")
  /\ authenticated' = FALSE
  /\ Done(p)
  /\ UNCHANGED <<connVars, stored, sendChan, starter>>

\* SendRegistration reads the challenge, then its signature.
ReadChallenge(p) ==
  /\ At(p, "read")
  /\ Goto(p, "register", lastChallenge)
  /\ UNCHANGED <<connVars, authenticated, stored, chans, starter>>

SendRegistration(p, failed) ==
  /\ At(p, "register")
  /\ SendMessage(Msg("register", processor[p].chal, lastChallengeSignature), failed)
  /\ Done(p)
  /\ UNCHANGED <<connVars, authenticated, stored, receiveChan, starter>>

-----------------------------------------------------------------------------
(* The writer of the connection, and the server. *)
Request == Head(sendChan)
Writes == served /\ alive /\ sendChan # <<>> /\ sendChan' = Tail(sendChan)
Reply(type, chal) == receiveChan' = Append(receiveChan, Msg(type, chal, Empty))

Held ==
  {lastChallenge, lastChallengeSignature}
  \cup UNION {{m.chal, m.sig} : m \in Range(sendChan) \cup Range(receiveChan)}
  \cup {processor[p].chal : p \in Processors}

IssueChallenge(challenges) ==
  /\ Writes /\ Request.type = "request_challenge"
  /\ \E k \in challenges :
       /\ <<conn, k>> \notin Held /\ \A j \in 1..(k - 1) : <<conn, j>> \in Held
       /\ Reply("challenge", <<conn, k>>)
  /\ UNCHANGED <<connVars, authenticated, stored, processor, starter>>

Valid(msg) == msg.chal[1] = conn /\ msg.sig = msg.chal

Accept ==
  /\ Writes /\ Request.type = "auth" /\ Valid(Request)
  /\ Reply("auth_success", Empty)
  /\ session' = TRUE
  /\ UNCHANGED <<conn, dialed, alive, redialing, disconnecting, ctxDone, served, late, authenticated,
                 stored, processor, starter>>

\* A signature may be refused for other reasons too.
Refuse ==
  /\ Writes /\ Request.type = "auth"
  /\ Reply("auth_error", Empty)
  /\ UNCHANGED <<connVars, authenticated, stored, processor, starter>>

\* The server sends a challenge message without a challenge, or with an empty one.
SendNoChallenge ==
  /\ Writes /\ Request.type = "request_challenge"
  /\ \E chal \in {Empty, Blank} : Reply("challenge", chal)
  /\ UNCHANGED <<connVars, authenticated, stored, processor, starter>>

\* Nothing the agent acts upon comes back.  A message written on a dead link,
\* or taken by a writer that is being stopped, is lost.
Unanswered ==
  /\ served \/ conn = 0
  /\ sendChan # <<>> /\ sendChan' = Tail(sendChan)
  /\ UNCHANGED <<connVars, authenticated, stored, receiveChan, processor, starter>>

Server(challenges) == IssueChallenge(challenges) \/ Accept \/ Refuse \/ SendNoChallenge \/ Unanswered

-----------------------------------------------------------------------------
(* The connection. *)
AnswersPending == \E m \in Range(receiveChan) : m.type = "auth_success"

\* What has not been read from the connection is lost with it.
LinkLost ==
  /\ conn # 0 /\ alive
  /\ alive' = FALSE
  /\ \E k \in 0..Len(receiveChan) : receiveChan' = SubSeq(receiveChan, 1, k)
  /\ UNCHANGED <<conn, dialed, redialing, disconnecting, ctxDone, served, session, late, authenticated,
                 stored, sendChan, processor, starter>>

CancelProcessors ==
  processor' = [p \in Processors |->
    IF At(p, "select") THEN [processor[p] EXCEPT !.pc = "cancelled"] ELSE processor[p]]

\* reconnect, up to the dial: the processors are cancelled, the channels kept.
TearDown ==
  /\ conn # 0 /\ ~alive /\ served /\ redialing = "no"
  /\ conn' = 0 /\ redialing' = "dialing" /\ served' = FALSE
  /\ authenticated' = FALSE /\ session' = FALSE
  /\ CancelProcessors
  /\ UNCHANGED <<dialed, alive, disconnecting, ctxDone, late, stored, chans, starter>>

FreeSlots == {p \in Processors : At(p, "none")}

\* A connection is established.
Install ==
  /\ dialed < MaxConns
  /\ conn' = dialed + 1 /\ dialed' = dialed + 1 /\ alive' = TRUE
  /\ session' = FALSE /\ late' = AnswersPending
  /\ UNCHANGED <<stored, chans>>

\* The goroutines of a connection are started, or not.
Serve(serve) ==
  /\ served' = serve
  /\ IF serve
     THEN /\ FreeSlots # {}
          /\ processor' = [processor EXCEPT ![CHOOSE p \in FreeSlots : TRUE] = Waiting]
     ELSE UNCHANGED processor

\* The dial of reconnect succeeds, whatever the client has come to meanwhile.
\* The flag is still what it was: reconnect holds no lock.
Redial ==
  /\ redialing = "dialing" /\ redialing' = "installed"
  /\ Install
  /\ served' = FALSE
  /\ UNCHANGED <<disconnecting, ctxDone, authenticated, processor, starter>>

\* Mutant: only the tear-down clears the flag.
StartServingKeepsFlag ==
  /\ redialing = "installed" /\ redialing' = "no" /\ conn # 0
  /\ Serve(TRUE)
  /\ UNCHANGED <<conn, dialed, alive, disconnecting, ctxDone, session, late, authenticated, stored,
                 chans, starter>>

\* The rest of reconnect; on a connection that Disconnect has set to nil meanwhile
\* it panics.
StartServing ==
  /\ redialing = "installed" /\ redialing' = "no" /\ conn # 0
  /\ Serve(TRUE)
  /\ authenticated' = FALSE
  /\ UNCHANGED <<conn, dialed, alive, disconnecting, ctxDone, session, late, stored, chans, starter>>

\* The dial fails for the last time.
GiveUp ==
  /\ redialing = "dialing" /\ redialing' = "no"
  /\ UNCHANGED <<conn, dialed, alive, disconnecting, ctxDone, served, session, late, authenticated,
                 stored, chans, processor, starter>>

\* Connect: the first one starts the goroutines of the connection; any other finds
\* its supervisor running, or the context cancelled, unless it comes while
\* Disconnect is stopping the one and has not cancelled the other.
Connect ==
  /\ conn = 0
  /\ Install
  /\ \E serve \in IF disconnecting THEN BOOLEAN ELSE {dialed = 0} : Serve(serve)
  /\ authenticated' = FALSE
  /\ UNCHANGED <<redialing, disconnecting, ctxDone>>

\* Disconnect returns at once while a reconnection is dialing.
BeginDisconnect ==
  IF conn = 0 THEN UNCHANGED authVars
  ELSE /\ conn' = 0 /\ served' = FALSE /\ disconnecting' = TRUE
       /\ authenticated' = FALSE /\ session' = FALSE
       /\ UNCHANGED <<dialed, alive, redialing, ctxDone, late, stored, chans, processor, starter>>

\* The supervisor, the retry queue and the monitor have stopped.  Whatever serves a
\* connection installed meanwhile ends too.
EndDisconnect ==
  /\ disconnecting /\ disconnecting' = FALSE
  /\ ctxDone' = TRUE /\ served' = FALSE
  /\ CancelProcessors
  /\ UNCHANGED <<conn, dialed, alive, redialing, session, late, authenticated, stored, chans, starter>>

-----------------------------------------------------------------------------
Process(p, failed) ==
  \/ ExitProcessor(p)
  \/ HandleChallenge(p) \/ Authenticate(p, failed)
  \/ HandleAuthSuccess(p) \/ HandleAuthError(p)
  \/ ReadChallenge(p) \/ SendRegistration(p, failed)

Network ==
  Server(1..MaxChallenges) \/ LinkLost \/ TearDown \/ Redial \/ StartServing \/ GiveUp

\* Any use of it by an agent.
AuthNext ==
  \/ StartAuthentication /\ UNCHANGED <<connVars, authenticated, stored, chans, processor>>
  \/ ClearChallenge
  \/ \E failed \in BOOLEAN :
       \/ RequestChallenge(failed) \/ RequestAgain(failed) \/ SendPing(failed)
       \/ \E p \in Processors : Process(p, failed)
  \/ Connect /\ starter' \in {starter, "clear"}
  \/ BeginDisconnect \/ EndDisconnect
  \/ Network

AuthSpec == AuthInit /\ [][AuthNext]_authVars

-----------------------------------------------------------------------------

\* Every signature sent is that of the challenge it is sent for, and that is one
\* the server has issued, whatever is cleared or overwritten meanwhile; so is
\* the signature of a registration, if there are both, as long as there has
\* been but one connection.
SignaturesMatch ==
  \A m \in Range(sendChan) :
    /\ m.type = "auth" => m.chal # Empty /\ m.sig = m.chal
    /\ m.type = "register" /\ dialed = 1 => Empty \in {m.chal, m.sig} \/ m.chal = m.sig

\* The client counts as authenticated only if the server has accepted a
\* signature on this very connection; unless an acceptance of the connection
\* before was still waiting to be processed when this one was installed: that
\* one is taken for an acceptance of this one.  (reconnect clears the flag again
\* one statement after it has installed a connection.)
AuthenticatedBacked ==
  authenticated /\ conn # 0 /\ redialing # "installed" => session \/ late
=============================================================================
