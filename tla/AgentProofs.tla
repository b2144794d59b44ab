----------------------------- MODULE AgentProofs -----------------------------
(***************************************************************************)
(* What holds of the authentication for any processors, challenges and     *)
(* connections, whatever an agent does with it; that an Agent does nothing *)
(* else with it; what holds of its token; and the types of all of it.      *)
(***************************************************************************)
EXTENDS Agent, TLAPS

LEMMA RangeIs ==
  ASSUME NEW S, NEW s \in Seq(S)
  PROVE  Range(s) = {s[i] : i \in 1..Len(s)} /\ Range(s) \subseteq S
  BY DEF Range

LEMMA RangeOfAppend ==
  ASSUME NEW S, NEW s \in Seq(S), NEW e \in S
  PROVE  Append(s, e) \in Seq(S) /\ Range(Append(s, e)) = Range(s) \cup {e}
<1>1. Append(s, e) \in Seq(S) /\ Len(Append(s, e)) = Len(s) + 1
  OBVIOUS
<1>2. \A i \in 1..Len(s) : Append(s, e)[i] = s[i]
  OBVIOUS
<1>3. Append(s, e)[Len(s) + 1] = e
  OBVIOUS
<1>4. Range(Append(s, e)) = {Append(s, e)[i] : i \in 1..(Len(s) + 1)}
  BY <1>1, RangeIs
<1>5. Range(s) = {s[i] : i \in 1..Len(s)}
  BY RangeIs
<1>. QED
  BY <1>1, <1>2, <1>3, <1>4, <1>5

LEMMA RangeOfTail ==
  ASSUME NEW S, NEW s \in Seq(S), s # <<>>
  PROVE  Tail(s) \in Seq(S) /\ Range(Tail(s)) \subseteq Range(s) /\ Head(s) \in Range(s)
<1>1. Tail(s) \in Seq(S) /\ Len(Tail(s)) = Len(s) - 1
  OBVIOUS
<1>2. \A i \in 1..Len(Tail(s)) : Tail(s)[i] = s[i + 1] /\ i + 1 \in 1..Len(s)
  BY <1>1
<1>3. Head(s) = s[1] /\ 1 \in 1..Len(s)
  OBVIOUS
<1>4. Range(Tail(s)) = {Tail(s)[i] : i \in 1..Len(Tail(s))}
  BY <1>1, RangeIs
<1>5. Range(s) = {s[i] : i \in 1..Len(s)}
  BY RangeIs
<1>. QED
  BY <1>1, <1>2, <1>3, <1>4, <1>5

LEMMA RangeOfPrefix ==
  ASSUME NEW S, NEW s \in Seq(S), NEW k \in 0..Len(s)
  PROVE  SubSeq(s, 1, k) \in Seq(S) /\ Range(SubSeq(s, 1, k)) \subseteq Range(s)
<1>1. SubSeq(s, 1, k) \in Seq(S) /\ Len(SubSeq(s, 1, k)) = k
  OBVIOUS
<1>2. \A i \in 1..k : SubSeq(s, 1, k)[i] = s[i] /\ i \in 1..Len(s)
  OBVIOUS
<1>3. Range(SubSeq(s, 1, k)) = {SubSeq(s, 1, k)[i] : i \in 1..k}
  BY <1>1, RangeIs
<1>4. Range(s) = {s[i] : i \in 1..Len(s)}
  BY RangeIs
<1>. QED
  BY <1>1, <1>2, <1>3, <1>4

-----------------------------------------------------------------------------
(* Types. *)
States == [pc : ProcessorPC, chal : Ids]

LEMMA MessageTypes ==
  /\ \A type \in {"request_challenge", "auth", "register", "ping"}, chal, sig \in Ids :
       Msg(type, chal, sig) \in Requests
  /\ \A type \in {"challenge", "auth_success", "auth_error"}, chal, sig \in Ids :
       Msg(type, chal, sig) \in Replies
  /\ Empty \in Ids /\ Blank \in Ids
  BY DEF Msg, Requests, Replies, Ids

LEMMA SentTypes ==
  ASSUME AuthTypeOK, NEW msg \in Requests, NEW failed \in BOOLEAN, SendMessage(msg, failed)
  PROVE  sendChan' \in Seq(Requests) /\ Range(sendChan') \subseteq Range(sendChan) \cup {msg}
<1>1. sendChan \in Seq(Requests)
  BY DEF AuthTypeOK
<1>2. sendChan' = sendChan \/ sendChan' = Append(sendChan, msg)
  BY DEF SendMessage
<1>3. /\ Append(sendChan, msg) \in Seq(Requests)
      /\ Range(Append(sendChan, msg)) = Range(sendChan) \cup {msg}
  BY <1>1, RangeOfAppend
<1>4. CASE sendChan' = sendChan
  BY <1>1, <1>4
<1>5. CASE sendChan' = Append(sendChan, msg)
  BY <1>3, <1>5
<1>. QED
  BY <1>2, <1>4, <1>5

LEMMA GotoTypes ==
  ASSUME AuthTypeOK, NEW p \in Processors, NEW s \in States,
         processor' = [processor EXCEPT ![p] = s]
  PROVE  /\ processor' \in [Processors -> States]
         /\ processor'[p] = s
         /\ \A q \in Processors : q # p => processor'[q] = processor[q]
  BY DEF AuthTypeOK, States

LEMMA DoneTypes ==
  ASSUME AuthTypeOK, NEW p \in Processors, Done(p)
  PROVE  /\ processor' \in [Processors -> States]
         /\ processor'[p].pc \in {"select", "cancelled"} /\ processor'[p].chal = Empty
         /\ \A q \in Processors : q # p => processor'[q] = processor[q]
<1>1. Waiting \in States /\ Waiting.pc \in {"select", "cancelled"} /\ Waiting.chal = Empty
  BY MessageTypes DEF Waiting, States, ProcessorPC
<1>. HIDE DEF Waiting
<1>. QED
  BY <1>1, GotoTypes DEF Done

LEMMA TakenTypes ==
  ASSUME AuthTypeOK, NEW p \in Processors, NEW type, Takes(p, type)
  PROVE  /\ receiveChan' \in Seq(Replies) /\ Range(receiveChan') \subseteq Range(receiveChan)
         /\ Head(receiveChan) \in Range(receiveChan) /\ Head(receiveChan) \in Replies
         /\ Head(receiveChan).type = type
         /\ processor[p].pc \in {"select", "cancelled"}
<1>1. receiveChan \in Seq(Replies) /\ receiveChan # <<>>
  BY DEF AuthTypeOK, Takes
<1>2. Range(receiveChan) \subseteq Replies
  BY <1>1, RangeIs
<1>. QED
  BY <1>1, <1>2, RangeOfTail DEF Takes, At

LEMMA WrittenTypes ==
  ASSUME AuthTypeOK, sendChan # <<>>, sendChan' = Tail(sendChan)
  PROVE  /\ sendChan' \in Seq(Requests) /\ Range(sendChan') \subseteq Range(sendChan)
         /\ Request \in Range(sendChan)
  BY RangeOfTail DEF AuthTypeOK, Request

LEMMA ReplyTypes ==
  ASSUME AuthTypeOK, NEW type \in {"challenge", "auth_success", "auth_error"}, NEW chal \in Ids,
         Reply(type, chal)
  PROVE  /\ receiveChan' \in Seq(Replies)
         /\ Range(receiveChan') = Range(receiveChan) \cup {Msg(type, chal, Empty)}
<1>1. receiveChan \in Seq(Replies) /\ Msg(type, chal, Empty) \in Replies
  BY MessageTypes DEF AuthTypeOK
<1>. QED
  BY <1>1, RangeOfAppend DEF Reply

LEMMA CancelledTypes ==
  ASSUME AuthTypeOK, CancelProcessors
  PROVE  /\ processor' \in [Processors -> States]
         /\ \A p \in Processors :
              /\ processor'[p].chal = processor[p].chal
              /\ \/ processor'[p].pc = processor[p].pc
                 \/ processor[p].pc = "select" /\ processor'[p].pc = "cancelled"
<1>1. \A p \in Processors : [processor[p] EXCEPT !.pc = "cancelled"] \in States
  BY DEF AuthTypeOK, States, ProcessorPC
<1>. QED
  BY <1>1 DEF AuthTypeOK, CancelProcessors, At, States

LEMMA InstallTypes ==
  ASSUME AuthTypeOK, Install
  PROVE  /\ conn' \in Conns /\ conn' # 0 /\ dialed' = conn' /\ dialed' = dialed + 1
         /\ alive' \in BOOLEAN /\ session' = FALSE
         /\ late' = AnswersPending /\ late' \in BOOLEAN
         /\ UNCHANGED <<stored, chans>>
<1>1. dialed \in 0..MaxConns /\ dialed < MaxConns /\ MaxConns \in Nat
  BY AuthenticationAssumption DEF AuthTypeOK, Conns, Install
<1>2. dialed + 1 \in Conns /\ dialed + 1 # 0
  BY <1>1 DEF Conns
<1>. QED
  BY <1>2 DEF Install, AnswersPending

LEMMA ServeTypes ==
  ASSUME AuthTypeOK, NEW serve \in BOOLEAN, Serve(serve)
  PROVE  /\ served' \in BOOLEAN
         /\ processor' \in [Processors -> States]
         /\ \/ processor' = processor
            \/ \E p \in Processors :
                 /\ processor[p].pc = "none"
                 /\ processor'[p].pc \in {"select", "cancelled"} /\ processor'[p].chal = Empty
                 /\ \A q \in Processors : q # p => processor'[q] = processor[q]
<1>1. Waiting \in States /\ Waiting.pc \in {"select", "cancelled"} /\ Waiting.chal = Empty
  BY MessageTypes DEF Waiting, States, ProcessorPC
<1>2. CASE serve
  <2>1. PICK p \in Processors :
          processor[p].pc = "none" /\ processor' = [processor EXCEPT ![p] = Waiting]
    <3>1. FreeSlots # {} /\ processor' = [processor EXCEPT ![CHOOSE p \in FreeSlots : TRUE] = Waiting]
      BY <1>2 DEF Serve
    <3>. QED
      BY <3>1 DEF FreeSlots, At
  <2>. HIDE DEF Waiting
  <2>2. /\ processor' \in [Processors -> States] /\ processor'[p] = Waiting
        /\ \A q \in Processors : q # p => processor'[q] = processor[q]
    BY <1>1, <2>1, GotoTypes
  <2>. QED
    BY <1>1, <2>1, <2>2 DEF Serve
<1>3. CASE ~serve
  BY <1>3 DEF Serve, AuthTypeOK, States
<1>. QED
  BY <1>2, <1>3

LEMMA TypesPreserved ==
  ASSUME AuthTypeOK, [AuthNext]_authVars
  PROVE  AuthTypeOK'
<1>. USE DEF States
<1>1. CASE UNCHANGED authVars
  BY <1>1 DEF AuthTypeOK, authVars, connVars, stored, chans
<1>2. CASE StartAuthentication /\ UNCHANGED <<connVars, authenticated, stored, chans, processor>>
  BY <1>2 DEF AuthTypeOK, StartAuthentication, connVars, stored, chans
<1>3. CASE ClearChallenge
  BY <1>3, MessageTypes DEF AuthTypeOK, ClearChallenge, connVars, chans
<1>4. ASSUME NEW failed \in BOOLEAN,
             RequestChallenge(failed) \/ RequestAgain(failed) \/ SendPing(failed)
      PROVE  AuthTypeOK'
  <2>1. \E type \in {"request_challenge", "ping"} : SendMessage(Msg(type, Empty, Empty), failed)
    BY <1>4 DEF RequestChallenge, RequestAgain, SendPing
  <2>2. sendChan' \in Seq(Requests)
    BY <2>1, SentTypes, MessageTypes
  <2>. QED
    BY <1>4, <2>2, MessageTypes
    DEF AuthTypeOK, RequestChallenge, RequestAgain, SendPing, connVars, stored
<1>5. ASSUME NEW failed \in BOOLEAN, NEW p \in Processors, Process(p, failed)
      PROVE  AuthTypeOK'
  <2>. processor[p].chal \in Ids
    BY DEF AuthTypeOK
  <2>1. CASE ExitProcessor(p)
    BY <2>1 DEF AuthTypeOK, ExitProcessor, ProcessorPC, connVars, stored, chans
  <2>2. CASE HandleChallenge(p)
    <3>1. receiveChan' \in Seq(Replies) /\ Head(receiveChan).chal \in Ids
      BY <2>2, TakenTypes DEF HandleChallenge, Replies
    <3>2. processor' \in [Processors -> States] /\ lastChallenge' \in Ids
      <4>1. CASE Head(receiveChan).chal = Empty
        <5>1. Done(p) /\ UNCHANGED lastChallenge
          BY <2>2, <4>1 DEF HandleChallenge
        <5>. QED
          BY <5>1, DoneTypes DEF AuthTypeOK
      <4>2. CASE Head(receiveChan).chal # Empty
        <5>1. Goto(p, "sign", Head(receiveChan).chal) /\ lastChallenge' = Head(receiveChan).chal
          BY <2>2, <4>2 DEF HandleChallenge
        <5>2. [pc |-> "sign", chal |-> Head(receiveChan).chal] \in States
          BY <3>1 DEF ProcessorPC
        <5>. QED
          BY <3>1, <5>1, <5>2, GotoTypes DEF Goto
      <4>. QED
        BY <4>1, <4>2
    <3>. QED
      BY <2>2, <3>1, <3>2 DEF AuthTypeOK, HandleChallenge, connVars
  <2>3. CASE Authenticate(p, failed)
    <3>1. sendChan' \in Seq(Requests)
      BY <2>3, SentTypes, MessageTypes DEF Authenticate
    <3>2. processor' \in [Processors -> States]
      BY <2>3, DoneTypes DEF Authenticate
    <3>. QED
      BY <2>3, <3>1, <3>2 DEF AuthTypeOK, Authenticate, connVars
  <2>4. CASE HandleAuthSuccess(p)
    <3>1. receiveChan' \in Seq(Replies)
      BY <2>4, TakenTypes DEF HandleAuthSuccess
    <3>2. [pc |-> "read", chal |-> Empty] \in States
      BY MessageTypes DEF ProcessorPC
    <3>3. processor' \in [Processors -> States]
      BY <2>4, <3>2, GotoTypes DEF HandleAuthSuccess, Goto
    <3>. QED
      BY <2>4, <3>1, <3>3 DEF AuthTypeOK, HandleAuthSuccess, connVars, stored
  <2>5. CASE HandleAuthError(p)
    <3>1. receiveChan' \in Seq(Replies)
      BY <2>5, TakenTypes DEF HandleAuthError
    <3>2. processor' \in [Processors -> States]
      BY <2>5, DoneTypes DEF HandleAuthError
    <3>. QED
      BY <2>5, <3>1, <3>2 DEF AuthTypeOK, HandleAuthError, connVars, stored
  <2>6. CASE ReadChallenge(p)
    <3>1. [pc |-> "register", chal |-> lastChallenge] \in States
      BY DEF AuthTypeOK, ProcessorPC
    <3>2. processor' \in [Processors -> States]
      BY <2>6, <3>1, GotoTypes DEF ReadChallenge, Goto
    <3>. QED
      BY <2>6, <3>2 DEF AuthTypeOK, ReadChallenge, connVars, stored, chans
  <2>7. CASE SendRegistration(p, failed)
    <3>1. lastChallengeSignature \in Ids
      BY DEF AuthTypeOK
    <3>2. sendChan' \in Seq(Requests)
      BY <2>7, <3>1, SentTypes, MessageTypes DEF SendRegistration
    <3>3. processor' \in [Processors -> States]
      BY <2>7, DoneTypes DEF SendRegistration
    <3>. QED
      BY <2>7, <3>2, <3>3 DEF AuthTypeOK, SendRegistration, connVars, stored
  <2>. QED
    BY <1>5, <2>1, <2>2, <2>3, <2>4, <2>5, <2>6, <2>7 DEF Process
<1>7. CASE Connect /\ starter' \in {starter, "clear"}
  <2>1. PICK serve \in BOOLEAN : Serve(serve)
    BY <1>7 DEF Connect
  <2>. QED
    BY <1>7, <2>1, InstallTypes, ServeTypes DEF Connect, AuthTypeOK, stored, chans
<1>8. CASE BeginDisconnect \/ EndDisconnect
  <2>1. CASE BeginDisconnect /\ conn = 0
    BY <1>1, <2>1 DEF BeginDisconnect
  <2>2. CASE BeginDisconnect /\ conn # 0
    BY <2>2 DEF BeginDisconnect, AuthTypeOK, stored, chans
  <2>3. CASE EndDisconnect
    BY <2>3, CancelledTypes DEF EndDisconnect, AuthTypeOK, stored, chans
  <2>. QED
    BY <1>8, <2>1, <2>2, <2>3
<1>9. CASE Network
  <2>1. CASE Server(1..MaxChallenges)
    <3>1. CASE Unanswered
      BY <3>1, WrittenTypes DEF Unanswered, AuthTypeOK, connVars, stored
    <3>2. ASSUME Writes, NEW type \in {"challenge", "auth_success", "auth_error"},
                 NEW chal \in Ids, Reply(type, chal), session' \in BOOLEAN,
                 UNCHANGED <<conn, dialed, alive, redialing, disconnecting, ctxDone, served, late,
                             authenticated, stored, processor, starter>>
          PROVE  AuthTypeOK'
      BY <3>2, WrittenTypes, ReplyTypes DEF Writes, AuthTypeOK, stored
    <3>3. CASE IssueChallenge(1..MaxChallenges)
      <4>1. PICK k \in 1..MaxChallenges : Reply("challenge", <<conn, k>>)
        BY <3>3 DEF IssueChallenge
      <4>2. Writes /\ conn # 0
        BY <3>3 DEF IssueChallenge, Writes, AuthTypeOK
      <4>3. <<conn, k>> \in Ids
        BY <4>2 DEF Ids, Challenges, AuthTypeOK
      <4>. QED
        BY <3>2, <3>3, <4>1, <4>2, <4>3 DEF IssueChallenge, AuthTypeOK, connVars
    <3>4. CASE Accept \/ Refuse
      BY <3>2, <3>4, MessageTypes DEF Accept, Refuse, AuthTypeOK, connVars
    <3>5. CASE SendNoChallenge
      <4>1. PICK chal \in {Empty, Blank} : Reply("challenge", chal)
        BY <3>5 DEF SendNoChallenge
      <4>. QED
        BY <3>2, <3>5, <4>1, MessageTypes DEF SendNoChallenge, AuthTypeOK, connVars
    <3>. QED
      BY <2>1, <3>1, <3>3, <3>4, <3>5 DEF Server
  <2>2. CASE LinkLost
    <3>1. PICK k \in 0..Len(receiveChan) : receiveChan' = SubSeq(receiveChan, 1, k)
      BY <2>2 DEF LinkLost
    <3>2. receiveChan' \in Seq(Replies)
      BY <3>1, RangeOfPrefix DEF AuthTypeOK
    <3>. QED
      BY <2>2, <3>2 DEF LinkLost, AuthTypeOK, stored
  <2>3. CASE TearDown
    BY <2>3, CancelledTypes DEF TearDown, AuthTypeOK, stored, chans
  <2>4. CASE Redial
    BY <2>4, InstallTypes DEF Redial, AuthTypeOK, stored, chans
  <2>5. CASE StartServing
    BY <2>5, ServeTypes DEF StartServing, AuthTypeOK, stored, chans
  <2>6. CASE GiveUp
    BY <2>6 DEF GiveUp, AuthTypeOK, stored, chans
  <2>. QED
    BY <1>9, <2>1, <2>2, <2>3, <2>4, <2>5, <2>6 DEF Network
<1>. QED
  BY <1>1, <1>2, <1>3, <1>4, <1>5, <1>7, <1>8, <1>9 DEF AuthNext

\* The connection, the stored challenge and signature, the channels and the
\* processors are well typed: whatever is signed, stored or sent is a challenge
\* of a connection that was dialed, or none.
THEOREM AuthTyping == AuthSpec => []AuthTypeOK
<1>1. AuthInit => AuthTypeOK
  <2>. SUFFICES ASSUME AuthInit PROVE AuthTypeOK
    OBVIOUS
  <2>1. processor \in [Processors -> [pc : ProcessorPC, chal : Ids]]
    BY MessageTypes DEF AuthInit, ProcessorPC
  <2>2. sendChan \in Seq(Requests) /\ receiveChan \in Seq(Replies)
    BY DEF AuthInit
  <2>. QED
    BY <2>1, <2>2, MessageTypes DEF AuthInit, AuthTypeOK
<1>. QED
  BY <1>1, TypesPreserved, PTL DEF AuthSpec

-----------------------------------------------------------------------------
(* AuthenticatedBacked is inductive once it speaks of the acceptances that *)
(* are still to be processed, too.                                         *)
Backed ==
  conn # 0 /\ (AnswersPending \/ (authenticated /\ redialing # "installed")) => session \/ late

LEMMA BackedPreserved ==
  ASSUME AuthTypeOK, Backed, [AuthNext]_authVars
  PROVE  Backed'
<1>1. CASE UNCHANGED authVars
  BY <1>1 DEF Backed, AnswersPending, authVars, connVars, chans
<1>2. CASE StartAuthentication /\ UNCHANGED <<connVars, authenticated, stored, chans, processor>>
  BY <1>2 DEF Backed, AnswersPending, connVars, chans
<1>3. CASE ClearChallenge
  BY <1>3 DEF Backed, AnswersPending, ClearChallenge, connVars, chans
<1>4. ASSUME NEW failed \in BOOLEAN,
             RequestChallenge(failed) \/ RequestAgain(failed) \/ SendPing(failed)
      PROVE  Backed'
  BY <1>4 DEF Backed, AnswersPending, RequestChallenge, RequestAgain, SendPing, connVars
<1>5. ASSUME UNCHANGED <<conn, redialing, session, late>>, Range(receiveChan') \subseteq Range(receiveChan),
             authenticated' => authenticated \/ AnswersPending
      PROVE  Backed'
  BY <1>5 DEF Backed, AnswersPending
<1>6. ASSUME NEW failed \in BOOLEAN, NEW p \in Processors, Process(p, failed)
      PROVE  Backed'
  <2>1. CASE ExitProcessor(p) \/ Authenticate(p, failed) \/ ReadChallenge(p) \/ SendRegistration(p, failed)
    BY <1>5, <2>1 DEF ExitProcessor, Authenticate, ReadChallenge, SendRegistration, connVars, chans
  <2>2. CASE HandleChallenge(p)
    BY <1>5, <2>2, TakenTypes DEF HandleChallenge, connVars
  <2>3. CASE HandleAuthSuccess(p)
    <3>1. AnswersPending
      BY <2>3, TakenTypes DEF HandleAuthSuccess, AnswersPending
    <3>. QED
      BY <1>5, <2>3, <3>1, TakenTypes DEF HandleAuthSuccess, connVars
  <2>4. CASE HandleAuthError(p)
    BY <1>5, <2>4, TakenTypes DEF HandleAuthError, connVars
  <2>. QED
    BY <1>6, <2>1, <2>2, <2>3, <2>4 DEF Process
<1>7. ASSUME Install, ~authenticated' \/ redialing' = "installed"
      PROVE  Backed'
  <2>1. late' = AnswersPending /\ receiveChan' = receiveChan
    BY <1>7, InstallTypes DEF chans
  <2>. QED
    BY <1>7, <2>1 DEF Backed, AnswersPending
<1>8. CASE Connect /\ starter' \in {starter, "clear"}
  BY <1>7, <1>8 DEF Connect
<1>9. CASE BeginDisconnect \/ EndDisconnect
  BY <1>1, <1>9 DEF BeginDisconnect, EndDisconnect, Backed, AnswersPending, chans
<1>10. CASE Network
  <2>1. CASE Accept
    BY <2>1 DEF Accept, Backed
  <2>2. CASE Unanswered
    BY <1>5, <2>2 DEF Unanswered, connVars
  <2>3. ASSUME NEW type \in {"challenge", "auth_error"}, NEW chal \in Ids, Reply(type, chal),
               UNCHANGED <<conn, redialing, session, late, authenticated>>
        PROVE  Backed'
    <3>1. Range(receiveChan') = Range(receiveChan) \cup {Msg(type, chal, Empty)}
      BY <2>3, ReplyTypes
    <3>2. Msg(type, chal, Empty).type # "auth_success"
      BY DEF Msg
    <3>. HIDE DEF Msg
    <3>. QED
      BY <2>3, <3>1, <3>2 DEF Backed, AnswersPending
  <2>4. CASE IssueChallenge(1..MaxChallenges)
    <3>1. PICK k \in 1..MaxChallenges : Reply("challenge", <<conn, k>>)
      BY <2>4 DEF IssueChallenge
    <3>2. <<conn, k>> \in Ids
      BY <2>4 DEF IssueChallenge, Writes, Ids, Challenges, AuthTypeOK
    <3>. QED
      BY <2>3, <2>4, <3>1, <3>2 DEF IssueChallenge, connVars
  <2>5. CASE Refuse \/ SendNoChallenge
    <3>1. \/ Reply("auth_error", Empty)
          \/ \E chal \in {Empty, Blank} : Reply("challenge", chal)
      BY <2>5 DEF Refuse, SendNoChallenge
    <3>. QED
      BY <2>3, <2>5, <3>1, MessageTypes DEF Refuse, SendNoChallenge, connVars
  <2>6. CASE LinkLost
    <3>1. PICK k \in 0..Len(receiveChan) : receiveChan' = SubSeq(receiveChan, 1, k)
      BY <2>6 DEF LinkLost
    <3>2. Range(receiveChan') \subseteq Range(receiveChan)
      BY <3>1, RangeOfPrefix DEF AuthTypeOK
    <3>. QED
      BY <1>5, <2>6, <3>2 DEF LinkLost
  <2>7. CASE TearDown
    BY <2>7 DEF TearDown, Backed
  <2>8. CASE Redial
    BY <1>7, <2>8 DEF Redial
  <2>9. CASE StartServing \/ GiveUp
    BY <2>9 DEF StartServing, GiveUp, Backed, AnswersPending, chans
  <2>. QED
    BY <1>10, <2>1, <2>2, <2>4, <2>5, <2>6, <2>7, <2>8, <2>9 DEF Network, Server
<1>. QED
  BY <1>1, <1>2, <1>3, <1>4, <1>6, <1>8, <1>9, <1>10 DEF AuthNext

\* For any processors, challenges and connections: the client counts as
\* authenticated only on an acceptance of this connection, or on one that was
\* still to be processed when the connection was installed.
THEOREM AuthenticationBacked == AuthSpec => []AuthenticatedBacked
<1>1. AuthInit => Backed
  BY DEF AuthInit, Backed
<1>2. Backed => AuthenticatedBacked
  BY DEF Backed, AuthenticatedBacked
<1>. QED
  BY <1>1, <1>2, AuthTyping, BackedPreserved, PTL DEF AuthSpec

-----------------------------------------------------------------------------
(* Signatures.  That a registration is signed for its own challenge rests, *)
(* on the first connection, on there being but one processor, and on every *)
(* order in which it and the starter touch the two fields.                 *)
Fits(chal, sig) == Empty \in {chal, sig} \/ chal = sig

Signed ==
  /\ \A p \in Processors : At(p, "sign") => processor[p].chal # Empty
  /\ \A m \in Range(sendChan) : m.type = "auth" => m.chal # Empty /\ m.sig = m.chal

OneProcessor ==
  /\ \A p, q \in Processors : ~At(p, "none") /\ ~At(q, "none") => p = q
  /\ dialed = 0 => \A p \in Processors : At(p, "none")

FieldsFit ==
  /\ (\A p \in Processors : ~At(p, "sign")) => Fits(lastChallenge, lastChallengeSignature)
  /\ \A p \in Processors :
       /\ At(p, "sign") => lastChallenge \in {Empty, processor[p].chal}
       /\ At(p, "register") => Fits(processor[p].chal, lastChallengeSignature)
  /\ \A m \in Range(sendChan) : m.type = "register" => Fits(m.chal, m.sig)

FirstConnection ==
  /\ dialed = 0 => redialing = "no"
  /\ redialing = "installed" => dialed > 1
  /\ dialed <= 1 => OneProcessor /\ FieldsFit

LEMMA SignedPreserved ==
  ASSUME AuthTypeOK, Signed, [AuthNext]_authVars
  PROVE  Signed'
<1>1. ASSUME Range(sendChan') \subseteq Range(sendChan), UNCHANGED processor
      PROVE  Signed'
  BY <1>1 DEF Signed, At
<1>2. CASE UNCHANGED authVars
  BY <1>1, <1>2 DEF authVars, chans
<1>3. CASE StartAuthentication /\ UNCHANGED <<connVars, authenticated, stored, chans, processor>>
  BY <1>1, <1>3 DEF chans
<1>4. CASE ClearChallenge
  BY <1>1, <1>4 DEF ClearChallenge, chans
<1>5. ASSUME NEW failed \in BOOLEAN,
             RequestChallenge(failed) \/ RequestAgain(failed) \/ SendPing(failed)
      PROVE  Signed'
  <2>1. PICK type \in {"request_challenge", "ping"} : SendMessage(Msg(type, Empty, Empty), failed)
    BY <1>5 DEF RequestChallenge, RequestAgain, SendPing
  <2>2. Range(sendChan') \subseteq Range(sendChan) \cup {Msg(type, Empty, Empty)}
    BY <2>1, SentTypes, MessageTypes
  <2>3. Msg(type, Empty, Empty).type # "auth"
    BY DEF Msg
  <2>4. UNCHANGED processor
    BY <1>5 DEF RequestChallenge, RequestAgain, SendPing
  <2>. HIDE DEF Msg
  <2>. QED
    BY <2>2, <2>3, <2>4 DEF Signed, At
<1>6. ASSUME NEW failed \in BOOLEAN, NEW p \in Processors, Process(p, failed)
      PROVE  Signed'
  <2>0. ASSUME Range(sendChan') \subseteq Range(sendChan),
               \A q \in Processors : q # p => processor'[q] = processor[q],
               processor'[p].pc = "sign" => processor'[p].chal # Empty
        PROVE  Signed'
    BY <2>0 DEF Signed, At
  <2>1. CASE ExitProcessor(p)
    <3>1. processor'[p].pc = "none" /\ \A q \in Processors : q # p => processor'[q] = processor[q]
      BY <2>1 DEF ExitProcessor, AuthTypeOK
    <3>. QED
      BY <2>0, <2>1, <3>1 DEF ExitProcessor, chans
  <2>2. CASE HandleChallenge(p)
    <3>1. CASE Head(receiveChan).chal = Empty
      BY <2>0, <2>2, <3>1, DoneTypes DEF HandleChallenge
    <3>2. CASE Head(receiveChan).chal # Empty
      <4>1. Goto(p, "sign", Head(receiveChan).chal)
        BY <2>2, <3>2 DEF HandleChallenge
      <4>2. [pc |-> "sign", chal |-> Head(receiveChan).chal] \in States
        BY <2>2, TakenTypes DEF HandleChallenge, Replies, States, ProcessorPC
      <4>3. /\ processor'[p] = [pc |-> "sign", chal |-> Head(receiveChan).chal]
            /\ \A q \in Processors : q # p => processor'[q] = processor[q]
        BY <4>1, <4>2, GotoTypes DEF Goto
      <4>. QED
        BY <2>0, <2>2, <3>2, <4>3 DEF HandleChallenge
    <3>. QED
      BY <3>1, <3>2
  <2>3. CASE Authenticate(p, failed)
    <3>. DEFINE chal == processor[p].chal
                msg == Msg("auth", chal, chal)
    <3>1. chal \in Ids /\ chal # Empty
      BY <2>3 DEF Authenticate, Signed, AuthTypeOK
    <3>2. Range(sendChan') \subseteq Range(sendChan) \cup {msg}
      BY <2>3, <3>1, SentTypes, MessageTypes DEF Authenticate
    <3>3. msg.chal = chal /\ msg.sig = chal
      BY DEF Msg
    <3>4. /\ processor'[p].pc # "sign"
          /\ \A q \in Processors : q # p => processor'[q] = processor[q]
      BY <2>3, DoneTypes DEF Authenticate
    <3>. HIDE DEF msg, chal
    <3>. QED
      BY <3>1, <3>2, <3>3, <3>4 DEF Signed, At
  <2>4. CASE HandleAuthSuccess(p)
    <3>1. [pc |-> "read", chal |-> Empty] \in States
      BY MessageTypes DEF States, ProcessorPC
    <3>2. /\ processor'[p] = [pc |-> "read", chal |-> Empty]
          /\ \A q \in Processors : q # p => processor'[q] = processor[q]
      BY <2>4, <3>1, GotoTypes DEF HandleAuthSuccess, Goto
    <3>. QED
      BY <2>0, <2>4, <3>2 DEF HandleAuthSuccess
  <2>5. CASE HandleAuthError(p)
    BY <2>0, <2>5, DoneTypes DEF HandleAuthError
  <2>6. CASE ReadChallenge(p)
    <3>1. [pc |-> "register", chal |-> lastChallenge] \in States
      BY DEF AuthTypeOK, States, ProcessorPC
    <3>2. /\ processor'[p] = [pc |-> "register", chal |-> lastChallenge]
          /\ \A q \in Processors : q # p => processor'[q] = processor[q]
      BY <2>6, <3>1, GotoTypes DEF ReadChallenge, Goto
    <3>. QED
      BY <2>0, <2>6, <3>2 DEF ReadChallenge, chans
  <2>7. CASE SendRegistration(p, failed)
    <3>. DEFINE msg == Msg("register", processor[p].chal, lastChallengeSignature)
    <3>1. msg \in Requests /\ msg.type = "register"
      BY MessageTypes DEF AuthTypeOK, Msg, Requests
    <3>. HIDE DEF msg
    <3>2. Range(sendChan') \subseteq Range(sendChan) \cup {msg}
      BY <2>7, <3>1, SentTypes DEF SendRegistration, msg
    <3>3. /\ processor'[p].pc # "sign"
          /\ \A q \in Processors : q # p => processor'[q] = processor[q]
      BY <2>7, DoneTypes DEF SendRegistration
    <3>. QED
      BY <3>1, <3>2, <3>3 DEF Signed, At
  <2>. QED
    BY <1>6, <2>1, <2>2, <2>3, <2>4, <2>5, <2>6, <2>7 DEF Process
<1>7. ASSUME NEW serve \in BOOLEAN, Serve(serve), UNCHANGED sendChan
      PROVE  Signed'
  <2>1. \A q \in Processors : processor'[q] = processor[q] \/ processor'[q].pc # "sign"
    BY <1>7, ServeTypes
  <2>. QED
    BY <1>7, <2>1 DEF Signed, At
<1>8. CASE Connect /\ starter' \in {starter, "clear"}
  <2>1. UNCHANGED sendChan
    BY <1>8, InstallTypes DEF Connect, chans
  <2>. QED
    BY <1>7, <1>8, <2>1 DEF Connect
<1>9. ASSUME CancelProcessors, UNCHANGED sendChan
      PROVE  Signed'
  BY <1>9, CancelledTypes DEF Signed, At
<1>10. CASE BeginDisconnect \/ EndDisconnect
  BY <1>1, <1>2, <1>9, <1>10 DEF BeginDisconnect, EndDisconnect, chans
<1>11. CASE Network
  <2>1. CASE Server(1..MaxChallenges)
    <3>1. sendChan # <<>> /\ sendChan' = Tail(sendChan) /\ UNCHANGED processor
      BY <2>1 DEF Server, IssueChallenge, Accept, Refuse, SendNoChallenge, Unanswered, Writes
    <3>. QED
      BY <1>1, <3>1, WrittenTypes
  <2>2. CASE LinkLost \/ GiveUp
    BY <1>1, <2>2 DEF LinkLost, GiveUp, chans
  <2>3. CASE TearDown
    BY <1>9, <2>3 DEF TearDown, chans
  <2>4. CASE Redial
    BY <1>1, <2>4, InstallTypes DEF Redial, chans
  <2>5. CASE StartServing
    BY <1>7, <2>5 DEF StartServing, chans
  <2>. QED
    BY <1>11, <2>1, <2>2, <2>3, <2>4, <2>5 DEF Network
<1>. QED
  BY <1>2, <1>3, <1>4, <1>5, <1>6, <1>8, <1>10, <1>11 DEF AuthNext

LEMMA FirstPreserved ==
  ASSUME AuthTypeOK, FirstConnection, [AuthNext]_authVars
  PROVE  FirstConnection'
<1>. dialed \in Nat
  BY AuthenticationAssumption DEF AuthTypeOK, Conns
<1>1. ASSUME UNCHANGED <<dialed, redialing>>, OneProcessor /\ FieldsFit => (OneProcessor /\ FieldsFit)'
      PROVE  FirstConnection'
  BY <1>1 DEF FirstConnection
<1>2. ASSUME UNCHANGED <<dialed, redialing, processor, stored>>,
             \A m \in Range(sendChan') : m \in Range(sendChan) \/ m.type # "register"
      PROVE  FirstConnection'
  BY <1>1, <1>2 DEF OneProcessor, FieldsFit, At, stored
<1>3. CASE UNCHANGED authVars
  BY <1>2, <1>3 DEF authVars, connVars, chans
<1>4. CASE StartAuthentication /\ UNCHANGED <<connVars, authenticated, stored, chans, processor>>
  BY <1>2, <1>4 DEF connVars, chans
<1>5. CASE ClearChallenge
  BY <1>1, <1>5 DEF ClearChallenge, OneProcessor, FieldsFit, At, Fits, connVars, chans
<1>6. ASSUME NEW failed \in BOOLEAN,
             RequestChallenge(failed) \/ RequestAgain(failed) \/ SendPing(failed)
      PROVE  FirstConnection'
  <2>1. PICK type \in {"request_challenge", "ping"} : SendMessage(Msg(type, Empty, Empty), failed)
    BY <1>6 DEF RequestChallenge, RequestAgain, SendPing
  <2>2. Range(sendChan') \subseteq Range(sendChan) \cup {Msg(type, Empty, Empty)}
    BY <2>1, SentTypes, MessageTypes
  <2>3. Msg(type, Empty, Empty).type # "register"
    BY DEF Msg
  <2>4. UNCHANGED <<dialed, redialing, processor, lastChallenge>>
    BY <1>6 DEF RequestChallenge, RequestAgain, SendPing, connVars, stored
  <2>5. lastChallengeSignature' \in {Empty, lastChallengeSignature}
    BY <1>6 DEF RequestChallenge, RequestAgain, SendPing, stored
  <2>. HIDE DEF Msg
  <2>. QED
    BY <1>1, <2>2, <2>3, <2>4, <2>5 DEF OneProcessor, FieldsFit, At, Fits
<1>7. ASSUME NEW failed \in BOOLEAN, NEW p \in Processors, Process(p, failed)
      PROVE  FirstConnection'
  <2>1. UNCHANGED <<dialed, redialing>> /\ ~At(p, "none")
    BY <1>7 DEF Process, ExitProcessor, HandleChallenge, Authenticate, HandleAuthSuccess, HandleAuthError,
       ReadChallenge, SendRegistration, connVars, Takes, At
  <2>. SUFFICES ASSUME OneProcessor, FieldsFit
                PROVE  (OneProcessor /\ FieldsFit)'
    BY <1>1, <2>1
  <2>2. dialed # 0 /\ \A q \in Processors : q # p => At(q, "none")
    BY <2>1 DEF OneProcessor
  <2>3. ASSUME \A q \in Processors : q # p => processor'[q] = processor[q],
               processor'[p].pc # "sign" => Fits(lastChallenge', lastChallengeSignature'),
               processor'[p].pc = "sign" => lastChallenge' \in {Empty, processor'[p].chal},
               processor'[p].pc = "register" => Fits(processor'[p].chal, lastChallengeSignature'),
               \A m \in Range(sendChan') : m \in Range(sendChan) \/ (m.type = "register" => Fits(m.chal, m.sig))
        PROVE  (OneProcessor /\ FieldsFit)'
    BY <2>1, <2>2, <2>3 DEF OneProcessor, FieldsFit, At
  <2>4. ~At(p, "sign") => Fits(lastChallenge, lastChallengeSignature)
    BY <2>2 DEF FieldsFit, At
  <2>5. CASE ExitProcessor(p)
    <3>1. processor'[p].pc = "none" /\ \A q \in Processors : q # p => processor'[q] = processor[q]
      BY <2>5 DEF ExitProcessor, AuthTypeOK
    <3>. QED
      BY <2>3, <2>4, <2>5, <3>1 DEF ExitProcessor, At, stored, chans
  <2>6. CASE HandleChallenge(p)
    <3>1. CASE Head(receiveChan).chal = Empty
      <4>1. Done(p) /\ UNCHANGED <<stored, sendChan>> /\ ~At(p, "sign")
        BY <2>6, <3>1 DEF HandleChallenge, Takes, At, stored
      <4>. QED
        BY <2>3, <2>4, <4>1, DoneTypes DEF stored
    <3>2. CASE Head(receiveChan).chal # Empty
      <4>1. Goto(p, "sign", Head(receiveChan).chal) /\ lastChallenge' = Head(receiveChan).chal
        BY <2>6, <3>2 DEF HandleChallenge
      <4>2. [pc |-> "sign", chal |-> Head(receiveChan).chal] \in States
        BY <2>6, TakenTypes DEF HandleChallenge, Replies, States, ProcessorPC
      <4>3. /\ processor'[p] = [pc |-> "sign", chal |-> Head(receiveChan).chal]
            /\ \A q \in Processors : q # p => processor'[q] = processor[q]
        BY <4>1, <4>2, GotoTypes DEF Goto
      <4>. QED
        BY <2>3, <2>6, <4>1, <4>3 DEF HandleChallenge
    <3>. QED
      BY <3>1, <3>2
  <2>7. CASE Authenticate(p, failed)
    <3>. DEFINE msg == Msg("auth", processor[p].chal, processor[p].chal)
    <3>1. msg \in Requests /\ msg.type = "auth"
      BY MessageTypes DEF AuthTypeOK, Msg, Requests
    <3>. HIDE DEF msg
    <3>2. Range(sendChan') \subseteq Range(sendChan) \cup {msg}
      BY <2>7, <3>1, SentTypes DEF Authenticate, msg
    <3>3. /\ processor'[p].pc \in {"select", "cancelled"}
          /\ \A q \in Processors : q # p => processor'[q] = processor[q]
      BY <2>7, DoneTypes DEF Authenticate
    <3>4. Fits(lastChallenge', lastChallengeSignature')
      BY <2>7 DEF Authenticate, FieldsFit, Fits
    <3>. QED
      BY <2>3, <3>1, <3>2, <3>3, <3>4
  <2>8. CASE HandleAuthSuccess(p)
    <3>1. [pc |-> "read", chal |-> Empty] \in States
      BY MessageTypes DEF States, ProcessorPC
    <3>2. /\ processor'[p] = [pc |-> "read", chal |-> Empty]
          /\ \A q \in Processors : q # p => processor'[q] = processor[q]
      BY <2>8, <3>1, GotoTypes DEF HandleAuthSuccess, Goto
    <3>3. UNCHANGED <<stored, sendChan>> /\ ~At(p, "sign")
      BY <2>8 DEF HandleAuthSuccess, Takes, At
    <3>. QED
      BY <2>3, <2>4, <3>2, <3>3 DEF stored
  <2>9. CASE HandleAuthError(p)
    <3>1. Done(p) /\ UNCHANGED <<stored, sendChan>> /\ ~At(p, "sign")
      BY <2>9 DEF HandleAuthError, Takes, At
    <3>. QED
      BY <2>3, <2>4, <3>1, DoneTypes DEF stored
  <2>10. CASE ReadChallenge(p)
    <3>1. [pc |-> "register", chal |-> lastChallenge] \in States
      BY DEF AuthTypeOK, States, ProcessorPC
    <3>2. /\ processor'[p] = [pc |-> "register", chal |-> lastChallenge]
          /\ \A q \in Processors : q # p => processor'[q] = processor[q]
      BY <2>10, <3>1, GotoTypes DEF ReadChallenge, Goto
    <3>3. UNCHANGED <<stored, sendChan>> /\ ~At(p, "sign")
      BY <2>10 DEF ReadChallenge, At, chans
    <3>. QED
      BY <2>3, <2>4, <3>2, <3>3 DEF stored
  <2>11. CASE SendRegistration(p, failed)
    <3>. DEFINE msg == Msg("register", processor[p].chal, lastChallengeSignature)
    <3>1. /\ msg \in Requests
          /\ msg.chal = processor[p].chal /\ msg.sig = lastChallengeSignature
      BY MessageTypes DEF AuthTypeOK, Msg, Requests
    <3>. HIDE DEF msg
    <3>2. Range(sendChan') \subseteq Range(sendChan) \cup {msg}
      BY <2>11, <3>1, SentTypes DEF SendRegistration, msg
    <3>3. Fits(msg.chal, msg.sig)
      BY <2>11, <3>1 DEF SendRegistration, FieldsFit
    <3>4. /\ processor'[p].pc \in {"select", "cancelled"}
          /\ \A q \in Processors : q # p => processor'[q] = processor[q]
      BY <2>11, DoneTypes DEF SendRegistration
    <3>5. UNCHANGED stored /\ ~At(p, "sign")
      BY <2>11 DEF SendRegistration, At
    <3>. QED
      BY <2>3, <2>4, <3>2, <3>3, <3>4, <3>5 DEF stored
  <2>. QED
    BY <1>7, <2>5, <2>6, <2>7, <2>8, <2>9, <2>10, <2>11 DEF Process
<1>8. CASE Connect /\ starter' \in {starter, "clear"}
  <2>1. /\ dialed' = dialed + 1 /\ UNCHANGED <<stored, sendChan, redialing>>
        /\ \/ processor' = processor
           \/ \E p \in Processors :
                /\ processor'[p].pc \in {"select", "cancelled"}
                /\ \A q \in Processors : q # p => processor'[q] = processor[q]
    <3>1. Install /\ UNCHANGED redialing
      BY <1>8 DEF Connect
    <3>2. PICK serve \in BOOLEAN : Serve(serve)
      BY <1>8 DEF Connect
    <3>3. dialed' = dialed + 1 /\ UNCHANGED <<stored, sendChan, redialing>>
      BY <3>1, InstallTypes DEF chans
    <3>. QED
      BY <3>2, <3>3, ServeTypes
  <2>. SUFFICES ASSUME dialed' <= 1
                PROVE  OneProcessor' /\ FieldsFit'
    BY <2>1 DEF FirstConnection
  <2>2. dialed = 0 /\ OneProcessor /\ FieldsFit
    BY <2>1 DEF FirstConnection
  <2>. QED
    BY <2>1, <2>2 DEF OneProcessor, FieldsFit, At, stored
<1>9. ASSUME CancelProcessors, UNCHANGED <<dialed, stored, sendChan>>,
             redialing' = redialing \/ (redialing' = "dialing" /\ dialed # 0)
      PROVE  FirstConnection'
  <2>1. \A p \in Processors :
          /\ processor'[p].chal = processor[p].chal
          /\ \/ processor'[p].pc = processor[p].pc
             \/ processor[p].pc = "select" /\ processor'[p].pc = "cancelled"
    BY <1>9, CancelledTypes
  <2>2. OneProcessor => OneProcessor'
    BY <1>9, <2>1 DEF OneProcessor, At
  <2>3. FieldsFit => FieldsFit'
    BY <1>9, <2>1 DEF FieldsFit, At, stored
  <2>. QED
    BY <1>9, <2>2, <2>3 DEF FirstConnection
<1>10. CASE BeginDisconnect \/ EndDisconnect
  BY <1>2, <1>3, <1>9, <1>10 DEF BeginDisconnect, EndDisconnect, chans
<1>11. CASE Network
  <2>1. CASE Server(1..MaxChallenges)
    <3>1. /\ sendChan # <<>> /\ sendChan' = Tail(sendChan)
          /\ UNCHANGED <<dialed, redialing, processor, stored>>
      BY <2>1 DEF Server, IssueChallenge, Accept, Refuse, SendNoChallenge, Unanswered, Writes, connVars
    <3>2. Range(sendChan') \subseteq Range(sendChan)
      BY <3>1, WrittenTypes
    <3>. QED
      BY <1>2, <3>1, <3>2
  <2>2. CASE LinkLost
    BY <1>2, <2>2 DEF LinkLost
  <2>3. CASE TearDown
    BY <1>9, <2>3 DEF TearDown, AuthTypeOK, chans
  <2>4. CASE Redial
    <3>1. dialed' = dialed + 1 /\ dialed # 0
      BY <2>4, InstallTypes DEF Redial, FirstConnection
    <3>. QED
      BY <3>1 DEF FirstConnection
  <2>5. CASE StartServing
    <3>1. dialed > 1 /\ UNCHANGED dialed /\ redialing' = "no"
      BY <2>5 DEF StartServing, FirstConnection
    <3>. QED
      BY <3>1 DEF FirstConnection
  <2>6. CASE GiveUp
    <3>1. UNCHANGED <<dialed, stored, sendChan, processor>> /\ redialing' = "no"
      BY <2>6 DEF GiveUp, chans
    <3>. QED
      BY <3>1 DEF FirstConnection, OneProcessor, FieldsFit, At, stored
  <2>. QED
    BY <1>11, <2>1, <2>2, <2>3, <2>4, <2>5, <2>6 DEF Network
<1>. QED
  BY <1>3, <1>4, <1>5, <1>6, <1>7, <1>8, <1>10, <1>11 DEF AuthNext

\* For any processors, challenges and connections: a signature is sent only
\* with the challenge it signs, in a registration of the first connection too.
THEOREM SignaturesRight == AuthSpec => []SignaturesMatch
<1>1. AuthInit => Signed
  BY DEF AuthInit, Signed, At, Range
<1>2. AuthInit => FirstConnection
  BY DEF AuthInit, FirstConnection, OneProcessor, FieldsFit, Fits, At, Range
<1>3. Signed /\ FirstConnection => SignaturesMatch
  BY DEF Signed, FirstConnection, FieldsFit, Fits, SignaturesMatch
<1>. QED
  BY <1>1, <1>2, <1>3, AuthTyping, SignedPreserved, FirstPreserved, PTL DEF AuthSpec

-----------------------------------------------------------------------------
(* An agent uses the authentication, and nothing else of it. *)
LEMMA ServerGrows ==
  ASSUME NEW challenges \in SUBSET (1..MaxChallenges), Server(challenges)
  PROVE  Server(1..MaxChallenges)
  BY DEF Server, IssueChallenge

Chosen == scenario \in Scenarios

LEMMA AgentStep ==
  ASSUME Chosen, [Next]_vars
  PROVE  Chosen' /\ [AuthNext]_authVars
<1>. USE DEF Chosen
<1>1. CASE UNCHANGED vars
  BY <1>1 DEF vars, agentVars
<1>2. CASE Make \/ Start \/ StartFailsToConnect
  BY <1>2 DEF Make, Start, StartFailsToConnect, agentVars
<1>3. CASE StartConnects
  <2>1. Connect /\ starter' = "clear"
    BY <1>3 DEF StartConnects, ConnectClient, StartAuthentication
  <2>. QED
    BY <1>3, <2>1 DEF StartConnects, AuthNext
<1>4. CASE Starter
  BY <1>4 DEF Starter, AuthNext, agentVars
<1>5. CASE StarterRequests \/ StartTriesAgain \/ Ping
  BY <1>5 DEF StarterRequests, StartTriesAgain, Ping, AuthNext, agentVars
<1>6. CASE PeriodicTasks
  <2>1. CASE HealthCheck
    BY <2>1 DEF HealthCheck, AuthNext
  <2>2. CASE HealthCheckConnects \/ EndLoop
    BY <2>2 DEF HealthCheckConnects, EndLoop
  <2>3. CASE CheckConnects
    <3>1. Connect /\ starter' \in {starter, "clear"} /\ UNCHANGED scenario
      BY <2>3 DEF CheckConnects, ConnectClient, StartAuthentication
    <3>. QED
      BY <3>1 DEF AuthNext
  <2>4. CASE CheckFailsToConnect
    <3>1. \/ StartAuthentication /\ UNCHANGED <<connVars, authenticated, stored, chans, processor>>
          \/ UNCHANGED authVars
      BY <2>4 DEF CheckFailsToConnect, authVars
    <3>. QED
      BY <2>4, <3>1 DEF CheckFailsToConnect, AuthNext
  <2>. QED
    BY <1>6, <2>1, <2>2, <2>3, <2>4 DEF PeriodicTasks
<1>7. CASE Stop \/ StopDisconnects \/ Stopped
  BY <1>7 DEF Stop, StopDisconnects, Stopped, AuthNext
<1>8. ASSUME NEW p \in Processors, Processor(p)
      PROVE  Chosen' /\ [AuthNext]_authVars
  BY <1>8 DEF Processor, AuthNext, agentVars
<1>9. CASE ServerStep
  <2>1. scenario.challenges \in SUBSET (1..MaxChallenges)
    BY AgentAssumption DEF Scenario
  <2>2. Server(1..MaxChallenges)
    BY <1>9, <2>1, ServerGrows DEF ServerStep
  <2>. QED
    BY <1>9, <2>2 DEF ServerStep, AuthNext, Network, agentVars
<1>10. CASE Reconnection \/ Loss
  BY <1>10 DEF Reconnection, Loss, AuthNext, Network, agentVars
<1>11. CASE Monitor
  BY <1>11 DEF Monitor, agentVars
<1>. QED
  BY <1>1, <1>2, <1>3, <1>4, <1>5, <1>6, <1>7, <1>8, <1>9, <1>10, <1>11 DEF Next

\* Whatever Start, the periodic tasks, Stop and the goroutines of the client do,
\* in any scenario, is a use of the authentication.
THEOREM AgentAuthenticates == Spec => AuthSpec
<1>1. Init => Chosen /\ AuthInit
  BY DEF Init, Chosen
<1>. QED
  BY <1>1, AgentStep, PTL DEF Spec, AuthSpec

\* The agent, in any scenario, counts as authenticated only on an acceptance of
\* its connection, or on one that was still to be processed when that was made.
THEOREM AgentBacked == Spec => []AuthenticatedBacked
  BY AgentAuthenticates, AuthenticationBacked, PTL

\* The agent, in any scenario, sends a signature only with the challenge it
\* signs.
THEOREM AgentSignaturesRight == Spec => []SignaturesMatch
  BY AgentAuthenticates, SignaturesRight, PTL

-----------------------------------------------------------------------------
(* The token. *)
Ours(token) == token = 0 \/ token \in OurTokens

TokenInv ==
  /\ owners \in Seq({"us", "others"})
  /\ env \in Int /\ tokenID \in Nat /\ mined \in Nat
  /\ env = Garbage \/ Ours(env)
  /\ Ours(tokenID) /\ Ours(mined)
  /\ launch = "made" => tokenID # 0

LEMMA OursLast ==
  ASSUME owners \in Seq({"us", "others"}), NEW who \in {"us", "others"},
         owners' = Append(owners, who)
  PROVE  /\ owners' \in Seq({"us", "others"})
         /\ \A token : Ours(token) => Ours(token)'
         /\ who = "us" => Len(owners') \in OurTokens'
<1>1. Len(owners') = Len(owners) + 1 /\ owners'[Len(owners')] = who
  OBVIOUS
<1>2. \A i \in 1..Len(owners) : owners'[i] = owners[i]
  OBVIOUS
<1>. QED
  BY <1>1, <1>2 DEF Ours, OurTokens

LEMMA TokenPreserved ==
  ASSUME TokenInv, [MinterNext]_mintVars
  PROVE  TokenInv'
<1>1. CASE UNCHANGED mintVars
  BY <1>1 DEF TokenInv, Ours, OurTokens, mintVars
<1>2. ASSUME Fail
      PROVE  TokenInv'
  BY <1>2 DEF Fail, TokenInv, Ours, OurTokens
<1>3. ASSUME UNCHANGED <<owners, env, mined>>, Ours(tokenID'), tokenID' \in Nat,
             launch' = "made" => tokenID' # 0
      PROVE  TokenInv'
  BY <1>3 DEF TokenInv, Ours, OurTokens
<1>4. ASSUME NEW from, NEW to, to # "made", MintStep(from, to)
      PROVE  TokenInv'
  BY <1>2, <1>3, <1>4 DEF MintStep, TokenInv
<1>5. ASSUME NEW mint \in BOOLEAN, NEW given, Ours(given), given \in Nat, NewEnhancedAgent(mint, given)
      PROVE  TokenInv'
  <2>1. CASE Fail
    BY <1>2, <2>1
  <2>2. CASE launch' = "config" /\ tokenID' = given
    BY <1>3, <1>5, <2>2 DEF NewEnhancedAgent
  <2>3. CASE /\ tokenID' = IF given # 0 THEN given ELSE env
             /\ tokenID' \notin {0, Garbage}
    <3>1. Ours(tokenID') /\ tokenID' \in Nat /\ tokenID' # 0
      BY <1>5, <2>3 DEF TokenInv, Ours, OurTokens
    <3>. QED
      BY <1>3, <1>5, <3>1 DEF NewEnhancedAgent
  <2>. QED
    BY <1>5, <2>1, <2>2, <2>3 DEF NewEnhancedAgent
<1>6. CASE Launch
  <2>1. PICK mint \in BOOLEAN, given \in OurTokens \cup {0} :
          NewEnhancedAgent(mint, given) \/ NewSimpleOpenAIAgent(mint, given)
    BY <1>6 DEF Launch
  <2>2. Ours(given) /\ given \in Nat
    BY DEF Ours, OurTokens, TokenInv
  <2>3. CASE NewSimpleOpenAIAgent(mint, given)
    <3>. DEFINE token == IF given = 0 /\ ~mint /\ env > 0 THEN env ELSE given
    <3>1. NewEnhancedAgent(mint \/ token = 0, token)
      BY <2>3 DEF NewSimpleOpenAIAgent
    <3>2. Ours(token) /\ token \in Nat
      BY <2>2 DEF TokenInv, Garbage
    <3>3. (mint \/ token = 0) \in BOOLEAN
      OBVIOUS
    <3>. HIDE DEF token
    <3>. QED
      BY <1>5, <3>1, <3>2, <3>3
  <2>. QED
    BY <1>5, <2>1, <2>2, <2>3
<1>7. CASE GetContractConfig \/ UploadMetadata \/ RequestMintSignature
  BY <1>4, <1>7 DEF GetContractConfig, UploadMetadata, RequestMintSignature
<1>8. CASE GetNonce
  BY <1>3, <1>4, <1>8 DEF GetNonce, TokenInv
<1>9. CASE PrepareMint
  BY <1>2, <1>4, <1>9 DEF PrepareMint
<1>10. CASE SendTransaction
  <2>1. CASE MintStep("send", "wait")
    BY <1>4, <2>1
  <2>2. CASE owners' = Append(owners, "us") /\ launch' = "none" /\ tokenID' = 0 /\ UNCHANGED <<env, mined>>
    <3>1. owners' \in Seq({"us", "others"}) /\ \A token : Ours(token) => Ours(token)'
      BY <2>2, OursLast DEF TokenInv
    <3>. QED
      BY <2>2, <3>1 DEF TokenInv, Ours
  <2>. QED
    BY <1>10, <2>1, <2>2 DEF SendTransaction
<1>11. CASE WaitForTransaction
  <2>1. CASE /\ owners' = Append(owners, "us") /\ mined' = Len(owners')
             /\ launch' = "receipt" /\ UNCHANGED <<env, tokenID>>
    <3>1. /\ owners' \in Seq({"us", "others"}) /\ \A token : Ours(token) => Ours(token)'
          /\ Len(owners') \in OurTokens'
      BY <2>1, OursLast DEF TokenInv
    <3>2. mined' \in Nat
      BY <2>1, <3>1
    <3>. QED
      BY <2>1, <3>1, <3>2 DEF TokenInv, Ours
  <2>2. CASE launch' = "receipt" /\ UNCHANGED <<owners, env, tokenID, mined>>
    BY <1>3, <2>2 DEF TokenInv
  <2>. QED
    BY <1>2, <1>11, <2>1, <2>2 DEF WaitForTransaction
<1>12. CASE TakeToken
  <2>1. CASE mined = 0
    BY <1>2, <1>12, <2>1 DEF TakeToken
  <2>2. CASE mined # 0
    BY <1>12, <2>2 DEF TakeToken, TokenInv, Ours, OurTokens
  <2>. QED
    BY <2>1, <2>2
<1>13. CASE OthersMint
  <2>1. owners' \in Seq({"us", "others"}) /\ \A token : Ours(token) => Ours(token)'
    BY <1>13, OursLast DEF OthersMint, TokenInv
  <2>. QED
    BY <1>13, <2>1 DEF OthersMint, TokenInv, Ours
<1>. QED
  BY <1>1, <1>6, <1>7, <1>8, <1>9, <1>10, <1>11, <1>12, <1>13 DEF MinterNext, MintAgent

(* Only the making of the agent touches the token. *)
LEMMA AgentMints ==
  ASSUME [Next]_vars
  PROVE  [MinterNext]_mintVars
<1>1. CASE Make
  BY <1>1 DEF Make
<1>2. ASSUME ~Make PROVE UNCHANGED mintVars
  BY <1>2 DEF Next, vars, Start, StartConnects, StartFailsToConnect, Starter, StarterRequests,
     StartTriesAgain, Ping, PeriodicTasks, HealthCheck, HealthCheckConnects, CheckConnects,
     CheckFailsToConnect, EndLoop, Stop, StopDisconnects, Stopped, Processor, ServerStep, Reconnection,
     Loss, Monitor
<1>. QED
  BY <1>1, <1>2

\* Whoever mints at the same time and however launches fail, the token an agent
\* is made with is one that its own wallet has minted.
THEOREM AgentTokenOurs == Spec => []TokenIsOurs
<1>1. Init => TokenInv
  <2>1. ASSUME MinterInit PROVE TokenInv
    <3>1. CASE owners = <<>> /\ env \in {0, Garbage}
      BY <2>1, <3>1 DEF MinterInit, TokenInv, Ours, Garbage
    <3>2. CASE owners = <<"us">> /\ env \in {0, 1, Garbage}
      <4>1. owners \in Seq({"us", "others"}) /\ Len(owners) = 1 /\ owners[1] = "us"
        BY <3>2
      <4>2. 1 \in OurTokens
        BY <4>1 DEF OurTokens
      <4>. QED
        BY <2>1, <3>2, <4>1, <4>2 DEF MinterInit, TokenInv, Ours, Garbage
    <3>. QED
      BY <2>1, <3>1, <3>2 DEF MinterInit
  <2>2. ASSUME owners = <<"us">>, env = 1, tokenID = 1, mined = 0
        PROVE  TokenInv
    <3>1. owners \in Seq({"us", "others"}) /\ Len(owners) = 1 /\ owners[1] = "us"
      BY <2>2
    <3>2. 1 \in OurTokens
      BY <3>1 DEF OurTokens
    <3>. QED
      BY <2>2, <3>1, <3>2 DEF TokenInv, Ours
  <2>. QED
    BY <2>1, <2>2 DEF Init
<1>2. TokenInv /\ [Next]_vars => TokenInv'
  BY AgentMints, TokenPreserved
<1>3. TokenInv => TokenIsOurs
  BY DEF TokenInv, Ours, TokenIsOurs
<1>. QED
  BY <1>1, <1>2, <1>3, PTL DEF Spec
-----------------------------------------------------------------------------
(* The types of an agent's own variables, of the monitor's and the token's;  *)
(* those of the authentication are AuthTyping.                               *)
OwnTypeOK ==
  /\ scenario \in Scenarios
  /\ main \in {"made", "connect", "authenticate", "up", "stopping", "disconnecting", "stopped"}
  /\ tries \in 0..(Tries - 1)
  /\ loop \in {"off", "select", "connection", "starting"}
  /\ cancelled \in BOOLEAN

(* Counting one error more never passes the unhealthy threshold, where the   *)
(* model stops counting; and every count has a status.                       *)
LEMMA MonitorCounts ==
  ASSUME errors \in 0..UnhealthyAt
  PROVE  /\ OneMore \in 0..UnhealthyAt /\ 0 \in 0..UnhealthyAt
         /\ \A count \in 0..UnhealthyAt : StatusFor(count) \in Statuses
<1>1. OneMore \in 0..UnhealthyAt /\ 0 \in 0..UnhealthyAt
  BY MonitorAssumption DEF OneMore
<1>2. ASSUME NEW count \in 0..UnhealthyAt
      PROVE  StatusFor(count) \in Statuses
  <2>1. \/ count >= UnhealthyAt
        \/ count >= DegradedAt /\ count < UnhealthyAt
        \/ count < DegradedAt
    BY MonitorAssumption
  <2>. QED
    BY <2>1 DEF StatusFor, Statuses
<1>. QED
  BY <1>1, <1>2

(* What an agent does is, for the health monitor, one of these.              *)
MonitorNext ==
  \/ UNCHANGED <<status, newStatus, monitor>> /\ errors' \in {errors, OneMore, 0}
  \/ UNCHANGED <<status, newStatus>> /\ StartMonitor /\ RecordConnectionEstablished
  \/ \E failed \in BOOLEAN : PerformHealthCheck(failed)
  \/ UpdateStatus
  \/ StopMonitor /\ UNCHANGED errors

LEMMA HealthPreserved ==
  ASSUME HealthTypeOK, [MonitorNext]_healthVars
  PROVE  HealthTypeOK'
<1>. USE DEF HealthTypeOK
<1>1. CASE UNCHANGED healthVars
  BY <1>1 DEF healthVars
<1>2. CASE UNCHANGED <<status, newStatus, monitor>> /\ errors' \in {errors, OneMore, 0}
  BY <1>2, MonitorCounts
<1>3. CASE UNCHANGED <<status, newStatus>> /\ StartMonitor /\ RecordConnectionEstablished
  BY <1>3, MonitorCounts DEF StartMonitor, RecordConnectionEstablished
<1>4. ASSUME NEW failed \in BOOLEAN, PerformHealthCheck(failed)
      PROVE  HealthTypeOK'
  <2>1. errors' \in 0..UnhealthyAt
    BY <1>4, MonitorCounts DEF PerformHealthCheck
  <2>2. newStatus' \in Statuses
    BY <1>4, <2>1, MonitorCounts DEF PerformHealthCheck
  <2>. QED
    BY <1>4, <2>1, <2>2 DEF PerformHealthCheck
<1>5. CASE UpdateStatus
  BY <1>5 DEF UpdateStatus
<1>6. CASE StopMonitor /\ UNCHANGED errors
  BY <1>6 DEF StopMonitor
<1>. QED
  BY <1>1, <1>2, <1>3, <1>4, <1>5, <1>6 DEF MonitorNext

LEMMA AgentMonitors ==
  ASSUME [Next]_vars
  PROVE  [MonitorNext]_healthVars
<1>1. CASE UNCHANGED vars
  BY <1>1 DEF vars
<1>2. ASSUME NEW failed \in BOOLEAN, Recorded(failed)
      PROVE  MonitorNext
  BY <1>2 DEF Recorded, RecordMessageFailed, MonitorNext
<1>3. ASSUME ConnectClient
      PROVE  [MonitorNext]_healthVars
  BY <1>3 DEF ConnectClient, MonitorNext
<1>4. CASE StarterRequests \/ StartTriesAgain \/ Ping \/ \E p \in Processors : Processor(p)
  BY <1>2, <1>4 DEF StarterRequests, StartTriesAgain, Ping, Processor
<1>5. CASE StartConnects \/ CheckConnects
  BY <1>3, <1>5 DEF StartConnects, CheckConnects
<1>6. CASE Stopped
  BY <1>6 DEF Stopped, MonitorNext
<1>7. CASE Reconnection
  BY <1>7 DEF Reconnection, RecordConnectionEstablished, MonitorNext
<1>8. CASE Monitor
  <2>1. CASE UpdateStatus
    BY <2>1 DEF MonitorNext
  <2>2. CASE PerformHealthCheck(~Working)
    <3>1. (~Working) \in BOOLEAN
      BY DEF Working
    <3>. QED
      BY <2>2, <3>1 DEF MonitorNext
  <2>. QED
    BY <1>8, <2>1, <2>2 DEF Monitor
<1>9. CASE \/ Make \/ Start \/ StartFailsToConnect \/ Starter \/ HealthCheck \/ HealthCheckConnects
           \/ CheckFailsToConnect \/ EndLoop \/ Stop \/ StopDisconnects \/ ServerStep \/ Loss
  BY <1>9 DEF Make, Start, StartFailsToConnect, Starter, HealthCheck, HealthCheckConnects,
     CheckFailsToConnect, EndLoop, Stop, StopDisconnects, ServerStep, Loss
<1>. QED
  BY <1>1, <1>4, <1>5, <1>6, <1>7, <1>8, <1>9 DEF Next, PeriodicTasks

LEMMA OwnPreserved ==
  ASSUME OwnTypeOK, [Next]_vars
  PROVE  OwnTypeOK'
<1>. USE DEF OwnTypeOK
<1>1. CASE UNCHANGED agentVars
  BY <1>1 DEF agentVars
<1>2. 0 \in 0..(Tries - 1)
  BY AgentAssumption
<1>3. CASE Start \/ StartConnects
  BY <1>2, <1>3 DEF Start, StartConnects
<1>4. CASE StartFailsToConnect
  BY <1>2, <1>4, AgentAssumption DEF StartFailsToConnect
<1>5. CASE StarterRequests
  BY <1>2, <1>5 DEF StarterRequests
<1>6. CASE StartTriesAgain
  BY <1>6, AgentAssumption DEF StartTriesAgain
<1>7. CASE PeriodicTasks
  BY <1>7 DEF PeriodicTasks, HealthCheck, HealthCheckConnects, CheckConnects,
     CheckFailsToConnect, EndLoop
<1>8. CASE Stop \/ StopDisconnects \/ Stopped
  BY <1>8 DEF Stop, StopDisconnects, Stopped
<1>9. ASSUME ~UNCHANGED agentVars
      PROVE  \/ Start \/ StartConnects \/ StartFailsToConnect \/ StarterRequests
             \/ StartTriesAgain \/ PeriodicTasks \/ Stop \/ StopDisconnects \/ Stopped
  BY <1>9 DEF Next, vars, Make, Starter, Ping, Processor, ServerStep, Reconnection, Loss, Monitor
<1>. QED
  BY <1>1, <1>3, <1>4, <1>5, <1>6, <1>7, <1>8, <1>9

(* A minted token is within the bound of the contract, and a launch holds    *)
(* only tokens that exist.                                                   *)
LEMMA MintedTypes ==
  ASSUME MinterTypeOK, [MinterNext]_mintVars
  PROVE  MinterTypeOK'
<1>. USE DEF MinterTypeOK, Token
<1>1. CASE UNCHANGED mintVars
  BY <1>1 DEF mintVars
<1>2. ASSUME Fail PROVE MinterTypeOK'
  BY <1>2 DEF Fail
<1>3. ASSUME UNCHANGED <<owners, env, mined>>, tokenID' \in Token \cup {0},
             launch' \in {"none", "config", "upload", "nonce", "signature", "prepare", "send",
                          "wait", "receipt", "made"}
      PROVE  MinterTypeOK'
  BY <1>3
<1>4. ASSUME NEW from, NEW to \in {"upload", "nonce", "signature", "prepare", "send", "wait"},
             MintStep(from, to)
      PROVE  MinterTypeOK'
  BY <1>2, <1>3, <1>4 DEF MintStep
<1>5. ASSUME NEW mint \in BOOLEAN, NEW given \in Token \cup {0}, NewEnhancedAgent(mint, given)
      PROVE  MinterTypeOK'
  BY <1>2, <1>3, <1>5 DEF NewEnhancedAgent, Garbage
<1>6. CASE Launch
  <2>1. PICK mint \in BOOLEAN, given \in OurTokens \cup {0} :
          NewEnhancedAgent(mint, given) \/ NewSimpleOpenAIAgent(mint, given)
    BY <1>6 DEF Launch
  <2>2. given \in Token \cup {0}
    BY MinterAssumption DEF OurTokens
  <2>3. CASE NewSimpleOpenAIAgent(mint, given)
    <3>. DEFINE token == IF given = 0 /\ ~mint /\ env > 0 THEN env ELSE given
    <3>1. NewEnhancedAgent(mint \/ token = 0, token)
      BY <2>3 DEF NewSimpleOpenAIAgent
    <3>2. token \in Token \cup {0}
      BY <2>2 DEF Garbage
    <3>3. (mint \/ token = 0) \in BOOLEAN
      OBVIOUS
    <3>. HIDE DEF token
    <3>. QED
      BY <1>5, <3>1, <3>2, <3>3
  <2>. QED
    BY <1>5, <2>1, <2>2, <2>3
<1>7. CASE GetContractConfig \/ UploadMetadata \/ RequestMintSignature
  BY <1>4, <1>7 DEF GetContractConfig, UploadMetadata, RequestMintSignature
<1>8. CASE GetNonce
  BY <1>3, <1>4, <1>8 DEF GetNonce
<1>9. CASE PrepareMint
  BY <1>2, <1>4, <1>9 DEF PrepareMint
<1>10. ASSUME NEW who \in {"us", "others"}, owners' = Append(owners, who), Len(owners) < MaxTokens
       PROVE  /\ owners' \in Seq({"us", "others"}) /\ Len(owners') <= MaxTokens
              /\ Len(owners') \in Token
  BY <1>10, MinterAssumption
<1>11. CASE SendTransaction
  BY <1>4, <1>10, <1>11 DEF SendTransaction
<1>12. CASE WaitForTransaction
  BY <1>2, <1>10, <1>12 DEF WaitForTransaction
<1>13. CASE TakeToken
  BY <1>2, <1>13 DEF TakeToken
<1>14. CASE OthersMint
  BY <1>10, <1>14 DEF OthersMint
<1>. QED
  BY <1>1, <1>6, <1>7, <1>8, <1>9, <1>11, <1>12, <1>13, <1>14 DEF MinterNext, MintAgent

\* An agent's state is well typed, with everything it is made of, in any
\* scenario: the retries stay within their limit, the monitor always has a
\* status for its count, and a token is one of the contract.
THEOREM AgentTyping == Spec => []TypeOK
<1>. DEFINE IInv == OwnTypeOK /\ HealthTypeOK /\ MinterTypeOK
<1>1. Init => IInv
  <2>. SUFFICES ASSUME Init PROVE IInv
    OBVIOUS
  <2>1. OwnTypeOK
    <3>1. 0 \in 0..(Tries - 1)
      BY AgentAssumption
    <3>. QED
      BY <3>1 DEF Init, OwnTypeOK
  <2>2. HealthTypeOK
    BY MonitorAssumption DEF Init, HealthInit, HealthTypeOK
  <2>3. <<>> \in Seq({"us", "others"}) /\ Len(<<>>) <= MaxTokens
    BY MinterAssumption
  <2>4. <<"us">> \in Seq({"us", "others"}) /\ Len(<<"us">>) <= MaxTokens
    BY MinterAssumption
  <2>5. 1 \in Token
    BY MinterAssumption DEF Token
  <2>6. MinterTypeOK
    BY <2>3, <2>4, <2>5 DEF Init, MinterInit, MinterTypeOK
  <2>. QED
    BY <2>1, <2>2, <2>6
<1>2. IInv /\ [Next]_vars => IInv'
  <2>. SUFFICES ASSUME IInv, [Next]_vars PROVE IInv'
    OBVIOUS
  <2>. QED
    BY OwnPreserved, AgentMonitors, HealthPreserved, AgentMints, MintedTypes
<1>3. IInv /\ AuthTypeOK => TypeOK
  BY DEF OwnTypeOK, TypeOK
<1>. HIDE DEF IInv
<1>. QED
  BY <1>1, <1>2, <1>3, AgentAuthenticates, AuthTyping, PTL DEF Spec
=============================================================================
