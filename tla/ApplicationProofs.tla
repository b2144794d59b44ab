--------------------------- MODULE ApplicationProofs ---------------------------
(***************************************************************************)
(* Proofs about the application, for any number of tasks, any menus, any   *)
(* listings, prices and figures.                                           *)
(*                                                                         *)
(* First the alerts: an alert is marked for its own condition, and the     *)
(* tasks do nothing else with the alerts than use their service.           *)
(*                                                                         *)
(* Then the tasks: the shape of each of the commands (HandleFits) and an   *)
(* invariant on what a task has heard so far, from which it follows that   *)
(* figures are answered on data only, in replies without sections.         *)
(*                                                                         *)
(* Last what is shown: a section says no more than its answers do,         *)
(* rankings hold the extremes, and the mood, the note on the index, the    *)
(* volatility and the trend are right for all figures.  The trend needs    *)
(* sums over sequences of any length, for which induction is derived from  *)
(* the order of the finite sets.                                           *)
(***************************************************************************)
EXTENDS Application, FiniteSetTheorems, WellFoundedInduction, TLAPS

(* Sequences of alerts. *)
LEMMA Removed ==
  ASSUME NEW S, NEW s \in Seq(S), NEW i \in 1..Len(s)
  PROVE  RemoveAt(s, i) \in Seq(S)
  BY DEF RemoveAt

LEMMA TailOf ==
  ASSUME NEW S, NEW s \in Seq(S), s # <<>>
  PROVE  Tail(s) \in Seq(S) /\ s[1] \in S /\ Len(s) >= 1 /\ (Len(s) = 1 <=> Tail(s) = <<>>)
<1>1. Len(s) \in Nat \ {0} /\ Tail(s) \in Seq(S) /\ Len(Tail(s)) = Len(s) - 1 /\ s[1] \in S
  OBVIOUS
<1>2. Len(s) = 1 => Tail(s) = <<>>
  <2>1. \A t \in Seq(S) : Len(t) = 0 => t = <<>>
    OBVIOUS
  <2>2. Len(s) = 1 => Len(Tail(s)) = 0
    BY <1>1
  <2>. QED
    BY <1>1, <2>1, <2>2
<1>3. Tail(s) = <<>> => Len(s) = 1
  BY <1>1
<1>. QED
  BY <1>1, <1>2, <1>3

LEMMA Wider ==
  ASSUME NEW S, NEW T, S \subseteq T, NEW s \in Seq(S)
  PROVE  s \in Seq(T)
  OBVIOUS

-----------------------------------------------------------------------------
(* What the comparison of the checker says, the condition means. *)
LEMMA TriggersMeets ==
  ASSUME NEW c \in Condition, NEW p \in Prices, Triggers(c.op, p, c.value)
  PROVE  Meets(c, p)
<1>1. c.op \in {">", "<", ">=", "<="} /\ c.value \in Int /\ p \in Int
  BY DEF Condition, Ops, Prices
<1>2. CASE c.op = ">"
  BY <1>1, <1>2 DEF Triggers, Meets
<1>3. CASE c.op = "<"
  BY <1>1, <1>3 DEF Triggers, Meets
<1>4. CASE c.op = ">="
  BY <1>1, <1>4 DEF Triggers, Meets
<1>5. CASE c.op = "<="
  BY <1>1, <1>5 DEF Triggers, Meets
<1>. QED
  BY <1>1, <1>2, <1>3, <1>4, <1>5

\* Every alert whose condition the present price meets is in reached; what is
\* about to be marked was met when the price was asked.
AlertsInv ==
  /\ AlertsTypeOK
  /\ \A a \in Alerts : Meets(cond[a], price[cond[a].sym]) => a \in reached
  /\ checker = "mark" => todo[1] \in reached
  /\ triggered \subseteq reached

LEMMA AlertsPreserved ==
  ASSUME AlertsInv, [AlertsNext]_alertVars
  PROVE  AlertsInv'
<1>. USE DEF Alerts
<1>0. /\ Len(cond) \in Nat /\ MaxAlerts \in Nat
      /\ \A a \in Alerts : cond[a] \in Conditions /\ cond[a] \in Condition
                           /\ cond[a].sym \in Symbols
  BY AlertAssumption DEF AlertsInv, AlertsTypeOK, Condition
<1>1. CASE UNCHANGED alertVars
  BY <1>1 DEF AlertsInv, AlertsTypeOK, Meets, alertVars, checking
<1>2. ASSUME NEW c \in Conditions, AddAlert(c)
      PROVE  AlertsInv'
  <2>1. /\ cond' \in Seq(Conditions) /\ Len(cond') = Len(cond) + 1 /\ Len(cond') <= MaxAlerts
        /\ cond'[Len(cond) + 1] = c
        /\ \A a \in 1..Len(cond) : cond'[a] = cond[a]
    BY <1>0, <1>2 DEF AddAlert, AlertsInv, AlertsTypeOK
  <2>2. Alerts \subseteq Alerts' /\ Len(cond) + 1 \in Alerts' /\ UNCHANGED <<price, triggered, todo, checker>>
    BY <1>0, <1>2, <2>1 DEF AddAlert, checking
  <2>3. alerts \in Seq(Alerts') /\ todo \in Seq(Alerts')
    BY <2>2, Wider DEF AlertsInv, AlertsTypeOK
  <2>4. alerts' \in Seq(Alerts')
    BY <1>2, <2>2, <2>3 DEF AddAlert
  <2>5. reached \subseteq reached' /\ reached' \subseteq Alerts'
        /\ (Meets(c, price[c.sym]) => Len(cond) + 1 \in reached')
    BY <1>2, <2>2 DEF AddAlert, AlertsInv, AlertsTypeOK
  <2>6. AlertsTypeOK'
    BY <2>1, <2>2, <2>3, <2>4, <2>5 DEF AlertsInv, AlertsTypeOK
  <2>7. ASSUME NEW a \in Alerts', Meets(cond'[a], price[cond'[a].sym])
        PROVE  a \in reached'
    <3>1. CASE a = Len(cond) + 1
      BY <2>1, <2>5, <2>7, <3>1
    <3>2. CASE a \in 1..Len(cond)
      BY <2>1, <2>5, <2>7, <3>2 DEF AlertsInv
    <3>. QED
      BY <1>0, <2>1, <3>1, <3>2
  <2>. QED
    BY <2>2, <2>5, <2>6, <2>7 DEF AlertsInv, Meets
<1>3. ASSUME NEW index \in 0..(MaxAlerts - 1), RemoveAlert(index)
      PROVE  AlertsInv'
  <2>1. index + 1 \in 1..Len(alerts)
    BY <1>3 DEF RemoveAlert, AlertsInv, AlertsTypeOK
  <2>2. alerts' \in Seq(Alerts)
    BY <1>3, <2>1, Removed DEF RemoveAlert, AlertsInv, AlertsTypeOK
  <2>. QED
    BY <1>3, <2>2 DEF RemoveAlert, AlertsInv, AlertsTypeOK, Meets, checking
<1>4. CASE ClearAlerts
  BY <1>4 DEF ClearAlerts, AlertsInv, AlertsTypeOK, Meets, checking
<1>5. ASSUME todo # <<>>, Continue, UNCHANGED <<price, cond, alerts, reached>>,
             triggered' \subseteq reached
      PROVE  AlertsInv'
  <2>1. /\ todo' \in Seq(Alerts) /\ checker' \in {"idle", "resolve"}
        /\ checker' = "idle" <=> todo' = <<>>
    BY <1>5, TailOf DEF Continue, AlertsInv, AlertsTypeOK
  <2>. QED
    BY <1>5, <2>1 DEF AlertsInv, AlertsTypeOK, Meets
<1>6. CASE Check
  <2>0. /\ checker # "idle" => todo # <<>> /\ todo[1] \in Alerts
    BY TailOf DEF AlertsInv, AlertsTypeOK
  <2>1. CASE Tick
    BY <2>1 DEF Tick, AlertsInv, AlertsTypeOK, Meets
  <2>2. CASE Skip \/ ResolveFails \/ MarketFails
    BY <1>5, <2>0, <2>2 DEF Skip, ResolveFails, MarketFails, ContinueAfterError, AlertsInv
  <2>3. CASE Resolve
    BY <2>0, <2>3 DEF Resolve, AlertsInv, AlertsTypeOK, Meets
  <2>4. CASE Market
    <3>1. CASE Triggers(Asked.op, price[Asked.sym], Asked.value)
      <4>1. checker = "market" /\ checker' = "mark" /\ UNCHANGED <<price, cond, alerts, triggered, todo, reached>>
        BY <2>4, <3>1 DEF Market
      <4>2. todo # <<>> /\ todo[1] \in Alerts
        BY <2>0, <4>1
      <4>3. Asked \in Condition /\ price[Asked.sym] \in Prices
        BY <1>0, <4>2 DEF Asked, AlertsInv, AlertsTypeOK
      <4>4. todo[1] \in reached
        BY <3>1, <4>2, <4>3, TriggersMeets DEF Asked, AlertsInv
      <4>. QED
        BY <4>1, <4>2, <4>4 DEF AlertsInv, AlertsTypeOK, Meets
    <3>2. CASE ~Triggers(Asked.op, price[Asked.sym], Asked.value)
      BY <1>5, <2>0, <2>4, <3>2 DEF Market, AlertsInv
    <3>. QED
      BY <3>1, <3>2
  <2>5. CASE Mark
    BY <1>5, <2>0, <2>5 DEF Mark, AlertsInv
  <2>. QED
    BY <1>6, <2>1, <2>2, <2>3, <2>4, <2>5 DEF Check
<1>7. ASSUME NEW s \in Symbols, NEW p \in Prices, PriceMoves(s, p)
      PROVE  AlertsInv'
  <2>1. price' \in [Symbols -> Prices] /\ UNCHANGED <<cond, alerts, triggered, todo, checker>>
    BY <1>7 DEF PriceMoves, AlertsInv, AlertsTypeOK, checking
  <2>2. reached \subseteq reached' /\ reached' \subseteq Alerts
    BY <1>7 DEF PriceMoves, AlertsInv, AlertsTypeOK
  <2>3. ASSUME NEW a \in Alerts, Meets(cond[a], price'[cond[a].sym])
        PROVE  a \in reached'
    <3>1. CASE cond[a].sym = s
      <4>1. price'[s] = p
        BY <1>7 DEF PriceMoves, AlertsInv, AlertsTypeOK
      <4>. QED
        BY <1>7, <2>3, <3>1, <4>1 DEF PriceMoves
    <3>2. CASE cond[a].sym # s
      <4>1. price'[cond[a].sym] = price[cond[a].sym]
        BY <1>0, <1>7, <3>2 DEF PriceMoves, AlertsInv, AlertsTypeOK
      <4>. QED
        BY <2>2, <2>3, <4>1 DEF AlertsInv
    <3>. QED
      BY <3>1, <3>2
  <2>. QED
    BY <2>1, <2>2, <2>3 DEF AlertsInv, AlertsTypeOK, Meets
<1>. QED
  BY <1>1, <1>2, <1>3, <1>4, <1>6, <1>7 DEF AlertsNext

\* For any conditions, prices and numbers of alerts: the list, the copy of the
\* checker and its marks hold alerts that were added, and an alert is marked
\* only if its own condition was met since it was added.
THEOREM AlertsRight == AlertsSpec => [](AlertsTypeOK /\ TriggeredWasReached)
<1>1. AlertsInit => AlertsInv
  <2>. SUFFICES ASSUME AlertsInit PROVE AlertsInv
    OBVIOUS
  <2>1. Alerts = {} /\ Len(cond) = 0 /\ 1 \in Prices /\ MaxAlerts \in Nat
    BY AlertAssumption DEF AlertsInit, Alerts, Prices
  <2>2. cond \in Seq(Conditions) /\ alerts \in Seq(Alerts) /\ todo \in Seq(Alerts)
    BY DEF AlertsInit
  <2>. QED
    BY <2>1, <2>2 DEF AlertsInit, AlertsInv, AlertsTypeOK
<1>2. AlertsInv => AlertsTypeOK /\ TriggeredWasReached
  BY DEF AlertsInv, TriggeredWasReached
<1>. QED
  BY <1>1, <1>2, AlertsPreserved, PTL DEF AlertsSpec

-----------------------------------------------------------------------------
LEMMA TasksUseAlerts ==
  ASSUME [Next]_vars
  PROVE  [AlertsNext]_alertVars
<1>1. CASE UNCHANGED vars
  BY <1>1 DEF vars
<1>2. ASSUME NEW t \in Tasks, AlertCommand(t)
      PROVE  [AlertsNext]_alertVars
  BY <1>2 DEF AlertCommand, AlertsNext
<1>3. ASSUME NEW t \in Tasks, Receive(t) \/ Execute(t) \/ Expire(t), ~AlertCommand(t)
      PROVE  UNCHANGED alertVars
  BY <1>3 DEF Receive, Execute, Expire, Refuse, MissesKey, Begin, Shuffle, MakeRequest, AskTopMarkets,
     AskExchange, AskToken, Finish, ReadSentiment, ReadVolatility, ReadTrend, ReadFearGreed, Respond
<1>4. CASE Checker
  BY <1>4 DEF Checker, AlertsNext
<1>5. ASSUME NEW s \in Symbols, NEW p \in Prices, PriceMoves(s, p)
      PROVE  [AlertsNext]_alertVars
  BY <1>5 DEF AlertsNext
<1>. QED
  BY <1>1, <1>2, <1>3, <1>4, <1>5 DEF Next, Execute

\* What any number of tasks, the checker and the markets do to the alerts is a
\* use of the alert service.
THEOREM ApplicationUsesAlerts == Spec => AlertsSpec
<1>1. Init => AlertsInit
  BY DEF Init
<1>. QED
  BY <1>1, TasksUseAlerts, PTL DEF Spec, AlertsSpec

\* In the program, with any tasks beside each other, an alert is marked only if
\* its own condition was met since it was added.
THEOREM MarkedWasReached == Spec => []TriggeredWasReached
  BY ApplicationUsesAlerts, AlertsRight, PTL

-----------------------------------------------------------------------------
(* What the commands ask for. *)
Outcomes == {"next", "text", "error"}

\* A request of the command c.  Only sectioned commands pass over a failure;
\* losers passes over an empty list.
Fits(c, r) ==
  \/ /\ r.kind = "request" /\ c \notin {"top", "digest"} /\ c \notin Sectioned
     /\ \A a \in Answers : r.on[a] \in Outcomes
     /\ \A a \in Answers : r.on[a] = "next" => a = "ok" \/ (c = "losers" /\ a = "empty")
  \/ r.kind = "top" /\ c \in {"top", "digest"}
  \/ r.kind \in {"gainers", "losers"} /\ c \in Sectioned /\ r.cex \in Range(SupportedCexList)
  \/ r.kind = "token" /\ c \in Sectioned

PlanFits(c, p) ==
  /\ Len(p.asks) \in Nat \ {0}
  /\ c = "losers" => Len(p.asks) = 1
  /\ \A i \in 1..Len(p.asks) : Fits(c, p.asks[i])

CommandFits(c, h) ==
  /\ h.key \in {"none", "text", "error"}
  /\ Len(h.plans) \in Nat
  /\ \A k \in 1..Len(h.plans) : PlanFits(c, h.plans[k])

\* A request of which only a good answer lets the command go on.
Strict(r) ==
  /\ r.kind = "request"
  /\ \A a \in Answers : r.on[a] \in Outcomes
  /\ \A a \in Answers : r.on[a] = "next" => a = "ok"

LEMMA StrictFits ==
  ASSUME NEW c, NEW r, Strict(r), c \notin {"top", "digest"}, c \notin Sectioned
  PROVE  Fits(c, r)
  BY DEF Strict, Fits

LEMMA OwnStrict ==
  ASSUME NEW e \in {"text", "error"}, NEW g \in {"text", "error"},
         NEW r \in {"text", "error"}, NEW d \in {"text", "error"}
  PROVE  Strict(Own(e, g, r, d))
  BY DEF Strict, Own, Request, Answers, Outcomes

LEMMA ValueOrErrorStrict == Strict(Client([a \in Answers |-> ValueOrError(a)], "text", "text"))
<1>1. \A a \in Answers : ValueOrError(a) = "value" <=> a = "ok"
  BY DEF ValueOrError
<1>2. \A a \in Answers : ValueOrError(a) \in {"value", "error"}
  BY DEF ValueOrError
<1>. DEFINE on == [a \in Answers |-> CASE [x \in Answers |-> ValueOrError(x)][a] = "value" -> "next"
                                       [] [x \in Answers |-> ValueOrError(x)][a] = "none" -> "text"
                                       [] [x \in Answers |-> ValueOrError(x)][a] = "error" -> "text"]
<1>3. ASSUME NEW a \in Answers
      PROVE  on[a] = IF a = "ok" THEN "next" ELSE "text"
  BY <1>1, <1>2
<1>4. Client([a \in Answers |-> ValueOrError(a)], "text", "text") = [kind |-> "request", on |-> on]
  BY DEF Client, Request
<1>. HIDE DEF on
<1>. QED
  BY <1>3, <1>4 DEF Strict, Outcomes

LEMMA ClientsStrict ==
  /\ Strict(resolve) /\ Strict(market) /\ Strict(protocol)
  /\ Strict(resolveCoinID) /\ Strict(fetchSimplePrice)
  BY ValueOrErrorStrict DEF resolve, market, protocol, resolveCoinID, fetchSimplePrice,
     ResolveCoinID, FetchCoinMarket, FetchProtocolTVL

LEMMA BestPair ==
  /\ \A a \in Answers : searchBestDexPair[a] = IF a = "ok" THEN "value" ELSE IF a = "empty" THEN "none" ELSE "error"
  /\ Strict(Client(searchBestDexPair, "text", "text"))
<1>1. \A a \in Answers : searchBestDexPair[a] = IF a = "ok" THEN "value" ELSE IF a = "empty" THEN "none" ELSE "error"
  BY DEF searchBestDexPair, EmptyIsNone, ValueOrError
<1>. QED
  BY <1>1 DEF Client, Request, Strict, Outcomes

(* Plans of one to four requests. *)
LEMMA OneAsk ==
  ASSUME NEW c, NEW r, Fits(c, r), NEW b
  PROVE  PlanFits(c, Plan(<<r>>, b))
  BY DEF PlanFits, Plan

LEMMA ManyAsks ==
  ASSUME NEW c, c # "losers", NEW p, NEW q, NEW r, NEW s,
         Fits(c, p), Fits(c, q), Fits(c, r), Fits(c, s), NEW b
  PROVE  /\ PlanFits(c, Plan(<<p, q>>, b))
         /\ PlanFits(c, Plan(<<p, q, r>>, b))
         /\ PlanFits(c, Plan(<<p, q, r, s>>, b))
  BY DEF PlanFits, Plan

LEMMA OnlyOne ==
  ASSUME NEW p
  PROVE  Len(<<p>>) = 1 /\ \A k \in 1..Len(<<p>>) : <<p>>[k] = p
  OBVIOUS

LEMMA OnePlan ==
  ASSUME NEW c, NEW p, PlanFits(c, p), NEW needs \in {"none", "text", "error"}, NEW b
  PROVE  CommandFits(c, Command(b, needs, <<p>>))
<1>1. Command(b, needs, <<p>>).plans = <<p>> /\ Command(b, needs, <<p>>).key = needs
  BY DEF Command
<1>. QED
  BY OnlyOne, <1>1 DEF CommandFits

LEMMA NoPlan ==
  ASSUME NEW c, NEW b
  PROVE  CommandFits(c, Command(b, "none", <<>>))
  BY DEF CommandFits, Command

LEMMA ExchangesFit ==
  ASSUME NEW c \in Sectioned, NEW kind \in {"gainers", "losers"}
  PROVE  /\ Len(Exchanges(kind)) = 7
         /\ \A i \in 1..7 : Fits(c, Exchanges(kind)[i])
<1>1. Len(SupportedCexList) = 7 /\ \A i \in 1..7 : SupportedCexList[i] \in Range(SupportedCexList)
  BY DEF SupportedCexList, Range
<1>2. Exchanges(kind) = [i \in 1..7 |-> [kind |-> kind, cex |-> SupportedCexList[i]]]
  BY <1>1 DEF Exchanges
<1>3. Len(Exchanges(kind)) = 7
  BY <1>2
<1>. QED
  BY <1>1, <1>2, <1>3 DEF Fits

\* A command of one strict request.
LEMMA OneStrict ==
  ASSUME NEW c, c \notin {"top", "digest"}, c \notin Sectioned, NEW r, Strict(r),
         NEW needs \in {"none", "text", "error"}, NEW poor, NEW b
  PROVE  CommandFits(c, Command(b, needs, <<Plan(<<r>>, poor)>>))
<1>1. Fits(c, r)
  BY StrictFits
<1>2. PlanFits(c, Plan(<<r>>, poor))
  BY <1>1, OneAsk
<1>. QED
  BY <1>2, OnePlan

LEMMA CommandsFit ==
  /\ CommandFits("price", CmdPrice) /\ CommandFits("compare", CmdCompare)
  /\ CommandFits("convert", CmdConvert)
  /\ CommandFits("digest", CmdDigest) /\ CommandFits("top", CmdTop)
  /\ CommandFits("gainers", CmdGainers) /\ CommandFits("losers", CmdLosers)
  /\ CommandFits("gainers_cex", CmdGainersCEX) /\ CommandFits("losers_cex", CmdLosersCEX)
  /\ CommandFits("gainers_compare", CmdGainersCompare)
  /\ CommandFits("gas", CmdGas) /\ CommandFits("dexprice", CmdDexPrice)
  /\ CommandFits("dexmeme", CmdDexMeme) /\ CommandFits("portfolio", CmdPortfolio)
  /\ CommandFits("tvl", CmdTVL) /\ CommandFits("tvlchain", CmdTVLChain)
  /\ CommandFits("tvlprotocols", CmdTVLProtocols) /\ CommandFits("feargreed", CmdFearGreed)
  /\ CommandFits("sentiment", CmdSentiment) /\ CommandFits("volatility", CmdVolatility)
  /\ CommandFits("trend", CmdTrend) /\ CommandFits("news", CmdNews)
<1>. DEFINE Texts == {"text", "error"}
<1>1. CommandFits("price", CmdPrice) /\ CommandFits("sentiment", CmdSentiment)
  <2>1. ASSUME NEW c \in {"price", "sentiment"}
        PROVE  PlanFits(c, Plan(<<resolve, market>>, FALSE))
    BY ClientsStrict, StrictFits, ManyAsks DEF Sectioned
  <2>. QED
    BY <2>1, OnePlan DEF CmdPrice, CmdSentiment
<1>2. CommandFits("compare", CmdCompare)
  <2>1. Fits("compare", resolve) /\ Fits("compare", market)
    BY ClientsStrict, StrictFits DEF Sectioned
  <2>2. PlanFits("compare", Plan(<<resolve, resolve, market, market>>, FALSE))
    BY <2>1, ManyAsks
  <2>. QED
    BY <2>2, OnePlan DEF CmdCompare
<1>3. CommandFits("convert", CmdConvert)
  <2>. DEFINE P == Plan(<<resolveCoinID, resolveCoinID, fetchSimplePrice, fetchSimplePrice>>, TRUE)
              Q == Plan(<<resolveCoinID, fetchSimplePrice>>, FALSE)
              R == Plan(<<resolveCoinID, fetchSimplePrice>>, TRUE)
  <2>1. Fits("convert", resolveCoinID) /\ Fits("convert", fetchSimplePrice)
    BY ClientsStrict, StrictFits DEF Sectioned
  <2>2. PlanFits("convert", P) /\ PlanFits("convert", Q) /\ PlanFits("convert", R)
    BY <2>1, ManyAsks
  <2>3. CmdConvert.plans = <<P, Q, R>> /\ CmdConvert.key = "none"
    BY DEF CmdConvert, Command
  <2>. HIDE DEF P, Q, R
  <2>4. Len(CmdConvert.plans) = 3
    BY <2>3
  <2>5. \A k \in 1..3 : PlanFits("convert", CmdConvert.plans[k])
    BY <2>2, <2>3
  <2>. QED
    BY <2>3, <2>4, <2>5 DEF CommandFits
<1>4. CommandFits("digest", CmdDigest) /\ CommandFits("top", CmdTop)
  <2>1. ASSUME NEW c \in {"digest", "top"}
        PROVE  PlanFits(c, Plan(<<TopMarkets>>, FALSE))
    <3>1. Fits(c, TopMarkets)
      BY DEF Fits, TopMarkets
    <3>. QED
      BY <3>1, OneAsk
  <2>. QED
    BY <2>1, OnePlan DEF CmdDigest, CmdTop
<1>5. /\ CommandFits("gainers", CmdGainers) /\ CommandFits("tvlprotocols", CmdTVLProtocols)
      /\ CommandFits("tvlchain", CmdTVLChain) /\ CommandFits("feargreed", CmdFearGreed)
  BY OwnStrict, OneStrict DEF CmdGainers, CmdTVLProtocols, CmdTVLChain, CmdFearGreed, Sectioned
<1>6. CommandFits("losers", CmdLosers)
  <2>1. Fits("losers", Own("next", "error", "error", "error"))
    BY DEF Fits, Own, Request, Answers, Outcomes, Sectioned
  <2>. QED
    BY <2>1, OneAsk, OnePlan DEF CmdLosers
<1>7. CommandFits("gainers_cex", CmdGainersCEX) /\ CommandFits("losers_cex", CmdLosersCEX)
  <2>1. ASSUME NEW c \in Sectioned, NEW kind \in {"gainers", "losers"}
        PROVE  PlanFits(c, Plan(Exchanges(kind), FALSE))
    BY <2>1, ExchangesFit, SMTT(40) DEF PlanFits, Plan, Sectioned
  <2>. QED
    BY <2>1, OnePlan DEF CmdGainersCEX, CmdLosersCEX, Sectioned
<1>8. CommandFits("gainers_compare", CmdGainersCompare)
  <2>. DEFINE of == Exchanges("gainers")
              P == Plan(<<of[2], of[3]>>, FALSE)
              Q == Plan(<<of[1], of[6]>>, FALSE)
  <2>1. \A i \in 1..7 : Fits("gainers_compare", of[i])
    BY ExchangesFit DEF Sectioned
  <2>2. PlanFits("gainers_compare", P) /\ PlanFits("gainers_compare", Q)
    <3>. HIDE DEF of
    <3>1. /\ Fits("gainers_compare", of[1]) /\ Fits("gainers_compare", of[2])
          /\ Fits("gainers_compare", of[3]) /\ Fits("gainers_compare", of[6])
      BY <2>1
    <3>2. PlanFits("gainers_compare", P)
      BY <3>1, ManyAsks
    <3>3. PlanFits("gainers_compare", Q)
      BY <3>1, ManyAsks
    <3>. QED
      BY <3>2, <3>3
  <2>3. CmdGainersCompare.plans = <<P, Q>> /\ CmdGainersCompare.key = "none"
    BY DEF CmdGainersCompare, Command
  <2>. HIDE DEF P, Q
  <2>4. Len(CmdGainersCompare.plans) = 2
    BY <2>3
  <2>5. \A k \in 1..2 : PlanFits("gainers_compare", CmdGainersCompare.plans[k])
    BY <2>2, <2>3
  <2>. QED
    BY <2>3, <2>4, <2>5 DEF CommandFits
<1>9. /\ CommandFits("gas", CmdGas) /\ CommandFits("portfolio", CmdPortfolio)
      /\ CommandFits("news", CmdNews)
  BY OwnStrict, OneStrict DEF CmdGas, CmdPortfolio, CmdNews, Sectioned
<1>10. CommandFits("dexprice", CmdDexPrice)
  BY BestPair, OneStrict DEF CmdDexPrice, Sectioned
<1>11. CommandFits("dexmeme", CmdDexMeme)
  <2>. DEFINE asks == [i \in 1..5 |-> Token]
  <2>1. Fits("dexmeme", Token)
    BY DEF Fits, Token, Sectioned
  <2>2. Len(asks) = 5
    OBVIOUS
  <2>3. PlanFits("dexmeme", Plan(asks, FALSE))
    BY <2>1, <2>2 DEF PlanFits, Plan
  <2>. QED
    BY <2>3, OnePlan DEF CmdDexMeme
<1>12. CommandFits("tvl", CmdTVL)
  BY ClientsStrict, OneStrict DEF CmdTVL, Sectioned
<1>13. CommandFits("volatility", CmdVolatility) /\ CommandFits("trend", CmdTrend)
  <2>1. ASSUME NEW c \in {"volatility", "trend"}
        PROVE  PlanFits(c, Plan(<<resolve, market, Own("text", "error", "error", "error")>>, TRUE))
    <3>1. Fits(c, resolve) /\ Fits(c, market) /\ Fits(c, Own("text", "error", "error", "error"))
      BY ClientsStrict, OwnStrict, StrictFits DEF Sectioned
    <3>. QED
      BY <3>1, ManyAsks
  <2>. QED
    BY <2>1, OnePlan DEF CmdVolatility, CmdTrend
<1>. QED
  BY <1>1, <1>2, <1>3, <1>4, <1>5, <1>6, <1>7, <1>8, <1>9, <1>10, <1>11, <1>12, <1>13

LEMMA HandleFits ==
  ASSUME NEW c \in CommandNames
  PROVE  CommandFits(c, Handle[c])
<1>1. CommandNames =
        {"price", "compare", "digest", "tvl", "tvlchain", "tvlprotocols", "top", "gainers", "losers",
         "feargreed", "convert", "gainers_cex", "losers_cex", "gainers_compare", "gas", "dexprice",
         "dexmeme", "portfolio", "alert", "alert_list", "alert_remove", "alert_clear", "news",
         "sentiment", "volatility", "trend", "help"}
  BY DEF CommandNames, Handle
<1>2. CASE c \in {"alert", "alert_list", "alert_remove", "alert_clear", "help"}
  <2>1. /\ Handle.alert = Command(TRUE, "none", <<>>) /\ Handle.alert_list = Command(FALSE, "none", <<>>)
        /\ Handle.alert_remove = Command(TRUE, "none", <<>>) /\ Handle.alert_clear = Command(FALSE, "none", <<>>)
        /\ Handle.help = Command(TRUE, "none", <<>>)
    BY DEF Handle
  <2>. QED
    BY <1>2, <2>1, NoPlan
<1>3. CASE c \in {"price", "compare", "digest", "tvl", "tvlchain", "tvlprotocols", "top"}
  BY <1>3, CommandsFit DEF Handle
<1>4. CASE c \in {"gainers", "losers", "feargreed", "convert", "gainers_cex", "losers_cex", "gainers_compare"}
  BY <1>4, CommandsFit DEF Handle
<1>5. CASE c \in {"gas", "dexprice", "dexmeme", "portfolio", "news", "sentiment", "volatility", "trend"}
  BY <1>5, CommandsFit DEF Handle
<1>. QED
  BY <1>1, <1>2, <1>3, <1>4, <1>5

-----------------------------------------------------------------------------
(* What a task has heard, and where it is in its plan. *)
TaskRecords == [pc : {"idle", "asked", "shuffle", "run"} \cup Results, cmd : CommandNames,
                plan : Nat, at : Nat]

\* The answers that a reply of command c may rest on; the sections of one that has
\* sections are looked at one by one below.
Grounds(c, h) ==
  \/ h = {"ok"}
  \/ c \in {"top", "digest"} /\ "ok" \in h
  \/ c = "losers" /\ h = {"empty"}
  \/ c \in Sectioned

AsksOf(k) == Handle[k.cmd].plans[k.plan].asks

TaskRight(k, h, names) ==
  /\ k.pc # "idle" => k.cmd \in names
  /\ k.pc \in {"idle", "asked", "shuffle"} => h = {} /\ k.at = 1
  /\ k.pc \in {"run", "shuffle"} => k.plan \in 1..Len(Handle[k.cmd].plans) /\ k.at \in 1..(Len(AsksOf(k)) + 1)
  /\ k.pc = "run" => IF k.at = 1 THEN h = {} ELSE Grounds(k.cmd, h)
  /\ k.pc = "answer" => Grounds(k.cmd, h)

TasksInv ==
  /\ \E m \in Menus : menu = m.of /\ configured \in m.keys
  /\ crashed \in BOOLEAN
  /\ task \in [Tasks -> TaskRecords]
  /\ heard \in [Tasks -> SUBSET Answers]
  /\ expired \subseteq {t \in Tasks : task[t].pc # "idle"}
  /\ \A t \in Tasks : TaskRight(task[t], heard[t], menu[t])

LEMMA TasksStart ==
  ASSUME Init
  PROVE  TasksInv
<1>1. "help" \in CommandNames
  BY DEF CommandNames, Handle
<1>2. Idle \in TaskRecords
  BY <1>1 DEF Idle, TaskRecords
<1>3. \A t \in Tasks : TaskRight(Idle, {}, menu[t])
  BY DEF TaskRight, Idle
<1>. QED
  BY <1>2, <1>3 DEF Init, TasksInv

\* A step of one task is looked at alone.
LEMMA OneTask ==
  ASSUME TasksInv, NEW t \in Tasks, NEW k \in TaskRecords, NEW h \in SUBSET Answers,
         task' = [task EXCEPT ![t] = k], heard' = [heard EXCEPT ![t] = h],
         UNCHANGED <<menu, configured>>, crashed' \in BOOLEAN,
         expired' \subseteq expired, k.pc = "idle" => t \notin expired',
         TaskRight(k, h, menu[t])
  PROVE  TasksInv'
<1>1. /\ task' \in [Tasks -> TaskRecords] /\ heard' \in [Tasks -> SUBSET Answers]
      /\ task'[t] = k /\ heard'[t] = h
      /\ \A u \in Tasks \ {t} : task'[u] = task[u] /\ heard'[u] = heard[u]
  BY DEF TasksInv
<1>2. expired' \subseteq {u \in Tasks : task'[u].pc # "idle"}
  BY <1>1 DEF TasksInv
<1>3. \A u \in Tasks : TaskRight(task'[u], heard'[u], menu'[u])
  BY <1>1 DEF TasksInv
<1>. QED
  BY <1>1, <1>2, <1>3 DEF TasksInv

\* A task that goes to another place, with what it has heard.
LEMMA Goes ==
  ASSUME TasksInv, NEW t \in Tasks, NEW pc \in {"run"} \cup Results, Goto(t, pc),
         UNCHANGED <<menu, configured, heard>>, crashed' \in BOOLEAN, expired' = expired,
         task[t].pc # "idle",
         pc = "run" => task[t].pc = "shuffle",
         pc = "answer" => Grounds(task[t].cmd, heard[t])
  PROVE  TasksInv'
<1>. DEFINE k == [task[t] EXCEPT !.pc = pc]
<1>1. task[t] \in TaskRecords /\ heard[t] \in SUBSET Answers /\ TaskRight(task[t], heard[t], menu[t])
  BY DEF TasksInv
<1>2. k \in TaskRecords /\ k.pc = pc /\ k.cmd = task[t].cmd /\ k.plan = task[t].plan /\ k.at = task[t].at
  BY <1>1 DEF TaskRecords
<1>3. task' = [task EXCEPT ![t] = k] /\ heard' = [heard EXCEPT ![t] = heard[t]]
  BY DEF Goto, TasksInv
<1>. HIDE DEF k
<1>4. TaskRight(k, heard[t], menu[t])
  BY <1>1, <1>2 DEF TaskRight, AsksOf, Results
<1>5. k.pc # "idle"
  BY <1>2 DEF Results
<1>. QED
  BY <1>1, <1>2, <1>3, <1>4, <1>5, OneTask

\* A task that hears an answer: it goes on to the next request, or it ends.
LEMMA Hears ==
  ASSUME TasksInv, NEW t \in Tasks, NEW outcome \in Outcomes, NEW h \in SUBSET Answers,
         task[t].pc = "run", task[t].at <= Len(AsksOf(task[t])),
         After(t, outcome), heard' = [heard EXCEPT ![t] = h],
         UNCHANGED <<menu, configured, crashed, expired>>,
         outcome = "next" => Grounds(task[t].cmd, h)
  PROVE  TasksInv'
<1>1. /\ task[t] \in TaskRecords /\ TaskRight(task[t], heard[t], menu[t]) /\ crashed \in BOOLEAN
      /\ t \in DOMAIN task /\ task = [u \in Tasks |-> task[u]]
  BY DEF TasksInv
<1>2. CASE outcome = "next"
  <2>. DEFINE k == [task[t] EXCEPT !.at = task[t].at + 1]
  <2>1. /\ k \in TaskRecords /\ k.pc = "run" /\ k.cmd = task[t].cmd /\ k.plan = task[t].plan
        /\ k.at = task[t].at + 1
    BY <1>1 DEF TaskRecords
  <2>2. task' = [task EXCEPT ![t] = k]
    BY <1>1, <1>2 DEF After, Advance
  <2>. HIDE DEF k
  <2>3. Handle[k.cmd].plans[k.plan].asks = AsksOf(task[t]) /\ task[t].at \in Nat /\ task[t].cmd \in CommandNames
    BY <1>1, <2>1 DEF AsksOf, TaskRecords
  <2>4. task[t].at \in 1..Len(AsksOf(task[t])) /\ task[t].plan \in 1..Len(Handle[task[t].cmd].plans)
        /\ task[t].cmd \in menu[t]
    BY <1>1, <2>3 DEF TaskRight
  <2>5. Len(AsksOf(task[t])) \in Nat
    BY <2>3, <2>4, HandleFits, ZenonT(40) DEF CommandFits, PlanFits, AsksOf
  <2>6. AsksOf(k) = AsksOf(task[t])
    BY <2>3 DEF AsksOf
  <2>7. k.at \in 1..(Len(AsksOf(k)) + 1) /\ k.at # 1
    BY <2>1, <2>3, <2>4, <2>5, <2>6
  <2>8. TaskRight(k, h, menu[t])
    BY <1>2, <2>1, <2>4, <2>7 DEF TaskRight
  <2>. QED
    BY <1>1, <2>1, <2>2, <2>8, OneTask
<1>3. CASE outcome \in {"text", "error"}
  <2>. DEFINE k == [task[t] EXCEPT !.pc = outcome]
  <2>1. k \in TaskRecords /\ k.pc = outcome /\ k.cmd = task[t].cmd
    BY <1>1, <1>3 DEF TaskRecords, Results
  <2>2. task' = [task EXCEPT ![t] = k]
    BY <1>1, <1>3 DEF After, Goto
  <2>. HIDE DEF k
  <2>3. TaskRight(k, h, menu[t])
    BY <1>1, <1>3, <2>1 DEF TaskRight
  <2>. QED
    BY <1>1, <1>3, <2>1, <2>2, <2>3, OneTask
<1>. QED
  BY <1>2, <1>3 DEF Outcomes

LEMMA PlanHere ==
  ASSUME TasksInv, NEW t \in Tasks, task[t].pc = "run"
  PROVE  /\ task[t].cmd \in CommandNames /\ task[t].at \in Nat /\ task[t].at >= 1
         /\ PlanOf(t).asks = AsksOf(task[t]) /\ Len(AsksOf(task[t])) \in Nat \ {0}
         /\ task[t].cmd = "losers" => Len(AsksOf(task[t])) = 1
         /\ \A i \in 1..Len(AsksOf(task[t])) : Fits(task[t].cmd, AsksOf(task[t])[i])
<1>1. task[t] \in TaskRecords /\ TaskRight(task[t], heard[t], menu[t])
  BY DEF TasksInv
<1>2. /\ task[t].cmd \in CommandNames /\ task[t].at \in Nat /\ task[t].at >= 1
      /\ task[t].plan \in 1..Len(Handle[task[t].cmd].plans)
  BY <1>1 DEF TaskRecords, TaskRight
<1>3. PlanFits(task[t].cmd, Handle[task[t].cmd].plans[task[t].plan])
  BY <1>2, HandleFits DEF CommandFits
<1>. QED
  BY <1>2, <1>3, SMTT(40) DEF PlanFits, AsksOf, PlanOf, CommandOf

LEMMA TasksPreserved ==
  ASSUME TasksInv, [Next]_vars
  PROVE  TasksInv'
<1>0. /\ task = [t \in Tasks |-> task[t]] /\ heard = [t \in Tasks |-> heard[t]] /\ crashed \in BOOLEAN
      /\ \A t \in Tasks : /\ task[t] \in TaskRecords /\ heard[t] \in SUBSET Answers
                          /\ TaskRight(task[t], heard[t], menu[t])
                          /\ menu[t] \subseteq CommandNames
  BY ApplicationAssumption DEF TasksInv
<1>1. CASE UNCHANGED vars
  BY <1>1 DEF vars, appVars, TasksInv
<1>2. ASSUME NEW t \in Tasks, Receive(t)
      PROVE  TasksInv'
  <2>1. PICK c \in menu[t] : task' = [task EXCEPT ![t] = [Idle EXCEPT !.pc = "asked", !.cmd = c]]
    BY <1>2 DEF Receive
  <2>. DEFINE k == [Idle EXCEPT !.pc = "asked", !.cmd = c]
  <2>2. k \in TaskRecords /\ k.pc = "asked" /\ k.cmd = c /\ k.at = 1
    BY <1>0, <2>1 DEF Idle, TaskRecords
  <2>3. heard[t] = {} /\ heard' = [heard EXCEPT ![t] = heard[t]]
    BY <1>0, <1>2 DEF Receive, At, TaskRight
  <2>4. task' = [task EXCEPT ![t] = k]
    BY <2>1
  <2>. HIDE DEF k
  <2>5. TaskRight(k, heard[t], menu[t])
    BY <2>1, <2>2, <2>3 DEF TaskRight
  <2>. QED
    BY <1>0, <1>2, <2>2, <2>3, <2>4, <2>5, OneTask, ZenonT(40) DEF Receive
<1>3. ASSUME NEW t \in Tasks, Refuse(t) \/ MissesKey(t) \/ AlertCommand(t)
      PROVE  TasksInv'
  <2>1. task[t].pc = "asked" /\ UNCHANGED <<menu, configured, heard, crashed, expired>>
    BY <1>3 DEF Refuse, MissesKey, AlertCommand, At
  <2>2. \E pc \in {"text", "error"} : Goto(t, pc)
    <3>1. CASE MissesKey(t)
      <4>1. CommandOf(t).key \in {"none", "text", "error"}
        BY <1>0, HandleFits DEF CommandOf, CommandFits, TaskRecords
      <4>. QED
        BY <3>1, <4>1 DEF MissesKey, HasKey
    <3>. QED
      BY <1>3, <3>1 DEF Refuse, AlertCommand
  <2>. QED
    BY <1>0, <2>1, <2>2, Goes DEF Results
<1>4. ASSUME NEW t \in Tasks, Begin(t)
      PROVE  TasksInv'
  <2>1. PICK n \in 1..Len(CommandOf(t).plans) :
          task' = [task EXCEPT ![t].plan = n,
                               ![t].pc = IF task[t].cmd = "dexmeme" THEN "shuffle" ELSE "run"]
    BY <1>4 DEF Begin
  <2>. DEFINE k == [task[t] EXCEPT !.plan = n, !.pc = IF task[t].cmd = "dexmeme" THEN "shuffle" ELSE "run"]
  <2>2. /\ task[t].pc = "asked" /\ task[t].cmd \in menu[t] /\ task[t].at = 1 /\ heard[t] = {}
        /\ task[t].cmd \in CommandNames
    BY <1>0, <1>4 DEF Begin, At, TaskRight, TaskRecords
  <2>3. /\ n \in 1..Len(Handle[task[t].cmd].plans) /\ n \in Nat
        /\ Len(Handle[task[t].cmd].plans[n].asks) \in Nat \ {0}
    BY <2>1, <2>2, HandleFits DEF CommandOf, CommandFits, PlanFits
  <2>4. /\ k \in TaskRecords /\ k.pc \in {"shuffle", "run"}
        /\ k.cmd = task[t].cmd /\ k.plan = n /\ k.at = 1
    BY <1>0, <2>2, <2>3 DEF TaskRecords
  <2>5. task' = [task EXCEPT ![t] = k]
    BY <1>0, <2>1
  <2>. HIDE DEF k
  <2>6. TaskRight(k, heard[t], menu[t])
    <3>1. AsksOf(k) = Handle[task[t].cmd].plans[n].asks
      BY <2>4 DEF AsksOf
    <3>2. Len(AsksOf(k)) \in Nat /\ k.at = 1
      BY <2>3, <2>4, <3>1
    <3>3. k.at \in 1..(Len(AsksOf(k)) + 1)
      BY <3>2
    <3>. QED
      BY <2>2, <2>3, <2>4, <3>3 DEF TaskRight
  <2>7. heard' = [heard EXCEPT ![t] = heard[t]] /\ UNCHANGED <<menu, configured, crashed, expired>>
    BY <1>0, <1>4 DEF Begin
  <2>8. k.pc # "idle"
    BY <2>4
  <2>. QED
    BY <1>0, <2>4, <2>5, <2>6, <2>7, <2>8, OneTask
<1>5. ASSUME NEW t \in Tasks, Shuffle(t)
      PROVE  TasksInv'
  <2>1. CASE Goto(t, "run") /\ UNCHANGED crashed
    BY <1>0, <1>5, <2>1, Goes DEF Shuffle, At
  <2>2. CASE crashed' = TRUE /\ UNCHANGED task
    BY <1>5, <2>2 DEF Shuffle, TasksInv
  <2>. QED
    BY <1>5, <2>1, <2>2 DEF Shuffle
<1>6. ASSUME NEW t \in Tasks, MakeRequest(t)
      PROVE  TasksInv'
  <2>. DEFINE c == task[t].cmd
  <2>1. PICK a \in Possible(t) : heard' = [heard EXCEPT ![t] = @ \cup {a}] /\ After(t, Ask(t).on[a])
    BY <1>6 DEF MakeRequest
  <2>. DEFINE h == heard[t] \cup {a}
  <2>2. a \in Answers
    BY <2>1 DEF Possible, Answers
  <2>3. heard' = [heard EXCEPT ![t] = h] /\ h \in SUBSET Answers
    BY <1>0, <2>1, <2>2
  <2>4. /\ task[t].pc = "run" /\ task[t].at <= Len(AsksOf(task[t])) /\ task[t].at \in Nat /\ task[t].at >= 1
        /\ Ask(t) = AsksOf(task[t])[task[t].at] /\ Ask(t).kind = "request" /\ Fits(c, Ask(t))
        /\ (c = "losers" => Len(AsksOf(task[t])) = 1)
    BY <1>6, PlanHere DEF MakeRequest, Asking, At, Ask
  <2>5. Ask(t).on[a] \in Outcomes /\ c \notin {"top", "digest"} /\ c \notin Sectioned
        /\ (Ask(t).on[a] = "next" => a = "ok" \/ (c = "losers" /\ a = "empty"))
    BY <2>2, <2>4 DEF Fits
  <2>6. ASSUME Ask(t).on[a] = "next"
        PROVE  Grounds(c, h)
    <3>1. CASE task[t].at = 1
      <4>1. heard[t] = {}
        BY <1>0, <2>4, <3>1 DEF TaskRight
      <4>. QED
        BY <2>5, <2>6, <4>1 DEF Grounds
    <3>2. CASE task[t].at # 1
      <4>1. Grounds(c, heard[t]) /\ c # "losers"
        BY <1>0, <2>4, <3>2 DEF TaskRight
      <4>2. heard[t] = {"ok"} /\ a = "ok"
        BY <2>5, <2>6, <4>1 DEF Grounds
      <4>. QED
        BY <4>2 DEF Grounds
    <3>. QED
      BY <3>1, <3>2
  <2>. HIDE DEF h
  <2>. QED
    BY <1>6, <2>1, <2>3, <2>4, <2>5, <2>6, Hears, ZenonT(40) DEF MakeRequest
<1>7. ASSUME NEW t \in Tasks, AskTopMarkets(t)
      PROVE  TasksInv'
  <2>1. PICK a \in Possible(t), b \in Possible(t) :
          LET found == FetchTopMarkets(a, b, configured)
          IN  /\ heard' = [heard EXCEPT ![t] = {a} \cup (IF fetchTopMarketsCoinGecko(a) = "error" THEN {b} ELSE {})]
              /\ After(t, CASE found = "value" -> "next" [] found = "none" -> "text" [] found = "error" -> "error")
    BY <1>7 DEF AskTopMarkets
  <2>. DEFINE found == FetchTopMarkets(a, b, configured)
              h == {a} \cup (IF fetchTopMarketsCoinGecko(a) = "error" THEN {b} ELSE {})
              outcome == IF found = "value" THEN "next" ELSE IF found = "none" THEN "text" ELSE "error"
  <2>2. a \in Answers /\ b \in Answers
    BY <2>1 DEF Possible, Answers
  <2>3. found \in Returned /\ (found = "value" => "ok" \in h)
    BY <2>2 DEF FetchTopMarkets, fetchTopMarketsCoinGecko, fetchTopMarketsCoinMarketCap, EmptyIsNone,
       ValueOrError, Returned
  <2>4. /\ task[t].pc = "run" /\ task[t].at <= Len(AsksOf(task[t])) /\ task[t].cmd \in {"top", "digest"}
    <3>1. /\ task[t].pc = "run" /\ task[t].at <= Len(AsksOf(task[t]))
          /\ Fits(task[t].cmd, AsksOf(task[t])[task[t].at]) /\ AsksOf(task[t])[task[t].at].kind = "top"
      BY <1>7, PlanHere DEF AskTopMarkets, Asking, At
    <3>. QED
      BY <3>1 DEF Fits
  <2>5. h \in SUBSET Answers /\ heard' = [heard EXCEPT ![t] = h]
    BY <2>1, <2>2
  <2>6. After(t, outcome) /\ outcome \in Outcomes
    <3>1. outcome = CASE found = "value" -> "next" [] found = "none" -> "text" [] found = "error" -> "error"
      BY <2>3 DEF Returned
    <3>. QED
      BY <2>1, <3>1 DEF Outcomes
  <2>7. outcome = "next" => Grounds(task[t].cmd, h)
    BY <2>3, <2>4 DEF Grounds
  <2>. HIDE DEF found, h, outcome
  <2>. QED
    BY <1>7, <2>4, <2>5, <2>6, <2>7, Hears DEF AskTopMarkets
<1>8. ASSUME NEW t \in Tasks, AskExchange(t) \/ AskToken(t)
      PROVE  TasksInv'
  <2>1. /\ task[t].pc = "run" /\ task[t].at <= Len(AsksOf(task[t])) /\ task[t].cmd \in Sectioned
    <3>1. /\ task[t].pc = "run" /\ task[t].at <= Len(AsksOf(task[t]))
          /\ Fits(task[t].cmd, AsksOf(task[t])[task[t].at])
          /\ AsksOf(task[t])[task[t].at].kind \in {"gainers", "losers", "token"}
      <4>1. Asking(t, "gainers") \/ Asking(t, "losers") \/ Asking(t, "token")
        BY <1>8 DEF AskExchange, AskToken
      <4>2. /\ task[t].pc = "run" /\ task[t].at <= Len(PlanOf(t).asks)
            /\ PlanOf(t).asks[task[t].at].kind \in {"gainers", "losers", "token"}
        BY <4>1 DEF Asking, At
      <4>3. task[t].at \in 1..Len(AsksOf(task[t])) /\ PlanOf(t).asks = AsksOf(task[t])
        BY <4>2, PlanHere
      <4>. QED
        BY <4>2, <4>3, PlanHere
    <3>. QED
      BY <3>1 DEF Fits
  <2>2. Advance(t) /\ UNCHANGED <<menu, configured, crashed, expired, heard>>
    BY <1>8 DEF AskExchange, AskToken
  <2>3. After(t, "next")
    BY <2>2 DEF After
  <2>4. "next" \in Outcomes /\ Grounds(task[t].cmd, heard[t])
    BY <2>1 DEF Outcomes, Grounds
  <2>5. heard' = [heard EXCEPT ![t] = heard[t]] /\ heard[t] \in SUBSET Answers
    BY <1>0, <2>2
  <2>. QED
    BY <2>1, <2>2, <2>3, <2>4, <2>5, Hears, ZenonT(40)
<1>9. ASSUME NEW t \in Tasks,
             Finish(t) \/ ReadSentiment(t) \/ ReadVolatility(t) \/ ReadTrend(t) \/ ReadFearGreed(t)
      PROVE  TasksInv'
  <2>1. AllAsked(t) /\ UNCHANGED <<menu, configured, crashed, expired, heard>>
    BY <1>9 DEF Finish, ReadSentiment, ReadVolatility, ReadTrend, ReadFearGreed
  <2>2. \E pc \in {"answer", "text"} : Goto(t, pc)
    BY <1>9 DEF Finish, ReadSentiment, ReadVolatility, ReadTrend, ReadFearGreed
  <2>3. task[t].pc = "run" /\ task[t].at > Len(AsksOf(task[t])) /\ Len(AsksOf(task[t])) \in Nat \ {0}
        /\ task[t].at \in Nat
    BY <2>1, PlanHere DEF AllAsked, At
  <2>4. Grounds(task[t].cmd, heard[t])
    BY <1>0, <2>3 DEF TaskRight
  <2>5. PICK pc \in {"answer", "text"} : Goto(t, pc)
    BY <2>2
  <2>6. pc \in {"run"} \cup Results /\ pc # "run" /\ task[t].pc # "idle" /\ crashed' \in BOOLEAN
    BY <1>0, <2>1, <2>3 DEF Results
  <2>7. UNCHANGED <<menu, configured, heard>> /\ expired' = expired
    BY <2>1
  <2>8. pc = "run" => task[t].pc = "shuffle"
    BY <2>6
  <2>. QED
    BY ONLY TasksInv, t \in Tasks, <2>4, <2>5, <2>6, <2>7, <2>8, Goes
<1>10. ASSUME NEW t \in Tasks, Respond(t)
       PROVE  TasksInv'
  <2>1. "help" \in CommandNames
    BY DEF CommandNames, Handle
  <2>2. Idle \in TaskRecords /\ Idle.pc = "idle" /\ Idle.at = 1
    BY <2>1 DEF Idle, TaskRecords
  <2>3. TaskRight(Idle, {}, menu[t])
    BY <2>2 DEF TaskRight
  <2>4. /\ task' = [task EXCEPT ![t] = Idle] /\ heard' = [heard EXCEPT ![t] = {}]
        /\ expired' = expired \ {t} /\ UNCHANGED <<menu, configured, crashed>>
    BY <1>10 DEF Respond
  <2>5. expired' \subseteq expired /\ t \notin expired' /\ crashed' \in BOOLEAN
    BY <1>0, <2>4
  <2>6. {} \in SUBSET Answers
    OBVIOUS
  <2>. QED
    BY ONLY TasksInv, t \in Tasks, <2>2, <2>3, <2>4, <2>5, <2>6, OneTask
<1>11. ASSUME NEW t \in Tasks, Expire(t)
       PROVE  TasksInv'
  <2>1. task[t].pc = "run" /\ expired' = expired \cup {t}
        /\ UNCHANGED <<menu, configured, task, crashed, heard>>
    BY <1>11 DEF Expire, At
  <2>. QED
    BY <2>1 DEF TasksInv
<1>12. CASE UNCHANGED appVars
  BY <1>12 DEF appVars, TasksInv
<1>. QED
  BY <1>1, <1>2, <1>3, <1>4, <1>5, <1>6, <1>7, <1>8, <1>9, <1>10, <1>11, <1>12 DEF Next, Execute, Checker

\* For any tasks beside each other, whatever the services answer and whenever a
\* task's context ends: a reply without sections that shows figures as found rests
\* on good answers only.
THEOREM AnswersGrounded == Spec => []AnswersRestOnData
<1>1. TasksInv => AnswersRestOnData
  BY DEF TasksInv, TaskRight, Grounds, AnswersRestOnData
<1>. QED
  BY <1>1, TasksStart, TasksPreserved, PTL DEF Spec

\* For any menus, conditions and markets, what the state of the program is made
\* of: a task that runs is at a request of a plan of its command, or has made
\* the last one.
THEOREM ApplicationTyping == Spec => []TypeOK
<1>1. TasksInv /\ AlertsTypeOK => TypeOK
  <2>. SUFFICES ASSUME TasksInv, AlertsTypeOK PROVE TypeOK
    OBVIOUS
  <2>1. \A t \in Tasks : task[t] \in TaskRecords /\ TaskRight(task[t], heard[t], menu[t])
    BY DEF TasksInv
  <2>. QED
    BY <2>1 DEF TasksInv, TaskRight, AsksOf, TaskRecords, TypeOK
<1>. QED
  BY <1>1, TasksStart, TasksPreserved, ApplicationUsesAlerts, AlertsRight, PTL DEF Spec

-----------------------------------------------------------------------------
(* The rankings. *)

\* The cut of a sorted list: what it leaves out goes after all it shows.
LEMMA RankedOf ==
  ASSUME NEW T, IsFiniteSet(T), NEW d \in {1, -1}, NEW limit \in Nat \ {0},
         NEW l \in Ranked(T, d, limit)
  PROVE  /\ Len(l) \in Nat /\ Len(l) <= limit /\ DOMAIN l = 1..Len(l)
         /\ \A i \in 1..Len(l) : l[i] \in T
         /\ \A i, j \in 1..Len(l) : i # j => l[i] # l[j]
         /\ \A i, j \in 1..Len(l) : i < j => d * l[i].change >= d * l[j].change
         /\ \A x \in T \ Range(l) :
              Len(l) = limit /\ \A i \in 1..Len(l) : d * l[i].change >= d * x.change
<1>. DEFINE N == Cardinality(T)
<1>1. PICK s \in SetToSeqs(T) :
        /\ l = SubSeq(s, 1, IF Len(s) > limit THEN limit ELSE Len(s))
        /\ \A i, j \in 1..Len(s) : i < j => d * s[i].change >= d * s[j].change
  BY DEF Ranked
<1>2. N \in Nat
  BY FS_CardinalityType
<1>3. s \in [1..N -> T] /\ \A i, j \in 1..N : i # j => s[i] # s[j]
  BY <1>1 DEF SetToSeqs
<1>. HIDE DEF N
<1>4. Len(s) = N
  BY <1>2, <1>3
<1>5. \A x \in T : \E k \in 1..N : s[k] = x
  <2>1. s \in Injection(1..N, T)
    BY <1>3 DEF Injection, IsInjective
  <2>2. 1 \in Int /\ N \in Int
    BY <1>2
  <2>3. Cardinality(1..N) = IF 1 > N THEN 0 ELSE N - 1 + 1
    BY <2>2, FS_Interval, Zenon
  <2>4. Cardinality(1..N) = Cardinality(T)
    BY <1>2, <2>3 DEF N
  <2>5. s \in Surjection(1..N, T)
    BY <2>1, <2>4, FS_Injection
  <2>. QED
    BY <2>5 DEF Surjection
<1>. DEFINE n == IF N > limit THEN limit ELSE N
<1>6. n \in Nat /\ n <= limit /\ n <= N /\ (n # N => n = limit)
  BY <1>2
<1>. HIDE DEF n
<1>7. l = [i \in 1..n |-> s[i]]
  <2>1. l = SubSeq(s, 1, n)
    BY <1>1, <1>4 DEF n
  <2>. QED
    BY <1>2, <1>3, <1>6, <2>1
<1>8. Len(l) = n /\ DOMAIN l = 1..n /\ \A i \in 1..n : l[i] = s[i] /\ i \in 1..N
  BY <1>2, <1>6, <1>7
<1>9. ASSUME NEW x \in T \ Range(l)
      PROVE  n = limit /\ \A i \in 1..n : d * s[i].change >= d * x.change
  <2>1. PICK k \in 1..N : s[k] = x
    BY <1>5
  <2>2. k \notin 1..n
    BY <1>8, <1>9, <2>1 DEF Range
  <2>3. k > n /\ \A i \in 1..n : i \in 1..N /\ i < k
    BY <1>2, <1>6, <2>2
  <2>. QED
    BY <1>1, <1>2, <1>4, <1>6, <2>1, <2>3
<1>. QED
  BY <1>1, <1>3, <1>4, <1>6, <1>8, <1>9

\* All exchanges but Coinbase are asked once.
LEMMA AskedOnce ==
  ASSUME NEW cex \in Range(SupportedCexList), cex # "coinbase",
         NEW listing, NEW answers \in [Parts(cex, listing) -> Answers]
  PROVE  \E a \in Answers : Range(answers) = {a} /\ Good(answers) = IF a = "ok" THEN listing ELSE {}
<1>1. Parts(cex, listing) = {listing}
  BY DEF Parts
<1>2. DOMAIN answers = {listing} /\ answers[listing] \in Answers
  BY <1>1
<1>3. Range(answers) = {answers[listing]}
  BY <1>2 DEF Range
<1>4. Good(answers) = IF answers[listing] = "ok" THEN listing ELSE {}
  BY <1>2 DEF Good
<1>. QED
  BY <1>2, <1>3, <1>4

\* What is in good answers is in the listing, and somebody gave them.
LEMMA GoodOf ==
  ASSUME NEW cex \in Range(SupportedCexList), NEW listing \in Listings,
         NEW answers \in [Parts(cex, listing) -> Answers]
  PROVE  /\ IsFiniteSet(Good(answers)) /\ Good(answers) \subseteq Tickers
         /\ Good(answers) # {} => "ok" \in Range(answers)
<1>1. IsFiniteSet(listing) /\ listing \subseteq Tickers
  BY ApplicationAssumption
<1>2. Parts(cex, listing) = IF cex = "coinbase" THEN {{t} : t \in listing} ELSE {listing}
  BY DEF Parts
<1>3. DOMAIN answers = Parts(cex, listing) /\ \A part \in Parts(cex, listing) : part \subseteq listing
  BY <1>2
<1>4. Good(answers) \subseteq listing
  BY <1>3 DEF Good
<1>5. Good(answers) # {} => "ok" \in Range(answers)
  BY DEF Good, Range
<1>. QED
  BY <1>1, <1>4, <1>5, FS_Subset

\* What every exchange makes of the answers.
LEMMA FetchedFits ==
  ASSUME NEW cex \in Range(SupportedCexList), NEW listing \in Listings,
         NEW answers \in [Parts(cex, listing) -> Answers], NEW losers \in BOOLEAN
  PROVE  LET f == Fetched(cex, answers, losers)
             L == Good(answers)
         IN  /\ IsFiniteSet(f.tickers) /\ f.tickers \subseteq Tickers
             /\ \A x \in f.tickers : x.kind # "other"
             /\ \A x \in f.tickers :
                  x \in L \/ (cex = "kucoin" /\ \E u \in L : u.kind = "garbled" /\ x = [u EXCEPT !.change = 0])
             /\ f.error => f.tickers = {} /\ L = {}
             /\ ~f.error => Fine(L) \subseteq f.tickers
             /\ ~f.error /\ cex # "coinbase" =>
                  Range(answers) \subseteq {"ok", "empty"}
                                           \cup (IF cex \in {"okx", "kucoin"} THEN {"refused"} ELSE {})
<1>. DEFINE L == Good(answers)
            zeroed == {[t EXCEPT !.change = 0] : t \in {u \in L : u.kind = "garbled"}}
            f == Fetched(cex, answers, losers)
<1>1. IsFiniteSet(L) /\ L \subseteq Tickers
  BY GoodOf
<1>2. /\ IsFiniteSet(Fine(L)) /\ IsFiniteSet(Changed(L)) /\ Fine(L) \subseteq Changed(L) /\ Changed(L) \subseteq L
      /\ \A x \in Changed(L) : x.kind # "other"
  BY <1>1, FS_Subset DEF Fine, Changed
<1>3. /\ Zeroed(L) \subseteq Tickers /\ \A x \in Zeroed(L) : x.kind # "other"
      /\ \A x \in Zeroed(L) : x \in L \/ \E u \in L : u.kind = "garbled" /\ x = [u EXCEPT !.change = 0]
  BY <1>1 DEF Tickers, Zeroed
<1>4. IsFiniteSet(Zeroed(L))
  <2>. DEFINE G == {u \in L : u.kind = "garbled"}
              P == {u \in L : u.kind = "priceless"}
              g == [t \in G |-> [t EXCEPT !.change = 0]]
  <2>1. IsFiniteSet(G) /\ IsFiniteSet(P)
    BY <1>1, FS_Subset
  <2>2. g \in Surjection(G, zeroed)
    BY DEF Surjection
  <2>3. IsFiniteSet(zeroed)
    BY <2>1, <2>2, FS_Surjection
  <2>4. Zeroed(L) = P \cup zeroed
    BY DEF Zeroed
  <2>. HIDE DEF P, zeroed
  <2>. QED
    BY <2>1, <2>3, <2>4, FS_Union
<1>5. IsFiniteSet({}) /\ IsFiniteSet(Changed(L) \cup Zeroed(L))
  BY <1>2, <1>4, FS_EmptySet, FS_Union
<1>. HIDE DEF L
<1>6. /\ f \in {Usable(Fine(L)), Usable(Changed(L))}
           \/ (cex = "kucoin" /\ f = Usable(Changed(L) \cup Zeroed(L)))
           \/ (f = Unusable /\ cex # "coinbase" /\ ~(Range(answers) \subseteq {"ok", "empty"}))
      /\ cex = "coinbase" \/ f = Unusable
           \/ Range(answers) \subseteq {"ok", "empty"}
           \/ (cex \in {"okx", "kucoin"} /\ Range(answers) \subseteq {"ok", "empty", "refused"})
  <2>1. cex \in {"coinbase", "binance", "okx", "bybit", "mexc", "kucoin", "bitget"}
    BY DEF Range, SupportedCexList
  <2>2. CASE cex = "coinbase"
    BY <2>2 DEF Fetched, Coinbase, L
  <2>3. CASE cex \in {"binance", "bybit", "mexc", "bitget"}
    BY <2>3 DEF Fetched, Binance, Bybit, Mexc, Bitget, L
  <2>4. CASE cex = "okx"
    BY <2>4 DEF Fetched, Okx, L
  <2>5. CASE cex = "kucoin"
    <3>1. f = IF Range(answers) \subseteq {"ok", "empty", "refused"}
              THEN Usable(Changed(L) \cup (IF losers THEN {} ELSE Zeroed(L))) ELSE Unusable
      BY <2>5 DEF Fetched, Kucoin, L
    <3>2. Changed(L) \cup {} = Changed(L)
      OBVIOUS
    <3>. HIDE DEF f
    <3>. QED
      BY <2>5, <3>1, <3>2
  <2>. QED
    BY <2>1, <2>2, <2>3, <2>4, <2>5
<1>7. cex # "coinbase" /\ ~(Range(answers) \subseteq {"ok", "empty"}) => L = {}
  BY AskedOnce DEF L
<1>. HIDE DEF f
<1>8. /\ IsFiniteSet(f.tickers) /\ f.tickers \subseteq Tickers
      /\ \A x \in f.tickers : x.kind # "other"
      /\ \A x \in f.tickers :
           x \in L \/ (cex = "kucoin" /\ \E u \in L : u.kind = "garbled" /\ x = [u EXCEPT !.change = 0])
      /\ f.error => f.tickers = {} /\ L = {}
      /\ ~f.error => Fine(L) \subseteq f.tickers
  <2>1. CASE f = Unusable /\ cex # "coinbase" /\ ~(Range(answers) \subseteq {"ok", "empty"})
    BY <1>5, <1>7, <2>1 DEF Unusable
  <2>2. CASE f \in {Usable(Fine(L)), Usable(Changed(L))}
    BY <1>1, <1>2, <2>2 DEF Usable
  <2>3. CASE cex = "kucoin" /\ f = Usable(Changed(L) \cup Zeroed(L))
    BY <1>1, <1>2, <1>3, <1>5, <2>3 DEF Usable
  <2>. QED
    BY <1>6, <2>1, <2>2, <2>3
<1>9. ~f.error /\ cex # "coinbase" =>
        Range(answers) \subseteq {"ok", "empty"} \cup (IF cex \in {"okx", "kucoin"} THEN {"refused"} ELSE {})
  BY <1>6 DEF Unusable
<1>. QED
  BY <1>8, <1>9 DEF f, L

\* What a section on an exchange shows and says, for any exchange, listing, limit,
\* and answers to its requests.
LEMMA ExchangeShows ==
  ASSUME NEW cmd, NEW kind \in {"gainers", "losers"}, NEW cex \in Range(SupportedCexList),
         NEW listing \in Listings, NEW limit \in Limits, NEW answers \in [Parts(cex, listing) -> Answers],
         NEW found \in IF kind = "gainers" THEN FetchCexGainers(cex, answers, limit)
                                           ELSE FetchCexLosers(cex, answers, limit)
  PROVE  LET s == [kind |-> kind, cex |-> cex, heard |-> Range(answers), of |-> Good(answers),
                   limit |-> limit, list |-> found.list, says |-> Says(cmd, found)]
         IN  RankedRightly(s) /\ SectionRight(s)
<1>. DEFINE L == Good(answers)
            f == Fetched(cex, answers, kind = "losers")
            T == IF kind = "gainers" THEN f.tickers ELSE {t \in f.tickers : t.change < 0}
            d == IF kind = "gainers" THEN 1 ELSE -1
            l == found.list
            says == Says(cmd, found)
<1>1. limit \in Nat \ {0} /\ (kind = "losers") \in BOOLEAN
  BY ApplicationAssumption
<1>2. /\ IsFiniteSet(f.tickers) /\ f.tickers \subseteq Tickers
      /\ \A x \in f.tickers : x.kind # "other"
      /\ \A x \in f.tickers :
           x \in L \/ (cex = "kucoin" /\ \E u \in L : u.kind = "garbled" /\ x = [u EXCEPT !.change = 0])
      /\ f.error => f.tickers = {} /\ L = {}
      /\ ~f.error => Fine(L) \subseteq f.tickers
      /\ ~f.error /\ cex # "coinbase" =>
           Range(answers) \subseteq {"ok", "empty"} \cup (IF cex \in {"okx", "kucoin"} THEN {"refused"} ELSE {})
  BY <1>1, FetchedFits, ZenonT(40)
<1>3. /\ found.error \in BOOLEAN
      /\ found.error => T = {} /\ l = <<>>
      /\ ~found.error => /\ l \in Ranked(T, d, limit) /\ ~f.error
                         /\ T = {} => kind = "gainers" /\ cex \in {"okx", "kucoin", "bitget"}
  <2>1. CASE kind = "gainers"
    <3>1. (kind = "losers") = FALSE
      BY <2>1
    <3>2. f = Fetched(cex, answers, FALSE) /\ T = f.tickers /\ d = 1
      BY <2>1, <3>1
    <3>3. found \in FetchCexGainers(cex, answers, limit)
      BY <2>1
    <3>. HIDE DEF f, T, d
    <3>4. found \in IF f.error \/ (f.tickers = {} /\ cex \notin {"okx", "kucoin", "bitget"})
                    THEN {Failure} ELSE Success(Ranked(f.tickers, 1, limit))
      BY <3>2, <3>3 DEF FetchCexGainers
    <3>5. CASE f.error \/ (f.tickers = {} /\ cex \notin {"okx", "kucoin", "bitget"})
      <4>1. found.error = TRUE /\ found.list = <<>>
        BY <3>4, <3>5 DEF Failure
      <4>2. f.tickers = {}
        BY <1>2, <3>5
      <4>. QED
        BY <3>2, <4>1, <4>2
    <3>6. CASE ~(f.error \/ (f.tickers = {} /\ cex \notin {"okx", "kucoin", "bitget"}))
      <4>1. PICK x \in Ranked(f.tickers, 1, limit) : found = [error |-> FALSE, list |-> x]
        BY <3>4, <3>6 DEF Success
      <4>2. found.error = FALSE /\ found.list = x
        BY <4>1
      <4>. QED
        BY <2>1, <3>2, <3>6, <4>1, <4>2
    <3>. QED
      BY <3>5, <3>6
  <2>2. CASE kind = "losers"
    <3>1. (kind = "losers") = TRUE /\ kind # "gainers"
      BY <2>2
    <3>2. f = Fetched(cex, answers, TRUE) /\ T = {t \in f.tickers : t.change < 0} /\ d = -1
      BY <3>1
    <3>3. found \in FetchCexLosers(cex, answers, limit)
      BY <3>1
    <3>. HIDE DEF f, T, d
    <3>4. found \in IF T = {} THEN {Failure} ELSE Success(Ranked(T, -1, limit))
      BY <3>2, <3>3 DEF FetchCexLosers
    <3>5. CASE T = {}
      <4>1. found.error = TRUE /\ found.list = <<>>
        BY <3>4, <3>5 DEF Failure
      <4>. QED
        BY <3>5, <4>1
    <3>6. CASE T # {}
      <4>1. PICK x \in Ranked(T, -1, limit) : found = [error |-> FALSE, list |-> x]
        BY <3>4, <3>6 DEF Success
      <4>2. found.error = FALSE /\ found.list = x
        BY <4>1
      <4>3. ~f.error
        BY <1>2, <3>2, <3>6
      <4>. QED
        BY <3>2, <3>6, <4>1, <4>2, <4>3
    <3>. QED
      BY <3>5, <3>6
  <2>. QED
    BY <2>1, <2>2
<1>. HIDE DEF f
<1>4. IsFiniteSet(T) /\ T \subseteq Tickers /\ T \subseteq f.tickers /\ d \in {1, -1}
  BY <1>2, FS_Subset
<1>5. /\ \A x \in T : x.kind # "other" /\ x.change \in Int /\ (kind = "losers" => x.change < 0)
      /\ \A x \in Fine(L) : (kind = "losers" => x.change < 0) => x \in T
  BY <1>2, <1>4 DEF Tickers, Fine
<1>. HIDE DEF T, L, d, l, says
<1>6. /\ Len(l) \in Nat /\ Len(l) <= limit /\ DOMAIN l = 1..Len(l)
      /\ \A i \in 1..Len(l) : l[i] \in T
      /\ \A i, j \in 1..Len(l) : i # j => l[i] # l[j]
      /\ \A i, j \in 1..Len(l) : i < j => d * l[i].change >= d * l[j].change
      /\ \A x \in T \ Range(l) :
           Len(l) = limit /\ \A i \in 1..Len(l) : d * l[i].change >= d * x.change
  <2>1. CASE found.error
    BY <1>1, <1>3, <2>1
  <2>2. CASE ~found.error
    BY <1>1, <1>3, <1>4, <2>2, RankedOf, SMTT(40)
  <2>. QED
    BY <2>1, <2>2
<1>. DEFINE s == [kind |-> kind, cex |-> cex, heard |-> Range(answers), of |-> L,
                  limit |-> limit, list |-> l, says |-> says]
            better(t, u) == IF kind = "gainers" THEN t.change > u.change ELSE t.change < u.change
            out == {t \in L : t.kind = "fine" /\ t \notin Range(l) /\ (kind = "losers" => t.change < 0)}
<1>7. \A t, u \in T : d * u.change >= d * t.change => ~better(t, u)
  BY <1>5 DEF d
<1>8. IsInjective(l)
  BY <1>6 DEF IsInjective
<1>9. \A i \in 1..(Len(l) - 1) : ~better(l[i + 1], l[i])
  <2>. SUFFICES ASSUME NEW i \in 1..(Len(l) - 1) PROVE ~better(l[i + 1], l[i])
    OBVIOUS
  <2>1. i \in 1..Len(l) /\ i + 1 \in 1..Len(l) /\ i < i + 1
    BY <1>6
  <2>. HIDE DEF better
  <2>. QED
    BY <1>6, <1>7, <2>1
<1>10. \A u \in Range(l) : u \in T /\ \E i \in 1..Len(l) : u = l[i]
  BY <1>6 DEF Range
<1>11. \A t \in out : t \in T \ Range(l)
  BY <1>5 DEF Fine
<1>12. \A t \in out, u \in Range(l) : ~better(t, u)
  <2>. HIDE DEF better, out
  <2>. QED
    BY <1>6, <1>7, <1>10, <1>11
<1>13. out # {} => Len(l) = limit
  BY <1>6, <1>11
<1>14. \A t \in Range(l) :
         /\ t.kind # "other" /\ (kind = "losers" => t.change < 0)
         /\ t \in L \/ (cex = "kucoin" /\ \E u \in L : u.kind = "garbled" /\ t = [u EXCEPT !.change = 0])
  BY <1>2, <1>4, <1>5, <1>10
<1>15. RankedRightly(s)
  BY <1>6, <1>8, <1>9, <1>12, <1>13, <1>14 DEF RankedRightly
<1>16. L # {} => "ok" \in Range(answers)
  BY GoodOf DEF L
<1>17. cex # "coinbase" => \E a \in Answers : Range(answers) = {a}
  BY AskedOnce
<1>18. l # <<>> => L # {}
  <2>1. l # <<>> => T # {}
    BY <1>3, <1>6
  <2>. QED
    BY <1>2, <1>4, <2>1
<1>19. says = IF found.error THEN "error" ELSE IF l # <<>> THEN "figures"
              ELSE IF cmd = "gainers_compare" THEN "heading" ELSE "no data"
  BY DEF says, Says, l
<1>20. says = "figures" => Range(answers) = {"ok"} \/ (cex = "coinbase" /\ "ok" \in Range(answers))
  BY <1>16, <1>17, <1>18, <1>19
<1>21. ASSUME says \in {"no data", "heading"}
       PROVE  Range(answers) \in {{"ok"}, {"empty"}}
                \/ (kind = "gainers" /\ cex \in {"okx", "kucoin"} /\ Range(answers) = {"refused"} /\ l = <<>>)
  <2>1. ~found.error /\ l = <<>>
    BY <1>19, <1>21
  <2>2. T = {}
    BY <1>1, <1>6, <2>1 DEF Range
  <2>3. kind = "gainers" /\ cex \in {"okx", "kucoin", "bitget"} /\ ~f.error
    BY <1>3, <2>1, <2>2
  <2>. QED
    BY <1>2, <1>17, <2>1, <2>3
<1>22. SectionRight(s)
  BY <1>20, <1>21 DEF SectionRight, StatusUnread
<1>. QED
  BY <1>15, <1>22 DEF L, l, says

\* What a token of dexmeme says.
LEMMA TokenShows ==
  ASSUME NEW a \in Answers
  PROVE  SectionRight([kind |-> "token", heard |-> {a},
                       says |-> CASE searchBestDexPair[a] = "value" -> "figures"
                                  [] searchBestDexPair[a] = "none" -> "no data"
                                  [] searchBestDexPair[a] = "error" -> "error"])
<1>1. searchBestDexPair[a] = IF a = "ok" THEN "value" ELSE IF a = "empty" THEN "none" ELSE "error"
  BY BestPair
<1>. QED
  BY <1>1 DEF SectionRight

-----------------------------------------------------------------------------
\* The bounds of gains and of losses mirror each other.
LEMMA ScoresMirrored ==
  ASSUME NEW day \in Int, NEW week \in Int
  PROVE  /\ BullScore(-day, -week) = BearScore(day, week)
         /\ BearScore(-day, -week) = BullScore(day, week)
         /\ BullScore(day, week) \in 0..6 /\ BearScore(day, week) \in 0..6
<1>1. Above3(-day, 50, 20, 5) = Below3(day, -50, -20, -5)
  BY DEF Above3, Below3
<1>2. Above3(-week, 150, 80, 30) = Below3(week, -150, -80, -30)
  BY DEF Above3, Below3
<1>3. Below3(-day, -50, -20, -5) = Above3(day, 50, 20, 5)
  BY DEF Above3, Below3
<1>4. Below3(-week, -150, -80, -30) = Above3(week, 150, 80, 30)
  BY DEF Above3, Below3
<1>5. /\ Above3(day, 50, 20, 5) \in 0..3 /\ Above3(week, 150, 80, 30) \in 0..3
      /\ Below3(day, -50, -20, -5) \in 0..3 /\ Below3(week, -150, -80, -30) \in 0..3
  BY DEF Above3, Below3
<1>. QED
  BY <1>1, <1>2, <1>3, <1>4, <1>5 DEF BullScore, BearScore

\* For any changes of a price, the mood of the opposite changes is the opposite
\* mood: the bounds of gains and of losses, each written out in the code, mirror
\* each other, and no combination of the two scores favours bulls or bears.
THEOREM MoodSymmetric ==
  ASSUME NEW day \in Int, NEW week \in Int
  PROVE  Mood(-day, -week) = -Mood(day, week)
<1>. DEFINE bull == BullScore(day, week)
            bear == BearScore(day, week)
<1>1. bull \in 0..6 /\ bear \in 0..6
  BY ScoresMirrored
<1>2. BullScore(-day, -week) = bear /\ BearScore(-day, -week) = bull
  BY ScoresMirrored
<1>3. Mood(day, week) = IF bull >= bear + 2 THEN 2 ELSE IF bear >= bull + 2 THEN -2
                        ELSE IF bull > bear THEN 1 ELSE IF bear > bull THEN -1 ELSE 0
  BY DEF Mood
<1>. HIDE DEF bull, bear
<1>4. Mood(-day, -week) = IF bear >= bull + 2 THEN 2 ELSE IF bull >= bear + 2 THEN -2
                          ELSE IF bear > bull THEN 1 ELSE IF bull > bear THEN -1 ELSE 0
  BY <1>2 DEF Mood
<1>. QED
  BY <1>1, <1>3, <1>4

\* Changes that are no worse, each by itself, make no worse mood: the bounds are
\* in order, and so are the two scores against each other.
THEOREM MoodMonotone ==
  ASSUME NEW day \in Int, NEW week \in Int, NEW day2 \in Int, NEW week2 \in Int,
         day2 >= day, week2 >= week
  PROVE  Mood(day2, week2) >= Mood(day, week)
<1>1. /\ Above3(day2, 50, 20, 5) >= Above3(day, 50, 20, 5)
      /\ Above3(week2, 150, 80, 30) >= Above3(week, 150, 80, 30)
      /\ Below3(day2, -50, -20, -5) <= Below3(day, -50, -20, -5)
      /\ Below3(week2, -150, -80, -30) <= Below3(week, -150, -80, -30)
  BY DEF Above3, Below3
<1>2. /\ Above3(day, 50, 20, 5) \in Int /\ Above3(week, 150, 80, 30) \in Int
      /\ Above3(day2, 50, 20, 5) \in Int /\ Above3(week2, 150, 80, 30) \in Int
      /\ Below3(day, -50, -20, -5) \in Int /\ Below3(week, -150, -80, -30) \in Int
      /\ Below3(day2, -50, -20, -5) \in Int /\ Below3(week2, -150, -80, -30) \in Int
  BY DEF Above3, Below3
<1>3. BullScore(day2, week2) >= BullScore(day, week)
  BY <1>1, <1>2 DEF BullScore
<1>4. BearScore(day2, week2) <= BearScore(day, week)
  BY <1>1, <1>2 DEF BearScore
<1>5. /\ BullScore(day, week) \in Int /\ BearScore(day, week) \in Int
      /\ BullScore(day2, week2) \in Int /\ BearScore(day2, week2) \in Int
  BY <1>2 DEF BullScore, BearScore
<1>. QED
  BY <1>3, <1>4, <1>5 DEF Mood

\* For any value of the index and any classification the service gives it, the
\* note is that of the classification or that of the guide.
THEOREM NoteFits ==
  ASSUME NEW value \in Int, NEW class \in Classifications
  PROVE  explainFearGreed(value, class) \in {class, Guide(value)}
<1>1. CASE value <= 24
  <2>1. Guide(value) = "Extreme Fear"
    <3>1. ~(value \in 25..49) /\ ~(value \in 50..54) /\ ~(value \in 55..74) /\ ~(value >= 75)
      BY <1>1
    <3>. QED
      BY <1>1, <3>1, Zenon DEF Guide
  <2>. QED
    BY <1>1, <2>1 DEF explainFearGreed
<1>2. CASE value \in 25..49
  <2>1. Guide(value) = "Fear" /\ ~(value <= 24)
    BY <1>2 DEF Guide
  <2>. QED
    BY <1>2, <2>1 DEF explainFearGreed
<1>3. CASE value \in 50..54
  <2>1. Guide(value) = "Neutral" /\ ~(value <= 24) /\ value \notin 25..49
    BY <1>3 DEF Guide
  <2>. QED
    BY <1>3, <2>1 DEF explainFearGreed
<1>4. CASE value \in 55..74
  <2>1. /\ Guide(value) = "Greed"
        /\ ~(value <= 24) /\ value \notin 25..49 /\ value \notin 50..54 /\ value < 75
    BY <1>4 DEF Guide
  <2>. QED
    BY <2>1 DEF explainFearGreed, Classifications
<1>5. CASE value >= 75
  <2>1. /\ Guide(value) = "Extreme Greed"
        /\ ~(value <= 24) /\ value \notin 25..49 /\ value \notin 50..54 /\ ~(value < 75)
    BY <1>5 DEF Guide
  <2>. QED
    BY <1>5, <2>1 DEF explainFearGreed, Classifications
<1>. QED
  BY <1>1, <1>2, <1>3, <1>4, <1>5

-----------------------------------------------------------------------------
(* Induction, from the order of the finite sets: of any family of subsets  *)
(* of a finite set, one has none of the others within it.                  *)
LEMMA Smallest ==
  ASSUME NEW S, IsFiniteSet(S), NEW F, F \subseteq SUBSET S, F # {}
  PROVE  \E U \in F : \A V \in F : V \subseteq U => V = U
<1>1. FiniteSubsetsOf(S) = SUBSET S
  BY FS_FiniteSubsetsOfFinite
<1>2. IsWellFoundedOn(StrictSubsetOrdering(S), SUBSET S)
  BY <1>1, FS_StrictSubsetOrderingWellFounded
<1>3. PICK U \in F : \A V \in F : <<V, U>> \notin StrictSubsetOrdering(S)
  BY <1>2, WFMin
<1>. QED
  BY <1>3 DEF StrictSubsetOrdering

LEMMA LeastNatural ==
  ASSUME NEW T \in SUBSET Nat, T # {}
  PROVE  \E x \in T : \A y \in T : x <= y
<1>1. PICK n \in T : TRUE
  OBVIOUS
<1>. DEFINE I == 0..n
            F == {0..x : x \in {y \in T : y <= n}}
<1>2. IsFiniteSet(I)
  <2>1. 0 \in Int /\ n \in Int
    BY <1>1
  <2>. QED
    BY <2>1, FS_Interval, Zenon
<1>3. F \subseteq SUBSET I /\ F # {}
  BY <1>1
<1>4. PICK U \in F : \A V \in F : V \subseteq U => V = U
  <2>. HIDE DEF F, I
  <2>. QED
    BY ONLY <1>2, <1>3, Smallest
<1>5. PICK x \in T : x <= n /\ U = 0..x
  BY <1>4
<1>6. ASSUME NEW y \in T, y < x PROVE FALSE
  <2>1. (0..y) \in F /\ (0..y) \subseteq (0..x) /\ x \in 0..x /\ x \notin 0..y
    BY <1>5, <1>6
  <2>. QED
    BY <2>1, <1>4, <1>5
<1>. QED
  BY <1>5, <1>6

LEMMA Induction ==
  ASSUME NEW S, 0 \in S, \A n \in Nat : n \in S => n + 1 \in S
  PROVE  Nat \subseteq S
<1>. SUFFICES ASSUME Nat \ S # {} PROVE FALSE
  OBVIOUS
<1>1. PICK x \in Nat \ S : \A y \in Nat \ S : x <= y
  BY LeastNatural
<1>2. x # 0 /\ x - 1 \in Nat /\ x - 1 \in S
  BY <1>1
<1>. QED
  BY <1>1, <1>2

LEMMA Greatest ==
  ASSUME NEW s \in Seq(Nat), s # <<>>
  PROVE  \E h \in Range(s) : \A q \in Range(s) : h >= q
<1>1. Len(s) \in Nat \ {0} /\ \A i \in 1..Len(s) : s[i] \in Nat
  OBVIOUS
<1>. DEFINE I == 1..Len(s)
            above(i) == {j \in I : s[j] > s[i]}
            F == {above(i) : i \in I}
<1>2. IsFiniteSet(I)
  <2>1. 1 \in Int /\ Len(s) \in Int
    BY <1>1
  <2>. QED
    BY <2>1, FS_Interval, Zenon
<1>3. F \subseteq SUBSET I /\ F # {}
  <2>1. above(1) \in F
    BY <1>1
  <2>. QED
    BY <2>1, Zenon
<1>4. PICK U \in F : \A V \in F : V \subseteq U => V = U
  <2>. HIDE DEF F, I
  <2>. QED
    BY ONLY <1>2, <1>3, Smallest
<1>5. PICK i \in I : U = above(i)
  BY <1>4
<1>6. ASSUME NEW j \in I, s[j] > s[i] PROVE FALSE
  <2>1. above(j) \in F /\ above(j) \subseteq above(i) /\ j \in above(i) /\ j \notin above(j)
    BY <1>1, <1>5, <1>6
  <2>. QED
    BY <2>1, <1>4, <1>5
<1>7. s[i] \in Range(s) /\ \A q \in Range(s) : s[i] >= q
  BY <1>1, <1>5, <1>6, SMTT(40) DEF Range
<1>. QED
  BY <1>7

-----------------------------------------------------------------------------
(* The class of volatility, and the mood of gains. *)

\* The class of volatility is that of the spread of the prices over the lowest.
LEMMA ClassOfSpread ==
  ASSUME NEW prices \in Seq(Nat), NEW p \in Range(prices),
         p > 0, \A q \in Range(prices) : q >= p
  PROVE  /\ Volatility(prices) = "Low" <=> Within(prices, p, 10)
         /\ Volatility(prices) \in {"Low", "Medium"} <=> Within(prices, p, 25)
         /\ Volatility(prices) # "Extreme" <=> Within(prices, p, 40)
<1>1. \A q \in Range(prices) : q \in Nat
  BY DEF Range
<1>2. Lowest(prices) = p
  BY <1>1 DEF Lowest
<1>3. PICK h \in Range(prices) : \A q \in Range(prices) : h >= q
  <2>1. prices # <<>>
    BY DEF Range
  <2>. QED
    BY <2>1, Greatest
<1>4. Highest(prices) = h
  BY <1>1, <1>3 DEF Highest
<1>5. h \in Nat /\ p \in Nat /\ h >= p
  BY <1>1, <1>3
<1>6. ASSUME NEW b \in {10, 25, 40}
      PROVE  RangeExceeds(prices, b) <=> ~Within(prices, p, b)
  <2>1. RangeExceeds(prices, b) <=> (h - p) * 100 > b * p
    BY <1>2, <1>4 DEF RangeExceeds
  <2>2. (h - p) * 100 > b * p <=> ~(h * 100 <= p * (100 + b))
    BY <1>5
  <2>3. Within(prices, p, b) <=> h * 100 <= p * (100 + b)
    <3>1. \A q \in Range(prices) : q * 100 <= h * 100
      BY <1>1, <1>3, <1>5
    <3>2. p * (100 + b) \in Nat /\ \A q \in Range(prices) : q * 100 \in Nat
      BY <1>1, <1>5
    <3>. QED
      BY <1>3, <1>5, <3>1, <3>2 DEF Within
  <2>. QED
    BY <2>1, <2>2, <2>3
<1>7. RangeExceeds(prices, 40) => RangeExceeds(prices, 25)
  BY <1>2, <1>4, <1>5 DEF RangeExceeds
<1>8. RangeExceeds(prices, 25) => RangeExceeds(prices, 10)
  BY <1>2, <1>4, <1>5 DEF RangeExceeds
<1>. QED
  BY <1>6, <1>7, <1>8 DEF Volatility

\* Changes that are no losses make no bear.
LEMMA NoLossNoBear ==
  ASSUME NEW day \in Nat, NEW week \in Nat
  PROVE  Mood(day, week) >= 0
<1>1. BearScore(day, week) = 0
  BY DEF BearScore, Below3
<1>2. BullScore(day, week) \in 0..6
  BY ScoresMirrored
<1>. QED
  BY <1>1, <1>2 DEF Mood

-----------------------------------------------------------------------------
(* Sums.  FoldSeq takes the positions of a sequence in an order of its     *)
(* own; the sum is the same in any order.                                  *)
Pick(I) == CHOOSE x \in I : TRUE

Sums(v) ==
  CHOOSE g : g = [I \in SUBSET (DOMAIN v) |->
                    IF I = {} THEN 0 ELSE v[Pick(I)] + g[I \ {Pick(I)}]]

LEMMA FoldIsSum ==
  ASSUME NEW v
  PROVE  FoldSeq(+, 0, v) = Sums(v)[DOMAIN v]
  BY DEF FoldSeq, FoldFunction, FoldFunctionOnSet, MapThenFoldSet, Sums, Pick

LEMMA SumsDefined ==
  ASSUME NEW D, IsFiniteSet(D), NEW v \in [D -> Nat]
  PROVE  Sums(v) = [I \in SUBSET D |-> IF I = {} THEN 0 ELSE v[Pick(I)] + Sums(v)[I \ {Pick(I)}]]
<1>. DEFINE Fit(g, I) == g[I] = IF I = {} THEN 0 ELSE v[Pick(I)] + g[I \ {Pick(I)}]
            Small(n) == {I \in SUBSET D : Cardinality(I) <= n}
            S == {n \in Nat : \E g \in [SUBSET D -> Nat] : \A I \in Small(n) : Fit(g, I)}
<1>1. \A I \in SUBSET D : /\ IsFiniteSet(I) /\ Cardinality(I) \in Nat /\ Cardinality(I) <= Cardinality(D)
                          /\ Cardinality(I) = 0 <=> I = {}
  BY FS_Subset, FS_CardinalityType, FS_EmptySet
<1>2. \A I \in SUBSET D : I # {} =>
        Pick(I) \in I /\ I \ {Pick(I)} \in SUBSET D /\ Cardinality(I \ {Pick(I)}) = Cardinality(I) - 1
  <2>. SUFFICES ASSUME NEW I \in SUBSET D, I # {}
                PROVE  Pick(I) \in I /\ I \ {Pick(I)} \in SUBSET D /\ Cardinality(I \ {Pick(I)}) = Cardinality(I) - 1
    OBVIOUS
  <2>1. Pick(I) \in I
    BY DEF Pick
  <2>. QED
    BY <1>1, <2>1, FS_RemoveElement
<1>3. 0 \in S
  <2>. DEFINE g == [I \in SUBSET D |-> 0]
  <2>1. g \in [SUBSET D -> Nat]
    OBVIOUS
  <2>2. \A I \in Small(0) : Fit(g, I)
    BY <1>1
  <2>. HIDE DEF g, Fit, Small
  <2>. QED
    BY <2>1, <2>2
<1>4. ASSUME NEW n \in Nat, n \in S
      PROVE  n + 1 \in S
  <2>1. PICK g \in [SUBSET D -> Nat] : \A I \in Small(n) : Fit(g, I)
    BY <1>4
  <2>. DEFINE f == [I \in SUBSET D |-> IF Cardinality(I) <= n THEN g[I] ELSE v[Pick(I)] + g[I \ {Pick(I)}]]
  <2>2. f \in [SUBSET D -> Nat]
    BY <1>1, <1>2
  <2>3. \A I \in Small(n) : f[I] = g[I]
    OBVIOUS
  <2>4. \A I \in SUBSET D : I # {} /\ Cardinality(I) <= n + 1 => I \ {Pick(I)} \in Small(n)
    BY <1>1, <1>2
  <2>5. ASSUME NEW I \in Small(n + 1)
        PROVE  Fit(f, I)
    <3>1. CASE I = {}
      <4>1. I \in Small(n)
        BY <1>1, <3>1
      <4>2. f[I] = g[I] /\ Fit(g, I)
        BY <2>1, <2>3, <4>1
      <4>. QED
        BY <3>1, <4>2
    <3>2. CASE I # {}
      <4>1. f[I \ {Pick(I)}] = g[I \ {Pick(I)}]
        BY <2>3, <2>4, <3>2
      <4>2. CASE Cardinality(I) <= n
        <5>1. I \in Small(n)
          BY <4>2
        <5>2. f[I] = g[I] /\ Fit(g, I)
          BY <2>1, <2>3, <5>1
        <5>. QED
          BY <3>2, <4>1, <5>2
      <4>3. CASE ~(Cardinality(I) <= n)
        <5>1. f[I] = v[Pick(I)] + g[I \ {Pick(I)}]
          BY <4>3
        <5>. QED
          BY <3>2, <4>1, <5>1
      <4>. QED
        BY <4>2, <4>3
    <3>. QED
      BY <3>1, <3>2
  <2>. HIDE DEF f, Fit, Small
  <2>. QED
    BY <2>2, <2>5
<1>5. Cardinality(D) \in S
  <2>. HIDE DEF S
  <2>1. Cardinality(D) \in Nat
    BY FS_CardinalityType
  <2>. QED
    BY <1>3, <1>4, <2>1, Induction
<1>6. PICK g \in [SUBSET D -> Nat] : \A I \in Small(Cardinality(D)) : Fit(g, I)
  BY <1>5
<1>7. Small(Cardinality(D)) = SUBSET D
  BY <1>1
<1>8. g = [I \in SUBSET D |-> IF I = {} THEN 0 ELSE v[Pick(I)] + g[I \ {Pick(I)}]]
  BY <1>6, <1>7
<1>9. DOMAIN v = D
  OBVIOUS
<1>. QED
  BY <1>8, <1>9 DEF Sums

\* The sum of some positions is any one of them and the sum of the others.
SumsUp(v, D) ==
  /\ Sums(v)[{}] = 0
  /\ \A I \in SUBSET D : Sums(v)[I] \in Nat
  /\ \A I \in SUBSET D : \A x \in I : Sums(v)[I] = v[x] + Sums(v)[I \ {x}]

LEMMA SumsAnyOrder ==
  ASSUME NEW D, IsFiniteSet(D), NEW v \in [D -> Nat]
  PROVE  SumsUp(v, D)
<1>. DEFINE g == Sums(v)
<1>1. /\ g[{}] = 0
      /\ \A I \in SUBSET D : I # {} => g[I] = v[Pick(I)] + g[I \ {Pick(I)}] /\ Pick(I) \in I
  <2>1. g = [I \in SUBSET D |-> IF I = {} THEN 0 ELSE v[Pick(I)] + g[I \ {Pick(I)}]]
    BY SumsDefined, ZenonT(40)
  <2>. HIDE DEF g
  <2>2. \A I \in SUBSET D : g[I] = IF I = {} THEN 0 ELSE v[Pick(I)] + g[I \ {Pick(I)}]
    BY <2>1
  <2>3. \A I : I # {} => Pick(I) \in I
    BY DEF Pick
  <2>. QED
    BY <2>2, <2>3
<1>. HIDE DEF g
<1>2. \A I \in SUBSET D : g[I] \in Nat
  <2>. DEFINE F == {I \in SUBSET D : g[I] \notin Nat}
  <2>. SUFFICES ASSUME F # {} PROVE FALSE
    OBVIOUS
  <2>1. PICK I \in F : \A V \in F : V \subseteq I => V = I
    <3>1. F \subseteq SUBSET D
      OBVIOUS
    <3>. HIDE DEF F
    <3>. QED
      BY <3>1, Smallest
  <2>2. I \in SUBSET D /\ g[I] \notin Nat
    OBVIOUS
  <2>3. I # {}
    BY <1>1, <2>2
  <2>4. Pick(I) \in I /\ g[I] = v[Pick(I)] + g[I \ {Pick(I)}]
    BY <1>1, <2>2, <2>3
  <2>5. I \ {Pick(I)} \in SUBSET D /\ I \ {Pick(I)} # I /\ v[Pick(I)] \in Nat
    BY <2>2, <2>4
  <2>6. I \ {Pick(I)} \notin F
    BY <2>1, <2>5
  <2>7. g[I \ {Pick(I)}] \in Nat
    BY <2>5, <2>6
  <2>. QED
    BY <2>2, <2>4, <2>5, <2>7
<1>3. \A I \in SUBSET D : \A x \in I : g[I] = v[x] + g[I \ {x}]
  <2>. DEFINE F == {I \in SUBSET D : \E x \in I : g[I] # v[x] + g[I \ {x}]}
  <2>. SUFFICES ASSUME F # {} PROVE FALSE
    OBVIOUS
  <2>1. PICK I \in F : \A V \in F : V \subseteq I => V = I
    <3>1. F \subseteq SUBSET D
      OBVIOUS
    <3>. HIDE DEF F
    <3>. QED
      BY <3>1, Smallest
  <2>2. PICK x \in I : g[I] # v[x] + g[I \ {x}]
    BY <2>1
  <2>. DEFINE y == Pick(I)
              J == I \ {x, y}
  <2>3. I \in SUBSET D /\ y \in I /\ g[I] = v[y] + g[I \ {y}]
    BY <1>1, <2>1, <2>2
  <2>. HIDE DEF y
  <2>4. x # y
    BY <2>2, <2>3
  <2>5. /\ I \ {y} \in SUBSET D /\ I \ {x} \in SUBSET D /\ J \in SUBSET D
        /\ x \in I \ {y} /\ y \in I \ {x}
        /\ (I \ {y}) \ {x} = J /\ (I \ {x}) \ {y} = J
    BY <2>2, <2>3, <2>4
  <2>6. I \ {y} \notin F /\ I \ {x} \notin F
    BY <2>1, <2>2, <2>3
  <2>7. g[I \ {y}] = v[x] + g[J] /\ g[I \ {x}] = v[y] + g[J]
    BY <2>5, <2>6
  <2>8. v[x] \in Nat /\ v[y] \in Nat /\ g[J] \in Nat
    BY <1>2, <2>2, <2>3, <2>5
  <2>. HIDE DEF J
  <2>. QED
    BY <2>2, <2>3, <2>7, <2>8
<1>. QED
  BY <1>1, <1>2, <1>3 DEF g, SumsUp

\* The sum of the last prices, one by one.
LEMMA TrailingStep ==
  ASSUME NEW prices \in Seq(Nat)
  PROVE  /\ TrailingSum(prices, 0) = 0
         /\ \A k \in 0..Len(prices) : TrailingSum(prices, k) \in Nat
         /\ \A k \in 0..(Len(prices) - 1) :
              TrailingSum(prices, k + 1) = prices[Len(prices) - k] + TrailingSum(prices, k)
<1>. DEFINE n == Len(prices)
            v(k) == [i \in 1..k |-> prices[i + n - k]]
<1>1. n \in Nat /\ \A i \in 1..n : prices[i] \in Nat
  OBVIOUS
<1>. HIDE DEF n
<1>2. \A k \in 0..n : /\ IsFiniteSet(1..k) /\ v(k) \in [1..k -> Nat]
                      /\ TrailingSum(prices, k) = Sums(v(k))[1..k]
  <2>. SUFFICES ASSUME NEW k \in 0..n
                PROVE  /\ IsFiniteSet(1..k) /\ v(k) \in [1..k -> Nat]
                       /\ TrailingSum(prices, k) = Sums(v(k))[1..k]
    OBVIOUS
  <2>1. 1 \in Int /\ k \in Int
    OBVIOUS
  <2>2. IsFiniteSet(1..k)
    BY <2>1, FS_Interval, Zenon
  <2>3. \A i \in 1..k : i + n - k \in 1..n
    BY <1>1
  <2>4. v(k) \in [1..k -> Nat]
    BY <1>1, <2>3
  <2>5. SubSeq(prices, n - k + 1, n) = v(k)
    <3>1. SubSeq(prices, n - k + 1, n) = [i \in 1..k |-> prices[i + (n - k + 1) - 1]]
      BY <1>1, SMTT(40) DEF n
    <3>2. \A i \in 1..k : i + (n - k + 1) - 1 = i + n - k
      BY <1>1
    <3>. QED
      BY <3>1, <3>2
  <2>6. DOMAIN v(k) = 1..k
    OBVIOUS
  <2>. HIDE DEF v
  <2>7. TrailingSum(prices, k) = FoldSeq(+, 0, v(k))
    BY <2>5 DEF TrailingSum, n
  <2>. QED
    BY <2>2, <2>4, <2>6, <2>7, FoldIsSum
<1>3. \A k \in 0..n : SumsUp(v(k), 1..k)
  <2>. HIDE DEF v
  <2>. QED
    BY <1>2, SumsAnyOrder
<1>4. TrailingSum(prices, 0) = 0
  <2>1. 0 \in 0..n /\ 1..0 = {}
    BY <1>1
  <2>. HIDE DEF v
  <2>. QED
    BY <1>2, <1>3, <2>1 DEF SumsUp
<1>5. \A k \in 0..n : TrailingSum(prices, k) \in Nat
  <2>. HIDE DEF v
  <2>. QED
    BY <1>2, <1>3 DEF SumsUp
<1>6. ASSUME NEW k \in 0..(n - 1)
      PROVE  TrailingSum(prices, k + 1) = prices[n - k] + TrailingSum(prices, k)
  <2>. DEFINE g == Sums(v(k + 1))
              h == Sums(v(k))
              S == {j \in Nat : j <= k => g[2..(j + 1)] = h[1..j]}
  <2>1. k \in 0..n /\ k + 1 \in 0..n
    BY <1>1
  <2>2. \A i \in 1..k : v(k + 1)[i + 1] = v(k)[i]
    <3>1. \A i \in 1..k : i + 1 \in 1..(k + 1) /\ (i + 1) + n - (k + 1) = i + n - k
      BY <1>1
    <3>. QED
      BY <3>1
  <2>3. v(k + 1)[1] = prices[n - k]
    <3>1. 1 + n - (k + 1) = n - k /\ 1 \in 1..(k + 1)
      BY <1>1
    <3>. QED
      BY <3>1
  <2>. HIDE DEF v
  <2>4. /\ \A I \in SUBSET (1..(k + 1)) : \A x \in I : g[I] = v(k + 1)[x] + g[I \ {x}]
        /\ \A I \in SUBSET (1..k) : \A x \in I : h[I] = v(k)[x] + h[I \ {x}]
        /\ g[{}] = 0 /\ h[{}] = 0
    BY <1>3, <2>1 DEF SumsUp
  <2>5. TrailingSum(prices, k + 1) = g[1..(k + 1)] /\ TrailingSum(prices, k) = h[1..k]
    BY <1>2, <2>1
  <2>. HIDE DEF g, h
  <2>6. 0 \in S
    <3>1. 2..(0 + 1) = {} /\ 1..0 = {}
      OBVIOUS
    <3>. QED
      BY <2>4, <3>1
  <2>7. ASSUME NEW j \in Nat, j \in S
        PROVE  j + 1 \in S
    <3>. SUFFICES ASSUME j + 1 <= k PROVE g[2..((j + 1) + 1)] = h[1..(j + 1)]
      OBVIOUS
    <3>1. /\ 2..(j + 2) \in SUBSET (1..(k + 1)) /\ j + 2 \in 2..(j + 2) /\ (2..(j + 2)) \ {j + 2} = 2..(j + 1)
          /\ 1..(j + 1) \in SUBSET (1..k) /\ j + 1 \in 1..(j + 1) /\ (1..(j + 1)) \ {j + 1} = 1..j
      OBVIOUS
    <3>2. g[2..(j + 2)] = v(k + 1)[j + 2] + g[(2..(j + 2)) \ {j + 2}]
      BY <2>4, <3>1, ZenonT(40)
    <3>3. h[1..(j + 1)] = v(k)[j + 1] + h[(1..(j + 1)) \ {j + 1}]
      BY <2>4, <3>1
    <3>4. v(k + 1)[j + 2] = v(k)[j + 1]
      <4>1. j + 1 \in 1..k /\ (j + 1) + 1 = j + 2
        OBVIOUS
      <4>. QED
        BY <2>2, <4>1
    <3>5. g[2..(j + 1)] = h[1..j] /\ (j + 1) + 1 = j + 2
      BY <2>7
    <3>. QED
      BY <3>1, <3>2, <3>3, <3>4, <3>5
  <2>8. k \in S
    <3>. HIDE DEF S
    <3>. QED
      BY <2>6, <2>7, Induction
  <2>9. g[1..(k + 1)] = v(k + 1)[1] + g[(1..(k + 1)) \ {1}]
    <3>1. 1 \in 1..(k + 1) /\ 1..(k + 1) \in SUBSET (1..(k + 1))
      OBVIOUS
    <3>. QED
      BY <2>4, <3>1, ZenonT(40)
  <2>10. (1..(k + 1)) \ {1} = 2..(k + 1)
    OBVIOUS
  <2>11. g[2..(k + 1)] = h[1..k]
    BY <2>8
  <2>. QED
    BY <2>3, <2>9, <2>10, <2>5, <2>11
<1>. QED
  BY <1>4, <1>5, <1>6 DEF n

-----------------------------------------------------------------------------
(* The trend. *)

\* Prices that are at most, or at least, b add at most, or at least, as many
\* times b to the sum.
LEMMA TrailingBounds ==
  ASSUME NEW prices \in Seq(Nat), NEW w \in Nat, NEW m \in Nat, w <= m, m <= Len(prices), NEW b \in Int
  PROVE  /\ (\A i \in (Len(prices) - m + 1)..(Len(prices) - w) : prices[i] <= b)
              => TrailingSum(prices, m) <= TrailingSum(prices, w) + (m - w) * b
         /\ (\A i \in (Len(prices) - m + 1)..(Len(prices) - w) : prices[i] >= b)
              => TrailingSum(prices, m) >= TrailingSum(prices, w) + (m - w) * b
<1>. DEFINE n == Len(prices)
            T(k) == TrailingSum(prices, k)
            AtMost == \A i \in (n - m + 1)..(n - w) : prices[i] <= b
            AtLeast == \A i \in (n - m + 1)..(n - w) : prices[i] >= b
            S == {k \in Nat : w + k <= m =>
                    /\ AtMost => T(w + k) <= T(w) + k * b
                    /\ AtLeast => T(w + k) >= T(w) + k * b}
<1>1. n \in Nat /\ \A i \in 1..n : prices[i] \in Nat
  OBVIOUS
<1>2. /\ \A k \in 0..n : T(k) \in Nat
      /\ \A k \in 0..(n - 1) : T(k + 1) = prices[n - k] + T(k)
  BY TrailingStep
<1>3. \A i \in (n - m + 1)..(n - w) : (AtMost => prices[i] <= b) /\ (AtLeast => prices[i] >= b)
  OBVIOUS
<1>. HIDE DEF n, T, AtMost, AtLeast
<1>4. 0 \in S
  <2>1. w + 0 = w /\ 0 * b = 0 /\ w \in 0..n
    BY <1>1 DEF n
  <2>2. T(w + 0) = T(w) /\ T(w) \in Nat
    BY <1>2, <2>1
  <2>. QED
    BY <2>1, <2>2
<1>5. ASSUME NEW k \in Nat, k \in S
      PROVE  k + 1 \in S
  <2>. SUFFICES ASSUME w + (k + 1) <= m
                PROVE  /\ AtMost => T(w + (k + 1)) <= T(w) + (k + 1) * b
                       /\ AtLeast => T(w + (k + 1)) >= T(w) + (k + 1) * b
    OBVIOUS
  <2>. DEFINE x == prices[n - (w + k)]
  <2>1. /\ w + k \in 0..(n - 1) /\ w + k \in 0..n /\ w \in 0..n /\ w + (k + 1) = (w + k) + 1
        /\ n - (w + k) \in 1..n /\ n - (w + k) \in (n - m + 1)..(n - w)
    BY <1>1 DEF n
  <2>2. /\ T(w + (k + 1)) = x + T(w + k) /\ x \in Nat /\ T(w + k) \in Nat /\ T(w) \in Nat
    BY <1>1, <1>2, <2>1
  <2>3. (AtMost => x <= b) /\ (AtLeast => x >= b)
    BY <1>3, <2>1
  <2>4. /\ AtMost => T(w + k) <= T(w) + k * b
        /\ AtLeast => T(w + k) >= T(w) + k * b
    BY <1>5
  <2>5. (k + 1) * b = k * b + b /\ k * b \in Int
    OBVIOUS
  <2>. HIDE DEF x
  <2>. QED
    BY <2>2, <2>3, <2>4, <2>5, SMTT(40)
<1>6. m - w \in S
  <2>1. m - w \in Nat
    OBVIOUS
  <2>. HIDE DEF S
  <2>. QED
    BY <1>4, <1>5, <2>1, Induction
<1>7. w + (m - w) = m
  OBVIOUS
<1>. QED
  BY <1>6, <1>7 DEF n, T, AtMost, AtLeast

\* Of w numbers whose sum is x, none below a, and e others below a: the
\* average of all is below that of the w; and the other way round.
LEMMA Averages ==
  ASSUME NEW x \in Int, NEW y \in Int, NEW a \in Int, NEW w \in Nat \ {0}, NEW e \in Nat \ {0}
  PROVE  /\ x >= w * a /\ y <= x + e * (a - 1) => x * (w + e) > y * w
         /\ x <= w * a /\ y >= x + e * (a + 1) => y * w > x * (w + e)
<1>1. e * w >= 1 /\ e * w \in Int
  OBVIOUS
<1>2. x * (w + e) = x * w + x * e /\ x * w \in Int /\ x * e \in Int /\ y * w \in Int
  OBVIOUS
<1>3. ASSUME x >= w * a, y <= x + e * (a - 1)
      PROVE  x * (w + e) > y * w
  <2>1. y * w <= (x + e * (a - 1)) * w
    BY <1>3
  <2>2. x * e >= (w * a) * e
    BY <1>3
  <2>3. (x + e * (a - 1)) * w = x * w + (w * a) * e - e * w
    OBVIOUS
  <2>. QED
    BY <1>1, <1>2, <2>1, <2>2, <2>3
<1>4. ASSUME x <= w * a, y >= x + e * (a + 1)
      PROVE  y * w > x * (w + e)
  <2>1. y * w >= (x + e * (a + 1)) * w
    BY <1>4
  <2>2. x * e <= (w * a) * e
    BY <1>4
  <2>3. (x + e * (a + 1)) * w = x * w + (w * a) * e + e * w
    OBVIOUS
  <2>. QED
    BY <1>1, <1>2, <2>1, <2>2, <2>3
<1>. QED
  BY <1>3, <1>4

LEMMA MonotoneAverages ==
  ASSUME NEW prices \in Seq(Nat), NEW w \in Nat \ {0}, NEW m \in Nat, w < m, m <= Len(prices)
  PROVE  /\ Rising(prices) => Above(prices, w, m)
         /\ Falling(prices) => Above(prices, m, w)
<1>. DEFINE n == Len(prices)
            x == TrailingSum(prices, w)
            y == TrailingSum(prices, m)
            a == prices[n - w + 1]
            e == m - w
<1>1. n \in Nat /\ m <= n /\ \A i \in 1..n : prices[i] \in Nat
  OBVIOUS
<1>. HIDE DEF n
<1>2. /\ n - w + 1 \in 1..n /\ a \in Int /\ e \in Nat \ {0} /\ w + e = m
      /\ 0 \in Nat /\ w \in 0..n /\ m \in 0..n /\ 0 <= w /\ w <= n /\ w <= m
  BY <1>1
<1>3. x \in Int /\ y \in Int /\ TrailingSum(prices, 0) = 0
  BY <1>2, TrailingStep DEF n
<1>4. \A i \in (n - w + 1)..(n - 0) : /\ i \in 1..n /\ (i = n - w + 1 \/ n - w + 1 < i)
                                      /\ prices[i] \in Nat
  BY <1>1, <1>2
<1>5. \A i \in (n - m + 1)..(n - w) : i \in 1..n /\ i < n - w + 1 /\ prices[i] \in Nat
  BY <1>1, <1>2
<1>6. a - 1 \in Int /\ a + 1 \in Int
  BY <1>2
<1>. HIDE DEF x, y, a, e
<1>7. ASSUME Rising(prices)
      PROVE  Above(prices, w, m)
  <2>0. \A i, j \in 1..n : i < j => prices[i] < prices[j]
    BY <1>7 DEF Rising, n
  <2>1. \A i \in (n - w + 1)..(n - 0) : prices[i] >= a
    BY <1>2, <1>4, <2>0, SMTT(40) DEF a
  <2>2. \A i \in (n - m + 1)..(n - w) : prices[i] <= a - 1
    BY <1>2, <1>5, <2>0, SMTT(40) DEF a
  <2>3. x >= TrailingSum(prices, 0) + (w - 0) * a
    BY <1>2, <2>1, TrailingBounds DEF n, x
  <2>4. y <= x + e * (a - 1)
    BY <1>2, <1>6, <2>2, TrailingBounds DEF n, x, y, e
  <2>5. x >= w * a
    BY <1>2, <1>3, <2>3
  <2>6. x * (w + e) > y * w
    BY <1>2, <1>3, <2>4, <2>5, Averages
  <2>. QED
    BY <1>2, <2>6 DEF Above, x, y
<1>8. ASSUME Falling(prices)
      PROVE  Above(prices, m, w)
  <2>0. \A i, j \in 1..n : i < j => prices[i] > prices[j]
    BY <1>8 DEF Falling, n
  <2>1. \A i \in (n - w + 1)..(n - 0) : prices[i] <= a
    BY <1>2, <1>4, <2>0, SMTT(40) DEF a
  <2>2. \A i \in (n - m + 1)..(n - w) : prices[i] >= a + 1
    BY <1>2, <1>5, <2>0, SMTT(40) DEF a
  <2>3. x <= TrailingSum(prices, 0) + (w - 0) * a
    BY <1>2, <2>1, TrailingBounds DEF n, x
  <2>4. y >= x + e * (a + 1)
    BY <1>2, <1>6, <2>2, TrailingBounds DEF n, x, y, e
  <2>5. x <= w * a
    BY <1>2, <1>3, <2>3
  <2>6. y * w > x * (w + e)
    BY <1>2, <1>3, <2>4, <2>5, Averages
  <2>. QED
    BY <1>2, <2>6 DEF Above, x, y
<1>. QED
  BY <1>7, <1>8

LEMMA Quotient ==
  ASSUME NEW x \in Nat
  PROVE  x \div 90 \in Int /\ 90 * (x \div 90) <= x /\ x < 90 * (x \div 90) + 90
  OBVIOUS

\* From ten prices on the windows are of different sizes.
LEMMA Windows ==
  ASSUME NEW n \in Nat, n >= 10
  PROVE  LET week == Clamped((n * 7) \div 90, n)
             month == Clamped((n * 30) \div 90, n)
         IN  week \in Nat \ {0} /\ month \in Nat \ {0} /\ week < month /\ month < n
<1>. DEFINE x == (n * 7) \div 90
            y == (n * 30) \div 90
<1>1. n * 7 \in Nat /\ n * 30 \in Nat
  OBVIOUS
<1>2. x \in Int /\ 90 * x <= n * 7 /\ n * 7 < 90 * x + 90
  BY <1>1, Quotient
<1>3. y \in Int /\ 90 * y <= n * 30 /\ n * 30 < 90 * y + 90
  BY <1>1, Quotient
<1>. HIDE DEF x, y
<1>4. x >= 0 /\ y >= 3 /\ x < y /\ y < n
  BY <1>2, <1>3
<1>5. Clamped(x, n) = (IF x <= 0 THEN 1 ELSE x) /\ Clamped(y, n) = y
  BY <1>2, <1>3, <1>4 DEF Clamped
<1>6. /\ Clamped(x, n) \in Nat \ {0} /\ Clamped(y, n) \in Nat \ {0}
      /\ Clamped(x, n) < Clamped(y, n) /\ Clamped(y, n) < n
  BY <1>2, <1>3, <1>4, <1>5
<1>. QED
  BY <1>6 DEF x, y

\* For any history of ten prices or more, however the windows are rounded:
\* prices that only rise have a bullish trend, prices that only fall a bearish one.
THEOREM MonotoneTrend ==
  ASSUME NEW prices \in Seq(Nat), Trend(prices) # "too little"
  PROVE  /\ Rising(prices) => Trend(prices) = "Bullish"
         /\ Falling(prices) => Trend(prices) = "Bearish"
<1>1. Len(prices) \in Nat /\ Len(prices) >= 10 /\ ~(Len(prices) < 10)
  BY DEF Trend
<1>. DEFINE n == Len(prices)
<1>2. PICK week \in Nat \ {0}, month \in Nat \ {0} :
        /\ week < month /\ month < n
        /\ Trend(prices) = IF Above(prices, week, month) /\ Above(prices, month, n) THEN "Bullish"
                           ELSE IF Above(prices, month, week) /\ Above(prices, n, month) THEN "Bearish"
                           ELSE "Sideways"
  <2>. DEFINE week == Clamped((n * 7) \div 90, n)
              month == Clamped((n * 30) \div 90, n)
  <2>1. week \in Nat \ {0} /\ month \in Nat \ {0} /\ week < month /\ month < n
    BY <1>1, Windows
  <2>2. Trend(prices) = IF n < 10 THEN "too little"
                        ELSE IF Above(prices, week, month) /\ Above(prices, month, n) THEN "Bullish"
                        ELSE IF Above(prices, month, week) /\ Above(prices, n, month) THEN "Bearish"
                        ELSE "Sideways"
    BY DEF Trend
  <2>3. ~(n < 10)
    BY <1>1, Zenon
  <2>. HIDE DEF week, month, n
  <2>. QED
    BY <2>1, <2>2, <2>3
<1>. HIDE DEF n
<1>4. TrailingSum(prices, week) \in Nat /\ TrailingSum(prices, month) \in Nat
  <2>1. week \in 0..Len(prices) /\ month \in 0..Len(prices)
    BY <1>1, <1>2 DEF n
  <2>. QED
    BY <2>1, TrailingStep
<1>5. ASSUME Rising(prices)
      PROVE  Above(prices, week, month) /\ Above(prices, month, n)
  BY <1>1, <1>2, <1>5, MonotoneAverages DEF n
<1>6. ASSUME Falling(prices)
      PROVE  Above(prices, month, week) /\ Above(prices, n, month)
  BY <1>1, <1>2, <1>6, MonotoneAverages DEF n
<1>7. Above(prices, month, week) => ~Above(prices, week, month)
  BY <1>2, <1>4 DEF Above
<1>. QED
  BY <1>2, <1>5, <1>6, <1>7

-----------------------------------------------------------------------------
(* What the tasks show. *)
ReadRight(s) ==
  /\ s.kind = "trend" /\ s.label # "too little" =>
       (Rising(s.in) => s.label = "Bullish") /\ (Falling(s.in) => s.label = "Bearish")
  /\ s.kind = "mood" =>
       /\ s.label = -Mood(-s.in.day, -s.in.week)
       /\ \A day \in Changes, week \in Changes :
            day >= s.in.day /\ week >= s.in.week => Mood(day, week) >= s.label
       /\ s.in.day >= 0 /\ s.in.week >= 0 => s.label >= 0
  /\ s.kind = "volatility" => \A p \in Range(s.in) :
       p > 0 /\ (\A q \in Range(s.in) : q >= p) =>
         /\ s.label = "Low" <=> Within(s.in, p, 10)
         /\ s.label \in {"Low", "Medium"} <=> Within(s.in, p, 25)
         /\ s.label # "Extreme" <=> Within(s.in, p, 40)
  /\ s.kind = "index" => s.label \in {s.in.class, Guide(s.in.value)}

ShownRight(s) ==
  /\ ReadRight(s)
  /\ s.kind \in {"gainers", "losers"} => RankedRightly(s)
  /\ s.kind \in {"gainers", "losers", "token"} => SectionRight(s)

ShownInv ==
  /\ shown = [t \in Tasks |-> shown[t]]
  /\ \A t \in Tasks : ShownRight(shown[t])

LEMMA NothingRight == ShownRight(Nothing)
  BY DEF ShownRight, ReadRight, Nothing

LEMMA ReadingsRight ==
  /\ \A day, week \in Changes :
       ShownRight([kind |-> "mood", in |-> [day |-> day, week |-> week], label |-> Mood(day, week)])
  /\ \A prices \in Charts :
       /\ ShownRight([kind |-> "volatility", in |-> prices, label |-> Volatility(prices)])
       /\ ShownRight([kind |-> "trend", in |-> prices, label |-> Trend(prices)])
  /\ \A value \in Indices \cup {0}, class \in Classifications :
       ShownRight([kind |-> "index", in |-> [value |-> value, class |-> class],
                   label |-> explainFearGreed(value, class)])
<1>0. Changes \subseteq Int /\ Indices \subseteq Int /\ Charts \subseteq Seq(Nat)
  BY ApplicationAssumption
<1>1. ASSUME NEW day \in Changes, NEW week \in Changes
      PROVE  ShownRight([kind |-> "mood", in |-> [day |-> day, week |-> week], label |-> Mood(day, week)])
  <2>1. day \in Int /\ week \in Int
    BY <1>0
  <2>2. Mood(-day, -week) = -Mood(day, week) /\ Mood(day, week) \in Int
    <3>1. Mood(day, week) \in {2, -2, 1, -1, 0}
      BY DEF Mood
    <3>. QED
      BY <2>1, <3>1, MoodSymmetric
  <2>3. day >= 0 /\ week >= 0 => Mood(day, week) >= 0
    BY <2>1, NoLossNoBear
  <2>4. \A day2 \in Changes, week2 \in Changes :
          day2 >= day /\ week2 >= week => Mood(day2, week2) >= Mood(day, week)
    BY <1>0, <2>1, MoodMonotone
  <2>. QED
    BY <2>2, <2>3, <2>4 DEF ShownRight, ReadRight
<1>2. ASSUME NEW prices \in Charts
      PROVE  /\ ShownRight([kind |-> "volatility", in |-> prices, label |-> Volatility(prices)])
             /\ ShownRight([kind |-> "trend", in |-> prices, label |-> Trend(prices)])
  <2>1. prices \in Seq(Nat)
    BY <1>0
  <2>2. ShownRight([kind |-> "volatility", in |-> prices, label |-> Volatility(prices)])
    BY <2>1, ClassOfSpread DEF ShownRight, ReadRight
  <2>3. ShownRight([kind |-> "trend", in |-> prices, label |-> Trend(prices)])
    BY <2>1, MonotoneTrend DEF ShownRight, ReadRight
  <2>. QED
    BY <2>2, <2>3
<1>3. ASSUME NEW value \in Indices \cup {0}, NEW class \in Classifications
      PROVE  ShownRight([kind |-> "index", in |-> [value |-> value, class |-> class],
                         label |-> explainFearGreed(value, class)])
  <2>1. value \in Int
    BY <1>0
  <2>2. explainFearGreed(value, class) \in {class, Guide(value)}
    BY <2>1, NoteFits
  <2>. QED
    BY <2>2 DEF ShownRight, ReadRight
<1>. QED
  BY <1>1, <1>2, <1>3

LEMMA ShowsOne ==
  ASSUME ShownInv, NEW t \in Tasks, NEW s, ShownRight(s), shown' = [shown EXCEPT ![t] = s]
  PROVE  ShownInv'
<1>1. shown' = [u \in Tasks |-> IF u = t THEN s ELSE shown[u]]
  BY DEF ShownInv
<1>. QED
  BY <1>1 DEF ShownInv

LEMMA ShownPreserved ==
  ASSUME TasksInv, ShownInv, [Next]_vars
  PROVE  ShownInv'
<1>1. CASE UNCHANGED shown
  BY <1>1 DEF ShownInv
<1>2. ASSUME NEW t \in Tasks, AskExchange(t)
      PROVE  ShownInv'
  <2>1. PICK listing \in Listings, limit \in Limits :
          \E answers \in [Parts(Ask(t).cex, listing) -> Possible(t)] :
            \E found \in IF Ask(t).kind = "gainers" THEN FetchCexGainers(Ask(t).cex, answers, limit)
                                                    ELSE FetchCexLosers(Ask(t).cex, answers, limit) :
              shown' = [shown EXCEPT ![t] =
                [kind |-> Ask(t).kind, cex |-> Ask(t).cex, heard |-> Range(answers), of |-> Good(answers),
                 limit |-> limit, list |-> found.list, says |-> Says(task[t].cmd, found)]]
    BY <1>2, ZenonT(40) DEF AskExchange
  <2>2. PICK answers \in [Parts(Ask(t).cex, listing) -> Possible(t)] :
          \E found \in IF Ask(t).kind = "gainers" THEN FetchCexGainers(Ask(t).cex, answers, limit)
                                                  ELSE FetchCexLosers(Ask(t).cex, answers, limit) :
            shown' = [shown EXCEPT ![t] =
              [kind |-> Ask(t).kind, cex |-> Ask(t).cex, heard |-> Range(answers), of |-> Good(answers),
               limit |-> limit, list |-> found.list, says |-> Says(task[t].cmd, found)]]
    BY <2>1, Zenon
  <2>3. PICK found \in IF Ask(t).kind = "gainers" THEN FetchCexGainers(Ask(t).cex, answers, limit)
                                                  ELSE FetchCexLosers(Ask(t).cex, answers, limit) :
          shown' = [shown EXCEPT ![t] =
            [kind |-> Ask(t).kind, cex |-> Ask(t).cex, heard |-> Range(answers), of |-> Good(answers),
             limit |-> limit, list |-> found.list, says |-> Says(task[t].cmd, found)]]
    BY <2>2, Zenon
  <2>4. answers \in [Parts(Ask(t).cex, listing) -> Answers]
    <3>1. Possible(t) \subseteq Answers
      BY DEF Possible, Answers
    <3>. QED
      BY <2>1, <3>1
  <2>5. Ask(t).kind \in {"gainers", "losers"} /\ Ask(t).cex \in Range(SupportedCexList)
    <3>1. /\ Ask(t) = AsksOf(task[t])[task[t].at] /\ Ask(t).kind \in {"gainers", "losers"}
          /\ Fits(task[t].cmd, Ask(t))
      BY <1>2, PlanHere, SMTT(40) DEF AskExchange, Asking, At, Ask
    <3>. QED
      BY <3>1 DEF Fits
  <2>. DEFINE r == [kind |-> Ask(t).kind, cex |-> Ask(t).cex, heard |-> Range(answers), of |-> Good(answers),
                    limit |-> limit, list |-> found.list, says |-> Says(task[t].cmd, found)]
  <2>6. RankedRightly(r) /\ SectionRight(r)
    BY <2>3, <2>4, <2>5, ExchangeShows
  <2>7. r.kind \in {"gainers", "losers"}
    BY <2>5
  <2>8. shown' = [shown EXCEPT ![t] = r]
    BY <2>3
  <2>. HIDE DEF r
  <2>9. ShownRight(r)
    BY <2>6, <2>7 DEF ShownRight, ReadRight
  <2>. QED
    BY <2>8, <2>9, ShowsOne
<1>3. ASSUME NEW t \in Tasks, AskToken(t)
      PROVE  ShownInv'
  <2>1. PICK a \in Possible(t) : shown' = [shown EXCEPT ![t] =
          [kind |-> "token", heard |-> {a},
           says |-> CASE searchBestDexPair[a] = "value" -> "figures"
                      [] searchBestDexPair[a] = "none" -> "no data"
                      [] searchBestDexPair[a] = "error" -> "error"]]
    BY <1>3 DEF AskToken
  <2>. DEFINE r == [kind |-> "token", heard |-> {a},
                    says |-> CASE searchBestDexPair[a] = "value" -> "figures"
                               [] searchBestDexPair[a] = "none" -> "no data"
                               [] searchBestDexPair[a] = "error" -> "error"]
  <2>2. a \in Answers
    BY <2>1 DEF Possible, Answers
  <2>3. SectionRight(r) /\ r.kind = "token"
    BY <2>2, TokenShows
  <2>4. shown' = [shown EXCEPT ![t] = r]
    BY <2>1
  <2>. HIDE DEF r
  <2>5. ShownRight(r)
    BY <2>3 DEF ShownRight, ReadRight
  <2>. QED
    BY <2>4, <2>5, ShowsOne
<1>4. ASSUME NEW t \in Tasks, ReadSentiment(t) \/ ReadVolatility(t) \/ ReadTrend(t) \/ ReadFearGreed(t)
      PROVE  ShownInv'
  <2>1. CASE ReadSentiment(t)
    BY <2>1, ReadingsRight, ShowsOne DEF ReadSentiment, Reads
  <2>2. CASE ReadVolatility(t)
    BY <1>1, <2>2, ReadingsRight, ShowsOne DEF ReadVolatility, Reads
  <2>3. CASE ReadTrend(t)
    BY <1>1, <2>3, ReadingsRight, ShowsOne DEF ReadTrend, Reads
  <2>4. CASE ReadFearGreed(t)
    BY <2>4, ReadingsRight, ShowsOne DEF ReadFearGreed, Reads
  <2>. QED
    BY <1>4, <2>1, <2>2, <2>3, <2>4
<1>5. ASSUME NEW t \in Tasks, Respond(t)
      PROVE  ShownInv'
  BY <1>5, NothingRight, ShowsOne DEF Respond
<1>6. ASSUME NEW t \in Tasks, Receive(t) \/ Execute(t) \/ Expire(t),
             ~AskExchange(t), ~AskToken(t),
             ~ReadSentiment(t), ~ReadVolatility(t), ~ReadTrend(t), ~ReadFearGreed(t), ~Respond(t)
      PROVE  UNCHANGED shown
  BY <1>6 DEF Receive, Execute, Expire, Refuse, MissesKey, Begin, Shuffle, AlertCommand, MakeRequest,
     AskTopMarkets, Finish
<1>7. CASE UNCHANGED vars \/ UNCHANGED appVars
  BY <1>1, <1>7 DEF vars, appVars
<1>. QED
  BY <1>1, <1>2, <1>3, <1>4, <1>5, <1>6, <1>7 DEF Next, Execute, Checker

LEMMA ShownInvariant == Spec => []ShownInv
<1>1. Init => ShownInv
  BY NothingRight DEF Init, ShownInv
<1>. QED
  BY <1>1, TasksStart, TasksPreserved, ShownPreserved, PTL DEF Spec

\* Whatever is asked in the sections of a reply, each of Coinbase's requests by
\* itself included: figures come from good answers, and a failure is told as one,
\* but for the pairs Coinbase leaves out and the refusals of OKX and KuCoin.
THEOREM SectionsGrounded == Spec => []SectionsRestOnData
<1>1. ShownInv => SectionsRestOnData
  BY DEF ShownInv, ShownRight, SectionsRestOnData
<1>. QED
  BY <1>1, ShownInvariant, PTL

\* For any listings, however many tickers they have and of whatever kinds, any
\* limit and any exchange: what is shown are the extremes, in order, none left
\* out.
THEOREM ExtremesShown == Spec => []RankingsRight
<1>1. ShownInv => RankingsRight
  BY DEF ShownInv, ShownRight, RankingsRight
<1>. QED
  BY <1>1, ShownInvariant, PTL

\* For any figures of the services: the analytic commands say what a reader
\* takes them to say.
THEOREM IndicatorsFit == Spec => []IndicatorsRight
<1>1. ShownInv => IndicatorsRight
  BY DEF ShownInv, ShownRight, ReadRight, IndicatorsRight
<1>. QED
  BY <1>1, ShownInvariant, PTL
=============================================================================
