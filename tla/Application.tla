----------------------------- MODULE Application -----------------------------
(***************************************************************************)
(* CryptoSentinel as the task coordinator runs it: tasks that execute      *)
(* commands at the same time, each under a context of 30 seconds           *)
(* (TaskCoordinator.ExecuteTask), beside the checker of the price alerts.  *)
(*                                                                         *)
(* The market data services are the environment: every request may get     *)
(* any answer, and none once the task's context has ended.                 *)
(***************************************************************************)
EXTENDS Commands, AlertService

CONSTANTS
  Tasks,
  Menus,       \* what each task may be asked for, and whether the keys of the services
               \* may be in the environment: one of these is chosen at the start
  Answering,   \* symbols whose price is not refused for ever
  Listings,    \* the listings an exchange may answer with
  Limits,      \* the limits a ranking may be asked for
  Changes,     \* changes of a coin's price, for sentiment
  Charts,      \* price histories, for volatility and trend
  Indices      \* values of the fear and greed index

ASSUME ApplicationAssumption ==
  /\ Menus \subseteq [of : [Tasks -> SUBSET CommandNames], keys : SUBSET BOOLEAN]
  /\ Answering \subseteq Symbols
  /\ Limits \subseteq Nat \ {0}
  /\ \A listing \in Listings : IsFiniteSet(listing) /\ listing \subseteq Tickers
  /\ Changes \subseteq Int /\ Indices \subseteq Int /\ Charts \subseteq Seq(Nat)

VARIABLES
  menu,
  configured,  \* the keys of the services are in the environment
  task,
  expired,     \* tasks whose context has ended
  crashed,
  heard,       \* history: the answers to a task's requests, but for sectioned commands
  shown        \* the last thing a task has read out of an answer, or its last section

appVars == <<menu, configured, task, expired, crashed, heard, shown>>
vars == <<appVars, alertVars>>

Idle == [pc |-> "idle", cmd |-> "help", plan |-> 1, at |-> 1]
Nothing == [kind |-> "nothing"]
Results == {"text", "error", "answer"}

TypeOK ==
  /\ \E m \in Menus : menu = m.of /\ configured \in m.keys
  /\ crashed \in BOOLEAN
  /\ \A t \in Tasks :
       /\ task[t].pc \in {"idle", "asked", "shuffle", "run"} \cup Results
       /\ task[t].pc # "idle" => task[t].cmd \in menu[t]
       /\ task[t].pc \in {"run", "shuffle"} =>
            task[t].at \in 1..(Len(Handle[task[t].cmd].plans[task[t].plan].asks) + 1)
  /\ expired \subseteq {t \in Tasks : task[t].pc # "idle"}
  /\ heard \in [Tasks -> SUBSET Answers]
  /\ AlertsTypeOK

\* main: the clients, the alert service and the agent are made, the checker is
\* started.
Init ==
  /\ \E m \in Menus : menu = m.of /\ configured \in m.keys
  /\ task = [t \in Tasks |-> Idle]
  /\ expired = {} /\ crashed = FALSE
  /\ heard = [t \in Tasks |-> {}]
  /\ shown = [t \in Tasks |-> Nothing]
  /\ AlertsInit

-----------------------------------------------------------------------------
Goto(t, pc) == task' = [task EXCEPT ![t].pc = pc]
At(t, pc) == ~crashed /\ task[t].pc = pc
CommandOf(t) == Handle[task[t].cmd]
PlanOf(t) == CommandOf(t).plans[task[t].plan]
HasKey(t) == CommandOf(t).key = "none" \/ configured

\* ExecuteTask calls ProcessTask, which hands the command to the router.
Receive(t) ==
  /\ At(t, "idle")
  /\ \E c \in menu[t] : task' = [task EXCEPT ![t] = [Idle EXCEPT !.pc = "asked", !.cmd = c]]
  /\ UNCHANGED <<menu, configured, expired, crashed, heard, shown, alertVars>>

\* The usage, or what is wrong with the arguments.
Refuse(t) ==
  /\ At(t, "asked")
  /\ CommandOf(t).refuses
  /\ Goto(t, "text")
  /\ UNCHANGED <<menu, configured, expired, crashed, heard, shown, alertVars>>

MissesKey(t) ==
  /\ At(t, "asked")
  /\ ~HasKey(t)
  /\ Goto(t, CommandOf(t).key)
  /\ UNCHANGED <<menu, configured, expired, crashed, heard, shown, alertVars>>

\* pickRandomTokens shuffles the pool before the first request of dexmeme.
Begin(t) ==
  /\ At(t, "asked") /\ HasKey(t)
  /\ \E k \in 1..Len(CommandOf(t).plans) :
       task' = [task EXCEPT ![t].plan = k,
                            ![t].pc = IF task[t].cmd = "dexmeme" THEN "shuffle" ELSE "run"]
  /\ UNCHANGED <<menu, configured, expired, crashed, heard, shown, alertVars>>

\* The generator dexRand is shared without a lock: two shuffles at a time may
\* leave its positions out of range, and the panic ends the program.
Shuffle(t) ==
  /\ At(t, "shuffle")
  /\ \/ Goto(t, "run") /\ UNCHANGED crashed
     \/ /\ \E u \in Tasks \ {t} : task[u].pc = "shuffle"
        /\ crashed' = TRUE /\ UNCHANGED task
  /\ UNCHANGED <<menu, configured, expired, heard, shown, alertVars>>

\* The alert commands take effect at once, under the mutex of the service.
AlertCommand(t) ==
  /\ At(t, "asked")
  /\ CASE task[t].cmd = "alert" -> \E c \in Conditions : AddAlert(c)
       [] task[t].cmd = "alert_list" -> UNCHANGED alertVars
       [] task[t].cmd = "alert_remove" -> \E index \in 0..(MaxAlerts - 1) : RemoveAlert(index)
       [] task[t].cmd = "alert_clear" -> ClearAlerts
       [] OTHER -> FALSE
  /\ Goto(t, "text")
  /\ UNCHANGED <<menu, configured, expired, crashed, heard, shown>>

-----------------------------------------------------------------------------
(* The requests of a command. *)
Asking(t, kind) ==
  /\ At(t, "run")
  /\ task[t].at <= Len(PlanOf(t).asks)
  /\ PlanOf(t).asks[task[t].at].kind = kind
Ask(t) == PlanOf(t).asks[task[t].at]

Possible(t) == IF t \in expired THEN {"down"} ELSE Answers
Advance(t) == task' = [task EXCEPT ![t].at = @ + 1]

\* Mutant: a client's error is not looked at.
AfterIgnoring(t, outcome) == Advance(t)

\* Mutant: a request that failed is made again.
AfterRetrying(t, outcome) ==
  IF outcome = "error" THEN UNCHANGED task
  ELSE IF outcome = "next" THEN Advance(t) ELSE Goto(t, outcome)

\* What an outcome makes of the task.
After(t, outcome) == IF outcome = "next" THEN Advance(t) ELSE Goto(t, outcome)

MakeRequest(t) ==
  /\ Asking(t, "request")
  /\ \E a \in Possible(t) :
       /\ heard' = [heard EXCEPT ![t] = @ \cup {a}]
       /\ After(t, Ask(t).on[a])
  /\ UNCHANGED <<menu, configured, expired, crashed, shown, alertVars>>

AskTopMarkets(t) ==
  /\ Asking(t, "top")
  /\ \E a \in Possible(t), b \in Possible(t) :
       LET found == FetchTopMarkets(a, b, configured)
       IN  /\ heard' = [heard EXCEPT ![t] = {a} \cup (IF fetchTopMarketsCoinGecko(a) = "error" THEN {b} ELSE {})]
           /\ After(t, CASE found = "value" -> "next" [] found = "none" -> "text" [] found = "error" -> "error")
  /\ UNCHANGED <<menu, configured, expired, crashed, shown, alertVars>>

\* What a section says of a list; gainers_compare has but a heading for an empty one.
Says(cmd, found) ==
  IF found.error THEN "error"
  ELSE IF found.list # <<>> THEN "figures"
  ELSE IF cmd = "gainers_compare" THEN "heading" ELSE "no data"

\* One section: the requests to an exchange are made one after another, and what has
\* not been asked when the context ends is not answered.
AskExchange(t) ==
  /\ Asking(t, "gainers") \/ Asking(t, "losers")
  /\ \E listing \in Listings, limit \in Limits :
       \E answers \in [Parts(Ask(t).cex, listing) -> Possible(t)] :
         \E found \in IF Ask(t).kind = "gainers" THEN FetchCexGainers(Ask(t).cex, answers, limit)
                                                 ELSE FetchCexLosers(Ask(t).cex, answers, limit) :
           shown' = [shown EXCEPT ![t] =
             [kind |-> Ask(t).kind, cex |-> Ask(t).cex, heard |-> Range(answers), of |-> Good(answers),
              limit |-> limit, list |-> found.list, says |-> Says(task[t].cmd, found)]]
  /\ Advance(t)
  /\ UNCHANGED <<menu, configured, expired, crashed, heard, alertVars>>

\* A token of dexmeme.
AskToken(t) ==
  /\ Asking(t, "token")
  /\ \E a \in Possible(t) :
       shown' = [shown EXCEPT ![t] =
         [kind |-> "token", heard |-> {a},
          says |-> CASE searchBestDexPair[a] = "value" -> "figures"
                     [] searchBestDexPair[a] = "none" -> "no data"
                     [] searchBestDexPair[a] = "error" -> "error"]]
  /\ Advance(t)
  /\ UNCHANGED <<menu, configured, expired, crashed, heard, alertVars>>

-----------------------------------------------------------------------------
AllAsked(t) == At(t, "run") /\ task[t].at > Len(PlanOf(t).asks)

\* The answer is written from what was found.
Finish(t) ==
  /\ AllAsked(t) /\ task[t].cmd \notin Analytic
  /\ \/ Goto(t, "answer")
     \/ PlanOf(t).poor /\ Goto(t, "text")
  /\ UNCHANGED <<menu, configured, expired, crashed, heard, shown, alertVars>>

Reads(t, kind, in, label) == shown' = [shown EXCEPT ![t] = [kind |-> kind, in |-> in, label |-> label]]

ReadSentiment(t) ==
  /\ AllAsked(t) /\ task[t].cmd = "sentiment"
  /\ \E day \in Changes, week \in Changes :
       Reads(t, "mood", [day |-> day, week |-> week], Mood(day, week))
  /\ Goto(t, "answer")
  /\ UNCHANGED <<menu, configured, expired, crashed, heard, alertVars>>

\* Without a valid price there is a text.
ReadVolatility(t) ==
  /\ AllAsked(t) /\ task[t].cmd = "volatility"
  /\ \/ Goto(t, "text") /\ UNCHANGED shown
     \/ /\ \E prices \in Charts : Reads(t, "volatility", prices, Volatility(prices))
        /\ Goto(t, "answer")
  /\ UNCHANGED <<menu, configured, expired, crashed, heard, alertVars>>

ReadTrend(t) ==
  /\ AllAsked(t) /\ task[t].cmd = "trend"
  /\ \/ Goto(t, "text") /\ UNCHANGED shown
     \/ \E prices \in Charts :
          /\ Reads(t, "trend", prices, Trend(prices))
          /\ Goto(t, IF Trend(prices) = "too little" THEN "text" ELSE "answer")
  /\ UNCHANGED <<menu, configured, expired, crashed, heard, alertVars>>

\* A value that cannot be parsed is taken for 0.
ReadFearGreed(t) ==
  /\ AllAsked(t) /\ task[t].cmd = "feargreed"
  /\ \E value \in Indices \cup {0}, class \in Classifications :
       Reads(t, "index", [value |-> value, class |-> class], explainFearGreed(value, class))
  /\ Goto(t, "answer")
  /\ UNCHANGED <<menu, configured, expired, crashed, heard, alertVars>>

\* Mutant: the next task gets the context of this one.
RespondContextKept(t) ==
  /\ ~crashed /\ task[t].pc \in Results
  /\ task' = [task EXCEPT ![t] = Idle]
  /\ heard' = [heard EXCEPT ![t] = {}]
  /\ shown' = [shown EXCEPT ![t] = Nothing]
  /\ UNCHANGED <<menu, configured, expired, crashed, alertVars>>

\* SendTaskResponseToRoom, with success unless there was an error.
Respond(t) ==
  /\ ~crashed /\ task[t].pc \in Results
  /\ task' = [task EXCEPT ![t] = Idle]
  /\ expired' = expired \ {t}
  /\ heard' = [heard EXCEPT ![t] = {}]
  /\ shown' = [shown EXCEPT ![t] = Nothing]
  /\ UNCHANGED <<menu, configured, crashed, alertVars>>

\* The 30 seconds are over.
Expire(t) ==
  /\ At(t, "run") /\ t \notin expired
  /\ expired' = expired \cup {t}
  /\ UNCHANGED <<menu, configured, task, crashed, heard, shown, alertVars>>

-----------------------------------------------------------------------------
Execute(t) ==
  \/ Refuse(t) \/ MissesKey(t) \/ Begin(t) \/ Shuffle(t) \/ AlertCommand(t)
  \/ MakeRequest(t) \/ AskTopMarkets(t) \/ AskExchange(t) \/ AskToken(t)
  \/ Finish(t) \/ ReadSentiment(t) \/ ReadVolatility(t) \/ ReadTrend(t) \/ ReadFearGreed(t)
  \/ Respond(t)

Checker == ~crashed /\ Check /\ UNCHANGED appVars

Next ==
  \/ \E t \in Tasks : Receive(t) \/ Execute(t) \/ Expire(t)
  \/ Checker
  \/ ~crashed /\ UNCHANGED appVars /\ \E s \in Symbols, p \in Prices : PriceMoves(s, p)

\* A goroutine of a task runs on and its requests end: every client has a
\* timeout.  The ticker of the checker ticks; the service does not refuse the
\* price of an answering symbol for ever.
Fairness ==
  /\ \A t \in Tasks : WF_vars(Execute(t))
  /\ WF_vars(Checker)
  /\ \A a \in 1..MaxAlerts :
       /\ SF_vars(Checker /\ Resolve /\ todo[1] = a /\ Asked.sym \in Answering)
       /\ SF_vars(Checker /\ Market /\ todo[1] = a /\ Asked.sym \in Answering)

Spec == Init /\ [][Next]_vars /\ Fairness

-----------------------------------------------------------------------------
\* A reply without sections that shows figures as found rests on good answers
\* only: no failed request before it was passed over, the context's end included,
\* except where the other service stood in.  (losers shows an empty list as one
\* of no coins.)
AnswersRestOnData ==
  \A t \in Tasks : task[t].pc = "answer" /\ task[t].cmd \notin Sectioned =>
    \/ heard[t] = {"ok"}
    \/ task[t].cmd \in {"top", "digest"} /\ "ok" \in heard[t]
    \/ task[t].cmd = "losers" /\ heard[t] = {"empty"}

\* OKX and KuCoin: nobody reads the status, and an error object has no list.
StatusUnread(s) ==
  s.kind = "gainers" /\ s.cex \in {"okx", "kucoin"} /\ s.heard = {"refused"} /\ s.list = <<>>

SectionRight(s) ==
  /\ s.says = "figures" => s.heard = {"ok"} \/ (s.kind # "token" /\ s.cex = "coinbase" /\ "ok" \in s.heard)
  /\ s.says \in {"no data", "heading"} => s.heard \in {{"ok"}, {"empty"}} \/ StatusUnread(s)

\* A section of a reply has figures only if its requests were all answered well, or
\* some of those to Coinbase (the reader is not told of the others); and it says that
\* there is nothing, or has a bare heading, only if that was the answer: a failure
\* is told as one, but for the refusals of OKX and KuCoin.
SectionsRestOnData ==
  \A t \in Tasks : shown[t].kind \in {"gainers", "losers", "token"} => SectionRight(shown[t])

\* A ranking shows the extremes of what the exchange has answered, and nothing else
\* (but KuCoin's unreadable changes, as zero): as many as the limit allows, in
\* order, none left out that goes before one shown, and losers that have lost.  With
\* a fine ticker to show, an exchange is not said to have failed.
RankedRightly(r) ==
  LET better(t, u) == IF r.kind = "gainers" THEN t.change > u.change ELSE t.change < u.change
      in == Range(r.list)
      out == {t \in r.of : t.kind = "fine" /\ t \notin in /\ (r.kind = "losers" => t.change < 0)}
  IN  /\ Len(r.list) <= r.limit /\ IsInjective(r.list)
      /\ \A i \in 1..(Len(r.list) - 1) : ~better(r.list[i + 1], r.list[i])
      /\ \A t \in out, u \in in : ~better(t, u)
      /\ out # {} => Len(r.list) = r.limit
      /\ \A t \in in :
           /\ t.kind # "other" /\ (r.kind = "losers" => t.change < 0)
           /\ t \in r.of \/ (r.cex = "kucoin" /\ \E u \in r.of : u.kind = "garbled" /\ t = [u EXCEPT !.change = 0])

RankingsRight ==
  \A t \in Tasks : shown[t].kind \in {"gainers", "losers"} => RankedRightly(shown[t])

Rising(prices) == \A i, j \in 1..Len(prices) : i < j => prices[i] < prices[j]
Falling(prices) == \A i, j \in 1..Len(prices) : i < j => prices[i] > prices[j]

\* All prices are within so many per cent above p.
Within(prices, p, percent) == \A q \in Range(prices) : q * 100 <= p * (100 + percent)

\* What the analytic commands say is what a reader takes it for: prices that
\* only rise, or fall, have that trend however few there are; the mood of the
\* opposite changes is the opposite one, changes that are no worse make no
\* worse mood, and gains no bad one; prices are as volatile as they are spread
\* over the lowest one; the note on the index is that of the printed guide or
\* of the service's own classification.
IndicatorsRight ==
  \A t \in Tasks : LET s == shown[t] IN
    /\ s.kind = "trend" /\ s.label # "too little" =>
         (Rising(s.in) => s.label = "Bullish") /\ (Falling(s.in) => s.label = "Bearish")
    /\ s.kind = "mood" =>
         /\ s.label = -Mood(-s.in.day, -s.in.week)
         /\ \A day \in Changes, week \in Changes :
              day >= s.in.day /\ week >= s.in.week => Mood(day, week) >= s.label
         /\ s.in.day >= 0 /\ s.in.week >= 0 => s.label >= 0
    /\ s.kind = "volatility" => \A p \in Range(s.in) :
         p > 0 /\ (\A q \in Range(s.in) : q >= p) =>
           /\ s.label = "Low" <=> Within(s.in, p, 10)
           /\ s.label \in {"Low", "Medium"} <=> Within(s.in, p, 25)
           /\ s.label # "Extreme" <=> Within(s.in, p, 40)
    /\ s.kind = "index" => s.label \in {s.in.class, Guide(s.in.value)}

\* Every task is answered, whatever the services do, unless the program dies.
TasksEnd == \A t \in Tasks : task[t].pc # "idle" ~> task[t].pc = "idle" \/ crashed

\* An alert that stays in the list, and whose condition stays met, is triggered
\* in the end if its symbol's price is answered again and again, whatever the
\* requests for the alerts before it do.
AlertsSettle ==
  \A a \in 1..MaxAlerts :
    <>[](a \in Range(alerts) /\ a \in Alerts /\ cond[a].sym \in Answering
         /\ Meets(cond[a], price[cond[a].sym]))
    => <>(a \in triggered \/ crashed)
=============================================================================
