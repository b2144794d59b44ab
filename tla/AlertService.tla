---------------------------- MODULE AlertService ----------------------------
(***************************************************************************)
(* Price alerts (internal/services/alert_service.go): the list that the    *)
(* alert commands change, each under the mutex, and the checker that       *)
(* copies the list every 30 seconds, asks for prices without the mutex,    *)
(* and marks through the pointers it has copied.                           *)
(*                                                                         *)
(* An alert is the number of its Add, so that alert a was asked for with   *)
(* cond[a] and keeps its identity when its index changes.                  *)
(***************************************************************************)
EXTENDS Integers, Sequences, SequencesExt

CONSTANTS
  Symbols,
  Conditions,  \* what alerts are asked for
  MaxPrice,    \* bound on the prices
  MaxAlerts    \* bound on the alerts ever added

Prices == 1..MaxPrice
Ops == {">", "<", ">=", "<="}
Condition == [sym : Symbols, op : Ops, value : Prices]

ASSUME AlertAssumption ==
  /\ MaxPrice \in Nat \ {0} /\ MaxAlerts \in Nat
  /\ Conditions \subseteq Condition

VARIABLES
  price,      \* what the market data service would answer for a symbol
  cond,       \* the alerts ever added
  alerts,     \* s.alerts
  triggered,  \* the alerts marked as triggered
  todo,       \* what checkAlerts has left of its copy
  checker,    \* what it does for the first of these
  reached     \* history: the alerts whose condition was met since they were added

alertVars == <<price, cond, alerts, triggered, todo, checker, reached>>
checking == <<todo, checker>>

Alerts == 1..Len(cond)

AlertsTypeOK ==
  /\ price \in [Symbols -> Prices]
  /\ cond \in Seq(Conditions) /\ Len(cond) <= MaxAlerts
  /\ alerts \in Seq(Alerts) /\ todo \in Seq(Alerts)
  /\ triggered \subseteq Alerts /\ reached \subseteq Alerts
  /\ checker \in {"idle", "resolve", "market", "mark"}
  /\ checker = "idle" <=> todo = <<>>

\* NewAlertService, and StartChecker.
AlertsInit ==
  /\ price = [s \in Symbols |-> 1]
  /\ cond = <<>> /\ alerts = <<>>
  /\ triggered = {} /\ reached = {}
  /\ todo = <<>> /\ checker = "idle"

\* Does a price meet a condition?
Meets(c, p) ==
  \/ p > c.value /\ c.op \in {">", ">="}
  \/ p < c.value /\ c.op \in {"<", "<="}
  \/ p = c.value /\ c.op \in {">=", "<="}

-----------------------------------------------------------------------------
(* The commands.  What they refuse changes nothing and is left out here.   *)
AddAlert(c) ==
  /\ Len(cond) < MaxAlerts
  /\ cond' = Append(cond, c)
  /\ alerts' = Append(alerts, Len(cond) + 1)
  /\ reached' = IF Meets(c, price[c.sym]) THEN reached \cup {Len(cond) + 1} ELSE reached
  /\ UNCHANGED <<price, triggered, checking>>

\* Indices count from 0.
RemoveAlert(index) ==
  /\ index \in 0..(Len(alerts) - 1)
  /\ alerts' = RemoveAt(alerts, index + 1)
  /\ UNCHANGED <<price, cond, triggered, checking, reached>>

ClearAlerts ==
  /\ alerts' = <<>>
  /\ UNCHANGED <<price, cond, triggered, checking, reached>>

-----------------------------------------------------------------------------
(* The checker. *)

\* A copy of an empty list has nothing to check.
Tick ==
  /\ checker = "idle" /\ alerts # <<>>
  /\ todo' = alerts /\ checker' = "resolve"
  /\ UNCHANGED <<price, cond, alerts, triggered, reached>>

\* On to the next alert of the copy, if there is one.
Continue ==
  /\ todo' = Tail(todo)
  /\ checker' = IF Len(todo) = 1 THEN "idle" ELSE "resolve"

\* Mutant: an error ends the check instead of the iteration.
GiveUpAfterError ==
  /\ todo' = <<>> /\ checker' = "idle"
  /\ UNCHANGED <<price, cond, alerts, triggered, reached>>

\* The error of a request is logged.
ContinueAfterError ==
  /\ Continue
  /\ UNCHANGED <<price, cond, alerts, triggered, reached>>

Open == todo # <<>> /\ todo[1] \notin triggered
Asked == cond[todo[1]]

Skip ==
  /\ checker = "resolve" /\ ~Open
  /\ Continue
  /\ UNCHANGED <<price, cond, alerts, triggered, reached>>

ResolveFails == checker = "resolve" /\ Open /\ ContinueAfterError

Resolve ==
  /\ checker = "resolve" /\ Open
  /\ checker' = "market"
  /\ UNCHANGED <<price, cond, alerts, triggered, todo, reached>>

MarketFails == checker = "market" /\ ContinueAfterError

\* The comparison of the switch.
Triggers(op, p, value) ==
  CASE op = ">" -> p > value [] op = "<" -> p < value
    [] op = ">=" -> p >= value [] op = "<=" -> p <= value

Market ==
  /\ checker = "market"
  /\ IF Triggers(Asked.op, price[Asked.sym], Asked.value)
     THEN checker' = "mark" /\ UNCHANGED todo
     ELSE Continue
  /\ UNCHANGED <<price, cond, alerts, triggered, reached>>

\* Mutant: the alert is looked up in the list again, as far from its end as it
\* is in the copy.
MarkInList ==
  /\ checker = "mark"
  /\ LET i == Len(alerts) - Len(todo) + 1
     IN  triggered' = IF i \in 1..Len(alerts) THEN triggered \cup {alerts[i]} ELSE triggered
  /\ Continue
  /\ UNCHANGED <<price, cond, alerts, reached>>

\* Whether the alert is still in the list or not.
Mark ==
  /\ checker = "mark"
  /\ triggered' = triggered \cup {todo[1]}
  /\ Continue
  /\ UNCHANGED <<price, cond, alerts, reached>>

Check == Tick \/ Skip \/ Resolve \/ ResolveFails \/ Market \/ MarketFails \/ Mark

\* The price of a symbol somebody has asked for changes.
PriceMoves(s, p) ==
  /\ \E a \in Alerts : cond[a].sym = s
  /\ price' = [price EXCEPT ![s] = p]
  /\ reached' = reached \cup {a \in Alerts : cond[a].sym = s /\ Meets(cond[a], p)}
  /\ UNCHANGED <<cond, alerts, triggered, checking>>

AlertsNext ==
  \/ \E c \in Conditions : AddAlert(c)
  \/ \E index \in 0..(MaxAlerts - 1) : RemoveAlert(index)
  \/ ClearAlerts
  \/ Check
  \/ \E s \in Symbols, p \in Prices : PriceMoves(s, p)

AlertsSpec == AlertsInit /\ [][AlertsNext]_alertVars

-----------------------------------------------------------------------------
\* An alert is marked only if its own condition was met since it was added,
\* whatever was added, removed or cleared while the checker was waiting for the
\* price.
TriggeredWasReached == triggered \subseteq reached
=============================================================================
