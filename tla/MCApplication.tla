---------------------------- MODULE MCApplication ----------------------------
(***************************************************************************)
(* The instance of Application that TLC checks.                            *)
(***************************************************************************)
EXTENDS Application

CONSTANTS t1, t2, btc, doge

AlertCommands == {"alert", "alert_list", "alert_remove", "alert_clear"}
Readings == Analytic \cup Sectioned

\* Two tasks beside each other for what has an effect on the other one and for
\* a command of each kind; one task for all the others, one for those that read
\* figures, and one for the alerts, beside the checker.  The last two need no key.
Menu(first, second, keys) == [of |-> t1 :> first @@ t2 :> second, keys |-> keys]
MCMenus ==
  {Menu({"dexmeme", "compare", "help"}, {"dexmeme", "digest", "portfolio"}, BOOLEAN),
   Menu(CommandNames \ (Readings \cup AlertCommands), {}, BOOLEAN),
   Menu(Readings, {}, {TRUE}),
   Menu(AlertCommands, {}, {TRUE})}

MCConditions ==
  {[sym |-> btc, op |-> ">", value |-> 2], [sym |-> btc, op |-> "<=", value |-> 2],
   [sym |-> doge, op |-> ">=", value |-> 2]}

Ticker(id, kind, change) == [id |-> id, kind |-> kind, change |-> change]
MCListings ==
  {{}, {Ticker(1, "fine", 0)}, {Ticker(1, "other", 9), Ticker(2, "garbled", 9)},
   {Ticker(1, "fine", 5), Ticker(2, "fine", 5), Ticker(3, "fine", -3)},
   {Ticker(1, "fine", -5), Ticker(2, "fine", -5), Ticker(3, "fine", -3)},
   {Ticker(1, "fine", -2), Ticker(2, "unopened", 4), Ticker(3, "garbled", 7), Ticker(4, "priceless", 8)}}

\* Both sides of the bounds.
MCChanges == {-151, -51, -20, -6, 0, 6, 21, 50, 81}

\* Lengths at which the windows are of the smallest sizes, and one of a day's
\* steps for a week.
Line(n, from, step) == [i \in 1..n |-> from + step * i]
MCCharts ==
  {Line(n, 40, step) : n \in {9, 10, 12, 13, 26}, step \in {-1, 0, 1}}
  \cup {[Line(12, 100, 0) EXCEPT ![5] = p] : p \in {110, 111, 125, 126, 140, 141}}
=============================================================================
