----------------------------- MODULE Indicators -----------------------------
(***************************************************************************)
(* What the analytic commands read out of the figures they are given       *)
(* (internal/commands): the mood of sentiment, the trend of trend, the     *)
(* class of volatility and the note of feargreed.  Percentages are in      *)
(* tenths; a price is a natural number.                                    *)
(***************************************************************************)
EXTENDS Integers, Sequences, FiniteSets, SequencesExt

\* The points of a change: of three bounds, in the order in which the switch
\* tries them, the first one exceeded, or undercut, counts.
Above3(change, high, mid, low) ==
  IF change > high THEN 3 ELSE IF change > mid THEN 2 ELSE IF change > low THEN 1 ELSE 0
Below3(change, high, mid, low) ==
  IF change < high THEN 3 ELSE IF change < mid THEN 2 ELSE IF change < low THEN 1 ELSE 0

BullScore(day, week) == Above3(day, 50, 20, 5) + Above3(week, 150, 80, 30)
BearScore(day, week) == Below3(day, -50, -20, -5) + Below3(week, -150, -80, -30)

\* 2 is Bullish, 1 Slightly Bullish, 0 Neutral, and so on.
Mood(day, week) ==
  LET bull == BullScore(day, week)  bear == BearScore(day, week)
  IN  IF bull >= bear + 2 THEN 2 ELSE IF bear >= bull + 2 THEN -2
      ELSE IF bull > bear THEN 1 ELSE IF bear > bull THEN -1 ELSE 0

-----------------------------------------------------------------------------
\* The average of the last k prices times k; k is clamped to 1..Len(prices).
Clamped(k, n) == IF k <= 0 THEN 1 ELSE IF k > n THEN n ELSE k
TrailingSum(prices, k) == FoldSeq(+, 0, SubSeq(prices, Len(prices) - k + 1, Len(prices)))

\* Is the average of the last j prices above that of the last k?
Above(prices, j, k) == TrailingSum(prices, j) * k > TrailingSum(prices, k) * j

\* Mutant: the windows are not clamped, so that the first one may be empty (and
\* its average no number, which is above nothing).
TrendUnclamped(prices) ==
  LET n == Len(prices)
      week == (n * 7) \div 90   month == (n * 30) \div 90
  IN  IF n < 10 THEN "too little"
      ELSE IF week > 0 /\ Above(prices, week, month) /\ Above(prices, month, n) THEN "Bullish"
      ELSE IF week > 0 /\ Above(prices, month, week) /\ Above(prices, n, month) THEN "Bearish"
      ELSE "Sideways"

\* The windows are the given parts of 90 days, in prices.
Trend(prices) ==
  LET n == Len(prices)
      week == Clamped((n * 7) \div 90, n)   month == Clamped((n * 30) \div 90, n)
  IN  IF n < 10 THEN "too little"
      ELSE IF Above(prices, week, month) /\ Above(prices, month, n) THEN "Bullish"
      ELSE IF Above(prices, month, week) /\ Above(prices, n, month) THEN "Bearish"
      ELSE "Sideways"

-----------------------------------------------------------------------------
Lowest(prices) == CHOOSE p \in Range(prices) : \A q \in Range(prices) : p <= q
Highest(prices) == CHOOSE p \in Range(prices) : \A q \in Range(prices) : p >= q

\* The range in per cent of the lowest price exceeds bound; it is 0 when that
\* price is.
RangeExceeds(prices, bound) ==
  Lowest(prices) > 0 /\ (Highest(prices) - Lowest(prices)) * 100 > bound * Lowest(prices)

Volatility(prices) ==
  IF RangeExceeds(prices, 40) THEN "Extreme"
  ELSE IF RangeExceeds(prices, 25) THEN "High"
  ELSE IF RangeExceeds(prices, 10) THEN "Medium" ELSE "Low"

-----------------------------------------------------------------------------
Classifications == {"Extreme Fear", "Fear", "Neutral", "Greed", "Extreme Greed"}

\* The guide printed below every index.
Guide(value) ==
  CASE value <= 24 -> "Extreme Fear" [] value \in 25..49 -> "Fear"
    [] value \in 50..54 -> "Neutral" [] value \in 55..74 -> "Greed"
    [] value >= 75 -> "Extreme Greed"

\* The first case that the service's classification, or the value, meets; a
\* classification contains the shorter one it ends with.
explainFearGreed(value, class) ==
  IF class = "Extreme Fear" \/ value <= 24 THEN "Extreme Fear"
  ELSE IF class = "Fear" \/ value \in 25..49 THEN "Fear"
  ELSE IF class = "Neutral" \/ value \in 50..54 THEN "Neutral"
  ELSE IF class \in {"Greed", "Extreme Greed"} /\ value < 75 THEN "Greed"
  ELSE IF class = "Extreme Greed" \/ value >= 75 THEN "Extreme Greed" ELSE ""
=============================================================================
