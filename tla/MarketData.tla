----------------------------- MODULE MarketData -----------------------------
(***************************************************************************)
(* The clients of the market data services (internal/clients): what each   *)
(* function returns for what the service answers.                          *)
(*                                                                         *)
(* An answer stands for one HTTP exchange.  A client returns a value, an   *)
(* error, or neither ("none": a nil error and nothing found).              *)
(***************************************************************************)
EXTENDS Integers, FiniteSets, Sequences, SequencesExt

\* "down": no answer, or the caller's context has ended.  "refused": a status
\* other than 200, with an error object as body.  "garbled": a body that cannot
\* be decoded.  "empty": decoded, but without what was asked for.
Answers == {"ok", "empty", "garbled", "refused", "down"}
Returned == {"value", "none", "error"}

ValueOrError(a) == IF a = "ok" THEN "value" ELSE "error"
EmptyIsNone(a) == IF a = "empty" THEN "none" ELSE ValueOrError(a)

-----------------------------------------------------------------------------
(* coingecko.go, defillama.go *)
ResolveCoinID(a) == ValueOrError(a)
FetchCoinMarket(a) == ValueOrError(a)
FetchProtocolTVL(a) == ValueOrError(a)

\* An empty array is no error.
fetchTopMarketsCoinGecko(a) == EmptyIsNone(a)

fetchTopMarketsCoinMarketCap(a, key) == IF key THEN ValueOrError(a) ELSE "error"

\* CoinMarketCap is asked only after an error of CoinGecko.
FetchTopMarkets(a, b, key) ==
  LET first == fetchTopMarketsCoinGecko(a)
  IN  IF first = "error" THEN fetchTopMarketsCoinMarketCap(b, key) ELSE first

-----------------------------------------------------------------------------
(* cex.go: the day's gainers and losers of an exchange.  A listing is the  *)
(* set of tickers an exchange has.  kind: "fine"; "other", not a pair in   *)
(* US dollars; "garbled", its change, or a price the change is computed    *)
(* from, cannot be parsed; "priceless", its last price cannot;             *)
(* "unopened", an opening price that is not positive.                      *)

SupportedCexList == <<"coinbase", "binance", "okx", "bybit", "mexc", "kucoin", "bitget">>
IsSupportedCex(cex) == cex \in Range(SupportedCexList)

Tickers ==
  [id : Nat, kind : {"fine", "other", "garbled", "priceless", "unopened"}, change : Int]

\* What the requests to an exchange ask for: Coinbase is asked for one pair after
\* another, every other exchange once for all.  answers has one for each request.
Parts(cex, listing) == IF cex = "coinbase" THEN {{t} : t \in listing} ELSE {listing}

\* The tickers in good answers.
Good(answers) == UNION {part \in DOMAIN answers : answers[part] = "ok"}

Fine(listing) == {t \in listing : t.kind = "fine"}
Unusable == [error |-> TRUE, tickers |-> {}]
Usable(tickers) == [error |-> FALSE, tickers |-> tickers]

\* A pair whose request fails is left out, and the exchange itself never fails.
Coinbase(answers) == Usable(Fine(Good(answers)))

\* The change is the exchange's own, an opening price is not looked at.
Changed(listing) == {t \in listing : t.kind \in {"fine", "unopened"}}

Binance(answers) ==
  IF Range(answers) \subseteq {"ok", "empty"} THEN Usable(Changed(Good(answers))) ELSE Unusable

Bybit(answers) ==
  IF Range(answers) \subseteq {"ok", "empty"} THEN Usable(Changed(Good(answers))) ELSE Unusable

\* The status is not looked at, but an error object is no array.
Mexc(answers) ==
  IF Range(answers) \subseteq {"ok", "empty"} THEN Usable(Changed(Good(answers))) ELSE Unusable

\* The status is not looked at, and an error object has no data.
Okx(answers) ==
  IF Range(answers) \subseteq {"ok", "empty", "refused"} THEN Usable(Fine(Good(answers))) ELSE Unusable

\* Likewise.  The gainers take what cannot be parsed for zero.
Zeroed(listing) ==
  {t \in listing : t.kind = "priceless"}
  \cup {[t EXCEPT !.change = 0] : t \in {u \in listing : u.kind = "garbled"}}

Kucoin(answers, losers) ==
  LET listing == Good(answers)
  IN  IF Range(answers) \subseteq {"ok", "empty", "refused"}
      THEN Usable(Changed(listing) \cup (IF losers THEN {} ELSE Zeroed(listing)))
      ELSE Unusable

\* Mutant: nor is the code in the answer.
BitgetCodeUnread(answers) ==
  IF Range(answers) \subseteq {"ok", "empty", "refused"} THEN Usable(Fine(Good(answers))) ELSE Unusable

\* Neither the status is, but the code in the answer.
Bitget(answers) ==
  IF Range(answers) \subseteq {"ok", "empty"} THEN Usable(Fine(Good(answers))) ELSE Unusable

Fetched(cex, answers, losers) ==
  CASE cex = "coinbase" -> Coinbase(answers)
    [] cex = "binance" -> Binance(answers)
    [] cex = "okx" -> Okx(answers)
    [] cex = "bybit" -> Bybit(answers)
    [] cex = "mexc" -> Mexc(answers)
    [] cex = "kucoin" -> Kucoin(answers, losers)
    [] cex = "bitget" -> Bitget(answers)

\* sort.Slice, in no certain order among equals, and the cut to the limit; direction is
\* 1 for the highest changes first, -1 for the lowest.
Ranked(tickers, direction, limit) ==
  {SubSeq(s, 1, IF Len(s) > limit THEN limit ELSE Len(s)) :
     s \in {r \in SetToSeqs(tickers) :
              \A i, j \in 1..Len(r) : i < j => direction * r[i].change >= direction * r[j].change}}

Failure == [error |-> TRUE, list |-> <<>>]
Success(lists) == {[error |-> FALSE, list |-> l] : l \in lists}

\* Three exchanges return an empty list without an error.
FetchCexGainers(cex, answers, limit) ==
  LET f == Fetched(cex, answers, FALSE)
  IN  IF f.error \/ (f.tickers = {} /\ cex \notin {"okx", "kucoin", "bitget"})
      THEN {Failure}
      ELSE Success(Ranked(f.tickers, 1, limit))

\* Mutant: a list is cut before it is sorted.
FetchCexLosersCutFirst(cex, answers, limit) ==
  LET falling == {t \in Fetched(cex, answers, TRUE).tickers : t.change < 0}
      kept == {s \in SUBSET falling : Cardinality(s) <= limit /\ (s # falling => Cardinality(s) = limit)}
  IN  IF falling = {} THEN {Failure}
      ELSE Success(UNION {Ranked(s, -1, limit) : s \in kept})

FetchCexLosers(cex, answers, limit) ==
  LET falling == {t \in Fetched(cex, answers, TRUE).tickers : t.change < 0}
  IN  IF falling = {} THEN {Failure}
      ELSE Success(Ranked(falling, -1, limit))
=============================================================================
