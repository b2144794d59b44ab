------------------------------ MODULE Commands ------------------------------
(***************************************************************************)
(* The commands of the agent (internal/commands): which requests each one  *)
(* makes, in which order, and what it makes of an answer that is not good. *)
(*                                                                         *)
(* A command may refuse its arguments, it may need a key of the            *)
(* environment, and it follows one of its plans, chosen by the arguments.  *)
(* A request that does not go well ends the command with a text, which     *)
(* counts as a success, or with an error.  Only the commands whose answer  *)
(* has a section per source go on: the section says what became of it.     *)
(***************************************************************************)
EXTENDS MarketData, Indicators

\* What becomes of a request, for every answer of the service.
Request(on) == [kind |-> "request", on |-> on]

\* A client's function, whose failures become f and whose "none" becomes n.
Client(function, n, f) ==
  Request([a \in Answers |-> CASE function[a] = "value" -> "next"
                               [] function[a] = "none" -> n
                               [] function[a] = "error" -> f])

\* A request of the command's own, with the outcomes of what is not good.
Own(empty, garbled, refused, down) ==
  Request([ok |-> "next", empty |-> empty, garbled |-> garbled, refused |-> refused, down |-> down])

TopMarkets == [kind |-> "top"]
Token == [kind |-> "token"]
Exchanges(kind) ==
  [i \in 1..Len(SupportedCexList) |-> [kind |-> kind, cex |-> SupportedCexList[i]]]

\* A plan; poor: what was found may not be enough, or not usable, and a text
\* says so.  A command's key is what comes of it when the key it needs is not
\* configured, or "none" if it needs none.
Plan(asks, poor) == [asks |-> asks, poor |-> poor]
Command(refuses, key, plans) == [refuses |-> refuses, key |-> key, plans |-> plans]

-----------------------------------------------------------------------------
resolve == Client([a \in Answers |-> ResolveCoinID(a)], "text", "text")
market == Client([a \in Answers |-> FetchCoinMarket(a)], "text", "text")

CmdPrice == Command(TRUE, "none", <<Plan(<<resolve, market>>, FALSE)>>)

CmdCompare == Command(TRUE, "none", <<Plan(<<resolve, resolve, market, market>>, FALSE)>>)

\* The commands resolve and price by functions of their own for conversions.
resolveCoinID == Client([a \in Answers |-> ValueOrError(a)], "text", "text")
fetchSimplePrice == Client([a \in Answers |-> ValueOrError(a)], "text", "text")

\* Between coins, from a coin to a currency, from a currency to a coin; between
\* currencies it refuses.
CmdConvert ==
  Command(TRUE, "none",
    <<Plan(<<resolveCoinID, resolveCoinID, fetchSimplePrice, fetchSimplePrice>>, TRUE),
      Plan(<<resolveCoinID, fetchSimplePrice>>, FALSE),
      Plan(<<resolveCoinID, fetchSimplePrice>>, TRUE)>>)

CmdDigest == Command(FALSE, "none", <<Plan(<<TopMarkets>>, FALSE)>>)
CmdTop == Command(FALSE, "none", <<Plan(<<TopMarkets>>, FALSE)>>)

CmdGainers == Command(FALSE, "none", <<Plan(<<Own("text", "error", "error", "error")>>, FALSE)>>)

\* An empty list is ranked and shown like any other.
CmdLosers == Command(FALSE, "none", <<Plan(<<Own("next", "error", "error", "error")>>, FALSE)>>)

CmdGainersCEX == Command(FALSE, "none", <<Plan(Exchanges("gainers"), FALSE)>>)
CmdLosersCEX == Command(FALSE, "none", <<Plan(Exchanges("losers"), FALSE)>>)

\* Any two of them; two pairs stand for all.
CmdGainersCompare ==
  LET of == Exchanges("gainers")
  IN  Command(TRUE, "none", <<Plan(<<of[2], of[3]>>, FALSE), Plan(<<of[1], of[6]>>, FALSE)>>)

CmdGas == Command(TRUE, "error", <<Plan(<<Own("text", "text", "text", "text")>>, FALSE)>>)

\* A nil pair when there is none on the chain asked for.
searchBestDexPair == [a \in Answers |-> EmptyIsNone(a)]

CmdDexPrice == Command(TRUE, "none", <<Plan(<<Client(searchBestDexPair, "text", "text")>>, FALSE)>>)

\* Five tokens of the chain's pool; every pool is larger.
CmdDexMeme == Command(TRUE, "none", <<Plan([i \in 1..5 |-> Token], FALSE)>>)

\* An answer may also be without an asset of any value.
CmdPortfolio == Command(TRUE, "error", <<Plan(<<Own("text", "error", "text", "error")>>, TRUE)>>)

protocol == Client([a \in Answers |-> FetchProtocolTVL(a)], "text", "text")
CmdTVL == Command(TRUE, "none", <<Plan(<<protocol>>, FALSE)>>)
CmdTVLProtocols == Command(TRUE, "none", <<Plan(<<Own("text", "error", "error", "error")>>, FALSE)>>)
CmdTVLChain == Command(TRUE, "none", <<Plan(<<Own("text", "error", "error", "error")>>, FALSE)>>)

CmdFearGreed == Command(FALSE, "none", <<Plan(<<Own("text", "error", "error", "error")>>, FALSE)>>)
CmdSentiment == Command(TRUE, "none", <<Plan(<<resolve, market>>, FALSE)>>)

\* No price point of the chart may be valid.
CmdVolatility ==
  Command(TRUE, "none", <<Plan(<<resolve, market, Own("text", "error", "error", "error")>>, TRUE)>>)
CmdTrend ==
  Command(TRUE, "none", <<Plan(<<resolve, market, Own("text", "error", "error", "error")>>, TRUE)>>)

CmdNews == Command(FALSE, "text", <<Plan(<<Own("text", "text", "text", "text")>>, FALSE)>>)

-----------------------------------------------------------------------------
\* Router.Handle; help also stands for an empty task and an unknown command.
Handle ==
  [price |-> CmdPrice, compare |-> CmdCompare, digest |-> CmdDigest,
   tvl |-> CmdTVL, tvlchain |-> CmdTVLChain, tvlprotocols |-> CmdTVLProtocols,
   top |-> CmdTop, gainers |-> CmdGainers, losers |-> CmdLosers,
   feargreed |-> CmdFearGreed, convert |-> CmdConvert,
   gainers_cex |-> CmdGainersCEX, losers_cex |-> CmdLosersCEX,
   gainers_compare |-> CmdGainersCompare, gas |-> CmdGas,
   dexprice |-> CmdDexPrice, dexmeme |-> CmdDexMeme, portfolio |-> CmdPortfolio,
   alert |-> Command(TRUE, "none", <<>>), alert_list |-> Command(FALSE, "none", <<>>),
   alert_remove |-> Command(TRUE, "none", <<>>), alert_clear |-> Command(FALSE, "none", <<>>),
   news |-> CmdNews, sentiment |-> CmdSentiment,
   volatility |-> CmdVolatility, trend |-> CmdTrend, help |-> Command(TRUE, "none", <<>>)]

CommandNames == DOMAIN Handle

\* Their answer has a section per source.
Sectioned == {"gainers_cex", "losers_cex", "gainers_compare", "dexmeme"}
Analytic == {"sentiment", "trend", "volatility", "feargreed"}
=============================================================================
