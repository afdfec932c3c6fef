---------------------------- MODULE EventNormalizer ----------------------------
(***************************************************************************)
(* normalizeCryptoAttackEvent() (apps/server/src/events/normalizer.ts):    *)
(* from a message to the event of a feed.  Around it the provider, which   *)
(* is external, writes a message row by row in the forms the tests of the  *)
(* parsers quote; titles are left out, they are wording.                   *)
(***************************************************************************)
EXTENDS EventParsing, TLC

CONSTANTS
  Templates,      \* messages to be written, without their rows
  RowValues,      \* what a row may say
  MaxRows,        \* bound of the model
  WrittenAt, ReceivedAt,    \* times, in ms
  Second,         \* 1000
  EpochLimit      \* times below are in seconds: 10 000 000 000

-----------------------------------------------------------------------------
(* Feeds *)

TopListFeedKeys ==
  [all_spot_top |-> [buy |-> "all_spot_top_buy_5m", sell |-> "all_spot_top_sell_5m"],
   all_derivatives_top |-> [buy |-> "all_derivatives_top_buy_5m",
                            sell |-> "all_derivatives_top_sell_5m"]]
AmountFeedKeys == {"all_spot_per", "all_derivatives_per"}
DirectFeeds ==
  {<<"signals", "pricealerts", "pricealerts">>, <<"signals", "volalerts", "volalerts">>,
   <<"cex_alerts", "flows_alert", "flows_alert">>, <<"cex_alerts", "cex_track", "cex_track">>,
   <<"market_data", "top_funding", "top_funding">>, <<"market_data", "etf_crypto", "etf_crypto">>,
   <<"onchain", "24_all_flows", "onchain_24_all_flows">>,
   <<"onchain", "1_all_flows", "onchain_1_all_flows">>}

SeverityForFeed(feedKey) ==
  CASE feedKey \in {"listings", "delistings", "pricealerts", "volalerts", "flows_alert"} ->
         "critical"
    [] feedKey \in {"cex_track", "etf_crypto", "raw_unclassified", "oi_alerts"} -> "warning"
    [] OTHER -> "info"

HasAnyFilter(filters, allowed) == ToSet(filters) \cap allowed # {}
AllowedExchanges == {"binance", "binance_fut", "bybit", "bybit_fut"}
IsAllowedPriceAlert(filters) ==
  /\ HasAnyFilter(filters, AllowedExchanges)
  /\ HasAnyFilter(filters, {"1_min", "5_min"})
  /\ HasAnyFilter(filters, {"change2", "change5", "change10"})

ParseDirectFeedEntries(feedKey, m) ==
  CASE feedKey \in {"pricealerts", "volalerts"} ->
         ParseSignalAlertEntries(m.lines, m.filters, feedKey)
    [] feedKey = "flows_alert" -> ParseFlowAlertEntries(m.lines)
    [] feedKey = "cex_track" -> ParseCexTrackEntries(m.lines)
    [] feedKey = "top_funding" -> ParseFundingEntries(m.lines, m.filters)
    [] feedKey = "onchain_24_all_flows" -> ParseOnchainFlowEntries(m.lines, m.filters, "24h")
    [] feedKey = "onchain_1_all_flows" -> ParseOnchainFlowEntries(m.lines, m.filters, "1h")
    [] OTHER -> ParseTopEntries(m.lines, "unknown")

-----------------------------------------------------------------------------
(* Times and identity *)

NormalizeEpochMs(t) == IF t < EpochLimit THEN t * Second ELSE t
ParseSourceTime(m) ==
  LET numbers == SelectSeq(<<m.time, m.timesend1>>,
                           LAMBDA t : IF t = Null THEN FALSE ELSE t > 0)
  IN IF numbers = <<>> THEN m.timestamp ELSE NormalizeEpochMs(numbers[1])
NormalizeTimestamp(m, sourceTime) ==
  IF m.timestamp # Null THEN m.timestamp ELSE IF sourceTime # Null THEN sourceTime ELSE ReceivedAt
LatencyMs(sourceTime) ==
  CASE sourceTime = Null -> Null
    [] OTHER -> IF ReceivedAt < sourceTime THEN 0 ELSE ReceivedAt - sourceTime

(* stableEventId(): of what the message says, or of when it was malformed. *)
BaseId(m) ==
  IF m.id # Null THEN <<m.id>>
  ELSE <<m.chapter, m.category, m.lines, m.timestamp, m.time, m.timesend1>>

NoMetric == [totalUsd |-> Null, entryCount |-> 0]
AmountMetric(m, entries) ==
  LET total == ParseTotalUsdAmount(m.lines, entries)
  IN IF total = Null THEN NoMetric
     ELSE [totalUsd |-> total, entryCount |-> Len(PositiveAmounts(entries))]

(* createEvent(): what all events of a message share, and the overrides of *)
(* its feed: entries, metric, status and severity.                         *)
CreateEvent(m, sourceTime, overrides) ==
  [id |-> <<BaseId(m), overrides.feedKey>>, coins |-> NormalizeCoins(m.coins, m.lines),
   timestamp |-> NormalizeTimestamp(m, sourceTime), sourceTime |-> sourceTime,
   latencyMs |-> LatencyMs(sourceTime)] @@ overrides
Overrides(feedKey, entries, metric, parserStatus) ==
  [feedKey |-> feedKey, entries |-> entries, amountMetric |-> metric,
   parserStatus |-> parserStatus, severity |-> SeverityForFeed(feedKey)]
PlainEvent(feedKey) == Overrides(feedKey, <<>>, NoMetric, "not_applicable")
ListEvent(feedKey, entries) ==
  Overrides(feedKey, entries, NoMetric,
            IF entries = <<>> THEN "parser_needs_sample" ELSE "parsed")
CreateMalformedEvent(m) ==
  [id |-> <<<<"malformed", m.lines, ReceivedAt>>, "raw_unclassified">>, coins |-> <<>>,
   timestamp |-> ReceivedAt, sourceTime |-> Null, latencyMs |-> Null]
  @@ PlainEvent("raw_unclassified")

-----------------------------------------------------------------------------
(* The feed of a message, and what it tells there *)

DelistingEvent(options) ==
  PlainEvent(IF options.enableDelistings THEN "delistings" ELSE "raw_unclassified")

(* Parsed, when there is a total or at least an entry.                     *)
Amounts(feedKey, entries, metric) ==
  Overrides(feedKey, entries, metric,
            IF metric = NoMetric /\ entries = <<>> THEN "parser_needs_sample" ELSE "parsed")
AmountEvent(m) ==
  LET signal == ParseTopListSignal(m.filters, m.lines)
      entries == ParseTopEntries(m.lines, IF signal = Null THEN "unknown" ELSE signal)
  IN Amounts(m.category, entries, AmountMetric(m, entries))

TopListEvent(m) ==
  LET signal == ParseTopListSignal(m.filters, m.lines)
  IN IF signal = Null THEN PlainEvent("raw_unclassified")
     ELSE ListEvent(TopListFeedKeys[m.category][signal], ParseTopEntries(m.lines, signal))

TopOiEvent(m) ==
  LET signal == ParseOiTopSignal(m.filters, m.lines)
  IN IF signal = Null THEN PlainEvent("raw_unclassified")
     ELSE ListEvent(IF signal = "gainer" THEN "top_oi_gainers_60m" ELSE "top_oi_losers_60m",
                    ParseTopEntries(m.lines, signal))

Of(m, chapter, category) == m.chapter = chapter /\ m.category = category
DirectFeedKeys(m) == {d[3] : d \in {x \in DirectFeeds : Of(m, x[1], x[2])}}
DirectEvent(m) ==
  LET feedKey == CHOOSE key \in DirectFeedKeys(m) : TRUE
  IN ListEvent(feedKey, ParseDirectFeedEntries(feedKey, m))

(* Price and volume alerts of other exchanges, intervals or sizes.         *)
IsIgnored(m) ==
  \/ Of(m, "signals", "pricealerts") /\ ~IsAllowedPriceAlert(m.filters)
  \/ Of(m, "signals", "volalerts") /\ ~HasAnyFilter(m.filters, AllowedExchanges)

FeedEvent(m, options) ==
  CASE Of(m, "cex_alerts", "listings") -> PlainEvent("listings")
    [] Of(m, "cex_alerts", "delistings") -> DelistingEvent(options)
    [] m.chapter = "cex_alerts" /\ m.category \in AmountFeedKeys -> AmountEvent(m)
    [] /\ Of(m, "cex_alerts", "announcement")
       /\ options.announcementFallback
       /\ "delisting" \in Meanings(FlattenSeq(m.lines)) ->
         [PlainEvent("delistings") EXCEPT !.severity = "warning"]
    [] m.chapter = "cex_alerts" /\ m.category \in DOMAIN TopListFeedKeys -> TopListEvent(m)
    [] Of(m, "market_data", "top_oi") -> TopOiEvent(m)
    [] Of(m, "signals", "oi_alerts") -> ListEvent("oi_alerts", ParseOiAlertEntries(m.lines))
    [] DirectFeedKeys(m) # {} -> DirectEvent(m)
    [] OTHER -> PlainEvent("raw_unclassified")

(* One event or none.                                                      *)
NormalizeEvent(m, options) ==
  CASE ~m.plainObject -> <<CreateMalformedEvent(m)>>
    [] m.plainObject /\ IsIgnored(m) -> <<>>
    [] OTHER -> <<CreateEvent(m, ParseSourceTime(m), FeedEvent(m, options))>>

-----------------------------------------------------------------------------
(* The provider.  r.buy also stands for the one amount of a row, r.sell    *)
(* for the other one of an alert.                                          *)

Dollars(kind, value) == Token(kind, value, "$")
Plain(kind, value) == Token(kind, value, "")
Tag(r) == Plain("tag", r.coin)

(* The lines of the nth row.                                               *)
RowLines(style, r, n) ==
  CASE style = "two lines" -> <<<<Tag(r), Dollars("buy", r.buy), Dollars("sell", r.sell)>>,
                                <<Dollars("delta", r.buy + 1), Plain("pct", r.pct),
                                  Token("vol", r.vol, "K")>>>>
    [] style = "one line" -> <<<<Tag(r), Dollars("buy", r.buy), Dollars("sell", r.sell)>>>>
    [] style = "ranked" -> <<<<Plain("rank", n), Plain("word", r.coin), Token("usd", r.buy, "K"),
                               Plain("pct", r.pct)>>>>
    [] style = "oi" -> <<<<Tag(r), Plain("venue", "BYBIT"), Plain("pct", r.pct),
                           Plain("price", r.buy), Plain("pct", r.sell)>>>>
    [] style = "funding" -> <<<<Tag(r), Plain("venue", "OKX"), Plain("pct", r.pct)>>>>
    [] style = "onchain" -> <<<<Tag(r), Dollars("usd", r.buy)>>>>
    [] style = "flow" -> <<<<Tag(r), Plain("venue", "OKX"), Dollars("usd", r.buy),
                             Plain("flow", "outflow")>>>>
    [] style = "track" -> <<<<Tag(r), Plain("action", "sell"), Token("usd", r.buy, "usd"),
                              Plain("span", "3m"), Plain("pct", r.pct), Plain("venue", "OKX")>>,
                            <<Plain("P", r.sell), Plain("pct", r.pct)>>,
                            <<Token("volume", r.vol, "usd")>>, <<Plain("last", "1h")>>>>
    [] style = "price" -> <<<<Tag(r), Dollars("usd", r.sell), Plain("pct", r.pct),
                              Plain("minutes", "5m"), Dollars("volume", r.vol)>>,
                            <<Token("extra", r.buy, "K"), Plain("venue", "Bybit"),
                              Plain("PriceAlerts", "")>>>>
    [] style = "volume" -> <<<<Tag(r), Dollars("usd", r.sell), Plain("pct", r.sell),
                               Dollars("volume", r.vol), Token("extra", r.buy, "K")>>,
                             <<Plain("pct", r.pct), Plain("minutes", "5m"), Plain("venue", "Bybit"),
                               Plain("VolAlerts", "")>>>>
    [] style = "oi alert" -> <<<<Plain("says", {"oi_alert"})>>,
                               <<Tag(r), Plain("venue", "BYBIT")>>, <<Plain("oi15", r.sell)>>,
                               <<Plain("oi30", r.pct)>>, <<Plain("price", r.buy)>>,
                               <<Plain("alerts", n)>>, <<Plain("time", WrittenAt)>>,
                               <<Plain("after", ""), Tag(r), Dollars("usd", r.vol),
                                 Plain("pct", r.sell)>>>>

(* What that row says.                                                     *)
TwoSided(r, direction) ==
  [NoEntry EXCEPT !.coin = r.coin, !.buyUsd = r.buy, !.sellUsd = r.sell,
                  !.amountUsd = IF direction = "sell" THEN r.sell ELSE r.buy,
                  !.buySellRatio = (r.buy * 100) \div r.sell, !.direction = direction]
Distance(a, b) == IF a > b THEN a - b ELSE b - a
RowEntry(t, r, n) ==
  LET pct == [NoEntry EXCEPT !.coin = r.coin, !.percent = r.pct]
      one == [pct EXCEPT !.rank = 1, !.amountUsd = r.buy]
      alert == [one EXCEPT !.priceUsd = r.sell, !.volume24hUsd = r.vol, !.interval = "5m",
                           !.exchange = "Bybit", !.threshold = Threshold(t.filters)]
  IN CASE t.style = "two lines" ->
            [TwoSided(r, t.direction) EXCEPT !.deltaUsd = r.buy + 1, !.percent = r.pct,
                                                 !.volume24hUsd = r.vol]
       [] t.style = "one line" ->
            [TwoSided(r, t.direction) EXCEPT
               !.deltaUsd = CASE t.direction = "buy" -> r.buy - r.sell
                              [] t.direction = "sell" -> r.sell - r.buy
                              [] OTHER -> Distance(r.buy, r.sell)]
       [] t.style = "ranked" ->
            [pct EXCEPT !.rank = n, !.amountUsd = r.buy, !.direction = t.direction]
       [] t.style = "oi" ->
            [pct EXCEPT !.priceUsd = r.buy, !.priceChangePercent = r.sell, !.exchange = "BYBIT",
                        !.direction = t.direction]
       [] t.style = "funding" ->
            [pct EXCEPT !.rank = n, !.exchange = "OKX", !.interval = t.interval]
       [] t.style = "onchain" ->
            [NoEntry EXCEPT !.rank = n, !.coin = r.coin, !.amountUsd = r.buy,
                            !.direction = t.direction, !.interval = t.interval]
       [] t.style = "flow" ->
            [one EXCEPT !.percent = Null, !.direction = "outflow", !.exchange = "OKX"]
       [] t.style = "track" ->
            [one EXCEPT !.direction = "sell", !.interval = "3m", !.exchange = "OKX",
                        !.priceUsd = r.sell, !.priceChangePercent = r.pct, !.volume24hUsd = r.vol,
                        !.lastSeen = "1h"]
       [] t.style = "price" -> [alert EXCEPT !.priceChangePercent = r.pct]
       [] t.style = "volume" -> [alert EXCEPT !.priceChangePercent = r.sell]
       [] t.style = "oi alert" ->
            [pct EXCEPT !.priceUsd = r.vol, !.priceChangePercent = r.sell, !.oi15m = r.sell,
                        !.oi30m = r.pct, !.alerts = n, !.notifiedAt = WrittenAt, !.interval = "30m",
                        !.exchange = "BYBIT"]

Styles == {"two lines", "one line", "ranked", "oi", "funding", "onchain"}
Alerts == {"flow", "track", "price", "volume", "oi alert"}

VARIABLES
  template,
  written,       \* the rows
  dated          \* how the time is written: "s", "ms", "text" or "not"

messageVars == <<template, written, dated>>

MessageInit ==
  /\ template \in Templates
  /\ written = <<>>
  /\ dated = "not"

WriteRow(r) ==
  /\ Len(written) < (IF template.style \in Styles THEN MaxRows ELSE 1)
  /\ template.style \in Styles \cup Alerts
  /\ written' = Append(written, r)
  /\ UNCHANGED <<template, dated>>

WriteTime(how) ==
  /\ dated = "not"
  /\ dated' = how
  /\ UNCHANGED <<template, written>>

MessageNext ==
  \/ \E r \in RowValues : WriteRow(r)
  \/ \E how \in {"s", "ms", "text"} : WriteTime(how)

(* Ranked rows may all be written in one line.                             *)
Text ==
  LET lines == FlattenSeq([n \in DOMAIN written |-> RowLines(template.style, written[n], n)])
  IN template.header \o (IF template.style = "ranked" /\ lines # <<>> THEN <<FlattenSeq(lines)>>
                         ELSE lines)
Message ==
  [plainObject |-> template.plainObject, chapter |-> template.chapter,
   category |-> template.category, filters |-> template.filters, coins |-> template.coins,
   lines |-> Text, id |-> Null, timesend1 |-> Null,
   time |-> CASE dated = "s" -> WrittenAt \div Second [] dated = "ms" -> WrittenAt [] OTHER -> Null,
   timestamp |-> IF dated = "text" THEN WrittenAt ELSE Null]

-----------------------------------------------------------------------------
(* However far a message is written, it is an event of the feed it was     *)
(* written for, dated by the provider, and its entries are the rows (of a  *)
(* ranked list the first of them): no row is made up, none takes a number  *)
(* of its neighbour or of the title, and list, direction and total are     *)
(* those of the message.                                                   *)
FirstRows == AtMost(RowLimit, written)
Rows == IF template.style \in {"funding", "onchain"} THEN written ELSE FirstRows
Entries == [n \in DOMAIN Rows |-> RowEntry(template, Rows[n], n)]
Sum(amounts) == FoldLeft(LAMBDA a, b : a + b, 0, amounts)
TellsTheRows(event) ==
  /\ event.feedKey = template.feedKey
  /\ event.entries = Entries
  /\ event.parserStatus = IF template.style = "plain" THEN "not_applicable"
                          ELSE IF Rows = <<>> THEN "parser_needs_sample" ELSE "parsed"
  /\ template.plainObject =>
       /\ event.timestamp = IF dated = "not" THEN ReceivedAt ELSE WrittenAt
       /\ ToSet(event.coins) = ToSet(template.coins) \cup {r.coin : r \in ToSet(FirstRows)}
  /\ template.category \in AmountFeedKeys /\ Rows # <<>> =>
       event.amountMetric.totalUsd = Sum([n \in DOMAIN Rows |-> Entries[n].amountUsd])
EntriesAreTheRows ==
  LET events == NormalizeEvent(Message, template.options)
  IN IF template.feedKey = "none" THEN events = <<>>
     ELSE Len(events) = 1 /\ TellsTheRows(events[1])
=============================================================================
