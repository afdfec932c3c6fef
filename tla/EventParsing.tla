----------------------------- MODULE EventParsing -----------------------------
(***************************************************************************)
(* What the dashboard reads in a message of CryptoAttack                   *)
(* (apps/server/src/events/parsers.ts).  A text is a sequence of lines and *)
(* a line one of tokens, what a regular expression of the parser tells     *)
(* apart:                                                                  *)
(*   tag, word, pair          #BTC, an upper-case BTC, BTC/USDT            *)
(*   rank, usd, pct           1. , an amount, 2.5 %                        *)
(*   buy, sell, delta, vol    amounts behind their labels                  *)
(*   price, oi15, oi30, alerts, time, minutes, volume, extra, ...          *)
(*                            further labelled values                      *)
(*   venue, says              an exchange, not in capitals; other text, by *)
(*                            its meanings                                 *)
(* A value is what the number or name comes to, its mark how an amount is  *)
(* written: "$", "usd", "K" for a bare K, M or B, "" for a bare number.    *)
(***************************************************************************)
EXTENDS Integers, Sequences, FiniteSets, SequencesExt, FiniteSetsExt

CONSTANTS
  Null,
  CommonWords,    \* upper-case words that are no coins
  Means,          \* per filter: what its text means
  RowLimit,       \* 10
  CoinLimit       \* 24

Token(kind, value, mark) == [kind |-> kind, value |-> value, mark |-> mark]

OfKind(line, kinds) == SelectSeq(line, LAMBDA t : t.kind \in kinds)
Value(tokens) == IF tokens = <<>> THEN Null ELSE tokens[1].value
First(line, kinds) == Value(OfKind(line, kinds))

(* Words about buying and selling are found in the labels as well.         *)
Meanings(line) ==
  UNION {IF line[i].kind = "says" THEN line[i].value ELSE {line[i].kind} : i \in DOMAIN line}
FilterMeanings(filters) == UNION {Means[filters[i]] : i \in DOMAIN filters}
FirstLine(lines) == IF lines = <<>> THEN <<>> ELSE lines[1]
AtMost(limit, seq) == IF Len(seq) > limit THEN SubSeq(seq, 1, limit) ELSE seq

(* normalizeCoin(): a common word is a coin only behind a # or in the list *)
(* of coins of the message.                                                *)
NormalizeCoin(value, anyWord) ==
  IF value = "" \/ (~anyWord /\ value \in CommonWords) THEN Null ELSE value

-----------------------------------------------------------------------------
(* A line *)

ParseRank(line) == IF line # <<>> /\ line[1].kind = "rank" THEN line[1].value ELSE Null
ParsePair(line) ==
  LET pairs == OfKind(line, {"pair"})
  IN IF pairs = <<>> THEN Null ELSE NormalizeCoin(pairs[1].value, FALSE)
ParseStandaloneCoin(line) ==
  LET tags == OfKind(line, {"tag"})
      words == SelectSeq(OfKind(line, {"word"}), LAMBDA t : NormalizeCoin(t.value, FALSE) # Null)
  IN IF tags # <<>> THEN tags[1].value ELSE Value(words)
ParseCoin(line) == IF ParsePair(line) # Null THEN ParsePair(line) ELSE ParseStandaloneCoin(line)

(* The first amount in dollars, else one in usd, else one with a suffix.   *)
Marked(line, mark) == SelectSeq(line, LAMBDA t : t.mark = mark)
ParseUsdAmount(line) ==
  LET written == Marked(line, "$") \o Marked(line, "usd") \o Marked(line, "K")
  IN Value(written)
ParsePercent(line) == First(line, {"pct", "oi15", "oi30"})

InferDirection(line, preferred) ==
  LET said == Meanings(line)
  IN CASE "buy" \in said /\ "sell" \notin said -> "buy"
       [] "sell" \in said /\ "buy" \notin said -> "sell"
       [] {"buy", "sell"} \subseteq said /\ preferred \in {"buy", "sell"} -> preferred
       [] OTHER -> IF "gainer" \in said THEN "gainer"
                   ELSE IF "loser" \in said THEN "loser" ELSE preferred

ParseDirectionalAmount(line, direction) ==
  IF direction \in {"buy", "sell"} /\ First(line, {direction}) # Null
  THEN First(line, {direction}) ELSE ParseUsdAmount(line)

ParseDeltaUsdAmount(line, direction) ==
  LET buy == First(line, {"buy"})
      sell == First(line, {"sell"})
  IN CASE First(line, {"delta"}) # Null -> First(line, {"delta"})
       [] First(line, {"delta"}) = Null /\ Null \in {buy, sell} -> Null
       [] OTHER -> IF direction = "buy" \/ (direction # "sell" /\ buy > sell) THEN buy - sell
                   ELSE sell - buy

(* In hundredths.                                                          *)
ParseBuySellRatio(line) ==
  LET buy == First(line, {"buy"})
      sell == First(line, {"sell"})
  IN IF Null \in {buy, sell} THEN Null ELSE IF sell <= 0 THEN Null ELSE (buy * 100) \div sell

(* The change of the price is the percentage in brackets behind it.        *)
ParseOiPriceChange(line) ==
  LET at == {i \in 1..(Len(line) - 1) : line[i].kind = "price" /\ line[i + 1].kind = "pct"}
  IN IF at = {} THEN Null ELSE line[Min(at) + 1].value

(* Exchanges are looked for in this order, not in the order of the line.   *)
Exchanges == <<"BINANCE", "OKX", "BYBIT", "BITGET", "KUCOIN", "BINGX", "COINBASE", "KRAKEN",
               "HYPERLIQUID">>
ParseExchange(line) ==
  LET named == {t.value : t \in ToSet(OfKind(line, {"venue"}))}
      found == SelectSeq(Exchanges, LAMBDA x : x \in named)
  IN IF found = <<>> THEN Null ELSE found[1]
ParseTopInterval(said) == IF "5m" \in said THEN "5m" ELSE Null

-----------------------------------------------------------------------------
(* Lists *)

NoEntry ==
  [rank |-> Null, coin |-> Null, amountUsd |-> Null, buyUsd |-> Null, sellUsd |-> Null,
   deltaUsd |-> Null, buySellRatio |-> Null, volume24hUsd |-> Null, percent |-> Null,
   priceUsd |-> Null, priceChangePercent |-> Null, oi15m |-> Null, oi30m |-> Null,
   alerts |-> Null, notifiedAt |-> Null, threshold |-> Null, lastSeen |-> Null,
   direction |-> "unknown", interval |-> Null, exchange |-> Null]

RowToward(line, direction) ==
  LET coin == ParseCoin(line)
      amount == ParseDirectionalAmount(line, direction)
  IN IF coin = Null \/ {ParseRank(line), amount, ParsePercent(line)} = {Null} THEN <<>>
     ELSE <<[NoEntry EXCEPT
               !.rank = ParseRank(line), !.coin = coin, !.amountUsd = amount,
               !.buyUsd = First(line, {"buy"}), !.sellUsd = First(line, {"sell"}),
               !.deltaUsd = ParseDeltaUsdAmount(line, direction),
               !.buySellRatio = ParseBuySellRatio(line), !.volume24hUsd = First(line, {"vol"}),
               !.percent = ParsePercent(line), !.priceUsd = First(line, {"price"}),
               !.priceChangePercent = ParseOiPriceChange(line), !.direction = direction,
               !.interval = ParseTopInterval(Meanings(line)), !.exchange = ParseExchange(line)]>>
RankedRow(line, preferred) == RowToward(line, InferDirection(line, preferred))

(* Ranks in the middle of a line begin a row of their own, unless a # is   *)
(* next; a line without a coin goes on with the row before.                *)
SplitLine(line) ==
  LET starts == {1} \cup {i \in 2..(Len(line) - 1) : /\ line[i].kind = "rank"
                                                     /\ line[i + 1].kind \in {"word", "pair"}}
      first == SetToSortSeq(starts, LAMBDA i, j : i < j)
  IN [k \in DOMAIN first |->
        SubSeq(line, first[k], IF k = Len(first) THEN Len(line) ELSE first[k + 1] - 1)]
SplitPossibleRows(lines) == FlattenSeq([i \in DOMAIN lines |-> SplitLine(lines[i])])

IsContinuationRow(line) ==
  /\ ParseCoin(line) = Null
  /\ \/ ParseUsdAmount(line) # Null
     \/ ParsePercent(line) # Null
     \/ OfKind(line, {"delta", "vol"}) # <<>>
NotMerged(lines) == lines
MergeContinuationRows(lines) ==
  FoldLeft(LAMBDA rows, line : IF rows # <<>> /\ IsContinuationRow(line)
                               THEN Append(Front(rows), Last(rows) \o line)
                               ELSE Append(rows, line),
           <<>>, lines)

ParseTopEntries(lines, preferred) ==
  LET rows == MergeContinuationRows(SplitPossibleRows(lines))
  IN AtMost(RowLimit, FlattenSeq([i \in DOMAIN rows |-> RankedRow(rows[i], preferred)]))

(* Direction and interval of a list: from the filters, else from the title.*)
Either(name, other, filters, lines) ==
  LET Told(said) == IF (name \in said) = (other \in said) THEN Null
                    ELSE IF name \in said THEN name ELSE other
      filtered == Told(FilterMeanings(filters))
  IN IF filtered # Null THEN filtered ELSE Told(Meanings(FirstLine(lines)))
ParseTopListSignal(filters, lines) ==
  LET said == FilterMeanings(filters) \cup Meanings(FirstLine(lines))
  IN IF ParseTopInterval(said) = Null THEN Null ELSE Either("buy", "sell", filters, lines)

(* Of an open-interest list 60 minutes, where the title has precedence.    *)
HasSixtyMinuteOiSignal(filtered, titled) ==
  \/ "60m" \in titled
  \/ /\ {"5m", "15m", "30m"} \cap (titled \cup filtered) = {}
     /\ "60m" \in filtered
ParseOiTopSignal(filters, lines) ==
  IF HasSixtyMinuteOiSignal(FilterMeanings(filters), Meanings(FirstLine(lines)))
  THEN Either("gainer", "loser", filters, lines) ELSE Null

-----------------------------------------------------------------------------
(* Alerts *)

(* The tokens of the first place where kinds like these follow each other. *)
Matched(line, kinds) ==
  LET at == {i \in 0..(Len(line) - Len(kinds)) :
               \A k \in DOMAIN kinds : line[i + k].kind = kinds[k]}
  IN IF at = {} THEN <<>> ELSE SubSeq(line, Min(at) + 1, Min(at) + Len(kinds))

Begins(line, kinds) ==
  Len(line) >= Len(kinds) /\ \A k \in DOMAIN kinds : line[k].kind = kinds[k]
LinesOf(lines, kinds) == SelectSeq(lines, LAMBDA line : Begins(line, kinds))
LineWith(lines, kind) ==
  LET found == SelectSeq(lines, LAMBDA line : OfKind(line, {kind}) # <<>>) IN FirstLine(found)

ParseOiAlertEntries(lines) ==
  LET text == FlattenSeq(lines)
      naming == FirstLine(SelectSeq(lines, LAMBDA line : /\ OfKind(line, {"tag"}) # <<>>
                                                         /\ ParseExchange(line) # Null))
      after == Matched(LineWith(lines, "after"), <<"tag", "usd", "pct">>)
      price == IF after = <<>> THEN First(text, {"price"}) ELSE after[2].value
      change == IF after = <<>> THEN Null ELSE after[3].value
      percents == SelectSeq(<<First(text, {"oi30"}), First(text, {"oi15"}), ParsePercent(naming),
                              change>>, LAMBDA p : p # Null)
  IN IF "oi_alert" \notin Meanings(text) \/ naming = <<>> THEN <<>>
     ELSE <<[NoEntry EXCEPT
               !.coin = ParseStandaloneCoin(naming),
               !.percent = IF percents = <<>> THEN Null ELSE percents[1],
               !.priceUsd = price, !.priceChangePercent = change,
               !.oi15m = First(text, {"oi15"}), !.oi30m = First(text, {"oi30"}),
               !.alerts = First(text, {"alerts"}), !.notifiedAt = First(text, {"time"}),
               !.interval = IF First(text, {"oi30"}) # Null THEN "30m"
                            ELSE IF First(text, {"oi15"}) # Null THEN "15m" ELSE Null,
               !.exchange = ParseExchange(naming)]>>

Threshold(filters) ==
  LET changes == SelectSeq(filters, LAMBDA f : "change" \in Means[f])
  IN IF changes = <<>> THEN Null ELSE changes[1]

(* An alert is one text, whatever its lines: fields in a fixed order.      *)
PriceAlert == <<"tag", "usd", "pct", "minutes", "volume", "extra", "venue", "PriceAlerts">>
VolAlert == <<"tag", "usd", "pct", "volume", "extra", "pct", "minutes", "venue", "VolAlerts">>
ParseSignalAlertEntries(lines, filters, category) ==
  LET m == Matched(FlattenSeq(lines), IF category = "pricealerts" THEN PriceAlert ELSE VolAlert)
      Field(kind) == First(m, {kind})
      percents == OfKind(m, {"pct"})
  IN IF m = <<>> THEN <<>>
     ELSE <<[NoEntry EXCEPT
               !.rank = 1, !.coin = m[1].value, !.priceUsd = m[2].value,
               !.amountUsd = Field("extra"), !.volume24hUsd = Field("volume"),
               !.percent = Last(percents).value, !.priceChangePercent = percents[1].value,
               !.threshold = Threshold(filters), !.interval = Field("minutes"),
               !.exchange = Field("venue")]>>

ParseFlowAlertEntries(lines) ==
  LET m == FirstLine(LinesOf(lines, <<"tag">>))
  IN IF ~Begins(m, <<"tag", "venue", "usd", "flow">>) THEN <<>>
     ELSE <<[NoEntry EXCEPT !.rank = 1, !.coin = m[1].value, !.amountUsd = m[3].value,
                            !.direction = m[4].value, !.exchange = m[2].value]>>

ParseCexTrackEntries(lines) ==
  LET m == Matched(FirstLine(lines), <<"tag", "action", "usd", "span", "pct", "venue">>)
      priced == FirstLine(LinesOf(lines, <<"P">>))
  IN IF m = <<>> THEN <<>>
     ELSE <<[NoEntry EXCEPT
               !.rank = 1, !.coin = m[1].value, !.direction = m[2].value, !.amountUsd = m[3].value,
               !.interval = m[4].value, !.percent = m[5].value, !.exchange = m[6].value,
               !.priceUsd = First(priced, {"P"}), !.priceChangePercent = First(priced, {"pct"}),
               !.volume24hUsd = First(FirstLine(LinesOf(lines, <<"volume">>)), {"volume"}),
               !.lastSeen = First(FirstLine(LinesOf(lines, <<"last">>)), {"last"})]>>

(* Lists whose rows are the lines that begin with a coin, ranked as found. *)
Ranked(rows) == [i \in DOMAIN rows |-> [rows[i] EXCEPT !.rank = i]]

ParseFundingEntries(lines, filters) ==
  LET periods == SelectSeq(filters, LAMBDA f : f \in {"30_min", "4_h", "12_h"})
      rows == SelectSeq(LinesOf(lines, <<"tag", "venue", "pct">>), LAMBDA line : Len(line) = 3)
  IN Ranked([i \in DOMAIN rows |->
               [NoEntry EXCEPT !.coin = rows[i][1].value, !.exchange = rows[i][2].value,
                               !.percent = rows[i][3].value,
                               !.interval = IF periods = <<>> THEN Null ELSE periods[1]]])

ParseOnchainDirection(filters, lines) ==
  LET Told(said) == IF "inflow" \in said THEN "inflow"
                    ELSE IF "outflow" \in said THEN "outflow" ELSE Null
      filtered == Told(FilterMeanings(filters))
  IN IF filtered # Null THEN filtered ELSE Told(Meanings(FlattenSeq(lines)))
ParseOnchainFlowEntries(lines, filters, window) ==
  LET direction == ParseOnchainDirection(filters, lines)
      rows == LinesOf(lines, <<"tag", "usd">>)
  IN IF direction = Null THEN <<>>
     ELSE Ranked([i \in DOMAIN rows |->
                    [NoEntry EXCEPT !.coin = rows[i][1].value, !.amountUsd = rows[i][2].value,
                                    !.direction = direction, !.interval = window]])

-----------------------------------------------------------------------------
(* The coins a message is about: those it lists and those in its text.     *)
CoinsOf(entries) == [i \in DOMAIN entries |-> entries[i].coin]
Once(seq) ==
  FoldLeft(LAMBDA seen, c : IF c \in ToSet(seen) THEN seen ELSE Append(seen, c), <<>>, seq)
NormalizeCoins(coins, lines) ==
  LET listed == SelectSeq(coins, LAMBDA c : NormalizeCoin(c, TRUE) # Null)
      named == CoinsOf(ParseOiAlertEntries(lines) \o ParseTopEntries(lines, "unknown"))
  IN AtMost(CoinLimit, Once(listed \o named))

(* A total that is written, else the sum of what was parsed.               *)
PositiveAmounts(entries) ==
  SelectSeq(entries, LAMBDA e : IF e.amountUsd = Null THEN FALSE ELSE e.amountUsd > 0)
ParseTotalUsdAmount(lines, entries) ==
  LET totals == SelectSeq(lines, LAMBDA line : /\ "total" \in Meanings(line)
                                               /\ ParseUsdAmount(line) # Null)
  IN IF totals # <<>> THEN ParseUsdAmount(totals[1])
     ELSE IF PositiveAmounts(entries) = <<>> THEN Null
     ELSE FoldLeft(LAMBDA sum, e : sum + e.amountUsd, 0, PositiveAmounts(entries))
=============================================================================
