------------------------------- MODULE Scoring -------------------------------
(***************************************************************************)
(* The score of a coin: scoring/scoreEngine.ts under the rules and limits  *)
(* of scoring/defaultScoreConfig.ts.                                       *)
(*                                                                         *)
(* Scores, contributions and multipliers are counted in hundredths and     *)
(* rounded down, where the code keeps two or four decimals.  A USD amount  *)
(* is given by its power of ten, which is what its log10 is taken of.  One *)
(* window stands for all of config.windows, with its half-life as unit of  *)
(* time: each of them looks back six of its half-lives.  Hashes, reasons,  *)
(* units and confidenceImpact, which no score reads, are left out.         *)
(***************************************************************************)
EXTENDS Collections, FiniteSetsExt

None == "none"   \* null, of a name
Null == -99       \* null, of a number

Clamp(n, low, high) == IF n < low THEN low ELSE IF n > high THEN high ELSE n
Least(m, n) == IF m < n THEN m ELSE n
Size(n) == IF n < 0 THEN -n ELSE n
Times(m, n) == (m * n) \div 100

-----------------------------------------------------------------------------
(* defaultScoreConfig *)

HalfLife == 1
MaxAge == 6
SideSaturation == 45 * 100
BurstThreshold == 3
BurstBonus == 10 * 100
MaterialChange == [net |-> 7 * 100, side |-> 10 * 100, confidence |-> 15 * 100]
Confidence ==
  [base |-> 2000, evidence |-> 3600, feeds |-> 3000, rules |-> 2400, exchanges |-> 1200,
   parser |-> 1500, conflict |-> 22, stale |-> 1000, singleFeed |-> 800]

PriceFeeds == {"pricealerts", "price_alerts", "pricealerts2"}
FlowFeeds == {"flows_alert", "onchain_24_all_flows", "onchain_1_all_flows"}

Rule(key, feeds, side, weight, scale, field, cap) ==
  [key |-> key, feeds |-> feeds, side |-> side, weight |-> weight, scale |-> scale,
   field |-> field, cap |-> cap * 100]

Rules == {
  Rule("spot_buy_pressure", {"all_spot_top_buy_5m"}, "bull", 14, "logUsd", "amount", 18),
  Rule("derivatives_buy_pressure", {"all_derivatives_top_buy_5m"}, "bull", 12, "logUsd", "delta", 20),
  Rule("price_alert_up", PriceFeeds, "bull", 10, "percentAbs", "price", 18),
  Rule("volume_alert_up", {"volalerts"}, "bull", 8, "percentAbs", "price", 14),
  Rule("oi_rising_with_price", {"top_oi_gainers_60m"}, "bull", 12, "percentAbs", "percent", 20),
  Rule("cex_outflow", FlowFeeds, "bull", 9, "logUsd", "amount", 15),
  Rule("listing", {"listings"}, "bull", 6, "fixed", None, 8),
  Rule("negative_funding_contrarian", {"top_funding"}, "bull", 5, "percentAbs", "percent", 8),
  Rule("spot_sell_pressure", {"all_spot_top_sell_5m"}, "bear", 14, "logUsd", "amount", 18),
  Rule("derivatives_sell_pressure", {"all_derivatives_top_sell_5m"}, "bear", 12, "logUsd", "delta", 20),
  Rule("price_alert_down", PriceFeeds, "bear", 10, "percentAbs", "price", 18),
  Rule("oi_loser", {"top_oi_losers_60m"}, "bear", 12, "percentAbs", "percent", 20),
  Rule("cex_inflow", FlowFeeds, "bear", 9, "logUsd", "amount", 15),
  Rule("delisting", {"delistings"}, "bear", 35, "fixed", None, 45),
  Rule("positive_funding_overheated", {"top_funding"}, "risk", 10, "percentAbs", "percent", 16)}

-----------------------------------------------------------------------------
(* The contribution of a row under a rule *)

(* A row has a number or Null in every column; no price is no percentage.  *)
Columns == {"rank", "amount", "delta", "buy", "sell", "volume24h", "percent", "price"}
IsSourceRow(row) ==
  /\ Columns \cup {"coin", "feed", "source", "entry", "parsed", "direction", "exchange", "market"}
       \subseteq DOMAIN row
  /\ \A column \in Columns : row[column] \in Int
  /\ row.entry \in Nat
  /\ -Null \notin {row.price, row.percent}

OrZero(n) == IF n = Null THEN 0 ELSE n
Change(row) == IF row.price # Null THEN row.price ELSE OrZero(row.percent)

RuleApplies(rule, row) ==
  /\ row.feed \in rule.feeds
  /\ rule.key = "cex_outflow" => row.direction = "outflow"
  /\ rule.key = "cex_inflow" => row.direction = "inflow"
  /\ rule.key = "negative_funding_contrarian" => OrZero(row.percent) < 0
  /\ rule.key = "positive_funding_overheated" => OrZero(row.percent) > 0
  /\ rule.key \in {"price_alert_up", "volume_alert_up"} => Change(row) > 0
  /\ rule.key = "price_alert_down" => Change(row) < 0
  /\ rule.key = "oi_rising_with_price" => OrZero(row.price) >= 0

ValueMultiplier(rule, row) ==
  IF rule.scale = "fixed" THEN 100
  ELSE LET value == row[rule.field] IN
       IF value = Null THEN 50
       ELSE CASE rule.scale = "logUsd" -> Clamp(100 * (value - 3), 50, 300)
              [] rule.scale = "percentAbs" -> Clamp(50 * Size(value), 50, 400)

(* A rank of 0 is no rank. *)
RankMultiplier(row) == IF OrZero(row.rank) = 0 THEN 100 ELSE Clamp(10 * (11 - row.rank), 25, 100)

(* 2 ^ age *)
Doubled[age \in 0..MaxAge] == IF age = 0 THEN 1 ELSE 2 * Doubled[age - 1]

Grown(points, row, asOf) == points * Doubled[asOf - row.at]
Decayed(points, row, asOf) == points \div Doubled[asOf - row.at]

IsSpotPressure(rule, row) ==
  rule.key \in {"spot_buy_pressure", "spot_sell_pressure"} /\ Null \notin {row.buy, row.sell}

(* What one amount is of both: one half, ten of eleven, a hundred of 101.  *)
Share(own, other) ==
  CASE own = other -> 50 [] own = other + 1 -> 90 [] own > other + 1 -> 99
    [] own = other - 1 -> 9 [] own < other - 1 -> 0

Own(rule, row) == IF rule.side = "bull" THEN row.buy ELSE row.sell
Other(rule, row) == IF rule.side = "bull" THEN row.sell ELSE row.buy

(* What the side of the rule was of all that was traded. *)
BuyShare(rule, row) == Share(row.buy, row.sell)
SideShare(rule, row) == Share(Own(rule, row), Other(rule, row))

SpotPressure(rule, row) ==
  LET amount == IF row.amount # Null THEN row.amount ELSE Own(rule, row)
      imbalance == Clamp((100 * (SideShare(rule, row) - 50)) \div 35, 0, 140)
      volume == Clamp(100 * amount - 470, 25, 150)
      liquidity == IF row.volume24h = Null THEN 100 ELSE Clamp(100 * (row.volume24h - 6), 25, 125)
  IN Times(Times(imbalance, volume), liquidity)

Contribution(rule, row, asOf) ==
  LET multiplier == IF IsSpotPressure(rule, row) THEN SpotPressure(rule, row)
                    ELSE ValueMultiplier(rule, row)
  IN Least(rule.cap, Decayed(rule.weight * Times(multiplier, RankMultiplier(row)), row, asOf))

-----------------------------------------------------------------------------
(* The evidence for a score *)

(* A rule is named by its key, what it adds for a burst by key and suffix. *)
Named(rule) == <<rule.key, "">>
Burst(rule) == <<rule[1], "_burst">>
NoRule == <<None, "">>

(* Two pieces of evidence with one evidenceKey are the same piece. *)
EvidenceKey(e) == [coin |-> e.coin, rule |-> e.rule, side |-> e.side, events |-> e.events,
                   entry |-> e.entry, at |-> e.at]

Fresh(rows, asOf) == {row \in rows : asOf - row.at \in 0..MaxAge}

RowEvidence(rows, asOf) ==
  LET found(rule, row) ==
        [coin |-> row.coin, rule |-> Named(rule), side |-> rule.side, feed |-> row.feed,
         contribution |-> Contribution(rule, row, asOf), events |-> {row.event},
         entry |-> row.entry, source |-> row.source, at |-> row.at,
         exchange |-> row.exchange, market |-> row.market]
      applied == {p \in Rules \X rows : RuleApplies(p[1], p[2])}
  IN {e \in {found(p[1], p[2]) : p \in applied} : e.contribution > 0}

(* min(10, 3 * log2 n) *)
BurstPoints(n) == Least(BurstBonus, CASE n = 3 -> 475 [] n = 4 -> 600 [] n = 5 -> 696
                                      [] n = 6 -> 775 [] OTHER -> 842)

Bursts(evidence, asOf) ==
  LET group(e) == {d \in evidence : d.side = e.side /\ d.rule = e.rule /\ d.feed = e.feed}
      events(e) == UNION {d.events : d \in group(e)}
  IN {[coin |-> e.coin, rule |-> Burst(e.rule), side |-> e.side, feed |-> e.feed,
       contribution |-> BurstPoints(Cardinality(events(e))), events |-> events(e),
       entry |-> 0, source |-> "aggregate", at |-> asOf, exchange |-> None, market |-> None] :
         e \in {e \in evidence : /\ e.side # "risk"
                                 /\ Cardinality(events(e)) >= BurstThreshold}}

Evidence(rows, asOf) == RowEvidence(rows, asOf) \cup Bursts(RowEvidence(rows, asOf), asOf)

-----------------------------------------------------------------------------
(* The score *)

Raw(evidence, sides) ==
  SumOf([e \in {e \in evidence : e.side \in sides} |-> e.contribution])

SideScore(raw) == Clamp((10000 * raw) \div (raw + SideSaturation), 0, 10000)

ConflictRatio(bull, bear) ==
  IF bull = 0 /\ bear = 0 THEN 0 ELSE (100 * Min({bull, bear})) \div Max({bull, bear})
HasConflict(bull, bear) == bull >= 2500 /\ bear >= 2500 /\ ConflictRatio(bull, bear) >= 45

(* The upper of two middle ages. *)
MedianAge(rows, asOf) ==
  LET younger(age) == {row \in rows : asOf - row.at <= age}
  IN Min({age \in 0..MaxAge : 2 * Cardinality(younger(age)) > Cardinality(rows)})

Penalty(happens, points) == IF happens THEN points ELSE 0

ConfidenceScore(rows, evidence, asOf, bull, bear) ==
  LET many(S, each, cap) == Least(cap, each * Cardinality(S))
      feeds == {e.feed : e \in evidence}
      exchanges == {e.exchange : e \in evidence} \ {None}
      median == MedianAge(rows, asOf)
  IN IF evidence = {} THEN 0
     ELSE Clamp(Confidence.base
                + many(evidence, 300, Confidence.evidence)
                + many(feeds, 600, Confidence.feeds)
                + many({e.rule : e \in evidence}, 400, Confidence.rules)
                + many(exchanges, 400, Confidence.exchanges)
                + (1200 * (MaxAge - median)) \div MaxAge
                - Penalty(\E row \in rows : ~row.parsed, Confidence.parser)
                - Penalty(HasConflict(bull, bear),
                          Confidence.conflict * (100 + ConflictRatio(bull, bear)))
                - Penalty(median > HalfLife, Confidence.stale)
                - Penalty(Cardinality(feeds) <= 1, Confidence.singleFeed), 0, 10000)

Regime(bull, bear, confidence, evidence) ==
  IF evidence = {} \/ confidence < 2500 THEN "thin_data"
  ELSE IF HasConflict(bull, bear) THEN "conflicted"
  ELSE IF bull - bear >= 1500 THEN "bullish"
  ELSE IF bear - bull >= 1500 THEN "bearish"
  ELSE "neutral"

(* The largest contribution, the first of equals: rows are read the latest *)
(* first and bursts are added last.                                        *)
DominantRule(evidence) ==
  LET largest == {e \in evidence : \A d \in evidence : d.contribution <= e.contribution}
      rows == {e \in largest : e.source # "aggregate"}
      first == {e \in rows : \A d \in rows : d.at <= e.at}
  IN IF evidence = {} THEN NoRule
     ELSE (CHOOSE e \in (IF rows = {} THEN largest ELSE first) : TRUE).rule

ScoreCoin(rows, asOf) ==
  LET fresh == Fresh(rows, asOf)
      evidence == Evidence(fresh, asOf)
      bull == SideScore(Raw(evidence, {"bull"}))
      bear == SideScore(Raw(evidence, {"bear", "risk"}))
      confidence == ConfidenceScore(fresh, evidence, asOf, bull, bear)
  IN [bull |-> bull, bear |-> bear, net |-> bull - bear, confidence |-> confidence,
      dominant |-> DominantRule(evidence), regime |-> Regime(bull, bear, confidence, evidence),
      evidence |-> evidence]

-----------------------------------------------------------------------------
(* What the rows would be had the market gone the other way *)

MirroredFeeds ==
  {<<"all_spot_top_buy_5m", "all_spot_top_sell_5m">>,
   <<"all_derivatives_top_buy_5m", "all_derivatives_top_sell_5m">>}

Mirrorable(row) ==
  \/ row.feed \in PriceFeeds \cup FlowFeeds
  \/ \E pair \in MirroredFeeds : row.feed \in {pair[1], pair[2]}

MirroredFeed(feed) ==
  IF feed \in PriceFeeds \cup FlowFeeds THEN feed
  ELSE LET pair == CHOOSE p \in MirroredFeeds : feed \in {p[1], p[2]}
       IN IF feed = pair[1] THEN pair[2] ELSE pair[1]

Mirrored(row) ==
  LET opposite(n) == IF n = Null THEN n ELSE -n
  IN [row EXCEPT !.feed = MirroredFeed(@), !.buy = row.sell, !.sell = row.buy,
                 !.price = opposite(@), !.percent = opposite(@),
                 !.direction = CASE @ = "inflow" -> "outflow" [] @ = "outflow" -> "inflow"
                                 [] OTHER -> @]
=============================================================================
