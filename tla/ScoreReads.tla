------------------------------ MODULE ScoreReads ------------------------------
(***************************************************************************)
(* What the dashboard reads of the score tables: the queries of            *)
(* db/scoreRepository.ts behind the routes /api/scores/top, /current,      *)
(* /market-regime, /:coin, /:coin/timeline and /:coin/evidence of          *)
(* http/routes.ts.  A query is a record of its filters, None or Null where *)
(* one is not given; an answer is a set of rows that carry their place, or *)
(* None where the route answers with an error.                             *)
(***************************************************************************)
EXTENDS ScoreStore

CONSTANTS
  HalalCoins,    \* scoreHalalCoinSymbols()
  Alphabetical   \* the coins in the order of their names

ASSUME ScoreReadsAssumption ==
  /\ None \notin Coins
  /\ Alphabetical \in Seq(Coins)
  /\ \A coin \in Coins : \E i \in DOMAIN Alphabetical : Alphabetical[i] = coin

(* resolveScoreReadFilters() *)
Filters(q) == [q EXCEPT !.version = IF @ = None THEN version ELSE @]

-----------------------------------------------------------------------------
(* Evidence *)

SpotFeeds == {"all_spot_top_buy_5m", "all_spot_top_sell_5m"}
PerpetualFeeds == {"all_derivatives_top_buy_5m", "all_derivatives_top_sell_5m",
                   "top_oi_gainers_60m", "top_oi_losers_60m"}

Concerns(e, q) ==
  /\ q.exchange # None => e.exchange = q.exchange
  /\ q.market # None => \/ e.market = q.market
                        \/ q.market = "spot" /\ e.feed \in SpotFeeds
                        \/ q.market = "perpetual" /\ e.feed \in PerpetualFeeds

HasEvidence(S, q) == <<q.exchange, q.market>> # <<None, None>> => \E e \in S : Concerns(e, q)

IsHalal(coin, q) == q.halal # None => (q.halal = "yes") = (coin \in HalalCoins)

EvidenceAt(row) == {e \in evidence : SameSnapshot(e, row)}
EvidenceOf(s) == {e \in evidence : e.snapshot = SnapshotId(s)}

(* The strongest of the evidence, and of equals the latest received. *)
PrimaryReason(S) ==
  LET strongest == {e \in S : \A d \in S : d.contribution <= e.contribution}
      latest == {e \in strongest : \A d \in strongest : d.at <= e.at}
  IN IF S = {} THEN NoRule ELSE (CHOOSE e \in latest : TRUE).rule

(* The rest is a summary of the 20 strongest. *)
Strongest(S, limit) ==
  IF Cardinality(S) <= limit THEN S
  ELSE CHOOSE top \in SUBSET S : /\ Cardinality(top) = limit
                                /\ \A e \in top, d \in S \ top : d.contribution <= e.contribution

Summary(S) ==
  LET top == Strongest(S, 20)
  IN [primaryReason |-> PrimaryReason(S), total |-> Cardinality(top),
      rules |-> {e.rule : e \in top}, feeds |-> {e.feed : e \in top},
      sides |-> {e.side : e \in top},
      riskTags |-> {e.rule : e \in {e \in top : e.side = "risk"}}]

-----------------------------------------------------------------------------
(* /api/scores/top, /current and /:coin *)

NetDelta(s, S) ==
  LET earlier == {t \in S : t.ts < s.ts}
  IN IF earlier = {} THEN Null ELSE s.net - Latest(earlier).net

RecentDelta(row) ==
  LET S == SnapshotsOf(row.version, row.coin)
  IN IF S = {} THEN Null ELSE NetDelta(Latest(S), S)

Base(q) ==
  {row \in current :
     /\ row.version = q.version
     /\ q.side = "bull" => row.net > 0
     /\ q.side = "bear" => row.net < 0
     /\ q.minConfidence > 0 => row.confidence >= q.minConfidence
     /\ q.since # Null => row.updatedAt >= q.since
     /\ IsHalal(row.coin, q)
     /\ HasEvidence(EvidenceAt(row), q)}

(* orderByForSide(): every column descends but the name of the coin. *)
SortKey(row, side) ==
  LET name == CHOOSE i \in DOMAIN Alphabetical : Alphabetical[i] = row.coin
  IN CASE side = "bull" -> <<-row.net, -row.bull, -row.confidence, -row.ts, name>>
       [] side = "bear" -> <<row.net, -row.bear, -row.confidence, -row.ts, name>>
       [] side = "net" -> <<-Size(row.net), -row.confidence, -row.ts, name>>

(* row_number() over (order by ...) *)
Ranked(rows, side) ==
  LET list == SortedBy([row \in rows |-> SortKey(row, side)])
  IN {With([rank |-> i, recentDelta |-> RecentDelta(list[i]),
            evidence |-> Summary(EvidenceAt(list[i]))], list[i]) : i \in DOMAIN list}

(* order by rank asc limit ... *)
Limited(ranked, limit) ==
  {row \in ranked : Cardinality({d \in ranked : d.rank <= row.rank}) <= limit}

CurrentScoresOfCoin(q, coin) ==
  Limited(Ranked({row \in Base(q) : coin # None => row.coin = coin}, q.side), q.limit)

(* The coin is looked for among the ranked rows. *)
CurrentScores(q, coin) ==
  Limited({row \in Ranked(Base(q), q.side) : coin # None => row.coin = coin}, q.limit)

ScoreList(q) == CurrentScores(Filters(q), None)
ScoreDetail(q, coin) == CurrentScores([Filters(q) EXCEPT !.limit = 1], coin)

-----------------------------------------------------------------------------
(* /api/scores/market-regime *)

Average(total, count) == IF count = 0 THEN 0 ELSE total \div count

OverallRegime(scores) ==
  LET many(regime) == Cardinality({row \in scores : row.regime = regime})
      count == Cardinality(scores)
      net == Average(SumOf([row \in scores |-> row.net]), count)
      confidence == Average(SumOf([row \in scores |-> row.confidence]), count)
  IN IF count = 0 \/ confidence < 2500 THEN "thin_data"
     ELSE IF \/ 5 * many("conflicted") > count
             \/ 4 * many("bullish") > count /\ 4 * many("bearish") > count THEN "conflicted"
     ELSE IF net >= 1500 \/ 2 * many("bullish") > 3 * many("bearish") THEN "bullish"
     ELSE IF net <= -1500 \/ 2 * many("bearish") > 3 * many("bullish") THEN "bearish"
     ELSE "neutral"

MarketRegime(q) ==
  LET scores == ScoreList(q)
      many(regime) == Cardinality({row \in scores : row.regime = regime})
  IN [sampled |-> Cardinality(scores), regime |-> OverallRegime(scores),
      bullish |-> many("bullish"), bearish |-> many("bearish"), mixed |-> many("conflicted"),
      quiet |-> many("neutral") + many("thin_data")]

-----------------------------------------------------------------------------
(* /api/scores/:coin/timeline and /:coin/evidence *)

(* Deltas are taken between the snapshots that pass the filters. *)
ScoreTimeline(query, coin) ==
  LET q == Filters(query)
      filtered == {s \in SnapshotsOf(q.version, coin) :
                     /\ q.minConfidence > 0 => s.confidence >= q.minConfidence
                     /\ q.since # Null => s.ts >= q.since
                     /\ HasEvidence(EvidenceOf(s), q)}
      page == {s \in filtered : Cardinality({t \in filtered : t.ts >= s.ts}) <= q.limit}
  IN IF ~IsHalal(coin, q) THEN {}
     ELSE {With([recentDelta |-> NetDelta(s, filtered), evidence |-> Summary(EvidenceOf(s))], s) :
             s \in page}

ScoreEvidence(query, coin) ==
  LET q == Filters(query)
      scored(e) == \E s \in snapshots : /\ SnapshotId(s) = e.snapshot
                                        /\ s.confidence >= q.minConfidence
      filtered == {e \in evidence :
                     /\ e.version = q.version
                     /\ e.coin = coin
                     /\ q.since # Null => e.ts >= q.since
                     /\ q.side \in {"bull", "bear"} => e.side = q.side
                     /\ q.side = "net" => e.side \in {"bull", "bear", "risk"}
                     /\ Concerns(e, q)
                     /\ q.minConfidence > 0 => scored(e)}
      key(e) == <<-e.ts, -e.contribution, -e.at>>
  IN IF ~IsHalal(coin, q) THEN {}
     ELSE {e \in filtered :
             Cardinality({d \in filtered : Lower(key(d), key(e))}) < q.limit}

-----------------------------------------------------------------------------
(* Properties *)

Unfiltered ==
  [version |-> None, side |-> "net", minConfidence |-> 0, halal |-> None, exchange |-> None,
   market |-> None, since |-> Null, limit |-> 50]

SideQueries == {[Unfiltered EXCEPT !.side = side] : side \in {"bull", "bear", "net"}}
FilteredQueries ==
  SideQueries \cup {[Unfiltered EXCEPT !.halal = "yes"], [Unfiltered EXCEPT !.market = "spot"],
                    [Unfiltered EXCEPT !.minConfidence = 2500], [Unfiltered EXCEPT !.limit = 1]}

(* The list, the page of a coin, its timeline and the market regime are    *)
(* queries run apart and ranked, filtered and joined each in its way.      *)
(* They show one state: ranks count from one without a gap; a coin has the *)
(* same rank and score on its own page as in the list, and one that has a  *)
(* page is on the list, or the list is full; the movement the list shows   *)
(* of a coin is that of the last step of its timeline; and the market      *)
(* leans to a side only if a coin of the list does.                        *)
ScoreReadsAgree ==
  \A q \in FilteredQueries :
    LET list == ScoreList(q) IN
    /\ {row.rank : row \in list} = 1..Cardinality(list)
    /\ \A coin \in Coins :
         LET listed == {row \in list : row.coin = coin} IN
         listed # ScoreDetail(q, coin) => listed = {} /\ Cardinality(list) = q.limit
    /\ \A row \in list :
         LET timeline == ScoreTimeline(Unfiltered, row.coin)
         IN Latest(timeline).recentDelta = row.recentDelta
    /\ MarketRegime(q).regime = "bullish" => \E row \in list : row.net > 0
    /\ MarketRegime(q).regime = "bearish" => \E row \in list : row.net < 0

=============================================================================
