------------------------------ MODULE PageFilters ------------------------------
(***************************************************************************)
(* The filters of the dashboard (apps/web/src): by classification          *)
(* (coinClassification.ts), and by exchange and market                     *)
(* (exchangeFilters.ts, components/ExchangeChips.tsx), applied to the      *)
(* events of App.tsx and to the scores of ScoresPage.tsx.  A filter is a   *)
(* set, an empty one hides nothing; names are those normalized.            *)
(***************************************************************************)
EXTENDS Naturals, Sequences, SequencesExt, FiniteSetsExt

CONSTANTS
  CryptoHalal, CryptoIslam,   \* the two sources, each a coin's class; others are unknown
  ListedSymbols,  \* the active symbols the server answered: [coin, market, exchange]
  PageEvents      \* events a page may show: [feedKey, coins, entries]

Markets == {"spot", "perpetual"}
ExchangeOrder == <<"binance", "bybit", "okx", "coinbase">>

ASSUME PageEventAssumption ==
  \A event \in PageEvents :
    event = [feedKey |-> event.feedKey, coins |-> event.coins, entries |-> event.entries]

-----------------------------------------------------------------------------
(* Classification *)

Classification(source, coin) == IF coin \in DOMAIN source THEN source[coin] ELSE "unknown"

MatchesMode(classes, mode) ==
  CASE mode = "halal" -> "halal" \in classes /\ {"haram", "doubtful"} \cap classes = {}
    [] mode = "either_halal" -> "halal" \in classes
    [] mode = "haram" -> "haram" \in classes
    [] mode = "unchecked" -> classes = {"unknown"}
MatchesCoinClassificationFilter(coin, filter) ==
  LET classes == {Classification(CryptoHalal, coin), Classification(CryptoIslam, coin)}
  IN filter = {} \/ \E mode \in filter : MatchesMode(classes, mode)

-----------------------------------------------------------------------------
(* Listings *)

(* buildExchangeAvailability(): of each coin and market, where it trades.  *)
Chips(coin, market) ==
  {s.exchange : s \in {x \in ListedSymbols : x.coin = coin /\ x.market = market}}
    \cap ToSet(ExchangeOrder)
CoinExchangeChips(coin, market) ==
  LET listed == SelectSeq(ExchangeOrder, LAMBDA x : x \in Chips(coin, market))
  IN IF listed = <<>> THEN {} ELSE {listed[1]}

MarketFilterAllows(market, filter) == filter = {} \/ market \in filter
MatchesExchangeFilterByExchange(exchange, filter) == filter = {} \/ exchange \in filter
MatchesExchangeFilterByCoin(coin, market, filter) ==
  IF filter = {} THEN Chips(coin, market) # {} ELSE Chips(coin, market) \cap filter # {}

-----------------------------------------------------------------------------
(* Events *)

NoCoin == "none"
BothMarkets == {"pricealerts", "volalerts"}
Perpetuals == {"all_derivatives_per", "all_derivatives_top_buy_5m", "all_derivatives_top_sell_5m",
               "top_oi_gainers_60m", "top_oi_losers_60m", "oi_alerts", "top_funding"}
Spots == {"all_spot_per", "all_spot_top_buy_5m", "all_spot_top_sell_5m"}
CandidateMarkets(feedKey, marketFilter) ==
  IF feedKey \in BothMarkets THEN IF marketFilter = {} THEN Markets ELSE marketFilter
  ELSE IF feedKey \in Perpetuals THEN {"perpetual"} ELSE {"spot"}

(* A venue may name its market: "Bybit Futures", "Binance Spot".           *)
MatchesEntryMarket(entry, candidates) ==
  IF entry.market \in Markets THEN entry.market \in candidates ELSE candidates # {}

EntryMatches(entry, candidates, exchangeFilter) ==
  \/ /\ MatchesExchangeFilterByExchange(entry.exchange, exchangeFilter)
     /\ MatchesEntryMarket(entry, candidates)
  \/ \E market \in candidates : MatchesExchangeFilterByCoin(entry.coin, market, exchangeFilter)

(* With entries, an event is what is left of them; without, its coins are. *)
NoEvent == [feedKey |-> "none", coins |-> {}, entries |-> {}]
FilterEventByExchange(event, exchangeFilter, marketFilter) ==
  LET candidates == CandidateMarkets(event.feedKey, marketFilter)
      entries == {e \in event.entries : EntryMatches(e, candidates, exchangeFilter)}
      coins == IF event.entries # {} THEN {e.coin : e \in entries} \ {NoCoin}
               ELSE {c \in event.coins : \E market \in candidates :
                       MatchesExchangeFilterByCoin(c, market, exchangeFilter)}
  IN IF exchangeFilter \cup marketFilter = {} THEN event
     ELSE IF IF event.entries # {} THEN entries = {} ELSE coins = {} THEN NoEvent
     ELSE [event EXCEPT !.entries = entries, !.coins = coins]

-----------------------------------------------------------------------------
(* Scores *)

(* Its evidence says for which markets a score speaks, else its listings.  *)
MarketsOfFeed(feedKey) ==
  CASE feedKey \in BothMarkets -> Markets
    [] feedKey \in Perpetuals -> {"perpetual"}
    [] feedKey \in Spots -> {"spot"}
    [] OTHER -> {}
ScoreMarketKeys(score) ==
  LET inferred == UNION {MarketsOfFeed(f) : f \in score.feedKeys}
      listed == {market \in Markets : Chips(score.coin, market) # {}}
  IN IF inferred # {} THEN inferred ELSE IF "spot" \in listed THEN {"spot"} ELSE listed
ScoreExchangeChips(score) ==
  UNION {CoinExchangeChips(score.coin, market) : market \in ScoreMarketKeys(score)}

ScoreVisible(score, classFilter, exchangeFilter, marketFilter) ==
  /\ MatchesCoinClassificationFilter(score.coin, classFilter)
  /\ \/ exchangeFilter = {} \/ ScoreExchangeChips(score) = {}
     \/ ScoreExchangeChips(score) \cap exchangeFilter # {}
  /\ \/ marketFilter = {} \/ ScoreMarketKeys(score) = {}
     \/ ScoreMarketKeys(score) \cap marketFilter # {}

-----------------------------------------------------------------------------
(* An event shows no entry under a filter that it lacks without one, each  *)
(* of an exchange chosen or listed there, and a filter of more exchanges   *)
(* never hides what one of fewer shows.                                    *)
FiltersHideTheRest(event, fewer, more, marketFilter) ==
  LET few == FilterEventByExchange(event, fewer, marketFilter)
      many == FilterEventByExchange(event, more, marketFilter)
  IN fewer # {} /\ fewer \subseteq more =>
       /\ many.entries \subseteq event.entries
       /\ \A e \in many.entries :
            e.exchange \in more \/ \E m \in Markets : Chips(e.coin, m) \cap more # {}
       /\ few.coins \subseteq many.coins
       /\ few.entries \subseteq many.entries
=============================================================================
