----------------------------- MODULE MCScoreStore -----------------------------
(* Values for checking the score tables and what is read of them: spot buy  *)
(* and spot sell lists naming "a", a price alert and a listing of "b".      *)
EXTENDS Backtest

SpotList(coin, feed, buy, sell) ==
  EntryRow(coin, feed, [rank |-> 1, buy |-> buy, sell |-> sell, volume24h |-> 8,
                        exchange |-> "binance", market |-> "spot"])

CONSTANTS v1, v2
MCVersions == {v1, v2}
Interchangeable == Permutations(MCVersions)

MCBacklogs ==
  {{}, {[event |-> n, at |-> 0] @@ SpotList("a", "all_spot_top_sell_5m", 5, 6) : n \in 1..3}
         \cup {[event |-> 4, at |-> 0] @@ EventRow("b", "listings", FALSE)}}

MCAlerts ==
  {{SpotList("a", "all_spot_top_buy_5m", 6, 5)},
   {EntryRow("b", "pricealerts", [price |-> 3, exchange |-> "bybit"]),
    EntryRow("a", "pricealerts", [price |-> -3, entry |-> 2])}}
MCAlphabetical == <<"a", "b">>
=============================================================================
