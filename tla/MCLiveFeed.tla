----------------------------- MODULE MCLiveFeed -----------------------------
(* Values for checking Dashboard.  Events a, b, c are of an alerting feed,  *)
(* and one of a feed without.                                              *)
EXTENDS Dashboard

CONSTANTS a, b, c, quiet
MCFeedOf(id) == IF id = quiet THEN "top_oi" ELSE "listings"
Interchangeable == Permutations({a, b, c} \cap Id)

(* BTC trades on two exchanges, ADA on one; DOGE is of neither class list. *)
MCListedSymbols ==
  {[coin |-> "BTC", market |-> "spot", exchange |-> "binance"],
   [coin |-> "BTC", market |-> "spot", exchange |-> "okx"],
   [coin |-> "ADA", market |-> "perpetual", exchange |-> "bybit"]}
MCCryptoHalal == [x \in {"BTC", "ADA"} |-> IF x = "BTC" THEN "halal" ELSE "haram"]
MCCryptoIslam == [x \in {"BTC"} |-> "halal"]
MCExchanges == <<"binance", "bybit", "okx">>
MCExchangeFilters == {{}, {"okx"}, {"coinbase"}, {"bybit", "okx"}}
MCFeedKeysOf == [x \in {"BTC", "ADA"} |-> IF x = "BTC" THEN {"all_spot_per"} ELSE {"oi_alerts"}]
MCNets == {-1, 2}
MCFilterChoices ==
  {NoFilters, [NoFilters EXCEPT !.classes = {"halal"}], [NoFilters EXCEPT !.exchanges = {"okx"}]}
MCNetsAtMount == [x \in {"BTC", "ADA"} |-> IF x = "BTC" THEN 2 ELSE -1]
MCPageEvents ==
  {[feedKey |-> "pricealerts", coins |-> {"BTC", "ADA"}, entries |-> {}],
   [feedKey |-> "oi_alerts", coins |-> {"ADA", "DOGE"}, entries |->
      {[coin |-> "ADA", exchange |-> "bybit", market |-> "perpetual"],
       [coin |-> "DOGE", exchange |-> "okx", market |-> "none"],
       [coin |-> NoCoin, exchange |-> "none", market |-> "spot"]}]}
=============================================================================
