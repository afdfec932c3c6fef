----------------------------- MODULE MCMarketData -----------------------------
(* Values for checking MarketData: coin "a" is listed on two markets, coin  *)
(* "b" on one; an entry may also name a market of "b" that no symbol cache  *)
(* lists, such as a pair written the way another exchange does.             *)
EXTENDS MarketData

MCCoinOf(m) == IF m = "a spot" \/ m = "a perpetual" THEN "a" ELSE "b"
MCScoreMarket(c) == IF c = "a" THEN "a spot" ELSE "b spot"
MCListed == <<"a spot", "a perpetual", "b spot">>
MCScored == <<"a">>
=============================================================================
