--------------------------- MODULE MCExchangeFeeds ---------------------------
(* Values for checking ExchangeFeeds. *)
EXTENDS ExchangeFeeds

MCSources == <<"a", "b">>

(* Listings: a complete row, and rows without a part, of another contract,  *)
(* halted, or not trading.                                                  *)
MCUpper(t) == IF t = "btc" THEN "BTC" ELSE t
MCAlphabet == <<"", "BTC", "BTCPERP", "BTCUSDT", "ETH", "ETHBTC", "ETHUSDT", "SOL", "SOLUSDT",
                "SWAP", "USDT",
                "binance", "bybit", "coinbase", "okx", "perpetual", "spot">>
MCPosition(t) == CHOOSE i \in DOMAIN MCAlphabet : MCAlphabet[i] = t

MCRow(name, base, quote, state) ==
  [name |-> name, base |-> base, quote |-> quote, state |-> state, family |-> <<>>,
   contract |-> "", halted |-> FALSE]
MCFuture(row, contract) == [row EXCEPT !.contract = contract]
MCBook(source, exchange, coingecko) ==
  [source |-> source, exchange |-> exchange, coingecko |-> coingecko]
MCBinance(state) == MCRow(<<"BTCUSDT">>, "BTC", "USDT", state)
MCOther(state) == MCRow(<<"ETHUSDT">>, "ETH", "USDT", state)
MCSpot(first, state) == MCRow(<<first, "USDT">>, first, "USDT", state)
MCSwap(first, family) ==
  [MCRow(<<first, "USDT", "SWAP">>, "", "", "live") EXCEPT !.family = family]
MCGecko == <<{MCSpot("btc", ""), MCRow(<<>>, "SOL", "", "")},
             {MCSpot("ETH", ""), MCSpot("BTC", "")}, {MCSpot("SOL", "")}>>
MCBooks ==
  {MCBook("binance_spot",
          <<{MCBinance("TRADING"), MCOther("BREAK"), MCRow(<<"SOL">>, "SOL", "", "")}>>, <<>>),
   MCBook("binance_perpetual", <<{MCFuture(MCBinance("TRADING"), "PERPETUAL"),
                                  MCFuture(MCOther("TRADING"), "CURRENT_QUARTER")}>>, <<>>),
   MCBook("bybit_spot", <<{MCBinance("Trading"), MCOther("PreLaunch")}>>, <<>>),
   MCBook("bybit_perpetual",
          <<{MCFuture(MCBinance("Trading"), "LinearPerpetual")},
            {MCFuture(MCOther("Trading"), "LinearFutures")},
            {MCFuture(MCRow(<<"ETHBTC">>, "ETH", "BTC", "Trading"), "LinearPerpetual")}>>, <<>>),
   MCBook("okx_spot", <<{MCSpot("btc", "live"), MCSpot("ETH", "suspend")}>>, MCGecko),
   MCBook("okx_spot", <<{MCSpot("BTC", "live")}>>,
          <<{MCRow(<<>>, "", "USDT", "")}, {MCSpot("ETH", "")}>>),
   MCBook("okx_perpetual", <<{MCSwap("BTC", <<"BTC", "USDT">>), MCSwap("ETH", <<>>),
                              MCRow(<<"SOL">>, "", "", "live")}>>,
          <<{MCFuture(MCSwap("BTC", <<>>), "perpetual"),
             MCFuture(MCRow(<<"ETHUSDT">>, "ETH", "USDT", ""), "perpetual"),
             MCFuture(MCOther(""), "futures")}>>),
   MCBook("coinbase_spot",
          <<{MCSpot("BTC", "online"), [MCSpot("ETH", "online") EXCEPT !.halted = TRUE]}>>, <<>>)}
MCQuery == [exchange |-> "", market |-> "", quote |-> "", status |-> "", search |-> "",
            offset |-> 0, limit |-> 0]
MCQueries == {MCQuery, [MCQuery EXCEPT !.search = "btc"], [MCQuery EXCEPT !.status = "active"],
              [MCQuery EXCEPT !.market = "perpetual", !.limit = 1], [MCQuery EXCEPT !.quote = "USDT"]}

(* Tickers: two symbols that trade in USDT, one that does not trade, and    *)
(* one in another quote.                                                    *)
MCListed ==
  {[name |-> "BTCUSDT", base |-> "BTC", quote |-> "USDT", trading |-> TRUE],
   [name |-> "ETHUSDT", base |-> "ETH", quote |-> "USDT", trading |-> TRUE],
   [name |-> "SOLUSDT", base |-> "SOL", quote |-> "USDT", trading |-> FALSE],
   [name |-> "ETHBTC", base |-> "ETH", quote |-> "BTC", trading |-> TRUE]}
MCLastPrice == [BTCUSDT |-> 4, ETHUSDT |-> 1, SOLUSDT |-> 2, ETHBTC |-> 1]
MCDayAgo == [BTCUSDT |-> 2, ETHUSDT |-> 2, SOLUSDT |-> 0, ETHBTC |-> 1]
MCDayOpen == [s \in DOMAIN MCLastPrice |->
                [d \in 0..1 |-> CASE s = "SOLUSDT" -> 0 [] s = "BTCUSDT" -> 2 + d
                                  [] OTHER -> 1 + d]]
MCVolume(s) == MCLastPrice[s]
MCGeckoPages == <<{"ETHBTC"}, {"BTCUSDT"}, {"ETHUSDT"}>>
MCDiskSymbols == {"BTCUSDT", "SOLUSDT", "ETHBTC"}
=============================================================================
