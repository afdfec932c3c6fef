-------------------------------- MODULE MCServer --------------------------------
(***************************************************************************)
(* What surrounds the queue of the server, in one instance: its process,   *)
(* the socket of an endpoint, and a message written row by row.  They      *)
(* share no state, and a behaviour follows one of them, its subject.       *)
(***************************************************************************)
EXTENDS CryptoAttackClient, EventNormalizer, ServerLifecycle

(* A server migrates or replays on start; two feeds, one with two ids. *)
MCFeedOf(id) == IF id = "c" THEN "flows" ELSE "signals"

MCTemplate(chapter, category, filters, says, style, direction, feedKey) ==
  [plainObject |-> TRUE, chapter |-> chapter, category |-> category, filters |-> filters,
   header |-> IF says = {} THEN <<>> ELSE <<<<Plain("says", says)>>>>,
   coins |-> <<>>, style |-> style, direction |-> direction, interval |-> Null,
   options |-> [enableDelistings |-> TRUE, announcementFallback |-> TRUE], feedKey |-> feedKey]
MCList(category, filters, says, style, direction, feedKey) ==
  MCTemplate("cex_alerts", category, filters, says, style, direction, feedKey)
MCPlain(category, says, feedKey) == MCList(category, <<>>, says, "plain", "unknown", feedKey)
MCData(category, filters, says, style, direction, feedKey) ==
  MCTemplate("market_data", category, filters, says, style, direction, feedKey)
MCSignal(category, filters, style, feedKey) ==
  MCTemplate("signals", category, filters, {}, style, "unknown", feedKey)

MCLists ==
  {MCList("all_spot_top", <<"buy", "5_min">>, {"total"}, "two lines", "buy", "all_spot_top_buy_5m"),
   MCList("all_spot_top", <<>>, {"sell", "5m"}, "one line", "sell", "all_spot_top_sell_5m"),
   MCList("all_derivatives_top", <<"5_min">>, {"buy", "5m"}, "ranked", "buy",
          "all_derivatives_top_buy_5m"),
   MCList("all_derivatives_top", <<"sell", "5_min">>, {"buy", "5m"}, "two lines", "sell",
          "all_derivatives_top_sell_5m"),
   MCList("all_spot_per", <<>>, {"total"}, "two lines", "unknown", "all_spot_per"),
   MCList("all_derivatives_per", <<"sell", "5_min">>, {}, "one line", "sell", "all_derivatives_per"),
   MCData("top_oi", <<"60_min">>, {"gainer", "60m"}, "oi", "gainer", "top_oi_gainers_60m"),
   MCData("top_oi", <<"60_min">>, {"loser"}, "ranked", "loser", "top_oi_losers_60m"),
   MCData("etf_crypto", <<>>, {}, "one line", "unknown", "etf_crypto"),
   [MCData("top_funding", <<"4_h">>, {}, "funding", "unknown", "top_funding")
      EXCEPT !.interval = "4_h"],
   [MCTemplate("onchain", "24_all_flows", <<"inflows">>, {"outflow"}, "onchain", "inflow",
               "onchain_24_all_flows") EXCEPT !.interval = "24h"],
   [MCTemplate("onchain", "1_all_flows", <<>>, {"outflow"}, "onchain", "outflow",
               "onchain_1_all_flows") EXCEPT !.interval = "1h"]}
MCAlerts ==
  {MCSignal("pricealerts", <<"binance", "5_min", "change5">>, "price", "pricealerts"),
   MCSignal("pricealerts", <<"binance", "15_min", "change5">>, "price", "none"),
   MCSignal("volalerts", <<"bybit_fut", "change5">>, "volume", "volalerts"),
   MCSignal("volalerts", <<"okx">>, "volume", "none"),
   MCSignal("oi_alerts", <<>>, "oi alert", "oi_alerts"),
   MCList("flows_alert", <<>>, {"delisting"}, "flow", "unknown", "flows_alert"),
   MCList("cex_track", <<>>, {}, "track", "unknown", "cex_track")}
MCOthers ==
  {MCPlain("listings", {}, "listings"), MCPlain("delistings", {}, "delistings"),
   [MCPlain("delistings", {}, "raw_unclassified") EXCEPT !.options.enableDelistings = FALSE],
   [MCPlain("announcement", {"delisting"}, "delistings") EXCEPT !.coins = <<"USDT">>],
   MCPlain("announcement", {"buy"}, "raw_unclassified"),
   [MCPlain("announcement", {"delisting"}, "raw_unclassified")
      EXCEPT !.options.announcementFallback = FALSE],
   MCPlain("all_spot_top", {"buy", "sell", "5m"}, "raw_unclassified"),
   MCData("top_oi", <<"60_min">>, {"gainer", "15m"}, "plain", "gainer", "raw_unclassified"),
   [MCPlain("news", {}, "raw_unclassified") EXCEPT !.plainObject = FALSE]}
MCTemplates == MCLists \cup MCAlerts \cup MCOthers

MCMeans ==
  [f \in {"binance", "bybit_fut", "okx", "4_h"} |-> {}] @@ ("buy" :> {"buy"}) @@ ("sell" :> {"sell"})
    @@ ("5_min" :> {"5m"}) @@ ("15_min" :> {"15m"}) @@ ("60_min" :> {"60m"})
    @@ ("change5" :> {"change"}) @@ ("inflows" :> {"inflow"})
MCRowValues == {[coin |-> "BTC", buy |-> 30, sell |-> 20, vol |-> 90, pct |-> 7],
                [coin |-> "ETH", buy |-> 10, sell |-> 40, vol |-> 60, pct |-> 3],
                [coin |-> "BTC", buy |-> 50, sell |-> 10, vol |-> 80, pct |-> 2]}

VARIABLE subject

Start ==
  /\ subject \in {"process", "socket", "message"}
  /\ Init
  /\ ProcessInit
  /\ subject = "process" => options.migrate # options.replay
  /\ subject # "process" => ~options.migrate /\ ~options.replay
  /\ MessageInit
  /\ subject # "message" => template = CHOOSE t \in Templates : ~t.plainObject

(* A server that migrates replays nothing, and its events are of one time. *)
Step ==
  \/ /\ subject = "process" /\ ProcessNext
     /\ options.migrate => UNCHANGED clock
     /\ UNCHANGED <<vars, messageVars, subject>>
  \/ subject = "socket" /\ Next /\ UNCHANGED <<processVars, messageVars, subject>>
  \/ subject = "message" /\ MessageNext /\ UNCHANGED <<vars, processVars, subject>>

Fair ==
  /\ Start
  /\ [][Step]_<<vars, processVars, messageVars, subject>>
  /\ ProcessFairness
  /\ WF_vars(Refresh) /\ WF_vars(ServerConnected)
=============================================================================
