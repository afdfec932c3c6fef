----------------------------- MODULE ExchangeFeeds -----------------------------
(***************************************************************************)
(* The two caches over the exchanges, and what fills them, in one          *)
(* instance.  They share no state, so a behaviour is about one of them,    *)
(* chosen at the start; a spot socket is one of an exchange that wants     *)
(* subscriptions or of Binance.                                            *)
(***************************************************************************)
EXTENDS SpotPerformance, SymbolCache, ListingFetch, TickerFetch

VARIABLE subject

Init ==
  /\ subject \in {"spot", "symbols", "listing", "tickers"}
  /\ IF subject = "spot" THEN SpotInit ELSE SpotInit /\ ~subscribing
  /\ CacheInit
  /\ IF subject = "listing" THEN ListingInit
     ELSE ListingInit /\ book = CHOOSE b \in Books : TRUE
  /\ TickersInit

Next ==
  \/ subject = "spot" /\ SpotNext /\ UNCHANGED <<cacheVars, listingVars, tickerVars, subject>>
  \/ subject = "symbols" /\ CacheNext /\ UNCHANGED <<spotVars, listingVars, tickerVars, subject>>
  \/ subject = "listing" /\ ListingNext /\ UNCHANGED <<spotVars, cacheVars, tickerVars, subject>>
  \/ subject = "tickers" /\ TickersNext /\ UNCHANGED <<spotVars, cacheVars, listingVars, subject>>

FairSpec ==
  /\ Init
  /\ [][Next]_<<spotVars, cacheVars, listingVars, tickerVars, subject>>
  /\ SpotFairness
  /\ CacheFairness

(* What an exchange answers is taken over whole: every symbol of every page *)
(* of a listing, every ticker of every batch, against one midnight.         *)
AnswersAreWhole == ListingIsWhole /\ TickersAreWhole
=============================================================================
