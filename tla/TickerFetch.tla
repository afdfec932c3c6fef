------------------------------ MODULE TickerFetch ------------------------------
(***************************************************************************)
(* The providers of spot performance (apps/server/src/exchanges/           *)
(* spotPerformance.ts): fetchTickers() and fetchUtcDayTickers() of         *)
(* Binance, Bybit and OKX, request by request, across midnight UTC, and    *)
(* what a response makes of the tickers.  What SpotPerformance caches is   *)
(* fetched here.                                                           *)
(***************************************************************************)
EXTENDS Sequences, FiniteSets, SequencesExt, Collections

CONSTANTS
  Listed,         \* the instruments of an exchange: [name, base, quote, trading]
  LastPrice,      \* per symbol
  DayOpen,        \* per symbol and day
  DayAgo,         \* per symbol: the price 24 hours ago
  Volume(_),      \* of a symbol, in quote
  Place(_),       \* of an exchange or a symbol, for localeCompare()
  DiskSymbols,    \* OKX symbols in the file of the symbol cache
  GeckoPages,     \* OKX symbols at CoinGecko, a sequence of pages
  MaxGeckoPages,  \* 6
  EnoughSnapshots,  \* 250
  BatchSize,        \* 100
  KlineConcurrency, \* 20
  Limits,           \* of a response
  MaxDay, MaxPulls  \* bounds of the model

QuoteAsset == "USDT"

VARIABLES
  day,          \* UTC
  pull,         \* the call under way
  tickers,      \* the answer of the last call: [exchange, kind, status, set, day, short]
  opens,        \* bybitUtcOpenCache: [symbol, day, price]
  pulls

tickerVars == <<day, pull, tickers, opens, pulls>>

-----------------------------------------------------------------------------
(* Tickers *)

Percent(now, before) == ((now - before) * 100) \div before

(* createTicker(): in USDT, with a change of 24 hours that is a number;    *)
(* NoChange is no percentage of the prices here.                           *)
NoChange == 1000000
CreateTicker(x, i, change, utcChange) ==
  IF i.quote # QuoteAsset \/ change = NoChange THEN {}
  ELSE {[exchange |-> x, symbol |-> i.name, lastPrice |-> LastPrice[i.name],
         change |-> change, utcChange |-> utcChange]}

DayChange(i) == IF DayAgo[i.name] = 0 THEN NoChange ELSE Percent(LastPrice[i.name], DayAgo[i.name])
UtcChange(i, d) ==
  IF DayOpen[i.name][d] = 0 THEN NoChange ELSE Percent(LastPrice[i.name], DayOpen[i.name][d])

(* What an exchange lists has a name of its own.  Prices and volumes are   *)
(* numbers, and a response is for one mover at least.                      *)
ASSUME TickerAssumption ==
  /\ MaxDay \in Nat /\ IsFiniteSet(Listed) /\ Limits \subseteq Nat \ {0}
  /\ \A x \in {"binance", "bybit", "okx"} : Place(x) \in Int
  /\ \A s \in DOMAIN LastPrice :
       /\ LastPrice[s] \in Nat /\ DayAgo[s] \in Nat /\ Volume(s) \in Int /\ Place(s) \in Int
       /\ \A d \in 0..MaxDay : DayOpen[s][d] \in Nat
  /\ \A i \in Listed : i.name \in DOMAIN LastPrice
  /\ \A i, j \in Listed : i.name = j.name => i = j
  /\ \A i \in Listed : DayAgo[i.name] # 0 => DayChange(i) # NoChange
  /\ \A i \in Listed, d \in 0..MaxDay : DayOpen[i.name][d] # 0 => UtcChange(i, d) # NoChange

(* Binance sends the change, and trades only some of what it quotes; of    *)
(* Bybit's names the quote is the suffix; OKX has the two prices instead.  *)
GetActive(instruments) ==
  {i \in instruments : i.quote = QuoteAsset /\ "" \notin {i.name, i.base} /\ i.trading}
BinanceTicker(i) ==
  IF i \in GetActive(Listed) THEN CreateTicker("binance", i, DayChange(i), NoChange) ELSE {}
BinanceDayTicker(i, d) ==
  IF i \in GetActive(Listed) THEN CreateTicker("binance", i, UtcChange(i, d), UtcChange(i, d))
  ELSE {}
BybitTicker(i) ==
  IF i.name = "" \/ i.base = "" THEN {} ELSE CreateTicker("bybit", i, DayChange(i), NoChange)
ParseOkxTickerRecord(i, d) ==
  IF "" \in {i.name, i.base, i.quote} THEN {}
  ELSE CreateTicker("okx", i, DayChange(i), UtcChange(i, d))

InstrumentsOf(names) == {i \in Listed : i.name \in names}
Names(instruments) == {i.name : i \in instruments}

-----------------------------------------------------------------------------
(* Calls *)

NoPull == [exchange |-> "none", kind |-> "none", step |-> "none", day |-> 0,
           left |-> {}, asked |-> {}, got |-> {}, page |-> 0, short |-> FALSE]
NoAnswer == [exchange |-> "none", kind |-> "none", status |-> "none", set |-> {}, day |-> 0,
             short |-> FALSE]

TickersInit ==
  /\ day = 0
  /\ pull = NoPull
  /\ tickers = NoAnswer
  /\ opens = {}
  /\ pulls = 0

(* Midnight may fall between any two steps.                                *)
DayPasses ==
  /\ day < MaxDay
  /\ day' = day + 1
  /\ UNCHANGED <<pull, tickers, opens, pulls>>

FetchTickers(x, k) ==
  /\ pull = NoPull
  /\ pulls < MaxPulls
  /\ pulls' = pulls + 1
  /\ pull' = [NoPull EXCEPT !.exchange = x, !.kind = k, !.step = "rest"]
  /\ tickers' = NoAnswer
  /\ UNCHANGED <<day, opens>>

Answers(set) ==
  /\ tickers' = [exchange |-> pull.exchange, kind |-> pull.kind, status |-> "ok", set |-> set,
                 day |-> pull.day, short |-> pull.short]
  /\ pull' = NoPull
Fails ==
  /\ tickers' = [NoAnswer EXCEPT !.exchange = pull.exchange, !.kind = pull.kind, !.status = "error"]
  /\ pull' = NoPull

(* A call for the opens of Bybit first drops those of other days.          *)
KeptOpens == {o \in opens : o.day = day}

(* One request, and for Binance a second one next to it, is all that the   *)
(* tickers of 24 hours take, and those of OKX.                             *)
RestAnswers ==
  /\ pull.step = "rest"
  /\ pull.kind = "rolling" \/ pull.exchange = "okx"
  /\ Answers(UNION {CASE pull.exchange = "binance" -> BinanceTicker(i)
                      [] pull.exchange = "bybit" -> BybitTicker(i)
                      [] pull.exchange = "okx" -> ParseOkxTickerRecord(i, day) : i \in Listed})
  /\ UNCHANGED <<day, opens, pulls>>

(* A body without rows is an answer with none.                             *)
OddRestAnswers ==
  /\ pull.step = "rest"
  /\ tickers' = [NoAnswer EXCEPT !.exchange = pull.exchange, !.kind = pull.kind, !.status = "ok",
                                 !.short = TRUE]
  /\ pull' = NoPull
  /\ opens' = IF pull.exchange = "bybit" /\ pull.kind = "utcDay" THEN KeptOpens ELSE opens
  /\ UNCHANGED <<day, pulls>>

(* Any request that fails fails the call, but OKX then listens to a socket *)
(* and single klines of Bybit may be missing.                              *)
RestFails ==
  /\ \/ pull.step = "rest" /\ pull.exchange # "okx"
     \/ pull.step = "batches"
  /\ Fails
  /\ UNCHANGED <<day, opens, pulls>>

-----------------------------------------------------------------------------
(* Binance, UTC day: the active symbols in batches, all at once.           *)

SymbolsReceived ==
  /\ pull.exchange = "binance" /\ pull.kind = "utcDay" /\ pull.step = "rest"
  /\ pull' = [pull EXCEPT !.step = "batches", !.left = Names(GetActive(Listed))]
  /\ UNCHANGED <<day, tickers, opens, pulls>>

(* Which symbols share a batch is the order of the listing; their day is   *)
(* the one at the exchange.                                                *)
IsBatch(b) ==
  /\ b \in SUBSET pull.left \ {{}}
  /\ Cardinality(b) = BatchSize \/ (b = pull.left /\ Cardinality(b) < BatchSize)
BatchReceived(b, odd) ==
  /\ pull.step = "batches"
  /\ IsBatch(b)
  /\ LET found == UNION {BinanceDayTicker(i, day) : i \in InstrumentsOf(b)}
     IN pull' = [pull EXCEPT !.left = @ \ b, !.got = IF odd THEN @ ELSE @ \cup found,
                             !.short = @ \/ odd]
  /\ UNCHANGED <<day, tickers, opens, pulls>>

BatchesJoined ==
  /\ pull.step = "batches"
  /\ pull.left = {}
  /\ Answers(pull.got)
  /\ UNCHANGED <<day, opens, pulls>>

-----------------------------------------------------------------------------
(* Bybit, UTC day: the tickers, then an open per symbol, kept for the day. *)

OpenOf(s, d) == {o \in opens : o.symbol = s /\ o.day = d}

PricesReceived ==
  /\ pull.exchange = "bybit" /\ pull.kind = "utcDay" /\ pull.step = "rest"
  /\ LET found == UNION {BybitTicker(i) : i \in Listed}
     IN pull' = [pull EXCEPT !.step = "klines", !.day = day, !.got = found,
                             !.left = {t.symbol : t \in found} \ {o.symbol : o \in KeptOpens}]
  /\ opens' = KeptOpens
  /\ UNCHANGED <<day, tickers, pulls>>

(* mapWithConcurrency(): so many at a time.                                *)
KlineAsked(s) ==
  /\ pull.step = "klines"
  /\ s \in pull.left
  /\ Cardinality(pull.asked) < KlineConcurrency
  /\ pull' = [pull EXCEPT !.left = @ \ {s}, !.asked = @ \cup {s}]
  /\ UNCHANGED <<day, tickers, opens, pulls>>

(* The kline of the day, if that is the one that came.                     *)
AnyKline(rowDay, open) == open > 0
DailyOpen(rowDay, open) == rowDay = pull.day /\ open > 0
KlineReceived(s, rowDay) ==
  /\ pull.step = "klines"
  /\ s \in pull.asked
  /\ rowDay \in pull.day..day
  /\ LET open == DayOpen[s][rowDay]
     IN opens' = IF DailyOpen(rowDay, open)
                 THEN opens \cup {[symbol |-> s, day |-> pull.day, price |-> open]} ELSE opens
  /\ pull' = [pull EXCEPT !.asked = @ \ {s}]
  /\ UNCHANGED <<day, tickers, pulls>>

KlineFails(s) ==
  /\ s \in pull.asked
  /\ pull' = [pull EXCEPT !.asked = @ \ {s}]
  /\ UNCHANGED <<day, tickers, opens, pulls>>

Current(t) == OpenOf(t.symbol, pull.day)
KlinesJoined ==
  /\ pull.step = "klines"
  /\ pull.left \cup pull.asked = {}
  /\ Answers(UNION {{[t EXCEPT !.utcChange = Percent(t.lastPrice, o.price)] : o \in Current(t)} :
                      t \in pull.got})
  /\ UNCHANGED <<day, opens, pulls>>

-----------------------------------------------------------------------------
(* OKX without REST: the symbols of the file, if there is one that can be  *)
(* read, or of CoinGecko, and a socket until there are snapshots enough or *)
(* time is up.                                                             *)

OkxSymbols(names) == Names({i \in InstrumentsOf(names) : i.quote = QuoteAsset})
CachedOkxSymbols == Names({i \in InstrumentsOf(DiskSymbols) : i.quote = QuoteAsset /\ i.trading})
Listen(names) ==
  IF names = {} THEN Answers({})
  ELSE /\ pull' = [pull EXCEPT !.step = "snapshots", !.left = names]
       /\ UNCHANGED tickers

OkxRestFails(cached) ==
  /\ pull.exchange = "okx" /\ pull.step = "rest"
  /\ cached \in {{}, CachedOkxSymbols}
  /\ IF cached # {} THEN Listen(cached)
     ELSE pull' = [pull EXCEPT !.step = "coingecko", !.page = 1] /\ UNCHANGED tickers
  /\ UNCHANGED <<day, opens, pulls>>

GeckoPageReceived(odd) ==
  /\ pull.step = "coingecko"
  /\ LET names == IF odd \/ pull.page > Len(GeckoPages) THEN {} ELSE GeckoPages[pull.page]
         found == pull.left \cup OkxSymbols(names)
     IN IF names # {} /\ pull.page < MaxGeckoPages
        THEN pull' = [pull EXCEPT !.page = @ + 1, !.left = found] /\ UNCHANGED tickers
        ELSE Listen(found)
  /\ UNCHANGED <<day, opens, pulls>>

GeckoPageFails ==
  /\ pull.step = "coingecko"
  /\ IF pull.left # {} THEN Listen(pull.left) ELSE Fails
  /\ UNCHANGED <<day, opens, pulls>>

(* The symbols are subscribed to chunk by chunk: some never answer in time.*)
Enough ==
  IF Cardinality(pull.left) < EnoughSnapshots THEN Cardinality(pull.left) ELSE EnoughSnapshots
SnapshotReceived(s) ==
  /\ pull.step = "snapshots"
  /\ s \in pull.left
  /\ LET set == {t \in pull.got : t.symbol # s}
                  \cup UNION {ParseOkxTickerRecord(i, day) : i \in InstrumentsOf({s})}
     IN IF Cardinality(set) >= Enough THEN Answers(set)
        ELSE pull' = [pull EXCEPT !.got = set] /\ UNCHANGED tickers
  /\ UNCHANGED <<day, opens, pulls>>

SnapshotsTimeOut ==
  /\ pull.step = "snapshots"
  /\ Answers(pull.got)
  /\ UNCHANGED <<day, opens, pulls>>

SnapshotSocketFails ==
  /\ pull.step = "snapshots"
  /\ Fails
  /\ UNCHANGED <<day, opens, pulls>>

TickersNext ==
  \/ DayPasses
  \/ \E x \in {"binance", "bybit", "okx"}, k \in {"rolling", "utcDay"} : FetchTickers(x, k)
  \/ RestAnswers \/ OddRestAnswers \/ RestFails \/ SymbolsReceived \/ BatchesJoined
  \/ PricesReceived \/ KlinesJoined \/ GeckoPageFails \/ SnapshotsTimeOut
  \/ SnapshotSocketFails
  \/ \E cached \in SUBSET DiskSymbols : OkxRestFails(cached)
  \/ \E odd \in BOOLEAN :
       GeckoPageReceived(odd) \/ \E b \in SUBSET pull.left : BatchReceived(b, odd)
  \/ \E s \in DOMAIN LastPrice :
       \/ KlineAsked(s) \/ KlineFails(s) \/ SnapshotReceived(s)
       \/ \E d \in 0..MaxDay : KlineReceived(s, d)

TickersSpec == TickersInit /\ [][TickersNext]_tickerVars

-----------------------------------------------------------------------------
(* buildPerformanceResponse(): movers up and down, of 24 hours or of the   *)
(* UTC day, the larger first.                                              *)

Movers(set, by, sign) == {t \in set : t[by] # NoChange /\ sign * t[by] > 0}
TickerKey(t, by, sign) ==
  <<-(sign * t[by]), -Volume(t.symbol), Place(t.exchange), Place(t.symbol)>>
Ranked(set, by, sign) == SortedBy([t \in Movers(set, by, sign) |-> TickerKey(t, by, sign)])
BuildPerformanceResponse(rolling, utcDay, limit) ==
  [gainers |-> FirstOf(Ranked(rolling, "change", 1), limit),
   losers |-> FirstOf(Ranked(rolling, "change", -1), limit),
   liveGainers |-> FirstOf(Ranked(utcDay, "utcChange", 1), limit),
   liveLosers |-> FirstOf(Ranked(utcDay, "utcChange", -1), limit)]

-----------------------------------------------------------------------------
(* Bodies with no rows apart, an answer of Binance or Bybit has every      *)
(* symbol that trades, whatever the batches, and any answer one ticker per *)
(* symbol.  All changes of one answer of Bybit are since the same          *)
(* midnight: the opens kept from the calls before, and klines that come    *)
(* after another midnight, are never among them.  And no mover left out of *)
(* a response beats one that is in it.                                     *)
Moving(x) ==
  {i \in Listed : /\ i.quote = QuoteAsset /\ "" \notin {i.name, i.base}
                  /\ x = "binance" => i.trading
                  /\ DayAgo[i.name] # 0}
OneTicker == \A t, u \in tickers.set : t.symbol = u.symbol => t = u
AllSymbols ==
  tickers.exchange # "okx" /\ ~tickers.short =>
    /\ tickers.kind = "rolling" => {t.symbol : t \in tickers.set} = Names(Moving(tickers.exchange))
    /\ tickers.exchange = "binance" =>
         \A i \in Moving("binance") :
           (\A d \in 0..MaxDay : DayOpen[i.name][d] # 0) => \E t \in tickers.set : t.symbol = i.name
OneMidnight ==
  tickers.exchange = "bybit" /\ tickers.kind = "utcDay" =>
    \A t \in tickers.set : t.utcChange = Percent(t.lastPrice, DayOpen[t.symbol][tickers.day])
Leads(list, set, by, sign, limit) ==
  /\ ToSet(list) \subseteq Movers(set, by, sign)
  /\ \A t \in Movers(set, by, sign) \ ToSet(list) :
       Len(list) = limit /\ \A u \in ToSet(list) : sign * t[by] <= sign * u[by]
FirstMoves ==
  \A limit \in Limits :
    LET response == BuildPerformanceResponse(tickers.set, tickers.set, limit)
    IN /\ Leads(response.gainers, tickers.set, "change", 1, limit)
       /\ Leads(response.losers, tickers.set, "change", -1, limit)
       /\ Leads(response.liveGainers, tickers.set, "utcChange", 1, limit)
       /\ Leads(response.liveLosers, tickers.set, "utcChange", -1, limit)
TickersAreComplete == tickers.status = "ok" => OneTicker /\ AllSymbols /\ OneMidnight
TickersAreWhole == TickersAreComplete /\ (tickers.status = "ok" => FirstMoves)
=============================================================================
