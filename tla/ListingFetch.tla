----------------------------- MODULE ListingFetch -----------------------------
(***************************************************************************)
(* One fetchSymbols() of one provider of exchange symbols                  *)
(* (apps/server/src/exchanges/providers.ts), request by request: pages,    *)
(* attempts, the CoinGecko fallback of OKX; and what the symbol cache      *)
(* (symbolCache.ts) answers from such an answer.  The version SymbolCache  *)
(* has for a listing is what is fetched here.                              *)
(***************************************************************************)
EXTENDS Sequences, FiniteSets, SequencesExt, Collections

CONSTANTS
  Books,          \* what there is to be fetched: [source, exchange, coingecko], pages of rows
  Queries,        \* of the symbols route
  Upper(_),       \* toUpperCase()
  Position(_),    \* of a text, for localeCompare()
  MaxAttempts,    \* 3
  MaxPages,       \* 10, of CoinGecko
  DefaultLimit    \* of the symbols route

VARIABLES
  book,      \* the element of Books at hand
  fetch,     \* the request under way, and what the ones before found; or NoFetch
  answer,    \* the answer of fetchSymbols()
  faults     \* what went wrong and was accepted: "odd" bodies, a "cut" at a page

listingVars == <<book, fetch, answer, faults>>

-----------------------------------------------------------------------------
(* Providers.  A name is a sequence of texts, "BTC-USDT" of two and        *)
(* "BTCUSDT" of one; <<>> and "" are what a row does not have.             *)

Active == [binance_spot |-> "TRADING", binance_perpetual |-> "TRADING",
           bybit_spot |-> "Trading", bybit_perpetual |-> "Trading",
           okx_spot |-> "live", okx_perpetual |-> "live", coinbase_spot |-> "online"]
Provider == [binance_spot |-> <<"binance", "spot">>,
             binance_perpetual |-> <<"binance", "perpetual">>,
             bybit_spot |-> <<"bybit", "spot">>, bybit_perpetual |-> <<"bybit", "perpetual">>,
             okx_spot |-> <<"okx", "spot">>, okx_perpetual |-> <<"okx", "perpetual">>,
             coinbase_spot |-> <<"coinbase", "spot">>]

CreateSymbol(p, name, base, quote, state, status) ==
  [source |-> p, exchange |-> Provider[p][1], market |-> Provider[p][2],
   symbol |-> [i \in DOMAIN name |-> Upper(name[i])], base |-> Upper(base), quote |-> Upper(quote),
   status |-> status, rawStatus |-> state]

(* One row is one symbol, or none if a part is missing or, for futures,    *)
(* the contract is another one.                                            *)
Symbol(p, row, name, base, quote) ==
  IF name = <<>> \/ "" \in {base, quote} THEN {}
  ELSE {CreateSymbol(p, name, base, quote, row.state,
                     IF row.state = Active[p] /\ ~row.halted THEN "active" ELSE "inactive")}

BinanceSymbol(p, row) ==
  IF p = "binance_perpetual" /\ row.contract # "PERPETUAL" THEN {}
  ELSE Symbol(p, row, row.name, row.base, row.quote)

BybitSymbol(p, row) ==
  IF p = "bybit_perpetual" /\ row.contract # "LinearPerpetual" THEN {}
  ELSE Symbol(p, row, row.name, row.base, row.quote)

(* A swap is named after its family, if need be the one in its own name.   *)
Family(row) ==
  IF row.family # <<>> \/ row.name = <<>> THEN row.family
  ELSE IF Last(row.name) = "SWAP" THEN Front(row.name) ELSE row.name
OkxSwapSymbol(p, row) ==
  IF Len(Family(row)) < 2 THEN {} ELSE Symbol(p, row, row.name, Family(row)[1], Family(row)[2])

ExchangeSymbol(p, row) ==
  CASE p \in {"binance_spot", "binance_perpetual"} -> BinanceSymbol(p, row)
    [] p \in {"bybit_spot", "bybit_perpetual"} -> BybitSymbol(p, row)
    [] p \in {"okx_spot", "coinbase_spot"} -> Symbol(p, row, row.name, row.base, row.quote)
    [] p = "okx_perpetual" -> OkxSwapSymbol(p, row)

(* CoinGecko has no states: what it lists is active.                       *)
GeckoSpotSymbol(p, row) ==
  IF "" \in {row.base, row.quote} THEN {}
  ELSE {CreateSymbol(p, <<row.base, row.quote>>, row.base, row.quote, "coingecko", "active")}
GeckoSwapSymbol(p, row) ==
  IF row.contract # "perpetual" \/ row.name = <<>> \/ "" \in {row.base, row.quote} THEN {}
  ELSE {CreateSymbol(p, row.name, row.base, row.quote, "coingecko", "active")}

Parsed(p, feed, row) ==
  CASE feed = "exchange" -> ExchangeSymbol(p, row)
    [] feed = "coingecko" /\ p = "okx_spot" -> GeckoSpotSymbol(p, row)
    [] feed = "coingecko" /\ p = "okx_perpetual" -> GeckoSwapSymbol(p, row)

(* Only Bybit's futures and the spot pairs of CoinGecko come in pages, the *)
(* last one of CoinGecko before its first empty one.  No text is lost in   *)
(* upper case, and any two can be compared.                                *)
IsSeq(s) == s \in Seq(Range(s))
TextsOf(row) == {row.base, row.quote} \cup Range(row.name) \cup Range(Family(row))
IsPlaced(text) == Position(text) \in Int
ASSUME ListingAssumption ==
  /\ MaxPages \in Nat \ {0} /\ DefaultLimit \in Nat \ {0}
  /\ \A q \in Queries :
       /\ DOMAIN q = {"exchange", "market", "quote", "status", "search", "offset", "limit"}
       /\ q.offset \in Nat /\ q.limit \in Nat
  /\ \A p \in DOMAIN Provider : \A text \in Range(Provider[p]) : IsPlaced(text)
  /\ \A b \in Books :
       /\ b.source \in {"binance_spot", "binance_perpetual", "bybit_spot", "bybit_perpetual",
                        "okx_spot", "okx_perpetual", "coinbase_spot"}
       /\ \A feed \in {"exchange", "coingecko"} :
            /\ IsSeq(b[feed])
            /\ \A n \in DOMAIN b[feed] : IsFiniteSet(b[feed][n])
            /\ \A n \in DOMAIN b[feed] : \A row \in b[feed][n] :
                 /\ IsSeq(row.name) /\ IsSeq(Family(row))
                 /\ \A text \in TextsOf(row) :
                      (text # "" => Upper(text) # "") /\ IsPlaced(Upper(text))
       /\ b.source # "bybit_perpetual" => Len(b.exchange) = 1
       /\ b.source = "okx_spot" => {} \notin Range(b.coingecko)
       /\ b.source = "okx_perpetual" => Len(b.coingecko) = 1

-----------------------------------------------------------------------------
(* Requests *)

NoFetch == [feed |-> "none", page |-> 0, attempt |-> 0, found |-> {}]
NoListing == [status |-> "none", feed |-> "none", symbols |-> {}]

ListingInit ==
  /\ book \in Books
  /\ fetch = NoFetch
  /\ answer = NoListing
  /\ faults = {}

Request(feed, page, found) == [feed |-> feed, page |-> page, attempt |-> 1, found |-> found]
Resolved(found) ==
  /\ answer' = [status |-> "ok", feed |-> fetch.feed, symbols |-> found]
  /\ fetch' = NoFetch
Rejected ==
  /\ answer' = [status |-> "error", feed |-> fetch.feed, symbols |-> {}]
  /\ fetch' = NoFetch

FetchSymbols ==
  /\ fetch = NoFetch
  /\ answer = NoListing
  /\ fetch' = Request("exchange", 1, {})
  /\ UNCHANGED <<book, answer, faults>>

(* After a page: Bybit's futures have a cursor, CoinGecko is asked until a *)
(* page is empty or the last one allowed.                                  *)
Rows == LET pages == book[fetch.feed] IN IF fetch.page <= Len(pages) THEN pages[fetch.page] ELSE {}
FoundAfter == fetch.found \cup UNION {Parsed(book.source, fetch.feed, row) : row \in Rows}
NoMorePages == FALSE
MorePages ==
  IF fetch.feed = "exchange"
  THEN book.source = "bybit_perpetual" /\ fetch.page < Len(book.exchange)
  ELSE book.source = "okx_spot" /\ Rows # {} /\ fetch.page < MaxPages

PageReceived ==
  /\ fetch # NoFetch
  /\ IF MorePages
     THEN fetch' = Request(fetch.feed, fetch.page + 1, FoundAfter) /\ UNCHANGED answer
     ELSE Resolved(FoundAfter)
  /\ UNCHANGED <<book, faults>>

(* An answer that is not what it should be has no rows and no cursor.      *)
OddBodyReceived ==
  /\ fetch # NoFetch
  /\ faults' = faults \cup {"odd"}
  /\ Resolved(fetch.found)
  /\ UNCHANGED book

(* An error status that may pass is tried again.                           *)
RetriedAfter == [fetch EXCEPT !.attempt = @ + 1]
RequestRetried ==
  /\ fetch # NoFetch
  /\ fetch.attempt < MaxAttempts
  /\ fetch' = RetriedAfter
  /\ UNCHANGED <<book, answer, faults>>

(* No answer in time, another status, or the last attempt: OKX goes on     *)
(* with CoinGecko, and CoinGecko's spot pages end there if they have       *)
(* anything.                                                               *)
FallsBack == fetch.feed = "exchange" /\ book.source \in {"okx_spot", "okx_perpetual"}
EndsHere == fetch.feed = "coingecko" /\ book.source = "okx_spot" /\ fetch.found # {}
ListingRequestFails ==
  /\ fetch # NoFetch
  /\ \/ /\ FallsBack
        /\ fetch' = Request("coingecko", 1, {})
        /\ UNCHANGED <<answer, faults>>
     \/ EndsHere /\ Resolved(fetch.found) /\ faults' = faults \cup {"cut"}
     \/ ~FallsBack /\ ~EndsHere /\ Rejected /\ UNCHANGED faults
  /\ UNCHANGED book

ListingNext ==
  \/ FetchSymbols \/ PageReceived \/ OddBodyReceived \/ RequestRetried \/ ListingRequestFails

ListingSpec == ListingInit /\ [][ListingNext]_listingVars

-----------------------------------------------------------------------------
(* What the cache makes of a listing *)

(* sanitizeSourceSnapshot(): of a file, symbols that have all their parts. *)
Sanitized(symbols) ==
  {s \in symbols : /\ s.status \in {"active", "inactive", "unknown"}
                   /\ s.symbol # <<>> /\ "" \notin {s.base, s.quote}}

(* getSymbols(): filtered, sorted, one page of them.  "" filters nothing.  *)
Matches(s, q) ==
  /\ q.exchange \in {"", s.exchange}
  /\ q.market \in {"", s.market}
  /\ Upper(q.quote) \in {"", s.quote}
  /\ q.status \in {"", "all", s.status}
  /\ Upper(q.search) \in {"", s.base, s.quote} \cup Range(s.symbol)

(* compareSymbols(): by exchange, market, base and name.                   *)
SymbolKey(s) ==
  <<Position(s.exchange), Position(s.market), Position(s.base)>>
    \o [i \in DOMAIN s.symbol |-> Position(s.symbol[i])]
SortedSymbols(symbols) == SortedBy([s \in symbols |-> SymbolKey(s)])

GetSymbols(symbols, q) ==
  LET matching == SortedSymbols({s \in symbols : Matches(s, q)})
      limit == IF q.limit = 0 THEN DefaultLimit ELSE q.limit
      last == IF q.offset + limit > Len(matching) THEN Len(matching) ELSE q.offset + limit
  IN [total |-> Len(matching), symbols |-> SubSeq(matching, q.offset + 1, last)]

-----------------------------------------------------------------------------
(* A listing that is reported as fetched has every symbol of every page,   *)
(* and no other: pages, attempts and the fallback lose none.  Less is      *)
(* possible only for bodies without rows, and for OKX behind a refused     *)
(* page of CoinGecko or its last page.  Written to the file and read back  *)
(* it is the same, and the pages of an answer are the whole of it once.    *)
PagesAsked(feed) ==
  IF feed = "coingecko" /\ Len(book[feed]) > MaxPages THEN 1..MaxPages ELSE DOMAIN book[feed]
Whole(feed) ==
  UNION {UNION {Parsed(book.source, feed, row) : row \in book[feed][n]} : n \in PagesAsked(feed)}
ListingIsComplete ==
  answer.status = "ok" =>
    /\ answer.symbols \subseteq Whole(answer.feed)
    /\ faults = {} => answer.symbols = Whole(answer.feed)
    /\ Sanitized(answer.symbols) = answer.symbols
PagesShowTheListing ==
  answer.status = "ok" =>
    \A q \in Queries :
      LET matching == {s \in answer.symbols : Matches(s, q)}
          first == GetSymbols(answer.symbols, q)
          next == GetSymbols(answer.symbols, [q EXCEPT !.offset = @ + Len(first.symbols)])
      IN /\ first.total = Cardinality(matching)
         /\ ToSet(first.symbols) \cap ToSet(next.symbols) = {}
         /\ q.offset = 0 /\ first.total <= 2 * Len(first.symbols) =>
              ToSet(first.symbols) \cup ToSet(next.symbols) = matching
ListingIsWhole == ListingIsComplete /\ PagesShowTheListing
=============================================================================
