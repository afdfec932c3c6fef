------------------------- MODULE ExchangeFeedsProofs --------------------------
(***************************************************************************)
(* Proofs about the four modules of the exchanges, each about its own      *)
(* specification: SymbolCache for any number of providers, listings,       *)
(* crashes and refusals; ListingFetch for any pages; SpotPerformance for   *)
(* any symbols, losses and failures; TickerFetch for any instruments,      *)
(* prices, batches and days.                                               *)
(***************************************************************************)
EXTENDS ExchangeFeeds, CollectionLemmas, TLAPS

(* SymbolCache *)

Entry == [status : {"idle", "ok", "error"}, symbols : Nat]
Files == [state : {"none", "torn", "whole"}, sources : [Source -> Entry]]

CacheTypes ==
  /\ process \in {"down", "loaded", "up", "stopped"}
  /\ listing \in [Source -> Nat]
  /\ answers \in [Source -> Seq(Nat)]
  /\ sources \in [Source -> Entry]
  /\ refresh \in [phase : {"none", "fetch", "write", "writing", "rename"}, next : Nat]
  /\ dailyTimer \in {"none", "armed", "fired"}
  /\ {file, tmpFile} \subseteq Files

(* What a cache has, in memory or on disk, a provider answered.            *)
NothingIsMadeUp ==
  \A s \in Source : /\ sources[s].symbols <= Len(answers[s])
                    /\ file.sources[s].symbols <= Len(answers[s])

(* While a process runs, its memory is no older than the file.             *)
FileIsBehind ==
  /\ file.state # "torn"
  /\ process # "down" => \A s \in Source : sources[s].symbols >= file.sources[s].symbols

(* No refresh outlives its process, nor begins before start().             *)
RefreshesAreOfTheProcess ==
  process \in {"down", "loaded"} => refresh = NoRefresh /\ dailyTimer = "none"

(* What takes the place of the file is complete, and what memory has.      *)
ReadyToRename == refresh.phase = "rename" => tmpFile = Saved(sources)

CacheInv ==
  /\ CacheTypes /\ NothingIsMadeUp /\ RefreshesAreOfTheProcess /\ ReadyToRename
  /\ file.state = "none" => file = NoFile
  /\ FileIsBehind

-----------------------------------------------------------------------------
LEMMA Disk ==
  /\ Empty \in [Source -> Entry]
  /\ NoFile \in Files /\ NoFile.state = "none" /\ NoFile.sources = Empty
  /\ Torn \in Files
  /\ \A written \in [Source -> Entry] :
       /\ Saved(written) \in Files
       /\ Saved(written).state = "whole" /\ Saved(written).sources = written
BY DEF Empty, EmptySource, Entry, Files, NoFile, Torn, Saved

LEMMA InitCacheInv == CacheInit => CacheInv
<1> SUFFICES ASSUME CacheInit PROVE CacheInv
  OBVIOUS
<1>1. CacheTypes
  BY Disk DEF CacheInit, CacheTypes, NoRefresh
<1>2. NothingIsMadeUp /\ FileIsBehind
  BY Disk DEF CacheInit, NothingIsMadeUp, FileIsBehind, Empty, EmptySource
<1> QED
  BY <1>1, <1>2 DEF CacheInit, CacheInv, RefreshesAreOfTheProcess, ReadyToRename, NoRefresh

(* A provider dealt with: what its source has now is no older than before. *)
LEMMA FetchGoesOn ==
  ASSUME CacheInv, refresh.phase = "fetch", refresh' = AfterProvider,
         UNCHANGED <<process, listing, dailyTimer, file, tmpFile>>,
         answers' \in [Source -> Seq(Nat)], sources' \in [Source -> Entry],
         \A s \in Source : /\ Len(answers'[s]) >= Len(answers[s])
                           /\ sources'[s].symbols >= sources[s].symbols
                           /\ sources'[s].symbols <= Len(answers'[s])
  PROVE  CacheInv'
<1> USE DEF CacheInv
<1>1. /\ refresh' \in [phase : {"none", "fetch", "write", "writing", "rename"}, next : Nat]
      /\ refresh'.phase # "rename"
      /\ process \notin {"down", "loaded"}
  BY DEF AfterProvider, Fetching, CacheTypes, RefreshesAreOfTheProcess, NoRefresh
<1>2. \A s \in Source : /\ sources[s].symbols \in Nat /\ sources'[s].symbols \in Nat
                        /\ file.sources[s].symbols \in Nat
                        /\ Len(answers[s]) \in Nat /\ Len(answers'[s]) \in Nat
  BY DEF CacheTypes, Files, Entry
<1>3. CacheTypes'
  BY <1>1 DEF CacheTypes
<1>4. NothingIsMadeUp'
  BY <1>2 DEF NothingIsMadeUp
<1>5. FileIsBehind'
  BY <1>2 DEF FileIsBehind
<1> QED
  BY <1>1, <1>3, <1>4, <1>5 DEF RefreshesAreOfTheProcess, ReadyToRename

LEMMA StepCacheInv == CacheInv /\ [CacheNext]_cacheVars => CacheInv'
<1> SUFFICES ASSUME CacheInv, [CacheNext]_cacheVars PROVE CacheInv'
  OBVIOUS
<1> USE DEF CacheInv
<1>1. ASSUME NEW s \in Source, ListingChanges(s) PROVE CacheInv'
  <2>1. listing' \in [Source -> Nat]
    BY <1>1 DEF ListingChanges, CacheTypes
  <2>2. NothingIsMadeUp'
    BY <1>1 DEF ListingChanges, NothingIsMadeUp
  <2> QED
    BY <1>1, <2>1, <2>2 DEF ListingChanges, CacheTypes, RefreshesAreOfTheProcess, ReadyToRename,
                            FileIsBehind, NoRefresh, Saved
<1>2. CASE LoadFromDisk
  <2>1. sources' = file.sources
    BY <1>2, Disk DEF LoadFromDisk, FileIsBehind, CacheTypes, Files
  <2>2. /\ sources' \in [Source -> Entry]
        /\ \A s \in Source : file.sources[s].symbols \in Nat
    BY <2>1 DEF CacheTypes, Files, Entry
  <2> QED
    BY <1>2, <2>1, <2>2 DEF LoadFromDisk, CacheTypes, NothingIsMadeUp, RefreshesAreOfTheProcess,
                            ReadyToRename, FileIsBehind, NoRefresh
<1>3. CASE StartCache
  BY <1>3 DEF StartCache, Joined, Fetching, CacheTypes, NothingIsMadeUp, RefreshesAreOfTheProcess,
              ReadyToRename, FileIsBehind, NoRefresh
<1>4. CASE TimerFires
  BY <1>4 DEF TimerFires, Joined, Fetching, CacheTypes, NothingIsMadeUp, RefreshesAreOfTheProcess,
              ReadyToRename, FileIsBehind, NoRefresh
<1>5. CASE RefreshAsked
  BY <1>5 DEF RefreshAsked, Joined, Fetching, CacheTypes, NothingIsMadeUp, RefreshesAreOfTheProcess,
              ReadyToRename, FileIsBehind, NoRefresh
<1>6. ASSUME NEW told, refresh.next \in Source => told \in Nat, Stored(told)
      PROVE  CacheInv'
  <2> DEFINE p == refresh.next
             record == Recorded(answers[p], told)
  <2>1. /\ answers' = [answers EXCEPT ![p] = record]
        /\ sources' = [sources EXCEPT ![p] = [status |-> "ok", symbols |-> Len(answers'[p])]]
    BY <1>6 DEF Stored
  <2>2. ASSUME p \in Source
        PROVE  record \in Seq(Nat) /\ Len(record) >= Len(answers[p])
    BY <1>6, <2>2 DEF Recorded, CacheTypes
  <2>3. ASSUME NEW s \in Source
        PROVE  /\ answers'[s] \in Seq(Nat) /\ Len(answers'[s]) >= Len(answers[s])
               /\ sources'[s] = IF s = p THEN [status |-> "ok", symbols |-> Len(answers'[s])]
                                ELSE sources[s]
    <3>1. CASE s = p
      <4>1. answers'[s] = record
        BY <2>1, <3>1 DEF CacheTypes
      <4>2. sources'[s] = [status |-> "ok", symbols |-> Len(answers'[s])]
        <5> HIDE DEF record
        <5> QED
          BY <2>1, <3>1 DEF CacheTypes
      <4> QED
        BY <2>2, <3>1, <4>1, <4>2
    <3>2. CASE s # p
      <4>1. answers'[s] = answers[s] /\ sources'[s] = sources[s]
        BY <2>1, <3>2 DEF CacheTypes
      <4> QED
        BY <3>2, <4>1 DEF CacheTypes
    <3> QED
      BY <3>1, <3>2
  <2>4. ASSUME NEW s \in Source
        PROVE  /\ sources'[s] \in Entry
               /\ sources'[s].symbols >= sources[s].symbols
               /\ sources'[s].symbols <= Len(answers'[s])
    <3>1. /\ Len(answers[s]) \in Nat /\ Len(answers'[s]) \in Nat
          /\ sources[s] \in Entry /\ sources[s].symbols \in Nat
          /\ sources[s].symbols <= Len(answers[s])
      BY <2>3 DEF CacheTypes, Entry, NothingIsMadeUp
    <3>2. CASE s = p
      <4>1. sources'[s] = [status |-> "ok", symbols |-> Len(answers'[s])]
        BY <2>3, <3>2
      <4> QED
        BY <2>3, <3>1, <4>1 DEF Entry
    <3>3. CASE s # p
      <4>1. sources'[s] = sources[s]
        BY <2>3, <3>3
      <4>2. Len(answers'[s]) >= Len(answers[s])
        BY <2>3
      <4> QED
        BY <3>1, <4>1, <4>2
    <3> QED
      BY <3>2, <3>3
  <2>6. answers' \in [Source -> Seq(Nat)] /\ sources' \in [Source -> Entry]
    <3>1. /\ answers' = [s \in Source |-> answers'[s]]
          /\ sources' = [s \in Source |-> sources'[s]]
      BY <2>1 DEF CacheTypes
    <3> QED
      BY <2>3, <2>4, <3>1
  <2>5. refresh.phase = "fetch" /\ refresh' = AfterProvider
        /\ UNCHANGED <<process, listing, dailyTimer, file, tmpFile>>
    BY <1>6 DEF Stored
  <2> QED
    BY <2>3, <2>4, <2>5, <2>6, FetchGoesOn
<1>14. CASE Fetched \/ FetchedShort
  <2>1. CASE FetchedShort
    BY <1>6, <2>1 DEF FetchedShort, Short
  <2>2. CASE Fetched
    <3>1. refresh.next \in Source => listing[refresh.next] \in Nat
      BY DEF CacheTypes
    <3> QED
      BY <1>6, <2>2, <3>1 DEF Fetched
  <2> QED
    BY <1>14, <2>1, <2>2
<1>15. CASE ProviderFails
  <2>1. /\ sources' \in [Source -> Entry]
        /\ \A s \in Source : sources'[s].symbols = sources[s].symbols
    BY <1>15 DEF ProviderFails, Kept, CacheTypes, Entry
  <2>2. refresh.phase = "fetch" /\ refresh' = AfterProvider
        /\ UNCHANGED <<process, listing, answers, dailyTimer, file, tmpFile>>
    BY <1>15 DEF ProviderFails
  <2>3. \A s \in Source : sources[s].symbols \in Nat /\ Len(answers[s]) \in Nat
    BY DEF CacheTypes, Entry
  <2>4. answers' \in [Source -> Seq(Nat)]
    BY <2>2 DEF CacheTypes
  <2>5. \A s \in Source : /\ Len(answers'[s]) >= Len(answers[s])
                          /\ sources'[s].symbols >= sources[s].symbols
                          /\ sources'[s].symbols <= Len(answers'[s])
    BY <2>1, <2>2, <2>3 DEF NothingIsMadeUp
  <2> QED
    BY <2>1, <2>2, <2>4, <2>5, FetchGoesOn
<1>7. CASE WriteBegins
  BY <1>7, Disk DEF WriteBegins, CacheTypes, NothingIsMadeUp, RefreshesAreOfTheProcess,
                    ReadyToRename, FileIsBehind, NoRefresh
<1>8. CASE WriteEnds
  <2>1. Saved(sources) \in Files
    BY Disk DEF CacheTypes
  <2>2. /\ refresh' \in [phase : {"none", "fetch", "write", "writing", "rename"}, next : Nat]
        /\ tmpFile' \in Files /\ ReadyToRename'
    BY <1>8, <2>1 DEF WriteEnds, CacheTypes, ReadyToRename
  <2>3. UNCHANGED <<process, listing, answers, sources, dailyTimer, file>>
    BY <1>8 DEF WriteEnds
  <2>4. process \notin {"down", "loaded"}
    BY <1>8 DEF WriteEnds, RefreshesAreOfTheProcess, NoRefresh
  <2> QED
    BY <2>2, <2>3, <2>4 DEF CacheTypes, NothingIsMadeUp, RefreshesAreOfTheProcess, FileIsBehind
<1>9. CASE Renamed
  <2>1. tmpFile = Saved(sources) /\ process \notin {"down", "loaded"}
    BY <1>9 DEF Renamed, ReadyToRename, RefreshesAreOfTheProcess, NoRefresh
  <2>2. file' \in Files /\ file'.state = "whole" /\ file'.sources = sources
    BY <1>9, <2>1, Disk DEF Renamed, CacheTypes
  <2>3. \A s \in Source : sources[s].symbols \in Nat
    BY DEF CacheTypes, Entry
  <2> QED
    BY <1>9, <2>1, <2>2, <2>3, Disk DEF Renamed, Rearmed, CacheTypes, NothingIsMadeUp,
       RefreshesAreOfTheProcess, ReadyToRename, FileIsBehind, NoRefresh
<1>10. CASE PersistFails
  BY <1>10 DEF PersistFails, Rearmed, CacheTypes, NothingIsMadeUp, RefreshesAreOfTheProcess,
               ReadyToRename, FileIsBehind, NoRefresh
<1>11. CASE StopCache
  BY <1>11 DEF StopCache, CacheTypes, NothingIsMadeUp, RefreshesAreOfTheProcess, ReadyToRename,
               FileIsBehind, NoRefresh
<1>12. CASE ProcessEnds
  <2>1. \A s \in Source : Empty[s].symbols = 0 /\ listing[s] \in Nat
    BY DEF Empty, EmptySource, CacheTypes
  <2> QED
    BY <1>12, <2>1, Disk DEF ProcessEnds, CacheTypes, NothingIsMadeUp, RefreshesAreOfTheProcess,
       ReadyToRename, FileIsBehind, NoRefresh
<1>13. CASE UNCHANGED cacheVars
  BY <1>13 DEF cacheVars, CacheTypes, NothingIsMadeUp, RefreshesAreOfTheProcess, ReadyToRename,
               FileIsBehind
<1> QED
  BY <1>1, <1>2, <1>3, <1>4, <1>5, <1>6, <1>7, <1>8, <1>9, <1>10, <1>11, <1>12, <1>13,
     <1>14, <1>15
  DEF CacheNext

(* A step takes what is written to a file that parses and goes back for no *)
(* source, and what is served is no older than it: only a rename changes   *)
(* the file, and what it renames is the memory.                            *)
LEMMA FileGoesOn ==
  ASSUME CacheInv, CacheInv', CacheNext
  PROVE  \A s \in Source : file'.sources[s].symbols >= file.sources[s].symbols
<1>1. \A s \in Source : file.sources[s].symbols \in Nat
  BY DEF CacheInv, CacheTypes, Files, Entry
<1>2. CASE Renamed
  <2>1. file' = Saved(sources) /\ process \notin {"down", "loaded"}
    BY <1>2 DEF Renamed, CacheInv, ReadyToRename, RefreshesAreOfTheProcess, NoRefresh
  <2>2. file'.sources = sources
    BY <2>1, Disk DEF CacheInv, CacheTypes
  <2> QED
    BY <2>1, <2>2 DEF CacheInv, FileIsBehind
<1>3. CASE UNCHANGED file
  BY <1>1, <1>3
<1>4. Renamed \/ UNCHANGED file
  BY DEF CacheNext, ListingChanges, LoadFromDisk, StartCache, TimerFires, RefreshAsked, Fetched,
         FetchedShort, Stored, ProviderFails, WriteBegins, WriteEnds, PersistFails, StopCache,
         ProcessEnds
<1> QED
  BY <1>2, <1>3, <1>4

(* What a provider answered survives other providers that fail, disks that *)
(* fail and a process that ends in the middle of a write (persist(),       *)
(* loadFromDisk()): only a later answer of that provider replaces it, and  *)
(* what is served is never older than the file.                            *)
THEOREM ListingsSurvive == CacheSpec => ListingsAreNeverLost
<1>1. ASSUME CacheInv, CacheInv', [CacheNext]_cacheVars
      PROVE  [/\ file'.state # "torn"
              /\ \A s \in Source :
                   /\ file'.sources[s].symbols >= file.sources[s].symbols
                   /\ process' # "down" => sources'[s].symbols >= file'.sources[s].symbols
             ]_cacheVars
  <2>1. CASE CacheNext
    BY <1>1, <2>1, FileGoesOn DEF CacheInv, FileIsBehind
  <2> QED
    BY <1>1, <2>1
<1> QED
  BY InitCacheInv, StepCacheInv, <1>1, PTL DEF CacheSpec, ListingsAreNeverLost

-----------------------------------------------------------------------------
(* ListingFetch                                                          *)

(* The pages before the one that is asked for are in what was found.       *)
PagesBefore == {n \in PagesAsked(fetch.feed) : n < fetch.page}
FoundOn(feed, n) == UNION {Parsed(book.source, feed, row) : row \in book[feed][n]}
HasFeed(feed) ==
  /\ feed \in {"exchange", "coingecko"}
  /\ feed = "coingecko" => book.source \in {"okx_spot", "okx_perpetual"}
Asking ==
  /\ fetch.feed \in {"exchange", "coingecko"}
  /\ fetch.page \in Nat \ {0}
  /\ fetch.feed = "exchange" /\ book.source # "bybit_perpetual" => fetch.page = 1
  /\ fetch.feed = "coingecko" => /\ book.source \in {"okx_spot", "okx_perpetual"}
                                 /\ book.source = "okx_perpetual" => fetch.page = 1
                                 /\ fetch.page <= MaxPages
  /\ fetch.found = UNION {FoundOn(fetch.feed, n) : n \in PagesBefore}
ListingInv ==
  /\ book \in Books
  /\ fetch # NoFetch => Asking
  /\ answer.status = "ok" => HasFeed(answer.feed)
  /\ ListingIsComplete

-----------------------------------------------------------------------------
LEMMA Sequence ==
  ASSUME NEW s, IsSeq(s)
  PROVE  Len(s) \in Nat /\ DOMAIN s = 1..Len(s) /\ (s # <<>> => 1 \in DOMAIN s)
BY DEF IsSeq

LEMMA BookPages ==
  ASSUME book \in Books, NEW feed \in {"exchange", "coingecko"}
  PROVE  /\ Len(book[feed]) \in Nat
         /\ DOMAIN book[feed] = 1..Len(book[feed])
         /\ PagesAsked(feed) \subseteq DOMAIN book[feed]
         /\ feed = "exchange" => PagesAsked(feed) = DOMAIN book[feed]
         /\ Whole(feed) = UNION {FoundOn(feed, n) : n \in PagesAsked(feed)}
<1>1. Len(book[feed]) \in Nat /\ DOMAIN book[feed] = 1..Len(book[feed])
  BY ListingAssumption, Sequence
<1>2. MaxPages \in Nat
  BY ListingAssumption
<1>3. /\ PagesAsked(feed) \subseteq DOMAIN book[feed]
      /\ feed = "exchange" => PagesAsked(feed) = DOMAIN book[feed]
  BY <1>1, <1>2 DEF PagesAsked
<1>4. Whole(feed) = UNION {FoundOn(feed, n) : n \in PagesAsked(feed)}
  BY DEF Whole, FoundOn
<1> QED
  BY <1>1, <1>3, <1>4

(* What is parsed has all its parts, and those it is sorted by a place.    *)
HasItsParts(s) ==
  /\ s.status \in {"active", "inactive"}
  /\ s.symbol # <<>> /\ s.base # "" /\ s.quote # ""
  /\ SymbolKey(s) \in Seq(Int)

LEMMA KeyOfSymbol ==
  ASSUME NEW s, IsPlaced(s.exchange), IsPlaced(s.market), IsPlaced(s.base),
         NEW n \in Nat, DOMAIN s.symbol = 1..n, \A i \in 1..n : IsPlaced(s.symbol[i])
  PROVE  SymbolKey(s) \in Seq(Int)
<1> DEFINE first == <<Position(s.exchange), Position(s.market), Position(s.base)>>
           rest == [i \in DOMAIN s.symbol |-> Position(s.symbol[i])]
<1>1. first \in Seq(Int)
  BY DEF IsPlaced
<1>2. rest \in Seq(Int)
  BY DEF IsPlaced
<1>3. first \o rest \in Seq(Int)
  <2> HIDE DEF first, rest
  <2> QED
    BY <1>1, <1>2, ConcatProperties
<1> QED
  BY <1>3 DEF SymbolKey

LEMMA PlacedProviders ==
  ASSUME NEW p \in DOMAIN Provider
  PROVE  IsPlaced(Provider[p][1]) /\ IsPlaced(Provider[p][2])
<1>1. \A text \in Range(Provider[p]) : IsPlaced(text)
  BY ListingAssumption
<1>2. Provider[p][1] \in Range(Provider[p]) /\ Provider[p][2] \in Range(Provider[p])
  BY DEF Provider, Range
<1> QED
  BY <1>1, <1>2

LEMMA ParsedHasItsParts ==
  ASSUME book \in Books, NEW feed \in {"exchange", "coingecko"}, NEW n \in DOMAIN book[feed],
         NEW row \in book[feed][n],
         feed = "coingecko" => book.source \in {"okx_spot", "okx_perpetual"},
         NEW s \in Parsed(book.source, feed, row)
  PROVE  HasItsParts(s)
<1> DEFINE p == book.source
           Uppered(t) == (t # "" => Upper(t) # "") /\ IsPlaced(Upper(t))
<1>1. /\ p \in {"binance_spot", "binance_perpetual", "bybit_spot", "bybit_perpetual",
                 "okx_spot", "okx_perpetual", "coinbase_spot"}
      /\ IsSeq(row.name) /\ IsSeq(Family(row))
      /\ \A text \in TextsOf(row) : Uppered(text)
  BY ListingAssumption
<1>2. ASSUME NEW name, NEW m \in Nat, DOMAIN name = 1..m, 1 \in DOMAIN name,
             \A i \in DOMAIN name : Uppered(name[i]),
             NEW base, NEW quote, base # "", quote # "",
             Uppered(base), Uppered(quote), NEW state, NEW status \in {"active", "inactive"},
             s = CreateSymbol(p, name, base, quote, state, status)
      PROVE  HasItsParts(s)
  <2>1. /\ s.status = status /\ s.base = Upper(base) /\ s.quote = Upper(quote)
        /\ s.exchange = Provider[p][1] /\ s.market = Provider[p][2]
        /\ s.symbol = [i \in DOMAIN name |-> Upper(name[i])]
    BY <1>2 DEF CreateSymbol
  <2>2. 1 \in DOMAIN s.symbol
    BY <1>2, <2>1
  <2>3. s.symbol # <<>>
    BY <2>2
  <2>4. p \in DOMAIN Provider
    BY <1>1 DEF Provider
  <2>5. IsPlaced(s.exchange) /\ IsPlaced(s.market)
    BY <2>1, <2>4, PlacedProviders
  <2>6. IsPlaced(s.base) /\ DOMAIN s.symbol = 1..m /\ \A i \in 1..m : IsPlaced(s.symbol[i])
    BY <1>2, <2>1
  <2>7. SymbolKey(s) \in Seq(Int)
    BY <2>5, <2>6, KeyOfSymbol
  <2> QED
    BY <1>2, <2>1, <2>3, <2>7 DEF HasItsParts
<1>3. /\ Uppered(row.base) /\ Uppered(row.quote)
      /\ \A i \in DOMAIN row.name : Uppered(row.name[i])
      /\ \A i \in DOMAIN Family(row) : Uppered(Family(row)[i])
  BY <1>1 DEF TextsOf, Range
<1> HIDE DEF Uppered
<1>4. ASSUME NEW base, NEW quote, Uppered(base), Uppered(quote),
             s \in Symbol(p, row, row.name, base, quote)
      PROVE  HasItsParts(s)
  <2> DEFINE status == IF row.state = Active[p] /\ ~row.halted THEN "active" ELSE "inactive"
  <2>1. /\ row.name # <<>> /\ base # "" /\ quote # ""
        /\ s = CreateSymbol(p, row.name, base, quote, row.state, status)
    BY <1>4 DEF Symbol
  <2>2. 1 \in DOMAIN row.name /\ Len(row.name) \in Nat /\ DOMAIN row.name = 1..Len(row.name)
    BY <1>1, <2>1, Sequence
  <2>3. status \in {"active", "inactive"}
    OBVIOUS
  <2> HIDE DEF status
  <2> QED
    BY <1>2, <1>3, <1>4, <2>1, <2>2, <2>3
<1>5. CASE feed = "exchange" /\ p # "okx_perpetual"
  <2>1. s \in Symbol(p, row, row.name, row.base, row.quote)
    BY <1>1, <1>5 DEF Parsed, ExchangeSymbol, BinanceSymbol, BybitSymbol
  <2> QED
    BY <1>3, <1>4, <2>1
<1>6. CASE feed = "exchange" /\ p = "okx_perpetual"
  <2>1. /\ ~(Len(Family(row)) < 2)
        /\ s \in Symbol(p, row, row.name, Family(row)[1], Family(row)[2])
    BY <1>6 DEF Parsed, ExchangeSymbol, OkxSwapSymbol
  <2>2. 1 \in DOMAIN Family(row) /\ 2 \in DOMAIN Family(row)
    BY <1>1, <2>1, Sequence
  <2> QED
    BY <1>3, <1>4, <2>1, <2>2
<1>7. CASE feed = "coingecko" /\ p = "okx_spot"
  <2> DEFINE name == <<row.base, row.quote>>
  <2>1. /\ row.base # "" /\ row.quote # ""
        /\ s = CreateSymbol(p, name, row.base, row.quote, "coingecko", "active")
    BY <1>7 DEF Parsed, GeckoSpotSymbol
  <2>2. 1 \in DOMAIN name /\ DOMAIN name = 1..2 /\ \A i \in DOMAIN name : Uppered(name[i])
    BY <1>3
  <2> HIDE DEF name
  <2> QED
    BY <1>2, <1>3, <2>1, <2>2
<1>8. CASE feed = "coingecko" /\ p = "okx_perpetual"
  <2>1. /\ row.base # "" /\ row.quote # "" /\ row.name # <<>>
        /\ s = CreateSymbol(p, row.name, row.base, row.quote, "coingecko", "active")
    BY <1>8 DEF Parsed, GeckoSwapSymbol
  <2>2. 1 \in DOMAIN row.name /\ Len(row.name) \in Nat /\ DOMAIN row.name = 1..Len(row.name)
    BY <1>1, <2>1, Sequence
  <2> QED
    BY <1>2, <1>3, <2>1, <2>2
<1> QED
  BY <1>1, <1>5, <1>6, <1>7, <1>8

(* A row is one symbol or none, and a listing has finitely many rows.      *)
LEMMA OneOrNone ==
  ASSUME NEW T, \A x, y \in T : x = y
  PROVE  IsFiniteSet(T)
<1>1. T = {} \/ \E x : T = {x}
  OBVIOUS
<1> QED
  BY <1>1, FS_EmptySet, FS_Singleton

LEMMA ParsedIsFinite ==
  ASSUME NEW p, NEW feed, NEW row, feed \in {"exchange", "coingecko"},
         p \in {"binance_spot", "binance_perpetual", "bybit_spot", "bybit_perpetual",
                "okx_spot", "okx_perpetual", "coinbase_spot"},
         feed = "coingecko" => p \in {"okx_spot", "okx_perpetual"}
  PROVE  IsFiniteSet(Parsed(p, feed, row))
<1>1. \A name, base, quote : \A x, y \in Symbol(p, row, name, base, quote) : x = y
  BY DEF Symbol
<1>2. CASE feed = "exchange" /\ p # "okx_perpetual"
  <2>1. Parsed(p, feed, row) = {} \/ Parsed(p, feed, row) = Symbol(p, row, row.name, row.base, row.quote)
    BY <1>2 DEF Parsed, ExchangeSymbol, BinanceSymbol, BybitSymbol
  <2> QED
    BY <1>1, <2>1, OneOrNone, FS_EmptySet
<1>3. CASE feed = "exchange" /\ p = "okx_perpetual"
  <2>1. \/ Parsed(p, feed, row) = {}
        \/ Parsed(p, feed, row) = Symbol(p, row, row.name, Family(row)[1], Family(row)[2])
    BY <1>3 DEF Parsed, ExchangeSymbol, OkxSwapSymbol
  <2> QED
    BY <1>1, <2>1, OneOrNone, FS_EmptySet
<1>4. CASE feed = "coingecko"
  <2>1. Parsed(p, feed, row) \in {GeckoSpotSymbol(p, row), GeckoSwapSymbol(p, row)}
    BY <1>4 DEF Parsed
  <2>2. /\ \A x, y \in GeckoSpotSymbol(p, row) : x = y
        /\ \A x, y \in GeckoSwapSymbol(p, row) : x = y
    BY DEF GeckoSpotSymbol, GeckoSwapSymbol
  <2> QED
    BY <2>1, <2>2, OneOrNone
<1> QED
  BY <1>2, <1>3, <1>4

LEMMA WholeListing ==
  ASSUME book \in Books, NEW feed, HasFeed(feed)
  PROVE  IsFiniteSet(Whole(feed)) /\ \A s \in Whole(feed) : HasItsParts(s)
<1> USE DEF HasFeed
<1>1. /\ Len(book[feed]) \in Nat /\ PagesAsked(feed) \subseteq 1..Len(book[feed])
      /\ DOMAIN book[feed] = 1..Len(book[feed])
      /\ Whole(feed) = UNION {FoundOn(feed, n) : n \in PagesAsked(feed)}
  BY BookPages
<1>2. ASSUME NEW n \in PagesAsked(feed) PROVE IsFiniteSet(FoundOn(feed, n))
  <2> DEFINE rows == book[feed][n]
             found == [row \in rows |-> Parsed(book.source, feed, row)]
  <2>1. IsFiniteSet(rows)
    BY <1>1, ListingAssumption
  <2>2. \A row \in rows : IsFiniteSet(Parsed(book.source, feed, row))
    <3>1. book.source \in {"binance_spot", "binance_perpetual", "bybit_spot", "bybit_perpetual",
                           "okx_spot", "okx_perpetual", "coinbase_spot"}
      BY ListingAssumption
    <3> QED
      BY <3>1, ParsedIsFinite
  <2>3. \A row \in rows : IsFiniteSet(found[row])
    BY <2>2
  <2>4. FoundOn(feed, n) = UNION {found[row] : row \in rows}
    BY DEF FoundOn
  <2> HIDE DEF found, rows
  <2> QED
    BY <2>1, <2>3, <2>4, FiniteUnion
<1>3. IsFiniteSet(Whole(feed))
  <2> DEFINE found == [n \in PagesAsked(feed) |-> FoundOn(feed, n)]
  <2>1. IsFiniteSet(PagesAsked(feed))
    BY <1>1, PartOfInterval
  <2>2. \A n \in PagesAsked(feed) : IsFiniteSet(found[n])
    BY <1>2
  <2>3. Whole(feed) = UNION {found[n] : n \in PagesAsked(feed)}
    BY <1>1
  <2> HIDE DEF found
  <2> QED
    BY <2>1, <2>2, <2>3, FiniteUnion
<1>4. ASSUME NEW s \in Whole(feed) PROVE HasItsParts(s)
  <2>1. PICK n \in PagesAsked(feed) : s \in FoundOn(feed, n)
    BY <1>1
  <2>2. n \in DOMAIN book[feed]
    BY <1>1
  <2> QED
    BY <2>1, <2>2, ParsedHasItsParts DEF FoundOn
<1> QED
  BY <1>3, <1>4

(* A page that came in.                                                    *)
LEMMA PageFound ==
  ASSUME ListingInv, fetch # NoFetch
  PROVE  /\ FoundAfter = UNION {FoundOn(fetch.feed, n) :
                               n \in {m \in PagesAsked(fetch.feed) : m < fetch.page + 1}}
         /\ ~MorePages => FoundAfter = Whole(fetch.feed)
<1> DEFINE feed == fetch.feed
           page == fetch.page
           Asked == PagesAsked(feed)
<1>1. /\ feed \in {"exchange", "coingecko"} /\ page \in Nat \ {0} /\ MaxPages \in Nat \ {0}
      /\ fetch.found = UNION {FoundOn(feed, n) : n \in {m \in Asked : m < page}}
  BY ListingAssumption DEF ListingInv, Asking, PagesBefore
<1>2. /\ Len(book[feed]) \in Nat /\ DOMAIN book[feed] = 1..Len(book[feed])
      /\ Asked \subseteq 1..Len(book[feed])
      /\ Whole(feed) = UNION {FoundOn(feed, n) : n \in Asked}
  BY <1>1, BookPages DEF ListingInv
<1>3. page \in 1..Len(book[feed]) => page \in Asked
  <2>1. feed = "coingecko" => page <= MaxPages
    BY DEF ListingInv, Asking
  <2> QED
    BY <1>1, <1>2, <2>1 DEF PagesAsked
<1>4. Rows = IF page \in Asked THEN book[feed][page] ELSE {}
  BY <1>1, <1>2, <1>3 DEF Rows
<1>5. FoundAfter = fetch.found \cup (IF page \in Asked THEN FoundOn(feed, page) ELSE {})
  BY <1>4 DEF FoundAfter, FoundOn
<1>6. {m \in Asked : m < page + 1} =
        {m \in Asked : m < page} \cup (IF page \in Asked THEN {page} ELSE {})
  BY <1>1, <1>2
<1>7. FoundAfter = UNION {FoundOn(feed, n) : n \in {m \in Asked : m < page + 1}}
  <2> HIDE DEF Asked, page, feed
  <2> QED
    BY <1>1, <1>5, <1>6
<1>8. ASSUME ~MorePages PROVE Asked \subseteq {m \in Asked : m < page + 1}
  <2>1. CASE feed = "exchange"
    <3>1. book.source # "bybit_perpetual" \/ page >= Len(book[feed])
      BY <1>1, <1>2, <1>8, <2>1 DEF MorePages
    <3>2. book.source # "bybit_perpetual" => Len(book[feed]) = 1
      BY <2>1, ListingAssumption DEF ListingInv
    <3>3. \A m \in Asked : m \in Nat /\ m <= Len(book[feed])
      BY <1>2
    <3>4. Len(book[feed]) <= page
      <4>1. Len(book[feed]) = 1 \/ page >= Len(book[feed])
        BY <2>1, <3>1, <3>2
      <4>2. Len(book[feed]) \in Nat /\ page \in Nat /\ page >= 1
        BY <1>1, <1>2
      <4> HIDE DEF page, feed
      <4> QED
        BY <4>1, <4>2
    <3> HIDE DEF Asked, page, feed
    <3> QED
      BY <1>1, <1>2, <3>3, <3>4
  <2>2. CASE feed = "coingecko" /\ book.source = "okx_perpetual"
    <3>1. Len(book[feed]) = 1
      BY <2>2, ListingAssumption DEF ListingInv
    <3> QED
      BY <1>1, <1>2, <3>1
  <2>3. CASE feed = "coingecko" /\ book.source = "okx_spot"
    <3>1. Rows = {} \/ page >= MaxPages
      BY <1>1, <1>8, <2>3 DEF MorePages
    <3>2. CASE Rows = {}
      <4>1. page \notin Asked
        BY <1>2, <1>4, <2>3, <3>2, ListingAssumption DEF ListingInv, Range
      <4> QED
        BY <1>1, <1>2, <1>3, <4>1
    <3>3. CASE page >= MaxPages
      BY <1>1, <1>2, <2>3, <3>3 DEF PagesAsked
    <3> QED
      BY <3>1, <3>2, <3>3
  <2> QED
    BY <1>1, <2>1, <2>2, <2>3 DEF ListingInv, Asking
<1> QED
  BY <1>2, <1>7, <1>8

(* The call ends with what was found.                                      *)
LEMMA ListingResolved ==
  ASSUME ListingInv, fetch # NoFetch, NEW found, found \subseteq Whole(fetch.feed), Resolved(found),
         faults' = {} => found = Whole(fetch.feed), UNCHANGED book
  PROVE  ListingInv'
<1>1. /\ answer'.status = "ok" /\ answer'.symbols = found /\ answer'.feed = fetch.feed
      /\ fetch' = NoFetch
  BY DEF Resolved
<1>3. Whole(answer.feed)' = Whole(fetch.feed)
  BY <1>1 DEF Whole, PagesAsked
<1>2. HasFeed(fetch.feed) /\ book \in Books
  BY DEF ListingInv, Asking, HasFeed
<1>4. \A s \in found : HasItsParts(s)
  BY <1>2, WholeListing
<1>5. Sanitized(found) = found
  BY <1>4 DEF Sanitized, HasItsParts
<1>6. Sanitized(answer.symbols)' = Sanitized(found)
  BY <1>1 DEF Sanitized
<1> QED
  BY <1>1, <1>2, <1>3, <1>5, <1>6 DEF ListingInv, ListingIsComplete, HasFeed

LEMMA InitListingInv == ListingInit => ListingInv
BY DEF ListingInit, ListingInv, ListingIsComplete, NoListing

LEMMA PagesAllowed == MaxPages \in Nat \ {0}
BY ListingAssumption

LEMMA StepListingInv == ListingInv /\ [ListingNext]_listingVars => ListingInv'
<1> SUFFICES ASSUME ListingInv, [ListingNext]_listingVars PROVE ListingInv'
  OBVIOUS
<1>1. CASE FetchSymbols
  <2>1. /\ fetch'.feed = "exchange" /\ fetch'.page = 1 /\ fetch'.found = {}
        /\ UNCHANGED <<book, answer, faults>>
    BY <1>1 DEF FetchSymbols, Request
  <2>2. PagesAsked("exchange") = 1..Len(book["exchange"]) /\ Len(book["exchange"]) \in Nat
    BY BookPages DEF ListingInv
  <2>3. PagesBefore' = {n \in PagesAsked("exchange") : n < 1}
    BY <2>1 DEF PagesBefore, PagesAsked
  <2>4. PagesBefore' = {}
    BY <2>2, <2>3
  <2> QED
    BY <2>1, <2>4 DEF ListingInv, HasFeed, Asking, ListingIsComplete, Whole, PagesAsked
<1>2. CASE PageReceived
  <2>1. CASE MorePages
    <3>1. /\ fetch'.feed = fetch.feed /\ fetch'.page = fetch.page + 1 /\ fetch'.found = FoundAfter
          /\ UNCHANGED <<book, answer, faults>>
      BY <1>2, <2>1 DEF PageReceived, Request
    <3>2. fetch'.found = UNION {FoundOn(fetch.feed, n) : n \in PagesBefore}'
      BY <1>2, <3>1, PageFound DEF PageReceived, FoundOn, PagesBefore, PagesAsked
    <3>3. /\ fetch.feed \in {"exchange", "coingecko"} /\ fetch.page \in Nat \ {0}
          /\ fetch.feed = "exchange" => book.source = "bybit_perpetual"
          /\ fetch.feed = "coingecko" => book.source = "okx_spot" /\ fetch.page < MaxPages
      BY <1>2, <2>1 DEF PageReceived, ListingInv, Asking, MorePages
    <3>4. fetch'.page \in Nat \ {0} /\ (fetch.feed = "coingecko" => fetch'.page <= MaxPages)
      BY <3>1, <3>3, PagesAllowed
    <3>5. Asking'
      BY <3>1, <3>2, <3>3, <3>4 DEF Asking
    <3> QED
      BY <3>1, <3>5 DEF ListingInv, HasFeed, ListingIsComplete, Whole, PagesAsked
  <2>2. CASE ~MorePages
    BY <1>2, <2>2, PageFound, ListingResolved DEF PageReceived
  <2> QED
    BY <2>1, <2>2
<1>3. ASSUME fetch # NoFetch
      PROVE  fetch.found \subseteq Whole(fetch.feed)
  BY <1>3, BookPages DEF ListingInv, Asking, PagesBefore
<1>4. CASE OddBodyReceived
  BY <1>3, <1>4, ListingResolved DEF OddBodyReceived
<1>5. CASE RequestRetried
  <2>1. /\ fetch'.feed = fetch.feed /\ fetch'.page = fetch.page /\ fetch'.found = fetch.found
        /\ fetch # NoFetch /\ UNCHANGED <<book, answer, faults>>
    BY <1>5 DEF RequestRetried, RetriedAfter
  <2> QED
    BY <2>1 DEF ListingInv, HasFeed, Asking, PagesBefore, FoundOn, ListingIsComplete, Whole,
                PagesAsked
<1>6. CASE ListingRequestFails
  <2>1. CASE FallsBack /\ fetch' = Request("coingecko", 1, {}) /\ UNCHANGED <<answer, faults, book>>
    <3>1. /\ fetch'.feed = "coingecko" /\ fetch'.page = 1 /\ fetch'.found = {}
          /\ book.source \in {"okx_spot", "okx_perpetual"}
      BY <2>1 DEF Request, FallsBack
    <3>2. PagesAsked("coingecko") \subseteq Nat \ {0}
      BY BookPages DEF ListingInv
    <3>3. PagesBefore' = {n \in PagesAsked("coingecko") : n < 1}
      BY <2>1, <3>1 DEF PagesBefore, PagesAsked
    <3>4. PagesBefore' = {}
      BY <3>2, <3>3
    <3>5. 1 <= MaxPages
      BY PagesAllowed
    <3>6. Asking'
      BY <2>1, <3>1, <3>4, <3>5 DEF Asking
    <3> QED
      BY <2>1, <3>6 DEF ListingInv, HasFeed, ListingIsComplete, Whole, PagesAsked
  <2>2. CASE Resolved(fetch.found) /\ faults' = faults \cup {"cut"} /\ UNCHANGED book
    BY <1>3, <1>6, <2>2, ListingResolved DEF ListingRequestFails
  <2>3. CASE Rejected /\ UNCHANGED book
    BY <2>3 DEF Rejected, ListingInv, ListingIsComplete
  <2> QED
    BY <1>6, <2>1, <2>2, <2>3 DEF ListingRequestFails
<1>7. CASE UNCHANGED listingVars
  BY <1>7 DEF listingVars, ListingInv, HasFeed, Asking, PagesBefore, FoundOn, PagesAsked,
              ListingIsComplete, Whole
<1> QED
  BY <1>1, <1>2, <1>4, <1>5, <1>6, <1>7 DEF ListingNext

(* What is reported as fetched has every symbol of every page, and no      *)
(* other, whatever attempts and pages failed: less is possible only for a  *)
(* body without rows and for OKX behind a page CoinGecko refused.  Read    *)
(* back from the file, it is the same (sanitizeSourceSnapshot()).          *)
THEOREM ListingsAreWhole == ListingSpec => []ListingIsComplete
<1>1. ListingInv => ListingIsComplete
  BY DEF ListingInv
<1> QED
  BY InitListingInv, StepListingInv, <1>1, PTL DEF ListingSpec

(* Any page of a sorted listing and the one after it.                      *)
LEMMA TwoPages ==
  ASSUME NEW symbols, IsFiniteSet(symbols), \A s \in symbols : SymbolKey(s) \in Seq(Int),
         NEW q \in Queries
  PROVE  LET matching == {s \in symbols : Matches(s, q)}
             first == GetSymbols(symbols, q)
             next == GetSymbols(symbols, [q EXCEPT !.offset = @ + Len(first.symbols)])
         IN /\ first.total = Cardinality(matching)
            /\ ToSet(first.symbols) \cap ToSet(next.symbols) = {}
            /\ q.offset = 0 /\ first.total <= 2 * Len(first.symbols) =>
                 ToSet(first.symbols) \cup ToSet(next.symbols) = matching
<1> DEFINE matching == {s \in symbols : Matches(s, q)}
           list == SortedSymbols(matching)
           size == Cardinality(matching)
           limit == IF q.limit = 0 THEN DefaultLimit ELSE q.limit
           last == IF q.offset + limit > size THEN size ELSE q.offset + limit
           first == SubSeq(list, q.offset + 1, last)
           q2 == [q EXCEPT !.offset = @ + Len(first)]
           last2 == IF q2.offset + limit > size THEN size ELSE q2.offset + limit
           next == SubSeq(list, q2.offset + 1, last2)
<1>1. /\ size \in Nat /\ list \in Seq(matching) /\ Len(list) = size /\ DOMAIN list = 1..size
      /\ \A s \in matching : \E i \in 1..size : list[i] = s
      /\ \A i \in 1..size : list[i] \in matching
      /\ \A i, j \in 1..size : list[i] = list[j] => i = j
  <2> DEFINE key == [s \in matching |-> SymbolKey(s)]
  <2>1. IsFiniteSet(matching) /\ HasKeys(key, matching)
    BY FS_Subset DEF HasKeys
  <2>2. list = SortedBy(key)
    BY DEF SortedSymbols
  <2> HIDE DEF key, list, matching
  <2> QED
    BY <2>1, <2>2, SortedList
<1>2. /\ q.offset \in Nat /\ limit \in Nat /\ limit > 0
      /\ q2.offset = q.offset + Len(first) /\ q2.limit = q.limit
      /\ \A s : Matches(s, q2) <=> Matches(s, q)
  <2>1. /\ DOMAIN q = {"exchange", "market", "quote", "status", "search", "offset", "limit"}
        /\ q.offset \in Nat /\ q.limit \in Nat /\ DefaultLimit \in Nat \ {0}
    BY ListingAssumption
  <2>2. /\ q2.offset = q.offset + Len(first) /\ q2.limit = q.limit /\ q2.exchange = q.exchange
        /\ q2.market = q.market /\ q2.quote = q.quote /\ q2.status = q.status
        /\ q2.search = q.search
    <3> HIDE DEF first
    <3> QED
      BY <2>1
  <2> HIDE DEF q2
  <2>3. \A s : Matches(s, q2) <=> Matches(s, q)
    BY <2>2 DEF Matches
  <2> QED
    BY <2>1, <2>2, <2>3
<1>3. /\ GetSymbols(symbols, q).total = size /\ GetSymbols(symbols, q).symbols = first
      /\ GetSymbols(symbols, q2).symbols = next
  <2>1. {s \in symbols : Matches(s, q2)} = matching
    BY <1>2
  <2>2. Len(list) = size
    BY <1>1
  <2>3. /\ GetSymbols(symbols, q).total = Len(list)
        /\ GetSymbols(symbols, q).symbols =
             SubSeq(list, q.offset + 1,
                    IF q.offset + limit > Len(list) THEN Len(list) ELSE q.offset + limit)
    BY DEF GetSymbols
  <2>4. GetSymbols(symbols, q2).symbols =
          SubSeq(list, q2.offset + 1,
                 IF q2.offset + limit > Len(list) THEN Len(list) ELSE q2.offset + limit)
    <3> HIDE DEF q2, list, matching
    <3> QED
      BY <1>2, <2>1 DEF GetSymbols, list
  <2> HIDE DEF q2, list
  <2> QED
    BY <2>2, <2>3, <2>4
<1> HIDE DEF list, matching, size, limit, q2
<1> SUFFICES /\ ToSet(first) \cap ToSet(next) = {}
             /\ q.offset = 0 /\ size <= 2 * Len(first) => ToSet(first) \cup ToSet(next) = matching
  BY <1>3 DEF q2, size, matching
<1>4. CASE q.offset > size
  <2>1. /\ last < q.offset + 1
        /\ q.offset \in Int
        /\ last \in Int
    BY <1>1, <1>2, <1>4
  <2>2. first = <<>>
    <3> HIDE DEF last
    <3> QED
      BY <2>1, SubSeqEmpty
  <2>3. ToSet(first) = {}
    <3> HIDE DEF first
    <3> QED
      BY <2>2 DEF ToSet
  <2>4. q.offset # 0
    BY <1>1, <1>4
  <2> QED
    BY <2>3, <2>4
<1>5. CASE q.offset <= size
  <2>1. /\ last \in Nat /\ q.offset <= last /\ last <= size
    BY <1>1, <1>2, <1>5
  <2>2. /\ Len(first) = last - q.offset
        /\ ToSet(first) = PartFrom(list, q.offset, last)
    <3>1. first = SubSeq(list, q.offset + 1, last)
      OBVIOUS
    <3>2. /\ list \in Seq(matching) /\ q.offset \in Nat /\ last \in Nat /\ q.offset <= last
          /\ last <= Len(list)
      BY <1>1, <1>2, <2>1
    <3> HIDE DEF last, first
    <3>3. Len(first) = last - q.offset /\ Range(first) = PartFrom(list, q.offset, last)
      BY <3>1, <3>2, PartOfList
    <3> QED
      BY <3>3 DEF ToSet, Range
  <2>3. q2.offset = last
    <3> HIDE DEF last, first
    <3> QED
      BY <1>2, <2>1, <2>2
  <2>4. last2 \in Nat /\ last <= last2 /\ last2 <= size
    <3> HIDE DEF last, first, next
    <3> QED
      BY <1>1, <1>2, <2>1, <2>3
  <2>5. ToSet(next) = PartFrom(list, last, last2)
    <3>1. next = SubSeq(list, last + 1, last2)
      BY <2>3
    <3> HIDE DEF last, last2, first, next
    <3>2. list \in Seq(matching) /\ last \in Nat /\ last2 \in Nat /\ last2 <= Len(list)
      BY <1>1, <2>1, <2>4
    <3>3. Range(next) = PartFrom(list, last, last2)
      BY <2>4, <3>1, <3>2, PartOfList
    <3> QED
      BY <3>3 DEF ToSet, Range
  <2>6. ToSet(first) \cap ToSet(next) = {}
    <3>1. \A i \in (q.offset + 1)..last, j \in (last + 1)..last2 :
            i \in 1..size /\ j \in 1..size /\ i # j
      <4> HIDE DEF last, last2, first, next
      <4> QED
        BY <1>1, <1>2, <2>1, <2>4
    <3> HIDE DEF last, last2, first, next
    <3> QED
      BY <1>1, <2>2, <2>5, <3>1 DEF PartFrom
  <2>7. ASSUME q.offset = 0, size <= 2 * Len(first)
        PROVE  ToSet(first) \cup ToSet(next) = matching
    <3>1. last = size \/ (last = limit /\ last2 = size)
      <4>1. Len(first) = last
        <5> HIDE DEF last, last2, first, next
        <5> QED
          BY <2>1, <2>2, <2>7
      <4>2. size <= last + last
        <5> HIDE DEF last, last2, first, next
        <5> QED
          BY <1>1, <2>1, <2>7, <4>1
      <4>3. q2.offset = last
        BY <2>3
      <4> HIDE DEF first, next
      <4> QED
        BY <1>1, <1>2, <2>7, <4>2, <4>3
    <3>2. last2 = size \/ last = size
      BY <3>1
    <3>3. /\ \A i \in 1..size : i \in (q.offset + 1)..last \/ i \in (last + 1)..last2
          /\ \A i \in (q.offset + 1)..last : i \in 1..size
          /\ \A i \in (last + 1)..last2 : i \in 1..size
      <4> HIDE DEF last, last2, first, next
      <4> QED
        BY <1>1, <2>1, <2>4, <2>7, <3>2
    <3> HIDE DEF last, last2, first, next
    <3> QED
      BY <1>1, <2>2, <2>5, <3>3 DEF PartFrom
  <2> QED
    BY <2>6, <2>7
<1>6. q.offset \in Nat /\ size \in Nat
  <2> HIDE DEF last, last2, first, next
  <2> QED
    BY <1>1, <1>2
<1>7. q.offset > size \/ q.offset <= size
  <2> HIDE DEF last, last2, first, next
  <2> QED
    BY <1>6
<1> HIDE DEF last, last2, first, next
<1> QED
  BY <1>4, <1>5, <1>7

(* Of a listing, whatever was asked of it: the total is what matches, and  *)
(* no symbol is on two pages or on none (getSymbols(), compareSymbols()).  *)
LEMMA ListingIsShown == ListingInv => PagesShowTheListing
<1> SUFFICES ASSUME ListingInv, answer.status = "ok" PROVE PagesShowTheListing
  BY DEF PagesShowTheListing
<1>1. IsFiniteSet(Whole(answer.feed)) /\ \A s \in Whole(answer.feed) : HasItsParts(s)
  BY WholeListing DEF ListingInv
<1>2. answer.symbols \subseteq Whole(answer.feed)
  BY DEF ListingInv, ListingIsComplete
<1>3. IsFiniteSet(answer.symbols) /\ \A s \in answer.symbols : SymbolKey(s) \in Seq(Int)
  BY <1>1, <1>2, FS_Subset DEF HasItsParts
<1> QED
  BY <1>3, TwoPages DEF PagesShowTheListing

-----------------------------------------------------------------------------
(* SpotPerformance                                                       *)

(* After stop() a call of primeAndConnect() that awaited REST connects     *)
(* nothing, and the close event that stop() causes arms no timer.          *)
THEOREM StopIsQuiet == SpotSpec => []QuietAfterStop
<1>1. SpotInit => QuietAfterStop
  BY DEF SpotInit, QuietAfterStop
<1>2. QuietAfterStop /\ [SpotNext]_spotVars => QuietAfterStop'
  <2> SUFFICES ASSUME QuietAfterStop, [SpotNext]_spotVars PROVE QuietAfterStop'
    OBVIOUS
  <2> USE DEF QuietAfterStop
  <2>1. ASSUME NEW s \in Symbols, PriceMoves(s) \/ MessageSent(s) PROVE QuietAfterStop'
    BY <2>1 DEF PriceMoves, MessageSent, timerVars
  <2>2. ASSUME NEW s \in Symbols, ChunkSent(s) PROVE QuietAfterStop'
    BY <2>2 DEF ChunkSent, timerVars
  <2>3. ASSUME NEW k \in Kinds, Expires(k) \/ Answered(k) \/ AnswerReceived(k) \/ RequestFails(k)
        PROVE  QuietAfterStop'
    BY <2>3 DEF Expires, Answered, AnswerReceived, RequestFails, socketVars, timerVars
  <2>4. CASE GetPerformance \/ UpdateFires \/ MessageReceived
    BY <2>4 DEF GetPerformance, UpdateFires, MessageReceived, socketVars, timerVars
  <2>5. CASE Start
    BY <2>5 DEF Start
  <2>6. CASE PrimeContinues
    BY <2>6 DEF PrimeContinues, Connects
  <2>7. CASE SocketOpens
    BY <2>7 DEF SocketOpens, timerVars
  <2>8. CASE SocketCloses
    BY <2>8 DEF SocketCloses
  <2>9. CASE ReconnectFires
    BY <2>9 DEF ReconnectFires, socketVars
  <2>10. CASE Stop
    BY <2>10 DEF Stop
  <2>11. CASE UNCHANGED spotVars
    BY <2>11 DEF spotVars, socketVars, timerVars
  <2> QED
    BY <2>1, <2>2, <2>3, <2>4, <2>5, <2>6, <2>7, <2>8, <2>9, <2>10, <2>11 DEF SpotNext
<1> QED
  BY <1>1, <1>2, PTL DEF SpotSpec

-----------------------------------------------------------------------------
(* TickerFetch                                                           *)

(* Tickers with numbers, no symbol twice; and what is still asked for is   *)
(* not there yet.                                                          *)
IsTicker(t) ==
  /\ t.exchange \in {"binance", "bybit", "okx"}
  /\ \E i \in Listed : t.symbol = i.name
  /\ t.change \in Int /\ t.utcChange \in Int
AreTickers(set) == \A t, u \in set : IsTicker(t) /\ (t.symbol = u.symbol => t = u)
AnswerIsRight == TickersAreComplete /\ AreTickers(tickers.set)
Prices == UNION {BybitTicker(i) : i \in Listed}
AlwaysOpen(i) == \A d \in 0..MaxDay : DayOpen[i.name][d] # 0
Batching ==
  /\ pull.exchange = "binance" /\ pull.kind = "utcDay"
  /\ pull.left \subseteq Names(Listed)
  /\ {t.symbol : t \in pull.got} \cap pull.left = {}
  /\ ~pull.short =>
       \A i \in GetActive(Listed) :
         AlwaysOpen(i) => i.name \in pull.left \/ \E t \in pull.got : t.symbol = i.name
Comparing == pull.exchange = "bybit" /\ pull.kind = "utcDay" /\ pull.got \subseteq Prices
OpensAreOfTheirDay ==
  \A o \in opens : o.price = DayOpen[o.symbol][o.day] /\ o.price \in Nat \ {0}
TickersInv ==
  /\ DOMAIN pull = DOMAIN NoPull
  /\ day \in 0..MaxDay
  /\ pull.step = "rest" => /\ pull.exchange \in {"binance", "bybit", "okx"}
                           /\ pull.kind \in {"rolling", "utcDay"}
                           /\ pull.got = {}
  /\ pull.step = "batches" => Batching
  /\ pull.step = "klines" => Comparing
  /\ pull.step \in {"coingecko", "snapshots"} => pull.exchange = "okx"
  /\ pull.step = "coingecko" => pull.got = {}
  /\ AreTickers(pull.got)
  /\ OpensAreOfTheirDay
  /\ AnswerIsRight
-----------------------------------------------------------------------------
LEMMA ListedOnce == \A i, j \in Listed : i.name = j.name => i = j
BY TickerAssumption

LEMMA Days == MaxDay \in Nat
BY TickerAssumption

LEMMA PercentIsNumber ==
  ASSUME NEW now \in Nat, NEW before \in Nat, before # 0
  PROVE  Percent(now, before) \in Int
BY DEF Percent

LEMMA ChangesAreNumbers ==
  ASSUME NEW i \in Listed
  PROVE  /\ LastPrice[i.name] \in Nat /\ DayChange(i) \in Int /\ NoChange \in Int
         /\ \A d \in 0..MaxDay : UtcChange(i, d) \in Int
<1>1. /\ LastPrice[i.name] \in Nat /\ DayAgo[i.name] \in Nat
      /\ \A d \in 0..MaxDay : DayOpen[i.name][d] \in Nat
  BY TickerAssumption
<1>2. NoChange \in Int
  BY DEF NoChange
<1> QED
  BY <1>1, <1>2, PercentIsNumber DEF DayChange, UtcChange

LEMMA TickerOf ==
  ASSUME NEW i \in Listed, NEW x \in {"binance", "bybit", "okx"}, NEW t, t.exchange = x,
         t.symbol = i.name, t.change \in Int, t.utcChange \in Int
  PROVE  IsTicker(t)
BY DEF IsTicker

LEMMA Created ==
  ASSUME NEW x, NEW i, NEW change, NEW utcChange
  PROVE  /\ \A t \in CreateTicker(x, i, change, utcChange) :
              t = [exchange |-> x, symbol |-> i.name, lastPrice |-> LastPrice[i.name],
                   change |-> change, utcChange |-> utcChange]
         /\ \A t, u \in CreateTicker(x, i, change, utcChange) : t = u /\ t.symbol = i.name
         /\ CreateTicker(x, i, change, utcChange) # {} <=> i.quote = QuoteAsset /\ change # NoChange
<1> DEFINE r == [exchange |-> x, symbol |-> i.name, lastPrice |-> LastPrice[i.name],
                 change |-> change, utcChange |-> utcChange]
<1>1. CreateTicker(x, i, change, utcChange) =
        IF i.quote # QuoteAsset \/ change = NoChange THEN {} ELSE {r}
  BY DEF CreateTicker
<1>2. r.symbol = i.name
  OBVIOUS
<1> HIDE DEF r
<1>3. /\ \A t \in CreateTicker(x, i, change, utcChange) : t = r /\ t.symbol = i.name
      /\ CreateTicker(x, i, change, utcChange) # {} <=> i.quote = QuoteAsset /\ change # NoChange
  BY <1>1, <1>2
<1> QED
  BY <1>3 DEF r

LEMMA BinanceTickers ==
  ASSUME NEW i \in Listed
  PROVE  /\ \A t, u \in BinanceTicker(i) : IsTicker(t) /\ t = u /\ t.symbol = i.name
         /\ BinanceTicker(i) # {} <=> i \in Moving("binance")
<1>1. DayChange(i) # NoChange <=> DayAgo[i.name] # 0
  BY TickerAssumption DEF DayChange
<1>2. BinanceTicker(i) =
        IF i \in GetActive(Listed) THEN CreateTicker("binance", i, DayChange(i), NoChange) ELSE {}
  BY DEF BinanceTicker
<1>3. i \in Moving("binance") <=> /\ i \in GetActive(Listed) /\ i.quote = QuoteAsset
                                  /\ DayAgo[i.name] # 0
  BY DEF Moving, GetActive
<1>4. \A t \in BinanceTicker(i) : IsTicker(t)
  BY <1>2, Created, ChangesAreNumbers, TickerOf
<1> QED
  BY <1>1, <1>2, <1>3, <1>4, Created

LEMMA BinanceDayTickers ==
  ASSUME NEW i \in Listed, NEW d \in 0..MaxDay
  PROVE  /\ \A t, u \in BinanceDayTicker(i, d) : IsTicker(t) /\ t = u /\ t.symbol = i.name
         /\ i \in GetActive(Listed) /\ AlwaysOpen(i) => BinanceDayTicker(i, d) # {}
<1>1. AlwaysOpen(i) => UtcChange(i, d) # NoChange
  BY TickerAssumption DEF AlwaysOpen
<1>2. BinanceDayTicker(i, d) =
        IF i \in GetActive(Listed)
        THEN CreateTicker("binance", i, UtcChange(i, d), UtcChange(i, d)) ELSE {}
  BY DEF BinanceDayTicker
<1>3. i \in GetActive(Listed) => i.quote = QuoteAsset
  BY DEF GetActive
<1>4. \A t \in BinanceDayTicker(i, d) : IsTicker(t)
  BY <1>2, Created, ChangesAreNumbers, TickerOf
<1> QED
  BY <1>1, <1>2, <1>3, <1>4, Created

LEMMA BybitTickers ==
  ASSUME NEW i \in Listed
  PROVE  /\ \A t, u \in BybitTicker(i) : IsTicker(t) /\ t = u /\ t.symbol = i.name
         /\ \A t \in BybitTicker(i) :
              t = [exchange |-> "bybit", symbol |-> i.name, lastPrice |-> LastPrice[i.name],
                   change |-> DayChange(i), utcChange |-> NoChange]
         /\ BybitTicker(i) # {} <=> i \in Moving("bybit")
<1>1. DayChange(i) # NoChange <=> DayAgo[i.name] # 0
  BY TickerAssumption DEF DayChange
<1>2. BybitTicker(i) =
        IF i.name = "" \/ i.base = "" THEN {} ELSE CreateTicker("bybit", i, DayChange(i), NoChange)
  BY DEF BybitTicker
<1>3. i \in Moving("bybit") <=> /\ ~(i.name = "" \/ i.base = "") /\ i.quote = QuoteAsset
                                /\ DayAgo[i.name] # 0
  BY DEF Moving
<1> DEFINE T == CreateTicker("bybit", i, DayChange(i), NoChange)
<1>4. /\ \A t \in T : t = [exchange |-> "bybit", symbol |-> i.name, lastPrice |-> LastPrice[i.name],
                          change |-> DayChange(i), utcChange |-> NoChange]
      /\ \A t, u \in T : t = u /\ t.symbol = i.name
      /\ T # {} <=> i.quote = QuoteAsset /\ DayChange(i) # NoChange
  BY Created
<1>5. BybitTicker(i) = IF i.name = "" \/ i.base = "" THEN {} ELSE T
  BY <1>2
<1>6. \A t \in BybitTicker(i) : IsTicker(t)
  <2>1. \A t \in T : /\ t.exchange = "bybit" /\ t.symbol = i.name
                    /\ t.change = DayChange(i) /\ t.utcChange = NoChange
    BY <1>4
  <2>2. BybitTicker(i) \subseteq T
    BY <1>5
  <2> HIDE DEF T
  <2> QED
    BY <2>1, <2>2, ChangesAreNumbers, TickerOf
<1> HIDE DEF T
<1> QED
  BY <1>1, <1>3, <1>4, <1>5, <1>6

LEMMA OkxTickers ==
  ASSUME NEW i \in Listed, NEW d \in 0..MaxDay
  PROVE  \A t, u \in ParseOkxTickerRecord(i, d) : IsTicker(t) /\ t = u /\ t.symbol = i.name
<1>1. ParseOkxTickerRecord(i, d) =
        IF "" \in {i.name, i.base, i.quote} THEN {}
        ELSE CreateTicker("okx", i, DayChange(i), UtcChange(i, d))
  BY DEF ParseOkxTickerRecord
<1>2. \A t, u \in CreateTicker("okx", i, DayChange(i), UtcChange(i, d)) : t = u /\ t.symbol = i.name
  BY Created
<1>3. \A t \in ParseOkxTickerRecord(i, d) : IsTicker(t)
  <2> DEFINE T == CreateTicker("okx", i, DayChange(i), UtcChange(i, d))
  <2>1. \A t \in T : /\ t.exchange = "okx" /\ t.symbol = i.name
                    /\ t.change = DayChange(i) /\ t.utcChange = UtcChange(i, d)
    BY Created
  <2>2. ParseOkxTickerRecord(i, d) \subseteq T
    BY <1>1
  <2> HIDE DEF T
  <2> QED
    BY <2>1, <2>2, ChangesAreNumbers, TickerOf
<1> QED
  BY <1>1, <1>2, <1>3

LEMMA PricesAreTickers == AreTickers(Prices)
<1> SUFFICES ASSUME NEW i \in Listed, NEW j \in Listed, NEW t \in BybitTicker(i),
                    NEW u \in BybitTicker(j)
             PROVE  IsTicker(t) /\ (t.symbol = u.symbol => t = u)
  BY DEF AreTickers, Prices
<1> QED
  BY BybitTickers, ListedOnce

-----------------------------------------------------------------------------
LEMMA AnswerIsComplete ==
  ASSUME NEW set, Answers(set), AreTickers(set), DOMAIN pull = DOMAIN NoPull,
         pull.exchange # "okx" /\ ~pull.short =>
           /\ pull.kind = "rolling" => {t.symbol : t \in set} = Names(Moving(pull.exchange))
           /\ pull.exchange = "binance" =>
                \A i \in Moving("binance") : AlwaysOpen(i) => \E t \in set : t.symbol = i.name,
         pull.exchange = "bybit" /\ pull.kind = "utcDay" =>
           \A t \in set : t.utcChange = Percent(t.lastPrice, DayOpen[t.symbol][pull.day])
  PROVE  AnswerIsRight'
<1>1. /\ tickers'.exchange = pull.exchange /\ tickers'.kind = pull.kind /\ tickers'.set = set
      /\ tickers'.day = pull.day /\ tickers'.short = pull.short
  BY DEF Answers
<1>2. OneTicker'
  BY <1>1 DEF OneTicker, AreTickers, IsTicker
<1>3. AllSymbols'
  BY <1>1 DEF AllSymbols, AlwaysOpen, Moving, Names
<1>4. OneMidnight'
  BY <1>1 DEF OneMidnight
<1>5. AreTickers(tickers.set)'
  BY <1>1 DEF AreTickers, IsTicker
<1> QED
  BY <1>2, <1>3, <1>4, <1>5 DEF AnswerIsRight, TickersAreComplete

(* The call is over.                                                       *)
LEMMA CallEnds ==
  ASSUME TickersInv, pull' = NoPull, UNCHANGED day, OpensAreOfTheirDay', AnswerIsRight'
  PROVE  TickersInv'
BY DEF TickersInv, NoPull, AreTickers, IsTicker

LEMMA CallFails ==
  ASSUME TickersInv, Fails, UNCHANGED <<day, opens>>
  PROVE  TickersInv'
<1>1. tickers'.status = "error" /\ pull' = NoPull /\ tickers'.set = {}
  BY DEF Fails, NoAnswer
<1> QED
  BY <1>1, CallEnds DEF AreTickers, AnswerIsRight, TickersAreComplete, TickersInv, OpensAreOfTheirDay

(* An answer of OKX has a ticker per symbol, and that is all it promises.  *)
LEMMA OkxAnswers ==
  ASSUME TickersInv, NEW set, Answers(set), AreTickers(set), pull.exchange = "okx",
         UNCHANGED <<day, opens>>
  PROVE  TickersInv'
<1>1. AnswerIsRight'
  BY AnswerIsComplete DEF TickersInv
<1> QED
  BY <1>1, CallEnds DEF TickersInv, OpensAreOfTheirDay, Answers

LEMMA OkxListens ==
  ASSUME TickersInv, NEW names, Listen(names), pull.exchange = "okx", pull.got = {} ,
         UNCHANGED <<day, opens>>
  PROVE  TickersInv'
<1>1. CASE Answers({})
  BY <1>1, OkxAnswers DEF AreTickers, IsTicker
<1>2. CASE pull' = [pull EXCEPT !.step = "snapshots", !.left = names] /\ UNCHANGED tickers
  <2>1. /\ pull'.step = "snapshots" /\ pull'.exchange = "okx" /\ pull'.got = pull.got
        /\ DOMAIN pull' = DOMAIN pull
    BY <1>2 DEF TickersInv, NoPull
  <2> QED
    BY <1>2, <2>1 DEF TickersInv, AreTickers, IsTicker, OpensAreOfTheirDay, AnswerIsRight, TickersAreComplete,
                      OneTicker, AllSymbols, OneMidnight, Moving, Names
<1> QED
  BY <1>1, <1>2 DEF Listen

LEMMA TickersStay ==
  ASSUME AnswerIsRight, UNCHANGED tickers
  PROVE  AnswerIsRight'
BY DEF AnswerIsRight, TickersAreComplete, AreTickers, IsTicker, OneTicker, AllSymbols, OneMidnight,
       Moving, Names

LEMMA RestAnswered == TickersInv /\ RestAnswers => TickersInv'
<1> SUFFICES ASSUME TickersInv, RestAnswers PROVE TickersInv'
  OBVIOUS
<1> DEFINE Of(x) == UNION {CASE x = "binance" -> BinanceTicker(i)
                             [] x = "bybit" -> BybitTicker(i)
                             [] x = "okx" -> ParseOkxTickerRecord(i, day) : i \in Listed}
<1>1. /\ pull.exchange \in {"binance", "bybit", "okx"} /\ Answers(Of(pull.exchange))
      /\ pull.kind \in {"rolling", "utcDay"} /\ (pull.kind = "rolling" \/ pull.exchange = "okx")
      /\ UNCHANGED <<day, opens>>
  BY DEF RestAnswers, TickersInv
<1>2. CASE pull.exchange = "okx"
  <2> DEFINE Tickers == UNION {ParseOkxTickerRecord(i, day) : i \in Listed}
  <2>1. Of(pull.exchange) = Tickers
    BY <1>2
  <2>2. AreTickers(Tickers)
    <3>1. day \in 0..MaxDay
      BY DEF TickersInv
    <3> QED
      BY <3>1, OkxTickers, ListedOnce DEF AreTickers
  <2> QED
    BY <1>1, <1>2, <2>1, <2>2, OkxAnswers
<1>3. ASSUME pull.exchange # "okx", NEW set, Answers(set), AreTickers(set),
             {t.symbol : t \in set} = Names(Moving(pull.exchange))
      PROVE  TickersInv'
  <2>1. \A i \in Moving(pull.exchange) : \E t \in set : t.symbol = i.name
    BY <1>3 DEF Names
  <2>2. AnswerIsRight'
    BY <1>1, <1>3, <2>1, AnswerIsComplete DEF TickersInv
  <2> QED
    BY <1>1, <1>3, <2>2, CallEnds DEF TickersInv, OpensAreOfTheirDay, Answers
<1>4. CASE pull.exchange = "binance"
  <2> DEFINE Tickers == UNION {BinanceTicker(i) : i \in Listed}
  <2>1. Of(pull.exchange) = Tickers
    BY <1>4
  <2>2. AreTickers(Tickers)
    BY BinanceTickers, ListedOnce DEF AreTickers
  <2>3. {t.symbol : t \in Tickers} = {i.name : i \in Moving("binance")}
    <3>1. Moving("binance") \subseteq Listed
      BY DEF Moving
    <3> QED
      BY <3>1, BinanceTickers
  <2> HIDE DEF Tickers
  <2> QED
    BY <1>1, <1>3, <1>4, <2>1, <2>2, <2>3 DEF Names
<1>5. CASE pull.exchange = "bybit"
  <2>1. Of(pull.exchange) = Prices
    BY <1>5 DEF Prices
  <2>2. {t.symbol : t \in Prices} = {i.name : i \in Moving("bybit")}
    <3>1. Moving("bybit") \subseteq Listed
      BY DEF Moving
    <3> QED
      BY <3>1, BybitTickers DEF Prices
  <2> QED
    BY <1>1, <1>3, <1>5, <2>1, <2>2, PricesAreTickers DEF Names
<1> QED
  BY <1>1, <1>2, <1>4, <1>5

LEMMA BatchAdded ==
  ASSUME TickersInv, NEW b, NEW odd \in BOOLEAN, BatchReceived(b, odd)
  PROVE  TickersInv'
<1> DEFINE found == UNION {BinanceDayTicker(i, day) : i \in InstrumentsOf(b)}
<1>1. /\ pull.step = "batches" /\ b \subseteq pull.left /\ UNCHANGED <<day, tickers, opens>>
      /\ pull' = [pull EXCEPT !.left = @ \ b, !.got = IF odd THEN @ ELSE @ \cup found,
                              !.short = @ \/ odd]
  BY DEF BatchReceived, IsBatch
<1> HIDE DEF found
<1>2. /\ DOMAIN pull' = DOMAIN NoPull /\ pull'.step = "batches"
      /\ pull'.exchange = pull.exchange /\ pull'.kind = pull.kind
      /\ pull'.left = pull.left \ b
      /\ pull'.got = IF odd THEN pull.got ELSE pull.got \cup found
      /\ pull'.short = (pull.short \/ odd)
  BY <1>1 DEF TickersInv, NoPull
<1>3. /\ \A t \in found : \E i \in InstrumentsOf(b) : t \in BinanceDayTicker(i, day)
      /\ \A i \in InstrumentsOf(b) : \A t \in BinanceDayTicker(i, day) : t \in found
      /\ InstrumentsOf(b) = {i \in Listed : i.name \in b} /\ day \in 0..MaxDay
  BY DEF found, InstrumentsOf, TickersInv
<1>4. (\A t \in found : t.symbol \in b) /\ AreTickers(found)
  BY <1>3, BinanceDayTickers, ListedOnce DEF AreTickers
<1>5. \A t \in pull.got : t.symbol \notin pull.left
  BY <1>1 DEF TickersInv, Batching
<1>6. AreTickers(pull'.got)
  BY <1>1, <1>2, <1>4, <1>5 DEF TickersInv, AreTickers, IsTicker
<1>7. {t.symbol : t \in pull'.got} \cap pull'.left = {}
  BY <1>1, <1>2, <1>4, <1>5
<1>8. ASSUME ~pull'.short, NEW i \in GetActive(Listed), AlwaysOpen(i)
      PROVE  i.name \in pull'.left \/ \E t \in pull'.got : t.symbol = i.name
  <2>1. ~pull.short /\ ~odd /\ i \in Listed
    BY <1>2, <1>8 DEF GetActive
  <2>2. i.name \in pull.left \/ \E t \in pull.got : t.symbol = i.name
    BY <1>1, <1>8, <2>1 DEF TickersInv, Batching
  <2>3. CASE i.name \in b
    BY <1>2, <1>3, <1>8, <2>1, <2>3, BinanceDayTickers
  <2> QED
    BY <1>2, <2>1, <2>2, <2>3
<1>9. Batching'
  BY <1>1, <1>2, <1>7, <1>8 DEF TickersInv, Batching, AlwaysOpen
<1> QED
  BY <1>1, <1>2, <1>6, <1>9, TickersStay DEF TickersInv, AreTickers, IsTicker, OpensAreOfTheirDay

LEMMA KlinesAnswered == TickersInv /\ KlinesJoined => TickersInv'
<1> SUFFICES ASSUME TickersInv, KlinesJoined PROVE TickersInv'
  OBVIOUS
<1> DEFINE set == UNION {{[t EXCEPT !.utcChange = Percent(t.lastPrice, o.price)] :
                            o \in Current(t)} : t \in pull.got}
<1>1. /\ pull.exchange = "bybit" /\ pull.kind = "utcDay" /\ pull.got \subseteq Prices
      /\ Answers(set) /\ UNCHANGED <<day, opens>>
  BY DEF KlinesJoined, TickersInv, Comparing
<1>2. ASSUME NEW u \in set
      PROVE  \E t \in pull.got :
               LET percent == Percent(t.lastPrice, DayOpen[t.symbol][pull.day]) IN
               /\ u = [t EXCEPT !.utcChange = percent]
               /\ u.symbol = t.symbol /\ u.lastPrice = t.lastPrice /\ u.utcChange = percent
               /\ IsTicker(u)
  <2>1. PICK t \in pull.got :
          \E o \in Current(t) : u = [t EXCEPT !.utcChange = Percent(t.lastPrice, o.price)]
    OBVIOUS
  <2>2. \A o \in Current(t) : o.price = DayOpen[t.symbol][pull.day] /\ o.price \in Nat \ {0}
    BY <2>1 DEF Current, OpenOf, TickersInv, OpensAreOfTheirDay
  <2>3. PICK i \in Listed : t \in BybitTicker(i)
    BY <1>1 DEF Prices
  <2>4. t = [exchange |-> "bybit", symbol |-> i.name, lastPrice |-> LastPrice[i.name],
             change |-> DayChange(i), utcChange |-> NoChange]
    BY <2>3, BybitTickers
  <2> DEFINE percent == Percent(t.lastPrice, DayOpen[t.symbol][pull.day])
  <2>5. percent \in Int
    BY <2>1, <2>2, <2>4, PercentIsNumber, ChangesAreNumbers
  <2>6. u = [t EXCEPT !.utcChange = percent]
    BY <2>1, <2>2
  <2> HIDE DEF percent
  <2>7. /\ u.exchange = "bybit" /\ u.symbol = t.symbol /\ u.symbol = i.name
        /\ u.lastPrice = t.lastPrice /\ u.change = DayChange(i) /\ u.utcChange = percent
    BY <2>4, <2>6
  <2>8. IsTicker(u)
    BY <2>5, <2>7, ChangesAreNumbers, TickerOf
  <2> QED
    BY <2>6, <2>7, <2>8 DEF percent
<1> HIDE DEF set
<1>3. AreTickers(set)
  BY <1>2 DEF AreTickers, TickersInv
<1>4. \A t \in set : t.utcChange = Percent(t.lastPrice, DayOpen[t.symbol][pull.day])
  BY <1>2
<1>5. AnswerIsRight'
  BY <1>1, <1>3, <1>4, AnswerIsComplete DEF TickersInv
<1> QED
  BY <1>1, <1>5, CallEnds DEF TickersInv, OpensAreOfTheirDay, Answers

LEMMA SnapshotMerged ==
  ASSUME TickersInv, NEW s, SnapshotReceived(s)
  PROVE  TickersInv'
<1> DEFINE kept == {t \in pull.got : t.symbol # s}
           new == UNION {ParseOkxTickerRecord(i, day) : i \in InstrumentsOf({s})}
           set == kept \cup new
<1>1. /\ pull.exchange = "okx" /\ pull.step = "snapshots" /\ UNCHANGED <<day, opens>>
      /\ Answers(set) \/ (pull' = [pull EXCEPT !.got = set] /\ UNCHANGED tickers)
  BY DEF SnapshotReceived, TickersInv
<1>2. AreTickers(new) /\ \A t \in new : t.symbol = s
  <2>1. day \in 0..MaxDay
    BY DEF TickersInv
  <2> QED
    BY <2>1, OkxTickers, ListedOnce DEF AreTickers, InstrumentsOf
<1> HIDE DEF new
<1>3. AreTickers(set)
  BY <1>2 DEF AreTickers, TickersInv
<1> HIDE DEF set
<1>4. CASE Answers(set)
  BY <1>1, <1>3, <1>4, OkxAnswers
<1>5. CASE pull' = [pull EXCEPT !.got = set] /\ UNCHANGED tickers
  <2>1. /\ DOMAIN pull' = DOMAIN NoPull /\ pull'.step = "snapshots" /\ pull'.exchange = "okx"
        /\ pull'.got = set
    BY <1>1, <1>5 DEF TickersInv, NoPull
  <2> QED
    BY <1>1, <1>3, <1>5, <2>1, TickersStay DEF TickersInv, AreTickers, IsTicker, OpensAreOfTheirDay
<1> QED
  BY <1>1, <1>4, <1>5

LEMMA InitTickersInv == TickersInit => TickersInv
BY Days DEF TickersInit, TickersInv, NoPull, NoAnswer, AreTickers, IsTicker, OpensAreOfTheirDay,
            AnswerIsRight, TickersAreComplete

LEMMA StepTickersInv == TickersInv /\ [TickersNext]_tickerVars => TickersInv'
<1> SUFFICES ASSUME TickersInv, [TickersNext]_tickerVars PROVE TickersInv'
  OBVIOUS
<1>1. ASSUME UNCHANGED <<pull, tickers, opens>>, day' \in 0..MaxDay PROVE TickersInv'
  <2>1. AnswerIsRight'
    BY <1>1, TickersStay DEF TickersInv
  <2>5. OpensAreOfTheirDay'
    BY <1>1 DEF TickersInv, OpensAreOfTheirDay
  <2>6. TickersInv'
    BY <1>1, <2>1, OpensAreOfTheirDay' DEF TickersInv, Comparing, Batching, AlwaysOpen
  <2>7. TickersInv'
    BY <1>1, TickersStay, <2>5  DEF TickersInv, Comparing, Batching, AlwaysOpen
  <2>8. TickersInv'
    BY <1>1, <2>1  DEF TickersInv, Comparing, Batching, AlwaysOpen, OpensAreOfTheirDay
  <2> QED
    BY <2>7
<1>2. CASE DayPasses
  <2>1. day' \in 0..MaxDay
    BY <1>2, Days DEF DayPasses, TickersInv
  <2> QED
    BY <1>1, <1>2, <2>1 DEF DayPasses
<1>3. ASSUME NEW x \in {"binance", "bybit", "okx"}, NEW k \in {"rolling", "utcDay"},
             FetchTickers(x, k)
      PROVE  TickersInv'
  <2>1. /\ DOMAIN pull' = DOMAIN NoPull /\ pull'.step = "rest" /\ pull'.exchange = x
        /\ pull'.kind = k /\ pull'.got = {} /\ tickers'.status = "none"
        /\ tickers'.set = {} /\ UNCHANGED <<day, opens>>
    BY <1>3 DEF FetchTickers, NoPull, NoAnswer
  <2> QED
    BY <2>1 DEF TickersInv, AreTickers, IsTicker, OpensAreOfTheirDay, AnswerIsRight, TickersAreComplete
<1>4. CASE OddRestAnswers
  <2>1. /\ tickers'.set = {} /\ tickers'.short /\ pull' = NoPull /\ UNCHANGED day
        /\ opens' \subseteq opens
    BY <1>4 DEF OddRestAnswers, NoAnswer, KeptOpens
  <2>2. AnswerIsRight'
    BY <2>1 DEF AnswerIsRight, TickersAreComplete, AreTickers, OneTicker, AllSymbols, OneMidnight
  <2>3. OpensAreOfTheirDay'
    BY <2>1 DEF TickersInv, OpensAreOfTheirDay
  <2> QED
    BY <2>1, <2>2, <2>3, CallEnds
<1>5. CASE RestFails \/ SnapshotSocketFails
  BY <1>5, CallFails DEF RestFails, SnapshotSocketFails
<1>6. CASE SymbolsReceived
  <2>1. /\ DOMAIN pull' = DOMAIN NoPull /\ pull'.step = "batches" /\ pull'.exchange = "binance"
        /\ pull'.kind = "utcDay" /\ pull'.got = {} /\ pull'.left = Names(GetActive(Listed))
        /\ UNCHANGED <<day, opens, tickers>>
    BY <1>6 DEF SymbolsReceived, TickersInv, NoPull
  <2>2. /\ pull'.left \subseteq Names(Listed)
        /\ \A i \in GetActive(Listed) : i.name \in pull'.left
    BY <2>1 DEF Names, GetActive
  <2>3. Batching'
    BY <2>1, <2>2 DEF Batching, Names, GetActive
  <2> QED
    BY <2>1, <2>3, TickersStay DEF TickersInv, AreTickers, IsTicker, OpensAreOfTheirDay
<1>7. CASE BatchesJoined
  <2>1. /\ pull.left = {} /\ Answers(pull.got) /\ UNCHANGED <<day, opens>>
        /\ pull.exchange = "binance" /\ pull.kind = "utcDay" /\ AreTickers(pull.got)
    BY <1>7 DEF BatchesJoined, TickersInv, Batching
  <2>2. Moving("binance") \subseteq GetActive(Listed)
    BY DEF Moving, GetActive
  <2>3. ~pull.short =>
          \A i \in Moving("binance") : AlwaysOpen(i) => \E t \in pull.got : t.symbol = i.name
    BY <1>7, <2>1, <2>2 DEF BatchesJoined, TickersInv, Batching
  <2>4. AnswerIsRight'
    BY <2>1, <2>3, AnswerIsComplete DEF TickersInv
  <2> QED
    BY <2>1, <2>4, CallEnds DEF TickersInv, OpensAreOfTheirDay, Answers
<1>8. CASE PricesReceived
  <2>1. /\ DOMAIN pull' = DOMAIN NoPull /\ pull'.step = "klines" /\ pull'.exchange = "bybit"
        /\ pull'.kind = "utcDay" /\ pull'.got = Prices /\ UNCHANGED <<day, tickers>>
        /\ opens' \subseteq opens
    BY <1>8 DEF PricesReceived, TickersInv, NoPull, Prices, KeptOpens
  <2>2. Comparing' /\ OpensAreOfTheirDay'
    BY <2>1 DEF Comparing, Prices, TickersInv, OpensAreOfTheirDay
  <2> QED
    BY <2>1, <2>2, PricesAreTickers, TickersStay DEF TickersInv, AreTickers, IsTicker
<1>9. ASSUME DOMAIN pull' = DOMAIN pull, pull.step = "klines",
             pull'.step = pull.step, pull'.exchange = pull.exchange,
             pull'.kind = pull.kind, pull'.got = pull.got,
             UNCHANGED <<day, tickers>>, OpensAreOfTheirDay'
      PROVE  TickersInv'
  BY <1>9, TickersStay DEF TickersInv, Comparing, Prices, AreTickers, IsTicker
<1>10. ASSUME NEW s, KlineAsked(s) PROVE TickersInv'
  <2>1. /\ DOMAIN pull' = DOMAIN pull /\ pull.step = "klines" /\ pull'.step = pull.step
        /\ pull'.exchange = pull.exchange /\ pull'.kind = pull.kind /\ pull'.got = pull.got
        /\ UNCHANGED <<day, tickers, opens>>
    BY <1>10 DEF KlineAsked, TickersInv, NoPull
  <2> QED
    BY <1>9, <2>1 DEF TickersInv, OpensAreOfTheirDay
<1>11. ASSUME NEW s, KlineFails(s) PROVE TickersInv'
  <2>1. /\ DOMAIN pull' = DOMAIN NoPull /\ pull'.step = pull.step
        /\ pull'.exchange = pull.exchange /\ pull'.kind = pull.kind /\ pull'.got = pull.got
        /\ pull'.left = pull.left /\ pull'.short = pull.short
        /\ UNCHANGED <<day, tickers, opens>>
    BY <1>11 DEF KlineFails, TickersInv, NoPull
  <2> QED
    BY <2>1, TickersStay DEF TickersInv, AreTickers, IsTicker, Batching, Comparing, Prices,
                             OpensAreOfTheirDay, AlwaysOpen
<1>12. ASSUME NEW s \in DOMAIN LastPrice, NEW d \in 0..MaxDay, KlineReceived(s, d) PROVE TickersInv'
  <2>1. /\ DOMAIN pull' = DOMAIN pull /\ pull.step = "klines" /\ pull'.step = pull.step
        /\ pull'.exchange = pull.exchange /\ pull'.kind = pull.kind /\ pull'.got = pull.got
        /\ UNCHANGED <<day, tickers>>
    BY <1>12 DEF KlineReceived, TickersInv, NoPull
  <2>2. DayOpen[s][d] \in Nat
    BY TickerAssumption
  <2>3. \/ opens' = opens
        \/ /\ opens' = opens \cup {[symbol |-> s, day |-> pull.day, price |-> DayOpen[s][d]]}
           /\ d = pull.day /\ DayOpen[s][d] > 0
    BY <1>12 DEF KlineReceived, DailyOpen
  <2>4. OpensAreOfTheirDay'
    BY <2>2, <2>3 DEF TickersInv, OpensAreOfTheirDay
  <2> QED
    BY <1>9, <2>1, <2>4
<1>13. ASSUME NEW cached, OkxRestFails(cached) PROVE TickersInv'
  <2>1. /\ pull.exchange = "okx" /\ pull.got = {} /\ UNCHANGED <<day, opens>>
        /\ Listen(cached) \/ (pull' = [pull EXCEPT !.step = "coingecko", !.page = 1]
                             /\ UNCHANGED tickers)
    BY <1>13 DEF OkxRestFails, TickersInv
  <2>2. CASE pull' = [pull EXCEPT !.step = "coingecko", !.page = 1] /\ UNCHANGED tickers
    <3>1. /\ DOMAIN pull' = DOMAIN NoPull /\ pull'.step = "coingecko" /\ pull'.exchange = "okx"
          /\ pull'.got = {}
      BY <2>1, <2>2 DEF TickersInv, NoPull
    <3> QED
      BY <2>1, <2>2, <3>1, TickersStay DEF TickersInv, AreTickers, IsTicker, OpensAreOfTheirDay
  <2> QED
    BY <2>1, <2>2, OkxListens
<1>14. ASSUME NEW odd, GeckoPageReceived(odd) PROVE TickersInv'
  <2>1. PICK found : /\ pull.exchange = "okx" /\ pull.step = "coingecko" /\ pull.got = {}
                     /\ UNCHANGED <<day, opens>>
                     /\ \/ Listen(found)
                        \/ /\ pull' = [pull EXCEPT !.page = @ + 1, !.left = found]
                           /\ UNCHANGED tickers
    BY <1>14 DEF GeckoPageReceived, TickersInv
  <2>2. CASE pull' = [pull EXCEPT !.page = @ + 1, !.left = found] /\ UNCHANGED tickers
    <3>1. /\ DOMAIN pull' = DOMAIN NoPull /\ pull'.step = "coingecko" /\ pull'.exchange = "okx"
          /\ pull'.got = {}
      BY <2>1, <2>2 DEF TickersInv, NoPull
    <3> QED
      BY <2>1, <2>2, <3>1, TickersStay DEF TickersInv, AreTickers, IsTicker, OpensAreOfTheirDay
  <2> QED
    BY <2>1, <2>2, OkxListens
<1>15. CASE GeckoPageFails
  BY <1>15, CallFails, OkxListens DEF GeckoPageFails, TickersInv
<1>16. CASE SnapshotsTimeOut
  BY <1>16, OkxAnswers DEF SnapshotsTimeOut, TickersInv
<1>17. CASE UNCHANGED tickerVars
  BY <1>1, <1>17 DEF tickerVars, TickersInv
<1>18. CASE TickersNext
  <2>1. CASE \E s \in DOMAIN LastPrice :
               \/ KlineAsked(s) \/ KlineFails(s) \/ SnapshotReceived(s)
               \/ \E d \in 0..MaxDay : KlineReceived(s, d)
    BY <1>10, <1>12, <1>11, <2>1, SnapshotMerged
  <2>2. CASE \E odd \in BOOLEAN :
               GeckoPageReceived(odd) \/ \E b \in SUBSET pull.left : BatchReceived(b, odd)
    BY <1>14, <2>2, BatchAdded
  <2>3. CASE \E cached \in SUBSET DiskSymbols : OkxRestFails(cached)
    BY <1>13, <2>3
  <2> QED
    BY <1>2, <1>3, <1>4, <1>5, <1>6, <1>7, <1>8, <1>15, <1>16, <1>18, <2>1, <2>2, <2>3,
       RestAnswered, KlinesAnswered DEF TickersNext
<1> QED
  BY <1>17, <1>18

(* Whatever the batches, their order and midnights, an answer has a ticker *)
(* of every symbol that trades, one per symbol, and Bybit's are compared   *)
(* with opens of one midnight (fetchTickers(), fetchUtcDayTickers()).      *)
THEOREM TickersAreAllThere == TickersSpec => []TickersAreComplete
<1>1. TickersInv => TickersAreComplete
  BY DEF TickersInv, AnswerIsRight
<1> QED
  BY InitTickersInv, StepTickersInv, <1>1, PTL DEF TickersSpec

-----------------------------------------------------------------------------
(* Responses.  There are no more tickers than symbols, and they are in the *)
(* order of how far they moved.                                            *)
LEMMA TickersAreFinite ==
  ASSUME NEW set, AreTickers(set)
  PROVE  IsFiniteSet(set)
<1> DEFINE symbol == [t \in set |-> t.symbol]
           names == {i.name : i \in Listed}
<1>1. IsFiniteSet(names)
  <2> DEFINE name == [i \in Listed |-> i.name]
  <2>1. names = {name[i] : i \in Listed} /\ IsFiniteSet(Listed)
    BY TickerAssumption
  <2> HIDE DEF name, names
  <2> QED
    BY <2>1, FiniteImage
<1>2. symbol \in Injection(set, names)
  BY DEF AreTickers, IsTicker, Injection, IsInjective
<1> HIDE DEF symbol, names
<1> QED
  BY <1>1, <1>2, FS_Injection

LEMMA FirstKeyDecides ==
  ASSUME NEW a, NEW b, 1 \in DOMAIN b, a[1] < b[1]
  PROVE  Lower(a, b)
<1>1. \A j \in 1..(1 - 1) : j \in DOMAIN a /\ a[j] = b[j]
  OBVIOUS
<1> QED
  BY <1>1 DEF Lower

LEMMA KeysOfTickers ==
  ASSUME NEW t, IsTicker(t), NEW by \in {"change", "utcChange"}, NEW sign \in {1, -1}
  PROVE  /\ TickerKey(t, by, sign) \in Seq(Int)
         /\ 1 \in DOMAIN TickerKey(t, by, sign)
         /\ TickerKey(t, by, sign)[1] = -(sign * t[by])
         /\ sign * t[by] \in Int
<1>1. sign * t[by] \in Int
  <2>1. t[by] \in Int
    BY DEF IsTicker
  <2> QED
    BY <2>1
<1>2. Volume(t.symbol) \in Int /\ Place(t.exchange) \in Int /\ Place(t.symbol) \in Int
  BY TickerAssumption DEF IsTicker
<1> DEFINE x == sign * t[by]
<1> HIDE DEF x
<1>3. TickerKey(t, by, sign) = <<-x, -Volume(t.symbol), Place(t.exchange), Place(t.symbol)>>
  BY DEF TickerKey, x
<1>4. -x \in Int /\ -Volume(t.symbol) \in Int
  BY <1>1, <1>2 DEF x
<1>5. /\ TickerKey(t, by, sign) \in Seq(Int) /\ 1 \in DOMAIN TickerKey(t, by, sign)
      /\ TickerKey(t, by, sign)[1] = -x
  BY <1>2, <1>3, <1>4
<1> QED
  BY <1>1, <1>5 DEF x

LEMMA ResponseLeads ==
  ASSUME NEW set, AreTickers(set), NEW by \in {"change", "utcChange"}, NEW sign \in {1, -1},
         NEW limit \in Limits
  PROVE  Leads(FirstOf(Ranked(set, by, sign), limit), set, by, sign, limit)
<1> DEFINE movers == Movers(set, by, sign)
           key == [t \in movers |-> TickerKey(t, by, sign)]
           list == Ranked(set, by, sign)
           size == Cardinality(movers)
           last == IF limit < size THEN limit ELSE size
           first == FirstOf(list, limit)
<1>1. movers \subseteq set /\ \A t \in set : IsTicker(t)
  BY DEF Movers, AreTickers
<1>2. IsFiniteSet(movers) /\ HasKeys(key, movers)
  <2>1. IsFiniteSet(movers)
    BY <1>1, TickersAreFinite, FS_Subset
  <2>2. \A t \in movers : TickerKey(t, by, sign) \in Seq(Int)
    BY <1>1, KeysOfTickers
  <2> QED
    BY <2>1, <2>2 DEF HasKeys
<1>3. list = SortedBy(key)
  BY DEF Ranked
<1>4. \A t, u \in movers : ~Lower(key[u], key[t]) => sign * u[by] <= sign * t[by]
  <2> SUFFICES ASSUME NEW t \in movers, NEW u \in movers, ~Lower(key[u], key[t])
               PROVE  sign * u[by] <= sign * t[by]
    OBVIOUS
  <2>1. key[t] = TickerKey(t, by, sign) /\ key[u] = TickerKey(u, by, sign)
    OBVIOUS
  <2>2. /\ 1 \in DOMAIN key[t] /\ key[t][1] = -(sign * t[by]) /\ key[u][1] = -(sign * u[by])
        /\ sign * t[by] \in Int /\ sign * u[by] \in Int
    BY <1>1, <2>1, KeysOfTickers
  <2>3. ~(key[u][1] < key[t][1])
    BY <2>2, FirstKeyDecides
  <2> DEFINE x == sign * t[by]
             y == sign * u[by]
  <2> HIDE DEF x, y, key, movers
  <2>4. key[t][1] = -x /\ key[u][1] = -y /\ x \in Int /\ y \in Int
    BY <2>2 DEF x, y
  <2>5. y <= x
    BY <2>3, <2>4
  <2> QED
    BY <2>5 DEF x, y
<1> HIDE DEF movers, key, list
<1>5. /\ size \in Nat /\ list \in Seq(movers) /\ Len(list) = size /\ DOMAIN list = 1..size
      /\ \A i \in 1..size : list[i] \in movers
      /\ \A t \in movers : \E i \in 1..size : list[i] = t
      /\ \A i, j \in 1..size : i < j => ~Lower(key[list[j]], key[list[i]])
  BY <1>2, <1>3, SortedList
<1>6. limit \in Nat \ {0}
  BY TickerAssumption
<1>7. last \in Nat /\ 0 <= last /\ last <= size
  BY <1>5, <1>6
<1>8. Len(first) = last /\ ToSet(first) = PartFrom(list, 0, last)
  <2>1. first = SubSeq(list, 0 + 1, last)
    BY <1>5 DEF FirstOf
  <2> HIDE DEF first, last
  <2>2. Len(first) = last - 0 /\ Range(first) = PartFrom(list, 0, last)
    <3>1. list \in Seq(movers) /\ 0 \in Nat /\ last \in Nat /\ 0 <= last /\ last <= Len(list)
      BY <1>5, <1>7 DEF size
    <3> QED
      BY <2>1, <3>1, PartOfList
  <2>3. ToSet(first) = Range(first)
    BY DEF ToSet, Range
  <2> QED
    BY <1>7, <2>2, <2>3
<1> HIDE DEF first, size
<1>9. \A u \in ToSet(first) : \E i \in 1..last : list[i] = u
  <2>1. \A i \in (0 + 1)..last : i \in 1..last
    BY <1>7
  <2> QED
    BY <1>8, <2>1 DEF PartFrom
<1>10. ToSet(first) \subseteq movers
  BY <1>5, <1>7, <1>9
<1>11. ASSUME NEW t \in movers, t \notin ToSet(first)
       PROVE  Len(first) = limit /\ \A u \in ToSet(first) : sign * t[by] <= sign * u[by]
  <2>1. PICK j \in 1..size : list[j] = t
    BY <1>5
  <2>2. j \notin (0 + 1)..last
    BY <1>8, <1>11, <2>1 DEF PartFrom
  <2>3. j > last
    BY <1>5, <1>7, <2>1, <2>2
  <2>4. last = limit
    BY <1>5, <1>6, <2>1, <2>3
  <2>5. ASSUME NEW u \in ToSet(first) PROVE sign * t[by] <= sign * u[by]
    <3>1. PICK i \in 1..last : list[i] = u
      BY <1>9
    <3>2. i \in 1..size /\ i < j
      <4> HIDE DEF last
      <4> QED
        BY <1>5, <1>7, <2>3
    <3>3. ~Lower(key[t], key[u]) /\ u \in movers
      BY <1>5, <1>10, <2>1, <3>1, <3>2
    <3> QED
      BY <1>4, <3>3
  <2> QED
    BY <1>8, <2>4, <2>5
<1> QED
  BY <1>10, <1>11 DEF Leads, first, list, movers

(* Of the movers a response of any size has the first.                     *)
LEMMA FirstMovesAreFirst == TickersInv => FirstMoves
<1> SUFFICES ASSUME TickersInv, NEW limit \in Limits
             PROVE  LET response == BuildPerformanceResponse(tickers.set, tickers.set, limit)
                    IN /\ Leads(response.gainers, tickers.set, "change", 1, limit)
                       /\ Leads(response.losers, tickers.set, "change", -1, limit)
                       /\ Leads(response.liveGainers, tickers.set, "utcChange", 1, limit)
                       /\ Leads(response.liveLosers, tickers.set, "utcChange", -1, limit)
  BY DEF FirstMoves
<1>1. AreTickers(tickers.set)
  BY DEF TickersInv, AnswerIsRight
<1> QED
  BY <1>1, ResponseLeads DEF BuildPerformanceResponse

-----------------------------------------------------------------------------
(* Whatever is fetched, in whatever pages, batches, attempts and midnights, *)
(* and whatever of it is then asked for: listings and tickers are taken    *)
(* over whole, each page of a listing has the symbols the one before it    *)
(* left, and a response the tickers that moved most.                       *)
THEOREM AnswersAreTakenOver == FairSpec => []AnswersAreWhole
<1> DEFINE Inv == ListingInv /\ TickersInv
           vars == <<spotVars, cacheVars, listingVars, tickerVars, subject>>
<1>1. Init => Inv
  BY InitListingInv, InitTickersInv DEF Init
<1>2. Inv /\ [Next]_vars => Inv'
  <2> SUFFICES ASSUME Inv, [Next]_vars PROVE Inv'
    OBVIOUS
  <2>1. [ListingNext]_listingVars
    BY DEF Next
  <2>2. [TickersNext]_tickerVars
    BY DEF Next
  <2> QED
    BY <2>1, <2>2, StepListingInv, StepTickersInv
<1>3. Inv => AnswersAreWhole
  BY ListingIsShown, FirstMovesAreFirst
     DEF AnswersAreWhole, ListingIsWhole, TickersAreWhole, ListingInv, TickersInv, AnswerIsRight
<1> QED
  BY <1>1, <1>2, <1>3, PTL DEF FairSpec
=============================================================================
