----------------------------- MODULE SymbolCache -----------------------------
(***************************************************************************)
(* ExchangeSymbolCache (apps/server/src/exchanges/symbolCache.ts): the     *)
(* listings of several providers, refreshed one after the other by a daily *)
(* timer, at startup and by hand, kept in memory and in a file that a      *)
(* server loads when it starts.  The symbols of a source are those of one  *)
(* of its provider's answers, which may be short of the listing:           *)
(* ListingFetch has the queries, and says when they are.                   *)
(***************************************************************************)
EXTENDS Naturals, Sequences

CONSTANTS
  Sources,          \* the providers, a sequence in the order of their table
  RefreshOnStart,
  MaxListing, MaxCrashes, MaxRefusals    \* bounds of the model

ASSUME SymbolCacheAssumption ==
  /\ {Len(Sources), MaxListing, MaxCrashes, MaxRefusals} \subseteq Nat
  /\ RefreshOnStart \in BOOLEAN

VARIABLES
  process,       \* "down", "loaded", "up", "stopped"
  listing,       \* the exchanges: the version of each listing
  answers,       \* history: the answers of each provider, a repeated one once
  sources,       \* in memory: status and symbols, by the place of their answer, 0 for none
  refresh,       \* refreshPromise: where doRefresh() stands
  dailyTimer,    \* refreshTimer: "none", "armed", or "fired" and awaiting its refresh
  file, tmpFile, \* on disk: the sources, no file or one cut off
  crashes, refusals

cacheVars == <<process, listing, answers, sources, refresh, dailyTimer, file, tmpFile,
               crashes, refusals>>

Source == 1..Len(Sources)
EmptySource == [status |-> "idle", symbols |-> 0]
Empty == [s \in Source |-> EmptySource]

(* A file: whether there is one and it parses, and the sources in it.      *)
NoFile == [state |-> "none", sources |-> Empty]
Torn == [state |-> "torn", sources |-> Empty]
Saved(written) == [state |-> "whole", sources |-> written]
NoRefresh == [phase |-> "none", next |-> 0]

CacheInit ==
  /\ process = "down"
  /\ listing = [s \in Source |-> 1]
  /\ answers = [s \in Source |-> <<>>]
  /\ sources = Empty
  /\ refresh = NoRefresh
  /\ dailyTimer = "none"
  /\ file = NoFile
  /\ tmpFile = NoFile
  /\ crashes = 0
  /\ refusals = 0

ListingChanges(s) ==
  /\ listing[s] < MaxListing
  /\ listing' = [listing EXCEPT ![s] = @ + 1]
  /\ UNCHANGED <<process, answers, sources, refresh, dailyTimer, file, tmpFile, crashes,
                 refusals>>

(* loadFromDisk(): a file that is missing or does not parse is ignored.    *)
LoadFromDisk ==
  /\ process = "down"
  /\ process' = "loaded"
  /\ sources' = IF file.state = "whole" THEN file.sources ELSE Empty
  /\ UNCHANGED <<listing, answers, refresh, dailyTimer, file, tmpFile, crashes, refusals>>

(* refresh(): one at a time, whoever asks.                                 *)
Fetching(n) == [phase |-> "fetch", next |-> n]
Joined == IF refresh = NoRefresh THEN Fetching(1) ELSE refresh

StartCache ==
  /\ process = "loaded"
  /\ process' = "up"
  /\ dailyTimer' = "armed"
  /\ refresh' = IF RefreshOnStart THEN Joined ELSE refresh
  /\ UNCHANGED <<listing, answers, sources, file, tmpFile, crashes, refusals>>

TimerFires ==
  /\ dailyTimer = "armed"
  /\ dailyTimer' = "fired"
  /\ refresh' = Joined
  /\ UNCHANGED <<process, listing, answers, sources, file, tmpFile, crashes, refusals>>

(* POST /api/exchange-symbols/refresh.                                     *)
RefreshAsked ==
  /\ process \in {"up", "stopped"}
  /\ refresh = NoRefresh
  /\ refresh' = Joined
  /\ UNCHANGED <<process, listing, answers, sources, dailyTimer, file, tmpFile, crashes, refusals>>

(* doRefresh(): provider by provider; the file when all have been asked.   *)
(* What fetchSymbols() resolves to takes the place of what there was: the  *)
(* version of the listing, or an answer without all of it.                 *)
AfterProvider == IF refresh.next < Len(Sources) THEN Fetching(refresh.next + 1)
                 ELSE [phase |-> "write", next |-> 0]

Short == 0
Recorded(past, answer) ==
  IF past # <<>> /\ past[Len(past)] = answer THEN past ELSE Append(past, answer)

Stored(answer) ==
  /\ refresh.phase = "fetch"
  /\ answers' = [answers EXCEPT ![refresh.next] = Recorded(@, answer)]
  /\ sources' = [sources EXCEPT ![refresh.next] =
                   [status |-> "ok", symbols |-> Len(answers'[refresh.next])]]
  /\ refresh' = AfterProvider
  /\ UNCHANGED <<process, listing, dailyTimer, file, tmpFile, crashes>>

Fetched == Stored(listing[refresh.next]) /\ UNCHANGED refusals

(* A body without the expected list, or OKX through a part of CoinGecko.   *)
FetchedShort ==
  /\ refusals < MaxRefusals
  /\ refusals' = refusals + 1
  /\ Stored(Short)

(* A provider that fails keeps the symbols it has.                         *)
Blank(previous) == 0
Kept(previous) == previous.symbols

ProviderFails ==
  /\ refresh.phase = "fetch"
  /\ refusals < MaxRefusals
  /\ refusals' = refusals + 1
  /\ sources' = [sources EXCEPT ![refresh.next] = [status |-> "error", symbols |-> Kept(@)]]
  /\ refresh' = AfterProvider
  /\ UNCHANGED <<process, listing, answers, dailyTimer, file, tmpFile, crashes>>

(* persist(): the whole state to a temporary file, which then takes the    *)
(* place of the old one.                                                   *)
WriteBegins ==
  /\ refresh.phase = "write"
  /\ tmpFile' = Torn
  /\ refresh' = [refresh EXCEPT !.phase = "writing"]
  /\ UNCHANGED <<process, listing, answers, sources, dailyTimer, file, crashes, refusals>>

WriteEnds ==
  /\ refresh.phase = "writing"
  /\ tmpFile' = Saved(sources)
  /\ refresh' = [refresh EXCEPT !.phase = "rename"]
  /\ UNCHANGED <<process, listing, answers, sources, dailyTimer, file, crashes, refusals>>

(* The refresh is over, also if it could not be persisted: the timer that  *)
(* awaited it is armed again, even after stop().                           *)
NotRearmed == dailyTimer
Rearmed == IF dailyTimer = "fired" THEN "armed" ELSE dailyTimer

Renamed ==
  /\ refresh.phase = "rename"
  /\ file' = tmpFile
  /\ tmpFile' = NoFile
  /\ refresh' = NoRefresh
  /\ dailyTimer' = Rearmed
  /\ UNCHANGED <<process, listing, answers, sources, crashes, refusals>>

PersistFails ==
  /\ refresh.phase \in {"write", "writing", "rename"}
  /\ refusals < MaxRefusals
  /\ refusals' = refusals + 1
  /\ refresh' = NoRefresh
  /\ dailyTimer' = Rearmed
  /\ UNCHANGED <<process, listing, answers, sources, file, tmpFile, crashes>>

StopCache ==
  /\ process = "up"
  /\ process' = "stopped"
  /\ dailyTimer' = IF dailyTimer = "armed" THEN "none" ELSE dailyTimer
  /\ UNCHANGED <<listing, answers, sources, refresh, file, tmpFile, crashes, refusals>>

(* The process ends wherever it is, and another one starts.                *)
ProcessEnds ==
  /\ process # "down"
  /\ crashes < MaxCrashes
  /\ crashes' = crashes + 1
  /\ process' = "down"
  /\ sources' = Empty
  /\ refresh' = NoRefresh
  /\ dailyTimer' = "none"
  /\ UNCHANGED <<listing, answers, file, tmpFile, refusals>>

CacheNext ==
  \/ \E s \in Source : ListingChanges(s)
  \/ LoadFromDisk \/ StartCache \/ TimerFires \/ RefreshAsked
  \/ Fetched \/ FetchedShort \/ ProviderFails
  \/ WriteBegins \/ WriteEnds \/ Renamed \/ PersistFails \/ StopCache \/ ProcessEnds

(* Timers fire; a fetch is answered or times out, the file system answers. *)
CacheFairness ==
  /\ WF_cacheVars(TimerFires)
  /\ WF_cacheVars(Fetched)
  /\ WF_cacheVars(WriteBegins)
  /\ WF_cacheVars(WriteEnds)
  /\ WF_cacheVars(Renamed)

CacheSpec == CacheInit /\ [][CacheNext]_cacheVars /\ CacheFairness

-----------------------------------------------------------------------------
CacheTypeOK ==
  /\ process \in {"down", "loaded", "up", "stopped"}
  /\ \A s \in Source : /\ sources[s].status \in {"idle", "ok", "error"}
                       /\ sources[s].symbols \in 0..Len(answers[s])
                       /\ answers[s] \in Seq(0..MaxListing)
  /\ refresh.phase \in {"none", "fetch", "write", "writing", "rename"}
  /\ dailyTimer \in {"none", "armed", "fired"}

(* What a provider answered gives way to nothing but a later answer of the *)
(* same provider: failing providers, failing disks and crashes in the      *)
(* middle of a write leave a file that parses and goes back for no source, *)
(* and what is served is no older than the file.                           *)
ListingsAreNeverLost ==
  [][/\ file'.state # "torn"
     /\ \A s \in Source :
          /\ file'.sources[s].symbols >= file.sources[s].symbols
          /\ process' # "down" => sources'[s].symbols >= file'.sources[s].symbols]_cacheVars

(* While the server runs, a listing that changed is fetched in the end:    *)
(* refreshes go on whatever the ones before came to.                       *)
HasListing(s) == sources[s].symbols # 0 /\ answers[s][sources[s].symbols] = listing[s]
ListingsAreFetched == \A s \in Source : process = "up" ~> HasListing(s) \/ process # "up"
=============================================================================
