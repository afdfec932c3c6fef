--------------------------- MODULE SpotPerformance ---------------------------
(***************************************************************************)
(* SpotPerformanceService (apps/server/src/exchanges/spotPerformance.ts)   *)
(* for one exchange: two caches filled over REST, single flight, and a     *)
(* socket whose messages are merged into the first of them.  Providers do  *)
(* not interact, so one is enough.  A ticker is the version of its price   *)
(* at the exchange; TickerFetch has what is computed from tickers.         *)
(***************************************************************************)
EXTENDS Naturals, Sequences, FiniteSets, Functions

CONSTANTS
  Symbols,       \* symbols of one exchange, each a chunk of the subscription
  MaxVersion, MaxWire, MaxLosses, MaxFailures    \* bounds of the model

ASSUME SpotAssumption ==
  /\ {MaxVersion, MaxWire, MaxLosses, MaxFailures} \subseteq Nat
  /\ IsFiniteSet(Symbols)

VARIABLES
  subscribing,     \* Bybit and OKX subscribe; the Binance stream has every symbol
  live,            \* liveStarted: "idle" before start(), "started", "stopped"
  quotes,          \* the exchange: the version of each ticker
  cache,           \* cache and utcDayCache: tickers, and whether they have expired
  request,         \* inFlight and utcDayInFlight, with the answer once it is given
  priming,         \* the requests primeAndConnect() awaits, or NotPriming
  socket,          \* "none", "connecting", "open", "closing" after stop()
  chunks,          \* subscription timers
  subscribed,      \* the exchange: what this connection is sent
  unsent,          \* the exchange: of these, the tickers it has not been sent yet
  wire,            \* messages on their way
  reconnectTimer,  \* "none" or "armed"
  updateTimer,
  losses, failures

exchangeVars == <<subscribing, quotes>>
restVars == <<cache, request, failures>>
socketVars == <<socket, chunks, subscribed, unsent, wire, losses>>
timerVars == <<reconnectTimer, updateTimer>>
spotVars == <<exchangeVars, live, restVars, priming, socketVars, timerVars>>

Kinds == {"rolling", "utcDay"}
NotPriming == {"not priming"}
NoTickers == [tickers |-> <<>>, fresh |-> FALSE]
Idle == [phase |-> "none", tickers |-> <<>>]

SpotInit ==
  /\ subscribing \in BOOLEAN
  /\ live = "idle"
  /\ quotes = [s \in Symbols |-> 0]
  /\ cache = [k \in Kinds |-> NoTickers]
  /\ request = [k \in Kinds |-> Idle]
  /\ priming = NotPriming
  /\ socket = "none"
  /\ chunks = {}
  /\ subscribed = {}
  /\ unsent = {}
  /\ wire = <<>>
  /\ reconnectTimer = "none"
  /\ updateTimer = FALSE
  /\ losses = 0
  /\ failures = 0

-----------------------------------------------------------------------------
(* The exchange and the clock *)

PriceMoves(s) ==
  /\ quotes[s] < MaxVersion
  /\ quotes' = [quotes EXCEPT ![s] = @ + 1]
  /\ unsent' = unsent \cup ({s} \cap subscribed)
  /\ UNCHANGED <<subscribing, live, restVars, priming, socket, chunks, subscribed, wire, losses,
                 timerVars>>

MessageSent(s) ==
  /\ s \in unsent
  /\ Len(wire) < MaxWire
  /\ wire' = Append(wire, [symbol |-> s, version |-> quotes[s]])
  /\ unsent' = unsent \ {s}
  /\ UNCHANGED <<live, exchangeVars, restVars, priming, socket, chunks, subscribed, losses,
                 timerVars>>

Expires(k) ==
  /\ cache[k].fresh
  /\ cache' = [cache EXCEPT ![k].fresh = FALSE]
  /\ UNCHANGED <<live, exchangeVars, request, failures, priming, socketVars, timerVars>>

-----------------------------------------------------------------------------
(* REST: getProviderResult() and getUtcDayProviderResult() *)

(* A call awaits the request under way, or starts one if the cache is not  *)
(* fresh.                                                                  *)
Stale == {k \in Kinds : ~cache[k].fresh}
Requested ==
  [k \in Kinds |-> IF k \in Stale /\ request[k] = Idle THEN [Idle EXCEPT !.phase = "asked"]
                   ELSE request[k]]

(* GET /api/spot-performance: the routes are there after start().          *)
GetPerformance ==
  /\ live # "idle"
  /\ Requested # request
  /\ request' = Requested
  /\ UNCHANGED <<live, exchangeVars, cache, failures, priming, socketVars, timerVars>>

(* The tickers of the UTC day have no other source: they are not followed. *)
Answer(k) == IF k = "rolling" THEN quotes ELSE <<>>

Answered(k) ==
  /\ request[k].phase = "asked"
  /\ request' = [request EXCEPT ![k] = [phase |-> "answered", tickers |-> Answer(k)]]
  /\ UNCHANGED <<live, exchangeVars, cache, failures, priming, socketVars, timerVars>>

(* The finally of the call deletes the entry, and the awaiting calls go on.*)
LeftOnFailure(k, ok) == [request EXCEPT ![k] = IF ok THEN Idle ELSE [@ EXCEPT !.phase = "failed"]]
Deleted(k, ok) == [request EXCEPT ![k] = Idle]
NoLongerAwaits(k) == IF priming = NotPriming THEN priming ELSE priming \ {k}

AnswerReceived(k) ==
  /\ request[k].phase = "answered"
  /\ cache' = [cache EXCEPT ![k] = [tickers |-> request[k].tickers, fresh |-> TRUE]]
  /\ request' = Deleted(k, TRUE)
  /\ priming' = NoLongerAwaits(k)
  /\ UNCHANGED <<live, exchangeVars, failures, socketVars, timerVars>>

(* What is cached when the request fails stays, messages merged meanwhile  *)
(* included; with nothing cached the entry expires sooner.                 *)
RequestFails(k) ==
  /\ request[k].phase \in {"asked", "answered"}
  /\ failures < MaxFailures
  /\ failures' = failures + 1
  /\ cache' = [cache EXCEPT ![k].fresh = TRUE]
  /\ request' = Deleted(k, FALSE)
  /\ priming' = NoLongerAwaits(k)
  /\ UNCHANGED <<live, exchangeVars, socketVars, timerVars>>

-----------------------------------------------------------------------------
(* The socket *)

(* primeAndConnect() asks both caches, and goes on at once if they are     *)
(* fresh.                                                                  *)
Prime ==
  /\ request' = Requested
  /\ priming' = Stale

Start ==
  /\ live = "idle"
  /\ live' = "started"
  /\ Prime
  /\ UNCHANGED <<exchangeVars, cache, failures, socketVars, timerVars>>

ConnectsAnyway == TRUE
Connects == live = "started"

(* Both answered: an update is due, and unless stop() came first a socket. *)
PrimeContinues ==
  /\ priming = {}
  /\ priming' = NotPriming
  /\ updateTimer' = TRUE
  /\ socket' = IF Connects /\ socket \in {"none", "closing"} THEN "connecting" ELSE socket
  /\ UNCHANGED <<live, exchangeVars, restVars, chunks, subscribed, unsent, wire, losses,
                 reconnectTimer>>

(* connectSocket(), on open: a timer per chunk of what is cached then.     *)
SocketOpens ==
  /\ socket = "connecting"
  /\ socket' = "open"
  /\ chunks' = IF subscribing THEN DOMAIN cache["rolling"].tickers ELSE {}
  /\ subscribed' = IF subscribing THEN {} ELSE Symbols
  /\ UNCHANGED <<live, exchangeVars, restVars, priming, unsent, wire, losses, timerVars>>

ChunkSent(s) ==
  /\ s \in chunks
  /\ chunks' = chunks \ {s}
  /\ subscribed' = IF socket = "open" THEN subscribed \cup {s} ELSE subscribed
  /\ unsent' = IF socket = "open" THEN unsent \cup {s} ELSE unsent
  /\ UNCHANGED <<live, exchangeVars, restVars, priming, socket, wire, losses, timerVars>>

(* updateLiveTickers(): merged, fresh again, published in a while.  The    *)
(* Binance handler looks only at symbols that are cached.                  *)
Merges(s) == subscribing \/ s \in DOMAIN cache["rolling"].tickers
MessageReceived ==
  /\ wire # <<>>
  /\ wire' = Tail(wire)
  /\ LET s == Head(wire).symbol
         tickers == cache["rolling"].tickers
     IN IF Merges(s)
        THEN /\ cache' = [cache EXCEPT !["rolling"] =
                            [tickers |-> [x \in DOMAIN tickers \cup {s} |->
                                            IF x = s THEN Head(wire).version ELSE tickers[x]],
                             fresh |-> TRUE]]
             /\ updateTimer' = TRUE
        ELSE UNCHANGED <<cache, updateTimer>>
  /\ UNCHANGED <<live, exchangeVars, request, failures, priming, socket, chunks, subscribed, unsent,
                 losses, reconnectTimer>>

(* The close event, of a connection that broke, could not be made, or that *)
(* stop() closed.                                                          *)
SocketCloses ==
  /\ socket \in {"connecting", "open", "closing"}
  /\ socket # "closing" => losses < MaxLosses
  /\ losses' = IF socket = "closing" THEN losses ELSE losses + 1
  /\ socket' = "none"
  /\ subscribed' = {}
  /\ unsent' = {}
  /\ wire' = <<>>
  /\ reconnectTimer' = IF live = "started" THEN "armed" ELSE reconnectTimer
  /\ UNCHANGED <<live, exchangeVars, restVars, priming, chunks, updateTimer>>

ReconnectFires ==
  /\ reconnectTimer = "armed"
  /\ reconnectTimer' = "none"
  /\ Prime
  /\ UNCHANGED <<live, exchangeVars, cache, failures, socketVars, updateTimer>>

(* The emitted update is a view of the cache: SseHub sends it on.          *)
UpdateFires ==
  /\ updateTimer
  /\ updateTimer' = FALSE
  /\ UNCHANGED <<live, exchangeVars, restVars, priming, socketVars, reconnectTimer>>

Stop ==
  /\ live = "started"
  /\ live' = "stopped"
  /\ reconnectTimer' = "none"
  /\ updateTimer' = FALSE
  /\ chunks' = {}
  /\ socket' = IF socket = "none" THEN "none" ELSE "closing"
  /\ UNCHANGED <<exchangeVars, restVars, priming, subscribed, unsent, wire, losses>>

SpotNext ==
  \/ \E s \in Symbols : PriceMoves(s) \/ MessageSent(s) \/ ChunkSent(s)
  \/ \E k \in Kinds : Expires(k) \/ Answered(k) \/ AnswerReceived(k) \/ RequestFails(k)
  \/ GetPerformance \/ Start \/ PrimeContinues \/ SocketOpens \/ MessageReceived \/ SocketCloses
  \/ ReconnectFires \/ UpdateFires \/ Stop

SpotSpec == SpotInit /\ [][SpotNext]_spotVars

(* Time passes, timers fire, browsers ask; an HTTP request is answered or  *)
(* times out, a promise that settles goes on, what was sent arrives.       *)
SpotFairness ==
  /\ \A k \in Kinds : /\ WF_spotVars(Expires(k))
                      /\ WF_spotVars(Answered(k))
                      /\ WF_spotVars(AnswerReceived(k))
  /\ WF_spotVars(GetPerformance)
  /\ WF_spotVars(PrimeContinues)
  /\ WF_spotVars(MessageReceived)
  /\ WF_spotVars(ReconnectFires)

-----------------------------------------------------------------------------
SpotTypeOK ==
  /\ subscribing \in BOOLEAN
  /\ live \in {"idle", "started", "stopped"}
  /\ quotes \in [Symbols -> 0..MaxVersion]
  /\ \A k \in Kinds : /\ cache[k].fresh \in BOOLEAN
                      /\ DOMAIN cache[k].tickers \subseteq Symbols
                      /\ request[k].phase \in {"none", "asked", "answered"}
  /\ priming = NotPriming \/ priming \subseteq Kinds
  /\ socket \in {"none", "connecting", "open", "closing"}
  /\ chunks \cup subscribed \cup unsent \subseteq Symbols
  /\ unsent \subseteq subscribed
  /\ Len(wire) <= MaxWire
  /\ reconnectTimer \in {"none", "armed"}
  /\ updateTimer \in BOOLEAN

(* After stop() nothing is connected or subscribed again, neither by a     *)
(* call of primeAndConnect() that was waiting for REST, nor by the close   *)
(* event that stop() itself causes.                                        *)
QuietAfterStop ==
  live = "stopped" => socket \in {"none", "closing"} /\ reconnectTimer = "none" /\ chunks = {}

(* A connection lost while started is made again, REST failures, further   *)
(* losses and the requests of browsers in between.                         *)
StaysConnected == socket = "none" /\ live # "idle" ~> socket # "none" \/ live = "stopped"

(* Once started, and when prices rest, whatever was cached meanwhile - an  *)
(* answer older than messages already merged, a failed request, messages   *)
(* for symbols not cached yet - gives way to the prices of the exchange.   *)
SettledPricesAreServed == <>[](live # "idle" => cache["rolling"].tickers = quotes)
=============================================================================
