------------------------------ MODULE MarketData ------------------------------
(***************************************************************************)
(* Prices and forward returns: the collector                               *)
(* (market/priceCollectionService.ts, priceProviders.ts), the labeller     *)
(* (market/forwardReturnWorker.ts) and their tables                        *)
(* (db/marketDataRepository.ts).  The collector fetches a tick for each of *)
(* its targets, one after the other; the labeller gives every event entry  *)
(* and every score snapshot a row per horizon and fills it in from the     *)
(* tick at or before the base time and the one at or after the target.     *)
(*                                                                         *)
(* A market stands for exchange, market and symbol, the names under which  *)
(* ticks are stored and looked up.  A tick is its market and source time:  *)
(* prices are abstracted, see Backtest for what is computed from them.     *)
(***************************************************************************)
EXTENDS Integers, Sequences, FiniteSets, FiniteSetsExt, SequencesExt, Collections

CONSTANTS
  Coins,
  Listed,            \* markets in the symbol cache, of an exchange and coin the one with the
                     \* first quote: a sequence in the order of their priority
  CoinOf(_),
  Named,             \* bound of the model: markets that entries name, listed or not
  ScoreMarket(_),    \* binance, spot, coin || 'USDT'
  Scored,            \* getTopScoredCoins()
  MaxTargets,        \* maxTargets, of coins and of targets
  CoinTtl,           \* activeCoinTtlMs
  Horizons,          \* horizonsMinutes
  Skew,              \* maxPriceSkewMs
  BatchSize,
  Answering,         \* bound of the model: markets that ever have an answer
  Late,              \* bound of the model: the age of the oldest tick that is answered
  MaxClock, MaxSources, MaxTicks, MaxFaults    \* bounds of the model

ASSUME MarketDataAssumption ==
  /\ IsFiniteSet(Coins)
  /\ Listed \in Seq(Range(Listed))
  /\ Scored \in Seq(Coins)
  /\ \A m \in Named \cup Range(Listed) : CoinOf(m) \in Coins
  /\ {MaxTargets, CoinTtl, Skew, BatchSize, Late, MaxClock, MaxSources, MaxTicks, MaxFaults}
       \cup Horizons \subseteq Nat

VARIABLES
  clock,
  sources,     \* event entries and score snapshots, as stored
  activeCoins, \* when each coin was last seen, or Never
  ticks,       \* price_ticks
  collector,   \* the collection under way
  labels,      \* forward_returns: rows by source and horizon
  labeller,    \* the labelling run under way
  faults       \* failed statements so far

marketVars == <<clock, sources, activeCoins, ticks, collector, labels, labeller, faults>>

Never == -1
NoTick == -1
IdleCollector == [phase |-> "idle", since |-> 0, seen |-> <<>>, memory |-> <<>>, targets |-> <<>>]
IdleLabeller == [phase |-> "idle", due |-> <<>>]

MarketInit ==
  /\ clock = 0
  /\ sources = <<>>
  /\ activeCoins = [c \in Coins |-> Never]
  /\ ticks = {}
  /\ collector = IdleCollector
  /\ labels = <<>>
  /\ labeller = IdleLabeller
  /\ faults = 0

-----------------------------------------------------------------------------
(* What the rest of the server does *)

Tick ==
  /\ clock < MaxClock
  /\ clock' = clock + 1
  /\ UNCHANGED <<sources, activeCoins, ticks, collector, labels, labeller, faults>>

(* Bound of the model: at the last instant nothing new begins, what is     *)
(* under way goes on.                                                      *)
TimeIsLeft == clock < MaxClock

Pruned(seen) ==
  [c \in Coins |-> IF seen[c] # Never /\ seen[c] + CoinTtl < clock THEN Never ELSE seen[c]]

(* An event is received, markActiveCoins(), and its entry stored.          *)
EventStored(m) ==
  /\ Len(sources) < MaxSources
  /\ TimeIsLeft
  /\ sources' = Append(sources, [kind |-> "entry", market |-> m, at |-> clock])
  /\ activeCoins' = Pruned([activeCoins EXCEPT ![CoinOf(m)] = clock])
  /\ UNCHANGED <<clock, ticks, collector, labels, labeller, faults>>

(* The score worker writes a snapshot.                                     *)
SnapshotStored(c) ==
  /\ Len(sources) < MaxSources
  /\ TimeIsLeft
  /\ sources' = Append(sources, [kind |-> "score", market |-> ScoreMarket(c), at |-> clock])
  /\ UNCHANGED <<clock, activeCoins, ticks, collector, labels, labeller, faults>>

-----------------------------------------------------------------------------
(* The collector *)

(* Coins in memory, the last seen first; equals in any order.              *)
OldestFirst(seen, list) == \A i, j \in DOMAIN list : i < j => seen[list[i]] <= seen[list[j]]
LatestFirst(seen, list) == \A i, j \in DOMAIN list : i < j => seen[list[i]] >= seen[list[j]]
MemoryCoins(seen) ==
  LET known == {c \in Coins : seen[c] # Never}
  IN {list \in Bijection(1..Cardinality(known), known) : LatestFirst(seen, list)}

(* setInterval: a tick during a collection is turned away.                 *)
CollectFires ==
  /\ TimeIsLeft
  /\ collector.phase = "idle"
  /\ LET seen == Pruned(activeCoins) IN
       /\ activeCoins' = seen
       /\ \E list \in MemoryCoins(seen) :
            collector' = [IdleCollector EXCEPT !.phase = "resolving", !.since = clock - CoinTtl,
                                               !.seen = seen, !.memory = list]
  /\ UNCHANGED <<clock, sources, ticks, labels, labeller, faults>>

(* list.indexOf(x), and [...new Set(list)].                                *)
IndexOf(list, x) == Min({i \in DOMAIN list : list[i] = x})
Distinct(list) == SortedBy([x \in Range(list) |-> <<IndexOf(list, x)>>])

(* getRecentlyActiveCoins(): those of the stored entries, the latest first *)
(* and of these the one with more entries.                                 *)
EntriesSince(since) == {i \in DOMAIN sources : sources[i].kind = "entry" /\ sources[i].at >= since}
EntriesOf(c, since) == {i \in EntriesSince(since) : CoinOf(sources[i].market) = c}
RecentCoins(since) ==
  SortedBy([c \in {d \in Coins : EntriesOf(d, since) # {}} |->
              <<-Max({sources[i].at : i \in EntriesOf(c, since)}),
                -Cardinality(EntriesOf(c, since))>>])

(* At most maxTargets coins, those in memory before all others.            *)
ActiveCoins(memory, scored, recent) ==
  FirstOf(Distinct(memory \o (scored \o recent)), MaxTargets)

(* buildPriceTargets(): by the place of the coin, then in the order of the *)
(* symbol cache, where quotes and venues of a coin have their priority.    *)
Targets(coins) ==
  FirstOf(SortedBy([m \in {n \in Range(Listed) : CoinOf(n) \in Range(coins)} |->
                      <<IndexOf(coins, CoinOf(m)), IndexOf(Listed, m)>>]), MaxTargets)

Fetching(targets) ==
  IF targets = <<>> THEN IdleCollector
  ELSE [IdleCollector EXCEPT !.phase = "fetching", !.targets = targets]

(* Either query may fail and then counts as empty.                         *)
Resolved ==
  /\ collector.phase = "resolving"
  /\ \E scored \in {<<>>, Scored}, recent \in {<<>>, RecentCoins(collector.since)} :
       collector' = Fetching(Targets(ActiveCoins(collector.memory, scored, recent)))
  /\ UNCHANGED <<clock, sources, activeCoins, ticks, labels, labeller, faults>>

(* A target has an answer that the exchange stamps, is skipped or fails.   *)
Fetched ==
  /\ collector.phase = "fetching"
  /\ \/ UNCHANGED ticks
     \/ /\ Head(collector.targets) \in Answering
        /\ Cardinality(ticks) < MaxTicks
        /\ \E age \in 0..Late :
             /\ age <= clock
             /\ ticks' = ticks \cup {[market |-> Head(collector.targets), at |-> clock - age]}
  /\ collector' = Fetching(Tail(collector.targets))
  /\ UNCHANGED <<clock, sources, activeCoins, labels, labeller, faults>>

-----------------------------------------------------------------------------
(* The labeller *)

(* The newest batchSize of each kind; equals in any order.                 *)
OfKind(kind) == {i \in DOMAIN sources : sources[i].kind = kind}
NewerThan(i, S) == {j \in S : sources[j].at > sources[i].at}
Newest(S) ==
  {T \in SUBSET S : /\ Cardinality(T) = Min({Cardinality(S), BatchSize})
                    /\ \A i \in T : NewerThan(i, S) \subseteq T}

(* on conflict do update changes nothing that has a value.                 *)
Pending(l) == [status |-> "pending", base |-> sources[l[1]].at, future |-> NoTick]
Seeded(S) ==
  LET rows == (S \X Horizons) \cup DOMAIN labels IN
  [l \in rows |-> IF l \in DOMAIN labels THEN labels[l] ELSE Pending(l)]

LabelFires ==
  /\ labeller.phase = "idle"
  /\ labeller' = [labeller EXCEPT !.phase = "seeded"]
  /\ UNCHANGED <<clock, sources, activeCoins, ticks, collector, faults>>
  /\ \E E \in Newest(OfKind("entry")), S \in Newest(OfKind("score")) : labels' = Seeded(E \cup S)

TargetOf(l) == sources[l[1]].at + l[2]
AtOf(l) == sources[l[1]].at
OnlyOnce == {"pending"}
Retried == {"pending", "missing_base_price", "missing_future_price"}
IsDue(l) == labels[l].status \in Retried /\ TargetOf(l) <= clock

OldestDue(rows, D) == \A l \in rows, m \in D \ rows : AtOf(l) <= AtOf(m)
DueInOrder(rows) ==
  SetToSortSeq(rows, LAMBDA l, m : \/ AtOf(l) < AtOf(m)
                                   \/ AtOf(l) = AtOf(m) /\ l[1] < m[1]
                                   \/ l[1] = m[1] /\ l[2] < m[2])
DueRead ==
  /\ labeller.phase = "seeded"
  /\ UNCHANGED <<clock, sources, activeCoins, ticks, collector, labels, faults>>
  /\ LET D == {l \in DOMAIN labels : IsDue(l)} IN
       \E rows \in SUBSET D :
         /\ Cardinality(rows) = Min({Cardinality(D), BatchSize})
         /\ OldestDue(rows, D)
         /\ labeller' = IF rows = {} THEN IdleLabeller
                        ELSE [phase |-> "labelling", due |-> DueInOrder(rows)]

(* findNearestPrice(), both limits included.                               *)
At(m) == {t.at : t \in {u \in ticks : u.market = m}}
Before(m, ts) == {t \in At(m) : t < ts /\ t >= ts - Skew}
AtOrBefore(m, ts) == {t \in At(m) : t <= ts /\ t >= ts - Skew}
AtOrAfter(m, ts) == {t \in At(m) : t >= ts /\ t <= ts + Skew}

(* The base time of the row is replaced by that of the base tick.          *)
Labelled(l) ==
  LET m == sources[l[1]].market
      base == AtOrBefore(m, labels[l].base)
      future == AtOrAfter(m, TargetOf(l))
  IN [status |-> IF base = {} THEN "missing_base_price"
                 ELSE IF future = {} THEN "missing_future_price" ELSE "ready",
      base |-> IF base = {} THEN labels[l].base ELSE Max(base),
      future |-> IF future = {} THEN NoTick ELSE Min(future)]

RowDone == IF Len(labeller.due) = 1 THEN IdleLabeller ELSE [labeller EXCEPT !.due = Tail(@)]

(* The queries of a row and its update are one step: only ticks are added  *)
(* between them, which the next row may as well not have seen.             *)
RowLabelled ==
  /\ labeller.phase = "labelling"
  /\ labeller' = RowDone
  /\ UNCHANGED <<clock, sources, activeCoins, ticks, collector, faults>>
  /\ LET l == Head(labeller.due) IN labels' = [labels EXCEPT ![l] = Labelled(l)]

(* A statement throws: the row is marked and never due again.  When the    *)
(* statement that marks it throws as well, the run ends there.             *)
RowFails ==
  /\ labeller.phase = "labelling"
  /\ faults < MaxFaults
  /\ faults' = faults + 1
  /\ LET l == Head(labeller.due) IN
       \/ /\ labels' = [labels EXCEPT ![l].status = "error", ![l].future = NoTick]
          /\ labeller' = RowDone
       \/ /\ labeller' = IdleLabeller
          /\ UNCHANGED labels
  /\ UNCHANGED <<clock, sources, activeCoins, ticks, collector>>

MarketNext ==
  \/ Tick
  \/ \E m \in Named : EventStored(m)
  \/ \E c \in Range(Scored) : SnapshotStored(c)
  \/ CollectFires \/ Resolved \/ Fetched
  \/ LabelFires \/ DueRead \/ RowLabelled \/ RowFails

(* The interval timer of the labeller, and a database that answers.        *)
LabellerFairness == WF_marketVars(LabelFires \/ DueRead \/ RowLabelled)

MarketSpec == MarketInit /\ [][MarketNext]_marketVars
FairSpec == MarketSpec /\ LabellerFairness

-----------------------------------------------------------------------------
(* However often a row was tried before, its return runs from a tick at    *)
(* most Skew before its event to one at most Skew after its target: the    *)
(* base time that each try replaces does not wander off into the past.     *)
ReturnSpansTheHorizon ==
  \A l \in DOMAIN labels :
    labels[l].status = "ready" =>
      /\ labels[l].base \in (AtOf(l) - Skew)..AtOf(l)
      /\ labels[l].future \in TargetOf(l)..(TargetOf(l) + Skew)
      /\ \A t \in {labels[l].base, labels[l].future} : t \in At(sources[l[1]].market)

(* A collection leaves out a market of a coin it has in memory only in     *)
(* favour of maxTargets markets of coins, or of as many other coins, that  *)
(* were seen as recently: coins without a market take places of those that *)
(* have one, scores and stored entries never do.                           *)
SeenAsLately(c) == {d \in Coins \ {c} : collector.seen[d] >= collector.seen[c]}
LeftOutForRecentOnes(m, chosen) ==
  \/ /\ Cardinality(chosen) = MaxTargets
     /\ \A t \in chosen : collector.seen[CoinOf(t)] >= collector.seen[CoinOf(m)]
  \/ Cardinality(SeenAsLately(CoinOf(m))) >= MaxTargets
RecentCoinsArePriced ==
  [][collector.phase = "resolving" /\ collector' # collector =>
       LET chosen == Range(collector'.targets) IN
       \A m \in Range(Listed) \ chosen :
         collector.seen[CoinOf(m)] # Never => LeftOutForRecentOnes(m, chosen)]_marketVars

(* A row whose two prices are there is labelled, unless                    *)
Priced(i, h) ==
  /\ i \in DOMAIN sources
  /\ sources[i].at + h <= clock
  /\ AtOrBefore(sources[i].market, sources[i].at) # {}
  /\ AtOrAfter(sources[i].market, sources[i].at + h) # {}

(* ... it was never seeded, as batchSize newer ones of its kind came;      *)
Buried(i) ==
  i \in DOMAIN sources =>
    LET newer == {j \in OfKind(sources[i].kind) \ {i} : sources[j].at >= sources[i].at}
    IN Cardinality(newer) >= BatchSize

(* ... or rows as old that never get a price fill every batch;             *)
Starved(i) ==
  i \in DOMAIN sources =>
    LET ahead == {l \in DOMAIN labels : /\ IsDue(l)
                                        /\ AtOf(l) <= sources[i].at
                                        /\ ~Priced(l[1], l[2])}
    IN Cardinality(ahead) >= BatchSize

(* ... or a statement failed on it.                                        *)
Settled(l) == l \in DOMAIN labels /\ labels[l].status \in {"ready", "error"}
PricedIsLabelled ==
  \A i \in 1..MaxSources, h \in Horizons :
    Priced(i, h) ~> Settled(<<i, h>>) \/ (<<i, h>> \notin DOMAIN labels /\ Buried(i)) \/ Starved(i)

(* scoreLabelJoinCondition() of the backtest joins a snapshot with its     *)
(* label when the base time is not before the snapshot.  The documented    *)
(* intent: only labels that were complete before the score are left out.   *)
Joined(l) == labels[l].base >= AtOf(l)
LabelsAfterTheScoreCount ==
  \A l \in DOMAIN labels :
    sources[l[1]].kind = "score" /\ labels[l].status = "ready" /\ labels[l].future >= AtOf(l)
      => Joined(l)
=============================================================================
