------------------------------- MODULE Backtest -------------------------------
(***************************************************************************)
(* Backtests: what db/backtestRepository.ts asks of the snapshots, their   *)
(* evidence and the forward returns that label them, for the routes        *)
(* /api/backtest/* of http/routes.ts, backtestService.ts and backtest/cli. *)
(*                                                                         *)
(* A label is the row of forward_returns for a snapshot and a horizon; how *)
(* it comes about is MarketData's subject.  Averages, medians and rates    *)
(* are given by the counts and sums they are taken of; the adverse moves,  *)
(* averaged the same way, are left out, as is the limit on rules.          *)
(***************************************************************************)
EXTENDS ScoreReads

CONSTANTS
  Horizons,   \* forwardReturnHorizonsMinutes
  Returns,    \* bound of the model: the returns a price can make
  MaxLabels   \* bound of the model: labels written

VARIABLES labels, labelled

(* lag: how long before the snapshot the price was taken that the return   *)
(* starts from.                                                            *)
Outcomes == {[status |-> "pending", return |-> Null, lag |-> 0]} \cup
            [status : {"ready"}, return : Returns, lag : {0, 1}]

LabelsOf(s, h) == {l \in labels : l.snapshot = SnapshotId(s) /\ l.horizon = h}

BacktestInit == Init /\ labels = {} /\ labelled = 0

(* The labeller of MarketData inserts a row and updates it until ready. *)
Label(s, h, outcome) ==
  /\ labelled < MaxLabels
  /\ \A l \in LabelsOf(s, h) : l.status # "ready"
  /\ outcome.status = "ready" => s.ts + h <= clock
  /\ labels' = (labels \ LabelsOf(s, h)) \cup
                 {With([snapshot |-> SnapshotId(s), horizon |-> h], outcome)}
  /\ labelled' = labelled + 1
  /\ UNCHANGED scoreVars

BacktestNext ==
  \/ Next /\ UNCHANGED <<labels, labelled>>
  \/ \E s \in snapshots, h \in Horizons, outcome \in Outcomes : Label(s, h, outcome)

BacktestSpec == BacktestInit /\ [][BacktestNext]_<<scoreVars, labels, labelled>>

-----------------------------------------------------------------------------
(* Samples *)

(* resolveBacktestBaseQuery() turns any other query away. *)
Accepts(q) ==
  /\ q.horizons \subseteq Horizons
  /\ Null \notin {q.from, q.to} => q.from < q.to

Sides(side) == CASE side = "bull" -> {"bull"} [] side = "bear" -> {"bear", "risk"}
                 [] side = "net" -> {"bull", "bear", "risk"}

ScoreValue(s, side) ==
  CASE side = "bull" -> s.bull [] side = "bear" -> s.bear [] side = "net" -> Size(s.net)

Sign(n) == IF n > 0 THEN 1 ELSE IF n < 0 THEN -1 ELSE 0
Direction(s, side) == CASE side = "bull" -> 1 [] side = "bear" -> -1 [] side = "net" -> Sign(s.net)

SnapshotsFor(q) ==
  {s \in snapshots :
     /\ s.version = q.version
     /\ q.from # Null => s.ts >= q.from
     /\ q.to # Null => s.ts < q.to
     /\ q.minConfidence > 0 => s.confidence >= q.minConfidence
     /\ q.minAbsScore > 0 => ScoreValue(s, q.side) >= q.minAbsScore}

(* The backtests count funding as a perpetual market, the score lists do not. *)
ConcernsBacktest(e, q) ==
  \/ Concerns(e, q)
  \/ /\ q.exchange # None => e.exchange = q.exchange
     /\ q.market = "perpetual"
     /\ e.feed = "top_funding"

JoinedEvidence(s, q) ==
  {e \in EvidenceOf(s) : e.ts = s.ts /\ e.at <= s.ts /\ ConcernsBacktest(e, q)}

HasEvidenceOn(s, q, sides) == \E e \in JoinedEvidence(s, q) : e.side \in sides

(* A snapshot and a horizon, with the label the two have by now.  A return *)
(* that starts before the snapshot is not joined.                          *)
Sample(s, h, direction) ==
  LET found == {l \in LabelsOf(s, h) : l.lag = 0}
      label == IF found = {} THEN [status |-> "missing_label", return |-> Null]
               ELSE CHOOSE l \in found : TRUE
  IN [snapshot |-> s, horizon |-> h, status |-> label.status, return |-> label.return,
      directional |-> IF label.status # "ready" THEN Null ELSE direction * label.return]

Samples(q) ==
  {Sample(s, h, Direction(s, q.side)) :
     s \in {s \in SnapshotsFor(q) : HasEvidenceOn(s, q, Sides(q.side))}, h \in q.horizons}

-----------------------------------------------------------------------------
(* getSummary(), getPrecisionByThreshold(), getScoreBuckets() *)

Ready(samples) == {s \in samples : s.status = "ready"}

Metrics(samples) ==
  LET ready == Ready(samples)
  IN [total |-> Cardinality(samples),
      samples |-> Cardinality(ready),
      pending |-> Cardinality({s \in samples : s.status = "pending"}),
      missing |-> Cardinality({s \in samples : s.status # "ready"}),
      wins |-> Cardinality({s \in ready : s.directional > 0}),
      losses |-> Cardinality({s \in ready : s.directional < 0}),
      returns |-> SumOf([s \in ready |-> s.directional])]

At(samples, h) == {s \in samples : s.horizon = h}
BacktestSummary(q, h) == Metrics(At(Samples(q), h))

PrecisionAbove(q, h, threshold) ==
  LET m == Metrics({s \in Ready(At(Samples(q), h)) : ScoreValue(s.snapshot, q.side) > threshold})
  IN [samples |-> m.samples, wins |-> m.wins, losses |-> m.losses, returns |-> m.returns]

Precision(q, h, threshold) ==
  LET m == Metrics({s \in Ready(At(Samples(q), h)) : ScoreValue(s.snapshot, q.side) >= threshold})
  IN [samples |-> m.samples, wins |-> m.wins, losses |-> m.losses, returns |-> m.returns]

(* Sizes and bounds of buckets are percents, scores are hundredths of them. *)
BucketStart(value, size) == Clamp(((value \div 100) \div size) * size, 0, 100 - size)

(* value: what each sample is sorted by *)
Buckets(value, size, minSamples) ==
  LET starts == {BucketStart(value[s], size) : s \in DOMAIN value}
      inBucket(start) == {s \in DOMAIN value : BucketStart(value[s], size) = start}
  IN {[start |-> start, end |-> start + size, metrics |-> Metrics(inBucket(start))] :
        start \in {start \in starts : Metrics(inBucket(start)).samples >= minSamples}}

ScoreBuckets(q, h) ==
  Buckets([s \in At(Samples(q), h) |-> ScoreValue(s.snapshot, q.side)], 20, q.minSamples)
ConfidenceBuckets(q, h) ==
  Buckets([s \in At(Samples(q), h) |-> s.snapshot.confidence], 25, q.minSamples)

(* Of one version less another, horizon by horizon, where both have any.   *)
ConfigComparison(q, candidate) ==
  LET other == [q EXCEPT !.version = candidate]
      both == {h \in q.horizons : At(Samples(q), h) # {} /\ At(Samples(other), h) # {}}
  IN {[horizon |-> h,
       samples |-> BacktestSummary(other, h).samples - BacktestSummary(q, h).samples] : h \in both}

-----------------------------------------------------------------------------
(* getBullBearSeparation(), getRulePerformance(), getCoinBacktest() *)

Separation(q, h, threshold) ==
  LET base == {Sample(s, h, 1) : s \in {s \in SnapshotsFor(q) :
                                           HasEvidenceOn(s, q, {"bull", "bear", "risk"})}}
      strong(value(_)) == {s \in base : value(s.snapshot) >= threshold}
      bull == strong(LAMBDA s : s.bull)
      bear == strong(LAMBDA s : s.bear)
  IN [bull |-> Metrics(bull), bear |-> Metrics(bear), conflicts |-> Cardinality(bull \cap bear)]

RuleSamples(q, h) ==
  {With([rule |-> p[2].rule, side |-> p[2].side, evidence |-> RowKey(p[2])],
        Sample(p[1], h, IF p[2].side = "bull" THEN 1 ELSE -1)) :
     p \in {p \in SnapshotsFor(q) \X evidence :
              /\ p[2] \in JoinedEvidence(p[1], q)
              /\ q.ruleSide # None => p[2].side = q.ruleSide
              /\ q.ruleKey # None => p[2].rule = q.ruleKey
              /\ p[2].contribution >= q.minContribution}}

(* diagnoseRuleFlags(): lift is the win rate less that of all signals. *)
RuleFlags(m, all, minSamples) ==
  LET lift == m.wins * all.samples - all.wins * m.samples
      harmful == m.returns < 0 /\ 20 * m.wins < 9 * m.samples
      weak == m.samples > 0 /\ m.returns <= 0 /\ lift <= 0
  IN IF m.samples < minSamples THEN {"thin_sample"}
     ELSE (IF harmful THEN {"harmful"} ELSE IF weak THEN {"weak"} ELSE {}) \cup
          (IF 10 * lift < -(m.samples * all.samples) THEN {"negative_lift"} ELSE {})

(* Before the limit on the rows of all horizons, which is left out. *)
RulePerformance(q, h) ==
  LET all == RuleSamples(q, h)
      of(rule, side) == Metrics({s \in all : s.rule = rule /\ s.side = side})
  IN {[rule |-> s.rule, side |-> s.side, metrics |-> of(s.rule, s.side),
       flags |-> RuleFlags(of(s.rule, s.side), Metrics(all), q.minSamples)] : s \in all}

(* The newest first, and of one snapshot the shortest horizon. *)
CoinOrder(s) == <<-s.snapshot.ts, s.horizon>>

(* Of the page, not of all the samples of the coin. *)
CoinSummary(page) == IF page = {} THEN None ELSE Metrics(page)

CoinBacktest(q, coin, offset, limit) ==
  LET all == {s \in Samples(q) : s.snapshot.coin = coin}
      place(s) == Cardinality({d \in all : Lower(CoinOrder(d), CoinOrder(s))})
      page == {s \in all : place(s) \in offset..(offset + limit - 1)}
  IN [total |-> IF page = {} THEN 0 ELSE Cardinality(all), results |-> page,
      summary |-> CoinSummary(page)]

-----------------------------------------------------------------------------
(* Properties *)

AnyBacktest ==
  [version |-> "", horizons |-> Horizons, side |-> "net", from |-> Null, to |-> Null,
   minConfidence |-> 0, minAbsScore |-> 0, exchange |-> None, market |-> None, minSamples |-> 1,
   ruleSide |-> None, ruleKey |-> None, minContribution |-> 0]

BacktestOf(v, side, from) == [AnyBacktest EXCEPT !.version = v, !.side = side, !.from = from]
BacktestQueries ==
  {q \in {BacktestOf(v, side, Null) : v \in Versions, side \in {"bull", "bear", "net"}} \cup
          {BacktestOf(v, "net", 1) : v \in Versions} : Accepts(q)}

SumOver(buckets) == SumOf([b \in buckets |-> b.metrics.samples])

EveryBucketAddsUp(q, h) ==
  LET samples == BacktestSummary(q, h).samples
  IN SumOver(ScoreBuckets(q, h)) = samples /\ SumOver(ConfidenceBuckets(q, h)) = samples

PrecisionAgrees(q, h, t) ==
  LET precision == Precision(q, h, t)
      above == BacktestSummary([q EXCEPT !.minAbsScore = t], h)
      separation == Separation(q, h, t)
  IN /\ precision.samples = above.samples /\ precision.wins = above.wins
     /\ q.side = "bull" => precision.samples <= separation.bull.samples
     /\ q.side = "bear" => precision.samples <= separation.bear.samples

RulesAreCredited(q, h) ==
  {r.snapshot : r \in {r \in RuleSamples(q, h) : r.side \in Sides(q.side)}}
    = {s.snapshot : s \in At(Samples(q), h)}

PageResults(q, h, coin) ==
  UNION {CoinBacktest([q EXCEPT !.horizons = {h}], coin, offset, 1).results :
           offset \in 0..BacktestSummary(q, h).total}
PagesAreAll(q, h) == UNION {PageResults(q, h, coin) : coin \in Coins} = At(Samples(q), h)

(* The tables of the backtest page come from queries that filter, join and *)
(* group the same snapshots each in its way, while runs move evidence from *)
(* older snapshots to newer ones; a reader compares them.  Every sample of *)
(* the summary is in one bucket of each kind.  The precision at a          *)
(* threshold is the summary of a backtest of such scores only, and no more *)
(* than the separation at that threshold counts.  The rules are credited   *)
(* with the snapshots the summary counts, and with no others.  The pages   *)
(* of all coins hold the same samples, page after page.                    *)
BacktestsAgree ==
  \A q \in BacktestQueries, h \in Horizons :
    /\ EveryBucketAddsUp(q, h)
    /\ \A t \in {1428, 2500} : PrecisionAgrees(q, h, t)
    /\ RulesAreCredited(q, h)
    /\ PagesAreAll(q, h)

=============================================================================
