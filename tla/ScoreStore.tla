------------------------------ MODULE ScoreStore ------------------------------
(***************************************************************************)
(* The tables the score worker writes through db/scoreRepository.ts:       *)
(* score_config_versions, coin_score_current, score_snapshots and          *)
(* score_evidence.  A run is one step here: how runs interleave with the   *)
(* arrival of events, and which coins they take, is ScoreWorker's subject. *)
(* What a run computes is Scoring's.                                       *)
(*                                                                         *)
(* A snapshot is identified by its version, ts and coin, one window being  *)
(* modelled, and stands for its score_snapshot_id.  The clock of a run is  *)
(* new Date() and may be set back.                                         *)
(***************************************************************************)
EXTENDS Scoring, TLC

CONSTANTS
  Coins,
  Versions,     \* values SCORE_CONFIG_VERSION takes from one start to the next
  Alerts,       \* the events the feeds deliver, each a set of rows
  MaxAlerts,    \* bound of the model: events received
  MaxClock,     \* bound of the model: the clock stops here
  MaxFaults,    \* bound of the model: restarts, and times the clock is set back
  Backlogs      \* what may be stored before the first run, scores being enabled later

ASSUME ScoreStoreAssumption ==
  /\ Versions # {}
  /\ {MaxAlerts, MaxClock, MaxFaults} \subseteq Nat
  /\ \A rows \in Alerts \cup Backlogs :
       IsFiniteSet(rows) /\ \A row \in rows : IsSourceRow(row) /\ row.coin \in Coins

(* The rows of an event that name a coin are entries of their own.         *)
ASSUME EntryAssumption ==
  /\ \A alert \in Alerts : \A r, s \in alert : <<r.coin, r.entry>> = <<s.coin, s.entry>> => r = s
  /\ \A backlog \in Backlogs :
       LET events == {row.event : row \in backlog} IN
       /\ events = 1..Cardinality(events)
       /\ \A row \in backlog : {"event", "at"} \subseteq DOMAIN row /\ row.at \in Int
       /\ \A r, s \in backlog :
            <<r.event, r.coin, r.entry>> = <<s.event, s.coin, s.entry>> => r = s

VARIABLES
  clock,
  received,   \* event_entries, and normalized_events of listings
  version,    \* config.scores.version of the process
  configs,    \* score_config_versions: the versions stored, and the active one
  current,    \* coin_score_current
  snapshots,  \* score_snapshots
  evidence,   \* score_evidence
  setBacks,   \* times the clock was set back
  restarts

boundVars == <<setBacks, restarts>>
scoreVars == <<clock, received, version, configs, current, snapshots, evidence, boundVars>>

Events == {row.event : row \in received}

Init ==
  /\ clock = 0
  /\ received \in Backlogs
  /\ version \in Versions
  /\ configs = [stored |-> {}, active |-> {}]
  /\ current = {}
  /\ snapshots = {}
  /\ evidence = {}
  /\ setBacks = 0
  /\ restarts = 0

-----------------------------------------------------------------------------
Tick ==
  /\ clock < MaxClock
  /\ clock' = clock + 1
  /\ UNCHANGED <<received, version, configs, current, snapshots, evidence, boundVars>>

SetBack ==
  /\ setBacks + restarts < MaxFaults
  /\ clock > 0
  /\ clock' = clock - 1
  /\ setBacks' = setBacks + 1
  /\ UNCHANGED <<received, version, configs, current, snapshots, evidence, restarts>>

Restart(v) ==
  /\ setBacks + restarts < MaxFaults
  /\ v # version
  /\ version' = v
  /\ restarts' = restarts + 1
  /\ UNCHANGED <<clock, received, configs, current, snapshots, evidence, setBacks>>

(* A row of event_entries as the engine gets it, the columns its feed fills *)
(* given; and an event of a listing feed, which has none of them.      *)
EntryRow(coin, feed, columns) ==
  columns @@ [coin |-> coin, feed |-> feed, source |-> "entry", entry |-> 1, parsed |-> TRUE,
              rank |-> Null, amount |-> Null, delta |-> Null, buy |-> Null, sell |-> Null,
              volume24h |-> Null, percent |-> Null, price |-> Null, direction |-> None,
              exchange |-> None, market |-> None]

EventRow(coin, feed, parsed) ==
  [EntryRow(coin, feed, <<>>) EXCEPT !.source = "event", !.entry = 0, !.parsed = parsed]

(* The record of the fields of two, what r @@ more is to TLC. *)
With(r, more) ==
  [f \in DOMAIN r \cup DOMAIN more |-> IF f \in DOMAIN r THEN r[f] ELSE more[f]]

Stored(row) == With([event |-> Cardinality(Events) + 1, at |-> clock], row)

Receive(alert) ==
  /\ Cardinality(Events) < MaxAlerts
  /\ received' = received \cup {Stored(row) : row \in alert}
  /\ UNCHANGED <<clock, version, configs, current, snapshots, evidence, boundVars>>

-----------------------------------------------------------------------------
(* A run: ensureScoreConfig(), getScoreSourceRows(), calculateScores() and *)
(* writeScores()                                                           *)

SameRow(a, b) == a.version = b.version /\ a.coin = b.coin
SameSnapshot(a, b) == SameRow(a, b) /\ a.ts = b.ts

Fields(r) == [version |-> r.version, coin |-> r.coin, ts |-> r.ts, bull |-> r.bull, bear |-> r.bear,
              net |-> r.net, confidence |-> r.confidence, dominant |-> r.dominant,
              regime |-> r.regime]

ScoredFeeds == UNION {rule.feeds : rule \in Rules}

SourceRows(coin) ==
  {row \in received : /\ row.coin = coin
                      /\ row.feed \in ScoredFeeds
                      /\ row.at \in (clock - MaxAge)..clock}

Result(coin) ==
  With([version |-> version, coin |-> coin, ts |-> clock], ScoreCoin(SourceRows(coin), clock))

Moved(now, before, least) == Size(now - before) >= least

IsMaterialChange(row, r) ==
  \/ Moved(r.net, row.net, MaterialChange.net)
  \/ Moved(r.bull, row.bull, MaterialChange.side)
  \/ Moved(r.bear, row.bear, MaterialChange.side)
  \/ Moved(r.confidence, row.confidence, MaterialChange.confidence)
  \/ r.dominant # row.dominant
  \/ r.regime # row.regime

ShouldWriteSnapshot(r) == \A row \in current : SameRow(row, r) => IsMaterialChange(row, r)

Snapshot(r) ==
  With(Fields(r), [eventCount |-> Cardinality(UNION {e.events : e \in r.evidence}),
                   evidenceCount |-> Cardinality(r.evidence)])

WithSnapshots(written) ==
  {s \in snapshots : ~\E r \in written : SameSnapshot(s, r)} \cup {Snapshot(r) : r \in written}

SnapshotId(s) == [version |-> s.version, coin |-> s.coin, ts |-> s.ts]
RowKey(e) == [version |-> e.version, key |-> EvidenceKey(e)]

(* A row whose evidence_key is taken moves to the new snapshot and keeps   *)
(* the score_ts it was inserted with.                                      *)
ScoreTs(r, e) ==
  LET taken == {d \in evidence : RowKey(d) = [version |-> r.version, key |-> EvidenceKey(e)]}
  IN IF taken = {} THEN r.ts ELSE (CHOOSE d \in taken : TRUE).ts

EvidenceRows(written) ==
  UNION {{With([version |-> r.version, snapshot |-> SnapshotId(r), ts |-> ScoreTs(r, e)], e) :
            e \in r.evidence} : r \in written}

WithEvidence(written) ==
  LET rows == EvidenceRows(written)
      keys == {RowKey(e) : e \in rows}
  IN {e \in evidence : RowKey(e) \notin keys} \cup rows

AlwaysSupersedes(r, row) == TRUE
Supersedes(r, row) == r.ts >= row.ts

WithCurrent(results) ==
  LET accepted == {r \in results : \A row \in current : SameRow(row, r) => Supersedes(r, row)}
  IN {row \in current : ~\E r \in accepted : SameRow(row, r)} \cup
     {With(Fields(r), [updatedAt |-> clock]) : r \in accepted}

(* ensureScoreConfig(): one version is active. *)
ConfigsAfter(c) == [stored |-> c.stored \cup {version}, active |-> {version}]

Run(coins) ==
  LET results == {Result(c) : c \in coins}
      written == {r \in results : ShouldWriteSnapshot(r)}
  IN /\ configs' = ConfigsAfter(configs)
     /\ snapshots' = WithSnapshots(written)
     /\ evidence' = WithEvidence(written)
     /\ current' = WithCurrent(results)
     /\ UNCHANGED <<clock, received, version, boundVars>>

ScoredCoins == {row.coin : row \in received}

Next ==
  \/ Tick
  \/ SetBack
  \/ \E v \in Versions : Restart(v)
  \/ \E alert \in Alerts : Receive(alert)
  \/ \E coins \in SUBSET ScoredCoins \ {{}} : Run(coins)

Spec == Init /\ [][Next]_scoreVars

-----------------------------------------------------------------------------
(* Properties *)

SnapshotsOf(v, c) == {s \in snapshots : s.version = v /\ s.coin = c}
Latest(S) == CHOOSE s \in S : \A t \in S : t.ts <= s.ts

(* A snapshot is written only on a material change from the row of the run *)
(* before, so that a score may drift for ever without one.  What a reader  *)
(* of the timeline still relies on: it never runs ahead of the current     *)
(* score of a coin, and unless the clock was set back, its latest snapshot *)
(* has the regime and the dominant signal of the current score, whatever   *)
(* runs were skipped or repeated within one ts.                            *)
TimelineEndsAtCurrent ==
  \A row \in current :
    LET S == SnapshotsOf(row.version, row.coin)
    IN /\ S # {}
       /\ Latest(S).ts <= row.ts
       /\ setBacks = 0 => /\ Latest(S).regime = row.regime
                          /\ Latest(S).dominant = row.dominant

(* The score of a coin that is left alone never gains on either side, run  *)
(* after run, while its rows decay, age out one by one and leave bursts.   *)
QuietCoinsFade ==
  \A coin \in Coins :
    LET rows == {row \in received : row.coin = coin /\ row.at <= clock}
        scores == {[wait |-> wait, score |-> ScoreCoin(rows, clock + wait)] : wait \in 0..(MaxAge + 1)}
    IN \A now, later \in scores :
         now.wait <= later.wait => /\ later.score.bull <= now.score.bull
                                   /\ later.score.bear <= now.score.bear

(* Two rules, two feeds and two branches of the code stand for each other  *)
(* on the two sides, copied from one another.  Had the market gone the     *)
(* other way, every coin would have the opposite score, held with the same *)
(* confidence.                                                             *)
ScoresMirror ==
  \A coin \in Coins :
    LET rows == {row \in received : row.coin = coin /\ Mirrorable(row)}
        score == ScoreCoin(rows, clock)
        opposite == ScoreCoin({Mirrored(row) : row \in rows}, clock)
    IN /\ <<opposite.bull, opposite.bear>> = <<score.bear, score.bull>>
       /\ opposite.confidence = score.confidence

(* "Every score contribution gets a row"                                   *)
(* (docs/scoring-storage-architecture.md:369): the evidence counted by a   *)
(* snapshot is the evidence found under its id.                            *)
EverySnapshotKeepsItsEvidence ==
  \A s \in snapshots :
    Cardinality({e \in evidence : e.snapshot = SnapshotId(s)}) >= s.evidenceCount

=============================================================================
