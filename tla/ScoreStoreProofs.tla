--------------------------- MODULE ScoreStoreProofs ---------------------------
(***************************************************************************)
(* Proofs about ScoreStore, Scoring, ScoreReads and Backtest for any       *)
(* coins, versions, alerts and backlogs.  How the tables stay in order is  *)
(* proved of any score, then what a score is of any rows.                  *)
(***************************************************************************)
EXTENDS Backtest, CollectionLemmas

CurrentRow(r) == With(Fields(r), [updatedAt |-> clock])

Keyed ==
  /\ \A a, b \in current : SameRow(a, b) => a = b
  /\ \A s, t \in snapshots : SameSnapshot(s, t) => s = t
  /\ \A s \in snapshots : \E row \in current : SameRow(row, s)

Clocked ==
  /\ clock \in Int /\ setBacks \in Nat
  /\ \A s \in snapshots : s.ts \in Int
  /\ \A row \in current : row.ts \in Int /\ (setBacks = 0 => row.ts <= clock)

(* s is the snapshot, of those stored, that the timeline of the coin of    *)
(* row ends with; moved says that the clock was set back.                  *)
Ends(row, s, stored, moved) ==
  /\ SameRow(s, row)
  /\ \A t \in stored : SameRow(t, row) => t.ts <= s.ts
  /\ s.ts <= row.ts
  /\ ~moved => s.regime = row.regime /\ s.dominant = row.dominant

EndsWith(row, s) == Ends(row, s, snapshots, setBacks # 0)

IInv ==
  /\ Keyed
  /\ Clocked
  /\ \A row \in current : \E s \in snapshots : EndsWith(row, s)

-----------------------------------------------------------------------------
LEMMA ResultOf ==
  ASSUME NEW coin
  PROVE  /\ Result(coin).version = version
         /\ Result(coin).coin = coin
         /\ Result(coin).ts = clock
BY DEF Result, With

LEMMA RowOf ==
  ASSUME NEW r
  PROVE  /\ SameRow(CurrentRow(r), r)
         /\ CurrentRow(r).ts = r.ts
         /\ CurrentRow(r).regime = r.regime
         /\ CurrentRow(r).dominant = r.dominant
BY DEF CurrentRow, Fields, SameRow, With

LEMMA SnapshotOf ==
  ASSUME NEW r
  PROVE  /\ SameSnapshot(Snapshot(r), r)
         /\ Snapshot(r).ts = r.ts
         /\ Snapshot(r).regime = r.regime
         /\ Snapshot(r).dominant = r.dominant
BY DEF Snapshot, Fields, SameSnapshot, SameRow, With

(* The snapshot found by Latest() is the one a timeline ends with. *)
LEMMA EndIsLatest ==
  IInv => TimelineEndsAtCurrent
<1> SUFFICES ASSUME IInv, NEW row \in current
             PROVE  LET S == SnapshotsOf(row.version, row.coin)
                    IN /\ S # {}
                       /\ Latest(S).ts <= row.ts
                       /\ setBacks = 0 => /\ Latest(S).regime = row.regime
                                          /\ Latest(S).dominant = row.dominant
  BY DEF TimelineEndsAtCurrent
<1> DEFINE S == SnapshotsOf(row.version, row.coin)
<1>1. PICK s \in snapshots : EndsWith(row, s)
  BY DEF IInv
<1>2. s \in S /\ \A t \in S : t.ts <= s.ts
  BY <1>1 DEF EndsWith, Ends, SnapshotsOf, SameRow
<1>3. Latest(S) \in S /\ \A t \in S : t.ts <= Latest(S).ts
  BY <1>2 DEF Latest
<1>4. Latest(S) = s
  <2>1. Latest(S).ts \in Int /\ s.ts \in Int /\ Latest(S) \in snapshots
    BY <1>1, <1>3 DEF IInv, Clocked, SnapshotsOf
  <2>2. Latest(S).ts = s.ts
    BY <1>2, <1>3, <2>1
  <2>3. SameSnapshot(Latest(S), s)
    BY <1>2, <1>3, <2>2 DEF SameSnapshot, SameRow, SnapshotsOf
  <2> QED
    BY <1>1, <2>1, <2>3 DEF IInv, Keyed
<1> QED
  BY <1>1, <1>2, <1>4 DEF EndsWith, Ends

-----------------------------------------------------------------------------
LEMMA Initially == Init => IInv
BY DEF Init, IInv, Keyed, Clocked

(* Time passes, events arrive, the server restarts: the tables stay. *)
LEMMA TablesStay ==
  ASSUME IInv, UNCHANGED <<current, snapshots>>,
         clock' \in Int, setBacks' \in Nat,
         setBacks' = 0 => setBacks = 0 /\ clock' >= clock
  PROVE  IInv'
<1>1. Keyed'
  BY DEF IInv, Keyed, SameRow, SameSnapshot
<1>2. Clocked'
  BY DEF IInv, Clocked
<1>3. \A row \in current', s \in snapshots' : EndsWith(row, s) => EndsWith(row, s)'
  BY DEF EndsWith, Ends, SameRow
<1> QED
  BY <1>1, <1>2, <1>3 DEF IInv

(* The next three lemmas are about one run, of which it is enough to know  *)
(* that it has one result of a coin, for this version and this time.       *)
Results(results) ==
  /\ \A r \in results : r.version = version /\ r.ts = clock
  /\ \A q, r \in results : q.coin = r.coin => q = r

WrittenOf(results) == {r \in results : ShouldWriteSnapshot(r)}

Ran(results) ==
  /\ Results(results)
  /\ snapshots' = WithSnapshots(WrittenOf(results))
  /\ current' = WithCurrent(results)
  /\ UNCHANGED <<clock, version, boundVars>>

LEMMA RunIsRan ==
  ASSUME NEW coins, Run(coins)
  PROVE  \E results : Ran(results)
<1> DEFINE results == {Result(c) : c \in coins}
<1>1. Results(results)
  BY ResultOf DEF Results
<1>2. /\ snapshots' = WithSnapshots(WrittenOf(results))
      /\ current' = WithCurrent(results)
      /\ UNCHANGED <<clock, version, boundVars>>
  BY DEF Run, WrittenOf
<1> QED
  BY <1>1, <1>2 DEF Ran

(* The rows of current after a run: those of results, none of them older   *)
(* than the row it replaces, and those a result did not replace.           *)
LEMMA RowsAfter ==
  ASSUME IInv, NEW results, Ran(results), NEW row \in current'
  PROVE  \/ \E r \in results : /\ row = CurrentRow(r)
                               /\ \A old \in current : SameRow(old, r) => old.ts <= r.ts
         \/ /\ row \in current
            /\ \A r \in results : SameRow(row, r) => r.ts < row.ts
<1> DEFINE Taken(r) == \A old \in current : SameRow(old, r) => Supersedes(r, old)
<1>1. current' = {old \in current : ~\E r \in {r \in results : Taken(r)} : SameRow(old, r)}
                 \cup {CurrentRow(r) : r \in {r \in results : Taken(r)}}
  BY DEF Ran, WithCurrent, CurrentRow
<1>2. CASE \E r \in results : Taken(r) /\ row = CurrentRow(r)
  <2>1. PICK r \in results : Taken(r) /\ row = CurrentRow(r)
    BY <1>2
  <2>2. \A old \in current : SameRow(old, r) => old.ts <= r.ts
    BY <2>1 DEF Supersedes, IInv, Clocked, Ran, Results
  <2> QED
    BY <2>1, <2>2
<1>3. CASE row \in current /\ ~\E r \in results : Taken(r) /\ SameRow(row, r)
  <2>1. ASSUME NEW r \in results, SameRow(row, r)
        PROVE  r.ts < row.ts
    <3>1. PICK old \in current : SameRow(old, r) /\ ~Supersedes(r, old)
      BY <1>3, <2>1
    <3>2. old = row
      BY <1>3, <2>1, <3>1 DEF IInv, Keyed, SameRow
    <3> QED
      BY <1>3, <2>1, <3>1, <3>2 DEF Supersedes, IInv, Clocked, Ran, Results
  <2> QED
    BY <1>3, <2>1
<1> QED
  BY <1>1, <1>2, <1>3

LEMMA SnapshotsAfter ==
  ASSUME NEW results, Ran(results), NEW s \in snapshots'
  PROVE  \/ \E r \in WrittenOf(results) : s = Snapshot(r)
         \/ s \in snapshots /\ \A r \in WrittenOf(results) : ~SameSnapshot(s, r)
BY DEF Ran, WithSnapshots

LEMMA SnapshotStays ==
  ASSUME NEW results, Ran(results), NEW s \in snapshots
  PROVE  \/ s \in snapshots'
         \/ \E r \in WrittenOf(results) : SameSnapshot(s, r) /\ Snapshot(r) \in snapshots'
BY DEF Ran, WithSnapshots

LEMMA ResultHasRow ==
  ASSUME IInv, NEW results, Ran(results), NEW r \in results
  PROVE  \E row \in current' : SameRow(row, r)
<1> DEFINE Taken(q) == \A old \in current : SameRow(old, q) => Supersedes(q, old)
<1>1. current' = {old \in current : ~\E q \in {q \in results : Taken(q)} : SameRow(old, q)}
                 \cup {CurrentRow(q) : q \in {q \in results : Taken(q)}}
  BY DEF Ran, WithCurrent, CurrentRow
<1>2. CASE Taken(r)
  <2>1. CurrentRow(r) \in current'
    BY <1>1, <1>2
  <2> QED
    BY <2>1, RowOf
<1>3. CASE ~Taken(r)
  <2>1. PICK old \in current : SameRow(old, r)
    BY <1>3
  <2>2. \A q \in results : SameRow(old, q) => q = r
    BY <2>1 DEF Ran, Results, SameRow
  <2>3. old \in current'
    BY <1>1, <1>3, <2>1, <2>2
  <2> QED
    BY <2>1, <2>3
<1> QED
  BY <1>2, <1>3

LEMMA RowHasRow ==
  ASSUME IInv, NEW results, Ran(results), NEW old \in current
  PROVE  \E row \in current' : SameRow(row, old)
<1>1. CASE \E r \in results : SameRow(old, r)
  <2>1. PICK r \in results : SameRow(old, r)
    BY <1>1
  <2>2. PICK row \in current' : SameRow(row, r)
    BY ResultHasRow
  <2> QED
    BY <2>1, <2>2 DEF SameRow
<1>2. CASE ~\E r \in results : SameRow(old, r)
  <2>1. old \in current'
    BY <1>2 DEF Ran, WithCurrent
  <2> QED
    BY <2>1 DEF SameRow
<1> QED
  BY <1>1, <1>2

LEMMA KeyedAfter ==
  ASSUME IInv, NEW results, Ran(results)
  PROVE  Keyed'
<1>1. ASSUME NEW a \in current', NEW b \in current', SameRow(a, b)
      PROVE  a = b
  <2>1. CASE (\E r \in results : a = CurrentRow(r)) /\ (\E r \in results : b = CurrentRow(r))
    BY <1>1, <2>1, RowOf DEF SameRow, Ran, Results
  <2>2. CASE a \in current /\ b \in current
    BY <1>1, <2>2 DEF IInv, Keyed
  <2>3. ASSUME NEW old \in current, \A r \in results : SameRow(old, r) => r.ts < old.ts,
               NEW r \in results, \A d \in current : SameRow(d, r) => d.ts <= r.ts,
               SameRow(old, CurrentRow(r))
        PROVE  FALSE
    <3>1. SameRow(old, r)
      BY <2>3, RowOf DEF SameRow
    <3> QED
      BY <2>3, <3>1 DEF IInv, Clocked, Ran, Results
  <2>4. SameRow(b, a)
    BY <1>1 DEF SameRow
  <2> QED
    BY <1>1, <2>1, <2>2, <2>3, <2>4, RowsAfter
<1>2. ASSUME NEW s \in snapshots', NEW t \in snapshots', SameSnapshot(s, t)
      PROVE  s = t
  <2>1. CASE (\E r \in results : s = Snapshot(r)) /\ (\E r \in results : t = Snapshot(r))
    BY <1>2, <2>1, SnapshotOf DEF SameSnapshot, SameRow, Ran, Results
  <2>2. CASE s \in snapshots /\ t \in snapshots
    BY <1>2, <2>2 DEF IInv, Keyed
  <2>3. ASSUME NEW old, \A r \in WrittenOf(results) : ~SameSnapshot(old, r),
               NEW r \in WrittenOf(results), SameSnapshot(old, Snapshot(r))
        PROVE  FALSE
    BY <2>3, SnapshotOf DEF SameSnapshot, SameRow
  <2>4. SameSnapshot(t, s)
    BY <1>2 DEF SameSnapshot, SameRow
  <2> QED
    BY <1>2, <2>1, <2>2, <2>3, <2>4, SnapshotsAfter DEF WrittenOf
<1>3. ASSUME NEW s \in snapshots'
      PROVE  \E row \in current' : SameRow(row, s)
  <2>1. CASE \E r \in WrittenOf(results) : s = Snapshot(r)
    <3>1. PICK r \in results : s = Snapshot(r)
      BY <2>1 DEF WrittenOf
    <3>2. PICK row \in current' : SameRow(row, r)
      BY ResultHasRow
    <3> QED
      BY <3>1, <3>2, SnapshotOf DEF SameSnapshot, SameRow
  <2>2. CASE s \in snapshots
    <3>1. PICK old \in current : SameRow(old, s)
      BY <2>2 DEF IInv, Keyed
    <3>2. PICK row \in current' : SameRow(row, old)
      BY RowHasRow
    <3> QED
      BY <3>1, <3>2 DEF SameRow
  <2> QED
    BY <2>1, <2>2, SnapshotsAfter
<1> QED
  BY <1>1, <1>2, <1>3 DEF Keyed, SameRow, SameSnapshot

LEMMA ClockedAfter ==
  ASSUME IInv, NEW results, Ran(results)
  PROVE  Clocked'
<1>1. clock' = clock /\ setBacks' = setBacks /\ clock \in Int /\ setBacks \in Nat
  BY DEF Ran, boundVars, IInv, Clocked
<1>2. \A s \in snapshots' : s.ts \in Int
  BY <1>1, SnapshotsAfter, SnapshotOf DEF IInv, Clocked, Ran, Results, WrittenOf
<1>3. ASSUME NEW row \in current'
      PROVE  row.ts \in Int /\ (setBacks = 0 => row.ts <= clock)
  BY <1>1, RowsAfter, RowOf DEF IInv, Clocked, Ran, Results
<1> QED
  BY <1>1, <1>2, <1>3 DEF Clocked

(* A new row: the timeline ends with the snapshot of the run, or with the  *)
(* one before, from which nothing material has changed.                    *)
LEMMA NewRowEnds ==
  ASSUME IInv, NEW results, Ran(results), NEW r \in results,
         \A old \in current : SameRow(old, r) => old.ts <= r.ts
  PROVE  \E s \in snapshots' : Ends(CurrentRow(r), s, snapshots', setBacks # 0)
<1> DEFINE row == CurrentRow(r)
<1>1. /\ SameRow(row, r) /\ row.ts = r.ts /\ row.regime = r.regime
      /\ row.dominant = r.dominant /\ r.ts = clock /\ clock \in Int /\ setBacks' = setBacks
  BY RowOf DEF Ran, Results, IInv, Clocked, boundVars
<1>2. \A q \in results : SameRow(q, r) => q = r
  BY DEF Ran, Results, SameRow
<1>3. ASSUME NEW t \in snapshots, SameRow(t, r)
      PROVE  t.ts <= r.ts
  <2>1. PICK old \in current : SameRow(old, t)
    BY <1>3 DEF IInv, Keyed
  <2>2. PICK s \in snapshots : EndsWith(old, s)
    BY DEF IInv
  <2>3. SameRow(t, old) /\ SameRow(old, r)
    BY <1>3, <2>1 DEF SameRow
  <2>4. t.ts <= s.ts /\ s.ts <= old.ts /\ old.ts <= r.ts
    BY <2>2, <2>3 DEF EndsWith, Ends
  <2> QED
    BY <1>1, <2>4 DEF IInv, Clocked
<1>4. CASE ShouldWriteSnapshot(r)
  <2>1. Snapshot(r) \in snapshots'
    BY <1>4 DEF Ran, WithSnapshots, WrittenOf
  <2>2. ASSUME NEW t \in snapshots', SameRow(t, row)
        PROVE  t.ts <= Snapshot(r).ts
    <3>1. SameRow(t, r)
      BY <1>1, <2>2 DEF SameRow
    <3>2. CASE \E q \in WrittenOf(results) : t = Snapshot(q)
      BY <1>1, <3>2, SnapshotOf DEF Ran, Results, WrittenOf
    <3>3. CASE t \in snapshots
      BY <1>3, <3>1, <3>3, SnapshotOf
    <3> QED
      BY <3>2, <3>3, SnapshotsAfter
  <2>3. SameRow(Snapshot(r), row)
    BY <1>1, SnapshotOf DEF SameSnapshot, SameRow
  <2> QED
    BY <1>1, <2>1, <2>2, <2>3, SnapshotOf DEF EndsWith, Ends, SameRow
<1>5. CASE ~ShouldWriteSnapshot(r)
  <2>1. PICK old \in current : SameRow(old, r) /\ ~IsMaterialChange(old, r)
    BY <1>5 DEF ShouldWriteSnapshot
  <2>2. old.regime = r.regime /\ old.dominant = r.dominant /\ old.ts <= r.ts
    BY <2>1 DEF IsMaterialChange
  <2>3. PICK s \in snapshots : EndsWith(old, s)
    BY DEF IInv
  <2>4. \A q \in WrittenOf(results) : ~SameRow(q, r)
    BY <1>2, <1>5 DEF WrittenOf
  <2>5. s \in snapshots'
    BY <2>1, <2>3, <2>4, SnapshotStays DEF EndsWith, Ends, SameSnapshot, SameRow
  <2>6. ASSUME NEW t \in snapshots', SameRow(t, row)
        PROVE  t.ts <= s.ts
    <3>1. SameRow(t, r) /\ SameRow(t, old)
      BY <1>1, <2>1, <2>6 DEF SameRow
    <3>2. ~\E q \in WrittenOf(results) : t = Snapshot(q)
      BY <2>4, <3>1, SnapshotOf DEF SameSnapshot, SameRow
    <3> QED
      BY <2>3, <3>1, <3>2, SnapshotsAfter DEF EndsWith, Ends
  <2>7. s.ts <= row.ts
    BY <1>1, <2>2, <2>3 DEF EndsWith, Ends, IInv, Clocked
  <2>8. SameRow(s, row)
    BY <1>1, <2>1, <2>3 DEF EndsWith, Ends, SameRow
  <2> QED
    BY <1>1, <2>2, <2>3, <2>5, <2>6, <2>7, <2>8 DEF EndsWith, Ends, SameRow
<1> QED
  BY <1>4, <1>5

(* A row that is newer than the result of this run: the clock was set      *)
(* back, and the timeline still does not run ahead of it.                  *)
LEMMA OldRowEnds ==
  ASSUME IInv, NEW results, Ran(results), NEW row \in current,
         \A r \in results : SameRow(row, r) => r.ts < row.ts
  PROVE  \E s \in snapshots' : Ends(row, s, snapshots', setBacks # 0)
<1>1. PICK s \in snapshots : EndsWith(row, s)
  BY DEF IInv
<1>2. /\ clock \in Int /\ s.ts \in Int /\ row.ts \in Int /\ setBacks' = setBacks
      /\ \A r \in results : r.ts = clock
  BY DEF IInv, Clocked, Ran, Results, boundVars
<1>3. CASE \A q \in WrittenOf(results) : ~SameRow(q, row)
  <2>1. s \in snapshots'
    BY <1>1, <1>3, SnapshotStays DEF EndsWith, Ends, SameSnapshot, SameRow
  <2>2. ASSUME NEW t \in snapshots', SameRow(t, row)
        PROVE  t.ts <= s.ts
    <3>1. ~\E q \in WrittenOf(results) : t = Snapshot(q)
      BY <1>3, <2>2, SnapshotOf DEF SameSnapshot, SameRow
    <3> QED
      BY <1>1, <2>2, <3>1, SnapshotsAfter DEF EndsWith, Ends
  <2> QED
    BY <1>1, <1>2, <2>1, <2>2 DEF EndsWith, Ends, SameRow
<1>4. ASSUME NEW q \in WrittenOf(results), SameRow(q, row)
      PROVE  \E e \in snapshots' : Ends(row, e, snapshots', setBacks # 0)
  <2>1. q \in results /\ SameRow(row, q) /\ q.ts = clock /\ clock < row.ts /\ setBacks # 0
    BY <1>2, <1>4 DEF WrittenOf, SameRow, IInv, Clocked
  <2>2. Snapshot(q) \in snapshots' /\ Snapshot(q).ts = clock /\ SameRow(Snapshot(q), row)
    BY <1>4, <2>1, SnapshotOf DEF Ran, WithSnapshots, SameSnapshot, SameRow
  <2>3. ASSUME NEW t \in snapshots', SameRow(t, row)
        PROVE  t.ts = clock \/ (t \in snapshots /\ t.ts <= s.ts)
    BY <1>1, <1>2, <2>3, SnapshotsAfter, SnapshotOf DEF EndsWith, Ends, WrittenOf
  <2>4. CASE s.ts <= clock
    <3>1. \A t \in snapshots' : SameRow(t, row) => t.ts <= Snapshot(q).ts
      BY <1>2, <2>2, <2>3, <2>4 DEF IInv, Clocked
    <3> QED
      BY <1>2, <2>1, <2>2, <3>1 DEF EndsWith, Ends, SameRow
  <2>5. CASE s.ts > clock
    <3>1. s \in snapshots'
      BY <1>2, <2>5, SnapshotStays DEF SameSnapshot, WrittenOf
    <3>2. \A t \in snapshots' : SameRow(t, row) => t.ts <= s.ts
      BY <1>2, <2>3, <2>5
    <3> QED
      BY <1>1, <1>2, <2>1, <3>1, <3>2 DEF EndsWith, Ends, SameRow
  <2> QED
    BY <1>2, <2>4, <2>5
<1> QED
  BY <1>3, <1>4

LEMMA RunPreserves ==
  ASSUME IInv, NEW coins, Run(coins)
  PROVE  IInv'
<1>1. PICK results : Ran(results)
  BY RunIsRan
<1>2. Keyed' /\ Clocked'
  BY <1>1, KeyedAfter, ClockedAfter
<1>3. ASSUME NEW row \in current'
      PROVE  \E s \in snapshots' : EndsWith(row, s)'
  <2>1. setBacks' = setBacks
    BY <1>1 DEF Ran, boundVars
  <2>2. CASE \E r \in results : /\ row = CurrentRow(r)
                                /\ \A old \in current : SameRow(old, r) => old.ts <= r.ts
    <3>1. \E s \in snapshots' : Ends(row, s, snapshots', setBacks # 0)
      BY <1>1, <2>2, NewRowEnds
    <3> QED
      BY <2>1, <3>1 DEF EndsWith, Ends
  <2>3. CASE row \in current /\ \A r \in results : SameRow(row, r) => r.ts < row.ts
    <3>1. \E s \in snapshots' : Ends(row, s, snapshots', setBacks # 0)
      BY <1>1, <2>3, OldRowEnds
    <3> QED
      BY <2>1, <3>1 DEF EndsWith, Ends
  <2> QED
    BY <1>1, <2>2, <2>3, RowsAfter
<1> QED
  BY <1>2, <1>3 DEF IInv

LEMMA Preserved == IInv /\ [Next]_scoreVars => IInv'
<1> SUFFICES ASSUME IInv, [Next]_scoreVars
             PROVE  IInv'
  OBVIOUS
<1>1. clock \in Int /\ setBacks \in Nat
  BY DEF IInv, Clocked
<1>2. CASE Tick
  BY <1>1, <1>2, TablesStay DEF Tick, boundVars
<1>3. CASE SetBack
  BY <1>1, <1>3, TablesStay DEF SetBack
<1>4. CASE \E v \in Versions : Restart(v)
  BY <1>1, <1>4, TablesStay DEF Restart
<1>5. CASE \E alert \in Alerts : Receive(alert)
  BY <1>1, <1>5, TablesStay DEF Receive, boundVars
<1>6. CASE \E coins \in SUBSET ScoredCoins \ {{}} : Run(coins)
  BY <1>6, RunPreserves
<1>7. CASE UNCHANGED scoreVars
  BY <1>1, <1>7, TablesStay DEF scoreVars, boundVars
<1> QED
  BY <1>2, <1>3, <1>4, <1>5, <1>6, <1>7 DEF Next

(* Whatever a score is computed of, and however runs are skipped, repeated *)
(* or set back in time: the timeline of a coin never runs ahead of its     *)
(* current score, and unless the clock was set back it ends with the       *)
(* regime and the dominant signal of that score (writeScores).             *)
THEOREM TimelineIsCurrent ==
  Spec => []TimelineEndsAtCurrent
BY Initially, Preserved, EndIsLatest, PTL DEF Spec

-----------------------------------------------------------------------------
(* The numbers of a score *)

LEMMA RuleShape ==
  ASSUME NEW rule \in Rules
  PROVE  /\ rule.weight \in Nat /\ rule.cap \in Nat
         /\ rule.side \in {"bull", "bear", "risk"}
         /\ rule.scale \in {"fixed", "logUsd", "percentAbs"}
         /\ rule.scale = "fixed" \/ rule.field \in Columns
BY DEF Rules, Rule, Columns

LEMMA RulesHaveKeys ==
  ASSUME NEW r \in Rules, NEW s \in Rules, r.key = s.key
  PROVE  r = s
BY DEF Rules, Rule

LEMMA DoubledIs ==
  /\ \A age \in 0..MaxAge : Doubled[age] \in Nat /\ Doubled[age] > 0
  /\ \A a, b \in 0..MaxAge : a <= b => Doubled[a] <= Doubled[b]
<1> DEFINE g == [age \in 0..MaxAge |->
                   CASE age = 0 -> 1 [] age = 1 -> 2 [] age = 2 -> 4 [] age = 3 -> 8
                     [] age = 4 -> 16 [] age = 5 -> 32 [] age = 6 -> 64]
<1>1. \A age \in 0..MaxAge : age \in {0, 1, 2, 3, 4, 5, 6}
  BY DEF MaxAge
<1>2. /\ g[0] = 1 /\ g[1] = 2 /\ g[2] = 4 /\ g[3] = 8 /\ g[4] = 16 /\ g[5] = 32 /\ g[6] = 64
      /\ g = [age \in 0..MaxAge |-> g[age]]
  BY DEF MaxAge
<1> HIDE DEF g
<1>3. \A age \in 0..MaxAge : g[age] = IF age = 0 THEN 1 ELSE 2 * g[age - 1]
  BY <1>1, <1>2
<1>4. g = [age \in 0..MaxAge |-> IF age = 0 THEN 1 ELSE 2 * g[age - 1]]
  BY <1>2, <1>3
<1>5. Doubled = [age \in 0..MaxAge |-> IF age = 0 THEN 1 ELSE 2 * Doubled[age - 1]]
  BY <1>4 DEF Doubled
<1>6. 0 \in 0..MaxAge /\ 1 \in 0..MaxAge /\ 2 \in 0..MaxAge /\ 3 \in 0..MaxAge
      /\ 4 \in 0..MaxAge /\ 5 \in 0..MaxAge /\ 6 \in 0..MaxAge
  BY DEF MaxAge
<1>7. \A age \in 0..MaxAge : Doubled[age] = IF age = 0 THEN 1 ELSE 2 * Doubled[age - 1]
  BY <1>5
<1>8. Doubled[0] = 1
  BY <1>6, <1>7
<1>9. Doubled[1] = 2
  <2>1. Doubled[1] = 2 * Doubled[0]
    BY <1>6, <1>7
  <2> QED
    BY <1>8, <2>1
<1>10. Doubled[2] = 4
  <2>1. Doubled[2] = 2 * Doubled[1]
    BY <1>6, <1>7
  <2> QED
    BY <1>9, <2>1
<1>11. Doubled[3] = 8
  <2>1. Doubled[3] = 2 * Doubled[2]
    BY <1>6, <1>7
  <2> QED
    BY <1>10, <2>1
<1>12. Doubled[4] = 16
  <2>1. Doubled[4] = 2 * Doubled[3]
    BY <1>6, <1>7
  <2> QED
    BY <1>11, <2>1
<1>13. Doubled[5] = 32
  <2>1. Doubled[5] = 2 * Doubled[4]
    BY <1>6, <1>7
  <2> QED
    BY <1>12, <2>1
<1>14. Doubled[6] = 64
  <2>1. Doubled[6] = 2 * Doubled[5]
    BY <1>6, <1>7
  <2> QED
    BY <1>13, <2>1
<1> QED
  BY <1>1, <1>8, <1>9, <1>10, <1>11, <1>12, <1>13, <1>14

(* Rounding down keeps the order.                                          *)
LEMMA Quotient ==
  ASSUME NEW a \in Int, NEW b \in Int, b > 0
  PROVE  /\ a \div b \in Int
         /\ (a \div b) * b <= a
         /\ a < (a \div b) * b + b
OBVIOUS

LEMMA AtMostQuotient ==
  ASSUME NEW a \in Int, NEW b \in Int, b > 0, NEW q \in Int, q * b <= a
  PROVE  q <= a \div b
<1> DEFINE d == a \div b
<1>1. d \in Int /\ a < d * b + b
  BY Quotient
<1> HIDE DEF d
<1>2. q * b < (d + 1) * b
  BY <1>1
<1>3. q < d + 1
  <2> SUFFICES ASSUME q >= d + 1 PROVE FALSE
    BY <1>1
  <2>1. (q - (d + 1)) * b >= 0
    BY <1>1
  <2> QED
    BY <1>1, <1>2, <2>1
<1> QED
  BY <1>1, <1>3 DEF d

LEMMA QuotientGrows ==
  ASSUME NEW a \in Nat, NEW b \in Nat, b > 0, NEW c \in Nat, c >= b
  PROVE  /\ a \div b \in Nat
         /\ a \div c <= a \div b
<1> DEFINE q == a \div c
<1>1. q \in Int /\ q * c <= a
  BY Quotient
<1>2. q \in Nat
  OBVIOUS
<1> HIDE DEF q
<1>3. q * b <= q * c
  <2>1. q * (c - b) >= 0
    BY <1>2
  <2> QED
    BY <1>2, <2>1
<1>4. q * b <= a
  BY <1>1, <1>2, <1>3
<1>5. q <= a \div b
  BY <1>2, <1>4, AtMostQuotient
<1> QED
  BY <1>5 DEF q

LEMMA Clamped ==
  ASSUME NEW n \in Int, NEW low \in Int, NEW high \in Int, low <= high
  PROVE  Clamp(n, low, high) \in Int /\ Clamp(n, low, high) >= low
BY DEF Clamp

LEMMA TimesIsNumber ==
  ASSUME NEW m \in Nat, NEW n \in Nat
  PROVE  Times(m, n) \in Nat
<1>1. m * n \in Nat
  OBVIOUS
<1> DEFINE p == m * n
<1> HIDE DEF p
<1>2. p \in Nat => p \div 100 \in Nat
  OBVIOUS
<1> QED
  BY <1>1, <1>2 DEF Times, p

LEMMA ShareIsNumber ==
  ASSUME NEW own \in Int, NEW other \in Int
  PROVE  Share(own, other) \in Nat
BY DEF Share

(* What a row counts for under a rule before it ages.                      *)
Multiplier(rule, row) ==
  IF IsSpotPressure(rule, row) THEN SpotPressure(rule, row) ELSE ValueMultiplier(rule, row)
Points(rule, row) == rule.weight * Times(Multiplier(rule, row), RankMultiplier(row))

LEMMA ContributionOf ==
  ASSUME NEW rule, NEW row, NEW asOf
  PROVE  Contribution(rule, row, asOf)
           = Least(rule.cap, Points(rule, row) \div Doubled[asOf - row.at])
BY DEF Contribution, Points, Multiplier, Decayed

LEMMA ColumnsAreNumbers ==
  ASSUME NEW row, IsSourceRow(row)
  PROVE  /\ row.rank \in Int /\ row.amount \in Int /\ row.delta \in Int /\ row.buy \in Int
         /\ row.sell \in Int /\ row.volume24h \in Int /\ row.percent \in Int /\ row.price \in Int
         /\ \A column \in Columns : row[column] \in Int
BY DEF IsSourceRow, Columns

LEMMA SpotPressureIsNumber ==
  ASSUME NEW rule, NEW row, IsSourceRow(row)
  PROVE  SpotPressure(rule, row) \in Nat
<1>1. Own(rule, row) \in Int /\ Other(rule, row) \in Int
  BY ColumnsAreNumbers DEF Own, Other
<1>2. SideShare(rule, row) \in Nat
  BY <1>1, ShareIsNumber DEF SideShare
<1> DEFINE amount == IF row.amount # Null THEN row.amount ELSE Own(rule, row)
           share == SideShare(rule, row)
           imbalance == Clamp((100 * (share - 50)) \div 35, 0, 140)
           volume == Clamp(100 * amount - 470, 25, 150)
           liquidity == IF row.volume24h = Null THEN 100
                        ELSE Clamp(100 * (row.volume24h - 6), 25, 125)
<1>3. amount \in Int
  BY <1>1, ColumnsAreNumbers
<1>4. imbalance \in Nat
  <2>1. share \in Nat
    BY <1>2
  <2> HIDE DEF share
  <2> DEFINE n == (100 * (share - 50)) \div 35
  <2>2. n \in Int
    BY <2>1
  <2> HIDE DEF n
  <2>3. Clamp(n, 0, 140) \in Nat
    BY <2>2, Clamped
  <2> QED
    BY <2>3 DEF n
<1>5. volume \in Nat
  <2> HIDE DEF amount
  <2> DEFINE n == 100 * amount - 470
  <2>1. n \in Int
    BY <1>3
  <2> HIDE DEF n
  <2>2. Clamp(n, 25, 150) \in Nat
    BY <2>1, Clamped
  <2> QED
    BY <2>2 DEF n
<1>6. liquidity \in Nat
  <2> DEFINE n == 100 * (row.volume24h - 6)
  <2>1. n \in Int
    BY ColumnsAreNumbers
  <2> HIDE DEF n
  <2>2. Clamp(n, 25, 125) \in Nat
    BY <2>1, Clamped
  <2> QED
    BY <2>2 DEF n
<1>7. SpotPressure(rule, row) = Times(Times(imbalance, volume), liquidity)
  BY DEF SpotPressure
<1> HIDE DEF imbalance, volume, liquidity
<1> QED
  BY <1>4, <1>5, <1>6, <1>7, TimesIsNumber

LEMMA MultipliersAreNumbers ==
  ASSUME NEW rule \in Rules, NEW row, IsSourceRow(row)
  PROVE  Multiplier(rule, row) \in Nat /\ RankMultiplier(row) \in Nat
<1>1. ValueMultiplier(rule, row) \in Nat
  <2> DEFINE value == row[rule.field]
             log == 100 * (value - 3)
             percent == 50 * Size(value)
  <2>1. CASE rule.scale = "fixed"
    BY <2>1 DEF ValueMultiplier
  <2>2. CASE rule.scale # "fixed"
    <3>1. value \in Int
      BY <2>2, RuleShape, ColumnsAreNumbers
    <3>2. rule.scale = "logUsd" \/ rule.scale = "percentAbs"
      BY <2>2, RuleShape
    <3>3. log \in Int /\ percent \in Int
      <4> HIDE DEF value
      <4> QED
        BY <3>1 DEF Size
    <3>4. Clamp(log, 50, 300) \in Nat /\ Clamp(percent, 50, 400) \in Nat
      <4> HIDE DEF log, percent
      <4>1. Clamp(log, 50, 300) \in Int /\ Clamp(log, 50, 300) >= 50
        BY <3>3, Clamped
      <4>2. Clamp(percent, 50, 400) \in Int /\ Clamp(percent, 50, 400) >= 50
        BY <3>3, Clamped
      <4> QED
        BY <4>1, <4>2
    <3>5. ValueMultiplier(rule, row) =
            IF value = Null THEN 50
            ELSE CASE rule.scale = "logUsd" -> Clamp(log, 50, 300)
                   [] rule.scale = "percentAbs" -> Clamp(percent, 50, 400)
      BY <2>2, Zenon DEF ValueMultiplier
    <3> HIDE DEF value, log, percent
    <3>6. ValueMultiplier(rule, row) = Clamp(log, 50, 300)
            \/ ValueMultiplier(rule, row) = Clamp(percent, 50, 400) \/ ValueMultiplier(rule, row) = 50
      BY <3>2, <3>5
    <3> QED
      BY <3>4, <3>6
  <2> QED
    BY <2>1, <2>2
<1>2. RankMultiplier(row) \in Nat
  <2> DEFINE n == 10 * (11 - row.rank)
  <2>1. n \in Int
    BY ColumnsAreNumbers
  <2>2. RankMultiplier(row) = IF OrZero(row.rank) = 0 THEN 100 ELSE Clamp(n, 25, 100)
    BY DEF RankMultiplier
  <2> HIDE DEF n
  <2>3. Clamp(n, 25, 100) \in Nat
    BY <2>1, Clamped
  <2> QED
    BY <2>2, <2>3
<1> QED
  BY <1>1, <1>2, SpotPressureIsNumber DEF Multiplier

LEMMA PointsAreNumbers ==
  ASSUME NEW rule \in Rules, NEW row, IsSourceRow(row)
  PROVE  Points(rule, row) \in Nat
<1> DEFINE t == Times(Multiplier(rule, row), RankMultiplier(row))
<1>1. t \in Nat
  BY MultipliersAreNumbers, TimesIsNumber
<1>2. rule.weight \in Nat
  BY RuleShape
<1> HIDE DEF t
<1>3. rule.weight * t \in Nat
  BY <1>1, <1>2
<1> QED
  BY <1>3 DEF Points, t

(* A contribution is a number that never grows while the row ages.         *)
LEMMA ContributionFades ==
  ASSUME NEW rule \in Rules, NEW row, IsSourceRow(row), row.at \in Int,
         NEW asOf \in Int, asOf - row.at \in 0..MaxAge
  PROVE  /\ Contribution(rule, row, asOf) \in Nat
         /\ \A later \in Int : later >= asOf /\ later - row.at \in 0..MaxAge =>
              Contribution(rule, row, later) <= Contribution(rule, row, asOf)
<1> DEFINE p == Points(rule, row)
           at(t) == Contribution(rule, row, t)
<1>1. p \in Nat /\ rule.cap \in Nat
  BY PointsAreNumbers, RuleShape
<1>2. \A t \in Int : at(t) = Least(rule.cap, p \div Doubled[t - row.at])
  BY ContributionOf
<1> HIDE DEF p, at
<1>3. ASSUME NEW a \in 0..MaxAge, NEW b \in 0..MaxAge, a <= b
      PROVE  p \div Doubled[a] \in Nat /\ p \div Doubled[b] <= p \div Doubled[a]
  <2>1. /\ Doubled[a] \in Nat /\ Doubled[a] > 0 /\ Doubled[b] \in Nat
        /\ Doubled[b] >= Doubled[a]
    BY <1>3, DoubledIs
  <2> QED
    BY <1>1, <2>1, QuotientGrows
<1>4. at(asOf) \in Nat
  <2>1. asOf - row.at <= asOf - row.at
    BY DEF MaxAge
  <2>2. p \div Doubled[asOf - row.at] \in Nat
    BY <1>3, <2>1
  <2> QED
    BY <1>1, <1>2, <2>2 DEF Least
<1>5. ASSUME NEW later \in Int, later >= asOf, later - row.at \in 0..MaxAge
      PROVE  at(later) <= at(asOf)
  <2>1. asOf - row.at <= later - row.at /\ later - row.at <= later - row.at
    BY <1>5
  <2> DEFINE x == p \div Doubled[later - row.at]
             y == p \div Doubled[asOf - row.at]
  <2>2. x \in Nat /\ y \in Nat /\ x <= y
    BY <1>3, <1>5, <2>1
  <2>3. at(later) = Least(rule.cap, x) /\ at(asOf) = Least(rule.cap, y)
    BY <1>2
  <2> HIDE DEF x, y
  <2> QED
    BY <1>1, <2>2, <2>3 DEF Least
<1> QED
  BY <1>4, <1>5 DEF at

-----------------------------------------------------------------------------
(* The evidence for a score *)

Sourced(rows) ==
  /\ IsFiniteSet(rows)
  /\ \A row \in rows : IsSourceRow(row) /\ row.at \in Int

Entered(rows) ==
  \A r, s \in rows : r.event = s.event /\ r.coin = s.coin /\ r.entry = s.entry => r = s

OfOneCoin(rows) == \A r, s \in rows : r.coin = s.coin

Found(rule, row, asOf) ==
  [coin |-> row.coin, rule |-> Named(rule), side |-> rule.side, feed |-> row.feed,
   contribution |-> Contribution(rule, row, asOf), events |-> {row.event},
   entry |-> row.entry, source |-> row.source, at |-> row.at,
   exchange |-> row.exchange, market |-> row.market]

Group(E, e) == {d \in E : d.side = e.side /\ d.rule = e.rule /\ d.feed = e.feed}
EventsOf(E, e) == UNION {d.events : d \in Group(E, e)}

BurstFound(E, e, asOf) ==
  [coin |-> e.coin, rule |-> Burst(e.rule), side |-> e.side, feed |-> e.feed,
   contribution |-> BurstPoints(Cardinality(EventsOf(E, e))), events |-> EventsOf(E, e),
   entry |-> 0, source |-> "aggregate", at |-> asOf, exchange |-> None, market |-> None]

LEMMA RowEvidenceIs ==
  ASSUME NEW rows, NEW asOf
  PROVE  /\ \A e \in RowEvidence(rows, asOf) : \E rule \in Rules, row \in rows :
              RuleApplies(rule, row) /\ e = Found(rule, row, asOf) /\ e.contribution > 0
         /\ \A rule \in Rules, row \in rows :
              RuleApplies(rule, row) /\ Contribution(rule, row, asOf) > 0 =>
                Found(rule, row, asOf) \in RowEvidence(rows, asOf)
<1> DEFINE applied == {p \in Rules \X rows : RuleApplies(p[1], p[2])}
           all == {Found(p[1], p[2], asOf) : p \in applied}
<1>1. RowEvidence(rows, asOf) = {e \in all : e.contribution > 0}
  BY DEF RowEvidence, Found
<1>2. \A e \in all : \E rule \in Rules, row \in rows :
        RuleApplies(rule, row) /\ e = Found(rule, row, asOf)
  <2>1. \A p \in applied : p[1] \in Rules /\ p[2] \in rows /\ RuleApplies(p[1], p[2])
    OBVIOUS
  <2> HIDE DEF applied
  <2> QED
    BY <2>1
<1>3. ASSUME NEW rule \in Rules, NEW row \in rows, RuleApplies(rule, row)
      PROVE  Found(rule, row, asOf) \in all
  <2>1. <<rule, row>> \in applied
    BY <1>3
  <2> HIDE DEF applied
  <2> QED
    BY <2>1
<1>4. \A rule, row : Found(rule, row, asOf).contribution = Contribution(rule, row, asOf)
  BY DEF Found
<1> HIDE DEF all
<1> QED
  BY <1>1, <1>2, <1>3, <1>4

LEMMA BurstsAre ==
  ASSUME NEW E, NEW asOf
  PROVE  /\ \A b \in Bursts(E, asOf) : \E e \in E :
              e.side # "risk" /\ Cardinality(EventsOf(E, e)) >= 3 /\ b = BurstFound(E, e, asOf)
         /\ \A e \in E : e.side # "risk" /\ Cardinality(EventsOf(E, e)) >= 3 =>
              BurstFound(E, e, asOf) \in Bursts(E, asOf)
<1> DEFINE many == {e \in E : e.side # "risk" /\ Cardinality(EventsOf(E, e)) >= BurstThreshold}
<1>1. Bursts(E, asOf) = {BurstFound(E, e, asOf) : e \in many}
  BY DEF Bursts, BurstFound, EventsOf, Group
<1>2. BurstThreshold = 3
  BY DEF BurstThreshold
<1> QED
  BY <1>1, <1>2

LEMMA FiniteRules == IsFiniteSet(Rules)
<1> DEFINE key == <<"spot_buy_pressure", "derivatives_buy_pressure", "price_alert_up",
                    "volume_alert_up", "oi_rising_with_price", "cex_outflow", "listing",
                    "negative_funding_contrarian", "spot_sell_pressure",
                    "derivatives_sell_pressure", "price_alert_down", "oi_loser", "cex_inflow",
                    "delisting", "positive_funding_overheated">>
           f == [i \in 1..15 |-> CHOOSE rule \in Rules : rule.key = key[i]]
<1>1. ASSUME NEW rule \in Rules PROVE \E i \in 1..15 : rule.key = key[i]
  BY DEF Rules, Rule
<1> HIDE DEF key
<1>2. ASSUME NEW rule \in Rules PROVE \E i \in 1..15 : rule = f[i]
  <2>1. PICK i \in 1..15 : rule.key = key[i]
    BY <1>1
  <2>2. f[i] \in Rules /\ f[i].key = key[i]
    BY <2>1
  <2>3. rule = f[i]
    BY <2>1, <2>2, RulesHaveKeys
  <2> QED
    BY <2>3
<1> HIDE DEF f
<1>3. IsFiniteSet({f[i] : i \in 1..15})
  <2>1. 1..15 \in SUBSET (1..15) /\ 15 \in Nat
    OBVIOUS
  <2>2. IsFiniteSet(1..15)
    BY <2>1, PartOfInterval
  <2> QED
    BY <2>2, FiniteImage
<1>4. Rules \subseteq {f[i] : i \in 1..15}
  BY <1>2
<1> QED
  BY <1>3, <1>4, FS_Subset

LEMMA FiniteEvidence ==
  ASSUME NEW rows, IsFiniteSet(rows), NEW asOf
  PROVE  /\ IsFiniteSet(RowEvidence(rows, asOf))
         /\ IsFiniteSet(Evidence(rows, asOf))
         /\ \A e \in RowEvidence(rows, asOf) : IsFiniteSet(EventsOf(RowEvidence(rows, asOf), e))
<1> DEFINE E == RowEvidence(rows, asOf)
<1>1. IsFiniteSet(E)
  <2> DEFINE f == [p \in Rules \X rows |-> Found(p[1], p[2], asOf)]
             all == {f[p] : p \in Rules \X rows}
  <2>1. IsFiniteSet(all)
    <3>1. IsFiniteSet(Rules \X rows)
      BY FiniteRules, FS_Product
    <3> HIDE DEF f
    <3> QED
      BY <3>1, FiniteImage
  <2>2. ASSUME NEW e \in E PROVE e \in all
    <3>1. PICK rule \in Rules, row \in rows : e = Found(rule, row, asOf)
      BY RowEvidenceIs
    <3>2. <<rule, row>> \in Rules \X rows /\ f[<<rule, row>>] = e
      BY <3>1
    <3> HIDE DEF f, E
    <3> QED
      BY <3>2
  <2> QED
    BY <2>1, <2>2, FS_Subset
<1>2. ASSUME NEW e \in E PROVE IsFiniteSet(EventsOf(E, e))
  <2> DEFINE f == [d \in E |-> d.events]
             G == Group(E, e)
  <2>1. G \subseteq E /\ IsFiniteSet(G)
    BY <1>1, FS_Subset DEF Group
  <2>2. \A d \in G : f[d] = d.events
    BY <2>1
  <2>3. ASSUME NEW d \in G PROVE IsFiniteSet(f[d])
    <3>1. d \in E
      BY <2>1
    <3>2. PICK rule \in Rules, row \in rows : d = Found(rule, row, asOf)
      BY <3>1, RowEvidenceIs
    <3>3. d.events = {row.event}
      BY <3>2 DEF Found
    <3>4. IsFiniteSet({row.event})
      BY FS_Singleton
    <3>5. IsFiniteSet(d.events)
      BY <3>3, <3>4
    <3> HIDE DEF f
    <3> QED
      BY <2>2, <3>5
  <2> HIDE DEF f, G
  <2>4. IsFiniteSet(UNION {f[d] : d \in G})
    BY <2>1, <2>3, FiniteUnion
  <2>5. {f[d] : d \in G} = {d.events : d \in G}
    BY <2>2
  <2> QED
    BY <2>4, <2>5 DEF EventsOf, G
<1>3. IsFiniteSet(Bursts(E, asOf))
  <2> DEFINE f == [e \in E |-> BurstFound(E, e, asOf)]
  <2>1. IsFiniteSet({f[e] : e \in E})
    <3> HIDE DEF f, E
    <3> QED
      BY <1>1, FiniteImage
  <2>2. Bursts(E, asOf) \subseteq {f[e] : e \in E}
    BY BurstsAre
  <2> QED
    BY <2>1, <2>2, FS_Subset
<1> QED
  BY <1>1, <1>2, <1>3, FS_Union DEF Evidence

LEMMA BurstPointsGrow ==
  /\ \A n \in Nat : n >= 3 => BurstPoints(n) \in Nat /\ BurstPoints(n) > 0
  /\ \A m, n \in Nat : m >= 3 /\ m <= n => BurstPoints(m) <= BurstPoints(n)
BY DEF BurstPoints, Least, BurstBonus

(* Every piece counts for something.                                       *)
LEMMA EvidenceCounts ==
  ASSUME NEW rows, Sourced(rows), NEW asOf \in Int, \A row \in rows : asOf - row.at \in 0..MaxAge,
         NEW e \in Evidence(rows, asOf)
  PROVE  e.contribution \in Nat /\ e.contribution > 0
<1> DEFINE E == RowEvidence(rows, asOf)
<1>1. CASE e \in E
  <2>1. PICK rule \in Rules, row \in rows : e = Found(rule, row, asOf) /\ e.contribution > 0
    BY <1>1, RowEvidenceIs
  <2>2. e.contribution = Contribution(rule, row, asOf)
    BY <2>1 DEF Found
  <2> QED
    BY <2>1, <2>2, ContributionFades DEF Sourced
<1>2. CASE e \in Bursts(E, asOf)
  <2>1. PICK d \in E : /\ Cardinality(EventsOf(E, d)) >= 3
                       /\ e = BurstFound(E, d, asOf)
    BY <1>2, BurstsAre
  <2>2. IsFiniteSet(EventsOf(E, d))
    BY FiniteEvidence DEF Sourced
  <2> HIDE DEF E
  <2>3. Cardinality(EventsOf(E, d)) \in Nat
    BY <2>2, FS_CardinalityType
  <2>4. e.contribution = BurstPoints(Cardinality(EventsOf(E, d)))
    BY <2>1 DEF BurstFound
  <2> QED
    BY <2>1, <2>3, <2>4, BurstPointsGrow
<1> QED
  BY <1>1, <1>2 DEF Evidence

-----------------------------------------------------------------------------
(* A quiet coin.  A piece of evidence is found again in an earlier run: it *)
(* has the same rule and feed, and the same entry unless it is for a burst.*)
Again(e, d) ==
  /\ d.rule = e.rule /\ d.side = e.side /\ d.feed = e.feed
  /\ e.rule[2] = "" => d.events = e.events /\ d.entry = e.entry

LEMMA RowIsFoundAgain ==
  ASSUME NEW rows, Sourced(rows), NEW asOf \in Int, NEW later \in Int, asOf <= later,
         \A row \in rows : row.at <= asOf,
         NEW e \in RowEvidence(Fresh(rows, later), later)
  PROVE  \E d \in RowEvidence(Fresh(rows, asOf), asOf) :
           /\ Again(e, d) /\ e.contribution <= d.contribution
           /\ d.events = e.events
<1>1. PICK rule \in Rules, row \in Fresh(rows, later) :
        RuleApplies(rule, row) /\ e = Found(rule, row, later) /\ e.contribution > 0
  BY RowEvidenceIs
<1>2. row \in rows /\ later - row.at \in 0..MaxAge
  BY DEF Fresh
<1>3. row.at \in Int /\ row.at <= asOf /\ IsSourceRow(row)
  BY <1>2 DEF Sourced
<1>4. asOf - row.at \in 0..MaxAge
  BY <1>2, <1>3 DEF MaxAge
<1>5. row \in Fresh(rows, asOf)
  BY <1>2, <1>4 DEF Fresh
<1>6. /\ Contribution(rule, row, later) \in Nat /\ Contribution(rule, row, asOf) \in Nat
      /\ Contribution(rule, row, later) <= Contribution(rule, row, asOf)
  BY <1>2, <1>3, <1>4, ContributionFades
<1>7. Contribution(rule, row, later) > 0
  BY <1>1 DEF Found
<1>8. Found(rule, row, asOf) \in RowEvidence(Fresh(rows, asOf), asOf)
  BY <1>1, <1>5, <1>6, <1>7, RowEvidenceIs
<1>9. /\ Again(e, Found(rule, row, asOf)) /\ e.events = Found(rule, row, asOf).events
      /\ e.contribution <= Found(rule, row, asOf).contribution
  BY <1>1, <1>6 DEF Found, Again
<1> QED
  BY <1>8, <1>9

LEMMA BurstIsFoundAgain ==
  ASSUME NEW rows, Sourced(rows), NEW asOf \in Int, NEW later \in Int, asOf <= later,
         \A row \in rows : row.at <= asOf,
         NEW b \in Bursts(RowEvidence(Fresh(rows, later), later), later)
  PROVE  \E d \in Bursts(RowEvidence(Fresh(rows, asOf), asOf), asOf) :
           Again(b, d) /\ b.contribution <= d.contribution
<1> DEFINE E == RowEvidence(Fresh(rows, later), later)
           D == RowEvidence(Fresh(rows, asOf), asOf)
<1>1. PICK e \in E : /\ e.side # "risk" /\ Cardinality(EventsOf(E, e)) >= 3
                     /\ b = BurstFound(E, e, later)
  BY BurstsAre
<1>2. \A x \in E : \E d \in D : Again(x, d) /\ d.events = x.events
  BY RowIsFoundAgain
<1>3. PICK d \in D : Again(e, d)
  BY <1>2
<1>4. IsFiniteSet(Fresh(rows, asOf)) /\ IsFiniteSet(Fresh(rows, later))
  BY FS_Subset DEF Sourced, Fresh
<1>5. IsFiniteSet(EventsOf(E, e)) /\ IsFiniteSet(EventsOf(D, d))
  BY <1>4, FiniteEvidence
<1> HIDE DEF E, D
<1>6. EventsOf(E, e) \subseteq EventsOf(D, d)
  <2>1. ASSUME NEW event \in EventsOf(E, e) PROVE event \in EventsOf(D, d)
    <3>1. PICK x \in Group(E, e) : event \in x.events
      BY DEF EventsOf
    <3>2. x \in E /\ x.side = e.side /\ x.rule = e.rule /\ x.feed = e.feed
      BY DEF Group
    <3>3. PICK y \in D : Again(x, y) /\ y.events = x.events
      BY <1>2, <3>2
    <3>4. y \in Group(D, d)
      BY <1>3, <3>2, <3>3 DEF Again, Group
    <3> QED
      BY <3>1, <3>3, <3>4 DEF EventsOf
  <2> QED
    BY <2>1
<1> DEFINE m == Cardinality(EventsOf(E, e))
           n == Cardinality(EventsOf(D, d))
<1>7. m \in Nat /\ n \in Nat /\ m <= n
  BY <1>5, <1>6, FS_Subset, FS_CardinalityType
<1>8. m >= 3
  BY <1>1
<1>9. BurstPoints(m) <= BurstPoints(n) /\ n >= 3
  <2> HIDE DEF m, n
  <2> QED
    BY <1>7, <1>8, BurstPointsGrow
<1>10. d.side # "risk"
  BY <1>1, <1>3 DEF Again
<1>11. BurstFound(D, d, asOf) \in Bursts(D, asOf)
  BY <1>9, <1>10, BurstsAre
<1>12. /\ Again(b, BurstFound(D, d, asOf))
       /\ b.contribution <= BurstFound(D, d, asOf).contribution
  BY <1>1, <1>3, <1>9 DEF BurstFound, Again, Burst
<1> QED
  BY <1>11, <1>12 DEF D

LEMMA RuleNames ==
  /\ \A rule, other : Named(rule)[2] = "" /\ (Named(rule) = Named(other) => rule.key = other.key)
  /\ \A rule, other : Named(rule)[1] = Named(other)[1] => Named(rule) = Named(other)
  /\ \A name, other : Burst(name)[2] = "_burst" /\ (Burst(name) = Burst(other) => name[1] = other[1])
BY DEF Named, Burst

LEMMA FoundFields ==
  ASSUME NEW rule, NEW row, NEW asOf
  PROVE  /\ Found(rule, row, asOf).rule = Named(rule)
         /\ Found(rule, row, asOf).coin = row.coin
         /\ Found(rule, row, asOf).side = rule.side
         /\ Found(rule, row, asOf).feed = row.feed
         /\ Found(rule, row, asOf).events = {row.event}
         /\ Found(rule, row, asOf).entry = row.entry
         /\ Found(rule, row, asOf).contribution = Contribution(rule, row, asOf)
BY DEF Found

(* Two pieces of one run are not the same piece of an earlier one.         *)
LEMMA FoundOnce ==
  ASSUME NEW rows, Entered(rows), OfOneCoin(rows), NEW asOf,
         NEW e \in Evidence(rows, asOf), NEW d \in Evidence(rows, asOf),
         Again(e, d)
  PROVE  e = d
<1> DEFINE E == RowEvidence(rows, asOf)
<1>1. \A x \in E : x.rule[2] = ""
  <2> SUFFICES ASSUME NEW x \in E PROVE x.rule[2] = ""
    OBVIOUS
  <2>1. PICK rule \in Rules, row \in rows : x = Found(rule, row, asOf)
    BY RowEvidenceIs
  <2>2. x.rule = Named(rule)
    BY <2>1, FoundFields
  <2>3. Named(rule)[2] = ""
    BY DEF Named
  <2> QED
    BY <2>2, <2>3
<1>2. \A x \in Bursts(E, asOf) : x.rule[2] = "_burst"
  <2>1. \A x \in Bursts(E, asOf) : \E y \in E : x = BurstFound(E, y, asOf)
    BY BurstsAre
  <2> HIDE DEF E
  <2> QED
    BY <2>1 DEF BurstFound, Burst
<1>0. e.rule = d.rule /\ e.side = d.side /\ e.feed = d.feed
  BY DEF Again
<1>3. CASE e \in E
  <2>1. d \in E
    BY <1>0, <1>1, <1>2, <1>3 DEF Evidence
  <2>2. PICK rule \in Rules, row \in rows : e = Found(rule, row, asOf)
    BY <1>3, RowEvidenceIs
  <2>3. PICK other \in Rules, s \in rows : d = Found(other, s, asOf)
    BY <2>1, RowEvidenceIs
  <2>9. e.rule = Named(rule) /\ d.rule = Named(other)
    BY <2>2, <2>3, FoundFields
  <2>4. rule.key = other.key
    BY <1>0, <2>9, RuleNames
  <2>5. rule = other
    BY <2>4, RulesHaveKeys
  <2>6. e.events = d.events /\ e.entry = d.entry
    BY <1>1, <1>3 DEF Again
  <2>7. row.event = s.event /\ row.entry = s.entry
    BY <2>2, <2>3, <2>6 DEF Found
  <2>8. row = s
    BY <2>7 DEF Entered, OfOneCoin
  <2> QED
    BY <2>2, <2>3, <2>5, <2>8
<1>4. CASE e \in Bursts(E, asOf)
  <2>1. d \in Bursts(E, asOf)
    BY <1>0, <1>1, <1>2, <1>4 DEF Evidence
  <2>2. PICK x \in E : e = BurstFound(E, x, asOf)
    BY <1>4, BurstsAre
  <2>3. PICK y \in E : d = BurstFound(E, y, asOf)
    BY <2>1, BurstsAre
  <2>4. \A z \in E : \E rule \in Rules, row \in rows : z = Found(rule, row, asOf)
    BY RowEvidenceIs
  <2> HIDE DEF E
  <2>9. e.rule = Burst(x.rule) /\ d.rule = Burst(y.rule)
    BY <2>2, <2>3 DEF BurstFound
  <2>5. x.side = y.side /\ x.feed = y.feed /\ x.rule[1] = y.rule[1]
    <3>1. x.rule[1] = y.rule[1]
      <4>1. Burst(x.rule) = Burst(y.rule)
        BY <1>0, <2>9
      <4>2. Burst(x.rule)[1] = x.rule[1] /\ Burst(y.rule)[1] = y.rule[1]
        BY DEF Burst
      <4> HIDE DEF E
      <4> QED
        BY <4>1, <4>2
    <3> QED
      BY <1>0, <2>2, <2>3, <3>1 DEF BurstFound
  <2>6. x.rule = y.rule
    <3>1. PICK rule \in Rules : x.rule = Named(rule)
      BY <2>4, FoundFields
    <3>2. PICK other \in Rules : y.rule = Named(other)
      BY <2>4, FoundFields
    <3> QED
      BY <2>5, <3>1, <3>2, RuleNames
  <2>7. x.coin = y.coin
    BY <2>4 DEF Found, OfOneCoin
  <2>8. EventsOf(E, x) = EventsOf(E, y)
    BY <2>5, <2>6 DEF EventsOf, Group
  <2> QED
    BY <2>2, <2>3, <2>5, <2>6, <2>7, <2>8 DEF BurstFound
<1> QED
  BY <1>3, <1>4 DEF Evidence

LEMMA AgainBoth ==
  ASSUME NEW x, NEW y, NEW d, Again(x, d), Again(y, d)
  PROVE  Again(x, y)
BY DEF Again

LEMMA PartFresh ==
  ASSUME NEW rows, Sourced(rows), Entered(rows), OfOneCoin(rows), NEW asOf
  PROVE  /\ Sourced(Fresh(rows, asOf)) /\ Entered(Fresh(rows, asOf)) /\ OfOneCoin(Fresh(rows, asOf))
         /\ \A row \in Fresh(rows, asOf) : asOf - row.at \in 0..MaxAge
<1>1. Fresh(rows, asOf) \subseteq rows
  BY DEF Fresh
<1>2. IsFiniteSet(Fresh(rows, asOf))
  BY <1>1, FS_Subset DEF Sourced
<1>3. \A row \in Fresh(rows, asOf) : asOf - row.at \in 0..MaxAge
  BY DEF Fresh
<1> QED
  BY <1>1, <1>2, <1>3 DEF Sourced, Entered, OfOneCoin

(* Every piece of evidence was there before, and counted for as much.      *)
LEMMA EvidenceIsFoundAgain ==
  ASSUME NEW rows, Sourced(rows), NEW asOf \in Int, NEW later \in Int, asOf <= later,
         \A row \in rows : row.at <= asOf,
         NEW e \in Evidence(Fresh(rows, later), later)
  PROVE  \E d \in Evidence(Fresh(rows, asOf), asOf) :
           Again(e, d) /\ e.contribution <= d.contribution
<1> DEFINE now == Fresh(rows, asOf)
           then == Fresh(rows, later)
<1>1. CASE e \in RowEvidence(then, later)
  <2>1. PICK d \in RowEvidence(now, asOf) : Again(e, d) /\ e.contribution <= d.contribution
    BY <1>1, RowIsFoundAgain
  <2> QED
    BY <2>1 DEF Evidence
<1>2. CASE e \in Bursts(RowEvidence(then, later), later)
  <2>1. PICK d \in Bursts(RowEvidence(now, asOf), asOf) : Again(e, d) /\ e.contribution <= d.contribution
    BY <1>2, BurstIsFoundAgain
  <2> QED
    BY <2>1 DEF Evidence
<1> QED
  BY <1>1, <1>2 DEF Evidence

LEMMA RawIsSum ==
  ASSUME NEW E, IsFiniteSet(E), \A e \in E : e.contribution \in Nat, NEW sides
  PROVE  Raw(E, sides) \in Nat
<1> DEFINE S == {e \in E : e.side \in sides}
           f == [e \in S |-> e.contribution]
<1>1. IsFiniteSet(S)
  BY FS_Subset
<1>2. DOMAIN f = S /\ \A e \in S : f[e] \in Nat
  OBVIOUS
<1>3. Raw(E, sides) = SumOf(f)
  BY DEF Raw
<1> HIDE DEF f, S
<1>4. IsFiniteSet(DOMAIN f) /\ (\A e \in DOMAIN f : f[e] \in Int /\ f[e] >= 0) /\ DOMAIN f \in SUBSET DOMAIN f
  BY <1>1, <1>2
<1>5. Sums(f)[DOMAIN f] \in Int /\ Sums(f)[DOMAIN f] >= 0
  BY <1>4, SumsAreNumbers, SumHasSign
<1> QED
  BY <1>3, <1>5 DEF SumOf

LEMMA EvidenceFades ==
  ASSUME NEW rows, Sourced(rows), Entered(rows), OfOneCoin(rows),
         NEW asOf \in Int, NEW later \in Int, asOf <= later,
         \A row \in rows : row.at <= asOf, NEW sides
  PROVE  /\ Raw(Evidence(Fresh(rows, asOf), asOf), sides) \in Nat
         /\ Raw(Evidence(Fresh(rows, later), later), sides) \in Nat
         /\ Raw(Evidence(Fresh(rows, later), later), sides)
              <= Raw(Evidence(Fresh(rows, asOf), asOf), sides)
<1> DEFINE D == Evidence(Fresh(rows, asOf), asOf)
           E == Evidence(Fresh(rows, later), later)
<1>1. IsFiniteSet(D) /\ IsFiniteSet(E)
  BY PartFresh, FiniteEvidence DEF Sourced
<1>2. ASSUME NEW e \in D PROVE e.contribution \in Nat
  BY PartFresh, EvidenceCounts
<1>3. ASSUME NEW e \in E PROVE e.contribution \in Nat
  BY PartFresh, EvidenceCounts
<1>4. \A e \in E : \E d \in D : Again(e, d) /\ e.contribution <= d.contribution
  BY EvidenceIsFoundAgain
<1>5. \A e, d \in E : Again(e, d) => e = d
  BY PartFresh, FoundOnce
<1> HIDE DEF D, E
<1> DEFINE before(e) == CHOOSE d \in D : Again(e, d) /\ e.contribution <= d.contribution
           S == {e \in E : e.side \in sides}
           T == {d \in D : d.side \in sides}
           f == [e \in S |-> e.contribution]
           g == [d \in T |-> d.contribution]
           to == [e \in S |-> before(e)]
<1>6. ASSUME NEW e \in E
      PROVE  before(e) \in D /\ Again(e, before(e)) /\ e.contribution <= before(e).contribution
  BY <1>4
<1>7. Raw(E, sides) = SumOf(f) /\ Raw(D, sides) = SumOf(g)
  BY DEF Raw
<1>8. IsFiniteSet(S) /\ IsFiniteSet(T)
  BY <1>1, FS_Subset
<1>9. DOMAIN f = S /\ DOMAIN g = T /\ (\A e \in S : f[e] = e.contribution /\ e.contribution \in Nat)
      /\ (\A d \in T : g[d] = d.contribution /\ d.contribution \in Nat)
  BY <1>2, <1>3
<1>10. \A e \in S : to[e] = before(e)
  OBVIOUS
<1> HIDE DEF before, f, g, to
<1>11. ASSUME NEW e \in S PROVE to[e] \in T /\ f[e] <= g[to[e]]
  <2>1. before(e) \in D /\ Again(e, before(e)) /\ e.contribution <= before(e).contribution
    BY <1>6
  <2>2. before(e) \in T
    BY <2>1 DEF Again
  <2> QED
    BY <1>9, <1>10, <2>1, <2>2
<1>12. ASSUME NEW x \in S, NEW y \in S, to[x] = to[y] PROVE x = y
  <2>1. Again(x, before(x)) /\ Again(y, before(y)) /\ before(x) = before(y)
    BY <1>6, <1>10, <1>12
  <2>2. Again(x, y)
    BY <2>1, AgainBoth
  <2> QED
    BY <1>5, <2>2
<1> HIDE DEF S, T
<1>13. /\ IsFiniteSet(DOMAIN f) /\ (\A x \in DOMAIN f : f[x] \in Int)
       /\ IsFiniteSet(DOMAIN g) /\ (\A y \in DOMAIN g : g[y] \in Int /\ g[y] >= 0)
       /\ (\A x \in DOMAIN f : to[x] \in DOMAIN g /\ f[x] <= g[to[x]])
       /\ (\A x, y \in DOMAIN f : to[x] = to[y] => x = y)
  BY <1>8, <1>9, <1>11, <1>12
<1>14. SumOf(f) <= SumOf(g)
  BY <1>13, SumIsAtMost
<1>15. Raw(D, sides) \in Nat
  BY <1>1, <1>2, RawIsSum
<1>16. Raw(E, sides) \in Nat
  BY <1>1, <1>3, RawIsSum
<1> QED
  BY <1>7, <1>14, <1>15, <1>16 DEF D, E

(* The more a side is worth, the higher its score.                         *)
LEMMA SideScoreGrows ==
  ASSUME NEW a \in Nat, NEW b \in Nat, a <= b
  PROVE  SideScore(a) \in Nat /\ SideScore(a) <= SideScore(b)
<1> DEFINE c == 4500
           p == (10000 * a) \div (a + c)
           q == (10000 * b) \div (b + c)
<1>0. SideSaturation = c
  BY DEF SideSaturation
<1>1. p \in Int /\ p * (a + c) <= 10000 * a /\ q \in Int
  <2>1. 10000 * a \in Int /\ a + c \in Int /\ a + c > 0 /\ 10000 * b \in Int /\ b + c \in Int /\ b + c > 0
    OBVIOUS
  <2> QED
    BY <2>1, Quotient
<1>2. p \in Nat /\ p <= 10000
  OBVIOUS
<1>3. p <= q
  <2>1. p * (b + c) <= 10000 * b
    <3>1. p * (b - a) <= 10000 * (b - a)
      <4>1. (10000 - p) * (b - a) >= 0
        BY <1>2
      <4> QED
        BY <1>2, <4>1
    <3>2. p * (b + c) = p * (a + c) + p * (b - a)
      BY <1>2
    <3> QED
      BY <1>1, <3>1, <3>2
  <2>2. 10000 * b \in Int /\ b + c \in Int /\ b + c > 0
    OBVIOUS
  <2> QED
    BY <1>1, <2>1, <2>2, AtMostQuotient
<1>4. SideScore(a) = Clamp(p, 0, 10000) /\ SideScore(b) = Clamp(q, 0, 10000)
  BY <1>0 DEF SideScore
<1> HIDE DEF p, q
<1> QED
  BY <1>1, <1>2, <1>3, <1>4 DEF Clamp

LEMMA ScoreFades ==
  ASSUME NEW rows, Sourced(rows), Entered(rows), OfOneCoin(rows),
         NEW asOf \in Int, NEW later \in Int, asOf <= later,
         \A row \in rows : row.at <= asOf
  PROVE  /\ ScoreCoin(rows, later).bull <= ScoreCoin(rows, asOf).bull
         /\ ScoreCoin(rows, later).bear <= ScoreCoin(rows, asOf).bear
<1> DEFINE raw(t, sides) == Raw(Evidence(Fresh(rows, t), t), sides)
<1>1. \A t \in Int : /\ ScoreCoin(rows, t).bull = SideScore(raw(t, {"bull"}))
                     /\ ScoreCoin(rows, t).bear = SideScore(raw(t, {"bear", "risk"}))
  BY DEF ScoreCoin
<1>2. \A sides : raw(asOf, sides) \in Nat /\ raw(later, sides) \in Nat /\ raw(later, sides) <= raw(asOf, sides)
  BY EvidenceFades
<1> HIDE DEF raw
<1>3. SideScore(raw(later, {"bull"})) <= SideScore(raw(asOf, {"bull"}))
  BY <1>2, SideScoreGrows
<1>4. SideScore(raw(later, {"bear", "risk"})) <= SideScore(raw(asOf, {"bear", "risk"}))
  BY <1>2, SideScoreGrows
<1> QED
  BY <1>1, <1>3, <1>4

Dated(row) == {"event", "at"} \subseteq DOMAIN row

(* Every entry received once, under the number of its event.               *)
Received ==
  /\ clock \in Int
  /\ Sourced(received) /\ Entered(received)
  /\ \A row \in received : row.coin \in Coins /\ Dated(row)
  /\ Events = 1..Cardinality(Events)

LEMMA StoredIs ==
  ASSUME NEW row, IsSourceRow(row)
  PROVE  /\ Stored(row).event = Cardinality(Events) + 1 /\ Stored(row).at = clock
         /\ Stored(row).coin = row.coin /\ Stored(row).entry = row.entry
         /\ IsSourceRow(Stored(row)) /\ Dated(Stored(row))
<1> DEFINE r == Stored(row)
<1>1. DOMAIN r = {"event", "at"} \cup DOMAIN row
  BY DEF Stored, With
<1>2. r.event = Cardinality(Events) + 1 /\ r.at = clock
  BY <1>1 DEF Stored, With
<1>3. \A f \in DOMAIN row \ {"event", "at"} : r[f] = row[f]
  BY <1>1 DEF Stored, With
<1>4. Columns \cup {"coin", "entry"} \subseteq DOMAIN row \ {"event", "at"}
  BY DEF IsSourceRow, Columns
<1>5. r.coin = row.coin /\ r.entry = row.entry /\ \A f \in Columns : r[f] = row[f]
  BY <1>3, <1>4
<1>6. r.price = row.price /\ r.percent = row.percent
  BY <1>5 DEF Columns
<1> HIDE DEF r
<1>7. IsSourceRow(r) /\ Dated(r)
  BY <1>1, <1>5, <1>6 DEF IsSourceRow, Dated
<1> QED
  BY <1>2, <1>5, <1>7 DEF r

LEMMA EventsAreFinite ==
  ASSUME Received
  PROVE  IsFiniteSet(Events) /\ Cardinality(Events) \in Nat
<1>1. IsFiniteSet(received)
  BY DEF Received, Sourced
<1> DEFINE f == [row \in received |-> row.event]
<1>2. IsFiniteSet({f[row] : row \in received})
  BY <1>1, FiniteImage
<1>3. Events = {f[row] : row \in received}
  BY DEF Events
<1> HIDE DEF f
<1> QED
  BY <1>2, <1>3, FS_CardinalityType

LEMMA ReceivedFirst == Init => Received
<1> SUFFICES ASSUME Init PROVE Received
  OBVIOUS
<1>1. received \in Backlogs /\ clock = 0
  BY DEF Init
<1>2. Sourced(received) /\ \A row \in received : row.coin \in Coins /\ Dated(row)
  BY <1>1, ScoreStoreAssumption, EntryAssumption DEF Sourced, Dated
<1>3. Entered(received) /\ Events = 1..Cardinality(Events)
  BY <1>1, EntryAssumption DEF Entered, Events
<1> QED
  BY <1>1, <1>2, <1>3 DEF Received

LEMMA ReceiveKeeps ==
  ASSUME Received, NEW alert \in Alerts, Receive(alert)
  PROVE  Received'
<1> DEFINE new == {Stored(row) : row \in alert}
           n == Cardinality(Events)
<1>1. received' = received \cup new /\ clock' = clock
  BY DEF Receive
<1>2. n \in Nat /\ Events = 1..n
  BY EventsAreFinite DEF Received
<1>3. \A row \in alert : IsSourceRow(row) /\ row.coin \in Coins
  BY ScoreStoreAssumption
<1>4. \A row \in alert : /\ Stored(row).event = n + 1 /\ Stored(row).at = clock
                         /\ Stored(row).coin = row.coin /\ Stored(row).entry = row.entry
                         /\ IsSourceRow(Stored(row)) /\ Dated(Stored(row))
  BY <1>3, StoredIs
<1> HIDE DEF n
<1>5. \A row \in received : row.event # n + 1
  <2>1. \A row \in received : row.event \in Events
    BY DEF Events
  <2>2. n + 1 \notin 1..n
    BY <1>2
  <2> QED
    BY <1>2, <2>1, <2>2
<1>6. IsFiniteSet(new)
  <2> DEFINE f == [row \in alert |-> Stored(row)]
  <2>1. IsFiniteSet(alert)
    BY ScoreStoreAssumption
  <2>2. IsFiniteSet({f[row] : row \in alert})
    BY <2>1, FiniteImage
  <2> QED
    BY <2>2
<1>7. Sourced(received)'
  <2>1. IsFiniteSet(received \cup new)
    BY <1>6, FS_Union DEF Received, Sourced
  <2>2. \A row \in received \cup new : IsSourceRow(row) /\ row.at \in Int
    BY <1>4 DEF Received, Sourced
  <2> QED
    BY <1>1, <2>1, <2>2 DEF Sourced
<1>8. Entered(received)'
  <2> SUFFICES ASSUME NEW r \in received \cup new, NEW s \in received \cup new,
                      r.event = s.event, r.coin = s.coin, r.entry = s.entry
               PROVE  r = s
    BY <1>1 DEF Entered
  <2>1. CASE r \in received /\ s \in received
    BY <2>1 DEF Received, Entered
  <2>2. CASE r \in new /\ s \in new
    <3>1. PICK a \in alert, b \in alert : r = Stored(a) /\ s = Stored(b)
      BY <2>2
    <3>2. a.coin = b.coin /\ a.entry = b.entry
      BY <1>4, <3>1
    <3>3. a = b
      BY <3>2, EntryAssumption
    <3> QED
      BY <3>1, <3>3
  <2>3. \A row \in new : row.event = n + 1
    BY <1>4
  <2> QED
    BY <1>5, <2>1, <2>2, <2>3
<1>9. \A row \in received' : row.coin \in Coins /\ Dated(row)
  BY <1>1, <1>3, <1>4 DEF Received
<1>10. (Events = 1..Cardinality(Events))'
  <2>1. CASE alert = {}
    <3>1. received' = received
      BY <1>1, <2>1
    <3>2. Events' = Events
      BY <3>1 DEF Events
    <3> QED
      BY <3>2 DEF Received
  <2>2. CASE alert # {}
    <3>1. Events' = Events \cup {n + 1}
      <4>1. Events' = {row.event : row \in received \cup new}
        BY <1>1 DEF Events
      <4>2. {row.event : row \in new} = {n + 1}
        BY <1>4, <2>2
      <4> HIDE DEF new
      <4> QED
        BY <4>1, <4>2 DEF Events
    <3>2. Events' = 1..(n + 1)
      BY <1>2, <3>1
    <3>3. Cardinality(1..(n + 1)) = n + 1
      <4> DEFINE b == n + 1
      <4>1. b \in Int /\ b >= 1
        BY <1>2
      <4> HIDE DEF b
      <4>2. 1 \in Int
        OBVIOUS
      <4>3. Cardinality(1..b) = IF 1 > b THEN 0 ELSE b - 1 + 1
        BY <4>1, <4>2, FS_Interval
      <4> QED
        BY <4>1, <4>3 DEF b
    <3> QED
      BY <3>2, <3>3
  <2> QED
    BY <2>1, <2>2
<1> QED
  BY <1>1, <1>7, <1>8, <1>9, <1>10 DEF Received

LEMMA ReceivedStays == Received /\ [Next]_scoreVars => Received'
<1> SUFFICES ASSUME Received, [Next]_scoreVars PROVE Received'
  OBVIOUS
<1>1. ASSUME UNCHANGED received, clock' \in Int PROVE Received'
  BY <1>1 DEF Received, Events
<1>2. clock \in Int
  BY DEF Received
<1>3. CASE Tick
  BY <1>1, <1>2, <1>3 DEF Tick
<1>4. CASE SetBack
  BY <1>1, <1>2, <1>4 DEF SetBack
<1>5. CASE \E v \in Versions : Restart(v)
  BY <1>1, <1>2, <1>5 DEF Restart
<1>6. CASE \E alert \in Alerts : Receive(alert)
  BY <1>6, ReceiveKeeps
<1>7. CASE \E coins \in SUBSET ScoredCoins \ {{}} : Run(coins)
  BY <1>1, <1>2, <1>7 DEF Run
<1>8. CASE UNCHANGED scoreVars
  BY <1>1, <1>2, <1>8 DEF scoreVars
<1> QED
  BY <1>3, <1>4, <1>5, <1>6, <1>7, <1>8 DEF Next

LEMMA RowsOfCoin ==
  ASSUME Received, NEW coin, NEW rows \in SUBSET received, \A row \in rows : row.coin = coin
  PROVE  Sourced(rows) /\ Entered(rows) /\ OfOneCoin(rows)
<1>1. IsFiniteSet(rows)
  BY FS_Subset DEF Received, Sourced
<1> QED
  BY <1>1 DEF Received, Sourced, Entered, OfOneCoin

LEMMA ReceivedFade == Received => QuietCoinsFade
<1> SUFFICES ASSUME Received, NEW coin \in Coins
             PROVE  LET rows == {row \in received : row.coin = coin /\ row.at <= clock}
                        scores == {[wait |-> wait, score |-> ScoreCoin(rows, clock + wait)] :
                                     wait \in 0..(MaxAge + 1)}
                    IN \A now, later \in scores :
                         now.wait <= later.wait => /\ later.score.bull <= now.score.bull
                                                   /\ later.score.bear <= now.score.bear
  BY DEF QuietCoinsFade
<1> DEFINE rows == {row \in received : row.coin = coin /\ row.at <= clock}
           score(wait) == [wait |-> wait, score |-> ScoreCoin(rows, clock + wait)]
<1>1. Sourced(rows) /\ Entered(rows) /\ OfOneCoin(rows)
  BY RowsOfCoin
<1>2. clock \in Int /\ \A row \in rows : row.at <= clock /\ row.at \in Int
  BY <1>1 DEF Received, Sourced
<1>3. ASSUME NEW i \in 0..(MaxAge + 1), NEW j \in 0..(MaxAge + 1), i <= j
      PROVE  /\ ScoreCoin(rows, clock + j).bull <= ScoreCoin(rows, clock + i).bull
             /\ ScoreCoin(rows, clock + j).bear <= ScoreCoin(rows, clock + i).bear
  <2>0. i \in Nat /\ j \in Nat
    BY DEF MaxAge
  <2>1. clock + i \in Int /\ clock + j \in Int /\ clock + i <= clock + j
    BY <1>2, <1>3, <2>0
  <2>2. \A row \in rows : row.at <= clock + i
    BY <1>2, <2>0
  <2> HIDE DEF rows
  <2> QED
    BY <1>1, <2>1, <2>2, ScoreFades
<1> HIDE DEF rows
<1>4. ASSUME NEW i \in 0..(MaxAge + 1), NEW j \in 0..(MaxAge + 1), score(i).wait <= score(j).wait
      PROVE  /\ score(j).score.bull <= score(i).score.bull
             /\ score(j).score.bear <= score(i).score.bear
  BY <1>3, <1>4
<1> QED
  BY <1>4 DEF rows

(* Whatever was received of a coin, its score on either side only falls    *)
(* while nothing more arrives: every piece of evidence of a later run was  *)
(* evidence of an earlier one, for no fewer points (calculateScores).      *)
THEOREM QuietCoinsKeepFading ==
  Spec => []QuietCoinsFade
BY ReceivedFirst, ReceivedStays, ReceivedFade, PTL DEF Spec

-----------------------------------------------------------------------------
(* Had the market gone the other way *)

BothKeys == {"spot_buy_pressure", "spot_sell_pressure", "derivatives_buy_pressure",
             "derivatives_sell_pressure", "price_alert_up", "price_alert_down",
             "cex_outflow", "cex_inflow"}

Opposite(key) ==
  CASE key = "spot_buy_pressure" -> "spot_sell_pressure"
    [] key = "spot_sell_pressure" -> "spot_buy_pressure"
    [] key = "derivatives_buy_pressure" -> "derivatives_sell_pressure"
    [] key = "derivatives_sell_pressure" -> "derivatives_buy_pressure"
    [] key = "price_alert_up" -> "price_alert_down"
    [] key = "price_alert_down" -> "price_alert_up"
    [] key = "cex_outflow" -> "cex_inflow"
    [] key = "cex_inflow" -> "cex_outflow"

OtherSide(side) == IF side = "bull" THEN "bear" ELSE "bull"

(* The feeds of rows that can be mirrored. *)
BothFeeds == PriceFeeds \cup FlowFeeds \cup
             {"all_spot_top_buy_5m", "all_spot_top_sell_5m",
              "all_derivatives_top_buy_5m", "all_derivatives_top_sell_5m"}

OtherFeed(feed) ==
  CASE feed = "all_spot_top_buy_5m" -> "all_spot_top_sell_5m"
    [] feed = "all_spot_top_sell_5m" -> "all_spot_top_buy_5m"
    [] feed = "all_derivatives_top_buy_5m" -> "all_derivatives_top_sell_5m"
    [] feed = "all_derivatives_top_sell_5m" -> "all_derivatives_top_buy_5m"
    [] OTHER -> feed

LEMMA KeysMirror ==
  /\ \A key \in BothKeys : Opposite(key) \in BothKeys /\ Opposite(Opposite(key)) = key
  /\ \A key, other \in BothKeys : Opposite(key) = Opposite(other) => key = other
<1>1. \A key \in BothKeys : Opposite(key) \in BothKeys /\ Opposite(Opposite(key)) = key
  BY DEF BothKeys, Opposite
<1> QED
  BY <1>1

LEMMA FeedsMirror ==
  /\ \A row : Mirrorable(row) <=> row.feed \in BothFeeds
  /\ \A feed \in BothFeeds : MirroredFeed(feed) \in BothFeeds /\ MirroredFeed(MirroredFeed(feed)) = feed
  /\ \A feed, other \in BothFeeds : MirroredFeed(feed) = MirroredFeed(other) => feed = other
  /\ \A feed \in BothFeeds : MirroredFeed(feed) = OtherFeed(feed)
<1>1. \A row : Mirrorable(row) <=> row.feed \in BothFeeds
  BY DEF Mirrorable, BothFeeds, MirroredFeeds
<1>2. ASSUME NEW feed \in BothFeeds PROVE MirroredFeed(feed) = OtherFeed(feed)
  <2>1. CASE feed \in PriceFeeds \cup FlowFeeds
    BY <2>1 DEF MirroredFeed, OtherFeed, PriceFeeds, FlowFeeds
  <2>2. CASE feed \notin PriceFeeds \cup FlowFeeds
    <3> DEFINE has(p) == feed \in {p[1], p[2]}
               pair == CHOOSE p \in MirroredFeeds : has(p)
    <3>1. \E p \in MirroredFeeds : has(p)
      BY <2>2 DEF BothFeeds, MirroredFeeds
    <3>2. pair \in MirroredFeeds /\ has(pair)
      BY <3>1
    <3>3. MirroredFeed(feed) = IF feed = pair[1] THEN pair[2] ELSE pair[1]
      BY <2>2 DEF MirroredFeed
    <3> HIDE DEF pair
    <3>4. \/ pair[1] = "all_spot_top_buy_5m" /\ pair[2] = "all_spot_top_sell_5m"
          \/ pair[1] = "all_derivatives_top_buy_5m" /\ pair[2] = "all_derivatives_top_sell_5m"
      BY <3>2 DEF MirroredFeeds
    <3> QED
      BY <3>2, <3>3, <3>4 DEF OtherFeed
  <2> QED
    BY <2>1, <2>2
<1>3. \A feed \in BothFeeds : OtherFeed(feed) \in BothFeeds /\ OtherFeed(OtherFeed(feed)) = feed
  BY DEF OtherFeed, BothFeeds, PriceFeeds, FlowFeeds
<1> QED
  BY <1>1, <1>2, <1>3

(* The rule that does for the other side what a rule does for its own.     *)
LEMMA OppositeRule ==
  ASSUME NEW rule \in Rules, rule.key \in BothKeys
  PROVE  \E other \in Rules :
           /\ other.key = Opposite(rule.key) /\ other.side = OtherSide(rule.side)
           /\ other.weight = rule.weight /\ other.scale = rule.scale
           /\ other.field = rule.field /\ other.cap = rule.cap
           /\ \A feed \in BothFeeds : feed \in rule.feeds => OtherFeed(feed) \in other.feeds
           /\ rule.side \in {"bull", "bear"}
           /\ rule.field \in {"amount", "delta", "price"} /\ rule.scale # "fixed"
           /\ rule.field = "price" => rule.scale = "percentAbs"
BY DEF Rules, Rule, BothKeys, Opposite, OtherSide, BothFeeds, PriceFeeds, FlowFeeds, OtherFeed

(* No other rule is about such a row.                                      *)
LEMMA RulesOfBothFeeds ==
  ASSUME NEW rule \in Rules, NEW feed \in BothFeeds, feed \in rule.feeds
  PROVE  rule.key \in BothKeys
BY DEF Rules, Rule, BothKeys, BothFeeds, PriceFeeds, FlowFeeds

OtherNumber(n) == IF n = Null THEN n ELSE -n
OtherDirection(direction) ==
  CASE direction = "inflow" -> "outflow" [] direction = "outflow" -> "inflow" [] OTHER -> direction

(* Two rows of which each is what the other would have been.               *)
Mirror(m, row) ==
  /\ IsSourceRow(m) /\ m.feed \in BothFeeds /\ m.feed = OtherFeed(row.feed)
  /\ m.buy = row.sell /\ m.sell = row.buy
  /\ m.price = OtherNumber(row.price) /\ m.percent = OtherNumber(row.percent)
  /\ m.direction = OtherDirection(row.direction)
  /\ m.rank = row.rank /\ m.amount = row.amount /\ m.delta = row.delta
  /\ m.volume24h = row.volume24h
  /\ m.coin = row.coin /\ m.event = row.event /\ m.at = row.at /\ m.entry = row.entry
  /\ m.source = row.source /\ m.exchange = row.exchange /\ m.market = row.market
  /\ m.parsed = row.parsed

LEMMA MirroredIsMirror ==
  ASSUME NEW row, IsSourceRow(row), Dated(row), Mirrorable(row)
  PROVE  Mirror(Mirrored(row), row) /\ Mirror(row, Mirrored(row))
<1> DEFINE m == Mirrored(row)
           others == {"rank", "amount", "delta", "volume24h", "coin", "event", "at", "entry",
                      "source", "exchange", "market", "parsed"}
<1>1. /\ others \cup {"feed", "buy", "sell", "price", "percent", "direction"} \subseteq DOMAIN row
      /\ \A column \in Columns : row[column] \in Int
      /\ row.entry \in Nat /\ -Null \notin {row.price, row.percent}
  BY DEF IsSourceRow, Columns, Dated
<1>2. /\ DOMAIN m = DOMAIN row
      /\ m.feed = MirroredFeed(row.feed) /\ m.buy = row.sell /\ m.sell = row.buy
      /\ m.price = OtherNumber(row.price) /\ m.percent = OtherNumber(row.percent)
      /\ m.direction = OtherDirection(row.direction)
      /\ \A f \in others : m[f] = row[f]
  BY <1>1 DEF Mirrored, OtherNumber, OtherDirection
<1>3. /\ m.rank = row.rank /\ m.amount = row.amount /\ m.delta = row.delta
      /\ m.volume24h = row.volume24h
      /\ m.coin = row.coin /\ m.event = row.event /\ m.at = row.at /\ m.entry = row.entry
      /\ m.source = row.source /\ m.exchange = row.exchange /\ m.market = row.market
      /\ m.parsed = row.parsed
  BY <1>2
<1>4. /\ row.rank \in Int /\ row.amount \in Int /\ row.delta \in Int /\ row.buy \in Int
      /\ row.sell \in Int /\ row.volume24h \in Int /\ row.percent \in Int /\ row.price \in Int
  BY <1>1 DEF Columns
<1>5. row.feed \in BothFeeds /\ m.feed \in BothFeeds /\ m.feed = OtherFeed(row.feed)
      /\ row.feed = OtherFeed(m.feed)
  BY <1>2, FeedsMirror
<1>6. m.price \in Int /\ m.percent \in Int /\ -Null \notin {m.price, m.percent}
      /\ row.price = OtherNumber(m.price) /\ row.percent = OtherNumber(m.percent)
  BY <1>1, <1>2, <1>4 DEF OtherNumber, Null
<1>7. row.direction = OtherDirection(m.direction)
  BY <1>2 DEF OtherDirection
<1> HIDE DEF m, others
<1>8. IsSourceRow(m)
  <2>1. \A column \in Columns : m[column] \in Int
    BY <1>2, <1>3, <1>4, <1>6 DEF Columns
  <2> QED
    BY <1>1, <1>2, <1>3, <1>6, <2>1 DEF IsSourceRow
<1> QED
  BY <1>2, <1>3, <1>5, <1>6, <1>7, <1>8 DEF Mirror, m

LEMMA PercentMultiplier ==
  ASSUME NEW rule, NEW row, rule.scale = "percentAbs"
  PROVE  ValueMultiplier(rule, row)
           = IF row[rule.field] = Null THEN 50 ELSE Clamp(50 * Size(row[rule.field]), 50, 400)
<1> DEFINE value == row[rule.field]
           log == 100 * (value - 3)
           percent == 50 * Size(value)
<1>1. rule.scale # "fixed" /\ rule.scale # "logUsd"
  OBVIOUS
<1>2. ValueMultiplier(rule, row) =
        IF value = Null THEN 50
        ELSE CASE rule.scale = "logUsd" -> Clamp(log, 50, 300)
               [] rule.scale = "percentAbs" -> Clamp(percent, 50, 400)
  BY <1>1, Zenon DEF ValueMultiplier
<1> HIDE DEF value, log, percent
<1>3. ValueMultiplier(rule, row) = IF value = Null THEN 50 ELSE Clamp(percent, 50, 400)
  BY <1>1, <1>2
<1> QED
  BY <1>3 DEF value, percent

LEMMA MultiplierMirrors ==
  ASSUME NEW rule \in Rules, NEW other \in Rules, NEW row, NEW m,
         rule.key \in BothKeys, other.key = Opposite(rule.key),
         other.side = OtherSide(rule.side), other.scale = rule.scale, other.field = rule.field,
         rule.side \in {"bull", "bear"}, rule.field \in {"amount", "delta", "price"},
         rule.scale # "fixed", rule.field = "price" => rule.scale = "percentAbs",
         IsSourceRow(row), Mirror(m, row)
  PROVE  Multiplier(other, m) = Multiplier(rule, row)
<1>1. IsSpotPressure(other, m) <=> IsSpotPressure(rule, row)
  <2>1. rule.key \in {"spot_buy_pressure", "spot_sell_pressure"} <=>
        other.key \in {"spot_buy_pressure", "spot_sell_pressure"}
    BY DEF BothKeys, Opposite
  <2>2. Null \notin {row.buy, row.sell} <=> Null \notin {m.buy, m.sell}
    BY DEF Mirror
  <2> QED
    BY <2>1, <2>2 DEF IsSpotPressure
<1>2. SpotPressure(other, m) = SpotPressure(rule, row)
  <2>1. Own(other, m) = Own(rule, row) /\ Other(other, m) = Other(rule, row)
    BY DEF Own, Other, OtherSide, Mirror
  <2>2. SideShare(other, m) = SideShare(rule, row)
    BY <2>1 DEF SideShare
  <2>3. m.amount = row.amount /\ m.volume24h = row.volume24h
    BY DEF Mirror
  <2> QED
    BY <2>1, <2>2, <2>3 DEF SpotPressure
<1>3. ValueMultiplier(other, m) = ValueMultiplier(rule, row)
  <2>1. CASE rule.field \in {"amount", "delta"}
    <3>1. m[other.field] = row[rule.field]
      BY <2>1 DEF Mirror
    <3> QED
      BY <3>1 DEF ValueMultiplier
  <2>2. CASE rule.field = "price"
    <3> DEFINE value == row[rule.field]
    <3>1. value \in Int /\ value # -Null /\ m[other.field] = OtherNumber(value)
      BY <2>2, ColumnsAreNumbers DEF Mirror, IsSourceRow
    <3>2. rule.scale = "percentAbs" /\ other.scale = "percentAbs"
      BY <2>2
    <3> HIDE DEF value
    <3>3. /\ OtherNumber(value) = Null <=> value = Null
          /\ Size(OtherNumber(value)) = Size(value)
      BY <3>1 DEF OtherNumber, Size, Null
    <3>4. ValueMultiplier(rule, row) = IF value = Null THEN 50 ELSE Clamp(50 * Size(value), 50, 400)
      BY <3>2, PercentMultiplier DEF value
    <3>5. ValueMultiplier(other, m) = IF m[other.field] = Null THEN 50
                                      ELSE Clamp(50 * Size(m[other.field]), 50, 400)
      BY <3>2, PercentMultiplier
    <3> QED
      BY <3>1, <3>3, <3>4, <3>5
  <2> QED
    BY <2>1, <2>2
<1> QED
  BY <1>1, <1>2, <1>3 DEF Multiplier

(* A rule finds in a row what its opposite finds in the mirrored row.      *)
LEMMA RuleMirrors ==
  ASSUME NEW rule \in Rules, NEW row, NEW m, IsSourceRow(row), Mirror(m, row), Mirror(row, m),
         RuleApplies(rule, row)
  PROVE  \E other \in Rules :
           /\ rule.key \in BothKeys /\ other.key = Opposite(rule.key)
           /\ rule.side \in {"bull", "bear"} /\ other.side = OtherSide(rule.side)
           /\ RuleApplies(other, m)
           /\ \A asOf : Contribution(other, m, asOf) = Contribution(rule, row, asOf)
<1>1. row.feed \in rule.feeds /\ row.feed \in BothFeeds /\ m.feed = OtherFeed(row.feed)
  BY DEF RuleApplies, Mirror
<1>2. rule.key \in BothKeys
  BY <1>1, RulesOfBothFeeds
<1>3. PICK other \in Rules :
           /\ other.key = Opposite(rule.key) /\ other.side = OtherSide(rule.side)
           /\ other.weight = rule.weight /\ other.scale = rule.scale
           /\ other.field = rule.field /\ other.cap = rule.cap
           /\ \A feed \in BothFeeds : feed \in rule.feeds => OtherFeed(feed) \in other.feeds
           /\ rule.side \in {"bull", "bear"}
           /\ rule.field \in {"amount", "delta", "price"} /\ rule.scale # "fixed"
           /\ rule.field = "price" => rule.scale = "percentAbs"
  BY <1>2, OppositeRule
<1>4. RuleApplies(other, m)
  <2>1. m.feed \in other.feeds
    BY <1>1, <1>3
  <2>2. Change(m) = -Change(row) /\ Change(row) \in Int
    <3>1. row.price \in Int /\ row.percent \in Int /\ row.price # -Null /\ row.percent # -Null
      BY ColumnsAreNumbers DEF IsSourceRow
    <3>2. m.price = OtherNumber(row.price) /\ m.percent = OtherNumber(row.percent)
      BY DEF Mirror
    <3> QED
      BY <3>1, <3>2 DEF Change, OrZero, OtherNumber, Null
  <2>3. m.direction = OtherDirection(row.direction)
    BY DEF Mirror
  <2>4. /\ rule.key = "cex_outflow" => row.direction = "outflow"
        /\ rule.key = "cex_inflow" => row.direction = "inflow"
        /\ rule.key = "price_alert_up" => Change(row) > 0
        /\ rule.key = "price_alert_down" => Change(row) < 0
    BY DEF RuleApplies
  <2>5. /\ other.key = "cex_outflow" => m.direction = "outflow"
        /\ other.key = "cex_inflow" => m.direction = "inflow"
    BY <1>2, <1>3, <2>3, <2>4 DEF BothKeys, Opposite, OtherDirection
  <2>6. /\ other.key = "price_alert_up" => Change(m) > 0
        /\ other.key = "price_alert_down" => Change(m) < 0
    BY <1>2, <1>3, <2>2, <2>4 DEF BothKeys, Opposite
  <2>7. other.key \in BothKeys
    BY <1>2, <1>3, KeysMirror
  <2> QED
    BY <2>1, <2>5, <2>6, <2>7 DEF RuleApplies, BothKeys
<1>5. Multiplier(other, m) = Multiplier(rule, row)
  BY <1>2, <1>3, MultiplierMirrors
<1>6. m.rank = row.rank /\ m.at = row.at
  BY DEF Mirror
<1>7. RankMultiplier(m) = RankMultiplier(row)
  BY <1>6 DEF RankMultiplier
<1>8. Points(other, m) = Points(rule, row)
  BY <1>3, <1>5, <1>7 DEF Points
<1>9. \A asOf : Contribution(other, m, asOf) = Contribution(rule, row, asOf)
  BY <1>3, <1>6, <1>8, ContributionOf
<1> QED
  BY <1>2, <1>3, <1>4, <1>9

(* Rows that can be mirrored, all different.                               *)
Facing(rows) ==
  /\ Sourced(rows) /\ Entered(rows) /\ OfOneCoin(rows)
  /\ \A row \in rows : Dated(row) /\ Mirrorable(row)

MirroredRows(rows) == {Mirrored(row) : row \in rows}

MirroredName(name) == <<Opposite(name[1]), name[2]>>

MirroredPiece(e) ==
  [coin |-> e.coin, rule |-> MirroredName(e.rule), side |-> OtherSide(e.side),
   feed |-> OtherFeed(e.feed), contribution |-> e.contribution, events |-> e.events,
   entry |-> e.entry, source |-> e.source, at |-> e.at,
   exchange |-> e.exchange, market |-> e.market]

(* What is known of a piece of the evidence for such rows.                 *)
Piece(e) ==
  /\ e = [coin |-> e.coin, rule |-> e.rule, side |-> e.side, feed |-> e.feed,
          contribution |-> e.contribution, events |-> e.events, entry |-> e.entry,
          source |-> e.source, at |-> e.at, exchange |-> e.exchange, market |-> e.market]
  /\ e.rule = <<e.rule[1], e.rule[2]>> /\ e.rule[1] \in BothKeys
  /\ e.side \in {"bull", "bear"} /\ e.feed \in BothFeeds

LEMMA PairOf ==
  ASSUME NEW k, NEW suffix, NEW name, name = <<k, suffix>>
  PROVE  /\ name[1] = k /\ name[2] = suffix /\ name = <<name[1], name[2]>>
         /\ MirroredName(name) = <<Opposite(k), suffix>>
BY DEF MirroredName

LEMMA NamesMirror ==
  ASSUME NEW a, NEW b, a = <<a[1], a[2]>>, b = <<b[1], b[2]>>, a[1] \in BothKeys, b[1] \in BothKeys,
         MirroredName(a) = MirroredName(b)
  PROVE  a = b
<1>1. Opposite(a[1]) = Opposite(b[1]) /\ a[2] = b[2]
  BY DEF MirroredName
<1>2. a[1] = b[1]
  BY <1>1, KeysMirror
<1> QED
  BY <1>1, <1>2

LEMMA SidesMirror ==
  /\ \A side \in {"bull", "bear"} : OtherSide(side) \in {"bull", "bear"}
  /\ \A a, b \in {"bull", "bear"} : OtherSide(a) = OtherSide(b) => a = b
  /\ \A a \in {"bull", "bear"} : OtherSide(a) = "bull" <=> a = "bear"
BY DEF OtherSide

LEMMA OtherFeeds ==
  /\ \A feed \in BothFeeds : OtherFeed(feed) \in BothFeeds
  /\ \A a, b \in BothFeeds : OtherFeed(a) = OtherFeed(b) => a = b
BY FeedsMirror

LEMMA MirroredFields ==
  ASSUME NEW e
  PROVE  /\ MirroredPiece(e).coin = e.coin /\ MirroredPiece(e).rule = MirroredName(e.rule)
         /\ MirroredPiece(e).side = OtherSide(e.side) /\ MirroredPiece(e).feed = OtherFeed(e.feed)
         /\ MirroredPiece(e).contribution = e.contribution /\ MirroredPiece(e).events = e.events
         /\ MirroredPiece(e).entry = e.entry /\ MirroredPiece(e).source = e.source
         /\ MirroredPiece(e).at = e.at /\ MirroredPiece(e).exchange = e.exchange
         /\ MirroredPiece(e).market = e.market
BY DEF MirroredPiece

LEMMA MirrorsApart ==
  ASSUME NEW e, NEW d, Piece(e), Piece(d)
  PROVE  /\ MirroredPiece(e) = MirroredPiece(d) => e = d
         /\ MirroredPiece(e).side = MirroredPiece(d).side <=> e.side = d.side
         /\ MirroredPiece(e).rule = MirroredPiece(d).rule <=> e.rule = d.rule
         /\ MirroredPiece(e).feed = MirroredPiece(d).feed <=> e.feed = d.feed
<1>1. MirroredPiece(e).side = MirroredPiece(d).side <=> e.side = d.side
  BY SidesMirror, MirroredFields DEF Piece
<1>2. MirroredPiece(e).rule = MirroredPiece(d).rule <=> e.rule = d.rule
  <2>1. MirroredName(e.rule) = MirroredName(d.rule) => e.rule = d.rule
    BY NamesMirror DEF Piece
  <2> QED
    BY <2>1, MirroredFields
<1>3. MirroredPiece(e).feed = MirroredPiece(d).feed <=> e.feed = d.feed
  BY OtherFeeds, MirroredFields DEF Piece
<1>4. ASSUME MirroredPiece(e) = MirroredPiece(d) PROVE e = d
  <2>1. e.side = d.side /\ e.rule = d.rule /\ e.feed = d.feed
    BY <1>1, <1>2, <1>3, <1>4
  <2>2. /\ e.coin = d.coin /\ e.contribution = d.contribution /\ e.events = d.events
        /\ e.entry = d.entry /\ e.source = d.source /\ e.at = d.at
        /\ e.exchange = d.exchange /\ e.market = d.market
    BY <1>4, MirroredFields
  <2> QED
    BY <2>1, <2>2 DEF Piece
<1> QED
  BY <1>1, <1>2, <1>3, <1>4

LEMMA FoundMirrors ==
  ASSUME NEW rule \in Rules, NEW row, NEW m, IsSourceRow(row), Mirror(m, row), Mirror(row, m),
         RuleApplies(rule, row), NEW asOf
  PROVE  /\ Piece(Found(rule, row, asOf))
         /\ \E other \in Rules : RuleApplies(other, m)
                                 /\ Found(other, m, asOf) = MirroredPiece(Found(rule, row, asOf))
<1>1. PICK other \in Rules :
           /\ rule.key \in BothKeys /\ other.key = Opposite(rule.key)
           /\ rule.side \in {"bull", "bear"} /\ other.side = OtherSide(rule.side)
           /\ RuleApplies(other, m)
           /\ \A t : Contribution(other, m, t) = Contribution(rule, row, t)
  BY RuleMirrors
<1> DEFINE e == Found(rule, row, asOf)
<1>2. /\ e.rule = Named(rule) /\ e.coin = row.coin /\ e.side = rule.side /\ e.feed = row.feed
      /\ e.contribution = Contribution(rule, row, asOf) /\ e.events = {row.event}
      /\ e.entry = row.entry /\ e.source = row.source /\ e.at = row.at
      /\ e.exchange = row.exchange /\ e.market = row.market
  BY DEF Found
<1>3. Named(rule) = <<rule.key, "">> /\ Named(other) = <<other.key, "">>
  BY DEF Named
<1>4. row.feed \in BothFeeds
  BY DEF Mirror
<1>5. Piece(e)
  <2>1. e = [coin |-> e.coin, rule |-> e.rule, side |-> e.side, feed |-> e.feed,
             contribution |-> e.contribution, events |-> e.events, entry |-> e.entry,
             source |-> e.source, at |-> e.at, exchange |-> e.exchange, market |-> e.market]
    BY DEF Found
  <2> HIDE DEF e
  <2>2. e.rule = <<e.rule[1], e.rule[2]>> /\ e.rule[1] = rule.key
    <3> DEFINE name == e.rule
               k == rule.key
    <3>1. name = <<k, "">>
      BY <1>2, <1>3
    <3> HIDE DEF name, k
    <3>2. name = <<name[1], name[2]>> /\ name[1] = k
      BY <3>1, PairOf
    <3> QED
      BY <3>2 DEF name, k
  <2> QED
    BY <1>1, <1>2, <1>4, <2>1, <2>2 DEF Piece
<1> HIDE DEF e
<1>6. MirroredName(e.rule) = Named(other)
  <2> DEFINE name == e.rule
             k == rule.key
  <2>1. name = <<k, "">>
    BY <1>2, <1>3
  <2> HIDE DEF name, k
  <2>2. MirroredName(name) = <<Opposite(k), "">>
    BY <2>1, PairOf
  <2> QED
    BY <1>1, <1>3, <2>2 DEF name, k
<1>7. /\ m.coin = row.coin /\ m.feed = OtherFeed(row.feed) /\ m.event = row.event
      /\ m.entry = row.entry /\ m.source = row.source /\ m.at = row.at
      /\ m.exchange = row.exchange /\ m.market = row.market
  BY DEF Mirror
<1>8. Found(other, m, asOf) = MirroredPiece(e)
  BY <1>1, <1>2, <1>6, <1>7 DEF Found, MirroredPiece
<1> QED
  BY <1>1, <1>5, <1>8 DEF e

LEMMA MirrorsOf ==
  ASSUME NEW rows, Facing(rows)
  PROVE  /\ \A m \in MirroredRows(rows) : \E row \in rows :
              IsSourceRow(row) /\ IsSourceRow(m) /\ Mirror(m, row) /\ Mirror(row, m)
         /\ \A row \in rows : \E m \in MirroredRows(rows) :
              IsSourceRow(row) /\ IsSourceRow(m) /\ Mirror(m, row) /\ Mirror(row, m)
         /\ \A m \in MirroredRows(rows), n \in MirroredRows(rows) : \A row \in rows :
              Mirror(m, row) /\ Mirror(n, row) => m = n
<1>1. ASSUME NEW row \in rows
      PROVE  IsSourceRow(row) /\ Mirror(Mirrored(row), row) /\ Mirror(row, Mirrored(row))
  BY MirroredIsMirror DEF Facing, Sourced
<1>2. ASSUME NEW m, NEW row, Mirror(m, row) PROVE IsSourceRow(m)
  BY <1>2 DEF Mirror
<1>3. ASSUME NEW m \in MirroredRows(rows), NEW n \in MirroredRows(rows), NEW row \in rows,
             Mirror(m, row), Mirror(n, row)
      PROVE  m = n
  <2>1. PICK r \in rows, s \in rows : m = Mirrored(r) /\ n = Mirrored(s)
    BY DEF MirroredRows
  <2>2. Mirror(m, r) /\ Mirror(n, s)
    BY <1>1, <2>1
  <2>3. r.event = s.event /\ r.coin = s.coin /\ r.entry = s.entry
    BY <1>3, <2>2 DEF Mirror
  <2>4. r = s
    BY <2>3 DEF Facing, Entered
  <2> QED
    BY <2>1, <2>4
<1>4. \A row \in rows : Mirrored(row) \in MirroredRows(rows)
  BY DEF MirroredRows
<1>5. \A m \in MirroredRows(rows) : \E row \in rows : m = Mirrored(row)
  BY DEF MirroredRows
<1>6. ASSUME NEW m \in MirroredRows(rows)
      PROVE  \E row \in rows : IsSourceRow(row) /\ IsSourceRow(m) /\ Mirror(m, row) /\ Mirror(row, m)
  BY <1>1, <1>2, <1>5
<1>7. ASSUME NEW row \in rows
      PROVE  \E m \in MirroredRows(rows) :
               IsSourceRow(row) /\ IsSourceRow(m) /\ Mirror(m, row) /\ Mirror(row, m)
  BY <1>1, <1>2, <1>4
<1> QED
  BY <1>3, <1>6, <1>7

(* The evidence in the rows and in the mirrored rows.                      *)
LEMMA RowEvidenceMirrors ==
  ASSUME NEW rows, Facing(rows), NEW asOf
  PROVE  /\ \A e \in RowEvidence(rows, asOf) :
              Piece(e) /\ MirroredPiece(e) \in RowEvidence(MirroredRows(rows), asOf)
         /\ \A d \in RowEvidence(MirroredRows(rows), asOf) :
              \E e \in RowEvidence(rows, asOf) : d = MirroredPiece(e)
<1>1. ASSUME NEW e \in RowEvidence(rows, asOf)
      PROVE  Piece(e) /\ MirroredPiece(e) \in RowEvidence(MirroredRows(rows), asOf)
  <2>1. PICK rule \in Rules, row \in rows :
          RuleApplies(rule, row) /\ e = Found(rule, row, asOf) /\ e.contribution > 0
    BY RowEvidenceIs
  <2>2. PICK m \in MirroredRows(rows) : IsSourceRow(row) /\ Mirror(m, row) /\ Mirror(row, m)
    BY MirrorsOf
  <2>3. Piece(e)
    BY <2>1, <2>2, FoundMirrors
  <2>4. PICK other \in Rules : RuleApplies(other, m) /\ Found(other, m, asOf) = MirroredPiece(e)
    BY <2>1, <2>2, FoundMirrors
  <2>5. Contribution(other, m, asOf) = e.contribution
    BY <2>4, MirroredFields, FoundFields
  <2>6. Found(other, m, asOf) \in RowEvidence(MirroredRows(rows), asOf)
    BY <2>1, <2>4, <2>5, RowEvidenceIs
  <2> QED
    BY <2>3, <2>4, <2>6
<1>2. ASSUME NEW d \in RowEvidence(MirroredRows(rows), asOf)
      PROVE  \E e \in RowEvidence(rows, asOf) : d = MirroredPiece(e)
  <2>1. PICK other \in Rules, m \in MirroredRows(rows) :
          RuleApplies(other, m) /\ d = Found(other, m, asOf) /\ d.contribution > 0
    BY RowEvidenceIs
  <2>2. PICK row \in rows : IsSourceRow(row) /\ IsSourceRow(m) /\ Mirror(m, row) /\ Mirror(row, m)
    BY MirrorsOf
  <2>3. PICK rule \in Rules : RuleApplies(rule, row) /\ Found(rule, row, asOf) = MirroredPiece(d)
    BY <2>1, <2>2, FoundMirrors
  <2>4. Contribution(rule, row, asOf) = d.contribution
    BY <2>3, MirroredFields, FoundFields
  <2> DEFINE e == Found(rule, row, asOf)
  <2>5. e \in RowEvidence(rows, asOf)
    BY <2>1, <2>3, <2>4, RowEvidenceIs
  <2>6. Piece(d) /\ Piece(e)
    <3>1. Piece(d)
      BY <2>1, <2>2, FoundMirrors
    <3> QED
      BY <1>1, <2>5, <3>1
  <2>7. d = MirroredPiece(e)
    <3> HIDE DEF e
    <3>1. e = MirroredPiece(d)
      BY <2>3 DEF e
    <3>2. /\ e.coin = d.coin /\ e.rule = MirroredName(d.rule) /\ e.side = OtherSide(d.side)
          /\ e.feed = OtherFeed(d.feed) /\ e.contribution = d.contribution /\ e.events = d.events
          /\ e.entry = d.entry /\ e.source = d.source /\ e.at = d.at /\ e.exchange = d.exchange
          /\ e.market = d.market
      BY <3>1, MirroredFields
    <3>3. MirroredName(e.rule) = d.rule
      <4>1. d.rule = <<d.rule[1], d.rule[2]>> /\ d.rule[1] \in BothKeys
        BY <2>6 DEF Piece
      <4>2. Opposite(Opposite(d.rule[1])) = d.rule[1]
        BY <4>1, KeysMirror
      <4> QED
        BY <3>2, <4>1, <4>2 DEF MirroredName
    <3>4. OtherSide(e.side) = d.side
      BY <2>6, <3>2 DEF Piece, OtherSide
    <3>5. OtherFeed(e.feed) = d.feed
      BY <2>6, <3>2, FeedsMirror DEF Piece
    <3>6. d = [coin |-> d.coin, rule |-> d.rule, side |-> d.side, feed |-> d.feed,
               contribution |-> d.contribution, events |-> d.events, entry |-> d.entry,
               source |-> d.source, at |-> d.at, exchange |-> d.exchange, market |-> d.market]
      BY <2>6 DEF Piece
    <3> QED
      BY <3>2, <3>3, <3>4, <3>5, <3>6 DEF MirroredPiece
  <2> QED
    BY <2>5, <2>7
<1> QED
  BY <1>1, <1>2

(* E and D are the same evidence, seen from the two sides.                 *)
Twins(E, D) ==
  /\ \A e \in E : Piece(e) /\ MirroredPiece(e) \in D
  /\ \A d \in D : \E e \in E : d = MirroredPiece(e)

LEMMA EventsMirror ==
  ASSUME NEW E, NEW D, Twins(E, D), NEW e \in E
  PROVE  EventsOf(D, MirroredPiece(e)) = EventsOf(E, e)
<1>1. ASSUME NEW x \in E
      PROVE  MirroredPiece(x) \in Group(D, MirroredPiece(e)) <=> x \in Group(E, e)
  <2>1. Piece(x) /\ Piece(e) /\ MirroredPiece(x) \in D
    BY DEF Twins
  <2> QED
    BY <2>1, MirrorsApart DEF Group
<1>2. ASSUME NEW event PROVE event \in EventsOf(D, MirroredPiece(e)) <=> event \in EventsOf(E, e)
  <2>1. ASSUME event \in EventsOf(E, e) PROVE event \in EventsOf(D, MirroredPiece(e))
    <3>1. PICK x \in Group(E, e) : event \in x.events
      BY <2>1 DEF EventsOf
    <3>2. x \in E
      BY DEF Group
    <3>3. MirroredPiece(x) \in Group(D, MirroredPiece(e)) /\ MirroredPiece(x).events = x.events
      BY <1>1, <3>2, MirroredFields
    <3> QED
      BY <3>1, <3>3 DEF EventsOf
  <2>2. ASSUME event \in EventsOf(D, MirroredPiece(e)) PROVE event \in EventsOf(E, e)
    <3>1. PICK d \in Group(D, MirroredPiece(e)) : event \in d.events
      BY <2>2 DEF EventsOf
    <3>2. d \in D
      BY DEF Group
    <3>3. PICK x \in E : d = MirroredPiece(x)
      BY <3>2 DEF Twins
    <3>4. x \in Group(E, e) /\ d.events = x.events
      BY <1>1, <3>3, MirroredFields
    <3> QED
      BY <3>1, <3>4 DEF EventsOf
  <2> QED
    BY <2>1, <2>2
<1> QED
  BY <1>2

LEMMA BurstMirrors ==
  ASSUME NEW E, NEW D, Twins(E, D), NEW e \in E, NEW asOf
  PROVE  /\ Piece(BurstFound(E, e, asOf))
         /\ MirroredPiece(BurstFound(E, e, asOf)) = BurstFound(D, MirroredPiece(e), asOf)
<1> DEFINE b == BurstFound(E, e, asOf)
           d == MirroredPiece(e)
           name == Burst(e.rule)
           k == e.rule[1]
<1>1. Piece(e)
  BY DEF Twins
<1>2. EventsOf(D, d) = EventsOf(E, e)
  BY EventsMirror
<1>3. /\ b.coin = e.coin /\ b.rule = name /\ b.side = e.side /\ b.feed = e.feed
      /\ b.contribution = BurstPoints(Cardinality(EventsOf(E, e))) /\ b.events = EventsOf(E, e)
      /\ b.entry = 0 /\ b.source = "aggregate" /\ b.at = asOf /\ b.exchange = None /\ b.market = None
  BY DEF BurstFound
<1>4. b = [coin |-> b.coin, rule |-> b.rule, side |-> b.side, feed |-> b.feed,
           contribution |-> b.contribution, events |-> b.events, entry |-> b.entry,
           source |-> b.source, at |-> b.at, exchange |-> b.exchange, market |-> b.market]
  BY DEF BurstFound
<1>5. name = <<k, "_burst">>
  BY DEF Burst
<1>6. d.rule = MirroredName(e.rule) /\ d.coin = e.coin /\ d.side = OtherSide(e.side)
      /\ d.feed = OtherFeed(e.feed)
  BY MirroredFields
<1>7. Burst(d.rule) = <<Opposite(k), "_burst">>
  BY <1>6 DEF Burst, MirroredName
<1> HIDE DEF b, d, name, k
<1>8. name[1] = k /\ name = <<name[1], name[2]>> /\ MirroredName(name) = <<Opposite(k), "_burst">>
  BY <1>5, PairOf
<1>9. k \in BothKeys
  BY <1>1 DEF Piece, k
<1>10. Piece(b)
  BY <1>1, <1>3, <1>4, <1>8, <1>9 DEF Piece
<1>11. MirroredPiece(b) = BurstFound(D, d, asOf)
  BY <1>2, <1>3, <1>6, <1>7, <1>8 DEF MirroredPiece, BurstFound
<1> QED
  BY <1>10, <1>11 DEF b, d

LEMMA EvidenceMirrors ==
  ASSUME NEW rows, Facing(rows), NEW asOf
  PROVE  Twins(Evidence(rows, asOf), Evidence(MirroredRows(rows), asOf))
<1> DEFINE E == RowEvidence(rows, asOf)
           D == RowEvidence(MirroredRows(rows), asOf)
<1>1. Twins(E, D)
  BY RowEvidenceMirrors DEF Twins
<1>2. Evidence(rows, asOf) = E \cup Bursts(E, asOf)
      /\ Evidence(MirroredRows(rows), asOf) = D \cup Bursts(D, asOf)
  BY DEF Evidence
<1> HIDE DEF E, D
<1>3. ASSUME NEW e \in E
      PROVE  /\ e.side # "risk" /\ MirroredPiece(e).side # "risk" /\ MirroredPiece(e) \in D
             /\ EventsOf(D, MirroredPiece(e)) = EventsOf(E, e)
  <2>1. Piece(e) /\ MirroredPiece(e) \in D
    BY <1>1 DEF Twins
  <2>2. e.side \in {"bull", "bear"} /\ OtherSide(e.side) \in {"bull", "bear"}
    BY <2>1, SidesMirror DEF Piece
  <2> QED
    BY <1>1, <2>1, <2>2, EventsMirror, MirroredFields
<1>4. ASSUME NEW b \in Bursts(E, asOf)
      PROVE  Piece(b) /\ MirroredPiece(b) \in Bursts(D, asOf)
  <2>1. PICK e \in E : Cardinality(EventsOf(E, e)) >= 3 /\ b = BurstFound(E, e, asOf)
    BY BurstsAre
  <2>2. Piece(b) /\ MirroredPiece(b) = BurstFound(D, MirroredPiece(e), asOf)
    BY <1>1, <2>1, BurstMirrors
  <2>3. BurstFound(D, MirroredPiece(e), asOf) \in Bursts(D, asOf)
    BY <1>3, <2>1, BurstsAre
  <2> QED
    BY <2>2, <2>3
<1>5. ASSUME NEW c \in Bursts(D, asOf)
      PROVE  \E b \in Bursts(E, asOf) : c = MirroredPiece(b)
  <2>1. PICK d \in D : Cardinality(EventsOf(D, d)) >= 3 /\ c = BurstFound(D, d, asOf)
    BY BurstsAre
  <2>2. PICK e \in E : d = MirroredPiece(e)
    BY <1>1 DEF Twins
  <2>3. c = MirroredPiece(BurstFound(E, e, asOf))
    BY <1>1, <2>1, <2>2, BurstMirrors
  <2>4. BurstFound(E, e, asOf) \in Bursts(E, asOf)
    BY <1>3, <2>1, <2>2, BurstsAre
  <2> QED
    BY <2>3, <2>4
<1> QED
  BY <1>1, <1>2, <1>4, <1>5 DEF Twins

(* What counts for one side counts for the other.                          *)
LEMMA RawMirrors ==
  ASSUME NEW E, NEW D, Twins(E, D), IsFiniteSet(E), IsFiniteSet(D),
         \A e \in E : e.contribution \in Nat
  PROVE  /\ Raw(D, {"bull"}) = Raw(E, {"bear", "risk"})
         /\ Raw(D, {"bear", "risk"}) = Raw(E, {"bull"})
<1>1. ASSUME NEW sides, NEW others,
             \A side \in {"bull", "bear"} : side \in sides <=> OtherSide(side) \in others
      PROVE  Raw(D, others) = Raw(E, sides)
  <2> DEFINE S == {e \in E : e.side \in sides}
             T == {d \in D : d.side \in others}
             f == [e \in S |-> e.contribution]
             g == [d \in T |-> d.contribution]
             to == [e \in S |-> MirroredPiece(e)]
  <2>1. Raw(E, sides) = SumOf(f) /\ Raw(D, others) = SumOf(g)
    BY DEF Raw
  <2>2. IsFiniteSet(S) /\ IsFiniteSet(T)
    BY FS_Subset
  <2>3. DOMAIN f = S /\ DOMAIN g = T /\ (\A e \in S : f[e] = e.contribution /\ to[e] = MirroredPiece(e))
        /\ (\A d \in T : g[d] = d.contribution)
    OBVIOUS
  <2>4. ASSUME NEW e \in E
        PROVE  /\ Piece(e) /\ MirroredPiece(e) \in D /\ MirroredPiece(e).contribution = e.contribution
               /\ e \in S <=> MirroredPiece(e) \in T
    <3>1. Piece(e) /\ MirroredPiece(e) \in D
      BY DEF Twins
    <3>2. MirroredPiece(e).side = OtherSide(e.side) /\ e.side \in {"bull", "bear"}
      BY <3>1, MirroredFields DEF Piece
    <3> QED
      BY <1>1, <3>1, <3>2, MirroredFields
  <2>5. ASSUME NEW d \in T PROVE \E e \in S : d = MirroredPiece(e)
    <3>1. PICK e \in E : d = MirroredPiece(e)
      BY DEF Twins
    <3> QED
      BY <2>4, <3>1
  <2>6. S \subseteq E
    OBVIOUS
  <2> HIDE DEF S, T, f, g, to
  <2>7. \A e \in S : to[e] \in T /\ f[e] = g[to[e]] /\ f[e] \in Int
    BY <2>3, <2>4, <2>6
  <2>8. \A d \in T : g[d] \in Int
    BY <2>3, <2>4, <2>5, <2>6
  <2>9. \A x, y \in S : to[x] = to[y] => x = y
    BY <2>3, <2>4, <2>6, MirrorsApart
  <2>10. \A d \in T : \E e \in S : d = to[e]
    BY <2>3, <2>5
  <2>11. /\ IsFiniteSet(DOMAIN f) /\ (\A x \in DOMAIN f : f[x] \in Int)
         /\ IsFiniteSet(DOMAIN g) /\ (\A y \in DOMAIN g : g[y] \in Int)
         /\ (\A x \in DOMAIN f : to[x] \in DOMAIN g /\ f[x] = g[to[x]])
         /\ (\A x, y \in DOMAIN f : to[x] = to[y] => x = y)
    BY <2>2, <2>3, <2>7, <2>8, <2>9
  <2>12. \A y \in DOMAIN g : \E x \in DOMAIN f : y = to[x]
    BY <2>3, <2>10
  <2>13. SumOf(f) = SumOf(g)
    BY <2>11, <2>12, SumOfMatch
  <2> QED
    BY <2>1, <2>13
<1>2. \A side \in {"bull", "bear"} : side \in {"bear", "risk"} <=> OtherSide(side) \in {"bull"}
  BY DEF OtherSide
<1>3. \A side \in {"bull", "bear"} : side \in {"bull"} <=> OtherSide(side) \in {"bear", "risk"}
  BY DEF OtherSide
<1>4. Raw(D, {"bull"}) = Raw(E, {"bear", "risk"})
  BY <1>1, <1>2
<1>5. Raw(D, {"bear", "risk"}) = Raw(E, {"bull"})
  BY <1>1, <1>3
<1> QED
  BY <1>4, <1>5

LEMMA FacingPart ==
  ASSUME NEW rows, Facing(rows), NEW part \in SUBSET rows
  PROVE  Facing(part)
<1>1. IsFiniteSet(part)
  BY FS_Subset DEF Facing, Sourced
<1> QED
  BY <1>1 DEF Facing, Sourced, Entered, OfOneCoin

LEMMA AsManyRows ==
  ASSUME NEW rows, Facing(rows)
  PROVE  /\ IsFiniteSet(rows) /\ IsFiniteSet(MirroredRows(rows))
         /\ Cardinality(MirroredRows(rows)) = Cardinality(rows)
<1> DEFINE f == [row \in rows |-> Mirrored(row)]
<1>1. \A row \in rows : f[row] = Mirrored(row) /\ f[row] \in MirroredRows(rows)
  BY DEF MirroredRows
<1>2. \A m \in MirroredRows(rows) : \E row \in rows : m = f[row]
  BY DEF MirroredRows
<1>3. ASSUME NEW r \in rows, NEW s \in rows, f[r] = f[s] PROVE r = s
  <2>1. Mirror(Mirrored(r), r) /\ Mirror(Mirrored(s), s) /\ Mirrored(r) = Mirrored(s)
    BY <1>1, <1>3, MirroredIsMirror DEF Facing, Sourced
  <2>2. r.event = s.event /\ r.coin = s.coin /\ r.entry = s.entry
    BY <2>1 DEF Mirror
  <2> QED
    BY <2>2 DEF Facing, Entered
<1>4. IsFiniteSet(rows)
  BY DEF Facing, Sourced
<1> HIDE DEF f
<1> QED
  BY <1>1, <1>2, <1>3, <1>4, SameSize

(* The mirrored rows that fulfil a condition on the time.                  *)
LEMMA TimesMirror ==
  ASSUME NEW rows, Facing(rows)
  PROVE  \A row \in rows : /\ Mirrored(row).at = row.at
                           /\ Mirrored(row).parsed = row.parsed
BY MirroredIsMirror DEF Mirror, Facing, Sourced

LEMMA FreshMirrors ==
  ASSUME NEW rows, Facing(rows), NEW asOf
  PROVE  Fresh(MirroredRows(rows), asOf) = MirroredRows(Fresh(rows, asOf))
BY TimesMirror DEF Fresh, MirroredRows

LEMMA MedianMirrors ==
  ASSUME NEW rows, Facing(rows), NEW asOf
  PROVE  MedianAge(MirroredRows(rows), asOf) = MedianAge(rows, asOf)
<1> DEFINE younger(R, age) == {row \in R : asOf - row.at <= age}
           ages(R) == {age \in 0..MaxAge : 2 * Cardinality(younger(R, age)) > Cardinality(R)}
<1>1. ASSUME NEW age
      PROVE  Cardinality(younger(MirroredRows(rows), age)) = Cardinality(younger(rows, age))
  <2>1. younger(MirroredRows(rows), age) = MirroredRows(younger(rows, age))
    BY TimesMirror DEF MirroredRows
  <2>2. Facing(younger(rows, age))
    BY FacingPart
  <2> HIDE DEF younger
  <2> QED
    BY <2>1, <2>2, AsManyRows
<1>2. Cardinality(MirroredRows(rows)) = Cardinality(rows)
  BY AsManyRows
<1>3. MedianAge(rows, asOf) = Min(ages(rows))
  BY DEF MedianAge
<1>4. MedianAge(MirroredRows(rows), asOf) = Min(ages(MirroredRows(rows)))
  BY DEF MedianAge
<1>5. ages(MirroredRows(rows)) = ages(rows)
  <2> HIDE DEF younger
  <2> QED
    BY <1>1, <1>2
<1> QED
  BY <1>3, <1>4, <1>5

LEMMA NamesAsMany ==
  ASSUME NEW E, NEW D, Twins(E, D), IsFiniteSet(E)
  PROVE  /\ Cardinality(D) = Cardinality(E)
         /\ Cardinality({d.feed : d \in D}) = Cardinality({e.feed : e \in E})
         /\ Cardinality({d.rule : d \in D}) = Cardinality({e.rule : e \in E})
         /\ {d.exchange : d \in D} = {e.exchange : e \in E}
<1>1. ASSUME NEW e \in E PROVE Piece(e) /\ MirroredPiece(e) \in D
  BY DEF Twins
<1>2. ASSUME NEW d \in D PROVE \E e \in E : d = MirroredPiece(e)
  BY DEF Twins
<1>3. Cardinality(D) = Cardinality(E)
  <2> DEFINE f == [e \in E |-> MirroredPiece(e)]
  <2>1. \A e \in E : f[e] \in D
    BY <1>1
  <2>2. \A d \in D : \E e \in E : d = f[e]
    BY <1>2
  <2>3. \A x, y \in E : f[x] = f[y] => x = y
    BY <1>1, MirrorsApart
  <2> HIDE DEF f
  <2> QED
    BY <2>1, <2>2, <2>3, SameSize
<1>4. Cardinality({d.feed : d \in D}) = Cardinality({e.feed : e \in E})
  <2> DEFINE S == {e.feed : e \in E}
             T == {d.feed : d \in D}
             f == [feed \in S |-> OtherFeed(feed)]
             g == [e \in E |-> e.feed]
  <2>1. S \subseteq BothFeeds
    BY <1>1 DEF Piece
  <2>2. \A feed \in S : f[feed] \in T
    BY <1>1, MirroredFields
  <2>3. \A feed \in T : \E other \in S : feed = f[other]
    BY <1>2, MirroredFields
  <2>4. \A a, b \in S : f[a] = f[b] => a = b
    BY <2>1, OtherFeeds
  <2>5. IsFiniteSet(S)
    <3>1. S = {g[e] : e \in E}
      OBVIOUS
    <3> HIDE DEF g
    <3> QED
      BY <3>1, FiniteImage
  <2> HIDE DEF f, S, T
  <2>6. Cardinality(T) = Cardinality(S)
    BY <2>2, <2>3, <2>4, <2>5, SameSize
  <2> QED
    BY <2>6 DEF S, T
<1>5. Cardinality({d.rule : d \in D}) = Cardinality({e.rule : e \in E})
  <2> DEFINE S == {e.rule : e \in E}
             T == {d.rule : d \in D}
             f == [rule \in S |-> MirroredName(rule)]
             g == [e \in E |-> e.rule]
  <2>1. \A rule \in S : \E e \in E : rule = e.rule /\ Piece(e)
    BY <1>1
  <2>2. \A rule \in S : f[rule] \in T
    BY <1>1, MirroredFields
  <2>3. \A rule \in T : \E other \in S : rule = f[other]
    BY <1>2, MirroredFields
  <2>4. \A a, b \in S : f[a] = f[b] => a = b
    <3> SUFFICES ASSUME NEW a \in S, NEW b \in S, f[a] = f[b] PROVE a = b
      OBVIOUS
    <3>1. PICK e \in E, d \in E : a = e.rule /\ Piece(e) /\ b = d.rule /\ Piece(d)
      BY <2>1
    <3>2. MirroredName(e.rule) = MirroredName(d.rule)
      BY <3>1
    <3>3. e.rule = d.rule
      BY <3>1, <3>2, NamesMirror DEF Piece
    <3> QED
      BY <3>1, <3>3
  <2>5. IsFiniteSet(S)
    <3>1. S = {g[e] : e \in E}
      OBVIOUS
    <3> HIDE DEF g
    <3> QED
      BY <3>1, FiniteImage
  <2> HIDE DEF f, S, T
  <2>6. Cardinality(T) = Cardinality(S)
    BY <2>2, <2>3, <2>4, <2>5, SameSize
  <2> QED
    BY <2>6 DEF S, T
<1>6. {d.exchange : d \in D} = {e.exchange : e \in E}
  <2>1. \A e \in E : \E d \in D : d.exchange = e.exchange
    BY <1>1, MirroredFields
  <2>2. \A d \in D : \E e \in E : d.exchange = e.exchange
    BY <1>2, MirroredFields
  <2> QED
    BY <2>1, <2>2
<1> QED
  BY <1>3, <1>4, <1>5, <1>6

ConfidenceOf(n, feeds, rules, exchanges, median, unparsed, conflict) ==
  Clamp(Confidence.base
        + Least(Confidence.evidence, 300 * n)
        + Least(Confidence.feeds, 600 * feeds)
        + Least(Confidence.rules, 400 * rules)
        + Least(Confidence.exchanges, 400 * exchanges)
        + (1200 * (MaxAge - median)) \div MaxAge
        - unparsed
        - conflict
        - Penalty(median > HalfLife, Confidence.stale)
        - Penalty(feeds <= 1, Confidence.singleFeed), 0, 10000)

LEMMA ConfidenceIs ==
  ASSUME NEW rows, NEW E, NEW asOf, NEW bull, NEW bear
  PROVE  ConfidenceScore(rows, E, asOf, bull, bear)
           = IF E = {} THEN 0
             ELSE ConfidenceOf(Cardinality(E), Cardinality({e.feed : e \in E}),
                               Cardinality({e.rule : e \in E}),
                               Cardinality({e.exchange : e \in E} \ {None}), MedianAge(rows, asOf),
                               Penalty(\E row \in rows : ~row.parsed, Confidence.parser),
                               Penalty(HasConflict(bull, bear),
                                       Confidence.conflict * (100 + ConflictRatio(bull, bear))))
<1>1. CASE E = {}
  BY <1>1 DEF ConfidenceScore
<1>2. CASE E # {}
  BY <1>2 DEF ConfidenceScore, ConfidenceOf
<1> QED
  BY <1>1, <1>2

LEMMA ConflictMirrors ==
  ASSUME NEW bull, NEW bear
  PROVE  /\ ConflictRatio(bear, bull) = ConflictRatio(bull, bear)
         /\ HasConflict(bear, bull) <=> HasConflict(bull, bear)
<1>1. {bear, bull} = {bull, bear}
  OBVIOUS
<1>2. ConflictRatio(bear, bull) = ConflictRatio(bull, bear)
  BY <1>1 DEF ConflictRatio
<1> QED
  BY <1>2 DEF HasConflict

LEMMA ConfidenceMirrors ==
  ASSUME NEW rows, Facing(rows), NEW asOf, NEW E, NEW D, Twins(E, D), IsFiniteSet(E),
         NEW bull, NEW bear
  PROVE  ConfidenceScore(MirroredRows(rows), D, asOf, bear, bull)
           = ConfidenceScore(rows, E, asOf, bull, bear)
<1>1. (E = {}) <=> (D = {})
  BY DEF Twins
<1>2. Penalty(\E row \in MirroredRows(rows) : ~row.parsed, Confidence.parser)
        = Penalty(\E row \in rows : ~row.parsed, Confidence.parser)
  <2>1. (\E row \in MirroredRows(rows) : ~row.parsed) <=> (\E row \in rows : ~row.parsed)
    BY TimesMirror DEF MirroredRows
  <2> QED
    BY <2>1 DEF Penalty
<1>3. Penalty(HasConflict(bear, bull), Confidence.conflict * (100 + ConflictRatio(bear, bull)))
        = Penalty(HasConflict(bull, bear), Confidence.conflict * (100 + ConflictRatio(bull, bear)))
  BY ConflictMirrors DEF Penalty
<1> DEFINE u(R) == Penalty(\E row \in R : ~row.parsed, Confidence.parser)
           c(a, b) == Penalty(HasConflict(a, b), Confidence.conflict * (100 + ConflictRatio(a, b)))
           feeds(X) == Cardinality({e.feed : e \in X})
           rules(X) == Cardinality({e.rule : e \in X})
           venues(X) == Cardinality({e.exchange : e \in X} \ {None})
<1>4. ASSUME NEW R, NEW X, NEW a, NEW b
      PROVE  ConfidenceScore(R, X, asOf, a, b)
               = IF X = {} THEN 0
                 ELSE ConfidenceOf(Cardinality(X), feeds(X), rules(X), venues(X),
                                   MedianAge(R, asOf), u(R), c(a, b))
  BY ConfidenceIs
<1>5. /\ Cardinality(D) = Cardinality(E) /\ feeds(D) = feeds(E) /\ rules(D) = rules(E)
      /\ venues(D) = venues(E)
  BY NamesAsMany
<1>6. MedianAge(MirroredRows(rows), asOf) = MedianAge(rows, asOf)
  BY MedianMirrors
<1>7. u(MirroredRows(rows)) = u(rows) /\ c(bear, bull) = c(bull, bear)
  BY <1>2, <1>3
<1> HIDE DEF u, c, feeds, rules, venues
<1> QED
  BY <1>1, <1>4, <1>5, <1>6, <1>7

LEMMA CoinMirrors ==
  ASSUME NEW rows, Facing(rows), NEW asOf \in Int
  PROVE  LET score == ScoreCoin(rows, asOf)
             opposite == ScoreCoin(MirroredRows(rows), asOf)
         IN /\ opposite.bull = score.bear /\ opposite.bear = score.bull
            /\ opposite.confidence = score.confidence
<1> DEFINE fresh == Fresh(rows, asOf)
           mirrored == MirroredRows(fresh)
           E == Evidence(fresh, asOf)
           D == Evidence(mirrored, asOf)
           bull(X) == SideScore(Raw(X, {"bull"}))
           bear(X) == SideScore(Raw(X, {"bear", "risk"}))
<1>1. Fresh(MirroredRows(rows), asOf) = mirrored
  BY FreshMirrors
<1>2. Facing(fresh)
  <2>1. fresh \subseteq rows
    BY DEF Fresh
  <2> QED
    BY <2>1, FacingPart
<1>3. /\ ScoreCoin(rows, asOf).bull = bull(E) /\ ScoreCoin(rows, asOf).bear = bear(E)
      /\ ScoreCoin(rows, asOf).confidence = ConfidenceScore(fresh, E, asOf, bull(E), bear(E))
  BY DEF ScoreCoin
<1>4. /\ ScoreCoin(MirroredRows(rows), asOf).bull = bull(D)
      /\ ScoreCoin(MirroredRows(rows), asOf).bear = bear(D)
      /\ ScoreCoin(MirroredRows(rows), asOf).confidence
           = ConfidenceScore(mirrored, D, asOf, bull(D), bear(D))
  BY <1>1 DEF ScoreCoin
<1>5. \A row \in fresh : asOf - row.at \in 0..MaxAge
  BY DEF Fresh
<1> HIDE DEF fresh
<1>6. Twins(E, D)
  BY <1>2, EvidenceMirrors
<1>7. IsFiniteSet(E) /\ IsFiniteSet(D)
  BY <1>2, AsManyRows, FiniteEvidence
<1>8. \A e \in E : e.contribution \in Nat
  BY <1>2, <1>5, EvidenceCounts DEF Facing
<1> HIDE DEF E, D, mirrored
<1>9. bull(D) = bear(E) /\ bear(D) = bull(E)
  <2>1. Raw(D, {"bull"}) = Raw(E, {"bear", "risk"}) /\ Raw(D, {"bear", "risk"}) = Raw(E, {"bull"})
    BY <1>6, <1>7, <1>8, RawMirrors
  <2> QED
    BY <2>1
<1> HIDE DEF bull, bear
<1>10. ConfidenceScore(mirrored, D, asOf, bear(E), bull(E))
         = ConfidenceScore(fresh, E, asOf, bull(E), bear(E))
  <2> DEFINE a == bull(E)
             b == bear(E)
  <2> HIDE DEF a, b
  <2>1. ConfidenceScore(mirrored, D, asOf, b, a) = ConfidenceScore(fresh, E, asOf, a, b)
    BY <1>2, <1>6, <1>7, ConfidenceMirrors DEF mirrored
  <2> QED
    BY <2>1 DEF a, b
<1> QED
  BY <1>3, <1>4, <1>9, <1>10

LEMMA ReceivedMirror == Received => ScoresMirror
<1> SUFFICES ASSUME Received, NEW coin \in Coins
             PROVE  LET rows == {row \in received : row.coin = coin /\ Mirrorable(row)}
                        score == ScoreCoin(rows, clock)
                        opposite == ScoreCoin({Mirrored(row) : row \in rows}, clock)
                    IN /\ <<opposite.bull, opposite.bear>> = <<score.bear, score.bull>>
                       /\ opposite.confidence = score.confidence
  BY DEF ScoresMirror
<1> DEFINE rows == {row \in received : row.coin = coin /\ Mirrorable(row)}
<1>1. rows \in SUBSET received /\ \A row \in rows : row.coin = coin /\ Mirrorable(row)
  OBVIOUS
<1>2. \A row \in rows : Dated(row)
  BY <1>1 DEF Received
<1>3. MirroredRows(rows) = {Mirrored(row) : row \in rows}
  BY DEF MirroredRows
<1>4. clock \in Int
  BY DEF Received
<1> HIDE DEF rows
<1>5. Facing(rows)
  BY <1>1, <1>2, RowsOfCoin DEF Facing
<1>6. /\ ScoreCoin(MirroredRows(rows), clock).bull = ScoreCoin(rows, clock).bear
      /\ ScoreCoin(MirroredRows(rows), clock).bear = ScoreCoin(rows, clock).bull
      /\ ScoreCoin(MirroredRows(rows), clock).confidence = ScoreCoin(rows, clock).confidence
  BY <1>4, <1>5, CoinMirrors
<1> QED
  BY <1>3, <1>6 DEF rows

(* The rules of the two sides are one another's mirror: of the opposite    *)
(* rows the engine makes the opposite score, held with as much confidence  *)
(* (ruleApplies, spotPressureMultiplier and the rules of the config).      *)
THEOREM ScoresAlwaysMirror ==
  Spec => []ScoresMirror
BY ReceivedFirst, ReceivedStays, ReceivedMirror, PTL DEF Spec

-----------------------------------------------------------------------------
(* The current scores *)

(* What is known of a row of coin_score_current, whatever it was made of.  *)
ScoreRow(row) ==
  /\ {"version", "coin", "net", "regime", "confidence"} \subseteq DOMAIN row
  /\ row.coin \in Coins
  /\ row.net \in Int /\ row.bull \in Int /\ row.bear \in Int /\ row.confidence \in Int
  /\ row.ts \in Int
  /\ row.regime = "bullish" => row.net > 0
  /\ row.regime = "bearish" => row.net < 0

ScoreRows ==
  /\ IsFiniteSet(current) /\ \A row \in current : ScoreRow(row)
  /\ \A s \in snapshots : "ts" \in DOMAIN s

LEMMA MedianIsAge ==
  ASSUME NEW rows, IsFiniteSet(rows), rows # {}, NEW asOf,
         \A row \in rows : asOf - row.at \in 0..MaxAge
  PROVE  MedianAge(rows, asOf) \in 0..MaxAge
<1> DEFINE younger(age) == {row \in rows : asOf - row.at <= age}
           ages == {age \in 0..MaxAge : 2 * Cardinality(younger(age)) > Cardinality(rows)}
<1>1. MedianAge(rows, asOf) = Min(ages)
  BY DEF MedianAge
<1>2. MaxAge \in ages
  <2>1. MaxAge \in 0..MaxAge
    BY DEF MaxAge
  <2>2. younger(MaxAge) = rows
    BY DEF MaxAge
  <2> DEFINE n == Cardinality(rows)
  <2>3. n \in Nat /\ n # 0
    BY FS_CardinalityType, FS_EmptySet
  <2>4. 2 * n > n
    <3> HIDE DEF n
    <3> QED
      BY <2>3
  <2> QED
    BY <2>1, <2>2, <2>4
<1>3. ages \subseteq 0..MaxAge /\ 0..MaxAge \subseteq Nat
  BY DEF MaxAge
<1> HIDE DEF ages
<1>4. PICK x \in ages : \A y \in ages : x <= y
  BY <1>2, <1>3, LeastNumber
<1>5. Min(ages) \in ages
  BY <1>4 DEF Min
<1> QED
  BY <1>1, <1>3, <1>5

LEMMA ConfidenceIsNumber ==
  ASSUME NEW rows, IsFiniteSet(rows), NEW asOf, \A row \in rows : asOf - row.at \in 0..MaxAge,
         NEW E, IsFiniteSet(E), E = {} \/ rows # {}, NEW bull \in Nat, NEW bear \in Nat
  PROVE  ConfidenceScore(rows, E, asOf, bull, bear) \in Int
<1>1. CASE E = {}
  BY <1>1 DEF ConfidenceScore
<1>2. CASE E # {}
  <2> DEFINE feeds == {e.feed : e \in E}
             rules == {e.rule : e \in E}
             venues == {e.exchange : e \in E}
             median == MedianAge(rows, asOf)
             unparsed == Penalty(\E row \in rows : ~row.parsed, Confidence.parser)
             conflict == Penalty(HasConflict(bull, bear),
                                 Confidence.conflict * (100 + ConflictRatio(bull, bear)))
  <2>1. IsFiniteSet(feeds) /\ IsFiniteSet(rules) /\ IsFiniteSet(venues)
    <3>1. IsFiniteSet(feeds)
      <4> DEFINE f == [e \in E |-> e.feed]
      <4>1. feeds = {f[e] : e \in E}
        OBVIOUS
      <4> HIDE DEF f, feeds
      <4> QED
        BY <4>1, FiniteImage
    <3>2. IsFiniteSet(rules)
      <4> DEFINE f == [e \in E |-> e.rule]
      <4>1. rules = {f[e] : e \in E}
        OBVIOUS
      <4> HIDE DEF f, rules
      <4> QED
        BY <4>1, FiniteImage
    <3>3. IsFiniteSet(venues)
      <4> DEFINE f == [e \in E |-> e.exchange]
      <4>1. venues = {f[e] : e \in E}
        OBVIOUS
      <4> HIDE DEF f, venues
      <4> QED
        BY <4>1, FiniteImage
    <3> QED
      BY <3>1, <3>2, <3>3
  <2>2. IsFiniteSet(venues \ {None})
    BY <2>1, FS_Subset
  <2> DEFINE n1 == Cardinality(E)
             n2 == Cardinality(feeds)
             n3 == Cardinality(rules)
             n4 == Cardinality(venues \ {None})
  <2>3. n1 \in Nat /\ n2 \in Nat /\ n3 \in Nat /\ n4 \in Nat
    BY <2>1, <2>2, FS_CardinalityType
  <2>4. median \in 0..MaxAge
    BY <1>2, MedianIsAge
  <2>5. unparsed \in Int
    BY DEF Penalty, Confidence
  <2>6. conflict \in Int
    <3> DEFINE ratio == ConflictRatio(bull, bear)
    <3>1. ratio \in Int
      <4>1. CASE bull = 0 /\ bear = 0
        BY <4>1 DEF ConflictRatio
      <4>2. CASE ~(bull = 0 /\ bear = 0)
        <5> DEFINE low == Min({bull, bear})
                   high == Max({bull, bear})
        <5>1. low \in Nat /\ high \in Nat /\ high > 0
          <6>1. CASE bull <= bear
            <7>1. low = bull
              BY <6>1 DEF Min
            <7>2. high = bear
              BY <6>1 DEF Max
            <7> QED
              BY <4>2, <6>1, <7>1, <7>2
          <6>2. CASE bear <= bull
            <7>1. low = bear
              BY <6>2 DEF Min
            <7>2. high = bull
              BY <6>2 DEF Max
            <7> QED
              BY <4>2, <6>2, <7>1, <7>2
          <6> QED
            BY <6>1, <6>2
        <5>2. ratio = (100 * low) \div high
          BY <4>2 DEF ConflictRatio
        <5> HIDE DEF low, high, ratio
        <5> QED
          BY <5>1, <5>2
      <4> QED
        BY <4>1, <4>2
    <3> HIDE DEF ratio
    <3> QED
      BY <3>1 DEF Penalty, Confidence, ratio
  <2>7. ConfidenceScore(rows, E, asOf, bull, bear)
          = ConfidenceOf(n1, n2, n3, n4, median, unparsed, conflict)
    BY <1>2, ConfidenceIs
  <2> HIDE DEF n1, n2, n3, n4, median, unparsed, conflict
  <2>8. ConfidenceOf(n1, n2, n3, n4, median, unparsed, conflict) \in Int
    <3> DEFINE total == Confidence.base
                        + Least(Confidence.evidence, 300 * n1)
                        + Least(Confidence.feeds, 600 * n2)
                        + Least(Confidence.rules, 400 * n3)
                        + Least(Confidence.exchanges, 400 * n4)
                        + (1200 * (MaxAge - median)) \div MaxAge
                        - unparsed
                        - conflict
                        - Penalty(median > HalfLife, Confidence.stale)
                        - Penalty(n2 <= 1, Confidence.singleFeed)
    <3>1. total \in Int
      BY <2>3, <2>4, <2>5, <2>6 DEF Confidence, Least, Penalty, MaxAge, HalfLife
    <3>2. ConfidenceOf(n1, n2, n3, n4, median, unparsed, conflict) = Clamp(total, 0, 10000)
      BY DEF ConfidenceOf
    <3> HIDE DEF total
    <3> QED
      BY <3>1, <3>2, Clamped
  <2> QED
    BY <2>7, <2>8
<1> QED
  BY <1>1, <1>2

LEMMA ScoreIsNumber ==
  ASSUME NEW rows, Sourced(rows), NEW asOf \in Int, NEW s, s = ScoreCoin(rows, asOf)
  PROVE  /\ s.net \in Int /\ s.bull \in Int /\ s.bear \in Int /\ s.confidence \in Int
         /\ s.regime = "bullish" => s.net > 0
         /\ s.regime = "bearish" => s.net < 0
<1> DEFINE fresh == Fresh(rows, asOf)
           E == Evidence(fresh, asOf)
           bull == SideScore(Raw(E, {"bull"}))
           bear == SideScore(Raw(E, {"bear", "risk"}))
           confidence == ConfidenceScore(fresh, E, asOf, bull, bear)
<1>1. /\ s.net = bull - bear /\ s.bull = bull /\ s.bear = bear /\ s.confidence = confidence
      /\ s.regime = Regime(bull, bear, confidence, E)
  BY DEF ScoreCoin
<1>2. Sourced(fresh) /\ \A row \in fresh : asOf - row.at \in 0..MaxAge
  <2>1. fresh \subseteq rows /\ \A row \in fresh : asOf - row.at \in 0..MaxAge
    BY DEF Fresh
  <2>2. IsFiniteSet(fresh)
    BY <2>1, FS_Subset DEF Sourced
  <2> QED
    BY <2>1, <2>2 DEF Sourced
<1> HIDE DEF fresh
<1>3. IsFiniteSet(E) /\ \A e \in E : e.contribution \in Nat
  BY <1>2, FiniteEvidence, EvidenceCounts DEF Sourced
<1>4. E = {} \/ fresh # {}
  <2> SUFFICES ASSUME fresh = {} PROVE E = {}
    OBVIOUS
  <2>1. RowEvidence(fresh, asOf) = {}
    BY RowEvidenceIs
  <2>2. Bursts(RowEvidence(fresh, asOf), asOf) = {}
    BY <2>1, BurstsAre
  <2> QED
    BY <2>1, <2>2 DEF Evidence
<1> HIDE DEF E
<1>5. bull \in Nat /\ bear \in Nat
  <2>1. Raw(E, {"bull"}) \in Nat /\ Raw(E, {"bear", "risk"}) \in Nat
    BY <1>3, RawIsSum
  <2> DEFINE a == Raw(E, {"bull"})
             b == Raw(E, {"bear", "risk"})
  <2>2. a \in Nat /\ a <= a /\ b \in Nat /\ b <= b
    BY <2>1
  <2> HIDE DEF a, b
  <2>3. SideScore(a) \in Nat
    BY <2>2, SideScoreGrows
  <2>4. SideScore(b) \in Nat
    BY <2>2, SideScoreGrows
  <2> QED
    BY <2>3, <2>4 DEF a, b
<1> HIDE DEF bull, bear
<1>6. confidence \in Int
  <2>2. IsFiniteSet(fresh) /\ IsFiniteSet(E)
    BY <1>2, <1>3 DEF Sourced
  <2> QED
    BY <1>2, <1>4, <1>5, <2>2, ConfidenceIsNumber
<1> HIDE DEF confidence
<1>7. /\ Regime(bull, bear, confidence, E) = "bullish" => bull - bear >= 1500
      /\ Regime(bull, bear, confidence, E) = "bearish" => bear - bull >= 1500
  BY DEF Regime
<1> QED
  BY <1>1, <1>5, <1>6, <1>7

LEMMA FieldsAre ==
  ASSUME NEW r, NEW row, row = CurrentRow(r)
  PROVE  /\ {"version", "coin", "net", "regime", "confidence"} \subseteq DOMAIN row
         /\ row.version = r.version /\ row.coin = r.coin /\ row.net = r.net /\ row.bull = r.bull
         /\ row.bear = r.bear /\ row.confidence = r.confidence /\ row.ts = r.ts
         /\ row.regime = r.regime
BY DEF CurrentRow, Fields, With

LEMMA ResultIsScore ==
  ASSUME NEW coin, NEW r, r = Result(coin)
  PROVE  /\ r.coin = coin /\ r.ts = clock
         /\ \E s : /\ s = ScoreCoin(SourceRows(coin), clock)
                   /\ r.net = s.net /\ r.bull = s.bull /\ r.bear = s.bear
                   /\ r.confidence = s.confidence /\ r.regime = s.regime
<1> DEFINE s == ScoreCoin(SourceRows(coin), clock)
           own == [version |-> version, coin |-> coin, ts |-> clock]
<1>1. r = With(own, s)
  BY DEF Result
<1>2. {"net", "bull", "bear", "confidence", "regime"} \subseteq DOMAIN s
  BY DEF ScoreCoin
<1> HIDE DEF s
<1>3. /\ r.net = s.net /\ r.bull = s.bull /\ r.bear = s.bear
      /\ r.confidence = s.confidence /\ r.regime = s.regime
  BY <1>1, <1>2 DEF With
<1>4. r.coin = coin /\ r.ts = clock
  BY <1>1 DEF With
<1> QED
  BY <1>3, <1>4 DEF s

LEMMA ResultHasScore ==
  ASSUME Received, NEW coin \in Coins, NEW r, r = Result(coin)
  PROVE  ScoreRow(CurrentRow(r))
<1>1. PICK s : /\ s = ScoreCoin(SourceRows(coin), clock)
               /\ r.net = s.net /\ r.bull = s.bull /\ r.bear = s.bear
               /\ r.confidence = s.confidence /\ r.regime = s.regime
  BY ResultIsScore
<1>2. clock \in Int /\ Sourced(SourceRows(coin))
  <2>1. SourceRows(coin) \subseteq received
    BY DEF SourceRows
  <2>2. IsFiniteSet(SourceRows(coin))
    BY <2>1, FS_Subset DEF Received, Sourced
  <2> QED
    BY <2>1, <2>2 DEF Received, Sourced
<1>3. /\ s.net \in Int /\ s.bull \in Int /\ s.bear \in Int /\ s.confidence \in Int
      /\ s.regime = "bullish" => s.net > 0
      /\ s.regime = "bearish" => s.net < 0
  BY <1>1, <1>2, ScoreIsNumber
<1>4. r.coin = coin /\ r.ts = clock
  BY ResultIsScore
<1> DEFINE row == CurrentRow(r)
<1>5. /\ {"version", "coin", "net", "regime", "confidence"} \subseteq DOMAIN row
      /\ row.coin = r.coin /\ row.net = r.net /\ row.bull = r.bull
      /\ row.bear = r.bear /\ row.confidence = r.confidence /\ row.ts = r.ts
      /\ row.regime = r.regime
  BY FieldsAre
<1> HIDE DEF row
<1> QED
  BY <1>1, <1>2, <1>3, <1>4, <1>5 DEF ScoreRow, row

LEMMA ScoredAreFew ==
  ASSUME Received, NEW coins \in SUBSET ScoredCoins
  PROVE  coins \subseteq Coins /\ IsFiniteSet(coins)
<1> DEFINE f == [row \in received |-> row.coin]
<1>1. ScoredCoins = {f[row] : row \in received} /\ ScoredCoins \subseteq Coins
  BY DEF ScoredCoins, Received
<1>2. IsFiniteSet(received)
  BY DEF Received, Sourced
<1> HIDE DEF f
<1>3. IsFiniteSet({f[row] : row \in received})
  BY <1>2, FiniteImage
<1> QED
  BY <1>1, <1>3, FS_Subset

LEMMA RunKeepsRows ==
  ASSUME Received, ScoreRows, NEW coins \in SUBSET ScoredCoins, Run(coins)
  PROVE  ScoreRows'
<1> DEFINE results == {Result(c) : c \in coins}
           taken(r) == \A row \in current : SameRow(row, r) => Supersedes(r, row)
           kept == {row \in current : ~\E r \in {r \in results : taken(r)} : SameRow(row, r)}
           new == {CurrentRow(r) : r \in {r \in results : taken(r)}}
<1>1. current' = kept \cup new
  BY DEF Run, WithCurrent, CurrentRow
<1>2. coins \subseteq Coins /\ IsFiniteSet(coins)
  BY ScoredAreFew
<1>3. IsFiniteSet(kept) /\ \A row \in kept : ScoreRow(row)
  BY FS_Subset DEF ScoreRows
<1>4. IsFiniteSet(new)
  <2> DEFINE f == [c \in coins |-> CurrentRow(Result(c))]
  <2>1. new \subseteq {f[c] : c \in coins}
    OBVIOUS
  <2> HIDE DEF f, new
  <2>2. IsFiniteSet({f[c] : c \in coins})
    BY <1>2, FiniteImage
  <2> QED
    BY <2>1, <2>2, FS_Subset
<1>5. ASSUME NEW row \in new PROVE ScoreRow(row)
  <2>1. PICK c \in coins : row = CurrentRow(Result(c))
    OBVIOUS
  <2> QED
    BY <1>2, <2>1, ResultHasScore
<1>6. IsFiniteSet(kept \cup new)
  BY <1>3, <1>4, FS_Union
<1> HIDE DEF kept, new
<1>7. \A row \in current' : ScoreRow(row)
  BY <1>1, <1>3, <1>5
<1>8. \A s \in snapshots' : "ts" \in DOMAIN s
  <2>1. snapshots' = WithSnapshots({r \in results : ShouldWriteSnapshot(r)})
    BY DEF Run
  <2>2. \A r : "ts" \in DOMAIN Snapshot(r)
    BY DEF Snapshot, Fields, With
  <2> HIDE DEF results
  <2> QED
    BY <2>1, <2>2 DEF WithSnapshots, ScoreRows
<1> QED
  BY <1>1, <1>6, <1>7, <1>8 DEF ScoreRows, ScoreRow

LEMMA RowsFirst == Init => ScoreRows
BY FS_EmptySet DEF Init, ScoreRows

LEMMA RowsStay == Received /\ ScoreRows /\ [Next]_scoreVars => ScoreRows'
<1> SUFFICES ASSUME Received, ScoreRows, [Next]_scoreVars PROVE ScoreRows'
  OBVIOUS
<1>1. ASSUME UNCHANGED <<current, snapshots>> PROVE ScoreRows'
  BY <1>1 DEF ScoreRows, ScoreRow
<1>2. CASE Tick
  BY <1>1, <1>2 DEF Tick
<1>3. CASE SetBack
  BY <1>1, <1>3 DEF SetBack
<1>4. CASE \E v \in Versions : Restart(v)
  BY <1>1, <1>4 DEF Restart
<1>5. CASE \E alert \in Alerts : Receive(alert)
  BY <1>1, <1>5 DEF Receive
<1>6. CASE \E coins \in SUBSET ScoredCoins \ {{}} : Run(coins)
  BY <1>6, RunKeepsRows
<1>7. CASE UNCHANGED scoreVars
  BY <1>1, <1>7 DEF scoreVars
<1> QED
  BY <1>2, <1>3, <1>4, <1>5, <1>6, <1>7 DEF Next

-----------------------------------------------------------------------------
(* Ranks *)

Numbered(ranked, n) ==
  /\ \A x \in ranked : x.rank \in 1..n
  /\ \A k \in 1..n : \E x \in ranked : x.rank = k
  /\ \A x, y \in ranked : x.rank = y.rank => x = y

LEMMA SizeByRank ==
  ASSUME NEW n \in Nat, NEW ranked, Numbered(ranked, n)
  PROVE  IsFiniteSet(ranked) /\ Cardinality(ranked) = n
<1> DEFINE f == [k \in 1..n |-> CHOOSE x \in ranked : x.rank = k]
<1>1. \A k \in 1..n : f[k] \in ranked /\ f[k].rank = k
  BY DEF Numbered
<1>2. \A x \in ranked : x.rank \in 1..n
  BY DEF Numbered
<1> HIDE DEF f
<1>3. \A x \in ranked : \E k \in 1..n : x = f[k]
  BY <1>1, <1>2 DEF Numbered
<1>4. \A j, k \in 1..n : f[j] = f[k] => j = k
  BY <1>1
<1>5. IsFiniteSet(1..n) /\ Cardinality(1..n) = n
  <2>1. 1 \in Int /\ n \in Int
    OBVIOUS
  <2>2. IsFiniteSet(1..n) /\ Cardinality(1..n) = IF 1 > n THEN 0 ELSE n - 1 + 1
    BY <2>1, FS_Interval
  <2> QED
    BY <2>2
<1> DEFINE S == 1..n
<1>6. IsFiniteSet(S) /\ Cardinality(S) = n /\ (\A k \in S : f[k] \in ranked)
      /\ (\A x \in ranked : \E k \in S : x = f[k]) /\ (\A j, k \in S : f[j] = f[k] => j = k)
  BY <1>1, <1>3, <1>4, <1>5
<1> HIDE DEF S
<1> QED
  BY <1>6, SameSize

LEMMA LimitedIs ==
  ASSUME NEW n \in Nat, NEW ranked, Numbered(ranked, n), NEW limit \in Nat
  PROVE  /\ \A x \in ranked : x \in Limited(ranked, limit) <=> x.rank <= limit
         /\ Limited(ranked, limit) \subseteq ranked
         /\ Numbered(Limited(ranked, limit), Least(n, limit))
<1>1. ASSUME NEW x \in ranked
      PROVE  x.rank \in 1..n /\ Cardinality({d \in ranked : d.rank <= x.rank}) = x.rank
  <2> DEFINE k == x.rank
             S == {d \in ranked : d.rank <= k}
  <2>1. k \in 1..n
    BY DEF Numbered
  <2> HIDE DEF k
  <2>2. Numbered(S, k)
    BY <2>1 DEF Numbered
  <2> HIDE DEF S
  <2>3. Cardinality(S) = k
    BY <2>1, <2>2, SizeByRank
  <2> QED
    BY <2>1, <2>3 DEF S, k
<1>2. \A x \in ranked : x \in Limited(ranked, limit) <=> x.rank <= limit
  BY <1>1 DEF Limited
<1>3. Limited(ranked, limit) \subseteq ranked
  BY DEF Limited
<1>4. Numbered(Limited(ranked, limit), Least(n, limit))
  BY <1>2, <1>3 DEF Numbered, Least
<1> QED
  BY <1>2, <1>3, <1>4

(* The rows a query of the list is about: one of a coin. *)
Rankable(rows) ==
  /\ IsFiniteSet(rows)
  /\ \A row \in rows : ScoreRow(row)
  /\ \A a, b \in rows : a.coin = b.coin => a = b

ListSides == {"bull", "bear", "net"}

LEMMA FiveNumbers ==
  ASSUME NEW a \in Int, NEW b \in Int, NEW c \in Int, NEW d \in Int, NEW e \in Int
  PROVE  <<a, b, c, d, e>> \in Seq(Int)
OBVIOUS

LEMMA KeyIsNumbers ==
  ASSUME NEW row, ScoreRow(row), NEW side \in ListSides
  PROVE  SortKey(row, side) \in Seq(Int)
<1> DEFINE name == CHOOSE i \in DOMAIN Alphabetical : Alphabetical[i] = row.coin
<1>1. name \in Int
  <2>1. \E i \in DOMAIN Alphabetical : Alphabetical[i] = row.coin
    BY ScoreReadsAssumption DEF ScoreRow
  <2>2. name \in DOMAIN Alphabetical
    BY <2>1
  <2>3. DOMAIN Alphabetical \subseteq Int
    BY ScoreReadsAssumption
  <2> QED
    BY <2>2, <2>3
<1>2. /\ side = "bull" => SortKey(row, side) = <<-row.net, -row.bull, -row.confidence, -row.ts, name>>
      /\ side = "bear" => SortKey(row, side) = <<row.net, -row.bear, -row.confidence, -row.ts, name>>
      /\ side = "net" => SortKey(row, side) = <<-Size(row.net), -row.confidence, -row.ts, name>>
  BY DEF SortKey, ListSides
<1> HIDE DEF name
<1>3. /\ row.net \in Int /\ row.bull \in Int /\ row.bear \in Int /\ row.confidence \in Int
      /\ row.ts \in Int
  BY DEF ScoreRow
<1>4. Size(row.net) \in Int
  BY <1>3 DEF Size
<1>6. \A a, b, c, d \in Int : <<a, b, c, d>> \in Seq(Int)
  OBVIOUS
<1>7. CASE side = "bull"
  <2>1. -row.net \in Int /\ -row.bull \in Int /\ -row.confidence \in Int /\ -row.ts \in Int
    BY <1>3
  <2> DEFINE a == -row.net
             b == -row.bull
             c == -row.confidence
             d == -row.ts
  <2>2. SortKey(row, side) = <<a, b, c, d, name>>
    BY <1>2, <1>7
  <2> HIDE DEF a, b, c, d
  <2> QED
    BY <1>1, <2>1, <2>2, FiveNumbers DEF a, b, c, d
<1>8. CASE side = "bear"
  <2>1. -row.bear \in Int /\ -row.confidence \in Int /\ -row.ts \in Int
    BY <1>3
  <2> DEFINE b == -row.bear
             c == -row.confidence
             d == -row.ts
  <2>2. SortKey(row, side) = <<row.net, b, c, d, name>>
    BY <1>2, <1>8
  <2> HIDE DEF b, c, d
  <2> QED
    BY <1>1, <1>3, <2>1, <2>2, FiveNumbers DEF b, c, d
<1>9. CASE side = "net"
  <2>1. -Size(row.net) \in Int /\ -row.confidence \in Int /\ -row.ts \in Int
    BY <1>3, <1>4
  <2> QED
    BY <1>1, <1>2, <1>6, <1>9, <2>1, Zenon
<1> QED
  BY <1>7, <1>8, <1>9 DEF ListSides

(* What is read of a row of a list, under its rank. *)
RankedRow(x, row) ==
  /\ x.coin = row.coin /\ x.net = row.net /\ x.regime = row.regime
  /\ x.confidence = row.confidence /\ x.recentDelta = RecentDelta(row)

LEMMA RankedRowIs ==
  ASSUME NEW row, ScoreRow(row), NEW i, NEW x, NEW d, d = RecentDelta(row), NEW e,
         x = With([rank |-> i, recentDelta |-> d, evidence |-> e], row)
  PROVE  RankedRow(x, row) /\ x.rank = i
<1>1. {"coin", "net", "regime", "confidence"} \subseteq DOMAIN row
  BY DEF ScoreRow
<1> QED
  BY <1>1 DEF RankedRow, With

LEMMA RankedIs ==
  ASSUME NEW rows, Rankable(rows), NEW side \in ListSides
  PROVE  /\ Cardinality(rows) \in Nat
         /\ Numbered(Ranked(rows, side), Cardinality(rows))
         /\ \A x \in Ranked(rows, side) : \E row \in rows : RankedRow(x, row)
         /\ \A row \in rows : \E x \in Ranked(rows, side) : RankedRow(x, row)
         /\ \A x, y \in Ranked(rows, side) : x.coin = y.coin => x = y
<1> DEFINE key == [row \in rows |-> SortKey(row, side)]
           list == SortedBy(key)
           n == Cardinality(rows)
           place(i) == With([rank |-> i, recentDelta |-> RecentDelta(list[i]),
                             evidence |-> Summary(EvidenceAt(list[i]))], list[i])
           ranked == Ranked(rows, side)
<1>1. IsFiniteSet(rows) /\ HasKeys(key, rows)
  BY KeyIsNumbers DEF HasKeys, Rankable
<1>2. ranked = {place(i) : i \in DOMAIN list}
  BY DEF Ranked
<1> HIDE DEF key
<1>3. /\ n \in Nat /\ DOMAIN list = 1..n
      /\ \A i \in DOMAIN list : list[i] \in rows
      /\ \A x \in rows : \E i \in DOMAIN list : list[i] = x
      /\ \A i, j \in DOMAIN list : list[i] = list[j] => i = j
  BY <1>1, SortedList
<1> HIDE DEF list, n
<1>4. ASSUME NEW i \in 1..n PROVE RankedRow(place(i), list[i]) /\ place(i).rank = i
  <2>1. ScoreRow(list[i])
    BY <1>3 DEF Rankable
  <2> QED
    BY <2>1, RankedRowIs
<1> HIDE DEF place, ranked
<1>5. \A x \in ranked : \E i \in 1..n : x = place(i) /\ RankedRow(x, list[i]) /\ x.rank = i
  BY <1>2, <1>3, <1>4
<1>6. \A i \in 1..n : place(i) \in ranked
  BY <1>2, <1>3
<1>7. Numbered(ranked, n)
  <2>1. \A x \in ranked : x.rank \in 1..n
    BY <1>5
  <2>2. \A k \in 1..n : \E x \in ranked : x.rank = k
    BY <1>4, <1>6
  <2>3. \A x, y \in ranked : x.rank = y.rank => x = y
    BY <1>5
  <2> QED
    BY <2>1, <2>2, <2>3 DEF Numbered
<1>8. \A x \in ranked : \E row \in rows : RankedRow(x, row)
  BY <1>3, <1>5
<1>9. ASSUME NEW row \in rows PROVE \E x \in ranked : RankedRow(x, row)
  BY <1>3, <1>4, <1>6
<1>10. ASSUME NEW x \in ranked, NEW y \in ranked, x.coin = y.coin PROVE x = y
  <2>1. PICK i \in 1..n : x = place(i) /\ RankedRow(x, list[i])
    BY <1>5
  <2>2. PICK j \in 1..n : y = place(j) /\ RankedRow(y, list[j])
    BY <1>5
  <2>3. list[i].coin = list[j].coin
    BY <1>10, <2>1, <2>2 DEF RankedRow
  <2>4. list[i] = list[j]
    BY <1>3, <2>3 DEF Rankable
  <2>5. i = j
    BY <1>3, <2>4
  <2> QED
    BY <2>1, <2>2, <2>5
<1> QED
  BY <1>3, <1>7, <1>8, <1>9, <1>10 DEF n, ranked

LEMMA QueryIs ==
  ASSUME NEW query \in FilteredQueries, NEW q, q = Filters(query)
  PROVE  /\ q.version = version /\ q.side \in ListSides
         /\ q.limit = query.limit /\ q.limit \in Nat /\ q.limit >= 1
         /\ Base([q EXCEPT !.limit = 1]) = Base(q)
         /\ [q EXCEPT !.limit = 1].side = q.side /\ [q EXCEPT !.limit = 1].limit = 1
<1>1. /\ DOMAIN query = {"version", "side", "minConfidence", "halal", "exchange", "market",
                         "since", "limit"}
      /\ query.version = None /\ query.side \in ListSides /\ query.limit \in {1, 50}
  BY DEF FilteredQueries, SideQueries, Unfiltered, ListSides
<1>2. /\ DOMAIN q = DOMAIN query /\ q.version = version
      /\ q.side = query.side /\ q.limit = query.limit
  BY <1>1 DEF Filters
<1> DEFINE one == [q EXCEPT !.limit = 1]
<1>3. /\ one.version = q.version /\ one.side = q.side /\ one.minConfidence = q.minConfidence
      /\ one.since = q.since /\ one.halal = q.halal /\ one.exchange = q.exchange
      /\ one.market = q.market /\ one.limit = 1
  BY <1>1, <1>2
<1> HIDE DEF one
<1>4. Base(one) = Base(q)
  <2>1. \A S : HasEvidence(S, one) <=> HasEvidence(S, q)
    BY <1>3 DEF HasEvidence, Concerns
  <2>2. \A coin : IsHalal(coin, one) <=> IsHalal(coin, q)
    BY <1>3 DEF IsHalal
  <2> QED
    BY <1>3, <2>1, <2>2 DEF Base
<1> QED
  BY <1>1, <1>2, <1>3, <1>4 DEF one

LEMMA BaseIsRankable ==
  ASSUME IInv, ScoreRows, NEW q
  PROVE  Rankable(Base(q)) /\ \A row \in Base(q) : row \in current /\ row.version = q.version
<1>1. Base(q) \subseteq current /\ \A row \in Base(q) : row.version = q.version
  BY DEF Base
<1>2. IsFiniteSet(Base(q))
  BY <1>1, FS_Subset DEF ScoreRows
<1>3. \A a, b \in Base(q) : a.coin = b.coin => a = b
  BY <1>1 DEF IInv, Keyed, SameRow
<1> QED
  BY <1>1, <1>2, <1>3 DEF Rankable, ScoreRows

-----------------------------------------------------------------------------
(* The timeline *)

LEMMA LatestIs ==
  ASSUME IInv, NEW row \in current, NEW S, S = SnapshotsOf(row.version, row.coin)
  PROVE  /\ S # {} /\ Latest(S) \in S
         /\ \A t \in S : t.ts <= Latest(S).ts
         /\ \A t \in S : t.ts >= Latest(S).ts => t = Latest(S)
         /\ \A t \in S : t.ts \in Int
<1>1. PICK s \in snapshots : EndsWith(row, s)
  BY DEF IInv
<1>2. s \in S /\ \A t \in S : t.ts <= s.ts
  BY <1>1 DEF EndsWith, Ends, SnapshotsOf, SameRow
<1>3. Latest(S) \in S /\ \A t \in S : t.ts <= Latest(S).ts
  BY <1>2 DEF Latest
<1>4. \A t \in S : t \in snapshots /\ t.ts \in Int
  BY DEF IInv, Clocked, SnapshotsOf
<1>5. ASSUME NEW t \in S, t.ts >= Latest(S).ts PROVE t = Latest(S)
  <2>1. t.ts = Latest(S).ts
    BY <1>3, <1>4, <1>5
  <2>2. SameSnapshot(t, Latest(S))
    BY <1>3, <2>1 DEF SameSnapshot, SameRow, SnapshotsOf
  <2> QED
    BY <1>3, <1>4, <2>2 DEF IInv, Keyed
<1> QED
  BY <1>2, <1>3, <1>4, <1>5

LEMMA TimelineMoves ==
  ASSUME IInv, ScoreRows, NEW row \in current, row.version = version,
         NEW timeline, timeline = ScoreTimeline(Unfiltered, row.coin)
  PROVE  Latest(timeline).recentDelta = RecentDelta(row)
<1> DEFINE S == SnapshotsOf(row.version, row.coin)
           last == Latest(S)
           q == Filters(Unfiltered)
           page == {s \in S : Cardinality({t \in S : t.ts >= s.ts}) <= 50}
           point(s) == With([recentDelta |-> NetDelta(s, S), evidence |-> Summary(EvidenceOf(s))], s)
<1>1. /\ S # {} /\ last \in S
      /\ \A t \in S : t.ts <= last.ts
      /\ \A t \in S : t.ts >= last.ts => t = last
      /\ \A t \in S : t.ts \in Int
  BY LatestIs
<1>2. RecentDelta(row) = NetDelta(last, S)
  BY <1>1 DEF RecentDelta
<1>3. timeline = {point(s) : s \in page}
  <2>1. /\ q.version = row.version /\ q.minConfidence = 0 /\ q.since = Null /\ q.limit = 50
        /\ q.halal = None /\ q.exchange = None /\ q.market = None
    BY DEF Filters, Unfiltered
  <2> HIDE DEF q
  <2>2. IsHalal(row.coin, q) /\ \A T : HasEvidence(T, q)
    BY <2>1 DEF IsHalal, HasEvidence
  <2>3. S = {s \in SnapshotsOf(q.version, row.coin) :
               /\ q.minConfidence > 0 => s.confidence >= q.minConfidence
               /\ q.since # Null => s.ts >= q.since
               /\ HasEvidence(EvidenceOf(s), q)}
    BY <2>1, <2>2
  <2> HIDE DEF S
  <2>4. timeline = {point(s) : s \in {s \in S : Cardinality({t \in S : t.ts >= s.ts}) <= q.limit}}
    BY <2>2, <2>3 DEF ScoreTimeline, q
  <2> QED
    BY <2>1, <2>4
<1>4. \A s \in S : point(s).ts = s.ts /\ point(s).recentDelta = NetDelta(s, S)
  <2>1. \A s \in S : "ts" \in DOMAIN s
    BY DEF ScoreRows, SnapshotsOf
  <2> HIDE DEF S
  <2> QED
    BY <2>1 DEF With
<1> HIDE DEF S, last, point
<1>5. last \in page
  <2>1. {t \in S : t.ts >= last.ts} = {last}
    BY <1>1
  <2>2. Cardinality({last}) = 1
    BY FS_Singleton
  <2> QED
    BY <1>1, <2>1, <2>2
<1>6. page \subseteq S
  OBVIOUS
<1> HIDE DEF page
<1>7. point(last) \in timeline /\ \A x \in timeline : x.ts <= point(last).ts
  BY <1>1, <1>3, <1>4, <1>5, <1>6
<1>8. Latest(timeline) \in timeline /\ \A x \in timeline : x.ts <= Latest(timeline).ts
  BY <1>7 DEF Latest
<1>9. PICK s \in page : Latest(timeline) = point(s)
  BY <1>3, <1>8
<1>10. s = last
  BY <1>1, <1>4, <1>6, <1>7, <1>8, <1>9
<1> QED
  BY <1>1, <1>2, <1>4, <1>9, <1>10

-----------------------------------------------------------------------------
(* The regime of the market *)

LEMMA SignOfAverage ==
  ASSUME NEW total \in Int, NEW count \in Nat
  PROVE  Average(total, count) \in Int /\ (total <= 0 => Average(total, count) <= 0)
         /\ (total >= 0 => Average(total, count) >= 0)
BY DEF Average

LEMMA NoneOf ==
  ASSUME NEW S, NEW regime, \A row \in S : row.regime # regime
  PROVE  Cardinality({row \in S : row.regime = regime}) = 0
<1>1. {row \in S : row.regime = regime} = {}
  OBVIOUS
<1> QED
  BY <1>1, FS_EmptySet

LEMMA MarketLeans ==
  ASSUME NEW S, IsFiniteSet(S),
         \A row \in S : /\ row.net \in Int
                        /\ row.regime # "bullish" \/ row.net > 0
                        /\ row.regime # "bearish" \/ row.net < 0
  PROVE  /\ OverallRegime(S) # "bullish" \/ \E row \in S : row.net > 0
         /\ OverallRegime(S) # "bearish" \/ \E row \in S : row.net < 0
<1> DEFINE nets == [row \in S |-> row.net]
           count == Cardinality(S)
           total == SumOf(nets)
           net == Average(total, count)
           bullish == Cardinality({row \in S : row.regime = "bullish"})
           bearish == Cardinality({row \in S : row.regime = "bearish"})
<1>1. count \in Nat /\ bullish \in Nat /\ bearish \in Nat
  <2>1. IsFiniteSet({row \in S : row.regime = "bullish"})
        /\ IsFiniteSet({row \in S : row.regime = "bearish"})
    BY FS_Subset
  <2> QED
    BY <2>1, FS_CardinalityType
<1>2. /\ IsFiniteSet(DOMAIN nets) /\ DOMAIN nets = S
      /\ \A row \in DOMAIN nets : nets[row] \in Int /\ nets[row] = row.net
  OBVIOUS
<1>3. /\ OverallRegime(S) = "bullish" => net >= 1500 \/ 2 * bullish > 3 * bearish
      /\ OverallRegime(S) = "bearish" => net <= -1500 \/ 2 * bearish > 3 * bullish
  <2>1. OverallRegime(S) = "bullish" => net >= 1500 \/ 2 * bullish > 3 * bearish
    <3> HIDE DEF count, bullish, bearish, net, nets
    <3> QED
      BY DEF OverallRegime, count, bullish, bearish, net, total, nets
  <2>2. OverallRegime(S) = "bearish" => net <= -1500 \/ 2 * bearish > 3 * bullish
    <3> HIDE DEF count, bullish, bearish, net, nets
    <3> QED
      BY DEF OverallRegime, count, bullish, bearish, net, total, nets
  <2> QED
    BY <2>1, <2>2
<1> HIDE DEF nets
<1>4. /\ total \in Int
      /\ (\A row \in S : row.net <= 0) => total <= 0
      /\ (\A row \in S : row.net >= 0) => total >= 0
  <2>1. total \in Int
    BY <1>2, SumsAreNumbers DEF SumOf
  <2>2. (\A row \in S : row.net <= 0) => total <= 0
    BY <1>2, SumHasSign DEF SumOf
  <2>3. (\A row \in S : row.net >= 0) => total >= 0
    BY <1>2, SumHasSign DEF SumOf
  <2> QED
    BY <2>1, <2>2, <2>3
<1> HIDE DEF total
<1>5. /\ net \in Int /\ (total <= 0 => net <= 0) /\ (total >= 0 => net >= 0)
  BY <1>1, <1>4, SignOfAverage
<1> HIDE DEF net, count
<1>6. ASSUME \A row \in S : ~(row.net > 0) PROVE OverallRegime(S) # "bullish"
  <2>1. \A row \in S : row.net <= 0 /\ row.regime # "bullish"
    BY <1>6
  <2>2. bullish = 0
    BY <2>1, NoneOf
  <2> HIDE DEF bullish, bearish
  <2> QED
    BY <1>1, <1>3, <1>4, <1>5, <2>1, <2>2
<1>7. ASSUME \A row \in S : ~(row.net < 0) PROVE OverallRegime(S) # "bearish"
  <2>1. \A row \in S : row.net >= 0 /\ row.regime # "bearish"
    BY <1>7
  <2>2. bearish = 0
    BY <2>1, NoneOf
  <2> HIDE DEF bullish, bearish
  <2> QED
    BY <1>1, <1>3, <1>4, <1>5, <2>1, <2>2
<1> QED
  BY <1>6, <1>7

(* What was read of a coin among all the ranked, and of that page itself.  *)
LEMMA PageOfCoin ==
  ASSUME NEW n \in Nat, NEW ranked, Numbered(ranked, n),
         \A x, y \in ranked : x.coin = y.coin => x = y, NEW coin
  PROVE  LET page == {x \in ranked : x.coin = coin} IN Limited(page, 1) = page
<1> DEFINE page == {x \in ranked : x.coin = coin}
<1>1. ASSUME NEW x \in page PROVE Cardinality({d \in page : d.rank <= x.rank}) <= 1
  <2>1. x.rank \in 1..n
    BY DEF Numbered
  <2>2. {d \in page : d.rank <= x.rank} = {x}
    BY <2>1
  <2> QED
    BY <2>2, FS_Singleton
<1> QED
  BY <1>1 DEF Limited

LEMMA ReadsOfQuery ==
  ASSUME IInv, ScoreRows, NEW query \in FilteredQueries, NEW list, list = ScoreList(query)
  PROVE  /\ {row.rank : row \in list} = 1..Cardinality(list)
         /\ \A coin \in Coins :
              LET listed == {row \in list : row.coin = coin} IN
              listed # ScoreDetail(query, coin) => listed = {} /\ Cardinality(list) = query.limit
         /\ \A row \in list :
              Latest(ScoreTimeline(Unfiltered, row.coin)).recentDelta = row.recentDelta
         /\ MarketRegime(query).regime = "bullish" => \E row \in list : row.net > 0
         /\ MarketRegime(query).regime = "bearish" => \E row \in list : row.net < 0
<1> DEFINE q == Filters(query)
           one == [q EXCEPT !.limit = 1]
           rows == Base(q)
           ranked == Ranked(rows, q.side)
           limit == q.limit
           n == Cardinality(rows)
<1>1. /\ q.version = version /\ q.side \in ListSides
      /\ limit = query.limit /\ limit \in Nat /\ limit >= 1
      /\ Base(one) = rows /\ one.side = q.side /\ one.limit = 1
  BY QueryIs
<1>2. Rankable(rows) /\ \A row \in rows : row \in current /\ row.version = q.version
  BY BaseIsRankable
<1> HIDE DEF q, one, rows
<1>3. /\ n \in Nat /\ Numbered(ranked, n)
      /\ \A x \in ranked : \E row \in rows : RankedRow(x, row)
      /\ \A x, y \in ranked : x.coin = y.coin => x = y
  BY <1>1, <1>2, RankedIs
<1>4. list = Limited(ranked, limit)
  <2>1. list = CurrentScores(q, None)
    BY DEF ScoreList, q
  <2> QED
    BY <2>1 DEF CurrentScores, rows
<1>5. ASSUME NEW coin \in Coins
      PROVE  ScoreDetail(query, coin) = {x \in ranked : x.coin = coin}
  <2> DEFINE page == {x \in ranked : x.coin = coin}
  <2>1. coin # None
    BY ScoreReadsAssumption
  <2>2. ScoreDetail(query, coin) = CurrentScores(one, coin)
    BY DEF ScoreDetail, q, one
  <2>3. ScoreDetail(query, coin) = Limited(page, 1)
    BY <1>1, <2>1, <2>2 DEF CurrentScores
  <2> QED
    BY <1>3, <2>3, PageOfCoin
<1> HIDE DEF ranked, n
<1>6. /\ \A x \in ranked : x \in list <=> x.rank <= limit
      /\ list \subseteq ranked
      /\ Numbered(list, Least(n, limit))
  BY <1>1, <1>3, <1>4, LimitedIs
<1>7. Least(n, limit) \in Nat
  BY <1>1, <1>3 DEF Least
<1>8. IsFiniteSet(list) /\ Cardinality(list) = Least(n, limit)
  BY <1>6, <1>7, SizeByRank
<1> HIDE DEF limit
<1>9. {row.rank : row \in list} = 1..Cardinality(list)
  BY <1>6, <1>8 DEF Numbered
<1>10. ASSUME NEW coin \in Coins, {row \in list : row.coin = coin} # ScoreDetail(query, coin)
       PROVE  {row \in list : row.coin = coin} = {} /\ Cardinality(list) = query.limit
  <2>1. PICK x \in ranked : x.coin = coin /\ x \notin list
    BY <1>5, <1>6, <1>10
  <2>2. {row \in list : row.coin = coin} = {}
    BY <1>3, <1>6, <2>1
  <2>3. x.rank \in 1..n /\ ~(x.rank <= limit)
    BY <1>3, <1>6, <2>1 DEF Numbered
  <2>4. Least(n, limit) = limit
    BY <1>1, <1>3, <2>3 DEF Least
  <2> QED
    BY <1>1, <1>8, <2>2, <2>4
<1>11. ASSUME NEW x \in list
       PROVE  Latest(ScoreTimeline(Unfiltered, x.coin)).recentDelta = x.recentDelta
  <2>1. PICK row \in rows : RankedRow(x, row)
    BY <1>3, <1>6
  <2>2. Latest(ScoreTimeline(Unfiltered, row.coin)).recentDelta = RecentDelta(row)
    BY <1>1, <1>2, <2>1, TimelineMoves
  <2> QED
    BY <2>1, <2>2 DEF RankedRow
<1>12. \A x \in list : /\ x.net \in Int
                       /\ x.regime # "bullish" \/ x.net > 0
                       /\ x.regime # "bearish" \/ x.net < 0
  <2> SUFFICES ASSUME NEW x \in list
               PROVE  /\ x.net \in Int
                      /\ x.regime # "bullish" \/ x.net > 0
                      /\ x.regime # "bearish" \/ x.net < 0
    OBVIOUS
  <2>1. PICK row \in rows : RankedRow(x, row)
    BY <1>3, <1>6
  <2>2. ScoreRow(row)
    BY <1>2 DEF Rankable
  <2> QED
    BY <2>1, <2>2 DEF RankedRow, ScoreRow
<1>13. MarketRegime(query).regime = OverallRegime(list)
  BY DEF MarketRegime
<1>14. /\ OverallRegime(list) # "bullish" \/ \E row \in list : row.net > 0
       /\ OverallRegime(list) # "bearish" \/ \E row \in list : row.net < 0
  BY <1>8, <1>12, MarketLeans
<1> QED
  BY <1>9, <1>10, <1>11, <1>13, <1>14

(* The list of scores, the page of a coin, its timeline and the regime of  *)
(* the market, each a query of its own, show one state of the tables.      *)
THEOREM ReadsAlwaysAgree == Spec => []ScoreReadsAgree
<1> DEFINE TablesAreRead == IInv /\ Received /\ ScoreRows
<1>1. Init => TablesAreRead
  BY Initially, ReceivedFirst, RowsFirst
<1>2. TablesAreRead /\ [Next]_scoreVars => TablesAreRead'
  BY Preserved, ReceivedStays, RowsStay
<1>3. TablesAreRead => ScoreReadsAgree
  BY ReadsOfQuery DEF ScoreReadsAgree
<1> QED
  BY <1>1, <1>2, <1>3, PTL DEF Spec

-----------------------------------------------------------------------------
(* What the backtests rely on of the tables. *)
Counted ==
  /\ IsFiniteSet(snapshots)
  /\ \A s \in snapshots : s.coin \in Coins
  /\ \A e \in evidence : e.contribution \in Nat

LEMMA EvidenceHasPoints ==
  ASSUME NEW rows, NEW asOf, NEW e \in Evidence(rows, asOf)
  PROVE  "contribution" \in DOMAIN e
<1>1. CASE e \in RowEvidence(rows, asOf)
  <2>1. \E rule, row : e = Found(rule, row, asOf)
    BY <1>1, RowEvidenceIs
  <2> QED
    BY <2>1 DEF Found
<1>2. CASE e \in Bursts(RowEvidence(rows, asOf), asOf)
  <2>1. \E d : e = BurstFound(RowEvidence(rows, asOf), d, asOf)
    BY <1>2, BurstsAre
  <2> QED
    BY <2>1 DEF BurstFound
<1> QED
  BY <1>1, <1>2 DEF Evidence

LEMMA ResultHasPoints ==
  ASSUME Received, NEW coin \in Coins, NEW r, r = Result(coin), NEW e \in r.evidence
  PROVE  "contribution" \in DOMAIN e /\ e.contribution \in Nat
<1> DEFINE rows == SourceRows(coin)
           fresh == Fresh(rows, clock)
           s == ScoreCoin(rows, clock)
<1>1. r.evidence = s.evidence
  <2>1. r = With([version |-> version, coin |-> coin, ts |-> clock], s)
    BY DEF Result
  <2>2. "evidence" \in DOMAIN s
    BY DEF ScoreCoin
  <2> HIDE DEF s
  <2> QED
    BY <2>1, <2>2 DEF With
<1>2. s.evidence = Evidence(fresh, clock)
  BY DEF ScoreCoin
<1>3. Sourced(fresh) /\ \A row \in fresh : clock - row.at \in 0..MaxAge
  <2>1. fresh \subseteq received /\ \A row \in fresh : clock - row.at \in 0..MaxAge
    BY DEF Fresh, SourceRows
  <2>2. IsFiniteSet(fresh)
    BY <2>1, FS_Subset DEF Received, Sourced
  <2> QED
    BY <2>1, <2>2 DEF Received, Sourced
<1> HIDE DEF rows, fresh, s
<1>4. e \in Evidence(fresh, clock) /\ clock \in Int
  BY <1>1, <1>2 DEF Received
<1> QED
  BY <1>3, <1>4, EvidenceHasPoints, EvidenceCounts

LEMMA EvidenceOfRun ==
  ASSUME NEW written, \A r \in written : \A e \in r.evidence :
           "contribution" \in DOMAIN e /\ e.contribution \in Nat,
         NEW d \in EvidenceRows(written)
  PROVE  d.contribution \in Nat
<1>1. PICK r \in written : \E e \in r.evidence :
        d = With([version |-> r.version, snapshot |-> SnapshotId(r), ts |-> ScoreTs(r, e)], e)
  BY DEF EvidenceRows
<1>2. PICK e \in r.evidence :
        d = With([version |-> r.version, snapshot |-> SnapshotId(r), ts |-> ScoreTs(r, e)], e)
  BY <1>1
<1>3. "contribution" \in DOMAIN e /\ e.contribution \in Nat
  OBVIOUS
<1> QED
  BY <1>2, <1>3 DEF With

LEMMA RunKeepsCounted ==
  ASSUME Received, Counted, NEW coins \in SUBSET ScoredCoins, Run(coins)
  PROVE  Counted'
<1> DEFINE results == {Result(c) : c \in coins}
           written == {r \in results : ShouldWriteSnapshot(r)}
           kept == {s \in snapshots : ~\E r \in written : SameSnapshot(s, r)}
           new == {Snapshot(r) : r \in written}
<1>1. snapshots' = kept \cup new /\ evidence' = WithEvidence(written)
  BY DEF Run, WithSnapshots
<1>2. coins \subseteq Coins /\ IsFiniteSet(coins)
  BY ScoredAreFew
<1>3. \A s \in kept : s.coin \in Coins
  BY DEF Counted
<1>4. IsFiniteSet(kept)
  BY FS_Subset DEF Counted
<1>5. IsFiniteSet(new)
  <2> DEFINE f == [c \in coins |-> Snapshot(Result(c))]
  <2>1. new \subseteq {f[c] : c \in coins}
    OBVIOUS
  <2> HIDE DEF f, new
  <2>2. IsFiniteSet({f[c] : c \in coins})
    BY <1>2, FiniteImage
  <2> QED
    BY <2>1, <2>2, FS_Subset
<1>6. ASSUME NEW s \in new PROVE s.coin \in Coins
  <2>1. PICK c \in coins : s = Snapshot(Result(c))
    OBVIOUS
  <2>2. s.coin = Result(c).coin
    BY <2>1 DEF Snapshot, Fields, With
  <2>3. Result(c).coin = c
    BY ResultOf
  <2> QED
    BY <1>2, <2>2, <2>3
<1>7. \A r \in written : \A e \in r.evidence :
        "contribution" \in DOMAIN e /\ e.contribution \in Nat
  <2> SUFFICES ASSUME NEW r \in written, NEW e \in r.evidence
               PROVE  "contribution" \in DOMAIN e /\ e.contribution \in Nat
    OBVIOUS
  <2>1. PICK c \in coins : r = Result(c)
    OBVIOUS
  <2> QED
    BY <1>2, <2>1, ResultHasPoints
<1>8. IsFiniteSet(kept \cup new)
  BY <1>4, <1>5, FS_Union
<1> HIDE DEF written, kept, new
<1>9. \A s \in snapshots' : s.coin \in Coins
  BY <1>1, <1>3, <1>6
<1>10. \A d \in EvidenceRows(written) : d.contribution \in Nat
  BY <1>7, EvidenceOfRun
<1>11. \A e \in evidence' : e.contribution \in Nat
  BY <1>1, <1>10 DEF WithEvidence, Counted
<1> QED
  BY <1>1, <1>8, <1>9, <1>11 DEF Counted

LEMMA CountedFirst == Init => Counted
BY FS_EmptySet DEF Init, Counted

LEMMA CountedStays == Received /\ Counted /\ [Next]_scoreVars => Counted'
<1> SUFFICES ASSUME Received, Counted, [Next]_scoreVars PROVE Counted'
  OBVIOUS
<1>1. ASSUME UNCHANGED <<snapshots, evidence>> PROVE Counted'
  BY <1>1 DEF Counted
<1>2. CASE Tick
  BY <1>1, <1>2 DEF Tick
<1>3. CASE SetBack
  BY <1>1, <1>3 DEF SetBack
<1>4. CASE \E v \in Versions : Restart(v)
  BY <1>1, <1>4 DEF Restart
<1>5. CASE \E alert \in Alerts : Receive(alert)
  BY <1>1, <1>5 DEF Receive
<1>6. CASE \E coins \in SUBSET ScoredCoins \ {{}} : Run(coins)
  BY <1>6, RunKeepsCounted
<1>7. CASE UNCHANGED scoreVars
  BY <1>1, <1>7 DEF scoreVars
<1> QED
  BY <1>2, <1>3, <1>4, <1>5, <1>6, <1>7 DEF Next

(* Labels come and go beside the tables of the scores. *)
LEMMA LabelsAreBeside ==
  [BacktestNext]_<<scoreVars, labels, labelled>> => [Next]_scoreVars
BY DEF BacktestNext, Label, scoreVars, boundVars

-----------------------------------------------------------------------------
(* Samples *)

LEMMA BacktestQueryIs ==
  ASSUME NEW q \in BacktestQueries
  PROVE  /\ DOMAIN q = {"version", "horizons", "side", "from", "to", "minConfidence",
                        "minAbsScore", "exchange", "market", "minSamples", "ruleSide",
                        "ruleKey", "minContribution"}
         /\ q.horizons = Horizons /\ q.side \in {"bull", "bear", "net"}
         /\ q.minAbsScore = 0 /\ q.minSamples = 1
         /\ q.ruleSide = None /\ q.ruleKey = None /\ q.minContribution = 0
<1>1. /\ DOMAIN AnyBacktest = {"version", "horizons", "side", "from", "to", "minConfidence",
                              "minAbsScore", "exchange", "market", "minSamples", "ruleSide",
                              "ruleKey", "minContribution"}
      /\ AnyBacktest.horizons = Horizons /\ AnyBacktest.side = "net"
      /\ AnyBacktest.minAbsScore = 0 /\ AnyBacktest.minSamples = 1
      /\ AnyBacktest.ruleSide = None /\ AnyBacktest.ruleKey = None
      /\ AnyBacktest.minContribution = 0
  BY DEF AnyBacktest
<1>2. \A v, side, from : DOMAIN BacktestOf(v, side, from) = DOMAIN AnyBacktest
  BY DEF BacktestOf
<1>3. ASSUME NEW v, NEW side, NEW from, NEW r, r = BacktestOf(v, side, from)
      PROVE  /\ r.horizons = Horizons /\ r.side = side
             /\ r.minAbsScore = 0 /\ r.minSamples = 1
             /\ r.ruleSide = None /\ r.ruleKey = None /\ r.minContribution = 0
  BY <1>1, <1>3 DEF BacktestOf
<1>4. PICK v, side, from : side \in {"bull", "bear", "net"} /\ q = BacktestOf(v, side, from)
  BY DEF BacktestQueries
<1> QED
  BY <1>1, <1>2, <1>3, <1>4

LEMMA SampleIs ==
  ASSUME NEW s, NEW h, NEW d
  PROVE  Sample(s, h, d).snapshot = s /\ Sample(s, h, d).horizon = h
BY DEF Sample

LEMMA SampleIsReady ==
  ASSUME NEW s, NEW h, NEW d, NEW c
  PROVE  Sample(s, h, d).status = Sample(s, h, c).status
BY DEF Sample

(* The snapshots a backtest counts, each once for every horizon. *)
Counts(s, q) == s \in SnapshotsFor(q) /\ HasEvidenceOn(s, q, Sides(q.side))

LEMMA SamplesAre ==
  ASSUME NEW q, NEW h \in q.horizons, NEW all, all = At(Samples(q), h)
  PROVE  /\ \A x \in all : Counts(x.snapshot, q) /\ x = Sample(x.snapshot, h, Direction(x.snapshot, q.side))
         /\ \A s : Counts(s, q) => Sample(s, h, Direction(s, q.side)) \in all
<1> DEFINE counted == {s \in SnapshotsFor(q) : HasEvidenceOn(s, q, Sides(q.side))}
           sample(s, g) == Sample(s, g, Direction(s, q.side))
<1>1. Samples(q) = {sample(s, g) : s \in counted, g \in q.horizons}
  BY DEF Samples
<1>2. \A s : s \in counted <=> Counts(s, q)
  BY DEF Counts
<1>3. \A s, g : sample(s, g).snapshot = s /\ sample(s, g).horizon = g
  BY SampleIs
<1> HIDE DEF counted, sample
<1>4. ASSUME NEW x \in all PROVE Counts(x.snapshot, q) /\ x = sample(x.snapshot, h)
  BY <1>1, <1>2, <1>3 DEF At
<1>5. \A s : Counts(s, q) => sample(s, h) \in all
  BY <1>1, <1>2, <1>3 DEF At
<1> QED
  BY <1>4, <1>5 DEF sample

LEMMA SamplesAreFinite ==
  ASSUME Counted, NEW q, NEW h \in q.horizons
  PROVE  IsFiniteSet(At(Samples(q), h))
<1> DEFINE all == At(Samples(q), h)
           f == [s \in snapshots |-> Sample(s, h, Direction(s, q.side))]
<1>1. ASSUME NEW x \in all PROVE x \in {f[s] : s \in snapshots}
  <2>1. Counts(x.snapshot, q) /\ x = Sample(x.snapshot, h, Direction(x.snapshot, q.side))
    BY SamplesAre
  <2>2. x.snapshot \in snapshots
    BY <2>1 DEF Counts, SnapshotsFor
  <2> QED
    BY <2>1, <2>2
<1> HIDE DEF f
<1>2. IsFiniteSet({f[s] : s \in snapshots})
  BY FiniteImage DEF Counted
<1> QED
  BY <1>1, <1>2, FS_Subset

LEMMA ReadyPart ==
  ASSUME NEW X, IsFiniteSet(X)
  PROVE  /\ Ready(X) \subseteq X /\ IsFiniteSet(Ready(X))
         /\ Metrics(X).total = Cardinality(X) /\ Metrics(X).total \in Nat
         /\ Metrics(X).samples = Cardinality(Ready(X)) /\ Metrics(X).samples \in Nat
<1>1. Ready(X) \subseteq X
  BY DEF Ready
<1>2. IsFiniteSet(Ready(X))
  BY <1>1, FS_Subset
<1>3. Cardinality(X) \in Nat /\ Cardinality(Ready(X)) \in Nat
  BY <1>2, FS_CardinalityType
<1>4. Metrics(X).total = Cardinality(X) /\ Metrics(X).samples = Cardinality(Ready(X))
  BY DEF Metrics
<1> QED
  BY <1>1, <1>2, <1>3, <1>4

(* Every sample is in the one bucket of its value. *)
LEMMA BucketsAddUp ==
  ASSUME NEW value, IsFiniteSet(DOMAIN value), NEW size
  PROVE  SumOver(Buckets(value, size, 1)) = Metrics(DOMAIN value).samples
<1> DEFINE all == DOMAIN value
           start(s) == BucketStart(value[s], size)
           in(k) == {s \in all : start(s) = k}
           starts == {k \in {start(s) : s \in all} : Metrics(in(k)).samples >= 1}
           bucket(k) == [start |-> k, end |-> k + size, metrics |-> Metrics(in(k))]
           buckets == Buckets(value, size, 1)
           part == [b \in buckets |-> Ready(in(b.start))]
<1>1. buckets = {bucket(k) : k \in starts}
  BY DEF Buckets
<1>2. \A k : bucket(k).start = k /\ bucket(k).metrics = Metrics(in(k))
  OBVIOUS
<1>3. ASSUME NEW k
      PROVE  /\ IsFiniteSet(in(k)) /\ IsFiniteSet(Ready(in(k)))
             /\ Metrics(in(k)).samples = Cardinality(Ready(in(k)))
             /\ Cardinality(Ready(in(k))) \in Nat
  <2>1. IsFiniteSet(in(k))
    BY FS_Subset
  <2> HIDE DEF in
  <2> QED
    BY <2>1, ReadyPart
<1>4. IsFiniteSet(buckets)
  <2> DEFINE f == [s \in all |-> bucket(start(s))]
  <2>1. buckets \subseteq {f[s] : s \in all}
    BY <1>1
  <2> HIDE DEF f, buckets
  <2>2. IsFiniteSet({f[s] : s \in all})
    BY FiniteImage
  <2> QED
    BY <2>1, <2>2, FS_Subset
<1> HIDE DEF bucket
<1>5. \A b \in buckets : b = bucket(b.start) /\ b.start \in starts
  BY <1>1, <1>2
<1>6. /\ DOMAIN part = buckets
      /\ \A b \in buckets : IsFiniteSet(part[b]) /\ b.metrics.samples = Cardinality(part[b])
  <2> SUFFICES ASSUME NEW b \in buckets
               PROVE  IsFiniteSet(part[b]) /\ b.metrics.samples = Cardinality(part[b])
    OBVIOUS
  <2> DEFINE k == b.start
  <2>1. b.metrics = Metrics(in(k))
    BY <1>2, <1>5
  <2>2. part[b] = Ready(in(k))
    OBVIOUS
  <2> HIDE DEF k, in, part
  <2> QED
    BY <1>3, <2>1, <2>2
<1>7. \A b, c \in buckets : b # c => part[b] \cap part[c] = {}
  BY <1>5 DEF Ready
<1>8. UNION {part[b] : b \in buckets} = Ready(all)
  <2>1. \A b \in buckets : part[b] \subseteq Ready(all)
    BY DEF Ready
  <2>2. ASSUME NEW s \in Ready(all) PROVE \E b \in buckets : s \in part[b]
    <3> DEFINE k == start(s)
    <3>1. s \in all /\ s \in in(k) /\ s \in Ready(in(k))
      BY DEF Ready
    <3>2. Cardinality(Ready(in(k))) # 0
      BY <1>3, <3>1, FS_EmptySet
    <3>3. k \in starts
      <4>1. Metrics(in(k)).samples >= 1
        <5> DEFINE n == Metrics(in(k)).samples
        <5>1. n \in Nat /\ n # 0
          BY <1>3, <3>2
        <5> HIDE DEF n
        <5>2. n >= 1
          BY <5>1
        <5> QED
          BY <5>2 DEF n
      <4>2. k \in {start(x) : x \in all}
        BY <3>1
      <4> HIDE DEF in, start, k
      <4> QED
        BY <4>1, <4>2
    <3> HIDE DEF k, starts
    <3>4. bucket(k) \in buckets /\ bucket(k).start = k
      BY <1>1, <1>2, <3>3
    <3> QED
      BY <3>1, <3>4
  <2> HIDE DEF part, buckets
  <2> QED
    BY <2>1, <2>2
<1> HIDE DEF part, buckets
<1>9. SumOf([b \in DOMAIN part |-> Cardinality(part[b])]) = Cardinality(UNION {part[b] : b \in DOMAIN part})
  BY <1>4, <1>6, <1>7, SumOfSizes
<1>10. [b \in buckets |-> b.metrics.samples] = [b \in DOMAIN part |-> Cardinality(part[b])]
  BY <1>6
<1>11. Metrics(all).samples = Cardinality(Ready(all))
  BY ReadyPart
<1> QED
  BY <1>6, <1>8, <1>9, <1>10, <1>11 DEF SumOver, buckets

(* Two backtests of the same snapshots, but for the score and the horizons. *)
SameQuery(p, q) ==
  /\ p.version = q.version /\ p.side = q.side /\ p.from = q.from /\ p.to = q.to
  /\ p.minConfidence = q.minConfidence /\ p.exchange = q.exchange /\ p.market = q.market

LEMMA SameEvidence ==
  ASSUME NEW p, NEW q, SameQuery(p, q), NEW s
  PROVE  JoinedEvidence(s, p) = JoinedEvidence(s, q)
<1>1. \A e : ConcernsBacktest(e, p) <=> ConcernsBacktest(e, q)
  BY DEF ConcernsBacktest, Concerns, SameQuery
<1> QED
  BY <1>1 DEF JoinedEvidence

(* The precision at a threshold and the backtest of such scores only have  *)
(* the same samples.                                                       *)
LEMMA SamplesAbove ==
  ASSUME NEW q, NEW h \in q.horizons, q.minAbsScore = 0, NEW t \in Nat, t > 0,
         NEW above, SameQuery(above, q), above.horizons = q.horizons, above.minAbsScore = t
  PROVE  Ready(At(Samples(above), h))
           = {x \in Ready(At(Samples(q), h)) : ScoreValue(x.snapshot, q.side) >= t}
<1>1. /\ above.version = q.version /\ above.side = q.side
      /\ above.from = q.from /\ above.to = q.to /\ above.minConfidence = q.minConfidence
  BY DEF SameQuery
<1>2. \A s : JoinedEvidence(s, above) = JoinedEvidence(s, q)
  BY SameEvidence
<1>3. \A s : Counts(s, above) <=> Counts(s, q) /\ ScoreValue(s, q.side) >= t
  <2>1. \A s : s \in SnapshotsFor(above) <=> s \in SnapshotsFor(q) /\ ScoreValue(s, q.side) >= t
    BY <1>1 DEF SnapshotsFor
  <2>2. \A s, sides : HasEvidenceOn(s, above, sides) <=> HasEvidenceOn(s, q, sides)
    BY <1>2 DEF HasEvidenceOn
  <2> QED
    BY <1>1, <2>1, <2>2 DEF Counts
<1> DEFINE all == At(Samples(q), h)
           high == At(Samples(above), h)
           sample(s) == Sample(s, h, Direction(s, q.side))
<1>4. /\ \A x \in all : Counts(x.snapshot, q) /\ x = sample(x.snapshot)
      /\ \A s : Counts(s, q) => sample(s) \in all
  BY SamplesAre
<1>5. /\ \A x \in high : Counts(x.snapshot, above) /\ x = sample(x.snapshot)
      /\ \A s : Counts(s, above) => sample(s) \in high
  <2> DEFINE facing(s) == Sample(s, h, Direction(s, above.side))
  <2>1. /\ \A x \in high : Counts(x.snapshot, above) /\ x = facing(x.snapshot)
        /\ \A s : Counts(s, above) => facing(s) \in high
    BY SamplesAre
  <2>2. \A s : facing(s) = sample(s)
    BY <1>1
  <2> HIDE DEF facing, sample, high
  <2> QED
    BY <2>1, <2>2
<1> HIDE DEF all, high, sample
<1>6. \A x : x \in high <=> x \in all /\ ScoreValue(x.snapshot, q.side) >= t
  BY <1>3, <1>4, <1>5
<1> QED
  BY <1>6 DEF Ready, all, high

LEMMA SameMetrics ==
  ASSUME NEW X, NEW Y, Ready(X) = Ready(Y)
  PROVE  Metrics(X).samples = Metrics(Y).samples /\ Metrics(X).wins = Metrics(Y).wins
BY DEF Metrics

LEMMA PrecisionIsSummary ==
  ASSUME NEW q, NEW h \in q.horizons, q.minAbsScore = 0, NEW t \in Nat, t > 0,
         NEW above, SameQuery(above, q), above.horizons = q.horizons, above.minAbsScore = t
  PROVE  /\ Precision(q, h, t).samples = BacktestSummary(above, h).samples
         /\ Precision(q, h, t).wins = BacktestSummary(above, h).wins
<1> DEFINE high == At(Samples(above), h)
           precise == {s \in Ready(At(Samples(q), h)) : ScoreValue(s.snapshot, q.side) >= t}
<1>1. Ready(high) = precise
  BY SamplesAbove
<1>2. Ready(precise) = precise
  BY DEF Ready
<1>3. Precision(q, h, t).samples = Metrics(precise).samples
      /\ Precision(q, h, t).wins = Metrics(precise).wins
  BY DEF Precision
<1> HIDE DEF high, precise
<1> QED
  BY <1>1, <1>2, <1>3, SameMetrics DEF BacktestSummary, high

(* The separation counts the same snapshots, whatever their direction.     *)
LEMMA PrecisionIsSeparate ==
  ASSUME Counted, NEW q \in BacktestQueries, NEW h \in Horizons, NEW t \in Nat,
         NEW base, base = {Sample(s, h, 1) : s \in {s \in SnapshotsFor(q) :
                                                     HasEvidenceOn(s, q, {"bull", "bear", "risk"})}},
         NEW strong, \A x : x \in strong <=> x \in base /\ ScoreValue(x.snapshot, q.side) >= t
  PROVE  Precision(q, h, t).samples <= Metrics(strong).samples
<1> DEFINE all == At(Samples(q), h)
           precise == {s \in Ready(all) : ScoreValue(s.snapshot, q.side) >= t}
           to == [x \in precise |-> Sample(x.snapshot, h, 1)]
           image == {to[x] : x \in precise}
<1>1. q.horizons = Horizons /\ q.side \in {"bull", "bear", "net"}
  BY BacktestQueryIs
<1>2. /\ IsFiniteSet(all)
      /\ \A x \in all : Counts(x.snapshot, q) /\ x = Sample(x.snapshot, h, Direction(x.snapshot, q.side))
  BY <1>1, SamplesAre, SamplesAreFinite
<1>3. Sides(q.side) \subseteq {"bull", "bear", "risk"}
  BY <1>1 DEF Sides
<1>4. IsFiniteSet(strong)
  <2> DEFINE f == [s \in snapshots |-> Sample(s, h, 1)]
  <2>1. strong \subseteq {f[s] : s \in snapshots}
    BY DEF SnapshotsFor
  <2> HIDE DEF f
  <2>2. IsFiniteSet({f[s] : s \in snapshots})
    BY FiniteImage DEF Counted
  <2> QED
    BY <2>1, <2>2, FS_Subset
<1>5. ASSUME NEW x \in all
      PROVE  Sample(x.snapshot, h, 1) \in base
  <2>1. /\ x.snapshot \in SnapshotsFor(q)
        /\ HasEvidenceOn(x.snapshot, q, {"bull", "bear", "risk"})
    BY <1>2, <1>3 DEF Counts, HasEvidenceOn
  <2> QED
    BY <2>1
<1>6. Precision(q, h, t).samples = Cardinality(precise) /\ IsFiniteSet(precise) /\ precise \subseteq all
  <2>1. precise \subseteq all /\ Ready(precise) = precise
    BY DEF Ready
  <2>2. Precision(q, h, t).samples = Metrics(precise).samples
    BY DEF Precision
  <2> HIDE DEF all, precise
  <2> QED
    BY <1>2, <2>1, <2>2, FS_Subset DEF Metrics
<1>7. ASSUME NEW x \in precise PROVE to[x] \in Ready(strong) /\ to[x].snapshot = x.snapshot
  <2>1. x \in all /\ x.status = "ready" /\ ScoreValue(x.snapshot, q.side) >= t
    BY DEF Ready
  <2>2. to[x] = Sample(x.snapshot, h, 1)
    OBVIOUS
  <2>3. to[x].snapshot = x.snapshot
    BY <2>2, SampleIs
  <2>4. to[x].status = "ready"
    BY <1>2, <2>1, <2>2, SampleIsReady
  <2>5. to[x] \in strong
    BY <1>5, <2>1, <2>2, <2>3
  <2> QED
    BY <2>3, <2>4, <2>5 DEF Ready
<1> HIDE DEF to
<1>8. ASSUME NEW x \in precise, NEW y \in precise, to[x] = to[y] PROVE x = y
  <2>1. x.snapshot = y.snapshot
    BY <1>7, <1>8
  <2> QED
    BY <1>2, <1>6, <2>1
<1> HIDE DEF precise
<1>9. Cardinality(image) = Cardinality(precise)
  <2>1. \A y \in image : \E x \in precise : y = to[x]
    OBVIOUS
  <2>2. \A x \in precise : to[x] \in image
    OBVIOUS
  <2> HIDE DEF image
  <2> QED
    BY <1>6, <1>8, <2>1, <2>2, SameSize
<1>10. image \subseteq Ready(strong)
  BY <1>7
<1> HIDE DEF image
<1>11. IsFiniteSet(Ready(strong)) /\ Metrics(strong).samples = Cardinality(Ready(strong))
  BY <1>4, ReadyPart
<1>12. Cardinality(image) <= Cardinality(Ready(strong))
  BY <1>10, <1>11, FS_Subset
<1> QED
  BY <1>6, <1>9, <1>11, <1>12

LEMMA SeparationIs ==
  ASSUME Counted, NEW q \in BacktestQueries, NEW h \in Horizons, NEW t \in Nat
  PROVE  /\ q.side = "bull" => Precision(q, h, t).samples <= Separation(q, h, t).bull.samples
         /\ q.side = "bear" => Precision(q, h, t).samples <= Separation(q, h, t).bear.samples
<1> DEFINE base == {Sample(s, h, 1) : s \in {s \in SnapshotsFor(q) :
                                               HasEvidenceOn(s, q, {"bull", "bear", "risk"})}}
           bull == {x \in base : x.snapshot.bull >= t}
           bear == {x \in base : x.snapshot.bear >= t}
<1>1. Separation(q, h, t).bull = Metrics(bull) /\ Separation(q, h, t).bear = Metrics(bear)
  BY DEF Separation
<1>2. ASSUME q.side = "bull" PROVE Precision(q, h, t).samples <= Metrics(bull).samples
  <2>1. \A x : x \in bull <=> x \in base /\ ScoreValue(x.snapshot, q.side) >= t
    BY <1>2 DEF ScoreValue
  <2> HIDE DEF bull
  <2> QED
    BY <2>1, PrecisionIsSeparate
<1>3. ASSUME q.side = "bear" PROVE Precision(q, h, t).samples <= Metrics(bear).samples
  <2>1. \A x : x \in bear <=> x \in base /\ ScoreValue(x.snapshot, q.side) >= t
    BY <1>3 DEF ScoreValue
  <2> HIDE DEF bear
  <2> QED
    BY <2>1, PrecisionIsSeparate
<1> QED
  BY <1>1, <1>2, <1>3

(* The rules are credited with the snapshots of the summary.               *)
LEMMA RulesCover ==
  ASSUME Counted, NEW q \in BacktestQueries, NEW h \in Horizons
  PROVE  RulesAreCredited(q, h)
<1> DEFINE all == At(Samples(q), h)
           direction(e) == IF e.side = "bull" THEN 1 ELSE -1
           own(e) == [rule |-> e.rule, side |-> e.side, evidence |-> RowKey(e)]
           credit(s, e) == With(own(e), Sample(s, h, direction(e)))
           credits == RuleSamples(q, h)
<1>1. q.horizons = Horizons /\ q.ruleSide = None /\ q.ruleKey = None /\ q.minContribution = 0
  BY BacktestQueryIs
<1>2. /\ \A x \in all : Counts(x.snapshot, q) /\ x = Sample(x.snapshot, h, Direction(x.snapshot, q.side))
      /\ \A s : Counts(s, q) => Sample(s, h, Direction(s, q.side)) \in all
  BY <1>1, SamplesAre
<1>3. \A s : s \in {x.snapshot : x \in all} <=> Counts(s, q)
  BY <1>2, SampleIs
<1>4. \A s, e : credit(s, e).snapshot = s /\ credit(s, e).side = e.side
  <2>1. \A s, d : "snapshot" \in DOMAIN Sample(s, h, d)
    BY DEF Sample
  <2> QED
    BY <2>1, SampleIs DEF With
<1>5. \A s, e : s \in SnapshotsFor(q) /\ e \in JoinedEvidence(s, q) => credit(s, e) \in credits
  <2> SUFFICES ASSUME NEW s \in SnapshotsFor(q), NEW e \in JoinedEvidence(s, q)
               PROVE  credit(s, e) \in credits
    OBVIOUS
  <2>1. e \in evidence /\ e.contribution >= 0
    BY DEF JoinedEvidence, EvidenceOf, Counted
  <2> DEFINE p == <<s, e>>
  <2>2. p[1] = s /\ p[2] = e /\ p \in SnapshotsFor(q) \X evidence
    BY <2>1
  <2> HIDE DEF p
  <2>3. credit(p[1], p[2]) \in credits
    BY <1>1, <2>1, <2>2 DEF RuleSamples
  <2> QED
    BY <2>2, <2>3
<1>6. \A r \in credits : \E s \in SnapshotsFor(q) : \E e \in JoinedEvidence(s, q) : r = credit(s, e)
  BY DEF RuleSamples
<1> HIDE DEF credit, credits, all
<1>7. ASSUME NEW r \in credits, r.side \in Sides(q.side) PROVE Counts(r.snapshot, q)
  <2>1. PICK s \in SnapshotsFor(q) : \E e \in JoinedEvidence(s, q) : r = credit(s, e)
    BY <1>6
  <2> QED
    BY <1>4, <1>7, <2>1 DEF Counts, HasEvidenceOn
<1>8. ASSUME NEW s, Counts(s, q)
      PROVE  \E r \in credits : r.side \in Sides(q.side) /\ r.snapshot = s
  <2>1. PICK e \in JoinedEvidence(s, q) : e.side \in Sides(q.side)
    BY <1>8 DEF Counts, HasEvidenceOn
  <2>2. credit(s, e) \in credits
    BY <1>5, <1>8 DEF Counts
  <2> QED
    BY <1>4, <2>1, <2>2
<1> QED
  BY <1>3, <1>7, <1>8 DEF credits, all, RulesAreCredited

LEMMA SamplesOfOne ==
  ASSUME NEW q, NEW h \in q.horizons,
         NEW one, SameQuery(one, q), one.minAbsScore = q.minAbsScore, one.horizons = {h}
  PROVE  Samples(one) = At(Samples(q), h)
<1> DEFINE all == At(Samples(q), h)
           samples == Samples(one)
           listed == At(samples, h)
           sample(s) == Sample(s, h, Direction(s, q.side))
           facing(s) == Sample(s, h, Direction(s, one.side))
<1>1. \A s : Counts(s, one) <=> Counts(s, q)
  <2>1. \A s : JoinedEvidence(s, one) = JoinedEvidence(s, q)
    BY SameEvidence
  <2>2. \A s : s \in SnapshotsFor(one) <=> s \in SnapshotsFor(q)
    BY DEF SnapshotsFor, SameQuery
  <2> QED
    BY <2>1, <2>2 DEF Counts, HasEvidenceOn, SameQuery
<1>2. samples = listed
  <2>1. \A x \in samples : x.horizon = h
    BY SampleIs DEF Samples
  <2> HIDE DEF samples
  <2> QED
    BY <2>1 DEF At
<1>3. /\ \A x \in listed : Counts(x.snapshot, one) /\ x = facing(x.snapshot)
      /\ \A s : Counts(s, one) => facing(s) \in listed
  <2>1. h \in one.horizons
    OBVIOUS
  <2> QED
    BY <2>1, SamplesAre
<1>4. /\ \A x \in all : Counts(x.snapshot, q) /\ x = sample(x.snapshot)
      /\ \A s : Counts(s, q) => sample(s) \in all
  BY SamplesAre
<1>5. \A s : facing(s) = sample(s)
  BY DEF SameQuery
<1> HIDE DEF samples, all, listed, sample, facing
<1>6. samples \subseteq all
  BY <1>1, <1>2, <1>3, <1>4, <1>5
<1>7. all \subseteq samples
  BY <1>1, <1>2, <1>3, <1>4, <1>5
<1> QED
  BY <1>6, <1>7 DEF samples, all

(* Every sample has its place on a page of its coin. *)
LEMMA PagesCover ==
  ASSUME Counted, NEW q \in BacktestQueries, NEW h \in Horizons
  PROVE  PagesAreAll(q, h)
<1> DEFINE one == [q EXCEPT !.horizons = {h}]
           all == At(Samples(q), h)
           samples == Samples(one)
           n == BacktestSummary(q, h).total
           of(c) == {x \in samples : x.snapshot.coin = c}
           place(x, c) == Cardinality({d \in of(c) : Lower(CoinOrder(d), CoinOrder(x))})
           results(c, o) == CoinBacktest(one, c, o, 1).results
<1>1. /\ q.horizons = Horizons /\ one.horizons = {h}
      /\ SameQuery(one, q) /\ one.minAbsScore = q.minAbsScore
  BY BacktestQueryIs DEF SameQuery
<1> HIDE DEF one
<1>2. samples = all
  BY <1>1, SamplesOfOne
<1>3. IsFiniteSet(all) /\ \A x \in all : x.snapshot.coin \in Coins
  <2>1. \A x \in all : Counts(x.snapshot, q)
    BY <1>1, SamplesAre
  <2> QED
    BY <1>1, <2>1, SamplesAreFinite DEF Counts, SnapshotsFor, Counted
<1>4. n = Cardinality(all) /\ n \in Nat
  BY <1>3, ReadyPart DEF BacktestSummary
<1>5. \A c, o : results(c, o) = {x \in of(c) : place(x, c) \in o..(o + 1 - 1)}
  BY DEF CoinBacktest
<1> HIDE DEF samples, all, n, results
<1>6. \A c : of(c) \subseteq all
  BY <1>2
<1>7. ASSUME NEW c, NEW x \in of(c) PROVE place(x, c) \in 0..n
  <2> DEFINE below == {d \in of(c) : Lower(CoinOrder(d), CoinOrder(x))}
  <2>1. below \subseteq all
    BY <1>6
  <2> HIDE DEF below
  <2>2. IsFiniteSet(below) /\ Cardinality(below) <= n /\ Cardinality(below) \in Nat
    BY <1>3, <1>4, <2>1, FS_Subset, FS_CardinalityType
  <2> QED
    BY <1>4, <2>2 DEF below
<1>8. ASSUME NEW x \in all PROVE \E c \in Coins : \E o \in 0..n : x \in results(c, o)
  <2> DEFINE c == x.snapshot.coin
             o == place(x, c)
  <2>1. c \in Coins /\ x \in of(c)
    BY <1>2, <1>3
  <2>2. o \in 0..n
    BY <1>7, <2>1
  <2>3. results(c, o) = {y \in of(c) : place(y, c) \in o..(o + 1 - 1)}
    BY <1>5
  <2>4. o \in o..(o + 1 - 1)
    <3> HIDE DEF o
    <3> QED
      BY <1>4, <2>2
  <2>5. x \in results(c, o)
    BY <2>1, <2>3, <2>4
  <2> HIDE DEF c, o
  <2> QED
    BY <2>1, <2>2, <2>5
<1>9. \A c, o : results(c, o) \subseteq all
  BY <1>5, <1>6
<1> HIDE DEF place, of
<1> DEFINE pages(c) == UNION {results(c, o) : o \in 0..n}
<1>10. \A c, x : x \in pages(c) <=> \E o \in 0..n : x \in results(c, o)
  OBVIOUS
<1>11. \A c : PageResults(q, h, c) = pages(c)
  BY DEF PageResults, results, one, n
<1> HIDE DEF pages
<1>12. \A x : x \in UNION {PageResults(q, h, c) : c \in Coins} <=> x \in all
  BY <1>8, <1>9, <1>10, <1>11
<1>13. UNION {PageResults(q, h, c) : c \in Coins} = all
  BY <1>12
<1> QED
  BY <1>13 DEF PagesAreAll, all

LEMMA BucketsOfQuery ==
  ASSUME Counted, NEW q \in BacktestQueries, NEW h \in Horizons
  PROVE  EveryBucketAddsUp(q, h)
<1> DEFINE all == At(Samples(q), h)
           samples == BacktestSummary(q, h).samples
<1>1. IsFiniteSet(all) /\ q.minSamples = 1 /\ samples = Metrics(all).samples
  BY BacktestQueryIs, SamplesAreFinite DEF BacktestSummary
<1>2. SumOver(ScoreBuckets(q, h)) = samples
  <2> DEFINE value == [s \in all |-> ScoreValue(s.snapshot, q.side)]
  <2>1. DOMAIN value = all /\ ScoreBuckets(q, h) = Buckets(value, 20, 1)
    BY <1>1 DEF ScoreBuckets
  <2> HIDE DEF value, all, samples
  <2> QED
    BY <1>1, <2>1, BucketsAddUp
<1>3. SumOver(ConfidenceBuckets(q, h)) = samples
  <2> DEFINE value == [s \in all |-> s.snapshot.confidence]
  <2>1. DOMAIN value = all /\ ConfidenceBuckets(q, h) = Buckets(value, 25, 1)
    BY <1>1 DEF ConfidenceBuckets
  <2> HIDE DEF value, all, samples
  <2> QED
    BY <1>1, <2>1, BucketsAddUp
<1> QED
  BY <1>2, <1>3 DEF EveryBucketAddsUp

LEMMA PrecisionOfQuery ==
  ASSUME Counted, NEW q \in BacktestQueries, NEW h \in Horizons, NEW t \in {1428, 2500}
  PROVE  PrecisionAgrees(q, h, t)
<1>1. t \in Nat /\ t > 0
  OBVIOUS
<1> DEFINE above == [q EXCEPT !.minAbsScore = t]
<1>2. /\ Precision(q, h, t).samples = BacktestSummary(above, h).samples
      /\ Precision(q, h, t).wins = BacktestSummary(above, h).wins
  <2>1. /\ SameQuery(above, q) /\ above.horizons = q.horizons /\ above.minAbsScore = t
        /\ q.minAbsScore = 0 /\ h \in q.horizons
    BY BacktestQueryIs DEF SameQuery
  <2> HIDE DEF above
  <2> QED
    BY <1>1, <2>1, PrecisionIsSummary
<1>3. /\ q.side = "bull" => Precision(q, h, t).samples <= Separation(q, h, t).bull.samples
      /\ q.side = "bear" => Precision(q, h, t).samples <= Separation(q, h, t).bear.samples
  BY <1>1, SeparationIs
<1> HIDE DEF above
<1> QED
  BY <1>2, <1>3 DEF PrecisionAgrees, above

(* Buckets, precision, separation, rules and pages of a backtest are of    *)
(* the samples of its summary, whatever was labelled and relabelled while  *)
(* runs moved evidence from snapshot to snapshot.                          *)
THEOREM BacktestsAlwaysAgree == BacktestSpec => []BacktestsAgree
<1>1. BacktestInit => Received /\ Counted
  BY ReceivedFirst, CountedFirst DEF BacktestInit
<1>2. Received /\ Counted /\ [BacktestNext]_<<scoreVars, labels, labelled>> => (Received /\ Counted)'
  BY LabelsAreBeside, ReceivedStays, CountedStays
<1>3. Received /\ Counted => BacktestsAgree
  BY BucketsOfQuery, PrecisionOfQuery, RulesCover, PagesCover DEF BacktestsAgree
<1> QED
  BY <1>1, <1>2, <1>3, PTL DEF BacktestSpec
=============================================================================
