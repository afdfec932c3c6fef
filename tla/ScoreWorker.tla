----------------------------- MODULE ScoreWorker -----------------------------
(***************************************************************************)
(* The score worker (apps/server/src/scoring/scoreWorker.ts) and the part  *)
(* of scoreRepository.ts it writes through.  Durable ingestion stores      *)
(* events one by one and then hands each to enqueueEvents(); a run takes   *)
(* the queued coins, or else the coins seen last, reads their events and   *)
(* writes one row per coin.                                                *)
(*                                                                         *)
(* A row is kept as what the score was computed from: ts, the asOf of the  *)
(* run, and seen, how many events were stored when it read.  One window    *)
(* stands for all of config.windows, Horizon for the largest maxAgeMinutes *)
(* of them.  The score arithmetic, the snapshots and the counters of the   *)
(* status are left out.  The insertion order of pendingCoins is left open. *)
(***************************************************************************)
EXTENDS Integers, FiniteSets, Sequences, FiniteSetsExt

CONSTANTS
  Coins,
  BatchCoins,     \* options.batchCoins
  MaxQueueDepth,  \* options.maxQueueDepth
  Window,         \* how long an event counts
  Horizon,        \* how far back a run looks for coins
  EventCoins,     \* bound of the model: the sets of coins an event names
  MaxEvents,      \* bound of the model: events received
  MaxClock,       \* bound of the model: the clock stops here
  MaxFailures     \* bound of the model: runs that fail

ASSUME ScoreWorkerAssumption ==
  /\ {BatchCoins, MaxQueueDepth} \subseteq Nat \ {0}
  /\ {Window, Horizon, MaxEvents, MaxClock, MaxFailures} \subseteq Nat
  /\ Window <= Horizon
  /\ IsFiniteSet(Coins)
  /\ EventCoins \subseteq SUBSET Coins

VARIABLES
  clock,
  events,     \* every event received: its coins, and received_at
  stored,     \* events in the database, a prefix of events
  announced,  \* events handed to enqueueEvents(), a prefix of the stored ones
  rows,       \* coin_score_current
  pendingCoins, debounceTimer, timer,
  run,        \* the run of recomputeNow() under way
  failures,   \* bound of the model
  excused,    \* history: coins the worker dropped or read too early
  recalled    \* history: events were enqueued after stop()

databaseVars == <<events, stored, announced>>
queueVars == <<pendingCoins, debounceTimer>>
vars == <<clock, databaseVars, rows, queueVars, timer, run, failures, excused, recalled>>

NoRow == [ts |-> -1, seen |-> 0]
Idle == [phase |-> "idle", asOf |-> 0, coins |-> {}, seen |-> 0]
Phases == {"idle", "config", "candidates", "source", "write"}

Init ==
  /\ clock = 0
  /\ events = <<>>
  /\ stored = 0
  /\ announced = 0
  /\ rows = [c \in Coins |-> NoRow]
  /\ pendingCoins = {}
  /\ debounceTimer = FALSE
  /\ timer = TRUE
  /\ run = Idle
  /\ failures = 0
  /\ excused = {}
  /\ recalled = FALSE

-----------------------------------------------------------------------------
(* Events arrive and are stored *)

Tick ==
  /\ clock < MaxClock
  /\ clock' = clock + 1
  /\ UNCHANGED <<databaseVars, rows, queueVars, timer, run, failures, excused, recalled>>

Receive(coins) ==
  /\ Len(events) < MaxEvents
  /\ events' = Append(events, [coins |-> coins, at |-> clock])
  /\ UNCHANGED <<clock, stored, announced, rows, queueVars, timer, run, failures, excused,
                 recalled>>

(* One write at a time: the next event is stored after onWritten. *)
Commit ==
  /\ stored = announced
  /\ stored < Len(events)
  /\ stored' = stored + 1
  /\ UNCHANGED <<clock, events, announced, rows, queueVars, timer, run, failures, excused,
                 recalled>>

Smaller(m, n) == IF m < n THEN m ELSE n

(* enqueueEvents(): a full queue still accepts the coins it already holds. *)
Fill(coins, room) ==
  LET new == coins \ pendingCoins
  IN {pendingCoins \cup entering : entering \in kSubset(Smaller(Cardinality(new), room), new)}

EnqueuedBetweenRuns(coins) ==
  IF run.phase = "idle" THEN Fill(coins, MaxQueueDepth - Cardinality(pendingCoins))
  ELSE {pendingCoins}
Enqueued(coins) == Fill(coins, MaxQueueDepth - Cardinality(pendingCoins))

Written ==
  LET coins == events[stored].coins IN
  /\ announced < stored
  /\ announced' = stored
  /\ \E after \in Enqueued(coins) :
       /\ pendingCoins' = after
       /\ debounceTimer' = (debounceTimer \/ coins \cap after # {})
       /\ excused' = (excused \ coins) \cup
            {c \in coins \ after : Cardinality(after) >= MaxQueueDepth}
       /\ recalled' = (recalled \/ (~timer /\ coins \cap after # {}))
  /\ UNCHANGED <<clock, events, stored, rows, timer, run, failures>>

-----------------------------------------------------------------------------
(* recomputeNow(): a run under way turns the next one away. *)

Recompute ==
  IF run.phase = "idle" THEN run' = [Idle EXCEPT !.phase = "config", !.asOf = clock]
  ELSE UNCHANGED run

IntervalFires ==
  /\ timer
  /\ run.phase = "idle"
  /\ Recompute
  /\ UNCHANGED <<clock, databaseVars, rows, queueVars, timer, failures, excused, recalled>>

DebounceFires ==
  /\ debounceTimer
  /\ debounceTimer' = FALSE
  /\ Recompute
  /\ UNCHANGED <<clock, databaseVars, rows, pendingCoins, timer, failures, excused, recalled>>

(* takePendingCoins() empties the queue, slice() keeps a batch of it. *)
Batches(coins) == kSubset(Smaller(BatchCoins, Cardinality(coins)), coins)

(* Of a taken coin, an event received after the run started is not read.   *)
TakenEarly(taken) ==
  {c \in taken : \E e \in 1..announced : c \in events[e].coins /\ events[e].at > run.asOf}

ConfigEnsured ==
  /\ run.phase = "config"
  /\ IF pendingCoins # {}
     THEN \E taken \in Batches(pendingCoins) :
            /\ run' = [run EXCEPT !.phase = "source", !.coins = taken]
            /\ pendingCoins' = {}
            /\ excused' = excused \cup (pendingCoins \ taken) \cup TakenEarly(taken)
     ELSE /\ run' = [run EXCEPT !.phase = "candidates"]
          /\ UNCHANGED <<pendingCoins, excused>>
  /\ UNCHANGED <<clock, databaseVars, rows, debounceTimer, timer, failures, recalled>>

(* getCandidateCoins(): the coins of the stored events, the latest first.  *)
ShortLookback(e) == events[e].at >= run.asOf - Window
InLookback(e) == events[e].at >= run.asOf - Horizon

LastSeen(c) == Max({events[e].at : e \in {e \in 1..stored : c \in events[e].coins}})
CandidateCoins == UNION {events[e].coins : e \in {e \in 1..stored : InLookback(e)}}
Latest(coins) == {s \in Batches(coins) : \A c \in s, d \in coins \ s : LastSeen(c) >= LastSeen(d)}

CandidatesRead ==
  /\ run.phase = "candidates"
  /\ \E coins \in Latest(CandidateCoins) :
       run' = IF coins = {} THEN Idle ELSE [run EXCEPT !.phase = "source", !.coins = coins]
  /\ UNCHANGED <<clock, databaseVars, rows, queueVars, timer, failures, excused, recalled>>

SourceRead ==
  /\ run.phase = "source"
  /\ run' = [run EXCEPT !.phase = "write", !.seen = stored]
  /\ UNCHANGED <<clock, databaseVars, rows, queueVars, timer, failures, excused, recalled>>

(* The commit of writeScores() ends the run; what follows only publishes   *)
(* it, and an answer lost after the commit changes no row.                 *)
UpsertedIfNewer(row, ts, seen) == IF ts > row.ts THEN [ts |-> ts, seen |-> seen] ELSE row
Upserted(row, ts, seen) == IF ts >= row.ts THEN [ts |-> ts, seen |-> seen] ELSE row

ScoresCommitted ==
  /\ run.phase = "write"
  /\ rows' = [c \in Coins |-> IF c \in run.coins THEN Upserted(rows[c], run.asOf, run.seen)
                              ELSE rows[c]]
  /\ run' = Idle
  /\ UNCHANGED <<clock, databaseVars, queueVars, timer, failures, excused, recalled>>

(* A failing run loses the coins it took. *)
RunFails ==
  /\ run.phase # "idle"
  /\ failures < MaxFailures
  /\ failures' = failures + 1
  /\ run' = Idle
  /\ excused' = excused \cup (run.coins \ pendingCoins)
  /\ UNCHANGED <<clock, databaseVars, rows, queueVars, timer, recalled>>

StopInterval == /\ timer' = FALSE
                /\ UNCHANGED debounceTimer
StopTimers == /\ timer' = FALSE
              /\ debounceTimer' = FALSE

Stop ==
  /\ timer
  /\ StopTimers
  /\ UNCHANGED <<clock, databaseVars, rows, pendingCoins, run, failures, excused, recalled>>

-----------------------------------------------------------------------------
RunSteps == ConfigEnsured \/ CandidatesRead \/ SourceRead \/ ScoresCommitted

Next ==
  \/ Tick \/ (\E coins \in EventCoins : Receive(coins)) \/ Commit \/ Written
  \/ IntervalFires \/ DebounceFires
  \/ ConfigEnsured \/ CandidatesRead \/ SourceRead \/ ScoresCommitted
  \/ RunFails
  \/ Stop

Spec == Init /\ [][Next]_vars

(* Both timers fire, statements are answered, and the events end as well   *)
(* as the failures (MaxEvents, MaxFailures).                               *)
FairSpec ==
  Spec /\ WF_vars(IntervalFires) /\ WF_vars(DebounceFires) /\ WF_vars(RunSteps) /\ WF_vars(Written)

-----------------------------------------------------------------------------
(* Properties *)

TypeOK ==
  /\ clock \in 0..MaxClock
  /\ events \in Seq([coins : SUBSET Coins, at : 0..MaxClock])
  /\ announced \in 0..stored
  /\ stored \in 0..Len(events)
  /\ rows \in [Coins -> [ts : {-1} \cup (0..MaxClock), seen : 0..MaxEvents]]
  /\ pendingCoins \subseteq Coins
  /\ Cardinality(pendingCoins) <= MaxQueueDepth
  /\ {debounceTimer, timer, recalled} \subseteq BOOLEAN
  /\ run \in [phase : Phases, asOf : 0..MaxClock, coins : SUBSET Coins, seen : 0..MaxEvents]
  /\ Cardinality(run.coins) <= BatchCoins
  /\ excused \subseteq Coins

(* What a row was computed from, and what it would be computed from now. *)
Scored(c, ts, seen) ==
  {e \in 1..seen : c \in events[e].coins /\ events[e].at \in (ts - Window)..ts}
Truth(c) == Scored(c, clock, stored)

Counts(row, e) == e <= row.seen /\ events[e].at <= row.ts
Behind(c) == \E e \in 1..announced : c \in events[e].coins /\ ~Counts(rows[c], e)

(* A coin whose row misses an announced event is queued or in the run, or  *)
(* the worker dropped it in one of the four ways the code has: the queue   *)
(* was full, the batch was cut, the run failed, or the run took it for an  *)
(* event received after its asOf.  No other order of events, timers and    *)
(* awaits forgets a coin.                                                  *)
NoCoinSlipsAway ==
  \A c \in Coins : Behind(c) =>
    \/ c \in pendingCoins \cup excused
    \/ run.phase \in {"source", "write"} /\ c \in run.coins

(* After stop() no run starts, unless the drain of durable ingestion still *)
(* enqueues events, which arms the debounce timer again.                   *)
StopIsQuiet ==
  [][run.phase = "idle" /\ run'.phase # "idle" => timer \/ recalled]_vars

(* The coins a run that finds nothing queued is sure to take. *)
Recent ==
  LET seen == UNION {events[e].coins : e \in 1..stored}
      live == {c \in seen : LastSeen(c) >= clock - Horizon}
  IN {c \in live : Cardinality({d \in live : LastSeen(d) >= LastSeen(c)}) <= BatchCoins}

(* Whatever was dropped, failed or read too early, and whatever aged out   *)
(* of the window since: once events and failures end, the row of every     *)
(* coin among the most recent ones is what its stored events give now.     *)
RecentCoinsAreScored ==
  <>[]timer =>
    \A c \in Coins : <>[](c \in Recent => Scored(c, rows[c].ts, rows[c].seen) = Truth(c))

=============================================================================
