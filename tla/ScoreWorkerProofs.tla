-------------------------- MODULE ScoreWorkerProofs --------------------------
(***************************************************************************)
(* Proofs about ScoreWorker for every set of coins, batch size, queue      *)
(* depth and window.                                                       *)
(***************************************************************************)
EXTENDS ScoreWorker, FiniteSetTheorems, TLAPS

Events == [coins : SUBSET Coins, at : 0..MaxClock]
Rows == [ts : {-1} \cup (0..MaxClock), seen : 0..MaxEvents]
Runs == [phase : Phases, asOf : 0..MaxClock, coins : SUBSET Coins, seen : 0..MaxEvents]

Types ==
  /\ clock \in 0..MaxClock
  /\ events \in Seq(Events) /\ Len(events) <= MaxEvents
  /\ stored \in 0..Len(events) /\ announced \in 0..stored /\ stored <= announced + 1
  /\ rows \in [Coins -> Rows]
  /\ pendingCoins \in SUBSET Coins /\ excused \in SUBSET Coins
  /\ debounceTimer \in BOOLEAN /\ timer \in BOOLEAN /\ recalled \in BOOLEAN
  /\ run \in Runs

QueueBounded == Cardinality(pendingCoins) <= MaxQueueDepth
BatchBounded == Cardinality(run.coins) <= BatchCoins

(* No row is from after the clock, nor from after the run that will write. *)
RowsArePast ==
  /\ run.asOf <= clock
  /\ \A c \in Coins : rows[c].ts <= clock
  /\ run.phase # "idle" => \A c \in Coins : rows[c].ts <= run.asOf

(* What a run is about to write covers the announced events of its coins,  *)
(* unless the coin was queued again or dropped since.                      *)
RunCovers ==
  run.phase \in {"source", "write"} =>
    \A c \in run.coins \ (pendingCoins \cup excused), e \in 1..announced :
      c \in events[e].coins =>
        events[e].at <= run.asOf /\ (run.phase = "write" => e <= run.seen)

(* After stop() only an enqueue can have armed the debounce timer. *)
TimersCleared == ~timer /\ ~recalled => ~debounceTimer

IInv ==
  /\ Types /\ QueueBounded /\ BatchBounded /\ RowsArePast
  /\ RunCovers /\ NoCoinSlipsAway /\ TimersCleared

-----------------------------------------------------------------------------
LEMMA SubsetsAreFinite ==
  ASSUME NEW S \in SUBSET Coins
  PROVE  IsFiniteSet(S) /\ Cardinality(S) \in Nat
BY ScoreWorkerAssumption, FS_Subset, FS_CardinalityType

LEMMA Constants ==
  /\ BatchCoins \in Nat /\ MaxQueueDepth \in Nat /\ MaxEvents \in Nat /\ MaxClock \in Nat
BY ScoreWorkerAssumption

(* What slice() keeps is no larger than a batch. *)
LEMMA BatchSize ==
  ASSUME NEW S \in SUBSET Coins, NEW taken \in Batches(S)
  PROVE  taken \in SUBSET S /\ Cardinality(taken) <= BatchCoins
BY Constants, SubsetsAreFinite DEF Batches, kSubset, Smaller

(* enqueueEvents() refuses a coin only when it leaves the queue full, and  *)
(* never lets the queue grow beyond its depth.                             *)
LEMMA EnqueuedFits ==
  ASSUME NEW coins \in SUBSET Coins, pendingCoins \in SUBSET Coins, QueueBounded,
         NEW after \in Enqueued(coins)
  PROVE  /\ pendingCoins \subseteq after /\ after \in SUBSET Coins
         /\ Cardinality(after) <= MaxQueueDepth
         /\ ~(coins \subseteq after) => Cardinality(after) >= MaxQueueDepth
<1> DEFINE new == coins \ pendingCoins
           room == MaxQueueDepth - Cardinality(pendingCoins)
<1>1. PICK entering \in SUBSET new :
        after = pendingCoins \cup entering /\ Cardinality(entering) = Smaller(Cardinality(new), room)
  BY DEF Enqueued, Fill, kSubset
<1>2. /\ IsFiniteSet(pendingCoins) /\ Cardinality(pendingCoins) \in Nat
      /\ IsFiniteSet(new) /\ Cardinality(new) \in Nat
      /\ IsFiniteSet(entering) /\ Cardinality(entering) \in Nat
  BY SubsetsAreFinite, <1>1
<1>3. Cardinality(after) = Cardinality(pendingCoins) + Cardinality(entering)
  <2>1. pendingCoins \cap entering = {}
    BY <1>1
  <2>2. Cardinality(pendingCoins \cap entering) = 0
    BY <2>1, FS_EmptySet
  <2>3. Cardinality(pendingCoins \cup entering) =
          Cardinality(pendingCoins) + Cardinality(entering) - Cardinality(pendingCoins \cap entering)
    BY <1>2, FS_Union
  <2> QED
    BY <1>1, <1>2, <2>2, <2>3
<1>4. Cardinality(pendingCoins) <= MaxQueueDepth /\ MaxQueueDepth \in Nat
  BY Constants DEF QueueBounded
<1>5. Cardinality(entering) <= room
  BY <1>1, <1>2, <1>4 DEF Smaller
<1>6. ASSUME ~(coins \subseteq after)
      PROVE  Cardinality(entering) = room
  <2>1. entering # new
    BY <1>1, <1>6
  <2>2. IsFiniteSet(new) /\ entering \in SUBSET new
    BY <1>2
  <2> HIDE DEF new
  <2>3. Cardinality(entering) # Cardinality(new)
    BY <2>1, <2>2, FS_Subset
  <2> QED
    BY <1>1, <2>3 DEF Smaller
<1>7. pendingCoins \subseteq after /\ after \in SUBSET Coins
  BY <1>1
<1> HIDE DEF new
<1> QED
  BY <1>2, <1>3, <1>4, <1>5, <1>6, <1>7

LEMMA EventAt ==
  ASSUME Types, NEW e \in 1..announced
  PROVE  /\ e \in 1..Len(events) /\ e \in Nat /\ events[e] \in Events
         /\ events[e].coins \in SUBSET Coins /\ events[e].at \in 0..MaxClock
<1>1. e \in 1..Len(events) /\ e \in Nat
  BY DEF Types
<1>2. events[e] \in Events
  BY <1>1 DEF Types
<1> QED
  BY <1>1, <1>2 DEF Events

-----------------------------------------------------------------------------
LEMMA InitIInv == Init => IInv
<1> SUFFICES ASSUME Init PROVE IInv
  OBVIOUS
<1> USE Constants DEF Init
<1>1. Types
  <2>1. rows \in [Coins -> Rows]
    BY DEF NoRow, Rows
  <2>2. run \in Runs
    BY DEF Idle, Runs, Phases
  <2>3. events \in Seq(Events) /\ Len(events) = 0
    BY DEF Events
  <2>4. clock \in 0..MaxClock /\ Len(events) <= MaxEvents
    BY <2>3
  <2>5. stored \in 0..Len(events) /\ announced \in 0..stored /\ stored <= announced + 1
    BY <2>3
  <2>6. /\ pendingCoins \in SUBSET Coins /\ excused \in SUBSET Coins
        /\ debounceTimer \in BOOLEAN /\ timer \in BOOLEAN /\ recalled \in BOOLEAN
    OBVIOUS
  <2> HIDE DEF Init
  <2> QED
    BY <2>1, <2>2, <2>3, <2>4, <2>5, <2>6 DEF Types
<1>2. QueueBounded /\ BatchBounded
  BY FS_EmptySet DEF QueueBounded, BatchBounded, Idle
<1>3. RowsArePast /\ RunCovers /\ TimersCleared
  BY DEF RowsArePast, RunCovers, TimersCleared, NoRow, Idle
<1>4. NoCoinSlipsAway
  BY DEF NoCoinSlipsAway, Behind
<1> QED
  BY <1>1, <1>2, <1>3, <1>4 DEF IInv

(* Steps outside the run: the rows, the run and the queue stay as they     *)
(* are, and no event is announced.                                         *)
LEMMA FrameKeeps ==
  ASSUME IInv, UNCHANGED <<rows, pendingCoins, run, excused, announced>>, Types',
         clock <= clock', \A e \in 1..announced : events'[e] = events[e],
         TimersCleared'
  PROVE  IInv'
<1> USE DEF IInv
<1>1. QueueBounded' /\ BatchBounded'
  BY DEF QueueBounded, BatchBounded
<1>2. RowsArePast'
  <2>1. /\ clock \in Int /\ clock' \in Int /\ run.asOf \in Int
        /\ \A c \in Coins : rows[c].ts \in Int
    BY Constants DEF Types, Runs, Rows
  <2> QED
    BY <2>1 DEF RowsArePast
<1>3. RunCovers' /\ NoCoinSlipsAway'
  BY DEF RunCovers, NoCoinSlipsAway, Behind, Counts
<1> QED
  BY <1>1, <1>2, <1>3

LEMMA TickKeeps ==
  ASSUME IInv, Tick
  PROVE  IInv'
<1> USE DEF IInv
<1>1. clock' \in 0..MaxClock /\ clock <= clock'
  BY Constants DEF Tick, Types
<1>2. UNCHANGED <<events, stored, announced, rows, pendingCoins, debounceTimer, timer, run, excused,
                  recalled>>
  BY DEF Tick, databaseVars, queueVars
<1>3. Types' /\ TimersCleared'
  BY <1>1, <1>2 DEF Types, TimersCleared
<1> QED
  BY <1>1, <1>2, <1>3, FrameKeeps

LEMMA ReceiveKeeps ==
  ASSUME IInv, NEW coins \in EventCoins, Receive(coins)
  PROVE  IInv'
<1> USE DEF IInv
<1> DEFINE event == [coins |-> coins, at |-> clock]
<1>1. UNCHANGED <<clock, stored, announced, rows, pendingCoins, debounceTimer, timer, run, excused,
                  recalled>>
  BY DEF Receive, queueVars
<1>2. event \in Events /\ events' = Append(events, event) /\ Len(events) < MaxEvents
      /\ events \in Seq(Events)
  BY ScoreWorkerAssumption DEF Receive, Types, Events
<1> HIDE DEF event
<1>3. /\ events' \in Seq(Events) /\ Len(events') = Len(events) + 1 /\ Len(events) \in Nat
      /\ \A e \in 1..Len(events) : events'[e] = events[e]
  BY <1>2
<1>4. Len(events') <= MaxEvents /\ stored' \in 0..Len(events')
  BY <1>1, <1>2, <1>3, Constants DEF Types
<1>5. Types' /\ TimersCleared'
  BY <1>1, <1>3, <1>4 DEF Types, TimersCleared
<1>6. clock <= clock' /\ \A e \in 1..announced : events'[e] = events[e]
  BY <1>1, <1>3, EventAt, Constants DEF Types
<1> QED
  BY <1>1, <1>5, <1>6, FrameKeeps

LEMMA CommitKeeps ==
  ASSUME IInv, Commit
  PROVE  IInv'
<1> USE DEF IInv
<1>1. UNCHANGED <<clock, events, announced, rows, pendingCoins, debounceTimer, timer, run, excused,
                  recalled>>
  BY DEF Commit, queueVars
<1>2. stored' \in 0..Len(events) /\ announced \in 0..stored' /\ stored' <= announced + 1
  BY DEF Commit, Types
<1>3. Types' /\ TimersCleared'
  BY <1>1, <1>2 DEF Types, TimersCleared
<1>4. clock <= clock'
  BY <1>1, Constants DEF Types
<1> QED
  BY <1>1, <1>3, <1>4, FrameKeeps

LEMMA StopKeeps ==
  ASSUME IInv, Stop
  PROVE  IInv'
<1> USE DEF IInv
<1>1. UNCHANGED <<clock, events, stored, announced, rows, pendingCoins, run, excused, recalled>>
      /\ timer' = FALSE /\ debounceTimer' = FALSE
  BY DEF Stop, StopTimers, databaseVars
<1>2. Types' /\ TimersCleared'
  BY <1>1 DEF Types, TimersCleared
<1>3. clock <= clock'
  BY <1>1, Constants DEF Types
<1> QED
  BY <1>1, <1>2, <1>3, FrameKeeps

(* enqueueEvents(): the coins of the event just announced are queued or    *)
(* refused, and nothing changes for the others.                            *)
LEMMA WrittenKeeps ==
  ASSUME IInv, Written
  PROVE  IInv'
<1> USE DEF IInv
<1> DEFINE coins == events[stored].coins
<1>1. /\ stored \in 1..Len(events) /\ announced < stored /\ announced' = stored
      /\ coins \in SUBSET Coins
  <2>1. stored \in 1..Len(events) /\ announced < stored /\ announced' = stored
    BY DEF Written, Types
  <2>2. events[stored] \in Events
    BY <2>1 DEF Types
  <2> QED
    BY <2>1, <2>2 DEF Events
<1>2. PICK after \in Enqueued(coins) :
        /\ pendingCoins' = after
        /\ debounceTimer' = (debounceTimer \/ coins \cap after # {})
        /\ excused' = (excused \ coins) \cup
             {c \in coins \ after : Cardinality(after) >= MaxQueueDepth}
        /\ recalled' = (recalled \/ (~timer /\ coins \cap after # {}))
  BY DEF Written
<1>3. UNCHANGED <<clock, events, stored, rows, timer, run>>
  BY DEF Written
<1>4. /\ pendingCoins \subseteq after /\ after \in SUBSET Coins
      /\ Cardinality(after) <= MaxQueueDepth
      /\ ~(coins \subseteq after) => Cardinality(after) >= MaxQueueDepth
  BY <1>1, <1>2, EnqueuedFits DEF Types
<1>5. Types'
  <2>1. pendingCoins' \in SUBSET Coins /\ excused' \in SUBSET Coins
    BY <1>1, <1>2, <1>4 DEF Types
  <2>2. announced' \in 0..stored /\ stored <= announced' + 1
    BY <1>1 DEF Types
  <2>3. debounceTimer' \in BOOLEAN /\ recalled' \in BOOLEAN
    BY <1>2 DEF Types
  <2> QED
    BY <1>3, <2>1, <2>2, <2>3 DEF Types
<1>6. QueueBounded' /\ BatchBounded' /\ RowsArePast'
  BY <1>2, <1>3, <1>4 DEF QueueBounded, BatchBounded, RowsArePast
<1>7. TimersCleared'
  BY <1>2, <1>3 DEF TimersCleared, Types
<1>8. coins \subseteq pendingCoins' \cup excused'
  BY <1>2, <1>4
<1>9. ASSUME NEW c, c \notin pendingCoins' \cup excused',
             NEW e \in 1..announced', c \in events[e].coins
      PROVE  c \notin pendingCoins \cup excused /\ e \in 1..announced
  <2>1. c \notin coins
    BY <1>8, <1>9
  <2>2. c \notin pendingCoins \cup excused
    BY <1>2, <1>4, <1>9, <2>1
  <2>3. e # stored
    BY <1>9, <2>1
  <2>4. e \in 1..announced
    BY <1>1, <1>9, <2>3 DEF Types
  <2> QED
    BY <2>2, <2>4
<1>10. RunCovers'
  BY <1>3, <1>9 DEF RunCovers
<1>11. NoCoinSlipsAway'
  BY <1>3, <1>9 DEF NoCoinSlipsAway, Behind, Counts
<1> QED
  BY <1>5, <1>6, <1>7, <1>10, <1>11

-----------------------------------------------------------------------------
(* The timers begin a run, or find one under way. *)
LEMMA RecomputeKeeps ==
  ASSUME IInv, IntervalFires \/ DebounceFires
  PROVE  IInv'
<1> USE DEF IInv
<1>1. UNCHANGED <<clock, events, stored, announced, rows, pendingCoins, timer, excused, recalled>>
      /\ debounceTimer' \in {debounceTimer, FALSE} /\ Recompute
  BY DEF IntervalFires, DebounceFires, databaseVars, queueVars
<1>2. TimersCleared'
  BY <1>1 DEF TimersCleared
<1>3. CASE UNCHANGED run
  <2>1. Types'
    BY <1>1, <1>3 DEF Types
  <2>2. clock <= clock'
    BY <1>1, Constants DEF Types
  <2> QED
    BY <1>1, <1>2, <1>3, <2>1, <2>2, FrameKeeps
<1>4. CASE run.phase = "idle" /\ run' = [Idle EXCEPT !.phase = "config", !.asOf = clock]
  <2>1. run' = [phase |-> "config", asOf |-> clock, coins |-> {}, seen |-> 0]
    BY <1>4 DEF Idle
  <2>2. run' \in Runs
    BY <2>1, Constants DEF Types, Runs, Phases
  <2>3. Types'
    BY <1>1, <2>2 DEF Types
  <2>4. QueueBounded' /\ BatchBounded'
    BY <1>1, <2>1, FS_EmptySet, Constants DEF QueueBounded, BatchBounded
  <2>5. RowsArePast'
    BY <1>1, <2>1, Constants DEF RowsArePast, Types
  <2>6. RunCovers'
    BY <2>1 DEF RunCovers
  <2>7. NoCoinSlipsAway'
    BY <1>1, <1>4 DEF NoCoinSlipsAway, Behind, Counts
  <2> QED
    BY <1>2, <2>3, <2>4, <2>5, <2>6, <2>7
<1> QED
  BY <1>1, <1>3, <1>4 DEF Recompute

LEMMA ConfigEnsuredKeeps ==
  ASSUME IInv, ConfigEnsured
  PROVE  IInv'
<1> USE DEF IInv
<1>1. UNCHANGED <<clock, events, stored, announced, rows, debounceTimer, timer, recalled>>
      /\ run.phase = "config"
  BY DEF ConfigEnsured, databaseVars
<1>2. TimersCleared'
  BY <1>1 DEF TimersCleared
<1>3. CASE run' = [run EXCEPT !.phase = "candidates"] /\ UNCHANGED <<pendingCoins, excused>>
  <2>1. /\ run' \in Runs /\ run'.phase = "candidates" /\ run'.asOf = run.asOf
        /\ run'.coins = run.coins
    BY <1>3 DEF Types, Runs, Phases
  <2>2. Types'
    BY <1>1, <1>3, <2>1 DEF Types
  <2>3. QueueBounded' /\ BatchBounded'
    BY <1>3, <2>1 DEF QueueBounded, BatchBounded
  <2>4. RowsArePast' /\ RunCovers'
    BY <1>1, <2>1 DEF RowsArePast, RunCovers
  <2>5. NoCoinSlipsAway'
    BY <1>1, <1>3 DEF NoCoinSlipsAway, Behind, Counts
  <2> QED
    BY <1>2, <2>2, <2>3, <2>4, <2>5
<1>4. ASSUME NEW taken \in Batches(pendingCoins),
             run' = [run EXCEPT !.phase = "source", !.coins = taken],
             pendingCoins' = {},
             excused' = excused \cup (pendingCoins \ taken) \cup TakenEarly(taken)
      PROVE  IInv'
  <2>1. taken \in SUBSET pendingCoins /\ Cardinality(taken) <= BatchCoins
    BY BatchSize DEF Types
  <2>2. /\ run' \in Runs /\ run'.phase = "source" /\ run'.asOf = run.asOf
        /\ run'.coins = taken
    BY <1>4, <2>1 DEF Types, Runs, Phases
  <2>3. TakenEarly(taken) \subseteq taken
    BY DEF TakenEarly
  <2>4. Types'
    BY <1>1, <1>4, <2>1, <2>2, <2>3 DEF Types
  <2>5. QueueBounded' /\ BatchBounded'
    BY <1>4, <2>1, <2>2, FS_EmptySet, Constants DEF QueueBounded, BatchBounded
  <2>6. RowsArePast'
    BY <1>1, <2>2 DEF RowsArePast
  <2>7. RunCovers'
    <3>1. ASSUME NEW c \in taken \ excused', NEW e \in 1..announced, c \in events[e].coins
          PROVE  events[e].at <= run.asOf
      <4>1. c \notin TakenEarly(taken)
        BY <1>4, <3>1
      <4>2. ~(events[e].at > run.asOf)
        BY <3>1, <4>1 DEF TakenEarly
      <4>3. events[e].at \in Int /\ run.asOf \in Int
        BY EventAt, Constants DEF Types, Runs
      <4> QED
        BY <4>2, <4>3
    <3> QED
      BY <1>1, <1>4, <2>2, <3>1 DEF RunCovers
  <2>8. NoCoinSlipsAway'
    <3>1. ASSUME NEW c \in Coins, Behind(c)
          PROVE  c \in excused' \/ c \in run'.coins
      BY <1>1, <1>4, <2>2, <3>1 DEF NoCoinSlipsAway
    <3>2. \A c \in Coins : Behind(c)' => Behind(c)
      BY <1>1 DEF Behind, Counts
    <3> QED
      BY <2>2, <3>1, <3>2 DEF NoCoinSlipsAway
  <2> QED
    BY <1>2, <2>4, <2>5, <2>6, <2>7, <2>8
<1> QED
  BY <1>3, <1>4 DEF ConfigEnsured

(* Without queued coins the run takes coins that miss nothing, or dropped  *)
(* ones.                                                                   *)
LEMMA CandidatesReadKeeps ==
  ASSUME IInv, CandidatesRead
  PROVE  IInv'
<1> USE DEF IInv
<1>1. UNCHANGED <<clock, events, stored, announced, rows, pendingCoins, debounceTimer, timer,
                  excused, recalled>>
      /\ run.phase = "candidates"
  BY DEF CandidatesRead, databaseVars, queueVars
<1>2. PICK coins \in Latest(CandidateCoins) :
        run' = IF coins = {} THEN Idle ELSE [run EXCEPT !.phase = "source", !.coins = coins]
  BY DEF CandidatesRead
<1>3. CandidateCoins \in SUBSET Coins
  <2>1. ASSUME NEW e \in 1..stored
        PROVE  events[e].coins \in SUBSET Coins
    <3>1. e \in 1..Len(events)
      BY DEF Types
    <3>2. events[e] \in Events
      BY <3>1 DEF Types
    <3> QED
      BY <3>2 DEF Events
  <2> QED
    BY <2>1 DEF CandidateCoins
<1>4. coins \in SUBSET Coins /\ Cardinality(coins) <= BatchCoins
  BY <1>2, <1>3, BatchSize DEF Latest
<1>5. TimersCleared' /\ QueueBounded'
  BY <1>1 DEF TimersCleared, QueueBounded
<1>6. ASSUME NEW c \in Coins, c \notin pendingCoins \cup excused
      PROVE  ~Behind(c)
  BY <1>1, <1>6 DEF NoCoinSlipsAway
<1>7. NoCoinSlipsAway'
  BY <1>1, <1>6 DEF NoCoinSlipsAway, Behind, Counts
<1>8. CASE coins = {}
  <2>1. run' = [phase |-> "idle", asOf |-> 0, coins |-> {}, seen |-> 0]
    BY <1>2, <1>8 DEF Idle
  <2>2. run' \in Runs
    BY <2>1, Constants DEF Runs, Phases
  <2>3. Types'
    BY <1>1, <2>2 DEF Types
  <2>4. BatchBounded' /\ RowsArePast' /\ RunCovers'
    BY <1>1, <2>1, FS_EmptySet, Constants DEF BatchBounded, RowsArePast, RunCovers, Types
  <2> QED
    BY <1>5, <1>7, <2>3, <2>4
<1>9. CASE coins # {}
  <2>1. /\ run' \in Runs /\ run'.phase = "source" /\ run'.asOf = run.asOf
        /\ run'.coins = coins
    BY <1>2, <1>4, <1>9 DEF Types, Runs, Phases
  <2>2. Types'
    BY <1>1, <2>1 DEF Types
  <2>3. BatchBounded' /\ RowsArePast'
    BY <1>1, <1>4, <2>1 DEF BatchBounded, RowsArePast
  <2>4. RunCovers'
    <3>1. ASSUME NEW c \in coins \ (pendingCoins \cup excused), NEW e \in 1..announced,
                 c \in events[e].coins
          PROVE  events[e].at <= run.asOf
      <4>1. events[e].at <= rows[c].ts /\ c \in Coins
        BY <1>4, <1>6, <3>1 DEF Behind, Counts
      <4>2. rows[c].ts <= run.asOf
        BY <1>1, <4>1 DEF RowsArePast
      <4>3. events[e].at \in Int /\ run.asOf \in Int /\ rows[c].ts \in Int
        BY <4>1, EventAt, Constants DEF Types, Runs, Rows
      <4> QED
        BY <4>1, <4>2, <4>3
    <3> QED
      BY <1>1, <2>1, <3>1 DEF RunCovers
  <2> QED
    BY <1>5, <1>7, <2>2, <2>3, <2>4
<1> QED
  BY <1>8, <1>9

LEMMA SourceReadKeeps ==
  ASSUME IInv, SourceRead
  PROVE  IInv'
<1> USE DEF IInv
<1>1. UNCHANGED <<clock, events, stored, announced, rows, pendingCoins, debounceTimer, timer,
                  excused, recalled>>
      /\ run.phase = "source" /\ run' = [run EXCEPT !.phase = "write", !.seen = stored]
  BY DEF SourceRead, databaseVars, queueVars
<1>2. stored \in 0..MaxEvents
  BY Constants DEF Types
<1>3. /\ run' \in Runs /\ run'.phase = "write" /\ run'.asOf = run.asOf
      /\ run'.coins = run.coins /\ run'.seen = stored
  BY <1>1, <1>2 DEF Types, Runs, Phases
<1>4. Types' /\ TimersCleared'
  BY <1>1, <1>3 DEF Types, TimersCleared
<1>5. QueueBounded' /\ BatchBounded' /\ RowsArePast'
  BY <1>1, <1>3 DEF QueueBounded, BatchBounded, RowsArePast
<1>6. RunCovers'
  <2>1. \A e \in 1..announced : e <= stored
    BY DEF Types
  <2> QED
    BY <1>1, <1>3, <2>1 DEF RunCovers
<1>7. NoCoinSlipsAway'
  BY <1>1, <1>3 DEF NoCoinSlipsAway, Behind, Counts
<1> QED
  BY <1>4, <1>5, <1>6, <1>7

LEMMA ScoresCommittedKeeps ==
  ASSUME IInv, ScoresCommitted
  PROVE  IInv'
<1> USE DEF IInv
<1> DEFINE written == [ts |-> run.asOf, seen |-> run.seen]
<1>1. UNCHANGED <<clock, events, stored, announced, pendingCoins, debounceTimer, timer,
                  excused, recalled>>
      /\ run.phase = "write"
      /\ run' = [phase |-> "idle", asOf |-> 0, coins |-> {}, seen |-> 0]
  BY DEF ScoresCommitted, databaseVars, queueVars, Idle
<1>2. /\ run.asOf \in 0..MaxClock /\ run.seen \in 0..MaxEvents /\ clock \in 0..MaxClock
      /\ run.asOf <= clock
      /\ \A c \in Coins : rows[c].ts \in Int /\ rows[c].ts <= run.asOf
  BY <1>1, Constants DEF Types, Runs, Rows, RowsArePast
<1>3. /\ rows' \in [Coins -> Rows] /\ written \in Rows
      /\ \A c \in Coins : rows'[c] = IF c \in run.coins THEN written ELSE rows[c]
  <2>1. written \in Rows
    BY <1>2 DEF Rows
  <2>2. \A c \in Coins : Upserted(rows[c], run.asOf, run.seen) = written
    BY <1>2, Constants DEF Upserted
  <2>3. rows' = [c \in Coins |-> IF c \in run.coins THEN written ELSE rows[c]]
    BY <2>2 DEF ScoresCommitted
  <2> HIDE DEF written
  <2> QED
    BY <2>1, <2>3 DEF Types
<1>4. written.ts = run.asOf /\ written.seen = run.seen
  OBVIOUS
<1> HIDE DEF written
<1>5. Types'
  <2>1. run' \in Runs
    BY <1>1, Constants DEF Runs, Phases
  <2> QED
    BY <1>1, <1>3, <2>1 DEF Types
<1>6. TimersCleared' /\ QueueBounded' /\ BatchBounded' /\ RunCovers'
  BY <1>1, FS_EmptySet, Constants DEF TimersCleared, QueueBounded, BatchBounded, RunCovers
<1>7. RowsArePast'
  <2>1. \A c \in Coins : rows'[c].ts <= clock
    BY <1>2, <1>3, <1>4, Constants DEF RowsArePast
  <2>2. run'.asOf <= clock /\ run'.phase = "idle"
    BY <1>1, <1>2, Constants
  <2> QED
    BY <1>1, <2>1, <2>2 DEF RowsArePast
<1>8. NoCoinSlipsAway'
  <2>1. ASSUME NEW c \in Coins, c \notin pendingCoins \cup excused,
               NEW e \in 1..announced, c \in events[e].coins
        PROVE  Counts(rows'[c], e)
    <3>1. CASE c \in run.coins
      <4>1. events[e].at <= run.asOf /\ e <= run.seen
        BY <1>1, <2>1, <3>1 DEF RunCovers
      <4>2. rows'[c].ts = run.asOf /\ rows'[c].seen = run.seen
        BY <1>3, <1>4, <3>1
      <4> QED
        BY <4>1, <4>2 DEF Counts
    <3>2. CASE c \notin run.coins
      <4>1. rows'[c] = rows[c]
        BY <1>3, <3>2
      <4>2. ~Behind(c)
        BY <2>1, <3>2 DEF NoCoinSlipsAway
      <4> QED
        BY <2>1, <4>1, <4>2 DEF Behind
    <3> QED
      BY <3>1, <3>2
  <2> QED
    BY <1>1, <2>1 DEF NoCoinSlipsAway, Behind, Counts
<1> QED
  BY <1>5, <1>6, <1>7, <1>8

LEMMA RunFailsKeeps ==
  ASSUME IInv, RunFails
  PROVE  IInv'
<1> USE DEF IInv
<1>1. UNCHANGED <<clock, events, stored, announced, rows, pendingCoins, debounceTimer, timer,
                  recalled>>
      /\ run' = [phase |-> "idle", asOf |-> 0, coins |-> {}, seen |-> 0]
      /\ excused' = excused \cup (run.coins \ pendingCoins)
  BY DEF RunFails, databaseVars, queueVars, Idle
<1>2. run' \in Runs
  BY <1>1, Constants DEF Runs, Phases
<1>3. Types'
  BY <1>1, <1>2 DEF Types, Runs
<1>4. TimersCleared' /\ QueueBounded' /\ BatchBounded' /\ RunCovers'
  BY <1>1, FS_EmptySet, Constants DEF TimersCleared, QueueBounded, BatchBounded, RunCovers
<1>5. RowsArePast'
  BY <1>1, Constants DEF RowsArePast, Types
<1>6. NoCoinSlipsAway'
  BY <1>1 DEF NoCoinSlipsAway, Behind, Counts
<1> QED
  BY <1>3, <1>4, <1>5, <1>6

-----------------------------------------------------------------------------
LEMMA StepIInv == IInv /\ [Next]_vars => IInv'
<1> SUFFICES ASSUME IInv, [Next]_vars PROVE IInv'
  OBVIOUS
<1>1. CASE Tick
  BY <1>1, TickKeeps
<1>2. CASE \E coins \in EventCoins : Receive(coins)
  BY <1>2, ReceiveKeeps
<1>3. CASE Commit
  BY <1>3, CommitKeeps
<1>4. CASE Written
  BY <1>4, WrittenKeeps
<1>5. CASE IntervalFires \/ DebounceFires
  BY <1>5, RecomputeKeeps
<1>6. CASE ConfigEnsured
  BY <1>6, ConfigEnsuredKeeps
<1>7. CASE CandidatesRead
  BY <1>7, CandidatesReadKeeps
<1>8. CASE SourceRead
  BY <1>8, SourceReadKeeps
<1>9. CASE ScoresCommitted
  BY <1>9, ScoresCommittedKeeps
<1>10. CASE RunFails
  BY <1>10, RunFailsKeeps
<1>11. CASE Stop
  BY <1>11, StopKeeps
<1>12. CASE UNCHANGED vars
  <2>1. UNCHANGED <<clock, events, stored, announced, rows, pendingCoins, debounceTimer, timer, run,
                    excused, recalled>>
    BY <1>12 DEF vars, databaseVars, queueVars
  <2>2. Types' /\ TimersCleared' /\ clock <= clock'
    BY <2>1, Constants DEF IInv, Types, TimersCleared
  <2> QED
    BY <2>1, <2>2, FrameKeeps
<1> QED
  BY <1>1, <1>2, <1>3, <1>4, <1>5, <1>6, <1>7, <1>8, <1>9, <1>10, <1>11, <1>12 DEF Next

(* The inductive invariant holds in every reachable state. *)
THEOREM Invariant == Spec => []IInv
<1>1. Init => IInv
  BY InitIInv
<1>2. IInv /\ [Next]_vars => IInv'
  BY StepIInv
<1> QED
  BY <1>1, <1>2, PTL DEF Spec

(* Every variable keeps its type, the queue its depth and the run its      *)
(* batch.                                                                  *)
THEOREM TypeCorrect == Spec => []TypeOK
<1>1. IInv => TypeOK
  BY DEF IInv, Types, Events, Rows, Runs, QueueBounded, BatchBounded, TypeOK
<1> QED
  BY <1>1, Invariant, PTL

(* A coin whose score misses an announced event is queued, in the run, or  *)
(* was dropped in one of the four ways.                                    *)
THEOREM CoinsAreAccountedFor == Spec => []NoCoinSlipsAway
<1>1. IInv => NoCoinSlipsAway
  BY DEF IInv
<1> QED
  BY <1>1, Invariant, PTL

(* After stop() only an event announced later can start a run. *)
THEOREM QuietAfterStop == Spec => StopIsQuiet
<1>1. ASSUME IInv, [Next]_vars, run.phase = "idle", run'.phase # "idle"
      PROVE  timer \/ recalled
  <2>1. CASE IntervalFires
    BY <2>1 DEF IntervalFires
  <2>2. CASE DebounceFires
    <3>1. debounceTimer
      BY <2>2 DEF DebounceFires
    <3>2. debounceTimer \in BOOLEAN /\ timer \in BOOLEAN /\ recalled \in BOOLEAN
          /\ (~timer /\ ~recalled => ~debounceTimer)
      BY <1>1 DEF IInv, Types, TimersCleared
    <3> QED
      BY <3>1, <3>2
  <2>3. CASE RunFails \/ ScoresCommitted \/ SourceRead \/ CandidatesRead \/ ConfigEnsured
    BY <1>1, <2>3 DEF RunFails, ScoresCommitted, SourceRead, CandidatesRead, ConfigEnsured
  <2>4. CASE UNCHANGED run
    BY <1>1, <2>4
  <2> QED
    BY <1>1, <2>1, <2>2, <2>3, <2>4
       DEF Next, Tick, Receive, Commit, Written, Stop, vars
<1> QED
  BY <1>1, Invariant, PTL DEF Spec, StopIsQuiet

=============================================================================
