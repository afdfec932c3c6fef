--------------------------- MODULE ServerLifecycle ---------------------------
(***************************************************************************)
(* The life of the server process (apps/server/src/index.ts) with database *)
(* storage on: how it boots, hands each raw event to the log and to the    *)
(* durable queue, shuts down on a signal, crashes, and boots again with    *)
(* the replay of its log (events/replayRawLog.ts).  A second process may   *)
(* run db:migrate at any time.                                             *)
(*                                                                         *)
(* An event is one call of handleRawEvent() whose events were stored.  It  *)
(* adds a line to the log, which is kept as the event's number, id, feed   *)
(* and time, and a job to the queue, of which only the number is kept: the *)
(* queue's retries, the workers' runs and the contents of the streams have *)
(* modules of their own.                                                   *)
(***************************************************************************)
EXTENDS Migrations, Integers, FiniteSetsExt, SequencesExt

CONSTANTS
  Server,      \* the runner that is this process
  Ids, FeedOf(_),
  Window,      \* ONE_HOUR_MS
  Signals,     \* SIGINT and SIGTERM
  MaxEvents, MaxClock, MaxBoots    \* bounds of the model

ASSUME ServerLifecycleAssumption ==
  /\ Server \in Runners
  /\ {Window, MaxEvents, MaxClock, MaxBoots} \subseteq Nat

VARIABLES
  options,     \* DATABASE_MIGRATIONS_ON_START, REPLAY_RAW_EVENTS_ON_START
  phase,       \* where the top level of index.ts stands
  boots,
  clock,
  received,    \* how many events there were
  log,         \* the lines of the file
  writeChain,  \* the lines not yet in it
  queued,      \* jobs in the durable queue
  job,         \* the job in hand: none, writing (it has a client of the pool) or waiting
  overdue,     \* history: durableIngestion.stop() returned with a job in hand
  abandoned,   \* history: what this process had not seen through when it ended
  store,       \* per feed, the replayed events, newest first
  pool,        \* the Postgres pool
  streams,     \* SSE streams: "none", "served", or "orphan" once the hub is closed
  shutdown     \* per signal, where its call of shutdown() stands

logVars == <<clock, received, log, writeChain>>
jobVars == <<queued, job, overdue, abandoned>>
endVars == <<pool, streams, shutdown>>
processVars == <<migrationVars, options, phase, boots, logVars, jobVars, store, endVars>>

Feeds == {FeedOf(id) : id \in Ids}
Empty == [f \in Feeds |-> <<>>]
NotCalled == [s \in Signals |-> "none"]

ProcessInit ==
  /\ InitMigrations
  /\ options \in [migrate : BOOLEAN, replay : BOOLEAN]
  /\ phase = "verify"
  /\ boots = 1
  /\ clock = 0
  /\ received = 0
  /\ log = <<>>
  /\ writeChain = <<>>
  /\ queued = 0
  /\ job = "none"
  /\ overdue = FALSE
  /\ abandoned = {}
  /\ store = Empty
  /\ pool = "open"
  /\ streams = "none"
  /\ shutdown = NotCalled

(* What a process leaves undone when it ends is lost. *)
Die(how) ==
  /\ phase' = how
  /\ writeChain' = <<>>
  /\ abandoned' = ({job} \ {"none"}) \cup (IF queued > 0 THEN {"queued"} ELSE {})
  /\ queued' = 0
  /\ job' = "none"
  /\ runner' = [runner EXCEPT ![Server] = [Waiting EXCEPT !.phase = "failed"]]
  /\ UNCHANGED <<schema, catalog, options, boots, clock, received, log, overdue, store, endVars>>

-----------------------------------------------------------------------------
(* Boot: the top level of index.ts *)

Goto(next) ==
  /\ phase' = next
  /\ UNCHANGED <<migrationVars, options, boots, logVars, jobVars, store, endVars>>

Verified == phase = "verify" /\ Goto(IF options.migrate THEN "migrate" ELSE "prepare")

ServerMigrates ==
  /\ phase = "migrate"
  /\ Migrate(Server)
  /\ UNCHANGED <<options, phase, boots, logVars, jobVars, store, endVars>>

Migrated == phase = "migrate" /\ runner[Server].phase = "done" /\ Goto("prepare")
MigrationFailed == phase = "migrate" /\ runner[Server].phase = "failed" /\ Die("crashed")

(* Bound of the model: a server that does not migrate, or is past it, does *)
(* nothing that depends on db:migrate, which waits for its next boot.      *)
DeployMigrates(r) ==
  /\ r # Server
  /\ phase \in {"verify", "migrate"} /\ options.migrate
  /\ Migrate(r)
  /\ UNCHANGED <<options, phase, boots, logVars, jobVars, store, endVars>>

(* A policy that fails is only a warning, and a missing log replays none.  *)
OfFeed(lines, f) == {i \in DOMAIN lines : lines[i].feed = f}

(* replayLatestRawEventsFromLog() walks the log backwards: the last line   *)
(* of a feed opens the window that the others must be in.                  *)
Selected(lines, f) ==
  LET last == Max(OfFeed(lines, f))
  IN {i \in OfFeed(lines, f) : lines[i].at >= lines[last].at - Window}

(* Sorted oldest first, ties in the order of the selection: the order in   *)
(* which addEvents() takes the lines.                                      *)
AsSelected(lines, i, j) == i > j
TakenBefore(lines, i, j) ==
  \/ lines[i].at < lines[j].at
  \/ lines[i].at = lines[j].at /\ i > j

(* addEvents() keeps the first of each id, and puts each before those it   *)
(* has: the last one taken is shown first.                                 *)
FirstOfTheirIds(lines, positions) ==
  {i \in positions : \A j \in positions \ {i} :
                       lines[j].id = lines[i].id => TakenBefore(lines, i, j)}
LastTakenFirst(lines, positions) ==
  CHOOSE order \in Bijection(1..Cardinality(positions), positions) :
    \A i, j \in DOMAIN order : i < j => TakenBefore(lines, order[j], order[i])

Replayed(f) ==
  LET order == LastTakenFirst(log, FirstOfTheirIds(log, Selected(log, f)))
  IN [i \in DOMAIN order |-> log[order[i]]]

Prepared ==
  /\ phase = "prepare"
  /\ phase' = "replayed"
  /\ store' = IF options.replay THEN [f \in Feeds |-> Replayed(f)] ELSE Empty
  /\ UNCHANGED <<migrationVars, options, boots, logVars, jobVars, endVars>>

Routed == phase = "replayed" /\ Goto("listening")
Listening == phase = "listening" /\ Goto("serving")

-----------------------------------------------------------------------------
(* Running *)

ControllerRuns == phase \in {"listening", "serving"} /\ shutdown = NotCalled
Up == phase \in {"listening", "serving"}

(* handleRawEvent(): the line joins writeChain, the job joins the queue.   *)
HandleRawEvent(id, time) ==
  /\ ControllerRuns
  /\ received < MaxEvents
  /\ received' = received + 1
  /\ clock' = time
  /\ writeChain' = Append(writeChain, [n |-> received, id |-> id, feed |-> FeedOf(id), at |-> time])
  /\ queued' = queued + 1
  /\ UNCHANGED <<migrationVars, options, phase, boots, log, job, overdue, abandoned, store,
                 endVars>>

(* Each append waits for the one before it; one that fails is only logged. *)
AnyLines == DOMAIN writeChain
NextLines == {1}

AppendLine ==
  /\ Up
  /\ \E i \in NextLines \cap DOMAIN writeChain :
       /\ writeChain' = RemoveAt(writeChain, i)
       /\ log' \in {Append(log, writeChain[i]), log}
  /\ UNCHANGED <<migrationVars, options, phase, boots, clock, received, jobVars, store, endVars>>

(* The durable queue has one job in hand until it is written, or given up  *)
(* and counted as failed.  It has a client during an attempt, and none     *)
(* while it waits for a free one or for its next attempt.                  *)
BeginJob ==
  /\ Up
  /\ job = "none"
  /\ queued > 0
  /\ queued' = queued - 1
  /\ job' = "waiting"
  /\ UNCHANGED <<migrationVars, options, phase, boots, logVars, overdue, abandoned, store, endVars>>

JobGoes(from, to) ==
  /\ Up
  /\ job = from
  /\ job' \in to
  /\ UNCHANGED <<migrationVars, options, phase, boots, logVars, queued, overdue, abandoned, store,
                 endVars>>

AttemptBegins == pool = "open" /\ JobGoes("waiting", {"writing"})
AttemptEnds == JobGoes("writing", {"none", "waiting"})
GivenUp == JobGoes("waiting", {"none"})   \* connect() rejects, as it does once the pool ends

(* A browser opens /api/stream, again after the hub has ended its stream.  *)
HubOpen == pool = "open"   \* sseHub.close() is called just before pool.end()
Accepting == phase = "serving" /\ \A s \in Signals : shutdown[s] # "app"

OpenStream ==
  /\ Accepting
  /\ streams = "none"
  /\ streams' = IF HubOpen THEN "served" ELSE "orphan"
  /\ UNCHANGED <<migrationVars, options, phase, boots, logVars, jobVars, store, pool,
                 shutdown>>

CloseStream ==
  /\ Up
  /\ streams # "none"
  /\ streams' = "none"
  /\ UNCHANGED <<migrationVars, options, phase, boots, logVars, jobVars, store, pool,
                 shutdown>>

-----------------------------------------------------------------------------
(* shutdown(): once per signal, both may run *)

Signal(s) ==
  /\ phase = "serving"
  /\ shutdown[s] = "none"
  /\ shutdown' = [shutdown EXCEPT ![s] = "drain"]
  /\ UNCHANGED <<migrationVars, options, phase, boots, logVars, jobVars, store, pool,
                 streams>>

(* durableIngestion.stop() returns once nothing is queued or in hand, or   *)
(* at its deadline: what is queued then is dropped and counted, the job in *)
(* hand goes on.  The streams end, and the pool is asked to end when its   *)
(* clients are back.                                                       *)
LeftOpen == streams
Ended == IF streams = "served" THEN "none" ELSE streams

Drained(s) ==
  /\ Up
  /\ shutdown[s] = "drain"
  /\ pool = "open"
  /\ queued' = 0
  /\ overdue' = (job # "none")
  /\ streams' = Ended
  /\ pool' = "ending"
  /\ shutdown' = [shutdown EXCEPT ![s] = "pool"]
  /\ UNCHANGED <<migrationVars, options, phase, boots, logVars, job, abandoned, store>>

(* A pool asked to end twice rejects, nobody catches it, Node exits.       *)
DrainedAgain(s) ==
  /\ Up
  /\ shutdown[s] = "drain"
  /\ pool # "open"
  /\ Die("crashed")

ClientsAbandoned == TRUE
ClientsReturned == job # "writing"

PoolEnded(s) ==
  /\ Up
  /\ shutdown[s] = "pool"
  /\ ClientsReturned
  /\ pool' = "ended"
  /\ shutdown' = [shutdown EXCEPT ![s] = "app"]
  /\ UNCHANGED <<migrationVars, options, phase, boots, logVars, jobVars, store, streams>>

(* app.close() waits for every connection, process.exit() for nothing.     *)
Exit(s) ==
  /\ Up
  /\ shutdown[s] = "app"
  /\ streams = "none"
  /\ Die("exited")

(* A signal before process.once() or after it, an error of the top level,  *)
(* the supervisor out of patience: the process ends where it stands.       *)
Crash == phase \notin {"crashed", "exited"} /\ Die("crashed")

Restart ==
  /\ phase \in {"crashed", "exited"}
  /\ boots < MaxBoots
  /\ boots' = boots + 1
  /\ runner' = [runner EXCEPT ![Server] = Waiting]
  /\ phase' = "verify"
  /\ store' = Empty
  /\ overdue' = FALSE
  /\ abandoned' = {}
  /\ pool' = "open"
  /\ streams' = "none"
  /\ shutdown' = NotCalled
  /\ UNCHANGED <<schema, catalog, options, logVars, queued, job>>

ProcessNext ==
  \/ Verified \/ ServerMigrates \/ Migrated \/ MigrationFailed \/ Prepared \/ Routed \/ Listening
  \/ \E r \in Runners : DeployMigrates(r)
  \/ \E id \in Ids, time \in clock..MaxClock : HandleRawEvent(id, time)
  \/ AppendLine \/ BeginJob \/ AttemptBegins \/ AttemptEnds \/ GivenUp
  \/ OpenStream \/ CloseStream
  \/ \E s \in Signals : Signal(s) \/ Drained(s) \/ DrainedAgain(s) \/ PoolEnded(s) \/ Exit(s)
  \/ Crash \/ Restart

(* Node runs a timer that is due; Postgres answers or times out a          *)
(* statement, and so ends what holds a client.                             *)
ProcessFairness ==
  /\ WF_processVars(AttemptEnds)
  /\ \A s \in Signals :
       /\ WF_processVars(Drained(s)) /\ WF_processVars(DrainedAgain(s))
       /\ WF_processVars(PoolEnded(s)) /\ WF_processVars(Exit(s))

ProcessSpec == ProcessInit /\ [][ProcessNext]_processVars /\ ProcessFairness

-----------------------------------------------------------------------------
LogLine == [n : 0..MaxEvents, id : Ids, feed : Feeds, at : 0..MaxClock]

ProcessTypeOK ==
  /\ schema \in Seq(1..Files)
  /\ catalog \subseteq 1..Files
  /\ runner \in [Runners -> [phase : RunPhases, applied : SUBSET (1..Files), file : 0..Files]]
  /\ options \in [migrate : BOOLEAN, replay : BOOLEAN]
  /\ phase \in {"verify", "migrate", "prepare", "replayed", "listening", "serving", "crashed", "exited"}
  /\ boots \in 1..MaxBoots
  /\ clock \in 0..MaxClock
  /\ {log, writeChain} \subseteq Seq(LogLine)
  /\ {received, queued} \subseteq 0..MaxEvents
  /\ job \in {"none", "waiting", "writing"} /\ overdue \in BOOLEAN
  /\ abandoned \subseteq {"queued", "waiting", "writing"}
  /\ store \in [Feeds -> Seq(LogLine)]
  /\ pool \in {"open", "ending", "ended"}
  /\ streams \in {"none", "served", "orphan"}
  /\ shutdown \in [Signals -> {"none", "drain", "pool", "app"}]

(* A server told to migrate on start works on no schema with a file        *)
(* missing, whatever db:migrate does meanwhile.                            *)
ServesWhatItMigrated ==
  options.migrate /\ phase \notin {"verify", "migrate", "crashed", "exited"} => catalog = 1..Files
MigrationsAreSafe == SchemaIsSound /\ ServesWhatItMigrated

(* Lines are appended behind writeChain: what a process that ends loses of *)
(* its log are the last events, never one between two that are there.      *)
OnlyTheTailIsLost ==
  \A i \in DOMAIN log, j \in DOMAIN writeChain : log[i].n < writeChain[j].n

(* The replay of a boot shows each feed that has a line in the log: with   *)
(* the event of its last line, within an hour of it, newest first.         *)
ReplayIsRecent ==
  phase = "replayed" /\ options.replay =>
    \A f \in Feeds :
      LET lines == OfFeed(log, f)
          last == log[Max(lines)]
          shown == store[f]
      IN /\ lines # {} => \E i \in DOMAIN shown : shown[i].id = last.id
         /\ \A i \in DOMAIN shown : shown[i].at >= last.at - Window
         /\ \A i \in DOMAIN shown : \A j \in 1..i : shown[j].at >= shown[i].at

(* A process that exits by itself cuts no statement short and leaves no    *)
(* job in the queue: each was written, or given up or dropped and counted, *)
(* with one exception.  It is the job in hand when the drain deadline      *)
(* passed, if it waits for an attempt at the exit, which nothing awaits.   *)
OnlyOverdueJobIsLost ==
  phase = "exited" => abandoned \subseteq {"waiting"} /\ (abandoned # {} => overdue)

(* A signal ends the process, unless a browser opened a stream that nobody *)
(* ends after sseHub.close(): app.close() may wait for it for ever.        *)
SignalEndsTheProcess ==
  shutdown # NotCalled ~> phase \in {"exited", "crashed"} \/ streams = "orphan"
=============================================================================
