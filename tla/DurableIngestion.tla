-------------------------- MODULE DurableIngestion --------------------------
(***************************************************************************)
(* The in-process write queue of apps/server/src/db/durableIngestion.ts:   *)
(* enqueue() accepts, refuses or drops a job, one processQueue() loop      *)
(* writes the jobs to Postgres with retries, and stop() drains the queue   *)
(* until a deadline.  The process is single threaded: an action is a whole *)
(* stretch of code between two awaits, and the awaits (the repository      *)
(* call, the retry sleep, recordFailure, the 25 ms poll of stop()) are     *)
(* where the other callers run.                                            *)
(*                                                                         *)
(* A job is known by its ticket, its number in the order of acceptance;    *)
(* its payload does not influence the queue.  Loop names the possible      *)
(* concurrent invocations of processQueue() and Stopper those of stop()    *)
(* (SIGINT and SIGTERM each call shutdown()).                              *)
(***************************************************************************)
EXTENDS Naturals, Sequences, FiniteSets

CONSTANTS
  MaxQueueDepth,  \* DATABASE_WRITE_QUEUE_MAX
  MaxRetries,     \* DATABASE_WRITE_MAX_RETRIES
  Loop,           \* invocations of processQueue()
  Stopper,        \* invocations of stop()
  MaxOffers       \* bound of the model: the number of enqueue() calls

ASSUME DurableIngestionAssumption ==
  /\ MaxQueueDepth \in Nat
  /\ MaxRetries \in Nat
  /\ MaxOffers \in Nat
  /\ Loop # {}

VARIABLES
  queue,        \* tickets waiting, oldest first
  processing,   \* a processQueue() loop is running
  inFlight,     \* 1 while an item is being written or its failure recorded
  state,        \* running, draining, stopped or degraded
  connected,    \* did the last settled write succeed
  accepted, writtenJobs, dropped, failed, retried,  \* the counters
  published,    \* the status of the last emitStatus()
  loop,         \* where each invocation of processQueue() awaits
  item,         \* the ticket it holds
  attempt,      \* the attempt counter of its writeWithRetry()
  stopper,      \* where each invocation of stop() is
  expired,      \* the stop() calls whose deadline has passed
  offers,       \* enqueue() calls so far
  fate,         \* history: what became of each accepted ticket
  durable,      \* tickets whose transaction Postgres has committed
  failedAfterStop  \* history: a write failed once stop() had been called

counters == <<accepted, writtenJobs, dropped, failed, retried>>
loopVars == <<loop, item, attempt>>
stopVars == <<stopper, expired>>
vars == <<queue, processing, inFlight, state, connected, counters, published,
          loopVars, stopVars, offers, fate, durable, failedAfterStop>>

States == {"running", "draining", "stopped", "degraded"}
Fates  == {"queued", "writing", "written", "failed", "dropped"}
Writing == {"writing", "backoff"}  \* the awaits inside writeWithRetry()

Stopping == \E s \in Stopper : stopper[s] # "idle"
Drained  == queue = <<>> /\ inFlight = 0 /\ ~processing

Status(st, depth, busy, written, lost, shed) ==
  [state |-> st, queueDepth |-> depth, inFlight |-> busy,
   writtenJobs |-> written, failed |-> lost, dropped |-> shed]

TypeOK ==
  /\ queue \in Seq(Nat)
  /\ processing \in BOOLEAN
  /\ inFlight \in {0, 1}
  /\ state \in States
  /\ connected \in BOOLEAN
  /\ accepted \in Nat /\ writtenJobs \in Nat /\ dropped \in Nat
  /\ failed \in Nat /\ retried \in Nat /\ offers \in Nat
  /\ published \in [state : States, queueDepth : Nat, inFlight : {0, 1},
                    writtenJobs : Nat, failed : Nat, dropped : Nat]
  /\ loop \in [Loop -> {"idle", "writing", "backoff", "recording"}]
  /\ item \in [Loop -> Nat]
  /\ attempt \in [Loop -> 0..MaxRetries]
  /\ stopper \in [Stopper -> {"idle", "waiting", "returned"}]
  /\ expired \in SUBSET Stopper
  /\ fate \in Seq(Fates)
  /\ durable \in SUBSET Nat
  /\ failedAfterStop \in BOOLEAN

Init ==
  /\ queue = <<>> /\ processing = FALSE /\ inFlight = 0
  /\ state = "running" /\ connected = TRUE
  /\ accepted = 0 /\ writtenJobs = 0 /\ dropped = 0 /\ failed = 0 /\ retried = 0
  /\ published = Status("running", 0, 0, 0, 0, 0)
  /\ loop = [l \in Loop |-> "idle"]
  /\ item = [l \in Loop |-> 0]
  /\ attempt = [l \in Loop |-> 0]
  /\ stopper = [s \in Stopper |-> "idle"]
  /\ expired = {}
  /\ offers = 0
  /\ fate = <<>> /\ durable = {} /\ failedAfterStop = FALSE

-----------------------------------------------------------------------------
(* processQueue(): q and f are the queue and the fates when it is reached. *)

(* The head of the while loop up to the await of the repository call. *)
StartNext(l, q, f) ==
  /\ queue' = Tail(q)
  /\ processing' = TRUE
  /\ inFlight' = 1
  /\ loop' = [loop EXCEPT ![l] = "writing"]
  /\ item' = [item EXCEPT ![l] = Head(q)]
  /\ attempt' = [attempt EXCEPT ![l] = 0]
  /\ fate' = [f EXCEPT ![Head(q)] = "writing"]

ContinueOnce(l, f) ==
  /\ processing' = FALSE
  /\ inFlight' = 0
  /\ loop' = [loop EXCEPT ![l] = "idle"]
  /\ fate' = f
  /\ UNCHANGED <<queue, item, attempt>>

(* The inner finally and the loop condition: the next item is taken in the *)
(* same tick, otherwise the invocation ends.  The outer finally's test of  *)
(* a nonempty queue is false whenever the loop condition was.              *)
Continue(l, f) ==
  \/ queue # <<>> /\ StartNext(l, queue, f)
  \/ /\ queue = <<>>
     /\ processing' = FALSE
     /\ inFlight' = 0
     /\ loop' = [loop EXCEPT ![l] = "idle"]
     /\ fate' = f
     /\ UNCHANGED <<queue, item, attempt>>

ScheduleProcessing(q, f) ==
  \/ /\ processing \/ q = <<>>
     /\ queue' = q /\ fate' = f
     /\ UNCHANGED <<processing, inFlight, loopVars>>
  \/ /\ ~processing /\ q # <<>>
     /\ \E l \in Loop : loop[l] = "idle" /\ StartNext(l, q, f)

-----------------------------------------------------------------------------
(* enqueue() *)

Offer == offers < MaxOffers /\ offers' = offers + 1

Closed == state \in {"draining", "stopped"}

FullLate == Len(queue) > MaxQueueDepth
Full == Len(queue) >= MaxQueueDepth

EnqueueRefused ==
  /\ Offer
  /\ Closed
  /\ UNCHANGED <<queue, processing, inFlight, state, connected, counters,
                 published, loopVars, stopVars, fate, durable, failedAfterStop>>

EnqueueOverflow ==
  /\ Offer
  /\ ~Closed
  /\ Full
  /\ dropped' = dropped + 1
  /\ state' = "degraded"
  /\ published' = Status("degraded", Len(queue), inFlight, writtenJobs, failed, dropped')
  /\ UNCHANGED <<queue, processing, inFlight, connected, accepted, writtenJobs,
                 failed, retried, loopVars, stopVars, fate, durable, failedAfterStop>>

EnqueueAccepted ==
  /\ Offer
  /\ ~Closed
  /\ ~Full
  /\ accepted' = accepted + 1
  /\ ScheduleProcessing(Append(queue, accepted'), Append(fate, "queued"))
  /\ published' = Status(state, Len(queue'), inFlight', writtenJobs, failed, dropped)
  /\ UNCHANGED <<state, connected, writtenJobs, dropped, failed, retried,
                 stopVars, durable, failedAfterStop>>

-----------------------------------------------------------------------------
(* writeWithRetry() and the two outcomes of an item *)

(* ingestRawEvent() resolves only once COMMIT has been confirmed. *)
Acknowledged(l) == item[l] \in durable

AlwaysRunning(st) == "running"
AfterSuccess(st) == IF st = "degraded" THEN "running" ELSE st

Unaffected(st) == st
AfterFailure(st) == "degraded"

CanRetry(l) == attempt[l] < MaxRetries

(* Postgres commits the transaction of an attempt.  A job whose attempt    *)
(* already failed for the client (a lost connection, a timeout) may still  *)
(* be committed.                                                           *)
CommitTransaction ==
  /\ \E j \in DOMAIN fate :
       /\ fate[j] \in {"writing", "failed"}
       /\ j \notin durable
       /\ durable' = durable \cup {j}
  /\ UNCHANGED <<queue, processing, inFlight, state, connected, counters,
                 published, loopVars, stopVars, offers, fate, failedAfterStop>>

WriteSucceeds(l) ==
  /\ loop[l] = "writing"
  /\ Acknowledged(l)
  /\ connected' = TRUE
  /\ writtenJobs' = writtenJobs + 1
  /\ state' = AfterSuccess(state)
  /\ published' = Status(state', Len(queue), inFlight, writtenJobs', failed, dropped)
  /\ Continue(l, [fate EXCEPT ![item[l]] = "written"])
  /\ UNCHANGED <<accepted, dropped, failed, retried, stopVars, offers,
                 durable, failedAfterStop>>

(* A transient error with attempts left; the commit may have happened. *)
RetryWrite(l) ==
  /\ loop[l] = "writing"
  /\ CanRetry(l)
  /\ attempt' = [attempt EXCEPT ![l] = @ + 1]
  /\ retried' = retried + 1
  /\ loop' = [loop EXCEPT ![l] = "backoff"]
  /\ UNCHANGED <<queue, processing, inFlight, state, connected, accepted,
                 writtenJobs, dropped, failed, published, item, stopVars,
                 offers, fate, durable, failedAfterStop>>

(* The sleep of retryDelayMs() ends and the repository is called again. *)
ResumeWrite(l) ==
  /\ loop[l] = "backoff"
  /\ loop' = [loop EXCEPT ![l] = "writing"]
  /\ UNCHANGED <<queue, processing, inFlight, state, connected, counters,
                 published, item, attempt, stopVars, offers, fate, durable,
                 failedAfterStop>>

(* An error that is permanent or comes with no attempt left.  The state is *)
(* overwritten whatever it was, "draining" and "stopped" included.         *)
WriteFails(l) ==
  /\ loop[l] = "writing"
  /\ connected' = FALSE
  /\ failed' = failed + 1
  /\ state' = AfterFailure(state)
  /\ published' = Status(state', Len(queue), inFlight, writtenJobs, failed', dropped)
  /\ loop' = [loop EXCEPT ![l] = "recording"]
  /\ fate' = [fate EXCEPT ![item[l]] = "failed"]
  /\ failedAfterStop' = (failedAfterStop \/ Stopping)
  /\ UNCHANGED <<queue, processing, inFlight, accepted, writtenJobs, dropped,
                 retried, item, attempt, stopVars, offers, durable>>

(* recordFailure() swallows its own errors, so it always comes back. *)
FailureRecorded(l) ==
  /\ loop[l] = "recording"
  /\ Continue(l, fate)
  /\ UNCHANGED <<state, connected, counters, published, stopVars, offers,
                 durable, failedAfterStop>>

-----------------------------------------------------------------------------
(* stop() *)

WaitForever(s) == Drained
WaitOver(s) == Drained \/ s \in expired

Shed == Len(queue)

ShedFates == [j \in DOMAIN fate |-> IF fate[j] = "queued" THEN "dropped" ELSE fate[j]]

AnnouncedDraining == Status("draining", 0, inFlight, writtenJobs, failed, dropped + Shed)
Announced == Status("stopped", 0, inFlight, writtenJobs, failed, dropped + Shed)

StopIgnored(s) ==
  /\ stopper[s] = "idle"
  /\ state = "stopped"
  /\ stopper' = [stopper EXCEPT ![s] = "returned"]
  /\ UNCHANGED <<queue, processing, inFlight, state, connected, counters,
                 published, loopVars, expired, offers, fate, durable, failedAfterStop>>

(* With nothing to drain the loop condition is false at once and stop()    *)
(* returns in the same tick.                                               *)
StopCalled(s) ==
  /\ stopper[s] = "idle"
  /\ state # "stopped"
  /\ ScheduleProcessing(queue, fate)
  /\ \/ /\ Drained'
        /\ state' = "stopped"
        /\ stopper' = [stopper EXCEPT ![s] = "returned"]
        /\ published' = Status("stopped", 0, 0, writtenJobs, failed, dropped)
     \/ /\ ~Drained'
        /\ state' = "draining"
        /\ stopper' = [stopper EXCEPT ![s] = "waiting"]
        /\ UNCHANGED published
  /\ UNCHANGED <<connected, counters, expired, offers, durable, failedAfterStop>>

DeadlinePasses(s) ==
  /\ stopper[s] = "waiting"
  /\ s \notin expired
  /\ expired' = expired \cup {s}
  /\ UNCHANGED <<queue, processing, inFlight, state, connected, counters,
                 published, loopVars, stopper, offers, fate, durable, failedAfterStop>>

(* The poll that ends the wait: what is still queued is dropped. *)
StopReturns(s) ==
  /\ stopper[s] = "waiting"
  /\ WaitOver(s)
  /\ queue' = <<>>
  /\ dropped' = dropped + Shed
  /\ fate' = ShedFates
  /\ state' = "stopped"
  /\ stopper' = [stopper EXCEPT ![s] = "returned"]
  /\ published' = Announced
  /\ UNCHANGED <<processing, inFlight, connected, accepted, writtenJobs, failed,
                 retried, loopVars, expired, offers, durable, failedAfterStop>>

-----------------------------------------------------------------------------
Enqueue == EnqueueRefused \/ EnqueueOverflow \/ EnqueueAccepted

Process(l) ==
  \/ WriteSucceeds(l) \/ RetryWrite(l) \/ ResumeWrite(l)
  \/ WriteFails(l) \/ FailureRecorded(l)

Stop(s) == StopIgnored(s) \/ StopCalled(s) \/ DeadlinePasses(s) \/ StopReturns(s)

Next ==
  \/ Enqueue
  \/ CommitTransaction
  \/ \E l \in Loop : Process(l)
  \/ \E s \in Stopper : Stop(s)

Spec == Init /\ [][Next]_vars

(* Time passes and the event loop runs the timers of stop(). *)
ClockFairness ==
  \A s \in Stopper : WF_vars(DeadlinePasses(s)) /\ WF_vars(StopReturns(s))

(* statement_timeout and query_timeout bound every repository call, so the *)
(* promise it returns is settled, one way or the other; the retry sleep    *)
(* ends and recordFailure() comes back.                                    *)
DatabaseFairness == \A l \in Loop : WF_vars(Process(l))

ClockSpec == Spec /\ ClockFairness
-----------------------------------------------------------------------------
(***************************************************************************)
(* Properties                                                              *)
(***************************************************************************)
Busy(l) == loop[l] # "idle"

(* The processing flag admits one processQueue() loop at a time, although  *)
(* enqueue(), stop() and the loop's own exit all may start one; two loops  *)
(* would write jobs concurrently and reset each other's inFlight.          *)
SingleWriter ==
  /\ \A k, l \in Loop : Busy(k) /\ Busy(l) => k = l
  /\ processing <=> \E l \in Loop : Busy(l)
  /\ inFlight = 1 <=> processing

(* No lost wakeup: while a job waits in the queue, some loop is on its way *)
(* back to it, whatever enqueue(), failures and stop() did in between.     *)
NoStrandedJob == queue # <<>> => \E l \in Loop : Busy(l)

(* The jobs waiting are the latest accepted ones, each once and in order:  *)
(* nothing is lost, duplicated or reordered between push, shift, retries   *)
(* and the shutdown drop.                                                  *)
QueueIsTail ==
  /\ Len(queue) <= accepted
  /\ \A i \in 1..Len(queue) : queue[i] = (accepted - Len(queue)) + i
  /\ \A j \in DOMAIN fate : fate[j] = "queued" <=> j > accepted - Len(queue)

(* Jobs reach Postgres in the order they arrived: when one has been        *)
(* written or given up, no earlier one is still pending.                   *)
SettledInOrder ==
  \A j, k \in DOMAIN fate :
    k < j /\ fate[j] \in {"written", "failed"} => fate[k] \notin {"queued", "writing"}

(* Once stop() has been called the queue stays closed, unless a write      *)
(* fails afterwards: that failure turns "draining" or "stopped" into       *)
(* "degraded", and enqueue() accepts jobs again.                           *)
ClosedUnlessWriteFailed ==
  Stopping /\ state \notin {"draining", "stopped"} => failedAfterStop

(* With no loop active and no stop() waiting, the status last published to *)
(* the dashboards is the current one, except for inFlight: the last        *)
(* emitStatus() comes before the finally that resets it.                   *)
PublishedIsCurrent ==
  (\A l \in Loop : ~Busy(l)) /\ (\A s \in Stopper : stopper[s] # "waiting") =>
    published = Status(state, Len(queue), published.inFlight, writtenJobs, failed, dropped)

(* A settled job keeps its outcome for ever, and only an unsettled job of  *)
(* the queue is dropped: a late success or failure of a write that outlives*)
(* stop() never changes what was already counted.                          *)
OutcomesAreFinal ==
  [][\A j \in DOMAIN fate :
       /\ fate[j] \in {"written", "failed", "dropped"} => fate'[j] = fate[j]
       /\ fate'[j] = "dropped" => fate[j] \in {"queued", "dropped"}]_vars

(* The outcome of each accepted ticket as IngestionContract sees it.       *)
Ledger == [j \in DOMAIN fate |-> IF fate[j] \in {"queued", "writing"} THEN "open" ELSE fate[j]]

Contract == INSTANCE IngestionContract WITH Backlog <- MaxQueueDepth, ledger <- Ledger

(* The queue with its loops, retries and shutdown keeps the promise of     *)
(* IngestionContract: one server, in order, one outcome per job, bounded.  *)
KeepsContract == Contract!Spec

(* stop() returns within its deadline even when the database never answers.*)
StopTerminates == \A s \in Stopper : stopper[s] = "waiting" ~> stopper[s] = "returned"

(* When the database answers, every accepted job is written, given up or   *)
(* dropped by stop().                                                      *)
EveryJobSettles ==
  DatabaseFairness =>
    \A j \in 1..MaxOffers :
      (j \in DOMAIN fate) ~> (j \in DOMAIN fate /\ fate[j] \in {"written", "failed", "dropped"})
=============================================================================
