----------------------------- MODULE EventStore -----------------------------
(***************************************************************************)
(* apps/server/src/events/eventStore.ts: the ring buffers of recent events *)
(* and the map that drops an event received again within DEDUPE_TTL_MS.    *)
(* Everything here is synchronous, so one call is one step.  The sockets'  *)
(* statuses, the latency samples and the times of the last events are left *)
(* out: they are overwritten by each call and decide nothing.              *)
(***************************************************************************)
EXTENDS Naturals, Sequences, FiniteSetsExt, Functions

CONSTANTS
  Id,              \* ids of normalized events
  FeedOf(_),       \* the feed an id ends with
  BufferSize,      \* EVENT_BUFFER_SIZE
  Ttl,             \* DEDUPE_TTL_MS
  SweepLimit,      \* EVENT_BUFFER_SIZE * 20: entries cleanupDedupe() tolerates
  MaxNow,          \* bound of the model: the clock
  MaxReceived      \* bound of the model: calls of addEvent()

ASSUME EventStoreAssumption ==
  /\ {BufferSize, Ttl} \subseteq Nat \ {0}
  /\ {SweepLimit, MaxNow, MaxReceived} \subseteq Nat

VARIABLES
  now,        \* Date.now()
  buffers,    \* events of each feed, newest first
  dedupe,     \* id -> expiry
  counters,   \* received, stored, deduplicated
  fates       \* history: every call of addEvent()

storeVars == <<now, buffers, dedupe, counters, fates>>

Feed == {FeedOf(id) : id \in Id}
Event(id) == [id |-> id, at |-> now]

InitStore ==
  /\ now = 0
  /\ buffers = [f \in Feed |-> <<>>]
  /\ dedupe = <<>>
  /\ counters = [received |-> 0, stored |-> 0, deduplicated |-> 0]
  /\ fates = <<>>

Prefix(s, n) == SubSeq(s, 1, Min({n, Len(s)}))

-----------------------------------------------------------------------------
(* addEvent() *)

Swept ==
  IF Cardinality(DOMAIN dedupe) <= SweepLimit
  THEN dedupe
  ELSE Restrict(dedupe, {id \in DOMAIN dedupe : dedupe[id] > now})

PresentDuplicate(id) == id \in DOMAIN Swept
Duplicate(id) == id \in DOMAIN Swept /\ Swept[id] > now

Pushed(buffer, event) == Prefix(<<event>> \o buffer, BufferSize)

Fate(id, stored) == [id |-> id, at |-> now, stored |-> stored]

Counted(stored) ==
  [counters EXCEPT !.received = @ + 1,
                   !.stored = IF stored THEN @ + 1 ELSE @,
                   !.deduplicated = IF stored THEN @ ELSE @ + 1]

Deduplicate(id) ==
  /\ Len(fates) < MaxReceived
  /\ Duplicate(id)
  /\ dedupe' = Swept
  /\ counters' = Counted(FALSE)
  /\ fates' = Append(fates, Fate(id, FALSE))
  /\ UNCHANGED <<now, buffers>>

Store(id) ==
  /\ Len(fates) < MaxReceived
  /\ ~Duplicate(id)
  /\ dedupe' = [i \in DOMAIN Swept \cup {id} |-> IF i = id THEN now + Ttl ELSE Swept[i]]
  /\ buffers' = [buffers EXCEPT ![FeedOf(id)] = Pushed(@, Event(id))]
  /\ counters' = Counted(TRUE)
  /\ fates' = Append(fates, Fate(id, TRUE))
  /\ UNCHANGED now

Tick ==
  /\ now < MaxNow
  /\ now' = now + 1
  /\ UNCHANGED <<buffers, dedupe, counters, fates>>

NextStore == Tick \/ \E id \in Id : Deduplicate(id) \/ Store(id)

SpecStore == InitStore /\ [][NextStore]_storeVars

-----------------------------------------------------------------------------
(* Properties *)

Received == 1..Len(fates)

(* Types; the three counters are the lengths of what was received, stored  *)
(* and dropped, whatever the clean-up of the map did in between.           *)
StoreTypeOK ==
  /\ now \in 0..MaxNow
  /\ \A f \in Feed : buffers[f] \in Seq([id : {id \in Id : FeedOf(id) = f}, at : 0..MaxNow])
  /\ DOMAIN dedupe \subseteq Id
  /\ counters.received = Len(fates)
  /\ counters.stored = Len(SelectSeq(fates, LAMBDA e : e.stored))
  /\ counters.received = counters.stored + counters.deduplicated

(* An event is dropped exactly if its id was stored less than Ttl before:  *)
(* a duplicate does not extend the window, and neither the size of the map *)
(* nor its clean-up shortens it (addEvent, cleanupDedupe).                 *)
DedupeWindow ==
  \A j \in Received :
    fates[j].stored <=>
      ~\E i \in 1..(j - 1) :
         /\ fates[i].stored
         /\ fates[i].id = fates[j].id
         /\ fates[j].at < fates[i].at + Ttl

=============================================================================
