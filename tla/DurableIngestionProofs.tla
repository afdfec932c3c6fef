----------------------- MODULE DurableIngestionProofs -----------------------
(***************************************************************************)
(* Proofs about DurableIngestion, for every queue depth, retry limit and   *)
(* number of callers.                                                      *)
(***************************************************************************)
EXTENDS DurableIngestion, SequenceTheorems, FiniteSetTheorems, TLAPS

-----------------------------------------------------------------------------
(* The queue and the history as data: q holds the last Len(q) of the n     *)
(* tickets of f, which are exactly the queued ones.                        *)
Tickets(q, f, n) ==
  /\ n \in Nat
  /\ q \in Seq(Nat) /\ f \in Seq(Fates)
  /\ Len(f) = n /\ Len(q) <= n
  /\ \A i \in 1..Len(q) : q[i] = (n - Len(q)) + i
  /\ \A j \in 1..n : f[j] = "queued" <=> j > n - Len(q)

(* Every ticket after the one being written still waits or was shed. *)
Ordered(f) ==
  \A j, k \in DOMAIN f : f[j] = "writing" /\ j < k => f[k] \in {"queued", "dropped"}

(* Taking the head of the queue makes it the one ticket being written. *)
LEMMA ShiftTickets ==
  ASSUME NEW q, NEW f, NEW n, Tickets(q, f, n), q # <<>>,
         \A j \in DOMAIN f : f[j] # "writing",
         NEW g, g = [f EXCEPT ![Head(q)] = "writing"]
  PROVE  /\ Tickets(Tail(q), g, n)
         /\ Ordered(g)
         /\ Head(q) \in DOMAIN g
         /\ \A j \in DOMAIN g : g[j] = "writing" <=> j = Head(q)
<1>1. /\ n \in Nat /\ q \in Seq(Nat) /\ f \in Seq(Fates) /\ Len(f) = n /\ Len(q) <= n
      /\ DOMAIN f = 1..n /\ Len(q) \in Nat \ {0}
  BY EmptySeq, LenProperties DEF Tickets
<1>2. Head(q) = q[1] /\ Head(q) = (n - Len(q)) + 1 /\ Head(q) \in 1..n
  BY <1>1 DEF Tickets
<1>3. /\ g \in Seq(Fates) /\ Len(g) = n /\ DOMAIN g = 1..n
      /\ \A j \in 1..n : g[j] = IF j = Head(q) THEN "writing" ELSE f[j]
  <2>1. "writing" \in Fates
    BY DEF Fates
  <2>2. QED
    BY <1>1, <1>2, <2>1, ExceptSeq, LenProperties
<1>4. /\ Tail(q) \in Seq(Nat) /\ Len(Tail(q)) = Len(q) - 1
      /\ \A i \in 1..Len(Tail(q)) : Tail(q)[i] = q[i + 1]
  BY <1>1, HeadTailProperties
<1>5. \A i \in 1..Len(Tail(q)) : Tail(q)[i] = (n - Len(Tail(q))) + i
  BY <1>1, <1>4 DEF Tickets
<1>6. \A j \in 1..n : g[j] = "queued" <=> j > n - Len(Tail(q))
  BY <1>1, <1>2, <1>3, <1>4 DEF Tickets
<1>7. Ordered(g)
  BY <1>1, <1>2, <1>3 DEF Tickets, Ordered
<1>8. QED
  BY <1>1, <1>2, <1>3, <1>4, <1>5, <1>6, <1>7 DEF Tickets

(* A new ticket goes behind the others. *)
LEMMA PushTickets ==
  ASSUME NEW q, NEW f, NEW n, Tickets(q, f, n), Ordered(f),
         NEW r, r = Append(q, n + 1), NEW g, g = Append(f, "queued")
  PROVE  /\ Tickets(r, g, n + 1)
         /\ Ordered(g)
         /\ \A j \in DOMAIN g : g[j] = "writing" <=> (j \in DOMAIN f /\ f[j] = "writing")
<1>1. /\ n \in Nat /\ q \in Seq(Nat) /\ f \in Seq(Fates) /\ Len(f) = n /\ Len(q) <= n
      /\ DOMAIN f = 1..n /\ Len(q) \in Nat
  BY LenProperties DEF Tickets
<1>2. /\ r \in Seq(Nat) /\ Len(r) = Len(q) + 1 /\ r[Len(q) + 1] = n + 1
      /\ \A i \in 1..Len(q) : r[i] = q[i]
  BY <1>1, AppendProperties
<1>3. /\ g \in Seq(Fates) /\ Len(g) = n + 1 /\ DOMAIN g = 1..(n + 1) /\ g[n + 1] = "queued"
      /\ \A j \in 1..n : g[j] = f[j]
  <2>1. "queued" \in Fates
    BY DEF Fates
  <2>2. QED
    BY <1>1, <2>1, AppendProperties, LenProperties
<1>4. \A i \in 1..Len(r) : r[i] = ((n + 1) - Len(r)) + i
  BY <1>1, <1>2 DEF Tickets
<1>5. \A j \in 1..(n + 1) : g[j] = "queued" <=> j > (n + 1) - Len(r)
  BY <1>1, <1>2, <1>3 DEF Tickets
<1>6. Ordered(g)
  BY <1>1, <1>3 DEF Ordered
<1>7. \A j \in DOMAIN g : g[j] = "writing" <=> (j \in DOMAIN f /\ f[j] = "writing")
  BY <1>1, <1>3
<1>8. Tickets(r, g, n + 1)
  BY <1>1, <1>2, <1>3, <1>4, <1>5 DEF Tickets
<1>9. QED
  BY <1>6, <1>7, <1>8

(* Settling the ticket being written leaves none being written. *)
LEMMA SettleTickets ==
  ASSUME NEW q, NEW f, NEW n, Tickets(q, f, n), Ordered(f),
         NEW j \in DOMAIN f, f[j] = "writing",
         NEW v \in {"written", "failed"}, NEW g, g = [f EXCEPT ![j] = v]
  PROVE  /\ Tickets(q, g, n)
         /\ \A k \in DOMAIN g : g[k] # "writing"
<1>1. /\ n \in Nat /\ q \in Seq(Nat) /\ f \in Seq(Fates) /\ Len(f) = n /\ Len(q) <= n
      /\ DOMAIN f = 1..n /\ Len(q) \in Nat
  BY LenProperties DEF Tickets
<1>2. /\ g \in Seq(Fates) /\ Len(g) = n /\ DOMAIN g = 1..n
      /\ \A k \in 1..n : g[k] = IF k = j THEN v ELSE f[k]
  <2>1. v \in Fates
    BY DEF Fates
  <2>2. QED
    BY <1>1, <2>1, ExceptSeq, LenProperties
<1>3. \A k \in 1..n : k # j => f[k] # "writing"
  BY <1>1 DEF Ordered
<1>4. QED
  BY <1>1, <1>2, <1>3 DEF Tickets

(* Shedding the queue leaves the ticket being written alone. *)
LEMMA ShedTickets ==
  ASSUME NEW q, NEW f, NEW n, Tickets(q, f, n), Ordered(f),
         NEW g, g = [j \in DOMAIN f |-> IF f[j] = "queued" THEN "dropped" ELSE f[j]]
  PROVE  /\ Tickets(<<>>, g, n)
         /\ Ordered(g)
         /\ DOMAIN g = DOMAIN f
         /\ \A j \in DOMAIN f : g[j] = "writing" <=> f[j] = "writing"
<1>1. /\ n \in Nat /\ q \in Seq(Nat) /\ f \in Seq(Fates) /\ Len(f) = n /\ DOMAIN f = 1..n
      /\ \A j \in 1..n : f[j] \in Fates
  BY LenProperties, ElementOfSeq DEF Tickets
<1>2. g \in [1..n -> Fates]
  BY <1>1 DEF Fates
<1>3. g \in Seq(Fates) /\ Len(g) = n
  <2>1. g \in Seq(Fates)
    BY <1>1, <1>2, SeqDef
  <2>2. DOMAIN g = 1..n /\ DOMAIN g = 1..Len(g) /\ Len(g) \in Nat
    BY <1>2, <2>1, LenProperties
  <2>3. QED
    BY <1>1, <2>1, <2>2
<1>4. <<>> \in Seq(Nat) /\ Len(<<>>) = 0
  BY EmptySeq
<1>5. QED
  BY <1>1, <1>2, <1>3, <1>4 DEF Tickets, Ordered

-----------------------------------------------------------------------------
(* The structural invariant: the queue, the loops and the history. *)
Held ==
  /\ \A l \in Loop : loop[l] \in Writing => item[l] \in DOMAIN fate /\ fate[item[l]] = "writing"
  /\ \A j \in DOMAIN fate : fate[j] = "writing" =>
       \E l \in Loop : loop[l] \in Writing /\ item[l] = j

LoopTypes ==
  /\ processing \in BOOLEAN
  /\ inFlight \in {0, 1}
  /\ loop \in [Loop -> {"idle", "writing", "backoff", "recording"}]
  /\ item \in [Loop -> Nat]
  /\ attempt \in [Loop -> 0..MaxRetries]

QueueInv ==
  /\ LoopTypes
  /\ Tickets(queue, fate, accepted)
  /\ Ordered(fate)
  /\ Held
  /\ SingleWriter
  /\ NoStrandedJob

queueVars == <<queue, processing, inFlight, loop, item, attempt, fate, accepted>>

LEMMA StutterQueueInv == QueueInv /\ UNCHANGED queueVars => QueueInv'
BY DEF QueueInv, queueVars, LoopTypes, Tickets, Ordered, Held, SingleWriter, NoStrandedJob, Busy

(* The invariant holds after a loop that was alone, or none, takes the     *)
(* head of a nonempty queue.                                               *)
LEMMA StartNextQueueInv ==
  ASSUME LoopTypes, NEW l \in Loop, \A k \in Loop : Busy(k) => k = l,
         NEW q, NEW f, Tickets(q, f, accepted'), q # <<>>,
         \A j \in DOMAIN f : f[j] # "writing",
         StartNext(l, q, f)
  PROVE  QueueInv'
<1>1. /\ queue' = Tail(q) /\ processing' = TRUE /\ inFlight' = 1
      /\ loop' = [loop EXCEPT ![l] = "writing"]
      /\ item' = [item EXCEPT ![l] = Head(q)]
      /\ attempt' = [attempt EXCEPT ![l] = 0]
      /\ fate' = [f EXCEPT ![Head(q)] = "writing"]
  BY DEF StartNext
<1>2. /\ Tickets(queue', fate', accepted') /\ Ordered(fate')
      /\ Head(q) \in DOMAIN fate'
      /\ \A j \in DOMAIN fate' : fate'[j] = "writing" <=> j = Head(q)
  BY <1>1, ShiftTickets
<1>3. Head(q) \in Nat
  <2>1. q \in Seq(Nat)
    BY DEF Tickets
  <2>2. QED
    BY <2>1, HeadTailProperties
<1>4. LoopTypes'
  BY <1>1, <1>3, DurableIngestionAssumption DEF LoopTypes
<1>5. /\ loop'[l] = "writing" /\ item'[l] = Head(q)
      /\ \A k \in Loop : k # l => loop'[k] = "idle"
  BY <1>1 DEF LoopTypes, Busy
<1>6. Held'
  BY <1>2, <1>5 DEF Held, Writing
<1>7. SingleWriter' /\ NoStrandedJob'
  BY <1>1, <1>5 DEF SingleWriter, NoStrandedJob, Busy
<1>8. QED
  BY <1>2, <1>4, <1>6, <1>7 DEF QueueInv, Tickets, Ordered

(* The invariant holds after a loop is done with its item. *)
LEMMA ContinueQueueInv ==
  ASSUME QueueInv, NEW l \in Loop, Busy(l),
         NEW f, Tickets(queue, f, accepted), \A j \in DOMAIN f : f[j] # "writing",
         Continue(l, f), accepted' = accepted
  PROVE  QueueInv'
<1>1. LoopTypes /\ \A k \in Loop : Busy(k) => k = l
  BY DEF QueueInv, SingleWriter
<1>2. CASE queue # <<>> /\ StartNext(l, queue, f)
  BY <1>1, <1>2, StartNextQueueInv
<1>3. CASE /\ queue = <<>>
           /\ processing' = FALSE /\ inFlight' = 0
           /\ loop' = [loop EXCEPT ![l] = "idle"]
           /\ fate' = f
           /\ UNCHANGED <<queue, item, attempt>>
  <2>1. \A k \in Loop : loop'[k] = "idle"
    BY <1>1, <1>3 DEF LoopTypes, Busy
  <2>2. LoopTypes'
    BY <1>1, <1>3 DEF LoopTypes
  <2>3. Ordered(fate') /\ Tickets(queue', fate', accepted')
    BY <1>3 DEF Ordered
  <2>4. Held' /\ SingleWriter' /\ NoStrandedJob'
    BY <1>3, <2>1 DEF Held, SingleWriter, NoStrandedJob, Busy, Writing
  <2>5. QED
    BY <2>2, <2>3, <2>4 DEF QueueInv, Ordered, Tickets
<1>4. QED
  BY <1>2, <1>3 DEF Continue

LEMMA InitQueueInv == Init => QueueInv
<1>1. SUFFICES ASSUME Init PROVE QueueInv
  OBVIOUS
<1>2. Tickets(<<>>, <<>>, 0) /\ Ordered(<<>>)
  <2>1. /\ <<>> \in Seq(Nat) /\ <<>> \in Seq(Fates) /\ Len(<<>>) = 0
    BY EmptySeq
  <2>2. QED
    BY <2>1 DEF Tickets, Ordered
<1>3. LoopTypes
  <2>1. MaxRetries \in Nat
    BY DurableIngestionAssumption
  <2>2. /\ processing = FALSE /\ inFlight = 0
        /\ loop = [l \in Loop |-> "idle"]
        /\ item = [l \in Loop |-> 0] /\ attempt = [l \in Loop |-> 0]
    BY <1>1 DEF Init
  <2>3. processing \in BOOLEAN
    BY <2>2
  <2>4. attempt \in [Loop -> 0..MaxRetries] /\ item \in [Loop -> Nat]
    BY <2>1, <2>2
  <2>5. loop \in [Loop -> {"idle", "writing", "backoff", "recording"}]
    BY <2>2
  <2>6. QED
    BY <2>2, <2>3, <2>4, <2>5 DEF LoopTypes
<1>4. SingleWriter /\ NoStrandedJob
  BY <1>1 DEF Init, SingleWriter, NoStrandedJob, Busy
<1>5. DOMAIN fate = {}
  <2>1. <<>> \in Seq(Fates) /\ Len(<<>>) = 0
    BY EmptySeq
  <2>2. DOMAIN <<>> = 1..0
    BY <2>1, LenProperties
  <2>3. QED
    BY <1>1, <2>2 DEF Init
<1>6. Held
  BY <1>1, <1>5 DEF Init, Held, Writing
<1>7. QED
  BY <1>1, <1>2, <1>3, <1>4, <1>6 DEF Init, QueueInv

-----------------------------------------------------------------------------
(* One lemma per action that touches the structure. *)

LEMMA AcceptQueueInv == QueueInv /\ EnqueueAccepted => QueueInv'
<1>1. SUFFICES ASSUME QueueInv, EnqueueAccepted PROVE QueueInv'
  OBVIOUS
<1>. DEFINE q == Append(queue, accepted')
            f == Append(fate, "queued")
<1>2. accepted' = accepted + 1 /\ ScheduleProcessing(q, f)
  BY <1>1 DEF EnqueueAccepted, Closed, Full
<1>3. /\ Tickets(q, f, accepted') /\ Ordered(f)
      /\ \A j \in DOMAIN f : f[j] = "writing" <=> (j \in DOMAIN fate /\ fate[j] = "writing")
  BY <1>1, <1>2, PushTickets DEF QueueInv
<1>4. q # <<>>
  <2>1. queue \in Seq(Nat) /\ accepted' \in Nat
    BY <1>1, <1>2 DEF QueueInv, Tickets
  <2>2. QED
    BY <2>1, AppendProperties
<1>5. CASE ~processing /\ \E l \in Loop : loop[l] = "idle" /\ StartNext(l, q, f)
  <2>1. PICK l \in Loop : StartNext(l, q, f)
    BY <1>5
  <2>2. \A k \in Loop : ~Busy(k)
    BY <1>1, <1>5 DEF QueueInv, SingleWriter
  <2>3. \A j \in DOMAIN f : f[j] # "writing"
    BY <1>1, <1>3, <2>2 DEF QueueInv, Held, Busy, Writing
  <2>4. LoopTypes
    BY <1>1 DEF QueueInv
  <2>5. QED
    BY <1>3, <1>4, <2>1, <2>2, <2>3, <2>4, StartNextQueueInv
<1>6. CASE /\ processing
           /\ queue' = q /\ fate' = f
           /\ UNCHANGED <<processing, inFlight, loopVars>>
  <2>1. Tickets(queue', fate', accepted') /\ Ordered(fate')
    BY <1>3, <1>6
  <2>2. LoopTypes' /\ SingleWriter'
    BY <1>1, <1>6 DEF QueueInv, LoopTypes, SingleWriter, Busy, loopVars
  <2>3. \A j \in DOMAIN fate : j \in DOMAIN f
    <3>1. DOMAIN fate = 1..accepted /\ DOMAIN f = 1..(accepted + 1) /\ accepted \in Nat
      BY <1>1, <1>2, <1>3, LenProperties DEF QueueInv, Tickets
    <3>2. QED
      BY <3>1
  <2>4. Held'
    BY <1>1, <1>3, <1>6, <2>3 DEF QueueInv, Held, loopVars
  <2>5. NoStrandedJob'
    BY <1>1, <1>6 DEF QueueInv, SingleWriter, NoStrandedJob, Busy, loopVars
  <2>6. QED
    BY <2>1, <2>2, <2>4, <2>5 DEF QueueInv, Tickets, Ordered
<1>7. QED
  BY <1>2, <1>4, <1>5, <1>6 DEF ScheduleProcessing

LEMMA SucceedsQueueInv ==
  ASSUME NEW l \in Loop, QueueInv, WriteSucceeds(l)
  PROVE  QueueInv'
<1>. DEFINE f == [fate EXCEPT ![item[l]] = "written"]
<1>1. loop[l] = "writing" /\ Continue(l, f) /\ accepted' = accepted
  BY DEF WriteSucceeds, Acknowledged, AfterSuccess
<1>2. item[l] \in DOMAIN fate /\ fate[item[l]] = "writing"
  BY <1>1 DEF QueueInv, Held, Writing
<1>3. Tickets(queue, f, accepted) /\ \A j \in DOMAIN f : f[j] # "writing"
  BY <1>2, SettleTickets DEF QueueInv
<1>4. QED
  BY <1>1, <1>3, ContinueQueueInv DEF Busy

LEMMA FailsQueueInv ==
  ASSUME NEW l \in Loop, QueueInv, WriteFails(l)
  PROVE  QueueInv'
<1>1. /\ loop[l] = "writing"
      /\ loop' = [loop EXCEPT ![l] = "recording"]
      /\ fate' = [fate EXCEPT ![item[l]] = "failed"]
      /\ UNCHANGED <<queue, processing, inFlight, accepted, item, attempt>>
  BY DEF WriteFails, AfterFailure
<1>2. item[l] \in DOMAIN fate /\ fate[item[l]] = "writing"
  BY <1>1 DEF QueueInv, Held, Writing
<1>3. Tickets(queue, fate', accepted) /\ \A j \in DOMAIN fate' : fate'[j] # "writing"
  <2>. DEFINE f == [fate EXCEPT ![item[l]] = "failed"]
  <2>1. Tickets(queue, f, accepted) /\ \A j \in DOMAIN f : f[j] # "writing"
    BY <1>2, SettleTickets DEF QueueInv
  <2>2. QED
    BY <1>1, <2>1
<1>4. \A k \in Loop : loop'[k] \notin Writing /\ (Busy(k)' <=> Busy(k))
  BY <1>1 DEF QueueInv, LoopTypes, SingleWriter, Busy, Writing
<1>5. LoopTypes'
  BY <1>1 DEF QueueInv, LoopTypes
<1>6. SingleWriter' /\ NoStrandedJob'
  BY <1>1, <1>4 DEF QueueInv, SingleWriter, NoStrandedJob
<1>7. Held' /\ Ordered(fate')
  BY <1>3, <1>4 DEF Held, Ordered
<1>8. QED
  BY <1>1, <1>3, <1>5, <1>6, <1>7 DEF QueueInv, Tickets, Ordered

(* A retry moves the loop between two awaits inside writeWithRetry(). *)
LEMMA RetryQueueInv ==
  ASSUME NEW l \in Loop, QueueInv, RetryWrite(l) \/ ResumeWrite(l)
  PROVE  QueueInv'
<1>1. /\ loop[l] \in Writing
      /\ \E w \in Writing : loop' = [loop EXCEPT ![l] = w]
      /\ UNCHANGED <<queue, processing, inFlight, accepted, item, fate>>
  BY DEF RetryWrite, ResumeWrite, Writing, counters, CanRetry
<1>2. attempt' \in [Loop -> 0..MaxRetries]
  <2>1. MaxRetries \in Nat
    BY DurableIngestionAssumption
  <2>2. QED
    BY <2>1 DEF QueueInv, LoopTypes, RetryWrite, ResumeWrite, CanRetry
<1>3. LoopTypes'
  BY <1>1, <1>2 DEF QueueInv, LoopTypes, Writing
<1>4. \A k \in Loop : (Busy(k)' <=> Busy(k)) /\ (loop'[k] \in Writing <=> loop[k] \in Writing)
  BY <1>1 DEF QueueInv, LoopTypes, Busy, Writing
<1>5. SingleWriter' /\ NoStrandedJob' /\ Held'
  BY <1>1, <1>4 DEF QueueInv, SingleWriter, NoStrandedJob, Held
<1>6. QED
  BY <1>1, <1>3, <1>5 DEF QueueInv, Tickets, Ordered

LEMMA RecordedQueueInv ==
  ASSUME NEW l \in Loop, QueueInv, FailureRecorded(l)
  PROVE  QueueInv'
<1>1. loop[l] = "recording" /\ Continue(l, fate) /\ accepted' = accepted
  BY DEF FailureRecorded, counters
<1>2. \A k \in Loop : loop[k] \notin Writing
  BY <1>1 DEF QueueInv, SingleWriter, Busy, Writing
<1>3. \A j \in DOMAIN fate : fate[j] # "writing"
  BY <1>2 DEF QueueInv, Held
<1>4. QED
  BY <1>1, <1>3, ContinueQueueInv DEF QueueInv, Busy

(* stop() finds no loop to start: an idle queue is empty. *)
LEMMA StopCalledQueueInv ==
  ASSUME NEW s \in Stopper, QueueInv, StopCalled(s)
  PROVE  QueueInv'
<1>1. ScheduleProcessing(queue, fate) /\ accepted' = accepted
  BY DEF StopCalled, counters
<1>2. processing \/ queue = <<>>
  BY DEF QueueInv, SingleWriter, NoStrandedJob
<1>3. UNCHANGED queueVars
  BY <1>1, <1>2 DEF ScheduleProcessing, queueVars, loopVars
<1>4. QED
  BY <1>3, StutterQueueInv

LEMMA StopReturnsQueueInv ==
  ASSUME NEW s \in Stopper, QueueInv, StopReturns(s)
  PROVE  QueueInv'
<1>1. /\ queue' = <<>>
      /\ fate' = [j \in DOMAIN fate |-> IF fate[j] = "queued" THEN "dropped" ELSE fate[j]]
      /\ UNCHANGED <<processing, inFlight, accepted, loop, item, attempt>>
  BY DEF StopReturns, loopVars, Shed, ShedFates, Announced
<1>2. /\ Tickets(queue', fate', accepted') /\ Ordered(fate')
      /\ DOMAIN fate' = DOMAIN fate
      /\ \A j \in DOMAIN fate : fate'[j] = "writing" <=> fate[j] = "writing"
  BY <1>1, ShedTickets DEF QueueInv
<1>3. LoopTypes' /\ SingleWriter' /\ NoStrandedJob'
  BY <1>1 DEF QueueInv, LoopTypes, SingleWriter, NoStrandedJob, Busy
<1>4. Held'
  BY <1>1, <1>2 DEF QueueInv, Held
<1>5. QED
  BY <1>2, <1>3, <1>4 DEF QueueInv, Tickets, Ordered

LEMMA NextQueueInv == QueueInv /\ [Next]_vars => QueueInv'
<1>1. SUFFICES ASSUME QueueInv, [Next]_vars PROVE QueueInv'
  OBVIOUS
<1>2. CASE EnqueueAccepted
  BY <1>1, <1>2, AcceptQueueInv
<1>3. CASE \E l \in Loop : Process(l)
  BY <1>1, <1>3, SucceedsQueueInv, FailsQueueInv, RetryQueueInv, RecordedQueueInv DEF Process
<1>4. CASE \E s \in Stopper : StopCalled(s) \/ StopReturns(s)
  BY <1>1, <1>4, StopCalledQueueInv, StopReturnsQueueInv
<1>5. CASE \/ EnqueueRefused \/ EnqueueOverflow \/ CommitTransaction
           \/ \E s \in Stopper : StopIgnored(s) \/ DeadlinePasses(s)
           \/ UNCHANGED vars
  <2>1. UNCHANGED queueVars
    BY <1>5 DEF EnqueueRefused, EnqueueOverflow, CommitTransaction, StopIgnored,
                DeadlinePasses, vars, queueVars, loopVars, counters, Closed, Full
  <2>2. QED
    BY <1>1, <2>1, StutterQueueInv
<1>6. QED
  BY <1>1, <1>2, <1>3, <1>4, <1>5 DEF Next, Enqueue, Stop

-----------------------------------------------------------------------------
(* The life of a ticket *)

(* A ticket is queued, then written to Postgres or shed by stop(), and     *)
(* settles at most once; "written" needs a commit.                         *)
Life(was, is, committed) ==
  \/ is = was
  \/ was = "queued"  /\ is \in {"writing", "dropped"}
  \/ was = "writing" /\ is = "failed"
  \/ was = "writing" /\ is = "written" /\ committed

LifeStep ==
  /\ \A j \in DOMAIN fate : j \in DOMAIN fate' /\ Life(fate[j], fate'[j], j \in durable)
  /\ \A j \in DOMAIN fate' \ DOMAIN fate : fate'[j] \in {"queued", "writing"}

(* A step that may also take the head of the queue, from the fates f. *)
Picks(f) ==
  /\ DOMAIN fate' = DOMAIN f
  /\ \A j \in DOMAIN f : \/ fate'[j] = f[j]
                         \/ f[j] = "queued" /\ fate'[j] = "writing"

LEMMA StartNextLife ==
  ASSUME NEW l, NEW q, NEW f, NEW n, Tickets(q, f, n), q # <<>>, StartNext(l, q, f)
  PROVE  Picks(f)
<1>1. /\ n \in Nat /\ q \in Seq(Nat) /\ f \in Seq(Fates) /\ Len(f) = n /\ Len(q) <= n
      /\ DOMAIN f = 1..n /\ Len(q) \in Nat \ {0}
  BY EmptySeq, LenProperties DEF Tickets
<1>2. Head(q) = q[1] /\ Head(q) = (n - Len(q)) + 1 /\ Head(q) \in 1..n
  BY <1>1 DEF Tickets
<1>3. f[Head(q)] = "queued"
  BY <1>1, <1>2 DEF Tickets
<1>4. fate' = [f EXCEPT ![Head(q)] = "writing"]
  BY DEF StartNext
<1>5. QED
  BY <1>1, <1>2, <1>3, <1>4 DEF Picks

LEMMA ContinueLife ==
  ASSUME NEW l, NEW f, NEW n, Tickets(queue, f, n), Continue(l, f)
  PROVE  Picks(f)
BY StartNextLife DEF Continue, Picks

(* Accepting a job adds its ticket and changes no other outcome. *)
LEMMA AcceptLife ==
  ASSUME QueueInv, EnqueueAccepted
  PROVE  /\ LifeStep
         /\ \A j \in DOMAIN fate : \/ fate'[j] = fate[j]
                                   \/ fate[j] = "queued" /\ fate'[j] = "writing"
<1>. DEFINE q == Append(queue, accepted')
            f == Append(fate, "queued")
<1>1. accepted' = accepted + 1 /\ ScheduleProcessing(q, f)
  BY DEF EnqueueAccepted, Closed, Full
<1>2. Tickets(q, f, accepted')
  BY <1>1, PushTickets DEF QueueInv
<1>3. /\ \A j \in DOMAIN fate : j \in DOMAIN f /\ f[j] = fate[j]
      /\ \A j \in DOMAIN f \ DOMAIN fate : f[j] = "queued"
  <2>1. fate \in Seq(Fates) /\ "queued" \in Fates
    BY DEF QueueInv, Tickets, Fates
  <2>2. /\ DOMAIN fate = 1..Len(fate) /\ DOMAIN f = 1..Len(f) /\ Len(f) = Len(fate) + 1
        /\ Len(fate) \in Nat /\ f[Len(fate) + 1] = "queued"
        /\ \A j \in 1..Len(fate) : f[j] = fate[j]
    BY <2>1, AppendProperties, LenProperties
  <2>3. QED
    BY <2>2
<1>4. Picks(f)
  <2>1. CASE fate' = f
    BY <2>1 DEF Picks
  <2>2. CASE q # <<>> /\ \E l \in Loop : StartNext(l, q, f)
    BY <1>2, <2>2, StartNextLife
  <2>3. QED
    BY <1>1, <2>1, <2>2 DEF ScheduleProcessing
<1>5. QED
  BY <1>3, <1>4 DEF LifeStep, Life, Picks

(* A successful write settles the loop's ticket alone. *)
LEMMA SucceedsLife ==
  ASSUME QueueInv, NEW l \in Loop, WriteSucceeds(l)
  PROVE  /\ item[l] \in DOMAIN fate /\ fate[item[l]] = "writing" /\ item[l] \in durable
         /\ Picks([fate EXCEPT ![item[l]] = "written"])
<1>. DEFINE f == [fate EXCEPT ![item[l]] = "written"]
<1>1. loop[l] = "writing" /\ item[l] \in durable /\ Continue(l, f)
  BY DEF WriteSucceeds, Acknowledged, AfterSuccess
<1>2. item[l] \in DOMAIN fate /\ fate[item[l]] = "writing"
  BY <1>1 DEF QueueInv, Held, Writing
<1>3. Tickets(queue, f, accepted)
  BY <1>2, SettleTickets DEF QueueInv
<1>4. QED
  BY <1>1, <1>2, <1>3, ContinueLife

LEMMA FailsLife ==
  ASSUME QueueInv, NEW l \in Loop, WriteFails(l)
  PROVE  /\ item[l] \in DOMAIN fate /\ fate[item[l]] = "writing"
         /\ fate' = [fate EXCEPT ![item[l]] = "failed"]
BY DEF WriteFails, QueueInv, Held, Writing, AfterFailure

LEMMA RecordedLife ==
  ASSUME QueueInv, NEW l \in Loop, FailureRecorded(l)
  PROVE  Picks(fate)
BY ContinueLife DEF FailureRecorded, QueueInv

LEMMA StopCalledLife ==
  ASSUME QueueInv, NEW s \in Stopper, StopCalled(s)
  PROVE  fate' = fate
<1>1. processing \/ queue = <<>>
  BY DEF QueueInv, SingleWriter, NoStrandedJob
<1>2. QED
  BY <1>1 DEF StopCalled, ScheduleProcessing

(* The steps that leave the history alone. *)
Quiet ==
  \/ EnqueueRefused \/ EnqueueOverflow \/ CommitTransaction
  \/ \E l \in Loop : RetryWrite(l) \/ ResumeWrite(l)
  \/ \E s \in Stopper : StopIgnored(s) \/ DeadlinePasses(s)
  \/ UNCHANGED vars

LEMMA QuietLife == Quiet => fate' = fate
BY DEF Quiet, EnqueueRefused, EnqueueOverflow, CommitTransaction, RetryWrite,
   ResumeWrite, StopIgnored, DeadlinePasses, vars, Closed, Full, CanRetry

LEMMA NextLife == QueueInv /\ [Next]_vars => LifeStep
<1>1. SUFFICES ASSUME QueueInv, [Next]_vars PROVE LifeStep
  OBVIOUS
<1>2. CASE EnqueueAccepted
  BY <1>1, <1>2, AcceptLife
<1>3. ASSUME NEW l \in Loop, WriteSucceeds(l) PROVE LifeStep
  BY <1>1, <1>3, SucceedsLife DEF LifeStep, Life, Picks
<1>4. ASSUME NEW l \in Loop, WriteFails(l) PROVE LifeStep
  BY <1>1, <1>4, FailsLife DEF LifeStep, Life
<1>5. ASSUME NEW l \in Loop, FailureRecorded(l) PROVE LifeStep
  BY <1>1, <1>5, RecordedLife DEF LifeStep, Life, Picks
<1>6. ASSUME NEW s \in Stopper, StopReturns(s) PROVE LifeStep
  BY <1>6 DEF StopReturns, LifeStep, Life, Shed, ShedFates, Announced
<1>7. ASSUME fate' = fate PROVE LifeStep
  BY <1>7 DEF LifeStep, Life
<1>8. CASE Quiet \/ \E s \in Stopper : StopCalled(s)
  BY <1>1, <1>7, <1>8, QuietLife, StopCalledLife
<1>9. QED
  BY <1>1, <1>2, <1>3, <1>4, <1>5, <1>6, <1>8 DEF Next, Enqueue, Process, Stop, Quiet

-----------------------------------------------------------------------------
(* Type correctness *)

LEMMA NextTypeOK == QueueInv /\ TypeOK /\ [Next]_vars => TypeOK'
<1>1. SUFFICES ASSUME QueueInv, TypeOK, [Next]_vars PROVE TypeOK'
  OBVIOUS
<1>2. QueueInv'
  BY <1>1, NextQueueInv
<1>3. /\ queue' \in Seq(Nat) /\ fate' \in Seq(Fates) /\ Len(queue') \in Nat /\ Len(queue) \in Nat
      /\ accepted' \in Nat /\ LoopTypes'
      /\ DOMAIN fate \subseteq Nat /\ inFlight' \in {0, 1}
  BY <1>1, <1>2, LenProperties DEF QueueInv, Tickets, LoopTypes
<1>4. CASE EnqueueAccepted
  BY <1>1, <1>3, <1>4 DEF EnqueueAccepted, Offer, TypeOK, LoopTypes, Status, States, stopVars, Closed, Full
<1>5. CASE EnqueueOverflow
  BY <1>1, <1>3, <1>5 DEF EnqueueOverflow, Offer, TypeOK, LoopTypes, Status, States, stopVars, loopVars, Closed, Full
<1>6. CASE EnqueueRefused
  BY <1>1, <1>3, <1>6 DEF EnqueueRefused, Offer, TypeOK, LoopTypes, States, stopVars, loopVars, counters, Closed
<1>7. CASE CommitTransaction
  BY <1>1, <1>3, <1>7 DEF CommitTransaction, TypeOK, LoopTypes, States, stopVars, loopVars, counters
<1>8. ASSUME NEW l \in Loop, WriteSucceeds(l) PROVE TypeOK'
  BY <1>1, <1>3, <1>8 DEF WriteSucceeds, TypeOK, LoopTypes, Status, States, stopVars, Acknowledged, AfterSuccess
<1>9. ASSUME NEW l \in Loop, RetryWrite(l) PROVE TypeOK'
  BY <1>1, <1>3, <1>9 DEF RetryWrite, TypeOK, LoopTypes, States, stopVars, CanRetry
<1>10. ASSUME NEW l \in Loop, ResumeWrite(l) PROVE TypeOK'
  BY <1>1, <1>3, <1>10 DEF ResumeWrite, TypeOK, LoopTypes, States, stopVars, counters
<1>11. ASSUME NEW l \in Loop, WriteFails(l) PROVE TypeOK'
  <2>1. failedAfterStop' \in BOOLEAN
    BY <1>11 DEF WriteFails, AfterFailure
  <2>2. connected' \in BOOLEAN
    BY <1>11 DEF WriteFails, AfterFailure
  <2>3. /\ state' = "degraded" /\ failed' = failed + 1
        /\ published' = Status("degraded", Len(queue), inFlight, writtenJobs, failed', dropped)
        /\ UNCHANGED <<writtenJobs, dropped, retried, stopper, expired, offers, durable>>
    BY <1>11 DEF WriteFails, stopVars, AfterFailure
  <2>4. published' \in [state : States, queueDepth : Nat, inFlight : {0, 1},
                        writtenJobs : Nat, failed : Nat, dropped : Nat]
    BY <1>1, <1>3, <2>3 DEF TypeOK, Status, States
  <2>5. /\ state' \in States /\ failed' \in Nat /\ writtenJobs' \in Nat /\ dropped' \in Nat
        /\ retried' \in Nat /\ offers' \in Nat /\ expired' \in SUBSET Stopper
        /\ durable' \in SUBSET Nat
        /\ stopper' \in [Stopper -> {"idle", "waiting", "returned"}]
    BY <1>1, <2>3 DEF TypeOK, States
  <2>6. QED
    BY <1>3, <2>1, <2>2, <2>4, <2>5 DEF TypeOK, LoopTypes
<1>12. ASSUME NEW l \in Loop, FailureRecorded(l) PROVE TypeOK'
  BY <1>1, <1>3, <1>12 DEF FailureRecorded, TypeOK, LoopTypes, States, stopVars, counters
<1>13. ASSUME NEW s \in Stopper, StopIgnored(s) PROVE TypeOK'
  BY <1>1, <1>3, <1>13 DEF StopIgnored, TypeOK, LoopTypes, States, loopVars, counters
<1>14. ASSUME NEW s \in Stopper, StopCalled(s) PROVE TypeOK'
  <2>1. /\ state' \in {"stopped", "draining"}
        /\ stopper' \in [Stopper -> {"idle", "waiting", "returned"}]
        /\ \/ published' = Status("stopped", 0, 0, writtenJobs, failed, dropped)
           \/ published' = published
        /\ UNCHANGED <<connected, writtenJobs, dropped, failed, retried, expired,
                       offers, durable, failedAfterStop>>
    BY <1>1, <1>14 DEF StopCalled, TypeOK, counters
  <2>2. published' \in [state : States, queueDepth : Nat, inFlight : {0, 1},
                        writtenJobs : Nat, failed : Nat, dropped : Nat]
    BY <1>1, <2>1 DEF TypeOK, Status, States
  <2>3. QED
    BY <1>1, <1>3, <2>1, <2>2 DEF TypeOK, LoopTypes, States
<1>15. ASSUME NEW s \in Stopper, DeadlinePasses(s) PROVE TypeOK'
  BY <1>1, <1>3, <1>15 DEF DeadlinePasses, TypeOK, LoopTypes, States, loopVars, counters
<1>16. ASSUME NEW s \in Stopper, StopReturns(s) PROVE TypeOK'
  BY <1>1, <1>3, <1>16 DEF StopReturns, TypeOK, LoopTypes, Status, States, loopVars, Shed, ShedFates, Announced
<1>17. CASE UNCHANGED vars
  BY <1>1, <1>17 DEF vars, TypeOK, loopVars, counters, stopVars
<1>18. QED
  BY <1>1, <1>4, <1>5, <1>6, <1>7, <1>8, <1>9, <1>10, <1>11, <1>12, <1>13, <1>14,
     <1>15, <1>16, <1>17 DEF Next, Enqueue, Process, Stop

LEMMA InitTypeOK == Init => TypeOK
<1>1. SUFFICES ASSUME Init PROVE TypeOK
  OBVIOUS
<1>2. LoopTypes
  BY <1>1, InitQueueInv DEF QueueInv
<1>3. <<>> \in Seq(Nat) /\ <<>> \in Seq(Fates)
  BY EmptySeq
<1>4. connected \in BOOLEAN /\ failedAfterStop \in BOOLEAN
  BY <1>1 DEF Init
<1>5. QED
  BY <1>1, <1>2, <1>3, <1>4 DEF Init, TypeOK, LoopTypes, Status, States

-----------------------------------------------------------------------------
(* The theorems *)

LEMMA QueueInvariance == Spec => []QueueInv
BY InitQueueInv, NextQueueInv, PTL DEF Spec

(* Every variable keeps its type in every reachable state. *)
THEOREM TypeCorrectness == Spec => []TypeOK
BY InitTypeOK, NextTypeOK, QueueInvariance, PTL DEF Spec

(* At most one processQueue() loop runs, no queued job is left without a   *)
(* loop to take it, and the queue holds the latest tickets in order.       *)
THEOREM OneWriterNoLostWakeup == Spec => [](SingleWriter /\ NoStrandedJob /\ QueueIsTail)
<1>1. QueueInv => SingleWriter /\ NoStrandedJob /\ QueueIsTail
  BY LenProperties DEF QueueInv, Tickets, QueueIsTail
<1>2. QED
  BY <1>1, QueueInvariance, PTL

(* Jobs settle in the order of acceptance. *)
THEOREM InOrder == Spec => []SettledInOrder
<1>1. QueueInv => SettledInOrder
  <2>1. SUFFICES ASSUME QueueInv, NEW j \in DOMAIN fate, NEW k \in DOMAIN fate,
                        k < j, fate[j] \in {"written", "failed"}
                 PROVE  fate[k] \notin {"queued", "writing"}
    BY DEF SettledInOrder
  <2>2. DOMAIN fate = 1..accepted /\ accepted \in Nat /\ Len(queue) \in Nat
    BY <2>1, LenProperties DEF QueueInv, Tickets
  <2>3. fate[k] # "queued"
    BY <2>1, <2>2 DEF QueueInv, Tickets
  <2>4. fate[k] # "writing"
    BY <2>1, <2>2 DEF QueueInv, Ordered
  <2>5. QED
    BY <2>3, <2>4
<1>2. QED
  BY <1>1, QueueInvariance, PTL

(* A settled job keeps its outcome; only a queued job is shed. *)
THEOREM FinalOutcomes == Spec => OutcomesAreFinal
<1>1. QueueInv /\ [Next]_vars =>
        [\A j \in DOMAIN fate :
           /\ fate[j] \in {"written", "failed", "dropped"} => fate'[j] = fate[j]
           /\ fate'[j] = "dropped" => fate[j] \in {"queued", "dropped"}]_vars
  BY NextLife DEF LifeStep, Life
<1>2. QED
  BY <1>1, QueueInvariance, PTL DEF Spec, OutcomesAreFinal

(* Nothing but a failed write reopens the queue after stop(). *)
THEOREM ReopenedOnlyByFailure == Spec => []ClosedUnlessWriteFailed
<1>1. Init => ClosedUnlessWriteFailed
  BY DEF Init, ClosedUnlessWriteFailed, Stopping
<1>2. ASSUME ClosedUnlessWriteFailed, [Next]_vars PROVE ClosedUnlessWriteFailed'
  <2>1. CASE EnqueueAccepted \/ EnqueueRefused \/ EnqueueOverflow
    BY <1>2, <2>1 DEF EnqueueAccepted, EnqueueRefused, EnqueueOverflow, stopVars,
                      ClosedUnlessWriteFailed, Stopping, Closed, Full
  <2>2. CASE CommitTransaction
    BY <1>2, <2>2 DEF CommitTransaction, stopVars, ClosedUnlessWriteFailed, Stopping
  <2>3. ASSUME NEW l \in Loop, Process(l) PROVE ClosedUnlessWriteFailed'
    <3>1. CASE WriteFails(l)
      BY <3>1 DEF WriteFails, stopVars, ClosedUnlessWriteFailed, Stopping, AfterFailure
    <3>2. CASE WriteSucceeds(l)
      BY <1>2, <3>2 DEF WriteSucceeds, stopVars, ClosedUnlessWriteFailed, Stopping, Acknowledged, AfterSuccess
    <3>3. CASE RetryWrite(l) \/ ResumeWrite(l) \/ FailureRecorded(l)
      BY <1>2, <3>3 DEF RetryWrite, ResumeWrite, FailureRecorded, stopVars,
                        ClosedUnlessWriteFailed, Stopping, CanRetry
    <3>4. QED
      BY <2>3, <3>1, <3>2, <3>3 DEF Process
  <2>4. ASSUME NEW s \in Stopper, Stop(s) PROVE ClosedUnlessWriteFailed'
    <3>1. CASE DeadlinePasses(s)
      BY <1>2, <3>1 DEF DeadlinePasses, ClosedUnlessWriteFailed, Stopping
    <3>2. CASE StopIgnored(s) \/ StopCalled(s) \/ StopReturns(s)
      BY <3>2 DEF StopIgnored, StopCalled, StopReturns, ClosedUnlessWriteFailed, Shed, ShedFates, Announced
    <3>3. QED
      BY <2>4, <3>1, <3>2 DEF Stop
  <2>5. CASE UNCHANGED vars
    BY <1>2, <2>5 DEF vars, stopVars, ClosedUnlessWriteFailed, Stopping
  <2>6. QED
    BY <1>2, <2>1, <2>2, <2>3, <2>4, <2>5 DEF Next, Enqueue
<1>3. QED
  BY <1>1, <1>2, PTL DEF Spec

-----------------------------------------------------------------------------
(* What was published last: the counts, unless a stop() waits, which told  *)
(* nobody that it drains; and the depth, unless a write is under way, for  *)
(* which a job may have been taken since.                                  *)
CountsPublished ==
  /\ published.state = state /\ published.writtenJobs = writtenJobs
  /\ published.failed = failed /\ published.dropped = dropped

DepthSettled == (\A l \in Loop : ~Busy(l)) \/ (\E l \in Loop : loop[l] = "recording")

PublishedInv ==
  /\ (\A s \in Stopper : stopper[s] # "waiting") => CountsPublished
  /\ DepthSettled => published.queueDepth = Len(queue)

(* A loop that goes on takes a job, and its write is under way, or ends.   *)
LEMMA ContinueSettles ==
  ASSUME QueueInv, NEW l \in Loop, Busy(l), NEW f, Continue(l, f)
  PROVE  DepthSettled' => queue = <<>> /\ queue' = <<>>
<1>1. \A k \in Loop : Busy(k) => k = l
  BY DEF QueueInv, SingleWriter
<1>2. CASE StartNext(l, queue, f)
  <2>1. loop' = [loop EXCEPT ![l] = "writing"]
    BY <1>2 DEF StartNext
  <2>2. ~DepthSettled'
    BY <1>1, <2>1 DEF DepthSettled, Busy, QueueInv, LoopTypes
  <2> QED
    BY <2>2
<1> QED
  BY <1>2 DEF Continue

LEMMA EnqueuePublishes ==
  ASSUME PublishedInv, Enqueue
  PROVE  PublishedInv'
<1>1. CASE EnqueueRefused
  BY <1>1 DEF EnqueueRefused, PublishedInv, CountsPublished, DepthSettled, Busy, counters,
              loopVars, stopVars
<1>2. CASE EnqueueOverflow
  BY <1>2 DEF EnqueueOverflow, PublishedInv, CountsPublished, Status
<1>3. CASE EnqueueAccepted
  BY <1>3 DEF EnqueueAccepted, PublishedInv, CountsPublished, Status
<1> QED
  BY <1>1, <1>2, <1>3 DEF Enqueue

LEMMA ProcessPublishes ==
  ASSUME QueueInv, PublishedInv, NEW l \in Loop, Process(l)
  PROVE  PublishedInv'
<1>0. \A k \in Loop : Busy(k) => k = l \/ ~Busy(l)
  BY DEF QueueInv, SingleWriter
<1>1. CASE WriteSucceeds(l)
  <2>1. DepthSettled' => queue = <<>> /\ queue' = <<>>
    BY <1>1, ContinueSettles DEF WriteSucceeds, Busy
  <2>2. published' = Status(state', Len(queue), inFlight, writtenJobs', failed, dropped)
    BY <1>1 DEF WriteSucceeds
  <2>3. failed' = failed /\ dropped' = dropped
    BY <1>1 DEF WriteSucceeds
  <2> QED
    BY <2>1, <2>2, <2>3 DEF PublishedInv, CountsPublished, Status
<1>2. CASE RetryWrite(l) \/ ResumeWrite(l)
  <2>1. /\ UNCHANGED <<published, state, writtenJobs, failed, dropped, stopper, queue>>
        /\ Busy(l) /\ \E w \in {"writing", "backoff"} : loop' = [loop EXCEPT ![l] = w]
    BY <1>2 DEF RetryWrite, ResumeWrite, counters, stopVars, Busy
  <2>2. ~DepthSettled'
    BY <1>0, <2>1 DEF DepthSettled, Busy, QueueInv, LoopTypes
  <2> QED
    BY <2>1, <2>2 DEF PublishedInv, CountsPublished
<1>3. CASE WriteFails(l)
  BY <1>3 DEF WriteFails, PublishedInv, CountsPublished, Status
<1>4. CASE FailureRecorded(l)
  <2>1. /\ UNCHANGED <<published, state, writtenJobs, failed, dropped, stopper>>
        /\ loop[l] = "recording" /\ Continue(l, fate)
    BY <1>4 DEF FailureRecorded, counters, stopVars
  <2>2. DepthSettled' => queue = <<>> /\ queue' = <<>>
    BY <2>1, ContinueSettles DEF Busy
  <2>3. DepthSettled
    BY <2>1 DEF DepthSettled
  <2> QED
    BY <2>1, <2>2, <2>3 DEF PublishedInv, CountsPublished
<1> QED
  BY <1>1, <1>2, <1>3, <1>4 DEF Process

LEMMA StopPublishes ==
  ASSUME QueueInv, PublishedInv, NEW s \in Stopper, Stop(s),
         stopper \in [Stopper -> {"idle", "waiting", "returned"}]
  PROVE  PublishedInv'
<1>1. CASE StopIgnored(s)
  BY <1>1 DEF StopIgnored, PublishedInv, CountsPublished, DepthSettled, Busy, counters, loopVars
<1>2. CASE StopCalled(s)
  <2>1. UNCHANGED queueVars /\ UNCHANGED counters
    <3>1. processing \/ queue = <<>>
      BY DEF QueueInv, SingleWriter, NoStrandedJob
    <3> QED
      BY <1>2, <3>1 DEF StopCalled, ScheduleProcessing, queueVars, loopVars, counters
  <2>2. CASE /\ Drained' /\ state' = "stopped"
             /\ published' = Status("stopped", 0, 0, writtenJobs, failed, dropped)
    <3>1. queue' = <<>> /\ Len(<<>>) = 0
      BY <2>2, EmptySeq DEF Drained
    <3> QED
      BY <2>1, <2>2, <3>1 DEF PublishedInv, CountsPublished, Status, counters
  <2>3. CASE stopper' = [stopper EXCEPT ![s] = "waiting"] /\ UNCHANGED published
    <3>1. stopper'[s] = "waiting"
      BY <2>3
    <3> QED
      BY <2>1, <2>3, <3>1 DEF PublishedInv, DepthSettled, Busy, queueVars
  <2> QED
    BY <1>2, <2>2, <2>3 DEF StopCalled
<1>3. CASE DeadlinePasses(s)
  BY <1>3 DEF DeadlinePasses, PublishedInv, CountsPublished, DepthSettled, Busy, counters, loopVars
<1>4. CASE StopReturns(s)
  <2>1. queue' = <<>> /\ Len(<<>>) = 0
    BY <1>4, EmptySeq DEF StopReturns
  <2> QED
    BY <1>4, <2>1 DEF StopReturns, Announced, Status, PublishedInv, CountsPublished, Shed
<1> QED
  BY <1>1, <1>2, <1>3, <1>4 DEF Stop

LEMMA NextPublishes == QueueInv /\ TypeOK /\ PublishedInv /\ [Next]_vars => PublishedInv'
<1> SUFFICES ASSUME QueueInv, TypeOK, PublishedInv, [Next]_vars
             PROVE  PublishedInv'
  OBVIOUS
<1>1. CASE CommitTransaction
  BY <1>1 DEF CommitTransaction, PublishedInv, CountsPublished, DepthSettled, Busy, counters,
              loopVars, stopVars
<1>2. CASE UNCHANGED vars
  BY <1>2 DEF vars, PublishedInv, CountsPublished, DepthSettled, Busy, counters, loopVars, stopVars
<1> QED
  BY <1>1, <1>2, EnqueuePublishes, ProcessPublishes, StopPublishes DEF Next, TypeOK

(* When nothing is under way, the status that was published last is the    *)
(* current one, whatever failures and calls of stop() came before.         *)
THEOREM StatusIsCurrent == Spec => []PublishedIsCurrent
<1>1. Init => PublishedInv
  <2>1. Len(<<>>) = 0
    BY EmptySeq
  <2> QED
    BY <2>1 DEF Init, PublishedInv, CountsPublished, Status
<1>2. TypeOK /\ PublishedInv => PublishedIsCurrent
  <2> SUFFICES ASSUME TypeOK, PublishedInv, \A l \in Loop : ~Busy(l),
                      \A s \in Stopper : stopper[s] # "waiting"
               PROVE  published = Status(state, Len(queue), published.inFlight,
                                         writtenJobs, failed, dropped)
    BY DEF PublishedIsCurrent
  <2>1. published.queueDepth = Len(queue) /\ CountsPublished
    BY DEF PublishedInv, DepthSettled
  <2>2. published = [state |-> published.state, queueDepth |-> published.queueDepth,
                     inFlight |-> published.inFlight, writtenJobs |-> published.writtenJobs,
                     failed |-> published.failed, dropped |-> published.dropped]
    BY DEF TypeOK
  <2> QED
    BY <2>1, <2>2 DEF CountsPublished, Status
<1> QED
  BY <1>1, <1>2, NextPublishes, QueueInvariance, TypeCorrectness, PTL DEF Spec
-----------------------------------------------------------------------------
(***************************************************************************)
(* DurableIngestion implements IngestionContract: the initial ledger is    *)
(* empty, and every step of the queue is a step of the contract or leaves  *)
(* the ledger and the database alone.                                      *)
(***************************************************************************)
Outcomes == {"open", "written", "failed", "dropped"}

LEMMA LedgerFacts ==
  ASSUME QueueInv
  PROVE  /\ accepted \in Nat /\ Len(queue) \in Nat /\ Len(queue) <= accepted
         /\ fate \in Seq(Fates) /\ DOMAIN fate = 1..accepted
         /\ Ledger \in Seq(Outcomes) /\ Len(Ledger) = accepted /\ DOMAIN Ledger = 1..accepted
         /\ Contract!Open = {j \in DOMAIN fate : fate[j] \in {"queued", "writing"}}
<1>1. /\ accepted \in Nat /\ Len(queue) \in Nat /\ Len(queue) <= accepted
      /\ fate \in Seq(Fates) /\ DOMAIN fate = 1..accepted
      /\ \A j \in DOMAIN fate : fate[j] \in Fates
  BY LenProperties, ElementOfSeq DEF QueueInv, Tickets
<1>2. Ledger \in [1..accepted -> Outcomes]
  BY <1>1 DEF Ledger, Fates, Outcomes
<1>3. Ledger \in Seq(Outcomes)
  BY <1>1, <1>2, SeqDef
<1>4. DOMAIN Ledger = 1..Len(Ledger) /\ Len(Ledger) \in Nat
  BY <1>3, LenProperties
<1>5. Len(Ledger) = accepted
  BY <1>1, <1>2, <1>4
<1>6. Contract!Open = {j \in DOMAIN fate : fate[j] \in {"queued", "writing"}}
  BY <1>1 DEF Contract!Open, Ledger, Fates
<1>7. QED
  BY <1>1, <1>2, <1>3, <1>4, <1>5, <1>6

(* No open ticket is older than one being written or already settled. *)
LEMMA ServedIsOldest ==
  ASSUME QueueInv, NEW j \in DOMAIN fate, fate[j] \in {"writing", "failed"}
  PROVE  Contract!Oldest(j)
<1>1. SUFFICES ASSUME NEW k \in DOMAIN fate, fate[k] \in {"queued", "writing"}, k < j
               PROVE  FALSE
  BY LedgerFacts DEF Contract!Oldest
<1>2. fate[k] # "queued"
  BY <1>1, LedgerFacts DEF QueueInv, Tickets
<1>3. fate[k] # "writing"
  BY <1>1 DEF QueueInv, Ordered
<1>4. QED
  BY <1>1, <1>2, <1>3

(* The open tickets are those of the queue and at most one more. *)
LEMMA OpenIsBounded ==
  ASSUME QueueInv
  PROVE  IsFiniteSet(Contract!Open) /\ Cardinality(Contract!Open) <= Len(queue) + 1
<1>. DEFINE Waiting == (accepted - Len(queue) + 1)..accepted
<1>1. IsFiniteSet(Waiting) /\ Cardinality(Waiting) = Len(queue)
  <2>1. accepted \in Int /\ accepted - Len(queue) + 1 \in Int
    BY LedgerFacts
  <2>2. /\ IsFiniteSet(Waiting)
        /\ Cardinality(Waiting) = IF accepted - Len(queue) + 1 > accepted THEN 0
                                  ELSE accepted - (accepted - Len(queue) + 1) + 1
    BY <2>1, FS_Interval
  <2>3. QED
    BY <2>2, LedgerFacts
<1>2. PICK w : Contract!Open \subseteq Waiting \cup {w}
  <2>1. CASE \E j \in DOMAIN fate : fate[j] = "writing"
    <3>1. PICK j \in DOMAIN fate : fate[j] = "writing"
      BY <2>1
    <3>2. \A k \in DOMAIN fate : fate[k] = "writing" => k = j
      BY <3>1, LedgerFacts DEF QueueInv, Ordered
    <3>3. Contract!Open \subseteq Waiting \cup {j}
      BY <3>2, LedgerFacts DEF QueueInv, Tickets
    <3>4. QED
      BY <3>3
  <2>2. CASE \A j \in DOMAIN fate : fate[j] # "writing"
    <3>1. Contract!Open \subseteq Waiting \cup {0}
      BY <2>2, LedgerFacts DEF QueueInv, Tickets
    <3>2. QED
      BY <3>1
  <2>3. QED
    BY <2>1, <2>2
<1>3. /\ IsFiniteSet(Waiting \cup {w})
      /\ Cardinality(Waiting \cup {w}) <= Len(queue) + 1
  <2>1. /\ IsFiniteSet(Waiting \cup {w})
        /\ Cardinality(Waiting \cup {w}) =
             IF w \in Waiting THEN Cardinality(Waiting) ELSE Cardinality(Waiting) + 1
    BY <1>1, FS_AddElement
  <2>2. Len(queue) \in Nat
    BY LedgerFacts
  <2>3. QED
    BY <1>1, <2>1, <2>2
<1>4. /\ IsFiniteSet(Contract!Open)
      /\ Cardinality(Contract!Open) <= Cardinality(Waiting \cup {w})
  BY <1>2, <1>3, FS_Subset
<1>5. /\ Cardinality(Contract!Open) \in Nat /\ Cardinality(Waiting \cup {w}) \in Nat
      /\ Len(queue) \in Nat
  BY <1>3, <1>4, FS_CardinalityType, LedgerFacts
<1>6. QED
  BY <1>3, <1>4, <1>5

-----------------------------------------------------------------------------
LEMMA InitContract == Init => Contract!Init
<1>1. SUFFICES ASSUME Init PROVE Ledger = <<>> /\ durable = {}
  BY DEF Contract!Init
<1>2. QueueInv /\ accepted = 0
  BY <1>1, InitQueueInv DEF Init
<1>3. Ledger \in Seq(Outcomes) /\ Len(Ledger) = 0
  BY <1>2, LedgerFacts
<1>4. QED
  BY <1>1, <1>3, EmptySeq DEF Init

LEMMA AcceptContract ==
  ASSUME QueueInv, QueueInv', EnqueueAccepted, LifeStep
  PROVE  Contract!Accept
<1>1. Len(queue) < MaxQueueDepth /\ accepted' = accepted + 1 /\ durable' = durable
  BY LedgerFacts, DurableIngestionAssumption DEF EnqueueAccepted, Full
<1>2. Cardinality(Contract!Open) <= MaxQueueDepth
  <2>1. /\ Cardinality(Contract!Open) \in Nat /\ Len(queue) \in Nat
        /\ Cardinality(Contract!Open) <= Len(queue) + 1
    BY OpenIsBounded, FS_CardinalityType, LedgerFacts
  <2>2. QED
    BY <1>1, <2>1, DurableIngestionAssumption
<1>. DEFINE extended == Append(Ledger, "open")
<1>3. /\ extended \in Seq(Outcomes) /\ Len(extended) = accepted + 1
      /\ \A j \in 1..accepted : extended[j] = Ledger[j]
      /\ extended[accepted + 1] = "open"
  <2>1. Ledger \in Seq(Outcomes) /\ "open" \in Outcomes /\ Len(Ledger) = accepted
    BY LedgerFacts DEF Outcomes
  <2>2. QED
    BY <2>1, AppendProperties
<1>4. accepted \in Nat /\ DOMAIN fate = 1..accepted /\ DOMAIN fate' = 1..(accepted + 1)
  <2>1. QueueInv => DOMAIN fate = 1..accepted
    BY LedgerFacts
  <2>2. DOMAIN fate' = 1..accepted'
    BY LenProperties DEF QueueInv, Tickets
  <2>3. QED
    BY <1>1, <2>1, <2>2, LedgerFacts
<1>5. Ledger' = [j \in DOMAIN fate' |-> IF fate'[j] \in {"queued", "writing"} THEN "open" ELSE fate'[j]]
  BY DEF Ledger
<1>6. \A j \in 1..accepted : Ledger'[j] = Ledger[j]
  <2>1. SUFFICES ASSUME NEW j \in 1..accepted PROVE Ledger'[j] = Ledger[j]
    OBVIOUS
  <2>2. fate'[j] = fate[j] \/ (fate[j] = "queued" /\ fate'[j] = "writing")
    BY AcceptLife, <1>4, <2>1
  <2>3. QED
    BY <1>4, <1>5, <2>2 DEF Ledger
<1>7. Ledger'[accepted + 1] = "open"
  BY <1>4, <1>5 DEF LifeStep
<1>8. Ledger' = extended
  <2>1. fate' \in [1..(accepted + 1) -> Fates]
    BY <1>1, LenProperties DEF QueueInv, Tickets
  <2>2. Ledger' \in [1..(accepted + 1) -> Outcomes]
    BY <1>4, <1>5, <2>1 DEF Fates, Outcomes
  <2>3. Ledger' \in Seq(Outcomes)
    BY <1>4, <2>2, SeqDef
  <2>4. Len(Ledger') = accepted + 1
    BY <1>4, <2>2, <2>3, LenProperties
  <2>5. \A j \in 1..(accepted + 1) : Ledger'[j] = extended[j]
    BY <1>3, <1>4, <1>6, <1>7
  <2>6. QED
    BY <1>3, <2>3, <2>4, <2>5, SeqEqual
<1>9. Ledger' = Append(Ledger, "open")
  BY <1>8
<1>10. durable' = durable
  BY <1>1
<1>. HIDE DEF extended
<1>11. Contract!Cardinality(Contract!Open) = Cardinality(Contract!Open)
  BY Zenon DEF Contract!Cardinality, Cardinality
<1>12. QED
  BY <1>2, <1>9, <1>10, <1>11, Zenon DEF Contract!Accept

(* Taking the head of the queue is invisible: it was open and stays open. *)
LEMMA PicksIsInvisible ==
  ASSUME NEW f, Picks(f)
  PROVE  Ledger' = [j \in DOMAIN f |-> IF f[j] \in {"queued", "writing"} THEN "open" ELSE f[j]]
BY DEF Picks, Ledger

LEMMA SettleContract ==
  ASSUME QueueInv, NEW j \in DOMAIN fate, fate[j] = "writing",
         NEW outcome \in {"written", "failed"}, outcome = "written" => j \in durable,
         Picks([fate EXCEPT ![j] = outcome]), durable' = durable
  PROVE  Contract!Next
<1>. DEFINE f == [fate EXCEPT ![j] = outcome]
<1>1. Ledger' = [k \in DOMAIN f |-> IF f[k] \in {"queued", "writing"} THEN "open" ELSE f[k]]
  BY PicksIsInvisible
<1>2. Ledger' = [Ledger EXCEPT ![j] = outcome]
  BY <1>1 DEF Ledger
<1>3. j \in Contract!Open /\ Contract!Oldest(j)
  BY ServedIsOldest, LedgerFacts
<1>4. Contract!Settle(j, outcome)
  BY <1>2, <1>3 DEF Contract!Settle
<1>5. QED
  BY <1>3, <1>4 DEF Contract!Next

LEMMA GiveUpContract ==
  ASSUME QueueInv, NEW s \in Stopper, StopReturns(s)
  PROVE  Contract!Next \/ UNCHANGED <<Ledger, durable>>
<1>. DEFINE kept == {j \in DOMAIN fate : fate[j] = "writing"}
<1>1. /\ fate' = [j \in DOMAIN fate |-> IF fate[j] = "queued" THEN "dropped" ELSE fate[j]]
      /\ durable' = durable
  BY DEF StopReturns, Shed, ShedFates, Announced
<1>2. Contract!Open = {j \in DOMAIN fate : fate[j] \in {"queued", "writing"}}
  BY LedgerFacts
<1>3. kept \subseteq {j \in Contract!Open : Contract!Oldest(j)}
  BY <1>2, ServedIsOldest
<1>4. \A j \in DOMAIN fate : j \in Contract!Open \ kept <=> fate[j] = "queued"
  BY <1>2
<1>5. Ledger' = [j \in DOMAIN Ledger |-> IF j \in Contract!Open \ kept THEN "dropped" ELSE Ledger[j]]
  BY <1>1, <1>4 DEF Ledger
<1>6. CASE Contract!Open \ kept # {}
  <2>1. Contract!GiveUp(kept)
    BY <1>1, <1>3, <1>5, <1>6 DEF Contract!GiveUp
  <2>2. QED
    BY <1>3, <2>1 DEF Contract!Next
<1>7. CASE Contract!Open \ kept = {}
  <2>1. \A j \in DOMAIN fate : fate[j] # "queued"
    BY <1>4, <1>7
  <2>2. Ledger' = Ledger
    BY <1>1, <2>1 DEF Ledger
  <2>3. QED
    BY <1>1, <2>2
<1>8. QED
  BY <1>6, <1>7

LEMMA CommitContract ==
  ASSUME QueueInv, CommitTransaction
  PROVE  Contract!Next
<1>1. PICK j \in DOMAIN fate : fate[j] \in {"writing", "failed"} /\ durable' = durable \cup {j}
  BY DEF CommitTransaction
<1>2. Ledger' = Ledger
  BY DEF CommitTransaction, Ledger
<1>3. j \in DOMAIN Ledger /\ Ledger[j] \in {"open", "failed"} /\ Contract!Oldest(j)
  BY <1>1, ServedIsOldest DEF Ledger
<1>4. Contract!Commit(j)
  BY <1>1, <1>2, <1>3 DEF Contract!Commit
<1>5. QED
  BY <1>3, <1>4 DEF Contract!Next

LEMMA StepContract ==
  QueueInv /\ QueueInv' /\ [Next]_vars => [Contract!Next]_<<Ledger, durable>>
<1>1. SUFFICES ASSUME QueueInv, QueueInv', [Next]_vars
               PROVE  Contract!Next \/ UNCHANGED <<Ledger, durable>>
  OBVIOUS
<1>2. CASE EnqueueAccepted
  BY <1>1, <1>2, AcceptContract, AcceptLife DEF Contract!Next
<1>3. ASSUME NEW l \in Loop, WriteSucceeds(l) PROVE Contract!Next
  BY <1>1, <1>3, SucceedsLife, SettleContract DEF WriteSucceeds, Acknowledged, AfterSuccess
<1>4. ASSUME NEW l \in Loop, WriteFails(l) PROVE Contract!Next
  <2>1. /\ item[l] \in DOMAIN fate /\ fate[item[l]] = "writing"
        /\ fate' = [fate EXCEPT ![item[l]] = "failed"]
    BY <1>1, <1>4, FailsLife
  <2>2. Picks([fate EXCEPT ![item[l]] = "failed"])
    BY <2>1 DEF Picks
  <2>3. durable' = durable
    BY <1>4 DEF WriteFails, AfterFailure
  <2>4. QED
    BY <1>1, <2>1, <2>2, <2>3, SettleContract
<1>5. ASSUME NEW l \in Loop, FailureRecorded(l) PROVE UNCHANGED <<Ledger, durable>>
  <2>1. Ledger' = Ledger
    BY <1>1, <1>5, RecordedLife, PicksIsInvisible DEF Ledger
  <2>2. QED
    BY <1>5, <2>1 DEF FailureRecorded
<1>6. ASSUME NEW s \in Stopper, StopReturns(s)
      PROVE  Contract!Next \/ UNCHANGED <<Ledger, durable>>
  BY <1>1, <1>6, GiveUpContract
<1>7. ASSUME NEW s \in Stopper, StopCalled(s) PROVE UNCHANGED <<Ledger, durable>>
  BY <1>1, <1>7, StopCalledLife DEF StopCalled, Ledger
<1>8. CASE CommitTransaction
  BY <1>1, <1>8, CommitContract
<1>9. CASE \/ EnqueueRefused \/ EnqueueOverflow
           \/ \E l \in Loop : RetryWrite(l) \/ ResumeWrite(l)
           \/ \E s \in Stopper : StopIgnored(s) \/ DeadlinePasses(s)
           \/ UNCHANGED vars
  BY <1>9 DEF EnqueueRefused, EnqueueOverflow, RetryWrite, ResumeWrite, StopIgnored,
              DeadlinePasses, vars, Ledger, Closed, Full, CanRetry
<1>10. QED
  BY <1>1, <1>2, <1>3, <1>4, <1>5, <1>6, <1>7, <1>8, <1>9 DEF Next, Enqueue, Process, Stop

(* Every behavior of the write queue, its retries, failures and shutdowns  *)
(* included, is a behavior of the contract.                                *)
THEOREM ImplementsContract == Spec => KeepsContract
<1>1. Init => Contract!Init
  BY InitContract
<1>2. QueueInv /\ QueueInv' /\ [Next]_vars => [Contract!Next]_<<Ledger, durable>>
  BY StepContract
<1>3. QED
  BY <1>1, <1>2, QueueInvariance, PTL DEF Spec, KeepsContract, Contract!Spec
=============================================================================
