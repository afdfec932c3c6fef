---------------------------- MODULE LiveFeedProofs ----------------------------
(***************************************************************************)
(* Proofs about the event store and the page that follows it, for any ids, *)
(* window, sizes and number of streams.                                    *)
(***************************************************************************)
EXTENDS Dashboard, CollectionLemmas, SequenceTheorems, WellFoundedInduction, TLAPS

-----------------------------------------------------------------------------
(* EventStore *)

Fates == [id : Id, at : Nat, stored : BOOLEAN]

(* Up to the call n an id may have been stored several times; expiry is    *)
(* that of the last one.                                                   *)
StoredBy(id, i) == fates[i].stored /\ fates[i].id = id
ExpiryOf(id, expiry) ==
  /\ expiry \in Nat
  /\ \E i \in 1..Len(fates) : StoredBy(id, i) /\ expiry = fates[i].at + Ttl
  /\ \A i \in 1..Len(fates) : StoredBy(id, i) => fates[i].at + Ttl <= expiry

Types ==
  /\ now \in Nat
  /\ fates \in Seq(Fates)
  /\ \A i \in 1..Len(fates) : fates[i].at <= now

(* The map m has the expiry of every id that has not expired, and none but *)
(* expiries, whichever of the expired ones were swept.                     *)
Holds(m) ==
  /\ \A id \in DOMAIN m : ExpiryOf(id, m[id])
  /\ \A i \in 1..Len(fates) :
       fates[i].stored /\ fates[i].at + Ttl > now => fates[i].id \in DOMAIN m

StoreInv == Types /\ Holds(dedupe) /\ DedupeWindow

-----------------------------------------------------------------------------
LEMMA FateTypes ==
  ASSUME Types
  PROVE  /\ Len(fates) \in Nat /\ Ttl \in Nat
         /\ \A i \in 1..Len(fates) : /\ fates[i] \in Fates
                                     /\ fates[i].at \in Nat /\ fates[i].stored \in BOOLEAN
<1>1. \A i \in 1..Len(fates) : fates[i] \in Fates
  BY ElementOfSeq DEF Types
<1> QED
  BY <1>1, LenProperties, EventStoreAssumption DEF Types, Fates

(* cleanupDedupe() takes nothing away that addEvent() would look for. *)
LEMMA SweptHolds ==
  ASSUME Types, Holds(dedupe)
  PROVE  Holds(Swept)
<1>1. CASE Swept = dedupe
  BY <1>1
<1>2. CASE Swept = Restrict(dedupe, {id \in DOMAIN dedupe : dedupe[id] > now})
  <2>1. /\ DOMAIN Swept = {id \in DOMAIN dedupe : dedupe[id] > now}
        /\ \A id \in DOMAIN Swept : Swept[id] = dedupe[id]
    BY <1>2 DEF Restrict
  <2>2. ASSUME NEW i \in 1..Len(fates), fates[i].stored, fates[i].at + Ttl > now
        PROVE  fates[i].id \in DOMAIN Swept
    <3>1. fates[i].id \in DOMAIN dedupe
      BY <2>2 DEF Holds
    <3>2. fates[i].at + Ttl <= dedupe[fates[i].id] /\ dedupe[fates[i].id] \in Nat
      BY <2>2, <3>1 DEF Holds, ExpiryOf, StoredBy
    <3> QED
      BY <2>1, <2>2, <3>1, <3>2, FateTypes DEF Types
  <2> QED
    BY <2>1, <2>2 DEF Holds
<1> QED
  BY <1>1, <1>2 DEF Swept

(* A call is a duplicate exactly when one stored before has not expired. *)
LEMMA DuplicateIsLive ==
  ASSUME Types, Holds(dedupe), NEW id \in Id
  PROVE  Duplicate(id) <=> \E i \in 1..Len(fates) : StoredBy(id, i) /\ now < fates[i].at + Ttl
<1>1. Holds(Swept)
  BY SweptHolds
<1>2. ASSUME Duplicate(id)
      PROVE  \E i \in 1..Len(fates) : StoredBy(id, i) /\ now < fates[i].at + Ttl
  BY <1>1, <1>2 DEF Duplicate, Holds, ExpiryOf
<1>3. ASSUME NEW i \in 1..Len(fates), StoredBy(id, i), now < fates[i].at + Ttl
      PROVE  Duplicate(id)
  <2>1. id \in DOMAIN Swept
    BY <1>1, <1>3 DEF Holds, StoredBy
  <2>2. Swept[id] \in Nat /\ fates[i].at + Ttl <= Swept[id]
    BY <1>1, <1>3, <2>1 DEF Holds, ExpiryOf
  <2> QED
    BY <1>3, <2>1, <2>2, FateTypes DEF Duplicate, Types
<1> QED
  BY <1>2, <1>3

LEMMA Appended ==
  ASSUME Types, NEW id \in Id, NEW stored \in BOOLEAN,
         fates' = Append(fates, Fate(id, stored)), now' = now
  PROVE  /\ Types' /\ Len(fates') = Len(fates) + 1 /\ Len(fates) \in Nat
         /\ \A i \in 1..Len(fates) : fates'[i] = fates[i]
         /\ fates'[Len(fates) + 1] = Fate(id, stored)
<1>1. Fate(id, stored) \in Fates /\ Fate(id, stored).at = now
  BY DEF Fate, Fates, Types
<1>2. /\ fates' \in Seq(Fates) /\ Len(fates') = Len(fates) + 1 /\ Len(fates) \in Nat
      /\ \A i \in 1..Len(fates) : fates'[i] = fates[i]
      /\ fates'[Len(fates) + 1] = Fate(id, stored)
  BY <1>1, AppendProperties, LenProperties DEF Types
<1>3. \A i \in 1..Len(fates') : i \in 1..Len(fates) \/ i = Len(fates) + 1
  BY <1>2
<1> QED
  BY <1>1, <1>2, <1>3 DEF Types

(* One call more leaves the window exact if it was decided by it.          *)
LEMMA WindowKept ==
  ASSUME Types, DedupeWindow, NEW id \in Id, NEW stored \in BOOLEAN,
         fates' = Append(fates, Fate(id, stored)), now' = now,
         stored <=> ~\E i \in 1..Len(fates) : StoredBy(id, i) /\ now < fates[i].at + Ttl
  PROVE  DedupeWindow'
<1>1. /\ Len(fates') = Len(fates) + 1 /\ Len(fates) \in Nat
      /\ \A i \in 1..Len(fates) : fates'[i] = fates[i]
      /\ fates'[Len(fates) + 1] = Fate(id, stored)
  BY Appended
<1> SUFFICES ASSUME NEW j \in 1..Len(fates')
             PROVE  fates'[j].stored <=>
                      ~\E i \in 1..(j - 1) : /\ fates'[i].stored
                                             /\ fates'[i].id = fates'[j].id
                                             /\ fates'[j].at < fates'[i].at + Ttl
  BY DEF DedupeWindow, Received
<1>2. CASE j \in 1..Len(fates)
  <2>1. \A i \in 1..(j - 1) : i \in 1..Len(fates)
    BY <1>1, <1>2
  <2> QED
    BY <1>1, <1>2, <2>1 DEF DedupeWindow, Received
<1>3. CASE j = Len(fates) + 1
  <2>1. 1..(j - 1) = 1..Len(fates)
    BY <1>1, <1>3
  <2>2. /\ fates'[j].stored = stored /\ fates'[j].id = id /\ fates'[j].at = now
    BY <1>1, <1>3 DEF Fate
  <2> QED
    BY <1>1, <2>1, <2>2 DEF StoredBy
<1> QED
  BY <1>1, <1>2, <1>3

-----------------------------------------------------------------------------
LEMMA StoreInitially ==
  InitStore => StoreInv
<1> SUFFICES ASSUME InitStore
             PROVE  StoreInv
  OBVIOUS
<1>1. Len(fates) = 0 /\ fates \in Seq(Fates) /\ DOMAIN dedupe = {}
  BY EmptySeq DEF InitStore
<1> QED
  BY <1>1 DEF InitStore, StoreInv, Types, Holds, DedupeWindow, Received

(* Time takes ids out of what has to be in the map, and adds none. *)
LEMMA TickPreserves ==
  ASSUME StoreInv, Tick
  PROVE  StoreInv'
<1>1. /\ now \in Nat /\ now' = now + 1 /\ fates' = fates /\ dedupe' = dedupe
      /\ Types /\ Holds(dedupe) /\ DedupeWindow
  BY DEF StoreInv, Types, Tick
<1>2. /\ Len(fates) \in Nat /\ Ttl \in Nat
      /\ \A i \in 1..Len(fates) : fates[i].at \in Nat
  BY <1>1, FateTypes
<1>3. Types'
  BY <1>1, <1>2 DEF Types
<1>4. \A i \in 1..Len(fates) : fates[i].at + Ttl > now' => fates[i].at + Ttl > now
  BY <1>1, <1>2
<1>5. Holds(dedupe)'
  BY <1>1, <1>4 DEF Holds, ExpiryOf, StoredBy
<1>6. DedupeWindow'
  BY <1>1 DEF DedupeWindow, Received
<1> QED
  BY <1>3, <1>5, <1>6 DEF StoreInv

LEMMA DeduplicatePreserves ==
  ASSUME StoreInv, NEW id \in Id, Deduplicate(id)
  PROVE  StoreInv'
<1>1. fates' = Append(fates, Fate(id, FALSE)) /\ now' = now /\ dedupe' = Swept
  BY DEF Deduplicate
<1>2. Types /\ Holds(dedupe) /\ DedupeWindow
  BY DEF StoreInv
<1>3. /\ Types' /\ Len(fates') = Len(fates) + 1 /\ Len(fates) \in Nat
      /\ \A i \in 1..Len(fates) : fates'[i] = fates[i]
      /\ fates'[Len(fates) + 1] = Fate(id, FALSE)
  BY <1>1, <1>2, Appended
<1>4. DedupeWindow'
  BY <1>1, <1>2, DuplicateIsLive, WindowKept DEF Deduplicate
<1>5. ~fates'[Len(fates) + 1].stored
  BY <1>3 DEF Fate
<1>6. \A i \in 1..Len(fates') : fates'[i].stored => i \in 1..Len(fates) /\ fates'[i] = fates[i]
  <2>1. \A i \in 1..Len(fates') : i \in 1..Len(fates) \/ i = Len(fates) + 1
    BY <1>3
  <2> QED
    BY <1>3, <1>5, <2>1
<1>7. \A i \in 1..Len(fates) : i \in 1..Len(fates')
  BY <1>3
<1>8. Holds(Swept)
  BY <1>2, SweptHolds
<1>9. ASSUME NEW d \in DOMAIN dedupe'
      PROVE  ExpiryOf(d, dedupe[d])'
  <2>1. ExpiryOf(d, Swept[d])
    BY <1>1, <1>8, <1>9 DEF Holds
  <2> QED
    BY <1>1, <1>3, <1>6, <1>7, <2>1 DEF ExpiryOf, StoredBy
<1>10. Holds(dedupe)'
  BY <1>1, <1>6, <1>8, <1>9 DEF Holds
<1> QED
  BY <1>3, <1>4, <1>10 DEF StoreInv

LEMMA StoringPreserves ==
  ASSUME StoreInv, NEW id \in Id, Store(id)
  PROVE  StoreInv'
<1>1. /\ fates' = Append(fates, Fate(id, TRUE)) /\ now' = now
      /\ dedupe' = [i \in DOMAIN Swept \cup {id} |-> IF i = id THEN now + Ttl ELSE Swept[i]]
  BY DEF Store
<1>2. Types /\ Holds(dedupe) /\ DedupeWindow
  BY DEF StoreInv
<1>3. /\ Types' /\ Len(fates') = Len(fates) + 1 /\ Len(fates) \in Nat
      /\ \A i \in 1..Len(fates) : fates'[i] = fates[i]
      /\ fates'[Len(fates) + 1] = Fate(id, TRUE)
  BY <1>1, <1>2, Appended
<1>4. DedupeWindow'
  BY <1>1, <1>2, DuplicateIsLive, WindowKept DEF Store
<1>5. LET last == fates'[Len(fates) + 1] IN last.stored /\ last.id = id /\ last.at = now
  BY <1>3 DEF Fate
<1>6. \A i \in 1..Len(fates') : (i \in 1..Len(fates) /\ fates'[i] = fates[i]) \/ i = Len(fates) + 1
  BY <1>3
<1>7. /\ Len(fates) + 1 \in 1..Len(fates')
      /\ \A i \in 1..Len(fates) : i \in 1..Len(fates')
  BY <1>3
<1>8. Holds(Swept)
  BY <1>2, SweptHolds
<1>9. ASSUME NEW d \in DOMAIN dedupe'
      PROVE  ExpiryOf(d, dedupe[d])'
  <2>1. CASE d = id
    <3>1. dedupe'[d] = now + Ttl /\ now + Ttl \in Nat
      BY <1>1, <1>2, <1>9, <2>1, EventStoreAssumption DEF Types
    <3>2. \A i \in 1..Len(fates) : fates[i].at + Ttl <= now + Ttl
      BY <1>2, FateTypes DEF Types
    <3>3. \A i \in 1..Len(fates') : fates'[i].at + Ttl <= now + Ttl
      BY <1>5, <1>6, <3>1, <3>2
    <3> QED
      BY <1>5, <1>7, <2>1, <3>1, <3>3 DEF ExpiryOf, StoredBy
  <2>2. CASE d # id
    <3>1. d \in DOMAIN Swept /\ dedupe'[d] = Swept[d]
      BY <1>1, <1>9, <2>2
    <3>2. ExpiryOf(d, Swept[d])
      BY <1>8, <3>1 DEF Holds
    <3>3. \A i \in 1..Len(fates') : fates'[i].id = d => i \in 1..Len(fates) /\ fates'[i] = fates[i]
      BY <1>5, <1>6, <2>2
    <3> QED
      BY <1>3, <1>7, <3>1, <3>2, <3>3 DEF ExpiryOf, StoredBy
  <2> QED
    BY <2>1, <2>2
<1>10. ASSUME NEW i \in 1..Len(fates'), fates'[i].stored, fates'[i].at + Ttl > now
       PROVE  fates'[i].id \in DOMAIN dedupe'
  <2>1. CASE i = Len(fates) + 1
    BY <1>1, <1>5, <2>1
  <2>2. CASE i \in 1..Len(fates) /\ fates'[i] = fates[i]
    BY <1>1, <1>8, <1>10, <2>2 DEF Holds
  <2> QED
    BY <1>6, <2>1, <2>2
<1>11. Holds(dedupe)'
  BY <1>1, <1>9, <1>10 DEF Holds
<1> QED
  BY <1>3, <1>4, <1>11 DEF StoreInv

(* What a call of addEvent() or a tick does to the store, the page cannot  *)
(* undo.                                                                   *)
LEMMA StorePreserved ==
  StoreInv /\ [NextStore]_storeVars => StoreInv'
<1>1. StoreInv /\ UNCHANGED storeVars => StoreInv'
  BY DEF StoreInv, Types, Holds, ExpiryOf, StoredBy, DedupeWindow, Received, storeVars
<1> QED
  BY <1>1, TickPreserves, DeduplicatePreserves, StoringPreserves DEF NextStore

-----------------------------------------------------------------------------
(* LiveFeed: where an event is on its way to the page.  Sequences are only  *)
(* required to be some, whatever their elements.                           *)

Sequence(s) == s \in Seq(Range(s))

OnTheWire(i) == i \in 1..Len(wire) /\ wire[i].kind = "event"
Within(e, s) == \E i \in 1..Len(s) : s[i] = e
Once(s) == \A i, j \in 1..Len(s) : s[i] = s[j] => i = j

(* Some call stored the event.                                             *)
Took(calls, e) ==
  \E i \in 1..Len(calls) : calls[i].stored /\ calls[i].id = e.id /\ calls[i].at = e.at

(* No event is in two places, or twice in one of them, and each was stored. *)
Places ==
  /\ Once(applied)
  /\ Once(held)
  /\ \A i, j \in 1..Len(wire) :
       OnTheWire(i) /\ OnTheWire(j) /\ wire[i].event = wire[j].event => i = j
  /\ \A i \in 1..Len(held) : ~Within(held[i], applied)
  /\ \A i \in 1..Len(wire) :
       OnTheWire(i) => ~Within(wire[i].event, applied) /\ ~Within(wire[i].event, held)

AllStored ==
  /\ \A i \in 1..Len(applied) : Took(fates, applied[i])
  /\ \A i \in 1..Len(held) : Took(fates, held[i])
  /\ \A i \in 1..Len(wire) : OnTheWire(i) => Took(fates, wire[i].event)

Sequences == Sequence(applied) /\ Sequence(held) /\ Sequence(wire)

PageInv == Sequences /\ Places /\ AllStored
IInv == StoreInv /\ PageInv

-----------------------------------------------------------------------------
LEMMA AppendOne ==
  ASSUME NEW s, NEW e, Sequence(s)
  PROVE  /\ Sequence(Append(s, e)) /\ Len(s) \in Nat
         /\ Len(Append(s, e)) = Len(s) + 1
         /\ \A i \in 1..Len(s) : Append(s, e)[i] = s[i]
         /\ Append(s, e)[Len(s) + 1] = e
<1> DEFINE S == Range(s) \cup {e}
<1>1. s \in Seq(S) /\ e \in S
  BY SeqMonotonic DEF Sequence
<1>2. Len(s) \in Nat
  BY <1>1, LenProperties
<1>3. /\ Append(s, e) \in Seq(S)
      /\ Len(Append(s, e)) = Len(s) + 1
      /\ \A i \in 1..Len(s) : Append(s, e)[i] = s[i]
      /\ Append(s, e)[Len(s) + 1] = e
  BY <1>1, AppendProperties
<1>4. Sequence(Append(s, e))
  BY <1>3, SeqOfRange DEF Sequence
<1> QED
  BY <1>2, <1>3, <1>4

LEMMA TailOf ==
  ASSUME NEW s, Sequence(s), s # <<>>
  PROVE  /\ Sequence(Tail(s)) /\ Len(s) \in Nat \ {0} /\ 1 \in 1..Len(s)
         /\ Len(Tail(s)) = Len(s) - 1
         /\ Head(s) = s[1]
         /\ \A i \in 1..Len(Tail(s)) : i + 1 \in 1..Len(s) /\ i + 1 # 1 /\ Tail(s)[i] = s[i + 1]
<1>1. Len(s) \in Nat \ {0}
  BY EmptySeq DEF Sequence
<1>2. /\ Tail(s) \in Seq(Range(s))
      /\ Len(Tail(s)) = Len(s) - 1
      /\ \A i \in 1..Len(Tail(s)) : Tail(s)[i] = s[i + 1]
  BY HeadTailProperties DEF Sequence
<1>3. Sequence(Tail(s))
  BY <1>2, SeqOfRange DEF Sequence
<1>4. Head(s) = s[1]
  BY DEF Sequence
<1> QED
  BY <1>1, <1>2, <1>3, <1>4

LEMMA ConcatOf ==
  ASSUME NEW s, NEW t, Sequence(s), Sequence(t)
  PROVE  /\ Sequence(s \o t) /\ Len(s) \in Nat /\ Len(t) \in Nat
         /\ \A i \in 1..Len(s \o t) :
              \/ i \in 1..Len(s) /\ (s \o t)[i] = s[i]
              \/ i - Len(s) \in 1..Len(t) /\ (s \o t)[i] = t[i - Len(s)]
<1> DEFINE S == Range(s) \cup Range(t)
<1>1. s \in Seq(S) /\ t \in Seq(S)
  BY SeqMonotonic DEF Sequence
<1>2. Len(s) \in Nat /\ Len(t) \in Nat
  BY <1>1, LenProperties
<1>3. /\ s \o t \in Seq(S)
      /\ Len(s \o t) = Len(s) + Len(t)
      /\ \A i \in 1..Len(s) + Len(t) :
           (s \o t)[i] = IF i <= Len(s) THEN s[i] ELSE t[i - Len(s)]
  BY <1>1, ConcatProperties
<1>4. Sequence(s \o t)
  BY <1>3, SeqOfRange DEF Sequence
<1> QED
  BY <1>2, <1>3, <1>4

LEMMA NothingWithin ==
  Sequence(<<>>) /\ Len(<<>>) = 0
BY EmptySeq DEF Sequence

-----------------------------------------------------------------------------
(* A page on which nothing arrives keeps what it has.                      *)
LEMMA PageRests ==
  ASSUME PageInv, UNCHANGED <<fates, wire, applied, held>>
  PROVE  PageInv'
BY DEF PageInv, Sequences, Sequence, Places, AllStored, Once, Within, OnTheWire, Took

(* The store never forgets that it took an event in. *)
LEMMA StoredOnce ==
  ASSUME Types, NEW id \in Id, NEW stored \in BOOLEAN,
         fates' = Append(fates, Fate(id, stored)), now' = now
  PROVE  /\ \A e : Took(fates, e) => Took(fates', e)
         /\ stored => Took(fates', Event(id))
<1>1. /\ Len(fates') = Len(fates) + 1 /\ Len(fates) \in Nat
      /\ \A i \in 1..Len(fates) : fates'[i] = fates[i]
      /\ fates'[Len(fates) + 1] = Fate(id, stored)
  BY Appended
<1>2. \A i \in 1..Len(fates) : i \in 1..Len(fates')
  BY <1>1
<1>3. Len(fates) + 1 \in 1..Len(fates')
  BY <1>1
<1>4. ASSUME NEW e, Took(fates, e)
      PROVE  Took(fates', e)
  BY <1>1, <1>2, <1>4 DEF Took
<1>5. ASSUME stored
      PROVE  Took(fates', Event(id))
  <2>1. /\ fates'[Len(fates) + 1].stored /\ fates'[Len(fates) + 1].id = id
        /\ fates'[Len(fates) + 1].at = now
    BY <1>1, <1>5 DEF Fate
  <2> QED
    BY <1>3, <2>1 DEF Took, Event
<1> QED
  BY <1>4, <1>5

(* What is about to be stored was not stored at this instant, as the       *)
(* window is at least one tick wide.                                       *)
LEMMA NewEventIsNew ==
  ASSUME StoreInv, NEW id \in Id, ~Duplicate(id)
  PROVE  ~Took(fates, Event(id))
<1> SUFFICES ASSUME NEW i \in 1..Len(fates), StoredBy(id, i), fates[i].at = now
             PROVE  FALSE
  BY DEF Took, StoredBy, Event
<1>1. now \in Nat /\ Ttl \in Nat \ {0}
  BY EventStoreAssumption DEF StoreInv, Types
<1>2. now < fates[i].at + Ttl
  BY <1>1
<1> QED
  BY <1>2, DuplicateIsLive DEF StoreInv

LEMMA StoreEventKeepsPlaces ==
  ASSUME IInv, StoreEvent
  PROVE  PageInv'
<1>1. PICK id \in Id : Store(id) /\ wire' = OnWire(Live(Event(id)))
  BY DEF StoreEvent
<1> DEFINE e == Event(id)
<1>2. /\ fates' = Append(fates, Fate(id, TRUE)) /\ now' = now
      /\ applied' = applied /\ held' = held
  BY <1>1 DEF StoreEvent, Store
<1>3. (\A x : Took(fates, x) => Took(fates', x)) /\ Took(fates', e)
  BY <1>1, <1>2, StoredOnce DEF IInv, StoreInv
<1>4. ~Took(fates, e)
  BY <1>1, NewEventIsNew DEF IInv, Store
<1>5. Live(e).kind = "event" /\ Live(e).event = e
  BY DEF Live
<1> HIDE DEF e
<1>6. PageInv
  BY DEF IInv
<1>7. CASE wire' = wire
  <2>1. Sequences' /\ Places'
    BY <1>2, <1>6, <1>7
    DEF PageInv, Sequences, Sequence, Places, Once, Within, OnTheWire
  <2>2. AllStored'
    BY <1>2, <1>3, <1>6, <1>7 DEF PageInv, AllStored, OnTheWire
  <2> QED
    BY <2>1, <2>2 DEF PageInv
<1>8. CASE wire' = Append(wire, Live(e))
  <2>1. /\ Sequence(wire') /\ Len(wire) \in Nat /\ Len(wire') = Len(wire) + 1
        /\ \A i \in 1..Len(wire) : wire'[i] = wire[i]
        /\ wire'[Len(wire) + 1] = Live(e)
    BY <1>6, <1>8, AppendOne DEF PageInv, Sequences
  <2>2. \A i \in 1..Len(wire') :
          \/ i \in 1..Len(wire) /\ wire'[i] = wire[i]
          \/ i = Len(wire) + 1 /\ wire'[i] = Live(e)
    BY <2>1
  <2>3. /\ \A i \in 1..Len(applied) : applied[i] # e
        /\ \A i \in 1..Len(held) : held[i] # e
        /\ \A i \in 1..Len(wire) : wire[i].kind = "event" => wire[i].event # e
    BY <1>4, <1>6 DEF PageInv, AllStored, OnTheWire
  <2>4. Sequences'
    BY <1>2, <1>6, <2>1 DEF PageInv, Sequences, Sequence
  <2>5. AllStored'
    BY <1>2, <1>3, <1>5, <1>6, <2>2 DEF PageInv, AllStored, OnTheWire
  <2>6. Once(applied)' /\ Once(held)' /\ (\A i \in 1..Len(held) : ~Within(held[i], applied))'
    BY <1>2, <1>6 DEF PageInv, Places, Once, Within
  <2>7. ASSUME NEW i \in 1..Len(wire'), NEW j \in 1..Len(wire'),
               wire'[i].kind = "event", wire'[j].kind = "event", wire'[i].event = wire'[j].event
        PROVE  i = j
    BY <1>5, <1>6, <2>2, <2>3, <2>7 DEF PageInv, Places, OnTheWire
  <2>8. ASSUME NEW i \in 1..Len(wire'), wire'[i].kind = "event"
        PROVE  ~Within(wire'[i].event, applied) /\ ~Within(wire'[i].event, held)
    BY <1>5, <1>6, <2>2, <2>3, <2>8 DEF PageInv, Places, OnTheWire, Within
  <2>9. Places'
    BY <1>2, <2>6, <2>7, <2>8 DEF Places, OnTheWire, Within
  <2> QED
    BY <2>4, <2>5, <2>9 DEF PageInv
<1> QED
  BY <1>1, <1>7, <1>8 DEF OnWire, e

(* The opening of a stream has no live event in it, and neither has the    *)
(* wire of a broken one.                                                   *)
LEMMA StreamChangeKeepsPlaces ==
  ASSUME PageInv, HandleStream \/ StreamError
  PROVE  PageInv'
<1>1. UNCHANGED <<fates, applied, held>>
  BY DEF HandleStream, StreamError, storeVars
<1>2. CASE UNCHANGED wire
  BY <1>1, <1>2, PageRests
<1>3. CASE \A k \in 1..Len(wire') : wire'[k].kind # "event"
  <2>1. \A k : ~OnTheWire(k)'
    BY <1>3 DEF OnTheWire
  <2>2. CASE Sequence(wire')
    BY <1>1, <2>1, <2>2
    DEF PageInv, Sequences, Sequence, Places, AllStored, Once, Within, Took
  <2>3. Sequence(wire')
    <3>1. CASE wire' = <<>>
      BY <3>1, NothingWithin
    <3>2. CASE wire' = <<Snapshot>>
      <4>1. <<Snapshot>> \in Seq({Snapshot})
        OBVIOUS
      <4> QED
        BY <3>2, <4>1, SeqOfRange DEF Sequence
    <3>3. CASE UNCHANGED wire
      BY <3>3 DEF PageInv, Sequences, Sequence
    <3> QED
      BY <3>1, <3>2, <3>3 DEF HandleStream, StreamError, Opening
  <2> QED
    BY <2>2, <2>3
<1>4. wire' = <<>> => \A k \in 1..Len(wire') : wire'[k].kind # "event"
  BY NothingWithin
<1>5. wire' = <<Snapshot>> => \A k \in 1..Len(wire') : wire'[k].kind # "event"
  BY DEF Snapshot
<1> QED
  BY <1>2, <1>3, <1>4, <1>5 DEF HandleStream, StreamError, Opening

(* What the page takes from the wire is on it no more. *)
LEMMA Taken ==
  ASSUME PageInv, NEW kind, Take(kind)
  PROVE  /\ Sequence(wire') /\ 1 \in 1..Len(wire) /\ Head(wire) = wire[1] /\ wire[1].kind = kind
         /\ fates' = fates
         /\ \A i \in 1..Len(wire') : i + 1 \in 1..Len(wire) /\ i + 1 # 1 /\ wire'[i] = wire[i + 1]
<1>1. Sequence(wire) /\ wire # <<>> /\ wire' = Tail(wire) /\ Head(wire).kind = kind
  BY DEF PageInv, Sequences, Take
<1>2. fates' = fates
  BY DEF Take, storeVars
<1> QED
  BY <1>1, <1>2, TailOf

(* Those left on the wire are still in one place each, and not that of the *)
(* event just taken.                                                       *)
LEMMA LeftOnTheWire ==
  ASSUME PageInv, NEW kind, Take(kind)
  PROVE  /\ \A i, j \in 1..Len(wire') :
              wire'[i].kind = "event" /\ wire'[j].kind = "event" /\ wire'[i].event = wire'[j].event
              => i = j
         /\ \A i \in 1..Len(wire') :
              wire'[i].kind = "event" =>
                /\ ~Within(wire'[i].event, applied) /\ ~Within(wire'[i].event, held)
                /\ Took(fates, wire'[i].event)
                /\ kind = "event" => wire'[i].event # Head(wire).event
<1>1. /\ 1 \in 1..Len(wire) /\ Head(wire) = wire[1] /\ wire[1].kind = kind
      /\ \A i \in 1..Len(wire') : i + 1 \in 1..Len(wire) /\ i + 1 # 1 /\ wire'[i] = wire[i + 1]
  BY Taken
<1>2. ASSUME NEW i \in 1..Len(wire'), NEW j \in 1..Len(wire'), wire'[i].kind = "event",
             wire'[j].kind = "event", wire'[i].event = wire'[j].event
      PROVE  i = j
  <2>1. i + 1 = j + 1
    BY <1>1, <1>2 DEF PageInv, Places, OnTheWire
  <2> QED
    BY <2>1
<1>3. ASSUME NEW i \in 1..Len(wire'), wire'[i].kind = "event"
      PROVE  /\ ~Within(wire'[i].event, applied) /\ ~Within(wire'[i].event, held)
             /\ Took(fates, wire'[i].event)
             /\ kind = "event" => wire'[i].event # Head(wire).event
  BY <1>1, <1>3 DEF PageInv, Places, AllStored, OnTheWire
<1> QED
  BY <1>2, <1>3

LEMMA ReceiveSnapshotKeepsPlaces ==
  ASSUME PageInv, ReceiveSnapshot
  PROVE  PageInv'
<1>1. Take("snapshot") /\ UNCHANGED <<fates, applied, held>>
  BY DEF ReceiveSnapshot, Take, storeVars
<1>2. Sequence(wire')
  BY <1>1, Taken
<1> QED
  BY <1>1, <1>2, LeftOnTheWire
  DEF PageInv, Sequences, Sequence, Places, AllStored, Once, Within, OnTheWire, Took

(* An event moves from the wire to the end of s, what was applied or is    *)
(* held.                                                                   *)
LEMMA Moved ==
  ASSUME PageInv, Take("event"), NEW s, Sequence(s), Once(s),
         \A i \in 1..Len(wire) : OnTheWire(i) => ~Within(wire[i].event, s),
         \A i \in 1..Len(s) : Took(fates, s[i])
  PROVE  LET t == Append(s, Head(wire).event) IN
         /\ Sequence(t) /\ Once(t)
         /\ \A i \in 1..Len(t) : Took(fates, t[i])
         /\ \A x : Within(x, t) => Within(x, s) \/ x = Head(wire).event
<1> DEFINE e == Head(wire).event
           t == Append(s, e)
<1>1. OnTheWire(1) /\ Head(wire) = wire[1]
  BY Taken DEF OnTheWire
<1>2. ~Within(e, s) /\ Took(fates, e)
  BY <1>1 DEF PageInv, AllStored, OnTheWire
<1> HIDE DEF e
<1>3. /\ Sequence(t) /\ Len(s) \in Nat /\ Len(t) = Len(s) + 1
      /\ \A i \in 1..Len(s) : t[i] = s[i]
      /\ t[Len(s) + 1] = e
  BY AppendOne
<1> HIDE DEF t
<1>4. \A i \in 1..Len(t) : \/ i \in 1..Len(s) /\ t[i] = s[i]
                           \/ i = Len(s) + 1 /\ t[i] = e
  BY <1>3
<1>5. Once(t)
  BY <1>2, <1>4 DEF Once, Within
<1>6. \A i \in 1..Len(t) : Took(fates, t[i])
  BY <1>2, <1>4
<1>7. \A x : Within(x, t) => Within(x, s) \/ x = e
  BY <1>4 DEF Within
<1> QED
  BY <1>3, <1>5, <1>6, <1>7 DEF t, e

LEMMA ReceiveEventKeepsPlaces ==
  ASSUME PageInv, ReceiveEvent
  PROVE  PageInv'
<1> DEFINE e == Head(wire).event
<1>1. Take("event") /\ fates' = fates /\ held' = held /\ applied' = Append(applied, e)
  BY DEF ReceiveEvent, Take, storeVars
<1>2. OnTheWire(1) /\ e = wire[1].event /\ Sequence(wire')
  BY <1>1, Taken DEF OnTheWire
<1>3. /\ Sequence(applied') /\ Once(applied')
      /\ \A i \in 1..Len(applied') : Took(fates, applied'[i])
      /\ \A x : Within(x, applied') => Within(x, applied) \/ x = e
  BY <1>1, Moved DEF PageInv, Sequences, Places, AllStored
<1>4. \A i \in 1..Len(held) : held[i] # e
  BY <1>2 DEF PageInv, Places, Within, OnTheWire
<1>5. \A i \in 1..Len(wire') :
        wire'[i].kind = "event" => /\ ~Within(wire'[i].event, applied') /\ ~Within(wire'[i].event, held)
                                   /\ Took(fates, wire'[i].event)
  BY <1>1, <1>3, LeftOnTheWire
<1>6. Sequences'
  BY <1>1, <1>2, <1>3 DEF PageInv, Sequences, Sequence
<1>7. AllStored'
  BY <1>1, <1>3, <1>5 DEF PageInv, AllStored, OnTheWire
<1>8. \A i \in 1..Len(held) : ~Within(held[i], applied')
  BY <1>3, <1>4 DEF PageInv, Places
<1>9. Places'
  BY <1>1, <1>3, <1>5, <1>8, LeftOnTheWire DEF PageInv, Places, Once, Within, OnTheWire
<1> QED
  BY <1>6, <1>7, <1>9 DEF PageInv

LEMMA HoldEventKeepsPlaces ==
  ASSUME PageInv, HoldEvent
  PROVE  PageInv'
<1> DEFINE e == Head(wire).event
<1>1. Take("event") /\ fates' = fates /\ applied' = applied /\ held' = Append(held, e)
  BY DEF HoldEvent, Take, storeVars
<1>2. OnTheWire(1) /\ e = wire[1].event /\ Sequence(wire')
  BY <1>1, Taken DEF OnTheWire
<1>3. /\ Sequence(held') /\ Once(held')
      /\ \A i \in 1..Len(held') : Took(fates, held'[i])
      /\ \A x : Within(x, held') => Within(x, held) \/ x = e
  BY <1>1, Moved DEF PageInv, Sequences, Places, AllStored
<1>4. ~Within(e, applied)
  BY <1>2 DEF PageInv, Places, OnTheWire
<1>5. \A i \in 1..Len(wire') :
        wire'[i].kind = "event" => /\ ~Within(wire'[i].event, held') /\ ~Within(wire'[i].event, applied)
                                   /\ Took(fates, wire'[i].event)
  BY <1>1, <1>3, LeftOnTheWire
<1>6. Sequences'
  BY <1>1, <1>2, <1>3 DEF PageInv, Sequences, Sequence
<1>7. AllStored'
  BY <1>1, <1>3, <1>5 DEF PageInv, AllStored, OnTheWire
<1>8. \A i \in 1..Len(held') : ~Within(held'[i], applied)
  BY <1>3, <1>4 DEF PageInv, Places, Within
<1>9. Places'
  BY <1>1, <1>3, <1>5, <1>8, LeftOnTheWire DEF PageInv, Places, Once, Within, OnTheWire
<1> QED
  BY <1>6, <1>7, <1>9 DEF PageInv

(* togglePause() empties the queue before it applies what was in it. *)
LEMMA ResumeKeepsPlaces ==
  ASSUME PageInv, Resume
  PROVE  PageInv'
<1>1. /\ fates' = fates /\ wire' = wire /\ held' = <<>> /\ applied' = applied \o held
  BY DEF Resume, Released, storeVars
<1>2. /\ Sequence(applied') /\ Len(applied) \in Nat /\ Len(held) \in Nat
      /\ \A i \in 1..Len(applied') :
           \/ i \in 1..Len(applied) /\ applied'[i] = applied[i]
           \/ i - Len(applied) \in 1..Len(held) /\ applied'[i] = held[i - Len(applied)]
  BY <1>1, ConcatOf DEF PageInv, Sequences
<1>3. Sequence(held') /\ Len(held') = 0
  BY <1>1, NothingWithin
<1>4. ASSUME NEW i \in 1..Len(applied'), NEW j \in 1..Len(applied'), applied'[i] = applied'[j]
      PROVE  i = j
  <2>1. CASE /\ i \in 1..Len(applied) /\ applied'[i] = applied[i]
             /\ j \in 1..Len(applied) /\ applied'[j] = applied[j]
    BY <1>4, <2>1 DEF PageInv, Places, Once
  <2>2. \A k \in 1..Len(held), l \in 1..Len(applied) : held[k] # applied[l]
    BY DEF PageInv, Places, Within
  <2>3. CASE /\ i - Len(applied) \in 1..Len(held) /\ applied'[i] = held[i - Len(applied)]
             /\ j - Len(applied) \in 1..Len(held) /\ applied'[j] = held[j - Len(applied)]
    <3>1. i - Len(applied) = j - Len(applied)
      BY <1>4, <2>3 DEF PageInv, Places, Once
    <3> QED
      BY <1>2, <3>1
  <2>4. /\ \/ i \in 1..Len(applied) /\ applied'[i] = applied[i]
           \/ i - Len(applied) \in 1..Len(held) /\ applied'[i] = held[i - Len(applied)]
        /\ \/ j \in 1..Len(applied) /\ applied'[j] = applied[j]
           \/ j - Len(applied) \in 1..Len(held) /\ applied'[j] = held[j - Len(applied)]
    BY <1>2
  <2> QED
    BY <1>4, <2>1, <2>2, <2>3, <2>4
<1>5. \A i \in 1..Len(applied') : Within(applied'[i], applied) \/ Within(applied'[i], held)
  BY <1>2 DEF Within
<1>6. \A x : Within(x, applied') => Within(x, applied) \/ Within(x, held)
  BY <1>5 DEF Within
<1>7. Sequences'
  BY <1>1, <1>2, <1>3 DEF PageInv, Sequences, Sequence
<1>8. AllStored'
  <2>1. \A x : Within(x, applied) \/ Within(x, held) => Took(fates, x)
    BY DEF PageInv, AllStored, Within
  <2> QED
    BY <1>1, <1>3, <1>5, <2>1 DEF PageInv, AllStored, OnTheWire
<1>9. \A x : ~Within(x, held')
  BY <1>3 DEF Within
<1>10. Once(held') /\ \A i \in 1..Len(held') : ~Within(held'[i], applied')
  BY <1>3 DEF Once
<1>11. Once(applied')
  BY <1>4 DEF Once
<1>12. Places'
  BY <1>1, <1>6, <1>9, <1>10, <1>11 DEF PageInv, Places, Once, Within, OnTheWire
<1> QED
  BY <1>7, <1>8, <1>12 DEF PageInv

-----------------------------------------------------------------------------
LEMMA Initially ==
  Init => IInv
<1> SUFFICES ASSUME Init
             PROVE  IInv
  OBVIOUS
<1>1. StoreInv
  BY StoreInitially DEF Init
<1>2. applied = <<>> /\ held = <<>> /\ wire = <<>>
  BY DEF Init
<1>3. PageInv
  BY <1>2, NothingWithin DEF PageInv, Sequences, Places, AllStored, Once, Within, OnTheWire
<1> QED
  BY <1>1, <1>3 DEF IInv

(* The store takes a step of its own or none, whatever the page does. *)
LEMMA StoreSteps ==
  [Next]_vars => [NextStore]_storeVars
<1>1. StoreEvent \/ DropDuplicate \/ Tick => NextStore
  BY DEF StoreEvent, DropDuplicate, NextStore
<1>2. \/ Heartbeat \/ HandleStream \/ AnswerRest
      \/ \E s \in Stream : SocketDestroyed(s) \/ CloseEvent(s)
      \/ ReceiveSnapshot \/ ReceiveEvent \/ HoldEvent \/ ReceiveRest \/ RestFails
      \/ Pause \/ Resume \/ StreamError
      => UNCHANGED storeVars
  BY DEF Heartbeat, HandleStream, AnswerRest, SocketDestroyed, CloseEvent, ReceiveSnapshot,
    ReceiveEvent, HoldEvent, Take, ReceiveRest, RestFails, Pause, Resume, StreamError
<1> QED
  BY <1>1, <1>2 DEF Next, vars

LEMMA DropDuplicateKeepsPlaces ==
  ASSUME IInv, DropDuplicate
  PROVE  PageInv'
<1>1. PICK id \in Id : Deduplicate(id)
  BY DEF DropDuplicate
<1>2. /\ fates' = Append(fates, Fate(id, FALSE)) /\ now' = now
      /\ UNCHANGED <<wire, applied, held>>
  BY <1>1 DEF Deduplicate, DropDuplicate, pageVars
<1>3. \A x : Took(fates, x) => Took(fates', x)
  BY <1>2, StoredOnce DEF IInv, StoreInv
<1>4. AllStored'
  BY <1>2, <1>3 DEF IInv, PageInv, AllStored, OnTheWire
<1> QED
  BY <1>2, <1>4 DEF IInv, PageInv, Sequences, Sequence, Places, Once, Within, OnTheWire

LEMMA Preserved ==
  IInv /\ [Next]_vars => IInv'
<1> SUFFICES ASSUME IInv, [Next]_vars
             PROVE  IInv'
  OBVIOUS
<1>1. StoreInv'
  BY StoreSteps, StorePreserved DEF IInv
<1>2. UNCHANGED <<fates, wire, applied, held>> => PageInv'
  BY PageRests DEF IInv
<1>3. \/ (Tick /\ UNCHANGED <<hubVars, pageVars>>) \/ Heartbeat \/ AnswerRest
      \/ \E s \in Stream : SocketDestroyed(s) \/ CloseEvent(s)
      \/ ReceiveRest \/ RestFails \/ Pause \/ UNCHANGED vars
      => UNCHANGED <<fates, wire, applied, held>>
  BY DEF Tick, Heartbeat, AnswerRest, SocketDestroyed, CloseEvent, ReceiveRest, RestFails, Pause,
    vars, storeVars, pageVars
<1>4. PageInv'
  BY <1>2, <1>3, StoreEventKeepsPlaces, DropDuplicateKeepsPlaces, StreamChangeKeepsPlaces,
    ReceiveSnapshotKeepsPlaces, ReceiveEventKeepsPlaces, HoldEventKeepsPlaces, ResumeKeepsPlaces
  DEF Next, IInv
<1> QED
  BY <1>1, <1>4 DEF IInv

-----------------------------------------------------------------------------
(* Whatever the ids, the window and the sizes, and however often the map   *)
(* is swept: addEvent() drops an event exactly if its id was stored less   *)
(* than DEDUPE_TTL_MS before.                                              *)
THEOREM WindowIsExact ==
  Spec => []DedupeWindow
<1>1. IInv => DedupeWindow
  BY DEF IInv, StoreInv
<1> QED
  BY <1>1, Initially, Preserved, PTL DEF Spec

(* However a page pauses, resumes and loses its streams, it gives a stored *)
(* event to applyLiveEvent() at most once: an id received again after its  *)
(* window is another event, and one within it never leaves the server.     *)
THEOREM AlertsOnce ==
  Spec => []OneAlertPerEvent
<1>1. IInv => OneAlertPerEvent
  BY DEF IInv, PageInv, Places, Once, OneAlertPerEvent
<1> QED
  BY <1>1, Initially, Preserved, PTL DEF Spec

Hubs == socket \in [Stream -> {"unused", "open", "destroyed"}] /\ OpenStreamsAreServed

LEMMA HubsPreserved ==
  Hubs /\ [Next]_vars => Hubs'
<1> SUFFICES ASSUME Hubs, [Next]_vars
             PROVE  Hubs'
  OBVIOUS
<1>1. CASE StoreEvent \/ Heartbeat
  <2>1. socket' = socket /\ \E refused \in Refusals : clients' = Reached(refused)
    BY <1>1 DEF StoreEvent, Heartbeat, pageVars
  <2> QED
    BY <2>1 DEF Hubs, OpenStreamsAreServed, Reached
<1>2. CASE HandleStream
  <2> DEFINE new == NextStream
  <2>1. \/ socket' = [socket EXCEPT ![new] = "open"] /\ clients' = clients \cup {new}
        \/ socket' = [socket EXCEPT ![new] = "destroyed"] /\ clients' = clients
    BY <1>2 DEF HandleStream
  <2> HIDE DEF new
  <2> QED
    BY <2>1 DEF Hubs, OpenStreamsAreServed
<1>3. CASE \E s \in Stream : SocketDestroyed(s)
  BY <1>3 DEF SocketDestroyed, Hubs, OpenStreamsAreServed, pageVars
<1>4. CASE \E s \in Stream : CloseEvent(s)
  BY <1>4 DEF CloseEvent, Hubs, OpenStreamsAreServed, pageVars
<1>5. CASE UNCHANGED hubVars
  BY <1>5 DEF Hubs, OpenStreamsAreServed, hubVars
<1>6. \/ (Tick /\ UNCHANGED <<hubVars, pageVars>>) \/ DropDuplicate \/ AnswerRest
      \/ ReceiveSnapshot \/ ReceiveEvent \/ HoldEvent \/ ReceiveRest \/ RestFails
      \/ Pause \/ Resume \/ StreamError \/ UNCHANGED vars
      => UNCHANGED hubVars
  BY DEF DropDuplicate, AnswerRest, ReceiveSnapshot, ReceiveEvent, HoldEvent, Take,
    ReceiveRest, RestFails, Pause, Resume, StreamError, vars
<1> QED
  BY <1>1, <1>2, <1>3, <1>4, <1>5, <1>6 DEF Next

(* A slow reader is not dropped with the dead ones: the hub writes to each *)
(* stream whose socket is open (send(), the close handler).                *)
THEOREM ReadersKeepTheirPlace ==
  Spec => []OpenStreamsAreServed
<1>1. Init => Hubs
  BY DEF Init, Hubs, OpenStreamsAreServed
<1>2. Hubs => OpenStreamsAreServed
  BY DEF Hubs
<1> QED
  BY <1>1, <1>2, HubsPreserved, PTL DEF Spec

-----------------------------------------------------------------------------
(* Positions: a list p of the calls in S, latest first, that leaves none   *)
(* out but those before all it has, and then has at least cap.             *)
Newest(p, S, cap) ==
  /\ S \subseteq Nat /\ p \in Seq(S)
  /\ \A k, l \in 1..Len(p) : k < l => p[l] < p[k]
  /\ \A i \in S : \/ \E k \in 1..Len(p) : p[k] = i
                  \/ cap <= Len(p) /\ \A k \in 1..Len(p) : i < p[k]

LEMMA SmallerOf ==
  ASSUME NEW m \in Nat, NEW n \in Nat
  PROVE  /\ Min({m, n}) = (IF m <= n THEN m ELSE n)
         /\ Min({m, n}) \in Nat /\ Min({m, n}) <= m /\ Min({m, n}) <= n
<1> DEFINE x == IF m <= n THEN m ELSE n
<1>1. x \in {m, n} /\ \A y \in {m, n} : x <= y
  OBVIOUS
<1>2. \A z \in {m, n} : (\A y \in {m, n} : z <= y) => z = x
  OBVIOUS
<1> HIDE DEF x
<1>3. Min({m, n}) = x
  BY <1>1, <1>2 DEF Min
<1> QED
  BY <1>3 DEF x

(* The list t is e before the list s, of which the first size are kept.    *)
Fronted(t, s, e, size) ==
  /\ Sequence(t) /\ Len(s) \in Nat /\ Len(t) \in Nat
  /\ \/ Len(s) + 1 <= size /\ Len(t) = Len(s) + 1
     \/ Len(s) + 1 > size /\ Len(t) = size
  /\ t[1] = e
  /\ \A k \in 2..Len(t) : k - 1 \in 1..Len(s) /\ t[k] = s[k - 1]

LEMMA FrontOf ==
  ASSUME NEW s, Sequence(s), NEW e, NEW size \in Nat \ {0}
  PROVE  Fronted(Prefix(<<e>> \o s, size), s, e, size)
<1> DEFINE S == Range(s) \cup {e}
           u == <<e>> \o s
<1>1. s \in Seq(S) /\ e \in S /\ Len(s) \in Nat
  BY SeqMonotonic, LenProperties DEF Sequence
<1>2. <<e>> \in Seq(S) /\ Len(<<e>>) = 1 /\ <<e>>[1] = e
  BY <1>1
<1>3. /\ u \in Seq(S) /\ Len(u) = 1 + Len(s)
      /\ \A k \in 1..(1 + Len(s)) : u[k] = IF k <= 1 THEN <<e>>[k] ELSE s[k - 1]
  BY <1>1, <1>2, ConcatProperties
<1> DEFINE m == Min({size, Len(u)})
<1>4. m = (IF size <= Len(u) THEN size ELSE Len(u)) /\ m \in Nat /\ m >= 1 /\ m <= Len(u)
  BY <1>1, <1>3, SmallerOf
<1> HIDE DEF u, m
<1>5. /\ SubSeq(u, 1, m) \in Seq(S)
      /\ Len(SubSeq(u, 1, m)) = m
      /\ \A k \in 1..m : SubSeq(u, 1, m)[k] = u[k]
  <2>1. /\ SubSeq(u, 1, m) \in Seq(S)
        /\ Len(SubSeq(u, 1, m)) = IF 1 <= m THEN m - 1 + 1 ELSE 0
        /\ \A k \in 1..(m - 1 + 1) : SubSeq(u, 1, m)[k] = u[1 + k - 1]
    BY <1>1, <1>3, <1>4, SubSeqProperties
  <2> QED
    BY <1>4, <2>1
<1>6. Prefix(u, size) = SubSeq(u, 1, m)
  BY DEF Prefix, m
<1> DEFINE t == Prefix(u, size)
<1>7. Sequence(t)
  BY <1>5, <1>6, SeqOfRange DEF Sequence
<1>8. Len(t) = m /\ \A k \in 1..m : t[k] = u[k]
  BY <1>5, <1>6
<1>9. t[1] = e
  BY <1>1, <1>2, <1>3, <1>4, <1>8
<1>10. \A k \in 2..m : k - 1 \in 1..Len(s) /\ t[k] = s[k - 1]
  BY <1>1, <1>3, <1>4, <1>8
<1> QED
  BY <1>1, <1>3, <1>4, <1>7, <1>8, <1>9, <1>10 DEF Fronted, u

(* A later call at the front makes such a list of one call more.           *)
LEMMA PushNewest ==
  ASSUME NEW S, NEW cap \in Nat, NEW p, Newest(p, S, cap),
         NEW x \in Nat, \A i \in S : i < x, NEW size \in Nat \ {0}, cap <= size
  PROVE  Newest(Prefix(<<x>> \o p, size), S \cup {x}, cap)
<1>1. S \subseteq Nat /\ p \in Seq(S) /\ Sequence(p)
  BY SeqOfRange DEF Newest, Sequence
<1> DEFINE q == Prefix(<<x>> \o p, size)
<1>0. Fronted(q, p, x, size)
  BY <1>1, FrontOf
<1> HIDE DEF q
<1>2. /\ Sequence(q) /\ Len(p) \in Nat /\ Len(q) \in Nat
      /\ \/ Len(p) + 1 <= size /\ Len(q) = Len(p) + 1
         \/ Len(p) + 1 > size /\ Len(q) = size
      /\ q[1] = x
      /\ \A k \in 2..Len(q) : k - 1 \in 1..Len(p) /\ q[k] = p[k - 1]
  BY <1>0 DEF Fronted
<1>3. \A k \in 1..Len(p) : p[k] \in S /\ p[k] \in Nat /\ p[k] < x
  BY <1>1, ElementOfSeq
<1>4. \A k \in 1..Len(q) : k = 1 \/ k \in 2..Len(q)
  BY <1>2
<1>5. \A k \in 1..Len(q) : q[k] \in S \cup {x}
  BY <1>2, <1>3, <1>4
<1>6. q \in Seq(S \cup {x})
  <2>1. q \in Seq(Range(q)) /\ Range(q) \subseteq S \cup {x}
    BY <1>5, <1>2 DEF Sequence, Range
  <2> QED
    BY <2>1, SeqMonotonic
<1>7. ASSUME NEW k \in 1..Len(q), NEW l \in 1..Len(q), k < l
      PROVE  q[l] < q[k]
  <2>1. l \in 2..Len(q) /\ l - 1 \in 1..Len(p) /\ q[l] = p[l - 1]
    BY <1>2, <1>7
  <2>2. CASE k = 1
    BY <1>2, <1>3, <2>1, <2>2
  <2>3. CASE k \in 2..Len(q)
    <3>1. k - 1 \in 1..Len(p) /\ q[k] = p[k - 1] /\ k - 1 < l - 1
      BY <1>2, <1>7, <2>3
    <3> QED
      BY <2>1, <3>1 DEF Newest
  <2> QED
    BY <1>4, <2>2, <2>3
<1>8. ASSUME NEW i \in S \cup {x}
      PROVE  \/ \E k \in 1..Len(q) : q[k] = i
             \/ cap <= Len(q) /\ \A k \in 1..Len(q) : i < q[k]
  <2>1. Len(q) \in Nat /\ 1 \in 1..Len(q)
    BY <1>2
  <2>2. CASE i = x
    BY <1>2, <2>1, <2>2
  <2>3. ASSUME i \in S, NEW k \in 1..Len(p), p[k] = i
        PROVE  \/ \E l \in 1..Len(q) : q[l] = i
               \/ cap <= Len(q) /\ \A l \in 1..Len(q) : i < q[l]
    <3>1. CASE k + 1 <= Len(q)
      <4>1. k + 1 \in 2..Len(q) /\ (k + 1) - 1 = k /\ k + 1 \in 1..Len(q)
        BY <1>2, <3>1, <2>1
      <4> QED
        BY <1>2, <2>3, <4>1
    <3>2. CASE ~(k + 1 <= Len(q))
      <4>1. Len(q) = size
        BY <1>2, <3>2
      <4>2. ASSUME NEW l \in 1..Len(q) PROVE i < q[l]
        <5>1. CASE l = 1
          BY <1>2, <1>3, <2>3, <5>1
        <5>2. CASE l \in 2..Len(q)
          <6>1. l - 1 \in 1..Len(p) /\ q[l] = p[l - 1] /\ l - 1 < k
            BY <1>2, <2>1, <3>2, <5>2
          <6> QED
            BY <2>3, <6>1 DEF Newest
        <5> QED
          BY <1>4, <5>1, <5>2
      <4> QED
        BY <4>1, <4>2
    <3> QED
      BY <3>1, <3>2
  <2>4. ASSUME i \in S, cap <= Len(p), \A k \in 1..Len(p) : i < p[k]
        PROVE  cap <= Len(q) /\ \A l \in 1..Len(q) : i < q[l]
    <3>1. cap <= Len(q)
      BY <1>2, <2>4
    <3>2. ASSUME NEW l \in 1..Len(q) PROVE i < q[l]
      BY <1>2, <1>3, <1>4, <2>4
    <3> QED
      BY <3>1, <3>2
  <2> QED
    BY <2>2, <2>3, <2>4 DEF Newest
<1> QED
  BY <1>1, <1>6, <1>7, <1>8 DEF Newest, q

(* Two such lists of the same calls agree as far as both go.               *)
LEMMA NotBefore ==
  ASSUME NEW S, NEW c, NEW d, NEW p, NEW q,
         Newest(p, S, c), Newest(q, S, d),
         NEW k \in 1..Len(p), k \in 1..Len(q), \A j \in 1..(k - 1) : p[j] = q[j]
  PROVE  ~(q[k] < p[k])
<1> SUFFICES ASSUME q[k] < p[k]
             PROVE  FALSE
  OBVIOUS
<1>1. /\ Len(p) \in Nat /\ Len(q) \in Nat
      /\ \A j \in 1..Len(p) : p[j] \in Nat /\ p[j] \in S
      /\ \A j \in 1..Len(q) : q[j] \in Nat /\ q[j] \in S
  BY ElementOfSeq, LenProperties DEF Newest
<1>2. PICK j \in 1..Len(q) : q[j] = p[k]
  <2>1. ~(p[k] < q[k])
    BY <1>1
  <2> QED
    BY <1>1, <2>1 DEF Newest
<1>3. j < k
  <2>1. ~(k < j)
    <3>1. k < j => q[j] < q[k]
      BY DEF Newest
    <3> QED
      BY <1>1, <1>2, <3>1
  <2>2. j # k
    BY <1>1, <1>2
  <2> QED
    BY <1>1, <2>1, <2>2
<1>4. p[j] = p[k] /\ j \in 1..Len(p)
  BY <1>1, <1>2, <1>3
<1>5. p[k] < p[j]
  BY <1>3, <1>4 DEF Newest
<1> QED
  BY <1>1, <1>4, <1>5

LEMMA NewestAgree ==
  ASSUME NEW S, NEW c, NEW d, NEW p, NEW q,
         Newest(p, S, c), Newest(q, S, d)
  PROVE  \A k \in 1..Len(p) : k \in 1..Len(q) => p[k] = q[k]
<1> DEFINE T == {k \in 1..Len(p) : k \in 1..Len(q) /\ p[k] # q[k]}
<1> SUFFICES ASSUME T # {}
             PROVE  FALSE
  OBVIOUS
<1>1. /\ Len(p) \in Nat /\ Len(q) \in Nat
      /\ \A j \in 1..Len(p) : p[j] \in Nat
      /\ \A j \in 1..Len(q) : q[j] \in Nat
  BY ElementOfSeq, LenProperties DEF Newest
<1>2. PICK k \in T : \A j \in T : k <= j
  <2>1. T \subseteq Nat
    BY <1>1
  <2> HIDE DEF T
  <2> QED
    BY <2>1, LeastNumber
<1>3. k \in 1..Len(p) /\ k \in 1..Len(q) /\ p[k] # q[k]
  OBVIOUS
<1>4. ASSUME NEW j \in 1..(k - 1) PROVE p[j] = q[j]
  <2>1. j \in 1..Len(p) /\ j \in 1..Len(q) /\ ~(k <= j)
    BY <1>1, <1>3
  <2>2. j \notin T
    BY <1>2, <2>1
  <2> QED
    BY <2>1, <2>2
<1> HIDE DEF T
<1>5. ~(q[k] < p[k]) /\ ~(p[k] < q[k])
  BY <1>3, <1>4, NotBefore
<1>6. p[k] \in Nat /\ q[k] \in Nat
  BY <1>1, <1>3
<1> QED
  BY <1>3, <1>5, <1>6

(* One that is shorter than the other has as many as it needs.             *)
LEMMA NewestCovers ==
  ASSUME NEW S, NEW c \in Nat, NEW d, NEW p, NEW q,
         Newest(p, S, c), Newest(q, S, d), Len(p) < Len(q)
  PROVE  c <= Len(p)
<1> SUFFICES ASSUME ~(c <= Len(p))
             PROVE  FALSE
  OBVIOUS
<1> DEFINE n == Len(p) + 1
<1>1. /\ Len(p) \in Nat /\ Len(q) \in Nat /\ n \in 1..Len(q)
      /\ \A j \in 1..Len(q) : q[j] \in Nat /\ q[j] \in S
  <2>1. Len(p) \in Nat /\ Len(q) \in Nat /\ \A j \in 1..Len(q) : q[j] \in S
    BY ElementOfSeq, LenProperties DEF Newest
  <2>2. \A j \in 1..Len(q) : q[j] \in Nat
    BY <2>1 DEF Newest
  <2> QED
    BY <2>1, <2>2
<1>2. PICK j \in 1..Len(p) : p[j] = q[n]
  BY <1>1 DEF Newest
<1>3. j \in 1..Len(q) /\ j < n
  BY <1>1
<1>4. q[j] = q[n]
  <2>1. \A i \in 1..Len(p) : i \in 1..Len(q) => p[i] = q[i]
    BY NewestAgree
  <2> QED
    BY <1>2, <1>3, <2>1
<1>5. q[n] < q[j]
  BY <1>1, <1>3 DEF Newest
<1> QED
  BY <1>1, <1>3, <1>4, <1>5

-----------------------------------------------------------------------------
(* Events: the list b shows the events of feed f that the first n calls    *)
(* stored, newest first, and at least cap of them if it does not show all. *)
EventAt(fs, i) == [id |-> fs[i].id, at |-> fs[i].at]
Calls(fs, f, n) == {i \in 1..n : fs[i].stored /\ FeedOf(fs[i].id) = f}

InCalls(b, p, fs) ==
  /\ Sequence(b) /\ Len(b) = Len(p)
  /\ \A k \in 1..Len(p) : b[k] = EventAt(fs, p[k])

Recent(fs, b, f, n, cap) ==
  \E p : Newest(p, Calls(fs, f, n), cap) /\ InCalls(b, p, fs)

(* No two calls stored the same event.                                     *)
Distinct(fs) ==
  \A i, j \in 1..Len(fs) :
    fs[i].stored /\ fs[j].stored /\ EventAt(fs, i) = EventAt(fs, j) => i = j

LEMMA RecentPushed ==
  ASSUME NEW fs, NEW f, NEW n \in Nat, NEW cap \in Nat, NEW b, Recent(fs, b, f, n, cap),
         NEW x \in Nat, n < x, x \in Calls(fs, f, x),
         \A i \in (n + 1)..(x - 1) : i \notin Calls(fs, f, x),
         NEW size \in Nat \ {0}, cap <= size
  PROVE  Recent(fs, Prefix(<<EventAt(fs, x)>> \o b, size), f, x, cap)
<1>1. PICK p : Newest(p, Calls(fs, f, n), cap) /\ InCalls(b, p, fs)
  BY DEF Recent
<1> DEFINE S == Calls(fs, f, n)
           q == Prefix(<<x>> \o p, size)
           e == EventAt(fs, x)
           c == Prefix(<<e>> \o b, size)
<1>2. Calls(fs, f, x) = S \cup {x} /\ S \subseteq Nat /\ \A i \in S : i < x
  <2>1. ASSUME NEW i \in 1..x PROVE i \in 1..n \/ i \in (n + 1)..(x - 1) \/ i = x
    OBVIOUS
  <2>2. \A i \in 1..n : i \in 1..x /\ i < x
    OBVIOUS
  <2> QED
    BY <2>1, <2>2 DEF Calls
<1> HIDE DEF S
<1>3. Newest(q, Calls(fs, f, x), cap)
  BY <1>1, <1>2, PushNewest DEF S
<1>4. Sequence(p) /\ Sequence(b)
  BY <1>1, SeqOfRange DEF Newest, InCalls, Sequence
<1>5. Fronted(q, p, x, size) /\ Fronted(c, b, e, size)
  BY <1>4, FrontOf
<1> HIDE DEF q, c, e
<1>6. Sequence(c) /\ Len(c) = Len(q) /\ Len(q) \in Nat
  BY <1>1, <1>5 DEF Fronted, InCalls
<1>7. ASSUME NEW k \in 1..Len(q) PROVE c[k] = EventAt(fs, q[k])
  <2>1. CASE k = 1
    BY <1>5, <2>1 DEF Fronted, e
  <2>2. CASE k \in 2..Len(q)
    <3>1. k - 1 \in 1..Len(p) /\ q[k] = p[k - 1] /\ c[k] = b[k - 1]
      BY <1>5, <1>6, <2>2 DEF Fronted
    <3> QED
      BY <1>1, <3>1 DEF InCalls
  <2> QED
    BY <1>6, <2>1, <2>2
<1>8. InCalls(c, q, fs)
  BY <1>6, <1>7 DEF InCalls
<1> QED
  BY <1>3, <1>8 DEF Recent, c, e

(* Other calls than those of the feed do not matter.                       *)
LEMMA RecentStays ==
  ASSUME NEW fs, NEW fates2, NEW f, NEW n \in Nat, NEW m \in Nat, n <= m, NEW cap, NEW b,
         Recent(fs, b, f, n, cap),
         \A i \in 1..n : fates2[i] = fs[i],
         \A i \in (n + 1)..m : i \notin Calls(fates2, f, m)
  PROVE  Recent(fates2, b, f, m, cap)
<1>1. PICK p : Newest(p, Calls(fs, f, n), cap) /\ InCalls(b, p, fs)
  BY DEF Recent
<1>2. Calls(fates2, f, m) = Calls(fs, f, n)
  <2>1. ASSUME NEW i \in 1..m PROVE i \in 1..n \/ i \in (n + 1)..m
    OBVIOUS
  <2>2. \A i \in 1..n : i \in 1..m
    OBVIOUS
  <2> QED
    BY <2>1, <2>2 DEF Calls
<1>3. \A k \in 1..Len(p) : p[k] \in 1..n
  BY <1>1, ElementOfSeq DEF Newest, Calls
<1>4. InCalls(b, p, fates2)
  BY <1>1, <1>3 DEF InCalls, EventAt
<1> QED
  BY <1>1, <1>2, <1>4 DEF Recent

LEMMA RecentNeedsLess ==
  ASSUME NEW fs, NEW f, NEW n, NEW b, NEW c \in Nat, NEW d \in Nat, d <= c,
         Recent(fs, b, f, n, c)
  PROVE  Recent(fs, b, f, n, d)
<1>1. PICK p : Newest(p, Calls(fs, f, n), c) /\ InCalls(b, p, fs)
  BY DEF Recent
<1>2. Newest(p, Calls(fs, f, n), d)
  BY <1>1, LenProperties DEF Newest
<1> QED
  BY <1>1, <1>2 DEF Recent

(* What is in such a list, and what is not.                                *)
LEMMA ShownIsStored ==
  ASSUME NEW fs, NEW f, NEW n, NEW b, NEW cap, Recent(fs, b, f, n, cap), NEW k \in 1..Len(b)
  PROVE  \E i \in Calls(fs, f, n) : b[k] = EventAt(fs, i)
BY ElementOfSeq DEF Recent, Newest, InCalls

LEMMA MissingIsOlder ==
  ASSUME NEW fs, NEW f, NEW n \in Nat, n <= Len(fs), Len(fs) \in Nat, NEW b, NEW cap,
         Recent(fs, b, f, n, cap), Distinct(fs), NEW i \in Calls(fs, f, n),
         \A k \in 1..Len(b) : b[k] # EventAt(fs, i)
  PROVE  /\ cap <= Len(b)
         /\ \A k \in 1..Len(b), j \in Calls(fs, f, n) : b[k] = EventAt(fs, j) => i < j
<1>1. PICK p : Newest(p, Calls(fs, f, n), cap) /\ InCalls(b, p, fs)
  BY DEF Recent
<1>2. /\ Len(b) = Len(p)
      /\ \A k \in 1..Len(p) : p[k] \in Calls(fs, f, n) /\ b[k] = EventAt(fs, p[k])
  BY <1>1, ElementOfSeq DEF InCalls, Newest
<1>3. cap <= Len(p) /\ \A k \in 1..Len(p) : i < p[k]
  BY <1>1, <1>2 DEF Newest
<1>4. \A j \in Calls(fs, f, n) : j \in 1..Len(fs) /\ fs[j].stored
  BY DEF Calls
<1>5. \A k \in 1..Len(p), j \in Calls(fs, f, n) : b[k] = EventAt(fs, j) => j = p[k]
  BY <1>2, <1>4 DEF Distinct
<1> QED
  BY <1>2, <1>3, <1>5

-----------------------------------------------------------------------------
(* The view v shows what the first n calls stored: what later ones stored  *)
(* is among the events P that are still to be applied, and any of P that   *)
(* are older are shown, so that they change nothing.                       *)
Cap == Min({ViewSize, BufferSize})

AsOf(fs, v, P, n) ==
  /\ n \in 0..Len(fs)
  /\ v = [f \in Feed |-> v[f]]
  /\ \A f \in Feed : Recent(fs, v[f], f, n, Cap)
  /\ \A i \in (n + 1)..Len(fs) : fs[i].stored => EventAt(fs, i) \in P
  /\ \A i \in 1..n : fs[i].stored /\ EventAt(fs, i) \in P => In(v, EventAt(fs, i))

LEMMA Sizes ==
  /\ ViewSize \in Nat \ {0} /\ BufferSize \in Nat \ {0}
  /\ Cap \in Nat \ {0} /\ Cap <= ViewSize /\ Cap <= BufferSize
<1>1. ViewSize \in Nat \ {0} /\ BufferSize \in Nat \ {0}
  BY LiveFeedAssumption, EventStoreAssumption
<1>2. Cap = IF ViewSize <= BufferSize THEN ViewSize ELSE BufferSize
  BY <1>1, SmallerOf DEF Cap
<1> QED
  BY <1>1, <1>2

LEMMA StoredCall ==
  ASSUME NEW fs, fs \in Seq(Fates), NEW i \in 1..Len(fs)
  PROVE  /\ Len(fs) \in Nat /\ FeedOf(fs[i].id) \in Feed
         /\ EventAt(fs, i).id = fs[i].id
<1>1. fs[i] \in Fates
  BY ElementOfSeq
<1> QED
  BY <1>1, LenProperties DEF Feed, Fates, EventAt

(* A call whose event is shown is none of the later ones.                  *)
LEMMA ShownIsEarlier ==
  ASSUME NEW fs, fs \in Seq(Fates), Distinct(fs), NEW v, NEW P, NEW n, AsOf(fs, v, P, n),
         NEW x \in 1..Len(fs), fs[x].stored, In(v, EventAt(fs, x))
  PROVE  x <= n
<1> DEFINE f == FeedOf(fs[x].id)
<1>1. f \in Feed /\ EventAt(fs, x).id = fs[x].id /\ n \in 0..Len(fs) /\ Len(fs) \in Nat
  BY StoredCall DEF AsOf
<1>2. PICK k \in 1..Len(v[f]) : v[f][k] = EventAt(fs, x)
  BY <1>1 DEF In
<1>3. Recent(fs, v[f], f, n, Cap)
  BY <1>1 DEF AsOf
<1>4. PICK i \in Calls(fs, f, n) : v[f][k] = EventAt(fs, i)
  BY <1>3, ShownIsStored
<1>5. i \in 1..n /\ fs[i].stored
  BY <1>4 DEF Calls
<1>6. i \in 1..Len(fs)
  BY <1>1, <1>5
<1>7. i = x
  BY <1>2, <1>4, <1>5, <1>6 DEF Distinct
<1> QED
  BY <1>1, <1>5, <1>7

(* applyLiveEvent() on the first of the events still to come.              *)
LEMMA AppliesOne ==
  ASSUME NEW fs, fs \in Seq(Fates), Distinct(fs), NEW v, NEW P, NEW n, AsOf(fs, v, P, n),
         NEW x \in 1..Len(fs), fs[x].stored, EventAt(fs, x) \in P,
         \A i \in 1..Len(fs) : fs[i].stored /\ EventAt(fs, i) \in P => x <= i,
         ~Missed(v, EventAt(fs, x))
  PROVE  \E m \in {n, x} : AsOf(fs, Added(v, EventAt(fs, x)), P \ {EventAt(fs, x)}, m)
<1> DEFINE e == EventAt(fs, x)
           f == FeedOf(fs[x].id)
<1>1. f \in Feed /\ e.id = fs[x].id /\ n \in 0..Len(fs) /\ Len(fs) \in Nat
  BY StoredCall DEF AsOf
<1>2. \A i \in 1..Len(fs) : fs[i].stored /\ EventAt(fs, i) = e => i = x
  BY DEF Distinct
<1>3. CASE x <= n
  <2>1. In(v, e)
    BY <1>1, <1>3 DEF AsOf
  <2>2. Shown(v, e.id)
    BY <2>1 DEF In, Shown
  <2>3. Added(v, e) = v
    BY <2>2 DEF Added
  <2>4. \A i \in (n + 1)..Len(fs) : fs[i].stored => EventAt(fs, i) \in P \ {e}
    <3>1. ASSUME NEW i \in (n + 1)..Len(fs), fs[i].stored PROVE EventAt(fs, i) \in P \ {e}
      <4>1. i \in 1..Len(fs) /\ i # x
        BY <1>1, <1>3
      <4> QED
        BY <1>2, <3>1, <4>1 DEF AsOf
    <3> QED
      BY <3>1
  <2>5. AsOf(fs, v, P \ {e}, n)
    BY <2>4 DEF AsOf
  <2> QED
    BY <2>3, <2>5
<1>4. CASE n < x
  <2>1. ~In(v, e)
    BY <1>1, <1>4, ShownIsEarlier
  <2>2. ~Shown(v, e.id)
    BY <2>1 DEF Missed
  <2>3. Added(v, e) = [v EXCEPT ![f] = Prefix(<<e>> \o @, ViewSize)]
    BY <1>1, <2>2 DEF Added, AddedAgain
  <2> DEFINE w == Added(v, e)
  <2>4. /\ w = [g \in Feed |-> w[g]]
        /\ w[f] = Prefix(<<e>> \o v[f], ViewSize)
        /\ \A g \in Feed : g # f => w[g] = v[g]
    <3>1. v = [g \in Feed |-> v[g]]
      BY DEF AsOf
    <3> HIDE DEF e, f
    <3> QED
      BY <1>1, <2>3, <3>1
  <2> HIDE DEF w
  <2>5. \A i \in (n + 1)..(x - 1) : ~fs[i].stored
    <3>1. ASSUME NEW i \in (n + 1)..(x - 1), fs[i].stored PROVE FALSE
      <4>1. i \in 1..Len(fs) /\ i \in (n + 1)..Len(fs) /\ ~(x <= i)
        BY <1>1, <1>4
      <4> QED
        BY <3>1, <4>1 DEF AsOf
    <3> QED
      BY <3>1
  <2>6. x \in Calls(fs, f, x) /\ n \in Nat /\ x \in Nat
    BY <1>1 DEF Calls
  <2>7. Recent(fs, w[f], f, x, Cap)
    <3>1. Recent(fs, v[f], f, n, Cap)
      BY <1>1 DEF AsOf
    <3>2. \A i \in (n + 1)..(x - 1) : i \notin Calls(fs, f, x)
      BY <2>5 DEF Calls
    <3>3. Recent(fs, Prefix(<<e>> \o v[f], ViewSize), f, x, Cap)
      <4> HIDE DEF f
      <4> QED
        BY <1>4, <2>6, <3>1, <3>2, Sizes, RecentPushed
    <3> QED
      BY <2>4, <3>3
  <2>8. ASSUME NEW g \in Feed, g # f PROVE Recent(fs, w[g], g, x, Cap)
    <3>1. Recent(fs, v[g], g, n, Cap) /\ w[g] = v[g]
      BY <2>4, <2>8 DEF AsOf
    <3>2. \A i \in (n + 1)..x : i \notin Calls(fs, g, x)
      <4>1. \A i \in (n + 1)..x : i \in (n + 1)..(x - 1) \/ i = x
        BY <2>6
      <4> QED
        BY <2>5, <2>8, <4>1 DEF Calls
    <3> QED
      BY <1>4, <2>6, <3>1, <3>2, RecentStays
  <2>9. ASSUME NEW i \in (x + 1)..Len(fs), fs[i].stored PROVE EventAt(fs, i) \in P \ {e}
    <3>1. i \in (n + 1)..Len(fs) /\ i \in 1..Len(fs) /\ i # x
      BY <1>1, <1>4
    <3> QED
      BY <1>2, <2>9, <3>1 DEF AsOf
  <2>10. ASSUME NEW i \in 1..x, fs[i].stored, EventAt(fs, i) \in P \ {e} PROVE FALSE
    <3>1. i \in 1..Len(fs) /\ (x <= i => i = x)
      BY <1>1
    <3> QED
      BY <2>10, <3>1
  <2>11. AsOf(fs, w, P \ {e}, x)
    <3>1. \A g \in Feed : Recent(fs, w[g], g, x, Cap)
      BY <2>7, <2>8
    <3>2. x \in 0..Len(fs)
      BY <1>1
    <3> QED
      BY <2>4, <2>9, <2>10, <3>1, <3>2 DEF AsOf
  <2> QED
    BY <2>11 DEF w
<1> QED
  BY <1>1, <1>3, <1>4

-----------------------------------------------------------------------------
(* What is on its way to the page.                                         *)
HeldEvents(h) == {h[k] : k \in 1..Len(h)}
WireEvents(w) == {w[k].event : k \in {j \in 1..Len(w) : w[j].kind = "event"}}
Opens(w) == 1 \in 1..Len(w) /\ w[1].kind = "snapshot"

(* Events come in the order they were stored in: those held are older than *)
(* those on the wire, and a snapshot is the first message of a stream.     *)
Known(fs, e) == \E i \in 1..Len(fs) : fs[i].stored /\ e = EventAt(fs, i)
Precedes(fs, d, e) ==
  \A i, j \in 1..Len(fs) :
    fs[i].stored /\ fs[j].stored /\ d = EventAt(fs, i) /\ e = EventAt(fs, j) => i < j

HeldInTurn(fs, h) ==
  /\ \A k \in 1..Len(h) : Known(fs, h[k])
  /\ \A k, l \in 1..Len(h) : k < l => Precedes(fs, h[k], h[l])
WireInTurn(fs, w) ==
  /\ \A k \in 1..Len(w) : w[k].kind = "event" => Known(fs, w[k].event)
  /\ \A k, l \in 1..Len(w) :
       k < l /\ w[k].kind = "event" /\ w[l].kind = "event" => Precedes(fs, w[k].event, w[l].event)
  /\ \A k \in 1..Len(w) : w[k].kind = "snapshot" => k = 1
AllBefore(fs, H, E) == \A d \in H, e \in E : Precedes(fs, d, e)

(* A snapshot or a response has the buffers as of some call; the wire of a *)
(* stream brings what was stored since, and the view, unless it is excused,*)
(* is as of a call after which all is held or on the wire.                 *)
FeedsAsOf(fs, feeds, n) ==
  /\ n \in 0..Len(fs)
  /\ feeds = [f \in Feed |-> feeds[f]]
  /\ \A f \in Feed : Recent(fs, feeds[f], f, n, BufferSize) /\ Len(feeds[f]) <= BufferSize
NoneBefore(fs, E, n) == \A i \in 1..n : fs[i].stored => EventAt(fs, i) \notin E
Brings(fs, E, n) ==
  /\ \A i \in (n + 1)..Len(fs) : fs[i].stored => EventAt(fs, i) \in E
  /\ NoneBefore(fs, E, n)
ViewAsOf(fs, v, H, E, r, n) ==
  /\ AsOf(fs, v, H \cup E, n)
  /\ r # "done" => NoneBefore(fs, E, n)

Following == stream \in Stream /\ socket[stream] = "open"

Snapshots ==
  /\ FeedsAsOf(fates, buffers, Len(fates))
  /\ rest = "answered" => \E n : FeedsAsOf(fates, answer, n)
InTurn ==
  /\ HeldInTurn(fates, held) /\ WireInTurn(fates, wire)
  /\ AllBefore(fates, HeldEvents(held), WireEvents(wire))
  /\ held # <<>> => paused
  /\ stream \in Stream \cup {NoStream}
Follows ==
  Following =>
    IF Opens(wire)
    THEN \E n : FeedsAsOf(fates, wire[1].feeds, n) /\ Brings(fates, WireEvents(wire), n)
    ELSE excused = {} =>
           \E n : ViewAsOf(fates, view, HeldEvents(held), WireEvents(wire), rest, n)

LiveInv == IInv /\ Hubs /\ Snapshots /\ InTurn /\ Follows

-----------------------------------------------------------------------------
LEMMA HeadIsNewest ==
  ASSUME NEW fs, NEW f, NEW n \in Nat, NEW b, NEW cap, Recent(fs, b, f, n, cap), 1 \in 1..Len(b)
  PROVE  \E j \in Calls(fs, f, n) : b[1] = EventAt(fs, j) /\ \A i \in Calls(fs, f, n) : i <= j
<1>1. PICK p : Newest(p, Calls(fs, f, n), cap) /\ InCalls(b, p, fs)
  BY DEF Recent
<1>2. /\ 1 \in 1..Len(p) /\ p[1] \in Calls(fs, f, n) /\ b[1] = EventAt(fs, p[1])
      /\ Len(p) \in Nat /\ \A k \in 1..Len(p) : p[k] \in 1..n
  BY <1>1, ElementOfSeq, LenProperties DEF InCalls, Newest, Calls
<1>3. ASSUME NEW i \in Calls(fs, f, n) PROVE i <= p[1]
  <2>1. i \in 1..n
    BY DEF Calls
  <2>2. CASE i < p[1]
    BY <1>2, <2>1, <2>2
  <2>3. ASSUME NEW k \in 1..Len(p), p[k] = i PROVE i <= p[1]
    <3>1. k = 1 \/ 1 < k
      BY <1>2
    <3>2. 1 < k => p[k] < p[1]
      BY <1>1, <1>2 DEF Newest
    <3> QED
      BY <1>2, <2>1, <2>3, <3>1, <3>2
  <2> QED
    BY <1>1, <1>2, <2>2, <2>3 DEF Newest
<1> QED
  BY <1>2, <1>3

(* The bootstrap response continues the view, whichever of them is newer.  *)
LEMMA RestContinues ==
  ASSUME NEW fs, fs \in Seq(Fates), Distinct(fs), NEW v, NEW P, NEW n, AsOf(fs, v, P, n),
         NEW a, NEW m, FeedsAsOf(fs, a, m),
         \A f \in Feed : v[f] = <<>> => Len(a[f]) < BufferSize,
         \A f \in Feed : v[f] # <<>> => In(a, Head(v[f])),
         \A i \in 1..n : fs[i].stored /\ EventAt(fs, i) \in P => In(a, EventAt(fs, i))
  PROVE  \E x \in {n, m} : n <= x /\ AsOf(fs, a, P, x)
<1>1. n \in 0..Len(fs) /\ m \in 0..Len(fs) /\ Len(fs) \in Nat /\ n \in Nat /\ m \in Nat
  <2>1. n \in 0..Len(fs) /\ m \in 0..Len(fs) /\ Len(fs) \in Nat
    BY LenProperties DEF AsOf, FeedsAsOf
  <2> QED
    BY <2>1
<1>2. ASSUME NEW f \in Feed
      PROVE  Recent(fs, v[f], f, n, Cap) /\ Recent(fs, a[f], f, m, BufferSize) /\ Recent(fs, a[f], f, m, Cap)
  BY RecentNeedsLess, Sizes DEF AsOf, FeedsAsOf
<1>3. \A f, i, x : i \in Calls(fs, f, x) => i \in 1..x /\ fs[i].stored /\ FeedOf(fs[i].id) = f
  BY DEF Calls
(* The newest event shown is in the response, by a call both know.         *)
<1>4. ASSUME NEW f \in Feed, v[f] # <<>>
      PROVE  \E j \in Calls(fs, f, n) : /\ j \in Calls(fs, f, m)
                                        /\ \A i \in Calls(fs, f, n) : i <= j
                                        /\ \E k \in 1..Len(a[f]) : a[f][k] = EventAt(fs, j)
  <2>1. Sequence(v[f])
    BY <1>2 DEF Recent, InCalls
  <2>2. Head(v[f]) = v[f][1] /\ 1 \in 1..Len(v[f])
    BY <1>4, <2>1, TailOf
  <2>3. PICK j \in Calls(fs, f, n) :
          v[f][1] = EventAt(fs, j) /\ \A i \in Calls(fs, f, n) : i <= j
    BY <1>1, <1>2, <2>2, HeadIsNewest
  <2>4. EventAt(fs, j).id = fs[j].id /\ FeedOf(fs[j].id) = f
    BY <1>3 DEF EventAt
  <2>5. PICK k \in 1..Len(a[f]) : a[f][k] = EventAt(fs, j)
    BY <1>4, <2>2, <2>3, <2>4 DEF In
  <2>6. PICK i \in Calls(fs, f, m) : a[f][k] = EventAt(fs, i)
    BY <1>2, ShownIsStored
  <2>7. i \in 1..Len(fs) /\ j \in 1..Len(fs) /\ fs[i].stored /\ fs[j].stored
    BY <1>1, <1>3, <2>6
  <2>8. i = j
    BY <2>5, <2>6, <2>7 DEF Distinct
  <2> QED
    BY <2>3, <2>5, <2>6, <2>8
<1>5. CASE m < n
  <2>1. ASSUME NEW f \in Feed, NEW i \in (m + 1)..n, i \in Calls(fs, f, n) PROVE FALSE
    <3>1. CASE v[f] = <<>>
      <4>1. Len(v[f]) = 0
        BY <3>1, EmptySeq
      <4>2. Cap <= Len(v[f])
        BY <1>1, <1>2, <2>1, <4>1, MissingIsOlder
      <4> QED
        BY <4>1, <4>2, Sizes
    <3>2. CASE v[f] # <<>>
      <4>1. PICK j \in Calls(fs, f, m) : \A x \in Calls(fs, f, n) : x <= j
        BY <1>4, <3>2
      <4>2. j \in 1..m /\ i <= j
        BY <1>3, <2>1, <4>1
      <4> QED
        BY <1>1, <2>1, <4>2
    <3> QED
      BY <3>1, <3>2
  <2>2. ASSUME NEW f \in Feed PROVE Recent(fs, a[f], f, n, Cap)
    <3>1. \A i \in (m + 1)..n : i \notin Calls(fs, f, n)
      BY <2>1
    <3> QED
      BY <1>1, <1>2, <1>5, <3>1, RecentStays
  <2>3. AsOf(fs, a, P, n)
    BY <2>2 DEF AsOf, FeedsAsOf
  <2> QED
    BY <1>1, <2>3
<1>6. CASE n <= m
  <2>1. ASSUME NEW i \in 1..m, fs[i].stored, EventAt(fs, i) \in P, n < i, ~In(a, EventAt(fs, i))
        PROVE  FALSE
    <3> DEFINE f == FeedOf(fs[i].id)
    <3>1. i \in 1..Len(fs)
      BY <1>1
    <3>2. f \in Feed /\ EventAt(fs, i).id = fs[i].id
      BY <3>1, StoredCall
    <3>3. i \in Calls(fs, f, m)
      BY <2>1 DEF Calls
    <3>4. \A k \in 1..Len(a[f]) : a[f][k] # EventAt(fs, i)
      BY <2>1, <3>2 DEF In
    <3> HIDE DEF f
    <3>5. /\ BufferSize <= Len(a[f])
          /\ \A k \in 1..Len(a[f]), j \in Calls(fs, f, m) : a[f][k] = EventAt(fs, j) => i < j
      BY <1>1, <1>2, <3>2, <3>3, <3>4, MissingIsOlder
    <3>6. v[f] # <<>>
      <4>1. Sequence(a[f])
        BY <1>2, <3>2 DEF Recent, InCalls
      <4>2. Len(a[f]) \in Nat
        BY <4>1, LenProperties DEF Sequence
      <4>3. ~(Len(a[f]) < BufferSize)
        BY <3>5, <4>2, Sizes
      <4> QED
        BY <3>2, <4>3
    <3>7. PICK j \in Calls(fs, f, n) : j \in Calls(fs, f, m) /\ i < j
      BY <1>4, <3>2, <3>5, <3>6
    <3> QED
      BY <1>1, <1>3, <2>1, <3>7
  <2>2. \A i \in 1..m : fs[i].stored /\ EventAt(fs, i) \in P => In(a, EventAt(fs, i))
    <3>1. \A i \in 1..m : i \in 1..n \/ n < i
      BY <1>1
    <3> QED
      BY <2>1, <3>1
  <2>3. \A i \in (m + 1)..Len(fs) : i \in (n + 1)..Len(fs)
    BY <1>1, <1>6
  <2>4. AsOf(fs, a, P, m)
    BY <1>2, <2>2, <2>3 DEF AsOf, FeedsAsOf
  <2> QED
    BY <1>6, <2>4
<1> QED
  BY <1>1, <1>5, <1>6

(* A view for which nothing is still to come shows the buffers.            *)
ShowsNewest(v, b, f) ==
  /\ Len(v[f]) >= Min({ViewSize, Len(b[f])})
  /\ \A k \in 1..Min({Len(v[f]), Len(b[f])}) : v[f][k] = b[f][k]

LEMMA NothingToCome ==
  ASSUME NEW fs, fs \in Seq(Fates), NEW v, NEW n, AsOf(fs, v, {}, n),
         NEW b, FeedsAsOf(fs, b, Len(fs)), NEW f \in Feed
  PROVE  ShowsNewest(v, b, f)
<1>1. Len(fs) \in Nat /\ n \in Nat /\ n <= Len(fs)
  <2>1. Len(fs) \in Nat /\ n \in 0..Len(fs)
    BY LenProperties DEF AsOf
  <2> QED
    BY <2>1
<1>2. Recent(fs, v[f], f, Len(fs), Cap)
  <2>1. Recent(fs, v[f], f, n, Cap) /\ \A i \in (n + 1)..Len(fs) : ~fs[i].stored
    BY DEF AsOf
  <2>2. \A i \in (n + 1)..Len(fs) : i \notin Calls(fs, f, Len(fs))
    BY <2>1 DEF Calls
  <2> QED
    BY <1>1, <2>1, <2>2, RecentStays
<1>3. Recent(fs, b[f], f, Len(fs), BufferSize) /\ Len(b[f]) <= BufferSize
  BY DEF FeedsAsOf
<1> DEFINE S == Calls(fs, f, Len(fs))
<1>4. PICK p : Newest(p, S, Cap) /\ InCalls(v[f], p, fs)
  BY <1>2 DEF Recent
<1>5. PICK q : Newest(q, S, BufferSize) /\ InCalls(b[f], q, fs)
  BY <1>3 DEF Recent
<1> HIDE DEF S
<1>6. /\ Len(p) \in Nat /\ Len(q) \in Nat /\ Len(v[f]) = Len(p) /\ Len(b[f]) = Len(q)
      /\ \A k \in 1..Len(p) : v[f][k] = EventAt(fs, p[k])
      /\ \A k \in 1..Len(q) : b[f][k] = EventAt(fs, q[k])
  BY <1>4, <1>5, LenProperties DEF Newest, InCalls
<1>7. \A k \in 1..Len(p) : k \in 1..Len(q) => p[k] = q[k]
  BY <1>4, <1>5, NewestAgree
<1>8. Len(p) < Len(q) => Cap <= Len(p)
  BY <1>4, <1>5, Sizes, NewestCovers
<1>9. \A k \in 1..Min({Len(p), Len(q)}) : k \in 1..Len(p) /\ k \in 1..Len(q)
  BY <1>6, SmallerOf
<1>10. Len(p) >= Min({ViewSize, Len(q)})
  <2>1. /\ Cap = IF ViewSize <= BufferSize THEN ViewSize ELSE BufferSize
        /\ Min({ViewSize, Len(q)}) = IF ViewSize <= Len(q) THEN ViewSize ELSE Len(q)
    BY <1>6, Sizes, SmallerOf DEF Cap
  <2>2. Len(q) <= BufferSize
    BY <1>3, <1>6
  <2> QED
    BY <1>6, <1>8, <2>1, <2>2, Sizes
<1> QED
  BY <1>6, <1>7, <1>9, <1>10 DEF ShowsNewest

-----------------------------------------------------------------------------
(* One call more, the last of gs, leaves what was said of the earlier ones.*)
OneMore(fs, gs) ==
  /\ fs \in Seq(Fates) /\ gs \in Seq(Fates) /\ Distinct(gs)
  /\ Len(fs) \in Nat /\ Len(gs) = Len(fs) + 1
  /\ \A i \in 1..Len(fs) : gs[i] = fs[i]

(* The events E, with that of the last call if it stored one.              *)
WithLast(gs, E, G) ==
  \/ ~gs[Len(gs)].stored /\ G = E
  \/ gs[Len(gs)].stored /\ G = E \cup {EventAt(gs, Len(gs))}

LEMMA KnownStays ==
  ASSUME NEW fs, NEW gs, OneMore(fs, gs), NEW e, Known(fs, e)
  PROVE  /\ Known(gs, e)
         /\ \A j \in 1..Len(gs) : gs[j].stored /\ e = EventAt(gs, j) =>
              j \in 1..Len(fs) /\ fs[j].stored /\ e = EventAt(fs, j)
<1>1. PICK i \in 1..Len(fs) : fs[i].stored /\ e = EventAt(fs, i)
  BY DEF Known
<1>2. i \in 1..Len(gs) /\ gs[i].stored /\ e = EventAt(gs, i)
  BY <1>1 DEF OneMore, EventAt
<1>3. \A j \in 1..Len(gs) : gs[j].stored /\ e = EventAt(gs, j) => j = i
  BY <1>2 DEF OneMore, Distinct
<1> QED
  BY <1>1, <1>2, <1>3 DEF Known

LEMMA PrecedesStays ==
  ASSUME NEW fs, NEW gs, OneMore(fs, gs), NEW d, NEW e, Known(fs, d), Known(fs, e), Precedes(fs, d, e)
  PROVE  Precedes(gs, d, e)
BY KnownStays DEF Precedes

LEMMA LastComesLast ==
  ASSUME NEW fs, NEW gs, OneMore(fs, gs), NEW d, Known(fs, d), gs[Len(gs)].stored
  PROVE  /\ Known(gs, EventAt(gs, Len(gs)))
         /\ Precedes(gs, d, EventAt(gs, Len(gs)))
<1>1. Len(gs) \in 1..Len(gs) /\ Len(fs) \in Nat /\ Len(gs) = Len(fs) + 1
  BY DEF OneMore
<1>2. \A j \in 1..Len(gs) : gs[j].stored /\ EventAt(gs, Len(gs)) = EventAt(gs, j) => j = Len(gs)
  BY <1>1 DEF OneMore, Distinct
<1>3. \A i \in 1..Len(fs) : i < Len(gs)
  BY <1>1
<1>4. \A i \in 1..Len(gs) : gs[i].stored /\ d = EventAt(gs, i) => i \in 1..Len(fs)
  BY KnownStays
<1>5. Precedes(gs, d, EventAt(gs, Len(gs)))
  BY <1>2, <1>3, <1>4 DEF Precedes
<1> QED
  BY <1>1, <1>5 DEF Known

LEMMA FeedsStay ==
  ASSUME NEW fs, NEW gs, OneMore(fs, gs), NEW a, NEW n, FeedsAsOf(fs, a, n)
  PROVE  FeedsAsOf(gs, a, n)
<1>1. n \in Nat /\ n <= Len(fs) /\ n \in 0..Len(gs)
  <2>1. n \in 0..Len(fs) /\ Len(fs) \in Nat /\ Len(gs) = Len(fs) + 1
    BY DEF FeedsAsOf, OneMore
  <2> QED
    BY <2>1
<1>2. ASSUME NEW f \in Feed PROVE Recent(gs, a[f], f, n, BufferSize)
  <2>1. /\ Recent(fs, a[f], f, n, BufferSize) /\ \A i \in 1..n : gs[i] = fs[i]
        /\ \A i \in (n + 1)..n : i \notin Calls(gs, f, n)
    BY <1>1 DEF FeedsAsOf, OneMore
  <2> QED
    BY <1>1, <2>1, RecentStays
<1> QED
  BY <1>1, <1>2 DEF FeedsAsOf

LEMMA LaterEvents ==
  ASSUME NEW fs, NEW gs, OneMore(fs, gs), NEW E, NEW G, WithLast(gs, E, G), NEW n \in 0..Len(fs)
  PROVE  /\ (\A i \in (n + 1)..Len(fs) : fs[i].stored => EventAt(fs, i) \in E) =>
              \A i \in (n + 1)..Len(gs) : gs[i].stored => EventAt(gs, i) \in G
         /\ \A i \in 1..n : gs[i].stored =>
              /\ fs[i].stored /\ EventAt(gs, i) = EventAt(fs, i)
              /\ EventAt(gs, i) \in G => EventAt(fs, i) \in E
<1>1. Len(fs) \in Nat /\ Len(gs) = Len(fs) + 1 /\ \A i \in 1..Len(fs) : gs[i] = fs[i]
  BY DEF OneMore
<1>2. \A i \in 1..Len(fs) : EventAt(gs, i) = EventAt(fs, i)
  BY <1>1 DEF EventAt
<1>3. ASSUME \A i \in (n + 1)..Len(fs) : fs[i].stored => EventAt(fs, i) \in E,
             NEW i \in (n + 1)..Len(gs), gs[i].stored
      PROVE  EventAt(gs, i) \in G
  <2>1. CASE i = Len(gs)
    BY <1>3, <2>1 DEF WithLast
  <2>2. CASE i # Len(gs)
    <3>1. i \in (n + 1)..Len(fs) /\ i \in 1..Len(fs)
      BY <1>1, <2>2
    <3> QED
      BY <1>1, <1>2, <1>3, <3>1 DEF WithLast
  <2> QED
    BY <2>1, <2>2
<1>4. ASSUME NEW i \in 1..n, gs[i].stored
      PROVE  /\ fs[i].stored /\ EventAt(gs, i) = EventAt(fs, i)
             /\ EventAt(gs, i) \in G => EventAt(fs, i) \in E
  <2>1. i \in 1..Len(fs) /\ i \in 1..Len(gs) /\ Len(gs) \in 1..Len(gs) /\ i # Len(gs)
    BY <1>1
  <2>2. gs[Len(gs)].stored => EventAt(gs, i) # EventAt(gs, Len(gs))
    BY <1>4, <2>1 DEF OneMore, Distinct
  <2> QED
    BY <1>1, <1>2, <1>4, <2>1, <2>2 DEF WithLast
<1> QED
  BY <1>3, <1>4

LEMMA AsOfStays ==
  ASSUME NEW fs, NEW gs, OneMore(fs, gs), NEW P, NEW Q, WithLast(gs, P, Q),
         NEW v, NEW n, AsOf(fs, v, P, n)
  PROVE  AsOf(gs, v, Q, n)
<1>1. n \in Nat /\ n <= Len(fs) /\ n \in 0..Len(fs) /\ n \in 0..Len(gs)
  <2>1. n \in 0..Len(fs) /\ Len(fs) \in Nat /\ Len(gs) = Len(fs) + 1
    BY DEF AsOf, OneMore
  <2> QED
    BY <2>1
<1>2. ASSUME NEW f \in Feed PROVE Recent(gs, v[f], f, n, Cap)
  <2>1. /\ Recent(fs, v[f], f, n, Cap) /\ \A i \in 1..n : gs[i] = fs[i]
        /\ \A i \in (n + 1)..n : i \notin Calls(gs, f, n)
    BY <1>1 DEF AsOf, OneMore
  <2> QED
    BY <1>1, <2>1, RecentStays
<1>3. \A i \in (n + 1)..Len(gs) : gs[i].stored => EventAt(gs, i) \in Q
  BY <1>1, LaterEvents DEF AsOf
<1>4. \A i \in 1..n : gs[i].stored /\ EventAt(gs, i) \in Q => In(v, EventAt(gs, i))
  BY <1>1, LaterEvents DEF AsOf
<1> QED
  BY <1>1, <1>2, <1>3, <1>4 DEF AsOf

LEMMA BringsStay ==
  ASSUME NEW fs, NEW gs, OneMore(fs, gs), NEW E, NEW G, WithLast(gs, E, G), NEW n \in 0..Len(fs)
  PROVE  /\ NoneBefore(fs, E, n) => NoneBefore(gs, G, n)
         /\ Brings(fs, E, n) => Brings(gs, G, n)
BY LaterEvents DEF NoneBefore, Brings

-----------------------------------------------------------------------------
LEMMA EventsAreDistinct ==
  ASSUME StoreInv
  PROVE  Distinct(fates) /\ fates \in Seq(Fates) /\ Len(fates) \in Nat
<1>1. /\ Types /\ Len(fates) \in Nat /\ fates \in Seq(Fates)
      /\ \A i \in 1..Len(fates) : fates[i].at \in Nat
  BY FateTypes DEF StoreInv, Types
<1>2. ASSUME NEW i \in 1..Len(fates), NEW j \in 1..Len(fates), i < j,
             fates[i].stored, fates[j].stored, EventAt(fates, i) = EventAt(fates, j)
      PROVE  FALSE
  <2>1. fates[i].id = fates[j].id /\ fates[i].at = fates[j].at
    BY <1>2 DEF EventAt
  <2>2. i \in 1..(j - 1)
    BY <1>1, <1>2
  <2>3. ~(fates[j].at < fates[i].at + Ttl)
    BY <1>2, <2>1, <2>2 DEF StoreInv, DedupeWindow, Received
  <2> QED
    BY <1>1, <2>1, <2>3, EventStoreAssumption
<1>3. \A i, j \in 1..Len(fates) : i < j \/ j < i \/ i = j
  BY <1>1
<1> QED
  BY <1>1, <1>2, <1>3 DEF Distinct

LEMMA OneMoreCall ==
  ASSUME StoreInv, NEW id \in Id, NEW stored \in BOOLEAN, stored => ~Duplicate(id),
         fates' = Append(fates, Fate(id, stored)), now' = now
  PROVE  /\ OneMore(fates, fates') /\ fates'[Len(fates')].stored = stored
         /\ fates'[Len(fates')].id = id /\ EventAt(fates', Len(fates')) = Event(id)
<1>1. /\ Len(fates') = Len(fates) + 1 /\ Len(fates) \in Nat /\ fates' \in Seq(Fates)
      /\ \A i \in 1..Len(fates) : fates'[i] = fates[i]
      /\ fates'[Len(fates) + 1] = Fate(id, stored)
  BY Appended DEF StoreInv, Types
<1> DEFINE last == Len(fates')
<1>2. /\ fates'[last].stored = stored /\ fates'[last].id = id
      /\ EventAt(fates', last) = Event(id)
  BY <1>1 DEF Fate, EventAt, Event
<1>3. /\ Distinct(fates) /\ fates \in Seq(Fates)
      /\ \A i \in 1..Len(fates) : EventAt(fates', i) = EventAt(fates, i)
  BY <1>1, EventsAreDistinct DEF EventAt
<1>4. ASSUME NEW i \in 1..Len(fates), fates[i].stored, stored PROVE EventAt(fates, i) # Event(id)
  <2>1. ~Took(fates, Event(id))
    BY <1>4, NewEventIsNew
  <2> QED
    BY <1>4, <2>1 DEF Took, EventAt, Event
<1>5. \A i \in 1..Len(fates') : i \in 1..Len(fates) \/ i = last
  BY <1>1
<1> HIDE DEF last
<1>6. Distinct(fates')
  <2> SUFFICES ASSUME NEW i \in 1..Len(fates'), NEW j \in 1..Len(fates'),
                      fates'[i].stored, fates'[j].stored, EventAt(fates', i) = EventAt(fates', j)
               PROVE  i = j
    BY DEF Distinct
  <2>1. CASE i \in 1..Len(fates) /\ j \in 1..Len(fates)
    BY <1>1, <1>3, <2>1 DEF Distinct
  <2>2. CASE i \in 1..Len(fates) /\ j = last
    BY <1>1, <1>2, <1>3, <1>4, <2>2
  <2>3. CASE i = last /\ j \in 1..Len(fates)
    BY <1>1, <1>2, <1>3, <1>4, <2>3
  <2> QED
    BY <1>5, <2>1, <2>2, <2>3
<1> QED
  BY <1>1, <1>2, <1>3, <1>6 DEF OneMore, last

(* The wire. *)
LEMMA WireGrows ==
  ASSUME NEW w, Sequence(w), NEW m, m.kind = "event"
  PROVE  LET x == Append(w, m) IN
         /\ WireEvents(x) = WireEvents(w) \cup {m.event}
         /\ Opens(x) <=> Opens(w)
         /\ Opens(w) => x[1] = w[1]
<1> DEFINE x == Append(w, m)
<1>1. /\ Len(w) \in Nat /\ Len(x) = Len(w) + 1
      /\ \A i \in 1..Len(w) : x[i] = w[i]
      /\ x[Len(w) + 1] = m
  BY AppendOne
<1> HIDE DEF x
<1>2. /\ \A i \in 1..Len(x) : i \in 1..Len(w) \/ i = Len(w) + 1
      /\ \A i \in 1..Len(w) : i \in 1..Len(x)
      /\ Len(w) + 1 \in 1..Len(x)
      /\ 1 \in 1..Len(x) /\ (1 \in 1..Len(w) \/ 1 = Len(w) + 1)
  BY <1>1
<1>3. WireEvents(x) = WireEvents(w) \cup {m.event}
  <2>1. \A e \in WireEvents(x) : e \in WireEvents(w) \cup {m.event}
    BY <1>1, <1>2 DEF WireEvents
  <2>2. \A e \in WireEvents(w) : e \in WireEvents(x)
    BY <1>1, <1>2 DEF WireEvents
  <2>3. m.event \in WireEvents(x)
    BY <1>1, <1>2 DEF WireEvents
  <2> QED
    BY <2>1, <2>2, <2>3
<1>4. (Opens(x) <=> Opens(w)) /\ (Opens(w) => x[1] = w[1])
  BY <1>1, <1>2 DEF Opens
<1> QED
  BY <1>3, <1>4 DEF x

LEMMA WireShrinks ==
  ASSUME NEW fs, NEW w, Sequence(w), w # <<>>, WireInTurn(fs, w)
  PROVE  /\ WireInTurn(fs, Tail(w)) /\ ~Opens(Tail(w)) /\ Head(w) = w[1] /\ 1 \in 1..Len(w)
         /\ w[1].kind # "event" => WireEvents(w) = WireEvents(Tail(w))
         /\ w[1].kind = "event" =>
              /\ Known(fs, w[1].event)
              /\ WireEvents(w) = WireEvents(Tail(w)) \cup {w[1].event}
              /\ \A e \in WireEvents(Tail(w)) : Known(fs, e) /\ Precedes(fs, w[1].event, e)
<1> DEFINE t == Tail(w)
<1>1. /\ Len(w) \in Nat \ {0} /\ 1 \in 1..Len(w) /\ Head(w) = w[1]
      /\ Len(t) = Len(w) - 1
      /\ \A i \in 1..Len(t) : i + 1 \in 1..Len(w) /\ i + 1 # 1 /\ t[i] = w[i + 1]
  BY TailOf
<1> HIDE DEF t
<1>2. \A i \in 1..Len(w) : i = 1 \/ (i - 1 \in 1..Len(t) /\ w[i] = t[i - 1])
  <2>1. ASSUME NEW i \in 1..Len(w), i # 1 PROVE i - 1 \in 1..Len(t) /\ w[i] = t[i - 1]
    <3>1. i - 1 \in 1..Len(t) /\ (i - 1) + 1 = i
      BY <1>1, <2>1
    <3> QED
      BY <1>1, <3>1
  <2> QED
    BY <2>1
<1>3. WireInTurn(fs, t)
  <2>1. \A k \in 1..Len(t) : t[k].kind = "event" => Known(fs, t[k].event)
    BY <1>1 DEF WireInTurn
  <2>2. ASSUME NEW k \in 1..Len(t), NEW l \in 1..Len(t), k < l, t[k].kind = "event", t[l].kind = "event"
        PROVE  Precedes(fs, t[k].event, t[l].event)
    <3>1. k + 1 \in 1..Len(w) /\ l + 1 \in 1..Len(w) /\ k + 1 < l + 1
      BY <1>1, <2>2
    <3> QED
      BY <1>1, <2>2, <3>1 DEF WireInTurn
  <2>3. \A k \in 1..Len(t) : t[k].kind # "snapshot"
    BY <1>1 DEF WireInTurn
  <2> QED
    BY <2>1, <2>2, <2>3 DEF WireInTurn
<1>4. ~Opens(t)
  BY <1>1 DEF Opens, WireInTurn
<1>5. \A e \in WireEvents(t) : e \in WireEvents(w)
  BY <1>1 DEF WireEvents
<1>6. \A e \in WireEvents(w) : e \in WireEvents(t) \/ (w[1].kind = "event" /\ e = w[1].event)
  BY <1>2 DEF WireEvents
<1>7. w[1].kind = "event" => w[1].event \in WireEvents(w)
  BY <1>1 DEF WireEvents
<1>8. ASSUME w[1].kind = "event", NEW e \in WireEvents(t)
      PROVE  Known(fs, e) /\ Precedes(fs, w[1].event, e)
  <2>1. PICK k \in 1..Len(t) : t[k].kind = "event" /\ e = t[k].event
    BY DEF WireEvents
  <2>2. k + 1 \in 1..Len(w) /\ 1 < k + 1 /\ t[k] = w[k + 1]
    BY <1>1
  <2> QED
    BY <1>1, <1>8, <2>1, <2>2 DEF WireInTurn
<1>9. w[1].kind = "event" => Known(fs, w[1].event)
  BY <1>1 DEF WireInTurn
<1> QED
  BY <1>1, <1>3, <1>4, <1>5, <1>6, <1>7, <1>8, <1>9 DEF t

(* togglePause() applies one held event after the other: as such a list of *)
(* views exists, the recursive definition is one.                          *)
IsShownAfter(g, events, m) ==
  g = [k \in 0..m |-> IF k = 0 THEN view ELSE Added(g[k - 1], events[k])]

LEMMA ShownAfterEach ==
  ASSUME NEW events, Len(events) \in Nat
  PROVE  /\ ShownAfter(events)[0] = view
         /\ \A k \in 1..Len(events) :
              ShownAfter(events)[k] = Added(ShownAfter(events)[k - 1], events[k])
<1> DEFINE S == {m \in Nat : \E g : IsShownAfter(g, events, m)}
<1>1. 0 \in S
  <2> DEFINE g == [k \in 0..0 |-> view]
  <2>1. IsShownAfter(g, events, 0)
    <3>1. \A k \in 0..0 : k = 0
      OBVIOUS
    <3> QED
      BY <3>1 DEF IsShownAfter
  <2> QED
    BY <2>1
<1>2. ASSUME NEW m \in Nat, m \in S PROVE m + 1 \in S
  <2>1. PICK g : IsShownAfter(g, events, m)
    BY <1>2
  <2> DEFINE h == [k \in 0..(m + 1) |-> IF k <= m THEN g[k] ELSE Added(g[m], events[k])]
  <2>2. \A k \in 0..m : g[k] = IF k = 0 THEN view ELSE Added(g[k - 1], events[k])
    BY <2>1 DEF IsShownAfter
  <2>3. ASSUME NEW k \in 0..(m + 1)
        PROVE  h[k] = IF k = 0 THEN view ELSE Added(h[k - 1], events[k])
    <3>1. CASE k = 0
      BY <2>2, <3>1
    <3>2. CASE k \in 1..m
      <4>1. k \in 0..m /\ k - 1 \in 0..m /\ k # 0
        BY <3>2
      <4>2. h[k] = g[k] /\ h[k - 1] = g[k - 1]
        BY <4>1
      <4> QED
        BY <2>2, <4>1, <4>2
    <3>3. CASE k = m + 1
      <4>1. ~(k <= m) /\ k # 0 /\ k - 1 = m /\ m \in 0..m /\ m \in 0..(m + 1)
        BY <3>3
      <4>2. h[k] = Added(g[m], events[k]) /\ h[m] = g[m]
        BY <4>1
      <4> QED
        BY <4>1, <4>2
    <3> QED
      BY <3>1, <3>2, <3>3
  <2>4. h = [k \in 0..(m + 1) |-> h[k]]
    OBVIOUS
  <2> HIDE DEF h
  <2>5. IsShownAfter(h, events, m + 1)
    BY <2>3, <2>4 DEF IsShownAfter
  <2> QED
    BY <2>5
<1>3. Len(events) \in S
  <2>1. \A k \in 0..Len(events) : k \in S /\ k < Len(events) => k + 1 \in S
    BY <1>2
  <2> HIDE DEF S
  <2> QED
    BY <1>1, <2>1, UpTo
<1>4. \E g : IsShownAfter(g, events, Len(events))
  BY <1>3
<1>5. ShownAfter(events) = CHOOSE g : IsShownAfter(g, events, Len(events))
  BY Zenon DEF ShownAfter, IsShownAfter
<1>6. IsShownAfter(ShownAfter(events), events, Len(events))
  BY <1>4, <1>5, Zenon
<1> DEFINE g == ShownAfter(events)
<1> HIDE DEF g
<1>7. g = [k \in 0..Len(events) |-> IF k = 0 THEN view ELSE Added(g[k - 1], events[k])]
  BY <1>6 DEF IsShownAfter, g
<1>8. \A k \in 0..Len(events) : g[k] = IF k = 0 THEN view ELSE Added(g[k - 1], events[k])
  BY <1>7
<1>9. 0 \in 0..Len(events) /\ \A k \in 1..Len(events) : k \in 0..Len(events) /\ k # 0
  OBVIOUS
<1> QED
  BY <1>8, <1>9 DEF g

-----------------------------------------------------------------------------
LEMMA BuffersFollow ==
  ASSUME StoreInv, Snapshots, NEW id \in Id, Store(id) \/ Deduplicate(id)
  PROVE  /\ OneMore(fates, fates') /\ FeedsAsOf(fates', buffers', Len(fates'))
         /\ Store(id) => /\ fates'[Len(fates')].stored
                         /\ EventAt(fates', Len(fates')) = Event(id)
         /\ Deduplicate(id) => ~fates'[Len(fates')].stored
<1> DEFINE x == Len(fates')
           f == FeedOf(id)
<1>1. /\ Store(id) =>
           /\ OneMore(fates, fates') /\ fates'[x].stored
           /\ fates'[x].id = id /\ EventAt(fates', x) = Event(id)
      /\ Deduplicate(id) => OneMore(fates, fates') /\ ~fates'[x].stored
  BY OneMoreCall DEF Store, Deduplicate
<1> HIDE DEF x
<1>2. /\ x = Len(fates) + 1 /\ Len(fates) \in Nat /\ Len(fates) < x /\ x \in Nat
      /\ \A i \in 1..Len(fates) : fates'[i] = fates[i]
      /\ (Len(fates) + 1)..(x - 1) = {}
  BY <1>1 DEF OneMore, x
<1>3. /\ buffers = [g \in Feed |-> buffers[g]]
      /\ \A g \in Feed :
           Recent(fates, buffers[g], g, Len(fates), BufferSize) /\ Len(buffers[g]) <= BufferSize
  BY DEF Snapshots, FeedsAsOf
<1>4. ASSUME NEW g \in Feed, x \notin Calls(fates', g, x)
      PROVE  Recent(fates', buffers[g], g, x, BufferSize)
  <2>1. \A i \in (Len(fates) + 1)..x : i \notin Calls(fates', g, x)
    BY <1>2, <1>4
  <2> QED
    BY <1>2, <1>3, <2>1, RecentStays
<1>5. ASSUME Deduplicate(id) PROVE FeedsAsOf(fates', buffers', x)
  <2>1. buffers' = buffers
    BY <1>5 DEF Deduplicate
  <2>2. \A g \in Feed : x \notin Calls(fates', g, x)
    BY <1>1, <1>5 DEF Calls
  <2> QED
    BY <1>2, <1>3, <1>4, <2>1, <2>2 DEF FeedsAsOf, x
<1>6. ASSUME Store(id) PROVE FeedsAsOf(fates', buffers', x)
  <2> DEFINE e == Event(id)
  <2>1. f \in Feed
    BY DEF Feed
  <2>2. /\ buffers' = [g \in Feed |-> buffers'[g]]
        /\ buffers'[f] = Prefix(<<e>> \o buffers[f], BufferSize)
        /\ \A g \in Feed : g # f => buffers'[g] = buffers[g]
    <3>1. buffers' = [buffers EXCEPT ![f] = Prefix(<<e>> \o @, BufferSize)]
      BY <1>6 DEF Store, Pushed
    <3> HIDE DEF e, f
    <3> QED
      BY <1>3, <2>1, <3>1
  <2>3. \A g \in Feed : x \in Calls(fates', g, x) <=> g = f
    BY <1>1, <1>2, <1>6 DEF Calls
  <2>4. EventAt(fates', x) = e
    BY <1>1, <1>6
  <2> HIDE DEF e, f
  <2>5. Recent(fates', buffers'[f], f, x, BufferSize)
    <3>1. Recent(fates', buffers[f], f, Len(fates), BufferSize)
      <4>1. \A i \in (Len(fates) + 1)..Len(fates) : i \notin Calls(fates', f, Len(fates))
        BY <1>2
      <4> QED
        BY <1>2, <1>3, <2>1, <4>1, RecentStays
    <3>2. \A i \in (Len(fates) + 1)..(x - 1) : i \notin Calls(fates', f, x)
      BY <1>2
    <3>3. Recent(fates', Prefix(<<EventAt(fates', x)>> \o buffers[f], BufferSize), f, x, BufferSize)
      BY <1>2, <2>1, <2>3, <3>1, <3>2, Sizes, RecentPushed
    <3> QED
      BY <2>2, <2>4, <3>3
  <2>6. Len(buffers'[f]) <= BufferSize
    <3>1. Sequence(buffers[f])
      BY <1>3, <2>1 DEF Recent, InCalls
    <3>2. Fronted(buffers'[f], buffers[f], e, BufferSize)
      BY <2>2, <3>1, Sizes, FrontOf
    <3> QED
      BY <3>2, Sizes DEF Fronted
  <2>7. \A g \in Feed : Recent(fates', buffers'[g], g, x, BufferSize) /\ Len(buffers'[g]) <= BufferSize
    BY <1>3, <1>4, <2>2, <2>3, <2>5, <2>6
  <2> QED
    BY <1>2, <2>2, <2>7 DEF FeedsAsOf, x
<1> QED
  BY <1>1, <1>5, <1>6 DEF x

LEMMA PendingIsKnown ==
  ASSUME InTurn
  PROVE  /\ \A e \in HeldEvents(held) : Known(fates, e)
         /\ \A e \in WireEvents(wire) : Known(fates, e)
BY DEF InTurn, HeldInTurn, WireInTurn, HeldEvents, WireEvents

LEMMA TurnStays ==
  ASSUME InTurn, OneMore(fates, fates')
  PROVE  /\ HeldInTurn(fates', held) /\ WireInTurn(fates', wire)
         /\ AllBefore(fates', HeldEvents(held), WireEvents(wire))
<1>1. HeldInTurn(fates', held)
  BY KnownStays, PrecedesStays DEF InTurn, HeldInTurn
<1>2. WireInTurn(fates', wire)
  BY KnownStays, PrecedesStays DEF InTurn, WireInTurn
<1>3. AllBefore(fates', HeldEvents(held), WireEvents(wire))
  BY PendingIsKnown, PrecedesStays DEF InTurn, AllBefore
<1> QED
  BY <1>1, <1>2, <1>3

(* What was stored last goes to the end of the wire.                       *)
LEMMA TurnGrows ==
  ASSUME InTurn, Sequence(wire), OneMore(fates, fates'), fates'[Len(fates')].stored,
         NEW m, m.kind = "event", m.event = EventAt(fates', Len(fates')), wire' = Append(wire, m)
  PROVE  /\ WireInTurn(fates', wire')
         /\ AllBefore(fates', HeldEvents(held), WireEvents(wire'))
<1> DEFINE e == EventAt(fates', Len(fates'))
<1>1. /\ Len(wire) \in Nat /\ Len(wire') = Len(wire) + 1
      /\ \A i \in 1..Len(wire) : wire'[i] = wire[i]
      /\ wire'[Len(wire) + 1] = m
  BY AppendOne
<1>2. \A i \in 1..Len(wire') : i \in 1..Len(wire) \/ i = Len(wire) + 1
  BY <1>1
<1>3. /\ WireInTurn(fates', wire) /\ AllBefore(fates', HeldEvents(held), WireEvents(wire))
      /\ WireEvents(wire') = WireEvents(wire) \cup {e}
  BY TurnStays, WireGrows
<1>4. /\ \A d \in WireEvents(wire) \cup HeldEvents(held) : Precedes(fates', d, e)
      /\ \A k \in 1..Len(wire) : wire[k].kind = "event" => Precedes(fates', wire[k].event, e)
  BY PendingIsKnown, LastComesLast DEF InTurn, WireInTurn
<1>5. Known(fates', e)
  BY DEF Known, OneMore
<1> HIDE DEF e
<1>6. WireInTurn(fates', wire')
  <2>1. \A k \in 1..Len(wire') : wire'[k].kind = "event" => Known(fates', wire'[k].event)
    BY <1>1, <1>2, <1>3, <1>5 DEF WireInTurn, e
  <2>2. ASSUME NEW k \in 1..Len(wire'), NEW l \in 1..Len(wire'), k < l,
               wire'[k].kind = "event", wire'[l].kind = "event"
        PROVE  Precedes(fates', wire'[k].event, wire'[l].event)
    <3>1. k \in 1..Len(wire)
      BY <1>1, <2>2
    <3>2. CASE l \in 1..Len(wire)
      BY <1>1, <1>3, <2>2, <3>1, <3>2 DEF WireInTurn
    <3>3. CASE l = Len(wire) + 1
      BY <1>1, <1>4, <2>2, <3>1, <3>3 DEF e
    <3> QED
      BY <1>2, <3>2, <3>3
  <2>3. \A k \in 1..Len(wire') : wire'[k].kind = "snapshot" => k = 1
    BY <1>1, <1>2, <1>3 DEF WireInTurn
  <2> QED
    BY <2>1, <2>2, <2>3 DEF WireInTurn
<1>7. AllBefore(fates', HeldEvents(held), WireEvents(wire'))
  BY <1>3, <1>4 DEF AllBefore
<1> QED
  BY <1>6, <1>7


(* Every action keeps the pages up with the calls.                         *)
UpToDate == Snapshots /\ InTurn /\ Follows

LEMMA CallFollows ==
  ASSUME LiveInv, StoreEvent \/ DropDuplicate
  PROVE  UpToDate'
<1> DEFINE last == EventAt(fates', Len(fates'))
<1>1. UNCHANGED <<stream, socket, rest, answer, view, paused, held, excused>>
  BY DEF StoreEvent, DropDuplicate, hubVars, pageVars
<1>2. PICK id \in Id : \/ Store(id) /\ wire' = OnWire(Live(Event(id)))
                       \/ Deduplicate(id) /\ wire' = wire
  BY DEF StoreEvent, DropDuplicate, pageVars
<1>3. /\ OneMore(fates, fates') /\ FeedsAsOf(fates', buffers', Len(fates'))
      /\ Store(id) => fates'[Len(fates')].stored /\ last = Event(id)
      /\ Deduplicate(id) => ~fates'[Len(fates')].stored
  BY <1>2, BuffersFollow DEF LiveInv, IInv
<1>4. InTurn /\ Sequence(wire)
  BY DEF LiveInv, IInv, PageInv, Sequences
<1> DEFINE m == Live(Event(id))
<1>5. m.kind = "event" /\ m.event = Event(id)
  BY DEF Live
<1>6. Following => (Store(id) /\ wire' = Append(wire, m)) \/ (Deduplicate(id) /\ wire' = wire)
  BY <1>2 DEF LiveInv, Hubs, OpenStreamsAreServed, Following, OnWire
<1> HIDE DEF m, last
<1>7. Snapshots'
  <2>1. ASSUME rest' = "answered" PROVE \E n : FeedsAsOf(fates', answer', n)
    <3>1. PICK n : FeedsAsOf(fates, answer, n)
      BY <1>1, <2>1 DEF LiveInv, Snapshots
    <3>2. FeedsAsOf(fates', answer, n)
      BY <1>3, <3>1, FeedsStay
    <3> QED
      BY <1>1, <3>2
  <2> QED
    BY <1>3, <2>1 DEF Snapshots
<1>8. InTurn'
  <2>1. HeldInTurn(fates', held)
    BY <1>3, <1>4, TurnStays
  <2>2. WireInTurn(fates', wire') /\ AllBefore(fates', HeldEvents(held), WireEvents(wire'))
    <3>1. CASE wire' = wire
      BY <1>3, <1>4, <3>1, TurnStays
    <3>2. CASE Store(id) /\ wire' = Append(wire, m)
      BY <1>3, <1>4, <1>5, <3>2, TurnGrows DEF last
    <3> QED
      BY <1>2, <3>1, <3>2 DEF OnWire, m
  <2> QED
    BY <1>1, <1>4, <2>1, <2>2 DEF InTurn
<1>9. Follows'
  <2> SUFFICES ASSUME Following
               PROVE  IF Opens(wire')
                      THEN \E n : /\ FeedsAsOf(fates', wire'[1].feeds, n)
                                  /\ Brings(fates', WireEvents(wire'), n)
                      ELSE excused' = {} =>
                             \E n : ViewAsOf(fates', view', HeldEvents(held'), WireEvents(wire'), rest', n)
    BY <1>1 DEF Follows, Following
  <2> DEFINE E == WireEvents(wire)
             G == WireEvents(wire')
             H == HeldEvents(held)
  <2>1. /\ WithLast(fates', E, G)
        /\ Opens(wire') <=> Opens(wire)
        /\ Opens(wire) => wire'[1] = wire[1]
    <3>1. CASE Deduplicate(id) /\ wire' = wire
      BY <1>3, <3>1 DEF WithLast
    <3>2. CASE Store(id) /\ wire' = Append(wire, m)
      <4>1. G = E \cup {last}
        BY <1>3, <1>4, <1>5, <3>2, WireGrows
      <4>2. (Opens(wire') <=> Opens(wire)) /\ (Opens(wire) => wire'[1] = wire[1])
        BY <1>4, <1>5, <3>2, WireGrows
      <4> QED
        BY <1>3, <3>2, <4>1, <4>2 DEF WithLast, last
    <3> QED
      BY <1>6, <3>1, <3>2
  <2> HIDE DEF E, G, H
  <2>2. WithLast(fates', H \cup E, H \cup G)
    BY <2>1 DEF WithLast
  <2>3. CASE Opens(wire)
    <3>1. PICK n : FeedsAsOf(fates, wire[1].feeds, n) /\ Brings(fates, E, n)
      BY <2>3 DEF LiveInv, Follows, E
    <3>2. n \in 0..Len(fates)
      BY <3>1 DEF FeedsAsOf
    <3>3. FeedsAsOf(fates', wire[1].feeds, n)
      BY <1>3, <3>1, FeedsStay
    <3>4. Brings(fates', G, n)
      BY <1>3, <2>1, <3>1, <3>2, BringsStay
    <3> QED
      BY <2>1, <2>3, <3>3, <3>4 DEF G
  <2>4. CASE ~Opens(wire) /\ excused = {}
    <3>1. PICK n : ViewAsOf(fates, view, H, E, rest, n)
      BY <2>4 DEF LiveInv, Follows, H, E
    <3>2. n \in 0..Len(fates)
      BY <3>1 DEF ViewAsOf, AsOf
    <3>3. AsOf(fates', view, H \cup G, n)
      BY <1>3, <2>2, <3>1, AsOfStays DEF ViewAsOf
    <3>4. rest # "done" => NoneBefore(fates', G, n)
      BY <1>3, <2>1, <3>1, <3>2, BringsStay DEF ViewAsOf
    <3>5. ViewAsOf(fates', view, H, G, rest, n)
      BY <3>3, <3>4 DEF ViewAsOf
    <3> QED
      BY <1>1, <2>1, <2>4, <3>5 DEF G, H
  <2> QED
    BY <1>1, <2>1, <2>3, <2>4
<1> QED
  BY <1>7, <1>8, <1>9 DEF UpToDate

(* What concerns neither the page nor what is stored.                      *)
LEMMA OthersFollow ==
  ASSUME UpToDate, UNCHANGED <<fates, buffers, stream, wire, rest, answer, view, held, excused>>,
         paused => paused', Following' => Following
  PROVE  UpToDate'
<1>1. Snapshots'
  BY DEF UpToDate, Snapshots
<1>2. InTurn'
  BY DEF UpToDate, InTurn
<1>3. Follows'
  BY DEF UpToDate, Follows
<1> QED
  BY <1>1, <1>2, <1>3 DEF UpToDate

LEMMA AnswersFollow ==
  ASSUME LiveInv, AnswerRest \/ RestFails
  PROVE  UpToDate'
<1>1. /\ UNCHANGED <<fates, buffers, socket, stream, wire, view, paused, held, excused>>
      /\ rest # "done"
      /\ \/ rest' = "answered" /\ answer' = buffers
         \/ rest' = "done"
  BY DEF AnswerRest, RestFails, storeVars, hubVars
<1>2. Snapshots'
  BY <1>1 DEF LiveInv, Snapshots
<1>3. InTurn'
  BY <1>1 DEF LiveInv, InTurn
<1>4. Follows'
  <2> SUFFICES ASSUME Following, ~Opens(wire), excused = {}
               PROVE  \E n : ViewAsOf(fates, view, HeldEvents(held), WireEvents(wire), rest', n)
    BY <1>1 DEF LiveInv, Follows, Following
  <2>1. PICK n : ViewAsOf(fates, view, HeldEvents(held), WireEvents(wire), rest, n)
    BY DEF LiveInv, Follows
  <2>2. ViewAsOf(fates, view, HeldEvents(held), WireEvents(wire), rest', n)
    BY <1>1, <2>1 DEF ViewAsOf
  <2> QED
    BY <2>2
<1> QED
  BY <1>2, <1>3, <1>4 DEF UpToDate

(* A new stream opens with the buffers, and then brings what they miss.    *)
LEMMA NextStreamIsOne ==
  ASSUME \E s \in Stream : socket[s] = "unused"
  PROVE  NextStream \in Stream
<1> DEFINE S == {s \in Stream : socket[s] = "unused"}
<1>1. PICK s \in S : \A t \in S : s <= t
  <2>1. S # {} /\ S \subseteq Nat
    BY DEF Stream
  <2> HIDE DEF S
  <2> QED
    BY <2>1, LeastNumber
<1>2. s \in Stream /\ socket[s] = "unused" /\ MaxStreams \in Nat
  BY LiveFeedAssumption
<1>3. ASSUME NEW t \in 1..(s - 1) PROVE socket[t] # "unused"
  <2>1. t \in Stream /\ ~(s <= t)
    BY <1>2 DEF Stream
  <2> QED
    BY <1>1, <2>1
<1> QED
  BY <1>2, <1>3 DEF NextStream

LEMMA OpeningFollows ==
  ASSUME LiveInv, HandleStream
  PROVE  UpToDate'
<1>1. /\ UNCHANGED <<fates, buffers, rest, answer, view, paused, held, excused>>
      /\ stream = NoStream
      /\ \/ stream' = NextStream /\ wire' = <<Snapshot>>
         \/ UNCHANGED <<stream, wire>>
  BY DEF HandleStream, Opening, storeVars
<1>2. stream \notin Stream
  BY <1>1, LiveFeedAssumption DEF Stream, NoStream
<1>3. Snapshots'
  BY <1>1 DEF LiveInv, Snapshots
<1>4. CASE UNCHANGED <<stream, wire>>
  <2>1. InTurn'
    BY <1>1, <1>4 DEF LiveInv, InTurn
  <2>2. Follows'
    BY <1>2, <1>4 DEF Follows, Following
  <2> QED
    BY <1>3, <2>1, <2>2 DEF UpToDate
<1>5. CASE stream' = NextStream /\ wire' = <<Snapshot>>
  <2>1. /\ Len(wire') = 1 /\ wire'[1] = Snapshot
        /\ Snapshot.kind = "snapshot" /\ Snapshot.feeds = buffers
    BY <1>5 DEF Snapshot
  <2>2. /\ WireEvents(wire') = {} /\ Opens(wire')
        /\ \A k \in 1..Len(wire') : k = 1 /\ wire'[k].kind = "snapshot"
    BY <2>1 DEF WireEvents, Opens
  <2>3. InTurn'
    <3>1. WireInTurn(fates, wire') /\ AllBefore(fates, HeldEvents(held), {})
      BY <2>2 DEF WireInTurn, AllBefore
    <3>2. stream' \in Stream
      BY <1>5, NextStreamIsOne DEF HandleStream
    <3> QED
      BY <1>1, <2>2, <3>1, <3>2 DEF LiveInv, InTurn
  <2>4. FeedsAsOf(fates, buffers, Len(fates)) /\ Brings(fates, {}, Len(fates))
    <3>1. Len(fates) \in Nat
      BY EventsAreDistinct DEF LiveInv, IInv
    <3>2. (Len(fates) + 1)..Len(fates) = {}
      BY <3>1
    <3> QED
      BY <3>2 DEF LiveInv, Snapshots, Brings, NoneBefore
  <2>5. Follows'
    BY <1>1, <2>1, <2>2, <2>4 DEF Follows
  <2> QED
    BY <1>3, <2>3, <2>5 DEF UpToDate
<1> QED
  BY <1>1, <1>4, <1>5

LEMMA BrokenStreamFollows ==
  ASSUME LiveInv, StreamError
  PROVE  UpToDate'
<1>1. /\ UNCHANGED <<fates, buffers, rest, answer, view, paused, held, excused>>
      /\ stream' = NoStream /\ wire' = <<>>
  BY DEF StreamError, storeVars
<1>2. stream' \notin Stream
  BY <1>1, LiveFeedAssumption DEF Stream, NoStream
<1>3. Snapshots'
  BY <1>1 DEF LiveInv, Snapshots
<1>4. WireInTurn(fates, <<>>) /\ AllBefore(fates, HeldEvents(held), WireEvents(<<>>))
  BY NothingWithin DEF WireInTurn, AllBefore, WireEvents
<1>5. InTurn'
  BY <1>1, <1>4 DEF LiveInv, InTurn
<1> QED
  BY <1>2, <1>3, <1>5 DEF UpToDate, Follows, Following

(* The bootstrap response takes the place of a view it continues.          *)
LEMMA RestFollows ==
  ASSUME LiveInv, ReceiveRest
  PROVE  UpToDate'
<1> DEFINE H == HeldEvents(held)
           E == WireEvents(wire)
<1>1. /\ UNCHANGED <<fates, buffers, socket, stream, wire, paused, held>>
      /\ rest = "answered" /\ rest' = "done" /\ view' = answer
      /\ excused' = {} => excused = {} /\ KeepsHeld /\ \A f \in Feed : Continues(f)
  BY DEF ReceiveRest, storeVars, hubVars
<1>2. Snapshots'
  BY <1>1 DEF LiveInv, Snapshots
<1>3. InTurn'
  BY <1>1 DEF LiveInv, InTurn
<1>4. Follows'
  <2> SUFFICES ASSUME Following, ~Opens(wire), excused' = {}
               PROVE  \E n : ViewAsOf(fates, answer, H, E, rest', n)
    BY <1>1 DEF LiveInv, Follows, Following
  <2>1. PICK n : ViewAsOf(fates, view, H, E, rest, n)
    BY <1>1 DEF LiveInv, Follows
  <2>2. PICK m : FeedsAsOf(fates, answer, m)
    BY <1>1 DEF LiveInv, Snapshots
  <2>3. \A d \in H : In(view, d) => In(answer, d)
    BY <1>1 DEF KeepsHeld, HeldEvents
  <2> HIDE DEF H, E
  <2>4. \A i \in 1..n : fates[i].stored /\ EventAt(fates, i) \in H \cup E => In(answer, EventAt(fates, i))
    BY <1>1, <2>1, <2>3 DEF ViewAsOf, AsOf, NoneBefore
  <2>5. \A f \in Feed : /\ view[f] = <<>> => Len(answer[f]) < BufferSize
                        /\ view[f] # <<>> => In(answer, Head(view[f]))
    BY <1>1 DEF Continues
  <2>6. fates \in Seq(Fates) /\ Distinct(fates)
    BY EventsAreDistinct DEF LiveInv, IInv
  <2>7. AsOf(fates, view, H \cup E, n)
    BY <2>1 DEF ViewAsOf
  <2>8. PICK x \in {n, m} : AsOf(fates, answer, H \cup E, x)
    BY <2>2, <2>4, <2>5, <2>6, <2>7, RestContinues
  <2> QED
    BY <1>1, <2>8 DEF ViewAsOf
<1> QED
  BY <1>2, <1>3, <1>4 DEF UpToDate

(* A page takes the first message from its wire.                           *)
LEMMA TakenInTurn ==
  ASSUME LiveInv, NEW kind, Take(kind)
  PROVE  /\ UNCHANGED <<fates, buffers, socket, stream, rest, answer, paused>>
         /\ Following' => Following
         /\ WireInTurn(fates, wire') /\ ~Opens(wire') /\ Head(wire) = wire[1]
         /\ Opens(wire) <=> wire[1].kind = "snapshot"
         /\ kind = wire[1].kind
<1>1. /\ UNCHANGED <<fates, buffers, socket, stream, rest, answer, paused>>
      /\ wire # <<>> /\ wire' = Tail(wire) /\ Head(wire).kind = kind
  BY DEF Take, storeVars, hubVars
<1>2. Sequence(wire) /\ WireInTurn(fates, wire)
  BY DEF LiveInv, IInv, PageInv, Sequences, InTurn
<1>3. WireInTurn(fates, Tail(wire)) /\ ~Opens(Tail(wire)) /\ Head(wire) = wire[1] /\ 1 \in 1..Len(wire)
  BY <1>1, <1>2, WireShrinks
<1> QED
  BY <1>1, <1>3 DEF Following, Opens

LEMMA SnapshotFollows ==
  ASSUME LiveInv, ReceiveSnapshot
  PROVE  UpToDate'
<1> DEFINE H == HeldEvents(held)
           E == WireEvents(wire)
           feeds == wire[1].feeds
<1>1. /\ Take("snapshot") /\ held' = held /\ view' = Head(wire).feeds
      /\ excused' = {} => \A k \in 1..Len(held) : In(view', held[k])
  BY DEF ReceiveSnapshot
<1>2. /\ UNCHANGED <<fates, buffers, socket, stream, rest, answer, paused>>
      /\ Following' => Following
      /\ WireInTurn(fates, wire') /\ ~Opens(wire') /\ Head(wire) = wire[1]
      /\ Opens(wire)
  BY <1>1, TakenInTurn
<1>3. WireEvents(wire') = E
  <2>1. Sequence(wire) /\ WireInTurn(fates, wire) /\ wire # <<>> /\ wire' = Tail(wire)
    BY <1>1 DEF LiveInv, IInv, PageInv, Sequences, InTurn, Take
  <2>2. wire[1].kind # "event"
    BY <1>2 DEF Opens
  <2> QED
    BY <2>1, <2>2, WireShrinks
<1>4. Snapshots'
  BY <1>2 DEF LiveInv, Snapshots
<1>5. InTurn'
  BY <1>1, <1>2, <1>3 DEF LiveInv, InTurn
<1>6. Follows'
  <2> SUFFICES ASSUME Following, excused' = {}
               PROVE  \E n : ViewAsOf(fates, feeds, H, E, rest, n)
    BY <1>1, <1>2, <1>3 DEF Follows
  <2>1. PICK n : FeedsAsOf(fates, feeds, n) /\ Brings(fates, E, n)
    BY <1>2 DEF LiveInv, Follows
  <2>2. \A d \in H : In(feeds, d)
    BY <1>1, <1>2 DEF HeldEvents
  <2> HIDE DEF H, E, feeds
  <2>3. \A f \in Feed : Recent(fates, feeds[f], f, n, Cap)
    BY <2>1, Sizes, RecentNeedsLess DEF FeedsAsOf
  <2>4. \A i \in (n + 1)..Len(fates) : fates[i].stored => EventAt(fates, i) \in H \cup E
    BY <2>1 DEF Brings
  <2>5. \A i \in 1..n : fates[i].stored /\ EventAt(fates, i) \in H \cup E => In(feeds, EventAt(fates, i))
    BY <2>1, <2>2 DEF Brings, NoneBefore
  <2>6. AsOf(fates, feeds, H \cup E, n)
    BY <2>1, <2>3, <2>4, <2>5 DEF AsOf, FeedsAsOf
  <2> QED
    BY <2>1, <2>6 DEF ViewAsOf, Brings
<1> QED
  BY <1>4, <1>5, <1>6 DEF UpToDate

(* The first of the events to come is shown, the others R are still to     *)
(* come; those that the view was without, it is without.                   *)
StaysWithout(fs, R, n, m) == \A E : E \subseteq R /\ NoneBefore(fs, E, n) => NoneBefore(fs, E, m)

LEMMA FirstApplies ==
  ASSUME NEW fs, fs \in Seq(Fates), Distinct(fs), NEW v, NEW e, NEW R, NEW n,
         AsOf(fs, v, {e} \cup R, n), Known(fs, e), AllBefore(fs, {e}, R), ~Missed(v, e)
  PROVE  \E m : AsOf(fs, Added(v, e), R, m) /\ StaysWithout(fs, R, n, m)
<1>1. PICK x \in 1..Len(fs) : fs[x].stored /\ e = EventAt(fs, x)
  BY DEF Known
<1>2. Len(fs) \in Nat
  BY LenProperties
<1>3. \A i \in 1..Len(fs) : fs[i].stored /\ EventAt(fs, i) \in R => x < i
  BY <1>1 DEF Precedes, AllBefore
<1>4. ({e} \cup R) \ {e} = R
  <2>1. e \notin R
    BY <1>1, <1>2, <1>3
  <2> QED
    BY <2>1
<1>5. \A i \in 1..Len(fs) : fs[i].stored /\ EventAt(fs, i) \in {e} \cup R => x <= i
  <2>1. ASSUME NEW i \in 1..Len(fs), fs[i].stored, EventAt(fs, i) = e PROVE i = x
    BY <1>1, <2>1 DEF Distinct
  <2> QED
    BY <1>2, <1>3, <2>1
<1>6. PICK m \in {n, x} : AsOf(fs, Added(v, e), R, m)
  <2> DEFINE P == {e} \cup R
  <2>1. AsOf(fs, v, P, n) /\ EventAt(fs, x) \in P /\ P \ {EventAt(fs, x)} = R
    BY <1>1, <1>4
  <2>2. \A i \in 1..Len(fs) : fs[i].stored /\ EventAt(fs, i) \in P => x <= i
    BY <1>5
  <2> HIDE DEF P
  <2>3. \E m \in {n, x} : AsOf(fs, Added(v, EventAt(fs, x)), P \ {EventAt(fs, x)}, m)
    BY <1>1, <2>1, <2>2, AppliesOne
  <2> QED
    BY <1>1, <2>1, <2>3
<1>7. ASSUME NEW E, E \subseteq R, NoneBefore(fs, E, n) PROVE NoneBefore(fs, E, m)
  <2>1. CASE m = n
    BY <1>7, <2>1
  <2>2. CASE m = x
    <3>1. \A i \in 1..x : i \in 1..Len(fs) /\ ~(x < i)
      BY <1>2
    <3> QED
      BY <1>3, <1>7, <2>2, <3>1 DEF NoneBefore
  <2> QED
    BY <2>1, <2>2
<1> QED
  BY <1>6, <1>7 DEF StaysWithout

LEMMA EventTaken ==
  ASSUME LiveInv, Take("event")
  PROVE  LET e == Head(wire).event IN
         /\ WireEvents(wire) = WireEvents(wire') \cup {e} /\ Known(fates, e) /\ ~Opens(wire)
         /\ \A d \in WireEvents(wire') : Precedes(fates, e, d)
         /\ \A d \in HeldEvents(held) : Precedes(fates, d, e)
<1>1. Sequence(wire) /\ WireInTurn(fates, wire) /\ wire # <<>> /\ wire' = Tail(wire)
  BY DEF LiveInv, IInv, PageInv, Sequences, InTurn, Take
<1>2. Head(wire) = wire[1] /\ wire[1].kind = "event" /\ ~Opens(wire)
  BY TakenInTurn
<1>3. /\ Known(fates, wire[1].event)
      /\ WireEvents(wire) = WireEvents(Tail(wire)) \cup {wire[1].event}
      /\ \A e \in WireEvents(Tail(wire)) : Precedes(fates, wire[1].event, e)
  BY <1>1, <1>2, WireShrinks
<1>4. \A d \in HeldEvents(held) : Precedes(fates, d, wire[1].event)
  BY <1>3 DEF LiveInv, InTurn, AllBefore
<1> QED
  BY <1>1, <1>2, <1>3, <1>4

LEMMA EventFollows ==
  ASSUME LiveInv, ReceiveEvent
  PROVE  UpToDate'
<1> DEFINE e == Head(wire).event
           E == WireEvents(wire')
<1>1. /\ Take("event") /\ ~paused /\ held' = held /\ view' = Added(view, e)
      /\ excused' = {} => excused = {} /\ ~Missed(view, e)
  BY DEF ReceiveEvent
<1>2. /\ UNCHANGED <<fates, buffers, socket, stream, rest, answer, paused>>
      /\ Following' => Following
      /\ WireInTurn(fates, wire') /\ ~Opens(wire')
  BY <1>1, TakenInTurn
<1>3. /\ WireEvents(wire) = {e} \cup E /\ Known(fates, e) /\ ~Opens(wire)
      /\ AllBefore(fates, {e}, E)
  BY <1>1, EventTaken DEF AllBefore
<1>4. HeldEvents(held) = {}
  <2>1. held = <<>>
    BY <1>1 DEF LiveInv, InTurn
  <2> QED
    BY <2>1, NothingWithin DEF HeldEvents
<1> HIDE DEF e, E
<1>5. Snapshots'
  BY <1>2 DEF LiveInv, Snapshots
<1>6. InTurn'
  BY <1>1, <1>2, <1>4 DEF LiveInv, InTurn, AllBefore
<1>7. Follows'
  <2> SUFFICES ASSUME Following, excused' = {}
               PROVE  \E n : ViewAsOf(fates, Added(view, e), {}, E, rest, n)
    BY <1>1, <1>2, <1>4 DEF Follows, E
  <2>1. PICK n : ViewAsOf(fates, view, {}, {e} \cup E, rest, n)
    BY <1>1, <1>3, <1>4 DEF LiveInv, Follows
  <2>2. {} \cup ({e} \cup E) = {e} \cup E /\ {} \cup E = E /\ E \subseteq E
    OBVIOUS
  <2>3. AsOf(fates, view, {e} \cup E, n)
    BY <2>1, <2>2 DEF ViewAsOf
  <2>4. fates \in Seq(Fates) /\ Distinct(fates)
    BY EventsAreDistinct DEF LiveInv, IInv
  <2>5. ~Missed(view, e)
    BY <1>1
  <2>6. PICK m : AsOf(fates, Added(view, e), E, m) /\ StaysWithout(fates, E, n, m)
    BY <1>3, <2>3, <2>4, <2>5, FirstApplies
  <2>7. rest # "done" => NoneBefore(fates, E, n)
    BY <2>1 DEF ViewAsOf, NoneBefore
  <2>8. ViewAsOf(fates, Added(view, e), {}, E, rest, m)
    BY <2>2, <2>6, <2>7 DEF ViewAsOf, StaysWithout
  <2> QED
    BY <2>8
<1> QED
  BY <1>5, <1>6, <1>7 DEF UpToDate

LEMMA HoldingFollows ==
  ASSUME LiveInv, HoldEvent
  PROVE  UpToDate'
<1> DEFINE e == Head(wire).event
           H == HeldEvents(held)
           E == WireEvents(wire')
<1>1. /\ Take("event") /\ paused /\ held' = Append(held, e)
      /\ UNCHANGED <<view, excused>>
  BY DEF HoldEvent
<1>2. /\ UNCHANGED <<fates, buffers, socket, stream, rest, answer, paused>>
      /\ Following' => Following
      /\ WireInTurn(fates, wire') /\ ~Opens(wire')
  BY <1>1, TakenInTurn
<1>3. /\ WireEvents(wire) = {e} \cup E /\ Known(fates, e) /\ ~Opens(wire)
      /\ \A d \in E : Precedes(fates, e, d)
      /\ \A d \in H : Precedes(fates, d, e)
  BY <1>1, EventTaken
<1> HIDE DEF e, E
<1>4. Sequence(held) /\ HeldInTurn(fates, held) /\ AllBefore(fates, H, {e} \cup E)
  BY <1>3 DEF LiveInv, IInv, PageInv, Sequences, InTurn
<1>5. /\ Len(held) \in Nat /\ Len(held') = Len(held) + 1
      /\ \A i \in 1..Len(held) : held'[i] = held[i] /\ i \in 1..Len(held')
      /\ held'[Len(held) + 1] = e /\ Len(held) + 1 \in 1..Len(held')
      /\ \A i \in 1..Len(held') : i \in 1..Len(held) \/ i = Len(held) + 1
  <2>1. /\ Len(held) \in Nat /\ Len(held') = Len(held) + 1
        /\ \A i \in 1..Len(held) : held'[i] = held[i]
        /\ held'[Len(held) + 1] = e
    BY <1>1, <1>4, AppendOne
  <2> QED
    BY <2>1
<1>6. HeldEvents(held') = H \cup {e}
  <2>1. \A d \in HeldEvents(held') : d \in H \cup {e}
    BY <1>5 DEF HeldEvents
  <2>2. \A d \in H \cup {e} : d \in HeldEvents(held')
    BY <1>5 DEF HeldEvents
  <2> QED
    BY <2>1, <2>2
<1>7. Snapshots'
  BY <1>2 DEF LiveInv, Snapshots
<1>8. InTurn'
  <2>1. \A k \in 1..Len(held) : Precedes(fates, held[k], e)
    BY <1>3 DEF HeldEvents
  <2>2. HeldInTurn(fates, held')
    <3>1. \A k \in 1..Len(held') : Known(fates, held'[k])
      BY <1>3, <1>4, <1>5 DEF HeldInTurn
    <3>2. ASSUME NEW k \in 1..Len(held'), NEW l \in 1..Len(held'), k < l
          PROVE  Precedes(fates, held'[k], held'[l])
      <4>1. k \in 1..Len(held)
        BY <1>5, <3>2
      <4> QED
        BY <1>4, <1>5, <2>1, <3>2, <4>1 DEF HeldInTurn
    <3> QED
      BY <3>1, <3>2 DEF HeldInTurn
  <2>3. AllBefore(fates, H \cup {e}, E)
    BY <1>3, <1>4 DEF AllBefore
  <2> QED
    BY <1>1, <1>2, <1>6, <2>2, <2>3 DEF LiveInv, InTurn, E
<1> HIDE DEF H
<1>9. Follows'
  <2> SUFFICES ASSUME Following, excused = {}
               PROVE  \E n : ViewAsOf(fates, view, H \cup {e}, E, rest, n)
    BY <1>1, <1>2, <1>6 DEF Follows, E
  <2>1. PICK n : ViewAsOf(fates, view, H, {e} \cup E, rest, n)
    BY <1>3 DEF LiveInv, Follows, H
  <2>2. (H \cup {e}) \cup E = H \cup ({e} \cup E)
    OBVIOUS
  <2>3. rest # "done" => NoneBefore(fates, E, n)
    BY <2>1 DEF ViewAsOf, NoneBefore
  <2> QED
    BY <2>1, <2>2, <2>3 DEF ViewAsOf
<1> QED
  BY <1>7, <1>8, <1>9 DEF UpToDate

(* Resuming applies the held events, one after the other.                  *)
LEMMA ResumeFollows ==
  ASSUME LiveInv, Resume
  PROVE  UpToDate'
<1> DEFINE E == WireEvents(wire)
           Rest(k) == {held[j] : j \in (k + 1)..Len(held)}
           v(k) == ShownAfter(held)[k]
<1>1. /\ UNCHANGED <<fates, buffers, socket, stream, wire, rest, answer>>
      /\ held' = <<>> /\ view' = v(Len(held))
      /\ excused' = {} =>
           excused = {} /\ \A k \in 1..Len(held) : ~Missed(ShownAfter(held)[k - 1], held[k])
  BY DEF Resume, Released, storeVars, hubVars
<1>2. HeldEvents(held') = {} /\ Len(held') = 0
  BY <1>1, NothingWithin DEF HeldEvents
<1>3. /\ Len(held) \in Nat /\ HeldInTurn(fates, held)
      /\ AllBefore(fates, HeldEvents(held), E)
  BY LenProperties DEF LiveInv, IInv, PageInv, Sequences, Sequence, InTurn
<1>4. Snapshots'
  BY <1>1 DEF LiveInv, Snapshots
<1>5. InTurn'
  BY <1>1, <1>2 DEF LiveInv, InTurn, HeldInTurn, AllBefore
<1>6. Follows'
  <2> SUFFICES ASSUME Following, ~Opens(wire), excused' = {}
               PROVE  \E n : ViewAsOf(fates, v(Len(held)), {}, E, rest, n)
    BY <1>1, <1>2 DEF LiveInv, Follows, Following
  <2> DEFINE S == {k \in Nat : \E n : ViewAsOf(fates, v(k), Rest(k), E, rest, n)}
  <2>1. 0 \in S
    <3>1. v(0) = view
      BY <1>3, ShownAfterEach
    <3>2. Rest(0) = HeldEvents(held)
      BY DEF HeldEvents
    <3>3. \E n : ViewAsOf(fates, view, HeldEvents(held), E, rest, n)
      BY <1>1 DEF LiveInv, Follows
    <3> HIDE DEF v, Rest, E
    <3> QED
      BY <3>1, <3>2, <3>3
  <2>2. ASSUME NEW k \in 0..Len(held), k \in S, k < Len(held)
        PROVE  k + 1 \in S
    <3> DEFINE e == held[k + 1]
    <3>1. PICK n : ViewAsOf(fates, v(k), Rest(k), E, rest, n)
      BY <2>2
    <3>2. k + 1 \in 1..Len(held) /\ (k + 1) - 1 = k /\ k + 1 \in Nat
      BY <1>3, <2>2
    <3>3. v(k + 1) = Added(v(k), e)
      BY <1>3, <3>2, ShownAfterEach
    <3>4. ~Missed(v(k), e)
      BY <1>1, <3>2
    <3>5. Rest(k) = {e} \cup Rest(k + 1)
      <4>1. \A j \in (k + 1)..Len(held) : j = k + 1 \/ j \in ((k + 1) + 1)..Len(held)
        BY <1>3, <3>2
      <4>2. \A j \in ((k + 1) + 1)..Len(held) : j \in (k + 1)..Len(held)
        BY <1>3, <3>2
      <4>3. k + 1 \in (k + 1)..Len(held)
        BY <1>3, <3>2
      <4>4. \A d \in Rest(k) : d \in {e} \cup Rest(k + 1)
        BY <4>1
      <4>5. \A d \in {e} \cup Rest(k + 1) : d \in Rest(k)
        BY <4>2, <4>3
      <4> HIDE DEF Rest, e
      <4> QED
        BY <4>4, <4>5
    <3>6. Known(fates, e) /\ \A d \in E : Precedes(fates, e, d)
      BY <1>3, <3>2 DEF HeldInTurn, AllBefore, HeldEvents
    <3>7. \A d \in Rest(k + 1) : Precedes(fates, e, d)
      <4>1. \A j \in ((k + 1) + 1)..Len(held) : j \in 1..Len(held) /\ k + 1 < j
        BY <1>3, <3>2
      <4> QED
        BY <1>3, <3>2, <4>1 DEF HeldInTurn
    <3>8. fates \in Seq(Fates) /\ Distinct(fates)
      BY EventsAreDistinct DEF LiveInv, IInv
    <3> DEFINE R == Rest(k + 1) \cup E
    <3>9. AllBefore(fates, {e}, R)
      BY <3>6, <3>7 DEF AllBefore
    <3>10. Rest(k) \cup E = {e} \cup R
      <4> HIDE DEF Rest, E
      <4> QED
        BY <3>5
    <3>11. E \subseteq R
      OBVIOUS
    <3> HIDE DEF e, E, v, Rest, R
    <3>12. AsOf(fates, v(k), {e} \cup R, n)
      BY <3>1, <3>10 DEF ViewAsOf
    <3>13. PICK m : AsOf(fates, Added(v(k), e), R, m) /\ StaysWithout(fates, R, n, m)
      BY <3>4, <3>6, <3>8, <3>9, <3>12, FirstApplies
    <3>14. rest # "done" => NoneBefore(fates, E, m)
      BY <3>1, <3>11, <3>13 DEF ViewAsOf, StaysWithout
    <3>15. AsOf(fates, v(k + 1), Rest(k + 1) \cup E, m)
      BY <3>3, <3>13 DEF R
    <3>16. ViewAsOf(fates, v(k + 1), Rest(k + 1), E, rest, m)
      BY <3>14, <3>15 DEF ViewAsOf
    <3> QED
      BY <3>2, <3>16
  <2>3. Len(held) \in S
    <3> HIDE DEF S
    <3> QED
      BY <1>3, <2>1, <2>2, UpTo
  <2>4. Rest(Len(held)) = {}
    <3>1. (Len(held) + 1)..Len(held) = {}
      BY <1>3
    <3> QED
      BY <3>1
  <2> HIDE DEF v, Rest, E
  <2> QED
    BY <2>3, <2>4
<1> QED
  BY <1>4, <1>5, <1>6 DEF UpToDate

LEMMA LiveInitially ==
  Init => LiveInv
<1> SUFFICES ASSUME Init
             PROVE  LiveInv
  OBVIOUS
<1>1. IInv /\ Hubs
  BY Initially DEF Init, Hubs, OpenStreamsAreServed
<1>2. /\ fates = <<>> /\ held = <<>> /\ wire = <<>> /\ Len(<<>>) = 0 /\ Sequence(<<>>)
      /\ stream = NoStream /\ rest = "asked" /\ buffers = [f \in Feed |-> <<>>]
  BY NothingWithin DEF Init, InitStore
<1>3. Following => FALSE
  BY <1>2, LiveFeedAssumption DEF Following, Stream, NoStream
<1>4. InTurn
  BY <1>2 DEF InTurn, HeldInTurn, WireInTurn, AllBefore, HeldEvents, WireEvents
<1>5. ASSUME NEW f PROVE Recent(fates, <<>>, f, 0, BufferSize)
  <2>1. Calls(fates, f, 0) = {}
    BY DEF Calls
  <2>2. Newest(<<>>, {}, BufferSize)
    BY <1>2 DEF Newest
  <2>3. InCalls(<<>>, <<>>, fates)
    BY <1>2 DEF InCalls
  <2> QED
    BY <2>1, <2>2, <2>3 DEF Recent
<1>6. FeedsAsOf(fates, buffers, 0)
  <2>1. \A f \in Feed : buffers[f] = <<>> /\ Len(buffers[f]) <= BufferSize
    BY <1>2, Sizes
  <2> QED
    BY <1>2, <1>5, <2>1 DEF FeedsAsOf
<1>7. Snapshots
  BY <1>2, <1>6 DEF Snapshots
<1> QED
  BY <1>1, <1>3, <1>4, <1>7 DEF LiveInv, Follows

LEMMA LivePreserved ==
  LiveInv /\ [Next]_vars => LiveInv'
<1> SUFFICES ASSUME LiveInv, [Next]_vars
             PROVE  LiveInv'
  OBVIOUS
<1>1. IInv' /\ Hubs'
  BY Preserved, HubsPreserved DEF LiveInv
<1>2. UpToDate
  BY DEF LiveInv, UpToDate
<1> SUFFICES UpToDate'
  BY <1>1 DEF LiveInv, UpToDate
<1>3. CASE (Tick /\ UNCHANGED <<hubVars, pageVars>>) \/ Heartbeat \/ Pause \/ UNCHANGED vars
  <2>1. UNCHANGED <<fates, buffers, socket, stream, wire, rest, answer, view, held, excused>>
    BY <1>3 DEF Tick, Heartbeat, Pause, storeVars, hubVars, pageVars, vars
  <2>2. paused => paused'
    BY <1>3 DEF Tick, Heartbeat, Pause, storeVars, hubVars, pageVars, vars
  <2>3. Following' => Following
    BY <2>1 DEF Following
  <2> QED
    BY <1>2, <2>1, <2>2, <2>3, OthersFollow
<1>4. CASE \E s \in Stream : SocketDestroyed(s) \/ CloseEvent(s)
  <2>1. PICK s \in Stream : socket' = [socket EXCEPT ![s] = "destroyed"] \/ socket' = socket
    BY <1>4 DEF SocketDestroyed, CloseEvent
  <2>2. /\ UNCHANGED <<fates, buffers, stream, wire, rest, answer, view, held, excused>>
        /\ paused => paused'
    BY <1>4 DEF SocketDestroyed, CloseEvent, storeVars, pageVars
  <2>3. Following' => Following
    BY <2>1, <2>2 DEF LiveInv, Hubs, Following
  <2> QED
    BY <1>2, <2>2, <2>3, OthersFollow
<1> QED
  BY <1>3, <1>4, CallFollows, AnswersFollow, OpeningFollows, BrokenStreamFollows, RestFollows,
     SnapshotFollows, EventFollows, HoldingFollows, ResumeFollows
  DEF Next

(* A page that has drained an open stream and holds nothing back shows the *)
(* newest events of every feed in the server's order, however the snapshot *)
(* and the bootstrap response raced the events, and whether they were      *)
(* shown at once or held while it was paused (App.tsx, handleStream).      *)
THEOREM ViewsAreLive ==
  Spec => []SettledViewIsLive
<1>1. LiveInv => SettledViewIsLive
  <2> SUFFICES ASSUME LiveInv, Settled, excused = {}, NEW f \in Feed
               PROVE  SameNewest(f)
    BY DEF SettledViewIsLive
  <2>1. Following
    BY DEF LiveInv, InTurn, Settled, Following
  <2>2. HeldEvents(held) = {} /\ WireEvents(wire) = {} /\ ~Opens(wire)
    BY NothingWithin DEF Settled, HeldEvents, WireEvents, Opens
  <2>3. PICK n : ViewAsOf(fates, view, {}, {}, rest, n)
    BY <2>1, <2>2 DEF LiveInv, Follows
  <2>4. AsOf(fates, view, {}, n)
    <3>1. {} \cup {} = {}
      OBVIOUS
    <3> QED
      BY <2>3, <3>1 DEF ViewAsOf
  <2>5. fates \in Seq(Fates) /\ FeedsAsOf(fates, buffers, Len(fates))
    BY EventsAreDistinct DEF LiveInv, IInv, Snapshots
  <2>6. ShowsNewest(view, buffers, f)
    BY <2>4, <2>5, NothingToCome
  <2> QED
    BY <2>6 DEF ShowsNewest, SameNewest
<1> QED
  BY <1>1, LiveInitially, LivePreserved, PTL DEF Spec

-----------------------------------------------------------------------------
(* The pages that ask for data of their own.  Of a request under way only  *)
(* what it asks for matters: as a new selection aborts the others, it is   *)
(* always what is selected, and so is what an answer brings.  A page is    *)
(* the record that its own fields make up.                                 *)

PerformanceShape ==
  performance = [selected |-> performance.selected, response |-> performance.response,
                 loading |-> performance.loading, error |-> performance.error,
                 filter |-> performance.filter, requests |-> performance.requests]
PerformanceInv ==
  /\ PerformanceShape
  /\ performance.requests \subseteq {performance.selected}
  /\ PerformanceShowsSelection

CoinsShape ==
  coinsPage = [query |-> coinsPage.query, response |-> coinsPage.response,
               loading |-> coinsPage.loading, error |-> coinsPage.error,
               requests |-> coinsPage.requests, refresh |-> coinsPage.refresh,
               refreshQuery |-> coinsPage.refreshQuery, crossed |-> coinsPage.crossed]
CoinsInv ==
  /\ CoinsShape
  /\ coinsPage.requests \subseteq {coinsPage.query}
  /\ CoinsShowSelection

ScoresShape(page) ==
  page = [configured |-> page.configured, selected |-> page.selected,
          confidence |-> page.confidence, since |-> page.since, filters |-> page.filters,
          update |-> page.update, pending |-> page.pending, lists |-> page.lists,
          requests |-> page.requests, loading |-> page.loading, error |-> page.error]

(* The answers to a request, and the lists of a page, say what they answer.*)
Answering(lists, query) ==
  \A k \in DOMAIN lists : "query" \in DOMAIN lists[k] /\ lists[k].query = query
RequestFor(request, query) ==
  /\ request = [query |-> request.query, answers |-> request.answers]
  /\ request.query = query
  /\ Answering(request.answers, query)
ListsInv(page) ==
  /\ ScoresShape(page)
  /\ \A r \in page.requests : RequestFor(r, BaseQuery(page))
  /\ page.loading => page.requests # {}
  /\ PageSettled(page) => DOMAIN page.lists = Boards /\ Answering(page.lists, BaseQuery(page))
  /\ \A k \in DOMAIN page.lists : "query" \in DOMAIN page.lists[k]

DetailShape(panel) ==
  panel = [coin |-> panel.coin, shown |-> panel.shown, loading |-> panel.loading,
           error |-> panel.error, requests |-> panel.requests]
DetailInv(panel, query) ==
  /\ DetailShape(panel)
  /\ panel.requests \subseteq {[coin |-> panel.coin, query |-> query]}
  /\ panel.coin = {} => panel.requests = {}
  /\ panel.coin # {} /\ PageSettled(panel) => panel.shown = {[coin |-> panel.coin, query |-> query]}

PagesInv == PerformanceInv /\ CoinsInv /\ ListsInv(scores) /\ DetailInv(detail, BaseQuery(scores))

-----------------------------------------------------------------------------
(* Whatever a click changes on the performance page, if it selects another *)
(* exchange, that one is asked for.                                        *)
LEMMA SelectingAsks ==
  ASSUME PerformanceInv, NEW x, NEW filter, performance' = Selected(x, filter)
  PROVE  PerformanceInv'
<1>1. CASE x = performance.selected
  <2>1. performance' = [performance EXCEPT !.filter = filter]
    BY <1>1 DEF Selected
  <2> QED
    BY <2>1 DEF PerformanceInv, PerformanceShape, PerformanceShowsSelection, PageSettled
<1>2. CASE x # performance.selected
  <2>1. performance' = [performance EXCEPT !.selected = x, !.filter = filter,
                          !.response = ShownLive(x), !.loading = TRUE, !.requests = {x}]
    BY <1>2 DEF Selected, Aborted
  <2> QED
    BY <2>1 DEF PerformanceInv, PerformanceShape, PerformanceShowsSelection, PageSettled
<1> QED
  BY <1>1, <1>2

LEMMA PerformancePreserved ==
  ASSUME PerformanceInv, PerformanceNext
  PROVE  PerformanceInv'
<1> USE DEF PerformanceInv, PerformanceShape, PerformanceShowsSelection, PageSettled
<1>1. ASSUME NEW x, SelectExchange(x)
      PROVE  PerformanceInv'
  BY <1>1, SelectingAsks DEF SelectExchange
<1>2. ASSUME NEW filter, ChangeExchangeFilter(filter)
      PROVE  PerformanceInv'
  BY <1>2, SelectingAsks DEF ChangeExchangeFilter
<1>3. CASE ReloadPerformance
  BY <1>3 DEF ReloadPerformance, Aborted
<1>4. ASSUME NEW x, PerformanceAnswered(x)
      PROVE  PerformanceInv'
  BY <1>4 DEF PerformanceAnswered
<1>5. ASSUME NEW x, PerformanceFails(x)
      PROVE  PerformanceInv'
  BY <1>5 DEF PerformanceFails
<1>6. ASSUME NEW x, LivePerformance(x)
      PROVE  PerformanceInv'
  BY <1>6 DEF LivePerformance
<1> QED
  BY <1>1, <1>2, <1>3, <1>4, <1>5, <1>6 DEF PerformanceNext

LEMMA CoinsPreserved ==
  ASSUME CoinsInv, CoinsNext
  PROVE  CoinsInv'
<1> USE DEF CoinsInv, CoinsShape, CoinsShowSelection, PageSettled
<1>1. ASSUME NEW q, ChangeQuery(q)
      PROVE  CoinsInv'
  BY <1>1 DEF ChangeQuery, Aborted
<1>2. ASSUME NEW q, CoinsAnswered(q)
      PROVE  CoinsInv'
  BY <1>2 DEF CoinsAnswered
<1>3. ASSUME NEW q, CoinsFail(q)
      PROVE  CoinsInv'
  BY <1>3 DEF CoinsFail
<1>4. CASE TriggerRefresh
  BY <1>4 DEF TriggerRefresh
<1>5. CASE RefreshDone
  BY <1>5 DEF RefreshDone
<1>6. CASE RefreshAnswered
  BY <1>6 DEF RefreshAnswered
<1>7. CASE RefreshFails
  BY <1>7 DEF RefreshFails
<1> QED
  BY <1>1, <1>2, <1>3, <1>4, <1>5, <1>6, <1>7 DEF CoinsNext
-----------------------------------------------------------------------------
(* A page that asks, for whatever it came to show, waits for just that.    *)
LEMMA AskingWaits ==
  ASSUME NEW page, ScoresShape(page), \A k \in DOMAIN page.lists : "query" \in DOMAIN page.lists[k]
  PROVE  ListsInv(Fetching(page)) /\ BaseQuery(Fetching(page)) = BaseQuery(page)
<1> DEFINE q == BaseQuery(page)
           asking == Fetching(page)
<1>1. asking = [page EXCEPT !.loading = TRUE, !.requests = {Request(q)}]
  BY DEF Fetching, Aborted
<1> HIDE DEF q
<1>2. /\ ScoresShape(asking) /\ asking.loading = TRUE /\ asking.requests = {Request(q)}
      /\ asking.configured = page.configured /\ asking.selected = page.selected
      /\ asking.confidence = page.confidence /\ asking.since = page.since
      /\ asking.filters = page.filters /\ asking.lists = page.lists
  BY <1>1 DEF ScoresShape
<1> HIDE DEF asking
<1>3. BaseQuery(asking) = q
  BY <1>2 DEF BaseQuery, WindowMinutes, ScoreWindows, q
<1>4. RequestFor(Request(q), q)
  BY DEF Request, RequestFor, Answering
<1>5. ListsInv(asking)
  BY <1>2, <1>3, <1>4 DEF ListsInv, PageSettled
<1> QED
  BY <1>3, <1>5 DEF q, asking

LEMMA DetailAsks ==
  ASSUME NEW panel, DetailShape(panel), panel.coin = {} => panel.requests = {}, NEW page
  PROVE  DetailInv(DetailOf(panel, page), BaseQuery(page))
<1> DEFINE q == BaseQuery(page)
           asked == [coin |-> panel.coin, query |-> q]
<1>1. CASE panel.coin = {}
  BY <1>1 DEF DetailOf, DetailInv
<1>2. CASE panel.coin # {}
  <2>1. DetailOf(panel, page) = [panel EXCEPT !.loading = TRUE, !.requests = {asked}]
    BY <1>2 DEF DetailOf, Aborted
  <2> HIDE DEF q
  <2>2. DetailInv(DetailOf(panel, page), q)
    BY <1>2, <2>1 DEF DetailInv, DetailShape, PageSettled
  <2> QED
    BY <2>2 DEF q
<1> QED
  BY <1>1, <1>2

(* Whatever page is put in place of the old one, asking restores the       *)
(* invariant.                                                              *)
LEMMA AsksPreserves ==
  ASSUME PagesInv, NEW page, ScoresShape(page),
         \A k \in DOMAIN page.lists : "query" \in DOMAIN page.lists[k], Asks(page)
  PROVE  ListsInv(scores)' /\ DetailInv(detail, BaseQuery(scores))'
<1>1. scores' = Fetching(page) /\ detail' = DetailOf(detail, page)
  BY DEF Asks
<1>2. ListsInv(Fetching(page)) /\ BaseQuery(Fetching(page)) = BaseQuery(page)
  BY AskingWaits
<1>3. DetailInv(DetailOf(detail, page), BaseQuery(page))
  BY DetailAsks DEF PagesInv, DetailInv
<1>4. ListsInv(scores')
  BY <1>1, <1>2
<1>5. DetailInv(detail', BaseQuery(scores'))
  BY <1>1, <1>2, <1>3
<1> QED
  BY <1>4, <1>5 DEF ListsInv, BaseQuery, WindowMinutes, ScoreWindows

(* A page that changes nothing it asks for, nor its requests.              *)
LEMMA SamePage ==
  ASSUME PagesInv, NEW page, ScoresShape(page), BaseQuery(page) = BaseQuery(scores),
         page.requests = scores.requests, page.loading = scores.loading,
         page.error = scores.error, DOMAIN page.lists = DOMAIN scores.lists,
         \A k \in DOMAIN page.lists : /\ DOMAIN page.lists[k] = DOMAIN scores.lists[k]
                                      /\ page.lists[k].query = scores.lists[k].query
  PROVE  ListsInv(page) /\ DetailInv(detail, BaseQuery(page))
BY DEF PagesInv, ListsInv, Answering, PageSettled

(* patchScoreResponse() and the filters' effect leave what a list answers. *)
LEMMA PatchingKeepsAnswers ==
  ASSUME NEW page, ScoresShape(page), \A k \in DOMAIN page.lists : "query" \in DOMAIN page.lists[k]
  PROVE  LET patched == Patched(page) IN
         /\ ScoresShape(patched) /\ BaseQuery(patched) = BaseQuery(page)
         /\ patched.requests = page.requests /\ patched.loading = page.loading
         /\ patched.error = page.error /\ patched.filters = page.filters
         /\ DOMAIN patched.lists = DOMAIN page.lists
         /\ \A k \in DOMAIN page.lists : /\ DOMAIN patched.lists[k] = DOMAIN page.lists[k]
                                         /\ patched.lists[k].query = page.lists[k].query
<1> DEFINE new(k) == PatchScoreResponse(page.lists[k], page.update, k,
                                        CanInsertLiveRows(k, page.filters))
           patched == Patched(page)
<1>1. ASSUME NEW k \in DOMAIN page.lists
      PROVE  DOMAIN new(k) = DOMAIN page.lists[k] /\ new(k).query = page.lists[k].query
  <2>1. \/ new(k) = page.lists[k]
        \/ \E rows : new(k) = [page.lists[k] EXCEPT !.rows = rows]
    BY DEF PatchScoreResponse
  <2> HIDE DEF new
  <2> QED
    BY <2>1
<1> HIDE DEF new
<1>2. patched = [page EXCEPT !.pending = FALSE, !.lists = [k \in DOMAIN page.lists |-> new(k)]]
  BY DEF Patched, new
<1>3. /\ ScoresShape(patched) /\ patched.requests = page.requests
      /\ patched.loading = page.loading /\ patched.error = page.error
      /\ patched.configured = page.configured /\ patched.selected = page.selected
      /\ patched.confidence = page.confidence /\ patched.since = page.since
      /\ patched.filters = page.filters
      /\ patched.lists = [k \in DOMAIN page.lists |-> new(k)]
  BY <1>2 DEF ScoresShape
<1> HIDE DEF patched
<1>4. BaseQuery(patched) = BaseQuery(page)
  BY <1>3 DEF BaseQuery, WindowMinutes, ScoreWindows
<1> QED
  BY <1>1, <1>3, <1>4 DEF patched
-----------------------------------------------------------------------------
(* What the page and the panel are after a step, as values.                *)
ScoresAre(page, panel) == ListsInv(page) /\ DetailInv(panel, BaseQuery(page))

LEMMA QueriesOf ==
  ASSUME ScoresAre(scores', detail')
  PROVE  ListsInv(scores)' /\ DetailInv(detail, BaseQuery(scores))'
BY DEF ScoresAre, ListsInv, BaseQuery, WindowMinutes, ScoreWindows

(* Fields that no request depends on. *)
LEMMA UpdatePreserves ==
  ASSUME PagesInv, ScoreUpdate \/ UpdateEffect \/ ServerReconfigured
  PROVE  ScoresAre(scores', detail')
<1>1. detail' = detail /\ ListsInv(scores) /\ ScoresShape(scores)
  BY DEF ScoreUpdate, UpdateEffect, ServerReconfigured, PagesInv, ListsInv
<1>2. CASE ScoreUpdate
  <2>1. \E update : scores' = [scores EXCEPT !.pending = TRUE, !.update = update]
    BY <1>2 DEF ScoreUpdate
  <2>2. PICK update : scores' = [scores EXCEPT !.pending = TRUE, !.update = update]
    BY <2>1
  <2>3. /\ ScoresShape(scores') /\ BaseQuery(scores') = BaseQuery(scores)
        /\ scores'.requests = scores.requests /\ scores'.loading = scores.loading
        /\ scores'.error = scores.error /\ scores'.lists = scores.lists
    BY <1>1, <2>2 DEF ScoresShape, BaseQuery, WindowMinutes, ScoreWindows
  <2> QED
    BY <1>1, <2>3, SamePage DEF ScoresAre
<1>3. CASE UpdateEffect
  <2>1. scores' = Patched(scores)
    BY <1>3 DEF UpdateEffect
  <2> QED
    BY <1>1, <2>1, SamePage, PatchingKeepsAnswers DEF ListsInv, ScoresAre
<1>4. CASE ServerReconfigured
  BY <1>1, <1>4, SamePage DEF ServerReconfigured, ScoresAre
<1> QED
  BY <1>2, <1>3, <1>4

LEMMA FailPreserves ==
  ASSUME PagesInv, NEW request, ScoresFail(request)
  PROVE  ScoresAre(scores', detail')
<1>1. detail' = detail
      /\ scores' = [scores EXCEPT !.requests = @ \ {request}, !.loading = FALSE, !.error = TRUE]
  BY DEF ScoresFail
<1>2. ScoresShape(scores)
  BY DEF PagesInv, ListsInv
<1>3. /\ ScoresShape(scores') /\ BaseQuery(scores') = BaseQuery(scores)
      /\ scores'.requests \subseteq scores.requests /\ scores'.loading = FALSE
      /\ scores'.error = TRUE /\ scores'.lists = scores.lists
  BY <1>1, <1>2 DEF ScoresShape, BaseQuery, WindowMinutes, ScoreWindows
<1> QED
  BY <1>1, <1>3 DEF ScoresAre, PagesInv, ListsInv, PageSettled

(* Promise.all: whichever list is answered last, all of them answer the    *)
(* query of the request.                                                   *)
LEMMA AnswerPreserves ==
  ASSUME PagesInv, NEW request, NEW kind, ScoresAnswered(request, kind)
  PROVE  ScoresAre(scores', detail')
<1> DEFINE q == BaseQuery(scores)
           answers == [k \in DOMAIN request.answers \cup {kind} |->
                         IF k = kind THEN ScoreAnswer(kind, request.query) ELSE request.answers[k]]
           others == scores.requests \ {request}
<1>1. /\ detail' = detail /\ request \in scores.requests
      /\ \/ /\ DOMAIN answers = Boards
            /\ scores' = [scores EXCEPT !.lists = answers, !.requests = others,
                                        !.loading = FALSE, !.error = FALSE]
         \/ scores' = [scores EXCEPT !.requests = others \cup {[request EXCEPT !.answers = answers]}]
  BY DEF ScoresAnswered
<1>2. ListsInv(scores) /\ ScoresShape(scores) /\ RequestFor(request, q) /\ DetailInv(detail, q)
  BY <1>1 DEF PagesInv, ListsInv
<1>3. ScoreAnswer(kind, q).query = q /\ "query" \in DOMAIN ScoreAnswer(kind, q)
  <2>1. \E window, rows : ScoreAnswer(kind, q) =
          [query |-> q, window |-> window, version |-> board.version, rows |-> rows]
    BY DEF ScoreAnswer
  <2> HIDE DEF q
  <2> QED
    BY <2>1
<1> HIDE DEF q
<1>4. Answering(answers, q)
  BY <1>2, <1>3 DEF Answering, RequestFor
<1> HIDE DEF answers
<1>5. RequestFor([request EXCEPT !.answers = answers], q)
  BY <1>2, <1>4 DEF RequestFor
<1>6. ASSUME scores' = [scores EXCEPT !.lists = answers, !.requests = others,
                                      !.loading = FALSE, !.error = FALSE],
             DOMAIN answers = Boards
      PROVE  ScoresAre(scores', detail')
  <2>1. /\ ScoresShape(scores') /\ BaseQuery(scores') = q
        /\ scores'.requests \subseteq scores.requests /\ scores'.loading = FALSE
        /\ scores'.lists = answers
    BY <1>2, <1>6 DEF ScoresShape, BaseQuery, WindowMinutes, ScoreWindows, q
  <2>2. \A r \in scores'.requests : RequestFor(r, q)
    BY <1>2, <2>1 DEF ListsInv, q
  <2>3. \A k \in DOMAIN answers : "query" \in DOMAIN answers[k]
    BY <1>4 DEF Answering
  <2> QED
    BY <1>1, <1>2, <1>4, <1>6, <2>1, <2>2, <2>3 DEF ScoresAre, ListsInv
<1>7. ASSUME scores' = [scores EXCEPT !.requests = others \cup {[request EXCEPT !.answers = answers]}]
      PROVE  ScoresAre(scores', detail')
  <2>1. /\ ScoresShape(scores') /\ BaseQuery(scores') = q
        /\ scores'.requests = others \cup {[request EXCEPT !.answers = answers]}
        /\ scores'.loading = scores.loading /\ scores'.error = scores.error
        /\ scores'.lists = scores.lists
    BY <1>2, <1>7 DEF ScoresShape, BaseQuery, WindowMinutes, ScoreWindows, q
  <2>2. \A r \in scores'.requests : RequestFor(r, q)
    BY <1>2, <1>5, <2>1 DEF ListsInv, q
  <2>3. scores'.requests # {}
    BY <2>1
  <2>4. ListsInv(scores')
    BY <1>2, <2>1, <2>2, <2>3 DEF ListsInv, PageSettled, q
  <2> QED
    BY <1>1, <1>2, <2>1, <2>4 DEF ScoresAre
<1> QED
  BY <1>1, <1>6, <1>7
LEMMA ConfigurePreserves ==
  ASSUME PagesInv, WindowsConfigured \/ ToggleChangedSince
                   \/ \E confidence \in ConfidenceOptions : SelectConfidence(confidence)
  PROVE  ListsInv(scores)' /\ DetailInv(detail, BaseQuery(scores))'
<1>1. ScoresShape(scores) /\ \A k \in DOMAIN scores.lists : "query" \in DOMAIN scores.lists[k]
  BY DEF PagesInv, ListsInv
<1>2. CASE WindowsConfigured
  <2>1. \E configured, selected :
          Asks([[scores EXCEPT !.configured = configured] EXCEPT !.selected = selected])
    BY <1>2 DEF WindowsConfigured
  <2>2. PICK configured, selected :
          Asks([[scores EXCEPT !.configured = configured] EXCEPT !.selected = selected])
    BY <2>1
  <2> DEFINE page == [scores EXCEPT !.configured = configured]
  <2> DEFINE new == [page EXCEPT !.selected = selected]
  <2>3. ScoresShape(page) /\ page.lists = scores.lists
    BY <1>1 DEF ScoresShape
  <2> HIDE DEF page
  <2>4. ScoresShape(new) /\ new.lists = scores.lists
    BY <2>3 DEF ScoresShape
  <2>5. Asks(new)
    BY <2>2 DEF page
  <2> HIDE DEF new
  <2> QED
    BY <1>1, <2>4, <2>5, AsksPreserves
<1>3. CASE ToggleChangedSince
  <2> DEFINE new == [scores EXCEPT !.since = ~@]
  <2>1. Asks(new)
    BY <1>3 DEF ToggleChangedSince
  <2>2. ScoresShape(new) /\ new.lists = scores.lists
    BY <1>1 DEF ScoresShape
  <2> HIDE DEF new
  <2> QED
    BY <1>1, <2>1, <2>2, AsksPreserves
<1>4. ASSUME NEW confidence, SelectConfidence(confidence)
      PROVE  ListsInv(scores)' /\ DetailInv(detail, BaseQuery(scores))'
  <2> DEFINE new == [scores EXCEPT !.confidence = confidence]
  <2>1. Asks(new)
    BY <1>4 DEF SelectConfidence
  <2>2. ScoresShape(new) /\ new.lists = scores.lists
    BY <1>1 DEF ScoresShape
  <2> HIDE DEF new
  <2> QED
    BY <1>1, <2>1, <2>2, AsksPreserves
<1> QED
  BY <1>2, <1>3, <1>4

LEMMA WindowPreserves ==
  ASSUME PagesInv, NEW window, SelectWindow(window)
  PROVE  ListsInv(scores)' /\ DetailInv(detail, BaseQuery(scores))'
<1> DEFINE page == [scores EXCEPT !.selected = window]
<1>1. ScoresShape(scores) /\ \A k \in DOMAIN scores.lists : "query" \in DOMAIN scores.lists[k]
  BY DEF PagesInv, ListsInv
<1>2. \/ Asks(page)
      \/ WindowMinutes(page) = WindowMinutes(scores) /\ scores' = page /\ detail' = detail
  BY DEF SelectWindow
<1>3. /\ ScoresShape(page) /\ page.lists = scores.lists /\ page.requests = scores.requests
      /\ page.loading = scores.loading /\ page.error = scores.error
      /\ page.configured = scores.configured /\ page.confidence = scores.confidence
      /\ page.since = scores.since /\ page.filters = scores.filters
  BY <1>1 DEF ScoresShape
<1> HIDE DEF page
<1>4. CASE Asks(page)
  BY <1>1, <1>3, <1>4, AsksPreserves
<1>5. CASE WindowMinutes(page) = WindowMinutes(scores) /\ scores' = page /\ detail' = detail
  <2>1. BaseQuery(page) = BaseQuery(scores)
    BY <1>3, <1>5 DEF BaseQuery
  <2>2. ListsInv(page) /\ DetailInv(detail, BaseQuery(page))
    BY <1>3, <2>1, SamePage
  <2> QED
    BY <1>5, <2>2, QueriesOf DEF ScoresAre
<1> QED
  BY <1>2, <1>4, <1>5

LEMMA ReloadPreserves ==
  ASSUME PagesInv, ReloadScores
  PROVE  ListsInv(scores)' /\ DetailInv(detail, BaseQuery(scores))'
<1>1. ScoresShape(scores) /\ \A k \in DOMAIN scores.lists : "query" \in DOMAIN scores.lists[k]
  BY DEF PagesInv, ListsInv
<1>2. scores' = Fetching(scores) /\ detail' = detail
  BY DEF ReloadScores
<1>3. ListsInv(Fetching(scores)) /\ BaseQuery(Fetching(scores)) = BaseQuery(scores)
  BY <1>1, AskingWaits
<1>4. ScoresAre(scores', detail')
  BY <1>2, <1>3 DEF ScoresAre, PagesInv
<1> QED
  BY <1>4, QueriesOf

(* Filters that ask again do so for the lists they have patched. *)
LEMMA FiltersPreserve ==
  ASSUME PagesInv, NEW filters, ChangeFilters(filters)
  PROVE  ListsInv(scores)' /\ DetailInv(detail, BaseQuery(scores))'
<1> DEFINE page == [scores EXCEPT !.filters = filters]
           patched == IF scores.update = NoUpdate THEN page ELSE Patched(page)
<1>1. ScoresShape(scores) /\ \A k \in DOMAIN scores.lists : "query" \in DOMAIN scores.lists[k]
  BY DEF PagesInv, ListsInv
<1>2. \/ Asks(patched)
      \/ filters.classes = scores.filters.classes /\ scores' = patched /\ detail' = detail
  BY DEF ChangeFilters
<1>3. /\ ScoresShape(page) /\ page.lists = scores.lists /\ page.requests = scores.requests
      /\ page.loading = scores.loading /\ page.error = scores.error
      /\ page.configured = scores.configured /\ page.confidence = scores.confidence
      /\ page.since = scores.since /\ page.filters = filters /\ page.selected = scores.selected
  BY <1>1 DEF ScoresShape
<1> HIDE DEF page
<1>4. /\ ScoresShape(patched) /\ BaseQuery(patched) = BaseQuery(page)
      /\ patched.requests = scores.requests /\ patched.loading = scores.loading
      /\ patched.error = scores.error
      /\ DOMAIN patched.lists = DOMAIN scores.lists
      /\ \A k \in DOMAIN scores.lists : /\ DOMAIN patched.lists[k] = DOMAIN scores.lists[k]
                                        /\ patched.lists[k].query = scores.lists[k].query
  BY <1>1, <1>3, PatchingKeepsAnswers
<1> HIDE DEF patched
<1>5. CASE Asks(patched)
  BY <1>1, <1>4, <1>5, AsksPreserves
<1>6. CASE filters.classes = scores.filters.classes /\ scores' = patched /\ detail' = detail
  <2>1. BaseQuery(page) = BaseQuery(scores)
    BY <1>3, <1>6 DEF BaseQuery, WindowMinutes, ScoreWindows
  <2>2. ListsInv(patched) /\ DetailInv(detail, BaseQuery(patched))
    BY <1>4, <2>1, SamePage
  <2> QED
    BY <1>6, <2>2, QueriesOf DEF ScoresAre
<1> QED
  BY <1>2, <1>5, <1>6

LEMMA DetailPreserves ==
  ASSUME PagesInv, DetailNext
  PROVE  ScoresAre(scores', detail')
<1> DEFINE q == BaseQuery(scores)
<1>1. scores' = scores
  BY DEF DetailNext, SelectCoin, CloseDetail, DetailAnswered, DetailFails
<1>2. ListsInv(scores) /\ DetailInv(detail, q)
  BY DEF PagesInv
<1> HIDE DEF q
<1>3. ASSUME NEW coin, SelectCoin(coin)
      PROVE  DetailInv(detail', q)
  <2> DEFINE panel == [NoDetail EXCEPT !.coin = {coin}]
  <2>1. ASSUME NEW c
        PROVE  LET mounted == [NoDetail EXCEPT !.coin = c]
               IN mounted.coin = c /\ DetailShape(mounted)
    <3> DEFINE mounted == [NoDetail EXCEPT !.coin = c]
    <3>1. DetailShape(NoDetail)
      BY DEF NoDetail, DetailShape
    <3>2. mounted.coin = c /\ DetailShape(mounted)
      BY <3>1 DEF DetailShape
    <3> QED
      BY <3>2
  <2>2. panel.coin # {} /\ DetailShape(panel)
    BY <2>1
  <2>3. detail' = DetailOf(panel, scores)
    BY <1>3 DEF SelectCoin
  <2> HIDE DEF panel
  <2> QED
    BY <2>2, <2>3, DetailAsks DEF q
<1>4. ASSUME CloseDetail
      PROVE  DetailInv(detail', q)
  <2>1. detail' = [coin |-> {}, shown |-> {}, loading |-> FALSE, error |-> FALSE, requests |-> {}]
    BY <1>4 DEF CloseDetail, NoDetail, Aborted
  <2> QED
    BY <2>1 DEF DetailInv, DetailShape
<1>5. ASSUME NEW request, DetailAnswered(request)
      PROVE  DetailInv(detail', q)
  <2>1. /\ request \in detail.requests
        /\ detail' = [detail EXCEPT !.shown = {request}, !.loading = FALSE, !.error = FALSE,
                                    !.requests = @ \ {request}]
    BY <1>5 DEF DetailAnswered
  <2>2. request = [coin |-> detail.coin, query |-> q] /\ detail.coin # {}
    BY <1>2, <2>1 DEF DetailInv
  <2>3. /\ DetailShape(detail') /\ detail'.coin = detail.coin /\ detail'.shown = {request}
        /\ detail'.requests \subseteq detail.requests
    BY <1>2, <2>1 DEF DetailInv, DetailShape
  <2> QED
    BY <1>2, <2>2, <2>3 DEF DetailInv
<1>6. ASSUME NEW request, DetailFails(request)
      PROVE  DetailInv(detail', q)
  <2>1. detail' = [detail EXCEPT !.loading = FALSE, !.error = TRUE, !.requests = @ \ {request}]
    BY <1>6 DEF DetailFails
  <2>2. /\ DetailShape(detail') /\ detail'.coin = detail.coin /\ detail'.error = TRUE
        /\ detail'.requests \subseteq detail.requests
    BY <1>2, <2>1 DEF DetailInv, DetailShape
  <2> QED
    BY <1>2, <2>2 DEF DetailInv, PageSettled
<1>7. DetailInv(detail', q)
  BY <1>3, <1>4, <1>5, <1>6 DEF DetailNext
<1> QED
  BY <1>1, <1>2, <1>7 DEF ScoresAre, q

-----------------------------------------------------------------------------
LEMMA PagesInitially ==
  DataPagesInit /\ ScorePageInit => PagesInv
<1> SUFFICES ASSUME DataPagesInit, ScorePageInit
             PROVE  PagesInv
  OBVIOUS
<1>1. PerformanceInv
  BY DEF DataPagesInit, PerformanceAtMount, PerformanceInv, PerformanceShape,
    PerformanceShowsSelection, PageSettled
<1>2. CoinsInv
  BY DEF DataPagesInit, CoinsAtMount, CoinsInv, CoinsShape, CoinsShowSelection, PageSettled
<1>3. ListsInv(scores)
  <2> DEFINE page == [configured |-> FALSE, selected |-> NoWindow, confidence |-> 0, since |-> FALSE,
                      filters |-> NoFilters, update |-> NoUpdate, pending |-> FALSE, lists |-> <<>>,
                      requests |-> {}, loading |-> FALSE, error |-> FALSE]
  <2>1. scores = Fetching(page)
    BY DEF ScorePageInit, ScoresAtMount
  <2>2. ScoresShape(page) /\ DOMAIN page.lists = {}
    BY DEF ScoresShape
  <2> HIDE DEF page
  <2> QED
    BY <2>1, <2>2, AskingWaits
<1>4. DetailInv(detail, BaseQuery(scores))
  BY DEF ScorePageInit, NoDetail, DetailInv, DetailShape, PageSettled
<1> QED
  BY <1>1, <1>2, <1>3, <1>4 DEF PagesInv

LEMMA PagesPreserved ==
  PagesInv /\ [ScorePageNext]_<<pageDataVars, scoreVars>> => PagesInv'
<1> SUFFICES ASSUME PagesInv, [ScorePageNext]_<<pageDataVars, scoreVars>>
             PROVE  PagesInv'
  OBVIOUS
<1> DEFINE Lists == ListsInv(scores)' /\ DetailInv(detail, BaseQuery(scores))'
<1>1. UNCHANGED scoreVars => ScoresAre(scores', detail')
  BY DEF PagesInv, ScoresAre, scoreVars
<1>2. UNCHANGED scoreVars => Lists
  BY <1>1, QueriesOf
<1>3. ListsNext => Lists
  BY UpdatePreserves, FailPreserves, AnswerPreserves, QueriesOf DEF ListsNext
<1>4. ThresholdNext \/ ViewNext => Lists
  BY ConfigurePreserves, WindowPreserves, ReloadPreserves, FiltersPreserve
  DEF ThresholdNext, ViewNext
<1>5. DetailNext => Lists
  BY DetailPreserves, QueriesOf
<1>6. Lists
  BY <1>2, <1>3, <1>4, <1>5 DEF ScorePageNext
<1>7. PerformanceInv' /\ CoinsInv'
  <2>1. UNCHANGED performance => PerformanceInv'
    BY DEF PagesInv, PerformanceInv, PerformanceShape, PerformanceShowsSelection, PageSettled
  <2>2. UNCHANGED coinsPage => CoinsInv'
    BY DEF PagesInv, CoinsInv, CoinsShape, CoinsShowSelection, PageSettled
  <2>3. PerformanceNext => UNCHANGED coinsPage
    BY DEF PerformanceNext, SelectExchange, PerformanceAnswered, PerformanceFails, LivePerformance,
      ChangeExchangeFilter, ReloadPerformance
  <2>4. CoinsNext => UNCHANGED performance
    BY DEF CoinsNext, ChangeQuery, CoinsAnswered, CoinsFail, TriggerRefresh, RefreshDone,
      RefreshAnswered, RefreshFails
  <2> QED
    BY <2>1, <2>2, <2>3, <2>4, PerformancePreserved, CoinsPreserved
    DEF ScorePageNext, PagesInv, pageDataVars
<1> QED
  BY <1>6, <1>7 DEF PagesInv

LEMMA SettledPages ==
  PagesInv => PerformanceShowsSelection /\ CoinsShowSelection /\ AnswersFollowSelection
<1> SUFFICES ASSUME PagesInv
             PROVE  PerformanceShowsSelection /\ CoinsShowSelection /\ AnswersFollowSelection
  OBVIOUS
<1>1. PerformanceShowsSelection /\ CoinsShowSelection
  BY DEF PagesInv, PerformanceInv, CoinsInv
<1>2. scores.loading => \E r \in scores.requests : r.query = BaseQuery(scores)
  BY DEF PagesInv, ListsInv, RequestFor
<1>3. PageSettled(scores) => \A k \in Boards : scores.lists[k].query = BaseQuery(scores)
  BY DEF PagesInv, ListsInv, Answering
<1>4. detail.coin # {} /\ PageSettled(detail) =>
        detail.shown = {[coin |-> detail.coin, query |-> BaseQuery(scores)]}
  BY DEF PagesInv, DetailInv
<1> QED
  BY <1>1, <1>2, <1>3, <1>4 DEF AnswersFollowSelection

(* In whatever order clicks, answers, failures and live updates come, the  *)
(* pages that ask for data of their own show, once settled, the answers to *)
(* what is selected on them, and never wait with no request under way      *)
(* (PerformancePage, ExchangeCoinsPage, ScoresPage and its detail panel).  *)
THEOREM PagesFollowTheirSelection ==
  PagesSpec => [](PerformanceShowsSelection /\ CoinsShowSelection /\ AnswersFollowSelection)
BY SettledPages, PagesInitially, PagesPreserved, PTL DEF PagesSpec

-----------------------------------------------------------------------------
(* The lists of the scores page.  A row is of one coin; in a list all rows *)
(* are of its window and configuration, one per coin, as it is sorted; the *)
(* rows of an update are, in one window, of different coins.               *)
IsRow(r) ==
  /\ r = [coin |-> r.coin, window |-> r.window, version |-> r.version,
          feedKeys |-> r.feedKeys, net |-> r.net, delta |-> r.delta]
  /\ r.net \in Int /\ r.delta \in Int
OneEach(rows, window, version) ==
  /\ IsFiniteSet(rows)
  /\ \A r \in rows : IsRow(r) /\ r.window = window /\ r.version = version
  /\ \A r, s \in rows : r.coin = s.coin => r = s
InTurnOf(kind, rows) ==
  \A i, j \in DOMAIN rows :
    i < j => /\ rows[i].coin # rows[j].coin
             /\ kind # "current" => ~Lower(SortKey(kind, rows[j]), SortKey(kind, rows[i]))
ListInv(kind, list) ==
  /\ kind \in Boards
  /\ list = [query |-> list.query, window |-> list.window, version |-> list.version,
             rows |-> list.rows]
  /\ OneEach(ToSet(list.rows), list.window, list.version)
  /\ InTurnOf(kind, list.rows)
AllOne(lists) == \A k \in DOMAIN lists : ListInv(k, lists[k])
UpdateInv(update) ==
  /\ IsFiniteSet(update.rows)
  /\ \A i \in update.rows : IsRow(i) /\ i.version = update.version
  /\ \A i, j \in update.rows : i.coin = j.coin /\ i.window = j.window => i = j
BoardInv ==
  /\ board = [version |-> board.version, changes |-> board.changes, net |-> board.net,
              delta |-> board.delta]
  /\ board.net \in [ScoredCoins -> Int] /\ board.delta \in [ScoredCoins -> Int]
PatchInv(page) ==
  /\ UpdateInv(page.update)
  /\ AllOne(page.lists)
  /\ \A r \in page.requests : AllOne(r.answers)

LEMMA KeysOfRows ==
  ASSUME NEW r, IsRow(r), NEW kind \in Boards
  PROVE  SortKey(kind, r) \in Seq(Int) /\ ServerKey(kind, r) \in Seq(Int)
<1>1. Size(r.net) \in Int /\ r.net \in Int /\ r.delta \in Int
  BY DEF IsRow, Size
<1> HIDE DEF Size
<1>2. -r.net \in Int /\ -r.delta \in Int /\ -Size(r.net) \in Int
  BY <1>1
<1>3. CASE kind = "bull"
  BY <1>2, <1>3 DEF SortKey, ServerKey
<1>4. CASE kind = "bear"
  BY <1>1, <1>4 DEF SortKey, ServerKey
<1>5. CASE kind = "current"
  BY <1>2, <1>5 DEF SortKey, ServerKey
<1> QED
  BY <1>3, <1>4, <1>5 DEF Boards

(* What is ranked, here or at the server, is of the rows given, in order.  *)
LEMMA LimitedInTurn ==
  ASSUME NEW kind \in Boards, NEW rows, NEW window, NEW version, OneEach(rows, window, version),
         NEW kept \in SUBSET rows, NEW key, HasKeys(key, kept),
         kind # "current" => \A r \in kept : key[r] = SortKey(kind, r)
  PROVE  /\ OneEach(ToSet(Limited(kind, key)), window, version)
         /\ InTurnOf(kind, Limited(kind, key))
<1> DEFINE list == SortedBy(key)
           first == Limited(kind, key)
<1>1. kept \subseteq rows /\ IsFiniteSet(kept)
  BY FS_Subset DEF OneEach
<1>3. first = FirstOf(list, BoardLimit(kind))
  BY DEF Limited
<1>4. BoardLimit(kind) \in Nat
  BY ScorePageAssumption DEF BoardLimit
<1> HIDE DEF first
<1>6. /\ list \in Seq(kept)
      /\ \A i, j \in DOMAIN list : /\ list[i] = list[j] => i = j
                                   /\ i < j => ~Lower(key[list[j]], key[list[i]])
  BY <1>1, SortedList
<1> HIDE DEF list
<1>7. /\ first \in Seq(kept) /\ Len(first) \in Nat /\ DOMAIN first = 1..Len(first)
      /\ \A i \in DOMAIN first : i \in DOMAIN list /\ first[i] = list[i] /\ first[i] \in kept
  <2>1. /\ first \in Seq(kept)
        /\ \A i \in DOMAIN first : i \in DOMAIN list /\ first[i] = list[i]
    BY <1>3, <1>4, <1>6, FirstOfList
  <2>2. \A i \in DOMAIN first : first[i] \in kept
    BY <2>1
  <2> QED
    BY <2>1, <2>2
<1>8. ToSet(first) \subseteq kept
  BY <1>7 DEF ToSet
<1>9. OneEach(ToSet(first), window, version)
  <2>1. ToSet(first) \subseteq rows /\ IsFiniteSet(rows)
    BY <1>1, <1>8 DEF OneEach
  <2>2. IsFiniteSet(ToSet(first))
    BY <2>1, FS_Subset
  <2> QED
    BY <2>1, <2>2 DEF OneEach
<1>10. ASSUME NEW i \in DOMAIN first, NEW j \in DOMAIN first, i < j
       PROVE  /\ first[i].coin # first[j].coin
              /\ kind # "current" =>
                   ~Lower(SortKey(kind, first[j]), SortKey(kind, first[i]))
  <2>1. first[i] \in rows /\ first[j] \in rows
    BY <1>1, <1>7
  <2>2. first[i] # first[j]
    <3>1. i # j
      BY <1>7, <1>10
    <3> QED
      BY <1>6, <1>7, <3>1
  <2>3. first[i].coin # first[j].coin
    BY <2>1, <2>2 DEF OneEach
  <2>4. ~Lower(key[first[j]], key[first[i]])
    BY <1>6, <1>7, <1>10
  <2> QED
    BY <1>7, <2>3, <2>4
<1>11. InTurnOf(kind, first)
  BY <1>10 DEF InTurnOf
<1> QED
  BY <1>9, <1>11 DEF first

LEMMA RankedInTurn ==
  ASSUME NEW kind \in Boards, NEW rows, NEW window, NEW version, OneEach(rows, window, version)
  PROVE  /\ OneEach(ToSet(Ranked(kind, rows)), window, version)
         /\ InTurnOf(kind, Ranked(kind, rows))
<1> DEFINE kept == Sided(kind, rows)
           key == [r \in kept |-> SortKey(kind, r)]
<1>1. kept \in SUBSET rows
  BY DEF Sided
<1> HIDE DEF kept
<1>2. HasKeys(key, kept)
  BY <1>1, KeysOfRows DEF OneEach, HasKeys
<1>3. \A r \in kept : key[r] = SortKey(kind, r)
  OBVIOUS
<1>4. Ranked(kind, rows) = Limited(kind, key)
  BY DEF Ranked, kept
<1> HIDE DEF key
<1> QED
  BY <1>1, <1>2, <1>3, <1>4, LimitedInTurn

LEMMA ServedInTurn ==
  ASSUME NEW kind \in Boards, NEW rows, NEW window, NEW version, OneEach(rows, window, version)
  PROVE  /\ OneEach(ToSet(Served(kind, rows)), window, version)
         /\ InTurnOf(kind, Served(kind, rows))
<1> DEFINE kept == Sided(kind, rows)
           key == [r \in kept |-> ServerKey(kind, r)]
<1>1. kept \in SUBSET rows
  BY DEF Sided
<1> HIDE DEF kept
<1>2. HasKeys(key, kept)
  BY <1>1, KeysOfRows DEF OneEach, HasKeys
<1>3. kind # "current" => \A r \in kept : key[r] = SortKey(kind, r)
  BY DEF ServerKey
<1>4. Served(kind, rows) = Limited(kind, key)
  BY DEF Served, kept
<1> HIDE DEF key
<1> QED
  BY <1>1, <1>2, <1>3, <1>4, LimitedInTurn

(* Merging an item changes neither coin nor window nor version of a row.   *)
LEMMA MergedRow ==
  ASSUME NEW r, IsRow(r), NEW i, IsRow(i)
  PROVE  LET m == MergeLiveScore(r, i) IN
         IsRow(m) /\ m.coin = r.coin /\ m.window = r.window /\ m.version = r.version
<1> DEFINE m == MergeLiveScore(r, i)
<1>1. m = [coin |-> r.coin, window |-> r.window, version |-> r.version,
           feedKeys |-> r.feedKeys, net |-> i.net, delta |-> i.delta]
  <2>1. m = [r EXCEPT !.net = i.net, !.delta = i.delta]
    BY DEF MergeLiveScore
  <2>2. r = [coin |-> r.coin, window |-> r.window, version |-> r.version,
             feedKeys |-> r.feedKeys, net |-> r.net, delta |-> r.delta]
    BY DEF IsRow
  <2> HIDE DEF m
  <2> QED
    BY <2>1, <2>2
<1>2. i.net \in Int /\ i.delta \in Int
  BY DEF IsRow
<1> HIDE DEF m
<1> QED
  BY <1>1, <1>2 DEF IsRow, m

LEMMA AddedRow ==
  ASSUME NEW i, IsRow(i)
  PROVE  LET a == LiveScoreToSummary(i) IN
         IsRow(a) /\ a.coin = i.coin /\ a.window = i.window /\ a.version = i.version
<1> DEFINE a == LiveScoreToSummary(i)
<1>1. a = [coin |-> i.coin, window |-> i.window, version |-> i.version,
           feedKeys |-> {}, net |-> i.net, delta |-> i.delta]
  BY DEF IsRow, LiveScoreToSummary
<1>2. i.net \in Int /\ i.delta \in Int
  BY DEF IsRow
<1> HIDE DEF a
<1> QED
  BY <1>1, <1>2 DEF IsRow, a

(* An update neither mixes windows or configurations in a list nor gives   *)
(* it a coin twice.                                                        *)
LEMMA PatchKeepsList ==
  ASSUME NEW kind, NEW list, ListInv(kind, list), NEW update, UpdateInv(update), NEW insert
  PROVE  ListInv(kind, PatchScoreResponse(list, update, kind, insert))
<1> DEFINE rows == ToSet(list.rows)
           items == PatchItems(update, list)
           untouched == {r \in rows : \A i \in items : i.coin # r.coin}
           pairs == {q \in rows \X items : q[1].coin = q[2].coin}
           merged == {MergeLiveScore(p[1], p[2]) : p \in pairs}
           fresh == {j \in items : \A r \in rows : r.coin # j.coin}
           added == {LiveScoreToSummary(i) : i \in fresh}
           more == IF insert THEN added ELSE {}
           all == untouched \cup merged \cup more
           patched == PatchScoreResponse(list, update, kind, insert)
<1>1. OneEach(rows, list.window, list.version) /\ kind \in Boards
  BY DEF ListInv
<1>2. patched = IF list.version # update.version THEN list
                ELSE [list EXCEPT !.rows = Ranked(kind, all)]
  BY DEF PatchScoreResponse
<1>3. CASE list.version # update.version
  BY <1>2, <1>3
<1>4. CASE list.version = update.version
  <2>1. /\ items \subseteq update.rows
        /\ \A i \in items : i.window = list.window
    BY DEF PatchItems, OfTheWindow
  <2>2. /\ \A i \in items : IsRow(i) /\ i.window = list.window /\ i.version = list.version
        /\ \A i, j \in items : i.coin = j.coin => i = j
        /\ IsFiniteSet(items)
    BY <1>4, <2>1, FS_Subset DEF UpdateInv
  <2>3. /\ \A r \in rows : IsRow(r) /\ r.window = list.window /\ r.version = list.version
        /\ \A r, s \in rows : r.coin = s.coin => r = s
        /\ IsFiniteSet(rows)
    BY <1>1 DEF OneEach
  <2> HIDE DEF rows, items
  <2>4. \A m \in merged : \E r \in rows, i \in items :
          r.coin = i.coin /\ m = MergeLiveScore(r, i)
    <3>1. \A p \in pairs : p[1] \in rows /\ p[2] \in items /\ p[1].coin = p[2].coin
      OBVIOUS
    <3> HIDE DEF pairs
    <3> QED
      BY <3>1
  <2>5. \A a \in added : \E i \in items :
          (\A r \in rows : r.coin # i.coin) /\ a = LiveScoreToSummary(i)
    OBVIOUS
  <2>6. IsFiniteSet(all)
    <3>1. IsFiniteSet(rows \X items)
      BY <2>2, <2>3, FS_Product
    <3>2. pairs \subseteq rows \X items /\ fresh \subseteq items /\ untouched \subseteq rows
      OBVIOUS
    <3>3. IsFiniteSet(pairs) /\ IsFiniteSet(fresh) /\ IsFiniteSet(untouched)
      BY <2>2, <2>3, <3>1, <3>2, FS_Subset
    <3> HIDE DEF pairs, fresh, untouched
    <3>4. IsFiniteSet(merged)
      <4> DEFINE f == [p \in pairs |-> MergeLiveScore(p[1], p[2])]
      <4>1. merged = {f[p] : p \in pairs}
        OBVIOUS
      <4> HIDE DEF f, merged
      <4> QED
        BY <3>3, <4>1, FiniteImage
    <3>5. IsFiniteSet(added)
      <4> DEFINE f == [i \in fresh |-> LiveScoreToSummary(i)]
      <4>1. added = {f[i] : i \in fresh}
        OBVIOUS
      <4> HIDE DEF f, added
      <4> QED
        BY <3>3, <4>1, FiniteImage
    <3>6. IsFiniteSet(more)
      BY <3>5, FS_EmptySet
    <3> HIDE DEF merged, more
    <3> QED
      BY <3>3, <3>4, <3>6, FS_Union
  <2>7. \A u \in untouched : u \in rows /\ \A i \in items : i.coin # u.coin
    OBVIOUS
  <2>8. more \subseteq added
    OBVIOUS
  <2> HIDE DEF untouched, merged, added, more
  <2>9. ASSUME NEW x \in all
        PROVE  IsRow(x) /\ x.window = list.window /\ x.version = list.version
    <3>1. CASE x \in untouched
      BY <2>3, <2>7, <3>1
    <3>2. CASE x \in merged
      BY <2>2, <2>3, <2>4, <3>2, MergedRow
    <3>3. CASE x \in more
      BY <2>2, <2>5, <2>8, <3>3, AddedRow
    <3> QED
      BY <3>1, <3>2, <3>3
  <2>10. \A x \in merged : \E r \in rows, i \in items :
           x = MergeLiveScore(r, i) /\ x.coin = r.coin /\ x.coin = i.coin
    BY <2>2, <2>3, <2>4, MergedRow
  <2>11. \A x \in more : \E i \in items :
           (\A r \in rows : r.coin # i.coin) /\ x = LiveScoreToSummary(i) /\ x.coin = i.coin
    BY <2>2, <2>5, <2>8, AddedRow
  <2>12. ASSUME NEW x \in all, NEW y \in all, x.coin = y.coin
         PROVE  x = y
    <3>1. ASSUME NEW u \in untouched, NEW v \in untouched, u.coin = v.coin PROVE u = v
      BY <2>3, <2>7, <3>1
    <3>2. ASSUME NEW u \in untouched, NEW v \in merged PROVE u.coin # v.coin
      BY <2>7, <2>10
    <3>3. ASSUME NEW u \in untouched, NEW v \in more PROVE u.coin # v.coin
      BY <2>7, <2>11
    <3>4. ASSUME NEW u \in merged, NEW v \in merged, u.coin = v.coin PROVE u = v
      BY <2>2, <2>3, <2>10, <3>4
    <3>5. ASSUME NEW u \in merged, NEW v \in more PROVE u.coin # v.coin
      BY <2>10, <2>11
    <3>6. ASSUME NEW u \in more, NEW v \in more, u.coin = v.coin PROVE u = v
      BY <2>2, <2>11, <3>6
    <3>7. (x \in untouched \/ x \in merged \/ x \in more)
          /\ (y \in untouched \/ y \in merged \/ y \in more)
      OBVIOUS
    <3> HIDE DEF all
    <3> QED
      BY <2>12, <3>1, <3>2, <3>3, <3>4, <3>5, <3>6, <3>7
  <2>13. OneEach(all, list.window, list.version)
    BY <2>6, <2>9, <2>12 DEF OneEach
  <2> HIDE DEF all
  <2>14. /\ OneEach(ToSet(Ranked(kind, all)), list.window, list.version)
         /\ InTurnOf(kind, Ranked(kind, all))
    BY <1>1, <2>13, RankedInTurn
  <2>15. patched = [list EXCEPT !.rows = Ranked(kind, all)]
    BY <1>2, <1>4
  <2> HIDE DEF patched
  <2>16. /\ patched = [query |-> list.query, window |-> list.window, version |-> list.version,
                       rows |-> Ranked(kind, all)]
    BY <2>15 DEF ListInv
  <2> QED
    BY <1>1, <2>14, <2>16 DEF ListInv, patched
<1> QED
  BY <1>3, <1>4

LEMMA PatchedIsOne ==
  ASSUME NEW page, ScoresShape(page), PatchInv(page)
  PROVE  PatchInv(Patched(page)) /\ Patched(page).filters = page.filters
<1> DEFINE new(k) == PatchScoreResponse(page.lists[k], page.update, k,
                                        CanInsertLiveRows(k, page.filters))
           lists == [k \in DOMAIN page.lists |-> new(k)]
<1>1. Patched(page) = [page EXCEPT !.pending = FALSE, !.lists = lists]
  BY DEF Patched
<1>2. \A k \in DOMAIN page.lists : ListInv(k, new(k))
  BY PatchKeepsList DEF PatchInv, AllOne
<1> HIDE DEF new
<1>3. AllOne(lists)
  BY <1>2 DEF AllOne
<1> HIDE DEF lists
<1>4. /\ Patched(page).lists = lists /\ Patched(page).update = page.update
      /\ Patched(page).requests = page.requests /\ Patched(page).filters = page.filters
  BY <1>1 DEF ScoresShape
<1> QED
  BY <1>3, <1>4 DEF PatchInv

(* What the server answers for one window is a row per coin. *)
LEMMA AnswerIsOne ==
  ASSUME BoardInv, NEW kind \in Boards, NEW query
  PROVE  ListInv(kind, ScoreAnswer(kind, query))
<1> DEFINE window == IF query.window = NoWindow THEN DefaultScoreWindow(ServerScoreWindows)
                     ELSE query.window
           coins == IF query.confidence > 0 \/ query.since \/ query.halal
                    THEN NarrowCoins ELSE ScoredCoins
           rows == {Row(c, window) : c \in coins}
           given == ScoreAnswer(kind, query)
<1>1. given = [query |-> query, window |-> window, version |-> board.version,
                rows |-> Served(kind, rows)]
  BY DEF ScoreAnswer
<1>2. coins \subseteq ScoredCoins /\ IsFiniteSet(coins)
  BY ScorePageAssumption, FS_Subset
<1> HIDE DEF window, coins
<1>3. ASSUME NEW c \in coins
      PROVE  LET row == Row(c, window) IN
             IsRow(row) /\ row.coin = c /\ row.window = window /\ row.version = board.version
  <2> DEFINE row == Row(c, window)
  <2>1. row = [coin |-> c, window |-> window, version |-> board.version,
               feedKeys |-> FeedKeysOf[c], net |-> board.net[c], delta |-> board.delta[c]]
    BY DEF Row
  <2>2. board.net[c] \in Int /\ board.delta[c] \in Int
    BY <1>2 DEF BoardInv
  <2> HIDE DEF row
  <2> QED
    BY <2>1, <2>2 DEF IsRow, row
<1>4. IsFiniteSet(rows)
  <2> DEFINE f == [c \in coins |-> Row(c, window)]
  <2>1. rows = {f[c] : c \in coins}
    OBVIOUS
  <2> HIDE DEF f, rows
  <2> QED
    BY <1>2, <2>1, FiniteImage
<1>5. \A r \in rows : \E c \in coins : r = Row(c, window)
  OBVIOUS
<1> HIDE DEF rows
<1>6. \A r \in rows : \E c \in coins : r = Row(c, window) /\ r.coin = c
  BY <1>3, <1>5
<1>7. OneEach(rows, window, board.version)
  <2>1. \A r \in rows : IsRow(r) /\ r.window = window /\ r.version = board.version
    BY <1>3, <1>5
  <2>2. \A r, s \in rows : r.coin = s.coin => r = s
    BY <1>6
  <2> QED
    BY <1>4, <2>1, <2>2 DEF OneEach
<1>8. OneEach(ToSet(Served(kind, rows)), window, board.version) /\ InTurnOf(kind, Served(kind, rows))
  BY <1>7, ServedInTurn
<1> HIDE DEF given
<1> QED
  BY <1>1, <1>8 DEF ListInv, given

LEMMA UpdateIsOne ==
  ASSUME BoardInv, ScoresShape(scores), PatchInv(scores), ScoreUpdate
  PROVE  BoardInv' /\ PatchInv(scores')
<1>1. PICK coin \in ScoredCoins, net \in Nets :
        LET delta == net - board.net[coin]
            Item(w) == [coin |-> coin, window |-> w, version |-> board.version,
                        feedKeys |-> FeedKeysOf[coin], net |-> net, delta |-> delta]
        IN /\ board' = [board EXCEPT !.changes = @ + 1, !.net[coin] = net, !.delta[coin] = delta]
           /\ scores' = [scores EXCEPT !.pending = TRUE, !.update =
                [version |-> board.version, rows |-> {Item(w) : w \in ServerScoreWindows}]]
  BY DEF ScoreUpdate
<1> DEFINE delta == net - board.net[coin]
           Item(w) == [coin |-> coin, window |-> w, version |-> board.version,
                       feedKeys |-> FeedKeysOf[coin], net |-> net, delta |-> delta]
           rows == {Item(w) : w \in ServerScoreWindows}
           update == [version |-> board.version, rows |-> rows]
<1>2. /\ board' = [board EXCEPT !.changes = @ + 1, !.net[coin] = net, !.delta[coin] = delta]
      /\ scores' = [scores EXCEPT !.pending = TRUE, !.update = update]
  BY <1>1
<1>3. net \in Int /\ delta \in Int
  BY ScorePageAssumption DEF BoardInv
<1> HIDE DEF delta
<1>4. BoardInv'
  <2>1. board' = [version |-> board.version, changes |-> board.changes + 1,
                  net |-> [board.net EXCEPT ![coin] = net],
                  delta |-> [board.delta EXCEPT ![coin] = delta]]
    BY <1>2 DEF BoardInv
  <2> QED
    BY <1>3, <2>1 DEF BoardInv
<1>5. \A w : LET i == Item(w) IN IsRow(i) /\ i.coin = coin /\ i.window = w /\ i.version = board.version
  <2> SUFFICES ASSUME NEW w
               PROVE  LET i == Item(w) IN
                      IsRow(i) /\ i.coin = coin /\ i.window = w /\ i.version = board.version
    OBVIOUS
  <2> DEFINE i == Item(w)
  <2>1. i = [coin |-> coin, window |-> w, version |-> board.version,
             feedKeys |-> FeedKeysOf[coin], net |-> net, delta |-> delta]
    OBVIOUS
  <2> HIDE DEF i
  <2> QED
    BY <1>3, <2>1 DEF IsRow, i
<1> HIDE DEF Item
<1>6. UpdateInv(update)
  <2>1. \A i \in rows : \E w \in ServerScoreWindows : i = Item(w)
    OBVIOUS
  <2>2. IsFiniteSet(rows)
    <3> DEFINE f == [w \in ServerScoreWindows |-> Item(w)]
    <3>1. rows = {f[w] : w \in ServerScoreWindows}
      OBVIOUS
    <3> HIDE DEF f, rows
    <3> QED
      BY <3>1, FiniteImage, ScorePageAssumption
  <2>3. update.rows = rows /\ update.version = board.version
    OBVIOUS
  <2> HIDE DEF rows, update
  <2>4. \A i \in rows : IsRow(i) /\ i.version = board.version /\ i = Item(i.window)
    BY <1>5, <2>1
  <2>5. \A i, j \in rows : i.coin = j.coin /\ i.window = j.window => i = j
    BY <2>4
  <2> QED
    BY <2>2, <2>3, <2>4, <2>5 DEF UpdateInv
<1> HIDE DEF update
<1>7. /\ scores'.update = update /\ scores'.lists = scores.lists
      /\ scores'.requests = scores.requests
  BY <1>2 DEF ScoresShape
<1> QED
  BY <1>4, <1>6, <1>7 DEF PatchInv

(* A request that is answered kind by kind, and the lists it becomes. *)
LEMMA AnswersAreOne ==
  ASSUME BoardInv, ScoresShape(scores), PatchInv(scores), NEW request \in scores.requests,
         NEW q, RequestFor(request, q), NEW kind \in Boards, ScoresAnswered(request, kind)
  PROVE  PatchInv(scores')
<1> DEFINE answers == [k \in DOMAIN request.answers \cup {kind} |->
                         IF k = kind THEN ScoreAnswer(kind, request.query) ELSE request.answers[k]]
           others == scores.requests \ {request}
<1>1. \/ scores' = [scores EXCEPT !.lists = answers, !.requests = others,
                                  !.loading = FALSE, !.error = FALSE]
      \/ scores' = [scores EXCEPT !.requests = others \cup {[request EXCEPT !.answers = answers]}]
  BY DEF ScoresAnswered
<1>2. AllOne(request.answers) /\ \A r \in others : AllOne(r.answers)
  BY DEF PatchInv
<1>3. AllOne(answers)
  BY <1>2, AnswerIsOne DEF AllOne
<1>4. [request EXCEPT !.answers = answers].answers = answers
  BY DEF RequestFor
<1> HIDE DEF answers, others
<1>5. CASE scores' = [scores EXCEPT !.lists = answers, !.requests = others,
                                    !.loading = FALSE, !.error = FALSE]
  <2>1. scores'.lists = answers /\ scores'.requests = others /\ scores'.update = scores.update
    BY <1>5 DEF ScoresShape
  <2> QED
    BY <1>2, <1>3, <2>1 DEF PatchInv
<1>6. CASE scores' = [scores EXCEPT !.requests = others \cup {[request EXCEPT !.answers = answers]}]
  <2> DEFINE new == [request EXCEPT !.answers = answers]
  <2>1. AllOne(new.answers)
    BY <1>3, <1>4
  <2> HIDE DEF new
  <2>2. /\ scores'.lists = scores.lists /\ scores'.update = scores.update
        /\ scores'.requests = others \cup {new}
    BY <1>6 DEF ScoresShape, new
  <2> QED
    BY <1>2, <2>1, <2>2 DEF PatchInv
<1> QED
  BY <1>1, <1>5, <1>6

LEMMA PatchedShape ==
  ASSUME NEW page, ScoresShape(page)
  PROVE  ScoresShape(Patched(page))
<1> DEFINE lists == [k \in DOMAIN page.lists |->
                       PatchScoreResponse(page.lists[k], page.update, k,
                                          CanInsertLiveRows(k, page.filters))]
<1>1. Patched(page) = [page EXCEPT !.pending = FALSE, !.lists = lists]
  BY DEF Patched
<1> HIDE DEF lists
<1> QED
  BY <1>1 DEF ScoresShape

(* Asking leaves update and lists, and has no answers yet.                 *)
LEMMA FetchingIsOne ==
  ASSUME NEW page, ScoresShape(page), UpdateInv(page.update), AllOne(page.lists)
  PROVE  PatchInv(Fetching(page))
<1> DEFINE asking == Fetching(page)
           q == BaseQuery(page)
<1>1. asking = [page EXCEPT !.loading = TRUE, !.requests = {Request(q)}]
  BY DEF Fetching, Aborted
<1> HIDE DEF q, asking
<1>2. /\ asking.update = page.update /\ asking.lists = page.lists
      /\ asking.requests = {Request(q)}
  BY <1>1 DEF ScoresShape
<1>3. AllOne(Request(q).answers)
  BY DEF Request, AllOne
<1> QED
  BY <1>2, <1>3 DEF PatchInv, asking

LEMMA ViewIsOne ==
  ASSUME PagesInv, PatchInv(scores), ViewNext \/ ThresholdNext
  PROVE  PatchInv(scores')
<1>1. ScoresShape(scores) /\ UpdateInv(scores.update) /\ AllOne(scores.lists)
  BY DEF PagesInv, ListsInv, PatchInv
<1>2. ASSUME NEW page, ScoresShape(page), PatchInv(page), scores' = page \/ Asks(page)
      PROVE  PatchInv(scores')
  BY <1>2, FetchingIsOne DEF Asks, PatchInv
<1>3. ASSUME NEW page, ScoresShape(page), page.update = scores.update, page.lists = scores.lists,
             page.requests = scores.requests, scores' = page \/ Asks(page)
      PROVE  PatchInv(scores')
  BY <1>2, <1>3 DEF PatchInv
<1>4. CASE WindowsConfigured
  <2>1. PICK configured, selected :
          Asks([[scores EXCEPT !.configured = configured] EXCEPT !.selected = selected])
    BY <1>4 DEF WindowsConfigured
  <2> DEFINE page == [scores EXCEPT !.configured = configured]
             new == [page EXCEPT !.selected = selected]
  <2>2. /\ ScoresShape(page) /\ page.update = scores.update /\ page.lists = scores.lists
        /\ page.requests = scores.requests
    BY <1>1 DEF ScoresShape
  <2> HIDE DEF page
  <2>3. /\ ScoresShape(new) /\ new.update = scores.update /\ new.lists = scores.lists
        /\ new.requests = scores.requests
    BY <2>2 DEF ScoresShape
  <2>4. Asks(new)
    BY <2>1 DEF page
  <2> HIDE DEF new
  <2> QED
    BY <1>3, <2>3, <2>4
<1>5. ASSUME NEW window, SelectWindow(window)
      PROVE  PatchInv(scores')
  <2> DEFINE page == [scores EXCEPT !.selected = window]
  <2>1. scores' = page \/ Asks(page)
    BY <1>5 DEF SelectWindow
  <2>2. /\ ScoresShape(page) /\ page.update = scores.update /\ page.lists = scores.lists
        /\ page.requests = scores.requests
    BY <1>1 DEF ScoresShape
  <2> HIDE DEF page
  <2> QED
    BY <1>3, <2>1, <2>2
<1>6. ASSUME NEW confidence, SelectConfidence(confidence)
      PROVE  PatchInv(scores')
  <2> DEFINE page == [scores EXCEPT !.confidence = confidence]
  <2>1. Asks(page)
    BY <1>6 DEF SelectConfidence
  <2>2. /\ ScoresShape(page) /\ page.update = scores.update /\ page.lists = scores.lists
        /\ page.requests = scores.requests
    BY <1>1 DEF ScoresShape
  <2> HIDE DEF page
  <2> QED
    BY <1>3, <2>1, <2>2
<1>7. CASE ToggleChangedSince
  <2> DEFINE page == [scores EXCEPT !.since = ~@]
  <2>1. Asks(page)
    BY <1>7 DEF ToggleChangedSince
  <2>2. /\ ScoresShape(page) /\ page.update = scores.update /\ page.lists = scores.lists
        /\ page.requests = scores.requests
    BY <1>1 DEF ScoresShape
  <2> HIDE DEF page
  <2> QED
    BY <1>3, <2>1, <2>2
<1>8. CASE ReloadScores
  BY <1>1, <1>8, FetchingIsOne DEF ReloadScores
<1>9. ASSUME NEW filters, ChangeFilters(filters)
      PROVE  PatchInv(scores')
  <2> DEFINE page == [scores EXCEPT !.filters = filters]
             patched == IF scores.update = NoUpdate THEN page ELSE Patched(page)
  <2>1. scores' = patched \/ Asks(patched)
    BY <1>9 DEF ChangeFilters
  <2>2. ScoresShape(page) /\ PatchInv(page)
    <3>1. /\ ScoresShape(page) /\ page.update = scores.update /\ page.lists = scores.lists
          /\ page.requests = scores.requests
      BY <1>1 DEF ScoresShape
    <3> HIDE DEF page
    <3> QED
      BY <3>1 DEF PatchInv
  <2> HIDE DEF page
  <2>3. ScoresShape(Patched(page)) /\ PatchInv(Patched(page))
    BY <2>2, PatchedIsOne, PatchedShape
  <2>4. ScoresShape(patched) /\ PatchInv(patched)
    BY <2>2, <2>3
  <2> HIDE DEF patched
  <2> QED
    BY <1>2, <2>1, <2>4
<1> QED
  BY <1>4, <1>5, <1>6, <1>7, <1>8, <1>9 DEF ViewNext, ThresholdNext

LEMMA ListsStayOne ==
  ASSUME PagesInv, BoardInv, PatchInv(scores),
         ListsNext \/ ViewNext \/ ThresholdNext \/ DetailNext \/ UNCHANGED scoreVars
  PROVE  BoardInv' /\ PatchInv(scores')
<1>1. ScoresShape(scores) /\ \A r \in scores.requests : RequestFor(r, BaseQuery(scores))
  BY DEF PagesInv, ListsInv
<1>2. CASE ScoreUpdate
  BY <1>1, <1>2, UpdateIsOne
<1>3. CASE UpdateEffect
  BY <1>1, <1>3, PatchedIsOne DEF UpdateEffect, BoardInv
<1>4. CASE ServerReconfigured
  <2>1. /\ board' = [version |-> board.version + 1, changes |-> board.changes + 1,
                     net |-> board.net, delta |-> board.delta]
        /\ scores' = scores
    BY <1>4 DEF ServerReconfigured, BoardInv
  <2> QED
    BY <2>1 DEF BoardInv
<1>5. ASSUME NEW request \in scores.requests, ScoresFail(request)
      PROVE  BoardInv' /\ PatchInv(scores')
  <2>1. /\ scores' = [scores EXCEPT !.requests = @ \ {request}, !.loading = FALSE, !.error = TRUE]
        /\ board' = board
    BY <1>5 DEF ScoresFail
  <2>2. /\ scores'.update = scores.update /\ scores'.lists = scores.lists
        /\ scores'.requests \subseteq scores.requests
    BY <1>1, <2>1 DEF ScoresShape
  <2> QED
    BY <2>1, <2>2 DEF PatchInv, BoardInv
<1>6. ASSUME NEW request \in scores.requests, NEW kind \in Boards, ScoresAnswered(request, kind)
      PROVE  BoardInv' /\ PatchInv(scores')
  <2>1. PatchInv(scores')
    BY <1>1, <1>6, AnswersAreOne
  <2> QED
    BY <1>6, <2>1 DEF ScoresAnswered, BoardInv
<1>7. CASE ViewNext \/ ThresholdNext
  <2>1. PatchInv(scores')
    BY <1>7, ViewIsOne
  <2>2. board' = board
    BY <1>7 DEF ViewNext, ThresholdNext, WindowsConfigured, ReloadScores, SelectWindow,
      ChangeFilters, ToggleChangedSince, SelectConfidence
  <2> QED
    BY <2>1, <2>2 DEF BoardInv
<1>8. CASE DetailNext \/ UNCHANGED scoreVars
  BY <1>8 DEF DetailNext, SelectCoin, CloseDetail, DetailAnswered, DetailFails, scoreVars, BoardInv
<1> QED
  BY <1>2, <1>3, <1>4, <1>5, <1>6, <1>7, <1>8 DEF ListsNext

LEMMA ListsStartOne ==
  ASSUME ScorePageInit
  PROVE  BoardInv /\ PatchInv(scores)
<1> DEFINE page == [configured |-> FALSE, selected |-> NoWindow, confidence |-> 0, since |-> FALSE,
                    filters |-> NoFilters, update |-> NoUpdate, pending |-> FALSE, lists |-> <<>>,
                    requests |-> {}, loading |-> FALSE, error |-> FALSE]
<1>1. scores = Fetching(page)
  BY DEF ScorePageInit, ScoresAtMount
<1>2. ScoresShape(page) /\ page.update = NoUpdate /\ DOMAIN page.lists = {}
  BY DEF ScoresShape
<1> HIDE DEF page
<1>3. UpdateInv(NoUpdate)
  BY FS_EmptySet DEF NoUpdate, UpdateInv
<1>4. AllOne(page.lists)
  BY <1>2 DEF AllOne
<1>5. PatchInv(scores)
  BY <1>1, <1>2, <1>3, <1>4, FetchingIsOne
<1>6. BoardInv
  <2>1. board = [version |-> 1, changes |-> 0, net |-> NetsAtMount,
                 delta |-> [c \in ScoredCoins |-> 0]]
    BY DEF ScorePageInit
  <2>2. board.net = NetsAtMount /\ board.delta = [c \in ScoredCoins |-> 0]
    BY <2>1
  <2>3. NetsAtMount \in [ScoredCoins -> Int]
    BY ScorePageAssumption
  <2> QED
    BY <2>1, <2>2, <2>3 DEF BoardInv
<1> QED
  BY <1>5, <1>6

(* Lists each of whose rows are of it alone are not mixed.                 *)
LEMMA NotMixed ==
  ASSUME PatchInv(scores)
  PROVE  ListsAreNotMixed
<1> SUFFICES ASSUME NEW k \in DOMAIN scores.lists, NEW i \in RowsShown(k)
             PROVE  LET rows == scores.lists[k].rows IN
                    /\ rows[i].window = scores.lists[k].window
                    /\ rows[i].version = scores.lists[k].version
                    /\ \A j \in RowsShown(k) :
                         i < j => /\ rows[i].coin # rows[j].coin
                                  /\ k # "current" =>
                                       ~Lower(SortKey(k, rows[j]), SortKey(k, rows[i]))
  BY DEF ListsAreNotMixed
<1>1. ListInv(k, scores.lists[k])
  BY DEF PatchInv, AllOne
<1>2. RowsShown(k) \subseteq DOMAIN scores.lists[k].rows
  BY DEF RowsShown
<1>3. scores.lists[k].rows[i] \in ToSet(scores.lists[k].rows)
  BY <1>2 DEF ToSet
<1> QED
  BY <1>1, <1>2, <1>3 DEF ListInv, OneEach, InTurnOf

-----------------------------------------------------------------------------
(* What a filter leaves of an event is of it, and under more exchanges not *)
(* less is left.                                                           *)
LEMMA FewerMatch ==
  ASSUME NEW e, NEW candidates, NEW fewer, NEW more, fewer \subseteq more, fewer # {},
         EntryMatches(e, candidates, fewer)
  PROVE  EntryMatches(e, candidates, more)
BY DEF EntryMatches, MatchesExchangeFilterByExchange, MatchesExchangeFilterByCoin

LEMMA FiltersHide ==
  ASSUME NEW event \in PageEvents, NEW fewer, NEW more, NEW markets \in SUBSET Markets
  PROVE  FiltersHideTheRest(event, fewer, more, markets)
<1> SUFFICES ASSUME fewer # {}, fewer \subseteq more
             PROVE  LET few == FilterEventByExchange(event, fewer, markets)
                        many == FilterEventByExchange(event, more, markets)
                    IN /\ many.entries \subseteq event.entries
                       /\ \A e \in many.entries :
                            e.exchange \in more \/ \E m \in Markets : Chips(e.coin, m) \cap more # {}
                       /\ few.coins \subseteq many.coins
                       /\ few.entries \subseteq many.entries
  BY DEF FiltersHideTheRest
<1> DEFINE candidates == CandidateMarkets(event.feedKey, markets)
           left(x) == {e \in event.entries : EntryMatches(e, candidates, x)}
           coins(x) == IF event.entries # {} THEN {e.coin : e \in left(x)} \ {NoCoin}
                       ELSE {c \in event.coins : \E market \in candidates :
                               MatchesExchangeFilterByCoin(c, market, x)}
           empty(x) == IF event.entries # {} THEN left(x) = {} ELSE coins(x) = {}
           few == FilterEventByExchange(event, fewer, markets)
           many == FilterEventByExchange(event, more, markets)
<1>1. candidates \subseteq Markets
  BY DEF CandidateMarkets, Markets
<1>2. \A x : x # {} => FilterEventByExchange(event, x, markets) =
                       IF empty(x) THEN NoEvent
                       ELSE [event EXCEPT !.entries = left(x), !.coins = coins(x)]
  BY DEF FilterEventByExchange
<1>3. event = [feedKey |-> event.feedKey, coins |-> event.coins, entries |-> event.entries]
  BY PageEventAssumption
<1> HIDE DEF candidates
<1>4. left(fewer) \subseteq left(more) /\ left(more) \subseteq event.entries
  BY FewerMatch
<1>5. coins(fewer) \subseteq coins(more)
  BY <1>4 DEF MatchesExchangeFilterByCoin
<1>6. \A e \in left(more) :
        e.exchange \in more \/ \E m \in Markets : Chips(e.coin, m) \cap more # {}
  BY <1>1 DEF EntryMatches, MatchesExchangeFilterByExchange, MatchesExchangeFilterByCoin
<1>7. empty(more) => empty(fewer)
  BY <1>4, <1>5
<1>8. \A x : event.entries = {} => left(x) = {}
  OBVIOUS
<1> HIDE DEF left, coins
<1>9. /\ few.entries = (IF empty(fewer) THEN {} ELSE left(fewer))
      /\ few.coins = (IF empty(fewer) THEN {} ELSE coins(fewer))
      /\ many.entries = (IF empty(more) THEN {} ELSE left(more))
      /\ many.coins = (IF empty(more) THEN {} ELSE coins(more))
  <2>1. ASSUME NEW x, x # {}
        PROVE  LET f == FilterEventByExchange(event, x, markets)
               IN /\ f.entries = (IF empty(x) THEN {} ELSE left(x))
                  /\ f.coins = (IF empty(x) THEN {} ELSE coins(x))
    <3>1. CASE empty(x)
      <4>1. FilterEventByExchange(event, x, markets) = NoEvent
        BY <1>2, <2>1, <3>1
      <4> HIDE DEF empty
      <4> QED
        BY <3>1, <4>1 DEF NoEvent
    <3>2. CASE ~empty(x)
      <4>1. FilterEventByExchange(event, x, markets) =
              [feedKey |-> event.feedKey, coins |-> coins(x), entries |-> left(x)]
        BY <1>2, <1>3, <2>1, <3>2
      <4> HIDE DEF empty
      <4> QED
        BY <3>2, <4>1
    <3> QED
      BY <3>1, <3>2
  <2> QED
    BY <2>1
<1> HIDE DEF few, many, empty
<1>10. /\ many.entries \subseteq left(more)
       /\ few.coins \subseteq many.coins /\ few.entries \subseteq many.entries
  BY <1>4, <1>5, <1>7, <1>9
<1> QED
  BY <1>4, <1>6, <1>10 DEF few, many
-----------------------------------------------------------------------------
ShownInv == PagesInv /\ BoardInv /\ PatchInv(scores)

LEMMA ShownPreserved ==
  ShownInv /\ [Step]_allVars => ShownInv'
<1> SUFFICES ASSUME ShownInv, [Step]_allVars
             PROVE  ShownInv'
  OBVIOUS
<1>1. [ScorePageNext]_<<pageDataVars, scoreVars>>
  BY DEF Step, ScorePageNext, allVars
<1>2. PagesInv'
  BY <1>1, PagesPreserved DEF ShownInv
<1>3. ListsNext \/ ViewNext \/ ThresholdNext \/ DetailNext \/ UNCHANGED scoreVars
  BY DEF Step, allVars
<1>4. BoardInv' /\ PatchInv(scores')
  BY <1>3, ListsStayOne DEF ShownInv
<1>5. PatchInv(scores)'
  BY <1>4 DEF PatchInv, UpdateInv, AllOne, ListInv, OneEach, InTurnOf, IsRow
<1> QED
  BY <1>2, <1>4, <1>5 DEF ShownInv

(* Of whatever page a behaviour is: once settled it shows the answers to   *)
(* what is selected on it, with lists of one window and configuration, one *)
(* row per coin, in order, patched by live updates or not                  *)
(* (patchScoreResponse); and the filters of the header leave nothing that  *)
(* is not of the event and of them (filterEventByExchange).                *)
THEOREM PagesShowWhatIsSelected == DashboardSpec => []PagesShowTheirSelection
<1>1. Start => ShownInv
  BY PagesInitially, ListsStartOne DEF Start, ShownInv
<1>2. ShownInv => PagesShowTheirSelection
  BY SettledPages, NotMixed, FiltersHide DEF ShownInv, PagesShowTheirSelection, ScoresShowSelection
<1> QED
  BY <1>1, <1>2, ShownPreserved, PTL DEF DashboardSpec

=============================================================================
