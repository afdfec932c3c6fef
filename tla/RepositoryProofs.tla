--------------------------- MODULE RepositoryProofs ---------------------------
(***************************************************************************)
(* Proofs about the two repositories that keep what comes in: about        *)
(* EventRepository for any writers, payloads, event ids and number of      *)
(* calls, whichever statements fail, time out or run late; and about       *)
(* MarketData for any coins, markets, horizons, batch sizes and number of  *)
(* events, ticks and failed statements.                                    *)
(*                                                                         *)
(* Of events, the predicates on tables take them as parameters (T: a       *)
(* transaction's, D the database's, inp: the arguments of the calls),      *)
(* since each is needed of uncommitted rows, of committed ones and of the  *)
(* two merged.                                                             *)
(***************************************************************************)
EXTENDS EventRepository, MarketData, CollectionLemmas

Statement == [kind : {"none"} \cup Statements, call : Nat, idx : Nat]

EventIn(c, inp) == EventsOf(inp[c].raw, inp[c].at)
EventOf(c, inp) == CHOOSE e \in EventIn(c, inp) : TRUE

RawId(T, q)    == <<T.rawKeys[q].id, T.rawKeys[q].at>>
EventRef(T, e) == <<e, T.eventKeys[e].at>>
EntryId(T, x)  == <<T.entryKeys[x].id, T.entryKeys[x].at>>

(* Each row is stored under the key its identity has in the key table, and *)
(* the rows it refers to are there.  An entry's id names the call and the  *)
(* entry that first had it, and with them the entry's key.                 *)
SoundRaws(T) ==
  \A k \in DOMAIN T.raws :
    /\ KeyOf(T.raws[k].raw) \in DOMAIN T.rawKeys
    /\ k = RawId(T, KeyOf(T.raws[k].raw))
SoundEvents(T) ==
  \A k \in DOMAIN T.events :
    /\ k[1] \in DOMAIN T.eventKeys /\ k = EventRef(T, k[1])
    /\ <<T.events[k].rawId, T.events[k].rawAt>> \in DOMAIN T.raws
SoundEntryKeys(T, inp) ==
  \A x \in DOMAIN T.entryKeys :
    /\ T.entryKeys[x].id[1] \in DOMAIN inp
    /\ x = <<EventOf(T.entryKeys[x].id[1], inp), T.entryKeys[x].id[2]>>
SoundEntries(T) ==
  \A k \in DOMAIN T.entries :
    /\ <<T.entries[k].event, T.entries[k].eventAt>> \in DOMAIN T.events
    /\ <<T.entries[k].event, k[1][2]>> \in DOMAIN T.entryKeys
    /\ k = EntryId(T, <<T.entries[k].event, k[1][2]>>)
Sound(T, inp) ==
  /\ DOMAIN T = TableNames
  /\ SoundRaws(T) /\ SoundEvents(T) /\ SoundEntryKeys(T, inp) /\ SoundEntries(T)

(* A transaction keeps the identities that are committed. *)
Agree(T, D) ==
  /\ \A q \in DOMAIN T.rawKeys \cap DOMAIN D.rawKeys : T.rawKeys[q] = D.rawKeys[q]
  /\ \A e \in DOMAIN T.eventKeys \cap DOMAIN D.eventKeys : T.eventKeys[e].at = D.eventKeys[e].at
  /\ \A x \in DOMAIN T.entryKeys \cap DOMAIN D.entryKeys : T.entryKeys[x] = D.entryKeys[x]

(* Rows are only added, and identities kept. *)
Extends(T, U) ==
  /\ \A t \in TableNames : DOMAIN T[t] \subseteq DOMAIN U[t]
  /\ \A q \in DOMAIN T.rawKeys : U.rawKeys[q] = T.rawKeys[q]
  /\ \A e \in DOMAIN T.eventKeys : U.eventKeys[e].at = T.eventKeys[e].at
  /\ \A x \in DOMAIN T.entryKeys : U.entryKeys[x] = T.entryKeys[x]

(* Row locks exclude. *)
Apart(T, U) == \A t \in TableNames : DOMAIN T[t] \cap DOMAIN U[t] = {}

-----------------------------------------------------------------------------
(* What call c has in T before its statement s. *)
RawKeyed(T, c, inp)  == KeyOf(inp[c].raw) \in DOMAIN T.rawKeys
RawStored(T, c, inp) ==
  RawKeyed(T, c, inp) /\ RawId(T, KeyOf(inp[c].raw)) \in DOMAIN T.raws
EventKeyed(T, c, inp) == EventIn(c, inp) # {} /\ EventOf(c, inp) \in DOMAIN T.eventKeys
EventIsThere(T, c, inp) ==
  EventKeyed(T, c, inp) /\ EventRef(T, EventOf(c, inp)) \in DOMAIN T.events
EntryStored(T, c, i, inp) ==
  /\ <<EventOf(c, inp), i>> \in DOMAIN T.entryKeys
  /\ EntryId(T, <<EventOf(c, inp), i>>) \in DOMAIN T.entries

Progress(T, s, inp) ==
  /\ s.kind \notin {"begin", "rawKey"} => RawKeyed(T, s.call, inp)
  /\ s.kind \notin {"begin", "rawKey", "raw"} => RawStored(T, s.call, inp)
  /\ s.kind = "eventKey" => EventIn(s.call, inp) # {}
  /\ s.kind = "event" => EventKeyed(T, s.call, inp)
  /\ s.kind \notin {"entryKey", "entry", "commit"} => s.idx = 0
  /\ s.kind \in {"entryKey", "entry"} =>
       /\ s.idx > 0 /\ s.idx <= EntryCount(inp[s.call].raw) /\ EventIsThere(T, s.call, inp)
       /\ \A i \in 1..(s.idx - 1) : EntryStored(T, s.call, i, inp)
  /\ s.kind = "entry" => <<EventOf(s.call, inp), s.idx>> \in DOMAIN T.entryKeys
  /\ s.kind = "commit" /\ EventIn(s.call, inp) # {} =>
       /\ EventIsThere(T, s.call, inp)
       /\ \A i \in 1..EntryCount(inp[s.call].raw) : EntryStored(T, s.call, i, inp)

Ready(T, s, inp) ==
  s.kind \in Statements /\ s.call \in DOMAIN inp /\ s.idx \in Nat /\ Progress(T, s, inp)

(* What is under way on a connection: p the statement its writer awaits, l *)
(* the one the server still runs.                                          *)
UnderWay(T, p, c, i, l, inp) ==
  /\ p # "idle" => c \in DOMAIN inp
  /\ p \in Statements => Ready(T, [kind |-> p, call |-> c, idx |-> i], inp)
  /\ l # NoStatement => p \in {"idle", "rollback", "begin"} /\ Ready(T, l, inp)

(* A connection that was never given back dirty has rows of its own call   *)
(* only, and none between calls.                                           *)
Own(T, c, inp) ==
  /\ \A t \in {"raws", "events", "entries"} : \A k \in DOMAIN T[t] : T[t][k].by = c
  /\ \A k \in DOMAIN T.events : EventIn(c, inp) # {} /\ k[1] = EventOf(c, inp)
  /\ \A k \in DOMAIN T.entries :
       /\ EventIn(c, inp) # {} /\ T.entries[k].event = EventOf(c, inp)
       /\ k[1][2] \in 1..EntryCount(inp[c].raw)
CleanSession(T, p, c, l, inp) ==
  /\ p \in {"idle", "begin"} => T = NoRows /\ l = NoStatement
  /\ l # NoStatement => l.call = c
  /\ Own(T, c, inp)

(* LatestVersionOfEach, of the calls C that committed in this order.       *)
HasIn(c, e, i, inp) == e \in EventIn(c, inp) /\ i <= EntryCount(inp[c].raw)
LatestIn(c, e, i, inp, C) ==
  \E n \in DOMAIN C :
    /\ C[n] = c /\ HasIn(c, e, i, inp)
    /\ \A m \in DOMAIN C : n < m => ~HasIn(C[m], e, i, inp)
LatestEvents(D, inp, C) ==
  \A k \in DOMAIN D.events :
    /\ LatestIn(D.events[k].by, k[1], 0, inp, C)
    /\ \A i \in 1..EntryCount(inp[D.events[k].by].raw) :
         /\ <<k[1], i>> \in DOMAIN D.entryKeys
         /\ EntryId(D, <<k[1], i>>) \in DOMAIN D.entries
LatestEntries(D, inp, C) ==
  \A k \in DOMAIN D.entries :
    /\ k[1][2] \in Nat \ {0}
    /\ LatestIn(D.entries[k].by, D.entries[k].event, k[1][2], inp, C)
Latest(D, inp, C) == LatestEvents(D, inp, C) /\ LatestEntries(D, inp, C)

-----------------------------------------------------------------------------
Tables ==
  /\ Sound(db, input)
  /\ \A w \in Writer : Sound(tx[w], input) /\ Agree(tx[w], db)
  /\ \A v, w \in Writer : v # w => Apart(tx[v], tx[w])
Sessions == \A w \in Writer : UnderWay(tx[w], pc[w], call[w], idx[w], late[w], input)
Clean ==
  /\ \A w \in Writer : CleanSession(tx[w], pc[w], call[w], late[w], input)
  /\ OnlyWholeTransactions
  /\ Latest(db, input, committed)

Types ==
  /\ DOMAIN tx = Writer
  /\ session \in [Writer -> {"none", "open", "aborted"}]
  /\ pc \in [Writer -> {"idle", "rollback"} \cup Statements]
  /\ idx \in [Writer -> Nat] /\ call \in [Writer -> 0..Len(input)]
  /\ late \in [Writer -> Statement]
  /\ input \in Seq([raw : Raw, at : Time])
  /\ outcome \in Seq({"open", "resolved", "rejected"}) /\ Len(outcome) = Len(input)
  /\ committed \in Seq(1..Len(input))
  /\ dirty \in BOOLEAN

IInv == Types /\ Tables /\ Sessions /\ ResolvedIsStored /\ (~dirty => Clean)

-----------------------------------------------------------------------------
(* Tables: what Put and Merge return.                                      *)
LEMMA Puts ==
  ASSUME NEW T, DOMAIN T = TableNames, NEW t \in TableNames, NEW k, NEW row
  PROVE  /\ DOMAIN Put(T, t, k, row) = TableNames
         /\ DOMAIN Put(T, t, k, row)[t] = DOMAIN T[t] \cup {k}
         /\ Put(T, t, k, row)[t][k] = row
         /\ \A x \in DOMAIN T[t] : x # k => Put(T, t, k, row)[t][x] = T[t][x]
         /\ \A u \in TableNames : u # t => Put(T, t, k, row)[u] = T[u]
BY DEF Put, Over

LEMMA Merged ==
  ASSUME NEW T, NEW D, NEW t \in TableNames
  PROVE  /\ DOMAIN Merge(T, D) = TableNames
         /\ DOMAIN Merge(T, D)[t] = DOMAIN T[t] \cup DOMAIN D[t]
         /\ \A k \in DOMAIN T[t] : Merge(T, D)[t][k] = T[t][k]
         /\ \A k \in DOMAIN D[t] : k \notin DOMAIN T[t] => Merge(T, D)[t][k] = D[t][k]
BY DEF Merge, Over

LEMMA Nothing ==
  /\ DOMAIN NoRows = TableNames
  /\ \A t \in TableNames : DOMAIN NoRows[t] = {}
BY DEF NoRows

LEMMA Names ==
  TableNames = {"rawKeys", "raws", "eventKeys", "events", "entryKeys", "entries"}
BY DEF TableNames

LEMMA NoRowsIsSound ==
  ASSUME NEW D, NEW inp
  PROVE  Sound(NoRows, inp) /\ Agree(NoRows, D) /\ Apart(NoRows, D) /\ Apart(D, NoRows)
BY Nothing, Names DEF Sound, SoundRaws, SoundEvents, SoundEntryKeys, SoundEntries, Agree, Apart

(* An identity of the transaction is the one it sees.                      *)
LEMMA Sees ==
  ASSUME NEW T, NEW D, Agree(T, D)
  PROVE  /\ \A q \in DOMAIN T.rawKeys : Merge(T, D).rawKeys[q] = T.rawKeys[q]
         /\ \A q \in DOMAIN D.rawKeys : Merge(T, D).rawKeys[q] = D.rawKeys[q]
         /\ \A e \in DOMAIN T.eventKeys : Merge(T, D).eventKeys[e].at = T.eventKeys[e].at
         /\ \A e \in DOMAIN D.eventKeys : Merge(T, D).eventKeys[e].at = D.eventKeys[e].at
         /\ \A x \in DOMAIN T.entryKeys : Merge(T, D).entryKeys[x] = T.entryKeys[x]
         /\ \A x \in DOMAIN D.entryKeys : Merge(T, D).entryKeys[x] = D.entryKeys[x]
<1>1. \A t \in TableNames : \A k \in DOMAIN T[t] : Merge(T, D)[t][k] = T[t][k]
  BY Merged
<1>2. \A t \in TableNames : \A k \in DOMAIN D[t] :
        k \notin DOMAIN T[t] => Merge(T, D)[t][k] = D[t][k]
  BY Merged
<1> QED
  BY <1>1, <1>2, Names DEF Agree

(* A COMMIT: the database keeps its identities, its rows and their sense.  *)
LEMMA MergeExtends ==
  ASSUME NEW T, NEW D, Agree(T, D)
  PROVE  Extends(D, Merge(T, D)) /\ Extends(T, Merge(T, D))
BY Sees, Merged DEF Extends

LEMMA MergeIsSound ==
  ASSUME NEW T, NEW D, NEW inp, Sound(T, inp), Sound(D, inp), Agree(T, D)
  PROVE  Sound(Merge(T, D), inp)
<1> DEFINE M == Merge(T, D)
<1>1. \A t \in TableNames :
        /\ DOMAIN M[t] = DOMAIN T[t] \cup DOMAIN D[t]
        /\ \A k \in DOMAIN T[t] : M[t][k] = T[t][k]
        /\ \A k \in DOMAIN D[t] : k \notin DOMAIN T[t] => M[t][k] = D[t][k]
  BY Merged
<1>2. Extends(D, M) /\ Extends(T, M)
  BY MergeExtends
<1>3. DOMAIN M = TableNames
  BY DEF Merge
<1> HIDE DEF M
<1>4. SoundRaws(M)
  BY <1>1, <1>2, Names DEF Sound, SoundRaws, Extends, RawId
<1>5. SoundEvents(M)
  <2> SUFFICES ASSUME NEW k \in DOMAIN M.events
               PROVE  /\ k[1] \in DOMAIN M.eventKeys /\ k = EventRef(M, k[1])
                      /\ <<M.events[k].rawId, M.events[k].rawAt>> \in DOMAIN M.raws
    BY DEF SoundEvents
  <2>1. ASSUME NEW U, Sound(U, inp), Extends(U, M), k \in DOMAIN U.events,
               M.events[k] = U.events[k]
        PROVE  /\ k[1] \in DOMAIN M.eventKeys /\ k = EventRef(M, k[1])
               /\ <<M.events[k].rawId, M.events[k].rawAt>> \in DOMAIN M.raws
    <3>1. /\ k[1] \in DOMAIN U.eventKeys /\ k = EventRef(U, k[1])
          /\ <<U.events[k].rawId, U.events[k].rawAt>> \in DOMAIN U.raws
      BY <2>1 DEF Sound, SoundEvents
    <3> QED
      BY <2>1, <3>1, Names DEF Extends, EventRef
  <2> QED
    BY <2>1, <1>1, <1>2, Names
<1>6. SoundEntryKeys(M, inp)
  BY <1>1, <1>2, Names DEF Sound, SoundEntryKeys, Extends
<1>7. SoundEntries(M)
  <2> DEFINE x(k) == <<M.entries[k].event, k[1][2]>>
  <2> SUFFICES ASSUME NEW k \in DOMAIN M.entries
               PROVE  /\ <<M.entries[k].event, M.entries[k].eventAt>> \in DOMAIN M.events
                      /\ x(k) \in DOMAIN M.entryKeys /\ k = EntryId(M, x(k))
    BY DEF SoundEntries
  <2>1. ASSUME NEW U, Sound(U, inp), Extends(U, M), k \in DOMAIN U.entries,
               M.entries[k] = U.entries[k]
        PROVE  /\ <<M.entries[k].event, M.entries[k].eventAt>> \in DOMAIN M.events
               /\ x(k) \in DOMAIN M.entryKeys /\ k = EntryId(M, x(k))
    <3>1. /\ <<M.entries[k].event, M.entries[k].eventAt>> \in DOMAIN U.events
          /\ x(k) \in DOMAIN U.entryKeys /\ k = EntryId(U, x(k))
      BY <2>1 DEF Sound, SoundEntries
    <3> HIDE DEF x
    <3> QED
      BY <2>1, <3>1, Names DEF Extends, EntryId
  <2> QED
    BY <2>1, <1>1, <1>2, Names
<1> QED
  BY <1>3, <1>4, <1>5, <1>6, <1>7 DEF Sound, M

LEMMA ExtendsIsTransitive ==
  ASSUME NEW T, NEW U, NEW V, Extends(T, U), Extends(U, V)
  PROVE  Extends(T, V)
BY Names DEF Extends

-----------------------------------------------------------------------------
(* Upserts, one lemma per table.  T is what the transaction has, M what it *)
(* sees, U what it has afterwards.                                         *)
LEMMA PutRawKey ==
  ASSUME NEW T, NEW D, NEW inp, Sound(T, inp), Agree(T, D), NEW c, NEW row,
         KeyOf(inp[c].raw) \in DOMAIN Merge(T, D).rawKeys =>
           row = Merge(T, D).rawKeys[KeyOf(inp[c].raw)]
  PROVE  LET U == Put(T, "rawKeys", KeyOf(inp[c].raw), row)
         IN  Sound(U, inp) /\ Agree(U, D) /\ Extends(T, U) /\ RawKeyed(U, c, inp)
<1> DEFINE q == KeyOf(inp[c].raw)
           U == Put(T, "rawKeys", q, row)
<1>1. /\ DOMAIN U = TableNames
      /\ DOMAIN U.rawKeys = DOMAIN T.rawKeys \cup {q} /\ U.rawKeys[q] = row
      /\ \A x \in DOMAIN T.rawKeys : x # q => U.rawKeys[x] = T.rawKeys[x]
      /\ \A u \in TableNames : u # "rawKeys" => U[u] = T[u]
  BY Puts, Names DEF Sound
<1>2. q \in DOMAIN T.rawKeys \cup DOMAIN D.rawKeys => q \in DOMAIN Merge(T, D).rawKeys
  BY Merged, Names
<1>3. /\ q \in DOMAIN T.rawKeys => row = T.rawKeys[q]
      /\ q \in DOMAIN D.rawKeys => row = D.rawKeys[q]
  BY <1>2, Sees
<1> HIDE DEF U, q
<1>4. Extends(T, U) /\ Agree(U, D)
  BY <1>1, <1>3, Names DEF Extends, Agree
<1>5. Sound(U, inp)
  <2>1. SoundRaws(U)
    BY <1>1, <1>4, Names DEF Sound, SoundRaws, Extends, RawId
  <2> QED
    BY <1>1, <2>1, Names DEF Sound, SoundEvents, SoundEntryKeys, SoundEntries, EventRef, EntryId
<1> QED
  BY <1>1, <1>4, <1>5 DEF RawKeyed, U, q

LEMMA PutRaw ==
  ASSUME NEW T, NEW D, NEW inp, Sound(T, inp), Agree(T, D), NEW c, NEW key, NEW row,
         RawKeyed(T, c, inp), key = RawId(T, KeyOf(inp[c].raw)), row.raw = inp[c].raw
  PROVE  LET U == Put(T, "raws", key, row)
         IN  Sound(U, inp) /\ Agree(U, D) /\ Extends(T, U) /\ RawStored(U, c, inp)
<1> DEFINE U == Put(T, "raws", key, row)
<1>1. /\ DOMAIN U = TableNames
      /\ DOMAIN U.raws = DOMAIN T.raws \cup {key} /\ U.raws[key] = row
      /\ \A x \in DOMAIN T.raws : x # key => U.raws[x] = T.raws[x]
      /\ \A u \in TableNames : u # "raws" => U[u] = T[u]
  BY Puts, Names DEF Sound
<1> HIDE DEF U
<1>4. Extends(T, U) /\ Agree(U, D)
  BY <1>1, Names DEF Extends, Agree
<1>5. Sound(U, inp)
  <2>1. SoundRaws(U)
    BY <1>1, Names DEF Sound, SoundRaws, RawKeyed, RawId
  <2>2. SoundEvents(U)
    BY <1>1, Names DEF Sound, SoundEvents, EventRef
  <2> QED
    BY <1>1, <2>1, <2>2, Names DEF Sound, SoundEntryKeys, SoundEntries, EntryId
<1> QED
  BY <1>1, <1>4, <1>5, Names DEF RawStored, RawKeyed, RawId, U

LEMMA PutEventKey ==
  ASSUME NEW T, NEW D, NEW inp, Sound(T, inp), Agree(T, D), NEW c, NEW row,
         EventIn(c, inp) # {},
         EventOf(c, inp) \in DOMAIN Merge(T, D).eventKeys =>
           row.at = Merge(T, D).eventKeys[EventOf(c, inp)].at
  PROVE  LET U == Put(T, "eventKeys", EventOf(c, inp), row)
         IN  Sound(U, inp) /\ Agree(U, D) /\ Extends(T, U) /\ EventKeyed(U, c, inp)
<1> DEFINE e == EventOf(c, inp)
           U == Put(T, "eventKeys", e, row)
<1>1. /\ DOMAIN U = TableNames
      /\ DOMAIN U.eventKeys = DOMAIN T.eventKeys \cup {e} /\ U.eventKeys[e] = row
      /\ \A x \in DOMAIN T.eventKeys : x # e => U.eventKeys[x] = T.eventKeys[x]
      /\ \A u \in TableNames : u # "eventKeys" => U[u] = T[u]
  BY Puts, Names DEF Sound
<1>2. e \in DOMAIN T.eventKeys \cup DOMAIN D.eventKeys => e \in DOMAIN Merge(T, D).eventKeys
  BY Merged, Names
<1>3. /\ e \in DOMAIN T.eventKeys => row.at = T.eventKeys[e].at
      /\ e \in DOMAIN D.eventKeys => row.at = D.eventKeys[e].at
  BY <1>2, Sees
<1> HIDE DEF U, e
<1>4. Extends(T, U) /\ Agree(U, D)
  BY <1>1, <1>3, Names DEF Extends, Agree
<1>5. Sound(U, inp)
  <2>1. SoundEvents(U)
    <3> SUFFICES ASSUME NEW k \in DOMAIN U.events
                 PROVE  /\ k[1] \in DOMAIN U.eventKeys /\ k = EventRef(U, k[1])
                        /\ <<U.events[k].rawId, U.events[k].rawAt>> \in DOMAIN U.raws
      BY DEF SoundEvents
    <3>1. /\ k[1] \in DOMAIN T.eventKeys /\ k = EventRef(T, k[1])
          /\ <<T.events[k].rawId, T.events[k].rawAt>> \in DOMAIN T.raws
      BY <1>1, Names DEF Sound, SoundEvents
    <3> QED
      BY <3>1, <1>1, <1>4, Names DEF Extends, EventRef
  <2> QED
    BY <1>1, <2>1, Names DEF Sound, SoundRaws, SoundEntryKeys, SoundEntries, RawId, EntryId
<1> QED
  BY <1>1, <1>4, <1>5 DEF EventKeyed, U, e

LEMMA PutEvent ==
  ASSUME NEW T, NEW D, NEW inp, Sound(T, inp), Agree(T, D), NEW c, NEW key, NEW row,
         EventKeyed(T, c, inp), key = EventRef(T, EventOf(c, inp)),
         <<row.rawId, row.rawAt>> \in DOMAIN T.raws
  PROVE  LET U == Put(T, "events", key, row)
         IN  Sound(U, inp) /\ Agree(U, D) /\ Extends(T, U) /\ EventIsThere(U, c, inp)
<1> DEFINE U == Put(T, "events", key, row)
<1>1. /\ DOMAIN U = TableNames
      /\ DOMAIN U.events = DOMAIN T.events \cup {key} /\ U.events[key] = row
      /\ \A x \in DOMAIN T.events : x # key => U.events[x] = T.events[x]
      /\ \A u \in TableNames : u # "events" => U[u] = T[u]
  BY Puts, Names DEF Sound
<1>2. key[1] = EventOf(c, inp)
  BY DEF EventRef
<1> HIDE DEF U
<1>4. Extends(T, U) /\ Agree(U, D)
  BY <1>1, Names DEF Extends, Agree
<1>5. Sound(U, inp)
  <2>1. SoundEvents(U)
    <3> SUFFICES ASSUME NEW k \in DOMAIN U.events
                 PROVE  /\ k[1] \in DOMAIN U.eventKeys /\ k = EventRef(U, k[1])
                        /\ <<U.events[k].rawId, U.events[k].rawAt>> \in DOMAIN U.raws
      BY DEF SoundEvents
    <3>1. CASE k = key
      BY <3>1, <1>1, <1>2, Names DEF EventKeyed, EventRef
    <3>2. CASE k # key
      <4>1. /\ k[1] \in DOMAIN T.eventKeys /\ k = EventRef(T, k[1])
            /\ <<T.events[k].rawId, T.events[k].rawAt>> \in DOMAIN T.raws
        BY <3>2, <1>1, Names DEF Sound, SoundEvents
      <4> QED
        BY <4>1, <3>2, <1>1, Names DEF EventRef
    <3> QED
      BY <3>1, <3>2
  <2>2. SoundEntries(U)
    BY <1>1, Names DEF Sound, SoundEntries, EntryId
  <2> QED
    BY <1>1, <2>1, <2>2, Names DEF Sound, SoundRaws, SoundEntryKeys, RawId
<1> QED
  BY <1>1, <1>4, <1>5, Names DEF EventIsThere, EventKeyed, EventRef, U

LEMMA PutEntryKey ==
  ASSUME NEW T, NEW D, NEW inp, Sound(T, inp), Sound(D, inp), Agree(T, D),
         NEW c \in DOMAIN inp, NEW i, NEW row,
         IF <<EventOf(c, inp), i>> \in DOMAIN Merge(T, D).entryKeys
         THEN row = Merge(T, D).entryKeys[<<EventOf(c, inp), i>>]
         ELSE row.id = <<c, i>>
  PROVE  LET U == Put(T, "entryKeys", <<EventOf(c, inp), i>>, row)
         IN  /\ Sound(U, inp) /\ Agree(U, D) /\ Extends(T, U)
             /\ <<EventOf(c, inp), i>> \in DOMAIN U.entryKeys
<1> DEFINE x == <<EventOf(c, inp), i>>
           U == Put(T, "entryKeys", x, row)
<1>1. /\ DOMAIN U = TableNames
      /\ DOMAIN U.entryKeys = DOMAIN T.entryKeys \cup {x} /\ U.entryKeys[x] = row
      /\ \A y \in DOMAIN T.entryKeys : y # x => U.entryKeys[y] = T.entryKeys[y]
      /\ \A u \in TableNames : u # "entryKeys" => U[u] = T[u]
  BY Puts, Names DEF Sound
<1>2. x \in DOMAIN T.entryKeys \cup DOMAIN D.entryKeys <=> x \in DOMAIN Merge(T, D).entryKeys
  BY Merged, Names
<1>3. /\ x \in DOMAIN T.entryKeys => row = T.entryKeys[x]
      /\ x \in DOMAIN D.entryKeys => row = D.entryKeys[x]
      /\ x \notin DOMAIN T.entryKeys \cup DOMAIN D.entryKeys => row.id = <<c, i>>
  BY <1>2, Sees
<1>4. Extends(T, U) /\ Agree(U, D)
  <2> HIDE DEF U, x
  <2> QED
    BY <1>1, <1>3, Names DEF Extends, Agree
<1>5. row.id[1] \in DOMAIN inp /\ x = <<EventOf(row.id[1], inp), row.id[2]>>
  <2>1. CASE x \in DOMAIN T.entryKeys
    BY <2>1, <1>3 DEF Sound, SoundEntryKeys
  <2>2. CASE x \in DOMAIN D.entryKeys
    BY <2>2, <1>3 DEF Sound, SoundEntryKeys
  <2>3. CASE x \notin DOMAIN T.entryKeys \cup DOMAIN D.entryKeys
    BY <2>3, <1>3
  <2> QED
    BY <2>1, <2>2, <2>3
<1> HIDE DEF U, x
<1>6. SoundEntryKeys(U, inp)
  BY <1>1, <1>5 DEF Sound, SoundEntryKeys
<1>7. SoundEntries(U)
  <2> SUFFICES ASSUME NEW k \in DOMAIN U.entries
               PROVE  /\ <<U.entries[k].event, U.entries[k].eventAt>> \in DOMAIN U.events
                      /\ <<U.entries[k].event, k[1][2]>> \in DOMAIN U.entryKeys
                      /\ k = EntryId(U, <<U.entries[k].event, k[1][2]>>)
    BY DEF SoundEntries
  <2>1. /\ <<T.entries[k].event, T.entries[k].eventAt>> \in DOMAIN T.events
        /\ <<T.entries[k].event, k[1][2]>> \in DOMAIN T.entryKeys
        /\ k = EntryId(T, <<T.entries[k].event, k[1][2]>>)
    BY <1>1, Names DEF Sound, SoundEntries
  <2> QED
    BY <2>1, <1>1, <1>4, Names DEF Extends, EntryId
<1>8. Sound(U, inp)
  BY <1>1, <1>6, <1>7, Names DEF Sound, SoundRaws, SoundEvents, RawId, EventRef
<1> QED
  BY <1>1, <1>4, <1>8 DEF U, x

LEMMA PutEntry ==
  ASSUME NEW T, NEW D, NEW inp, Sound(T, inp), Agree(T, D), NEW c, NEW i, NEW key, NEW row,
         EventIsThere(T, c, inp), <<EventOf(c, inp), i>> \in DOMAIN T.entryKeys,
         key = EntryId(T, <<EventOf(c, inp), i>>),
         row.event = EventOf(c, inp), row.eventAt = T.eventKeys[EventOf(c, inp)].at
  PROVE  LET U == Put(T, "entries", key, row)
         IN  Sound(U, inp) /\ Agree(U, D) /\ Extends(T, U) /\ EntryStored(U, c, i, inp)
<1> DEFINE U == Put(T, "entries", key, row)
<1>1. /\ DOMAIN U = TableNames
      /\ DOMAIN U.entries = DOMAIN T.entries \cup {key} /\ U.entries[key] = row
      /\ \A x \in DOMAIN T.entries : x # key => U.entries[x] = T.entries[x]
      /\ \A u \in TableNames : u # "entries" => U[u] = T[u]
  BY Puts, Names DEF Sound
<1>2. key[1][2] = i
  <2>1. <<EventOf(c, inp), i>> =
          <<EventOf(T.entryKeys[<<EventOf(c, inp), i>>].id[1], inp),
            T.entryKeys[<<EventOf(c, inp), i>>].id[2]>>
    BY DEF Sound, SoundEntryKeys
  <2> QED
    BY <2>1 DEF EntryId
<1> HIDE DEF U
<1>4. Extends(T, U) /\ Agree(U, D)
  BY <1>1, Names DEF Extends, Agree
<1>5. SoundEntries(U)
  <2> SUFFICES ASSUME NEW k \in DOMAIN U.entries
               PROVE  /\ <<U.entries[k].event, U.entries[k].eventAt>> \in DOMAIN U.events
                      /\ <<U.entries[k].event, k[1][2]>> \in DOMAIN U.entryKeys
                      /\ k = EntryId(U, <<U.entries[k].event, k[1][2]>>)
    BY DEF SoundEntries
  <2>1. CASE k = key
    BY <2>1, <1>1, <1>2, Names DEF EventIsThere, EventRef, EntryId
  <2>2. CASE k # key
    <3>1. /\ <<T.entries[k].event, T.entries[k].eventAt>> \in DOMAIN T.events
          /\ <<T.entries[k].event, k[1][2]>> \in DOMAIN T.entryKeys
          /\ k = EntryId(T, <<T.entries[k].event, k[1][2]>>)
      BY <2>2, <1>1, Names DEF Sound, SoundEntries
    <3> QED
      BY <3>1, <2>2, <1>1, Names DEF EntryId
  <2> QED
    BY <2>1, <2>2
<1>6. Sound(U, inp)
  BY <1>1, <1>5, Names DEF Sound, SoundRaws, SoundEvents, SoundEntryKeys, RawId, EventRef
<1> QED
  BY <1>1, <1>4, <1>6, Names DEF EntryStored, EntryId, U

-----------------------------------------------------------------------------
(* What a call has stored stays stored, whatever is added and whichever    *)
(* calls begin.                                                            *)
LEMMA StaysStored ==
  ASSUME NEW T, NEW U, Extends(T, U), NEW c, NEW inp
  PROVE  /\ RawKeyed(T, c, inp) => RawKeyed(U, c, inp)
         /\ RawStored(T, c, inp) => RawStored(U, c, inp)
         /\ EventKeyed(T, c, inp) => EventKeyed(U, c, inp)
         /\ EventIsThere(T, c, inp) => EventIsThere(U, c, inp)
         /\ \A i : EntryStored(T, c, i, inp) => EntryStored(U, c, i, inp)
         /\ \A x : x \in DOMAIN T.entryKeys => x \in DOMAIN U.entryKeys
BY Names DEF Extends, RawKeyed, RawStored, EventKeyed, EventIsThere, EntryStored, RawId,
             EventRef, EntryId

LEMMA MoreCalls ==
  ASSUME NEW inp, NEW more, \A c \in DOMAIN inp : c \in DOMAIN more /\ more[c] = inp[c], NEW T
  PROVE  /\ Sound(T, inp) => Sound(T, more)
         /\ \A c \in DOMAIN inp : Own(T, c, inp) => Own(T, c, more)
         /\ \A s : Ready(T, s, inp) => Ready(T, s, more)
<1>1. \A c \in DOMAIN inp : EventIn(c, more) = EventIn(c, inp) /\ EventOf(c, more) = EventOf(c, inp)
  BY DEF EventIn, EventOf
<1>2. Sound(T, inp) => Sound(T, more)
  BY <1>1 DEF Sound, SoundEntryKeys
<1>3. \A c \in DOMAIN inp : Own(T, c, inp) => Own(T, c, more)
  BY <1>1 DEF Own
<1>4. ASSUME NEW s, Ready(T, s, inp) PROVE Ready(T, s, more)
  <2>1. s.call \in DOMAIN inp /\ more[s.call] = inp[s.call]
    BY <1>4 DEF Ready
  <2>2. /\ EventIn(s.call, more) = EventIn(s.call, inp)
        /\ EventOf(s.call, more) = EventOf(s.call, inp)
    BY <2>1, <1>1
  <2> QED
    BY <1>4, <2>1, <2>2 DEF Ready, Progress, RawKeyed, RawStored, EventKeyed, EventIsThere,
                            EntryStored
<1> QED
  BY <1>2, <1>3, <1>4

LEMMA Elements ==
  ASSUME NEW S, NEW q \in Seq(S)
  PROVE  DOMAIN q = 1..Len(q) /\ \A n \in DOMAIN q : q[n] \in S
OBVIOUS

-----------------------------------------------------------------------------
(* A statement reads the identities of its own transaction.                *)
LEMMA Reads ==
  ASSUME NEW w \in Writer, Agree(tx[w], db), NEW s
  PROVE  /\ RawKey(s) = KeyOf(input[s.call].raw) /\ EventId(s) = EventOf(s.call, input)
         /\ EntryKey(s) = <<EventOf(s.call, input), s.idx>>
         /\ RawKeyed(tx[w], s.call, input) =>
              /\ RawRef(w, s) = tx[w].rawKeys[KeyOf(input[s.call].raw)]
              /\ <<RawRef(w, s).id, RawRef(w, s).at>> = RawId(tx[w], KeyOf(input[s.call].raw))
         /\ EventKeyed(tx[w], s.call, input) =>
              /\ EventAt(w, s) = tx[w].eventKeys[EventOf(s.call, input)].at
              /\ <<EventId(s), EventAt(w, s)>> = EventRef(tx[w], EventOf(s.call, input))
         /\ <<EventOf(s.call, input), s.idx>> \in DOMAIN tx[w].entryKeys =>
              <<EntryRef(w, s).id, EntryRef(w, s).at>> =
                EntryId(tx[w], <<EventOf(s.call, input), s.idx>>)
<1>1. EventId(s) = EventOf(s.call, input)
  BY DEF EventId, EventOf, EventIn
<1> QED
  BY <1>1, Sees DEF RawKey, EntryKey, RawRef, EventAt, EntryRef, Seen, RawKeyed, EventKeyed,
                    RawId, EventRef, EntryId

(* An upsert leaves the transaction sound, says the identities that are    *)
(* committed, and has done what the following statement relies on.         *)
LEMMA UpsertAdvances ==
  ASSUME DOMAIN tx = Writer, input \in Seq([raw : Raw, at : Time]),
         NEW w \in Writer, Sound(tx[w], input), Sound(db, input), Agree(tx[w], db),
         NEW s \in Statement, s.kind \notin {"begin", "commit"}, Ready(tx[w], s, input),
         Upsert(w, s)
  PROVE  /\ Sound(tx'[w], input) /\ Agree(tx'[w], db) /\ Extends(tx[w], tx'[w])
         /\ Ready(tx'[w], Following(s), input)
         /\ Following(s).call = s.call /\ Following(s).idx \in Nat
<1> DEFINE T == tx[w]
           U == tx'[w]
           c == s.call
           r == input[c].raw
           F == Following(s)
           Good == Sound(U, input) /\ Agree(U, db) /\ Extends(T, U)
<1> SUFFICES Good /\ Ready(U, F, input) /\ F.call = c /\ F.idx \in Nat
  OBVIOUS
<1>1. U = Put(T, Table(s.kind), Key(w, s), Row(w, s))
  BY DEF Upsert
<1>2. /\ c \in DOMAIN input /\ r \in Raw /\ EntryCount(r) \in Nat /\ s.idx \in Nat
      /\ s.kind \in Statements
  <2>1. c \in DOMAIN input /\ s.idx \in Nat /\ s.kind \in Statements
    BY DEF Ready
  <2>2. input[c] \in [raw : Raw, at : Time]
    BY <2>1, Elements
  <2> QED
    BY <2>1, <2>2, EventRepositoryAssumption
<1>3. Seen(w) = Merge(T, db)
  BY DEF Seen
<1>4. EventIn(c, input) = EventsOf(input[s.call].raw, input[s.call].at)
  BY DEF EventIn
<1> USE DEF Ready
<1>5. CASE s.kind = "rawKey"
  <2>1. U = Put(T, "rawKeys", KeyOf(r), Row(w, s))
    BY <1>1, <1>5, Reads DEF Table, Key
  <2>2. KeyOf(r) \in DOMAIN Merge(T, db).rawKeys =>
          Row(w, s) = Merge(T, db).rawKeys[KeyOf(r)]
    BY <1>5, <1>3, Reads DEF Row, KeyedRaw, Known, RawRef
  <2>3. Good /\ RawKeyed(U, c, input)
    BY <2>1, <2>2, PutRawKey
  <2>4. F.kind = "raw" /\ F.call = c /\ F.idx = s.idx
    BY <1>5 DEF Following, Statement
  <2> HIDE DEF U, F, c
  <2> QED
    BY <2>3, <2>4, <1>2, <1>5 DEF Statements, Progress
<1>6. CASE s.kind = "raw"
  <2>1. RawKeyed(T, c, input)
    BY <1>6 DEF Progress
  <2>2. U = Put(T, "raws", RawId(T, KeyOf(r)), Row(w, s))
    BY <1>1, <1>6, <2>1, Reads DEF Table, Key
  <2>3. Row(w, s).raw = r
    BY <1>6 DEF Row, RawRow
  <2>4. Good /\ RawStored(U, c, input)
    BY <2>1, <2>2, <2>3, PutRaw
  <2>5. RawKeyed(U, c, input)
    BY <2>4 DEF RawStored
  <2>6. /\ F.kind = IF EventIn(c, input) = {} THEN "commit" ELSE "eventKey"
        /\ F.call = c /\ F.idx = s.idx
    BY <1>6, <1>4 DEF Following, Statement
  <2>7. s.idx = 0
    BY <1>6 DEF Progress
  <2> HIDE DEF U, F, c
  <2> QED
    BY <2>4, <2>5, <2>6, <2>7, <1>2, <1>6 DEF Statements, Progress
<1>7. CASE s.kind = "eventKey"
  <2>1. /\ RawKeyed(T, c, input) /\ RawStored(T, c, input) /\ EventIn(c, input) # {}
        /\ s.idx = 0
    BY <1>7 DEF Progress
  <2>2. U = Put(T, "eventKeys", EventOf(c, input), Row(w, s))
    BY <1>1, <1>7, Reads DEF Table, Key
  <2>3. EventOf(c, input) \in DOMAIN Merge(T, db).eventKeys =>
          Row(w, s).at = Merge(T, db).eventKeys[EventOf(c, input)].at
    BY <1>7, <1>3, Reads DEF Row, KeyedEvent, Known, EventAt
  <2>4. Good /\ EventKeyed(U, c, input)
    BY <2>1, <2>2, <2>3, PutEventKey
  <2>5. RawKeyed(U, c, input) /\ RawStored(U, c, input)
    BY <2>1, <2>4, StaysStored
  <2>6. F.kind = "event" /\ F.call = c /\ F.idx = s.idx
    BY <1>7 DEF Following, Statement
  <2> HIDE DEF U, F, c
  <2> QED
    BY <2>1, <2>4, <2>5, <2>6, <1>2, <1>7 DEF Statements, Progress
<1>8. CASE s.kind = "event"
  <2>1. /\ RawKeyed(T, c, input) /\ RawStored(T, c, input) /\ EventKeyed(T, c, input)
        /\ s.idx = 0
    BY <1>8 DEF Progress
  <2>2. U = Put(T, "events", EventRef(T, EventOf(c, input)), Row(w, s))
    BY <1>1, <1>8, <2>1, Reads DEF Table, Key
  <2>3. <<Row(w, s).rawId, Row(w, s).rawAt>> \in DOMAIN T.raws
    BY <1>8, <2>1, Reads DEF Row, EventRow, RawStored
  <2>4. Good /\ EventIsThere(U, c, input)
    BY <2>1, <2>2, <2>3, PutEvent
  <2>5. RawKeyed(U, c, input) /\ RawStored(U, c, input)
    BY <2>1, <2>4, StaysStored
  <2>6. /\ F.call = c
        /\ IF s.idx < EntryCount(r) THEN F.kind = "entryKey" /\ F.idx = s.idx + 1
                                    ELSE F.kind = "commit" /\ F.idx = s.idx
    BY <1>8 DEF Following, MoreEntries, Statement
  <2> HIDE DEF U, F, c
  <2>7. CASE s.idx < EntryCount(r)
    BY <2>7, <2>1, <2>4, <2>5, <2>6, <1>2, <1>8 DEF Statements, Progress
  <2>8. CASE ~(s.idx < EntryCount(r))
    <3>1. \A i \in 1..EntryCount(r) : EntryStored(U, c, i, input)
      BY <2>8, <2>1, <1>2
    <3> QED
      BY <3>1, <2>8, <2>1, <2>4, <2>5, <2>6, <1>2, <1>8 DEF Statements, Progress
  <2> QED
    BY <2>7, <2>8
<1>9. CASE s.kind = "entryKey"
  <2>1. /\ RawKeyed(T, c, input) /\ RawStored(T, c, input) /\ EventIsThere(T, c, input)
        /\ s.idx > 0 /\ s.idx <= EntryCount(r)
        /\ \A i \in 1..(s.idx - 1) : EntryStored(T, c, i, input)
    BY <1>9 DEF Progress
  <2>2. U = Put(T, "entryKeys", <<EventOf(c, input), s.idx>>, Row(w, s))
    BY <1>1, <1>9, Reads DEF Table, Key
  <2>3. IF <<EventOf(c, input), s.idx>> \in DOMAIN Merge(T, db).entryKeys
        THEN Row(w, s) = Merge(T, db).entryKeys[<<EventOf(c, input), s.idx>>]
        ELSE Row(w, s).id = <<c, s.idx>>
    BY <1>9, <1>3, Reads DEF Row, KeyedEntry, Known, EntryRef
  <2>4. Good /\ <<EventOf(c, input), s.idx>> \in DOMAIN U.entryKeys
    BY <1>2, <2>2, <2>3, PutEntryKey
  <2>5. /\ RawKeyed(U, c, input) /\ RawStored(U, c, input) /\ EventIsThere(U, c, input)
        /\ \A i \in 1..(s.idx - 1) : EntryStored(U, c, i, input)
    BY <2>1, <2>4, StaysStored
  <2>6. F.kind = "entry" /\ F.call = c /\ F.idx = s.idx
    BY <1>9 DEF Following, Statement
  <2> HIDE DEF U, F, c
  <2> QED
    BY <2>1, <2>4, <2>5, <2>6, <1>2, <1>9 DEF Statements, Progress
<1>10. CASE s.kind = "entry"
  <2>1. /\ RawKeyed(T, c, input) /\ RawStored(T, c, input) /\ EventIsThere(T, c, input)
        /\ s.idx > 0 /\ s.idx <= EntryCount(r)
        /\ \A i \in 1..(s.idx - 1) : EntryStored(T, c, i, input)
        /\ <<EventOf(c, input), s.idx>> \in DOMAIN T.entryKeys
    BY <1>10 DEF Progress
  <2>2. EventKeyed(T, c, input)
    BY <2>1 DEF EventIsThere
  <2>3. U = Put(T, "entries", EntryId(T, <<EventOf(c, input), s.idx>>), Row(w, s))
    BY <1>1, <1>10, <2>1, Reads DEF Table, Key
  <2>4. Row(w, s).event = EventOf(c, input) /\ Row(w, s).eventAt = T.eventKeys[EventOf(c, input)].at
    BY <1>10, <2>2, Reads DEF Row, EntryRow
  <2>5. Good /\ EntryStored(U, c, s.idx, input)
    BY <2>1, <2>3, <2>4, PutEntry
  <2>6. /\ RawKeyed(U, c, input) /\ RawStored(U, c, input) /\ EventIsThere(U, c, input)
        /\ \A i \in 1..s.idx : EntryStored(U, c, i, input)
    <3>1. \A i \in 1..s.idx : i \in 1..(s.idx - 1) \/ i = s.idx
      BY <1>2
    <3> QED
      BY <2>1, <2>5, <3>1, StaysStored
  <2>7. /\ F.call = c
        /\ IF s.idx < EntryCount(r) THEN F.kind = "entryKey" /\ F.idx = s.idx + 1
                                    ELSE F.kind = "commit" /\ F.idx = s.idx
    BY <1>10 DEF Following, MoreEntries, Statement
  <2> HIDE DEF U, F, c
  <2>8. CASE s.idx < EntryCount(r)
    BY <2>8, <2>1, <2>5, <2>6, <2>7, <1>2, <1>10 DEF Statements, Progress
  <2>9. CASE ~(s.idx < EntryCount(r))
    <3>1. \A i \in 1..EntryCount(r) : i \in 1..s.idx
      BY <2>9, <1>2
    <3>2. \A i \in 1..EntryCount(r) : EntryStored(U, c, i, input)
      BY <3>1, <2>6
    <3> QED
      BY <3>2, <2>9, <2>1, <2>5, <2>6, <2>7, <1>2, <1>10 DEF Statements, Progress
  <2> QED
    BY <2>8, <2>9
<1> QED
  BY <1>2, <1>5, <1>6, <1>7, <1>8, <1>9, <1>10 DEF Statements

(* A call stores at most one event.                                        *)
LEMMA TheEvent ==
  ASSUME input \in Seq([raw : Raw, at : Time]), NEW c \in DOMAIN input
  PROVE  \A e \in EventsOf(input[c].raw, input[c].at) : e = EventOf(c, input)
<1>1. input[c] \in [raw : Raw, at : Time]
  BY Elements
<1> QED
  BY <1>1, EventRepositoryAssumption DEF EventOf, EventIn

(* A row of call c among rows of its own.                                  *)
LEMMA PutOwn ==
  ASSUME NEW T, DOMAIN T = TableNames, NEW c, NEW inp, Own(T, c, inp), NEW t \in TableNames,
         NEW key, NEW row, t \in {"raws", "events", "entries"} => row.by = c,
         t = "events" => EventIn(c, inp) # {} /\ key[1] = EventOf(c, inp),
         t = "entries" => /\ EventIn(c, inp) # {} /\ row.event = EventOf(c, inp)
                          /\ key[1][2] \in 1..EntryCount(inp[c].raw)
  PROVE  Own(Put(T, t, key, row), c, inp)
<1> DEFINE U == Put(T, t, key, row)
<1>1. /\ DOMAIN U[t] = DOMAIN T[t] \cup {key} /\ U[t][key] = row
      /\ \A x \in DOMAIN T[t] : x # key => U[t][x] = T[t][x]
      /\ \A u \in TableNames : u # t => U[u] = T[u]
  BY Puts
<1> HIDE DEF U
<1>2. \A u \in TableNames : \A k \in DOMAIN U[u] :
        (k \in DOMAIN T[u] /\ U[u][k] = T[u][k]) \/ (u = t /\ k = key /\ U[u][k] = row)
  BY <1>1
<1>3. ASSUME NEW u \in {"raws", "events", "entries"}, NEW k \in DOMAIN U[u] PROVE U[u][k].by = c
  BY <1>2, <1>3, Names DEF Own
<1>4. ASSUME NEW k \in DOMAIN U.events PROVE EventIn(c, inp) # {} /\ k[1] = EventOf(c, inp)
  BY <1>2, <1>4, Names DEF Own
<1>5. ASSUME NEW k \in DOMAIN U.entries
      PROVE  /\ EventIn(c, inp) # {} /\ U.entries[k].event = EventOf(c, inp)
             /\ k[1][2] \in 1..EntryCount(inp[c].raw)
  BY <1>2, <1>5, Names DEF Own
<1>6. Own(U, c, inp)
  BY <1>3, <1>4, <1>5 DEF Own
<1> QED
  BY <1>6 DEF U

(* An upsert of call c adds rows of c only.                                *)
LEMMA UpsertIsOwn ==
  ASSUME DOMAIN tx = Writer, input \in Seq([raw : Raw, at : Time]), NEW w \in Writer,
         Sound(tx[w], input), Agree(tx[w], db),
         NEW s \in Statement, s.kind \notin {"begin", "commit"}, Ready(tx[w], s, input),
         Upsert(w, s), Own(tx[w], s.call, input)
  PROVE  Own(tx'[w], s.call, input)
<1> DEFINE T == tx[w]
           U == tx'[w]
           c == s.call
<1> SUFFICES Own(U, c, input)
  OBVIOUS
<1>1. U = Put(T, Table(s.kind), Key(w, s), Row(w, s))
  BY DEF Upsert
<1>2. s.kind \in Statements /\ DOMAIN T = TableNames /\ Table(s.kind) \in TableNames
  BY Names DEF Ready, Sound, Statements, Table
<1>3. /\ Table(s.kind) \in {"raws", "events", "entries"} => Row(w, s).by = c
      /\ Table(s.kind) = "events" => s.kind = "event"
      /\ Table(s.kind) = "entries" => s.kind = "entry"
  BY <1>2 DEF Table, Row, RawRow, EventRow, EntryRow, Statements
<1>4. s.kind = "event" => EventIn(c, input) # {} /\ Key(w, s)[1] = EventOf(c, input)
  BY Reads DEF Ready, Progress, EventKeyed, Key
<1>5. ASSUME s.kind = "entry"
      PROVE  /\ EventIn(c, input) # {} /\ Row(w, s).event = EventOf(c, input)
             /\ Key(w, s)[1][2] \in 1..EntryCount(input[c].raw)
  <2> DEFINE x == <<EventOf(c, input), s.idx>>
  <2>1. /\ s.idx > 0 /\ s.idx <= EntryCount(input[c].raw) /\ s.idx \in Nat
        /\ EventIn(c, input) # {} /\ x \in DOMAIN T.entryKeys
    BY <1>5 DEF Ready, Progress, EventIsThere, EventKeyed
  <2>2. Key(w, s) = EntryId(T, x) /\ Row(w, s).event = EventOf(c, input)
    BY <1>5, <2>1, Reads DEF Key, Row, EntryRow
  <2>3. x = <<EventOf(T.entryKeys[x].id[1], input), T.entryKeys[x].id[2]>>
    BY <2>1 DEF Sound, SoundEntryKeys
  <2>4. Key(w, s)[1][2] = s.idx
    BY <2>2, <2>3 DEF EntryId
  <2>5. input[c] \in [raw : Raw, at : Time]
    BY Elements DEF Ready
  <2>6. EntryCount(input[c].raw) \in Nat
    BY <2>5, EventRepositoryAssumption
  <2> QED
    BY <2>1, <2>2, <2>4, <2>6
<1> HIDE DEF T, U, c
<1>6. Own(T, c, input)
  BY DEF T, c
<1> QED
  BY <1>1, <1>2, <1>3, <1>4, <1>5, <1>6, PutOwn

(* One more commit: its own version is the latest of all it has, and of    *)
(* what it has not the latest one stays the latest.                        *)
LEMMA LatestAfter ==
  ASSUME NEW S, NEW C \in Seq(S), NEW c \in S, NEW inp, NEW e, NEW i
  PROVE  /\ HasIn(c, e, i, inp) => LatestIn(c, e, i, inp, Append(C, c))
         /\ \A d : LatestIn(d, e, i, inp, C) /\ ~HasIn(c, e, i, inp) =>
              LatestIn(d, e, i, inp, Append(C, c))
<1> DEFINE A == Append(C, c)
           n == Len(C) + 1
<1>1. /\ DOMAIN A = 1..n /\ n \in Nat /\ n \in DOMAIN A /\ A[n] = c
      /\ DOMAIN C = 1..(n - 1) /\ \A m \in DOMAIN C : A[m] = C[m]
      /\ \A m \in DOMAIN A : m \in Nat /\ m <= n /\ (m \in DOMAIN C \/ m = n)
  OBVIOUS
<1> HIDE DEF A, n
<1>2. HasIn(c, e, i, inp) => LatestIn(c, e, i, inp, A)
  BY <1>1 DEF LatestIn
<1>3. ASSUME NEW d, LatestIn(d, e, i, inp, C), ~HasIn(c, e, i, inp)
      PROVE  LatestIn(d, e, i, inp, A)
  <2>1. PICK j \in DOMAIN C : /\ C[j] = d /\ HasIn(d, e, i, inp)
                              /\ \A m \in DOMAIN C : j < m => ~HasIn(C[m], e, i, inp)
    BY <1>3 DEF LatestIn
  <2>2. j \in DOMAIN A /\ A[j] = d
    BY <1>1, <2>1
  <2>3. \A m \in DOMAIN A : j < m => ~HasIn(A[m], e, i, inp)
    BY <1>1, <1>3, <2>1
  <2> QED
    BY <2>1, <2>2, <2>3 DEF LatestIn
<1> QED
  BY <1>2, <1>3 DEF A

(* A COMMIT replaces the row of its event and those of its entries, since  *)
(* the transaction holds them under the identities that are committed, and *)
(* leaves the other rows alone.                                            *)
LEMMA MergeIsLatest ==
  ASSUME NEW T, NEW D, NEW inp, Sound(T, inp), Sound(D, inp), Agree(T, D),
         NEW S, NEW C \in Seq(S), NEW c \in S, Latest(D, inp, C), Own(T, c, inp),
         EntryCount(inp[c].raw) \in Nat, \A e \in EventIn(c, inp) : e = EventOf(c, inp),
         EventIn(c, inp) # {} =>
           /\ EventIsThere(T, c, inp)
           /\ \A i \in 1..EntryCount(inp[c].raw) : EntryStored(T, c, i, inp)
  PROVE  Latest(Merge(T, D), inp, Append(C, c))
<1> DEFINE M == Merge(T, D)
           A == Append(C, c)
           count == EntryCount(inp[c].raw)
<1>1. \A t \in TableNames :
        /\ DOMAIN M[t] = DOMAIN T[t] \cup DOMAIN D[t]
        /\ \A k \in DOMAIN T[t] : M[t][k] = T[t][k]
        /\ \A k \in DOMAIN D[t] : k \notin DOMAIN T[t] => M[t][k] = D[t][k]
  BY Merged
<1>2. Extends(D, M) /\ Extends(T, M)
  BY MergeExtends
<1>3. \A e, i : /\ HasIn(c, e, i, inp) => LatestIn(c, e, i, inp, A)
                /\ \A d : LatestIn(d, e, i, inp, C) /\ ~HasIn(c, e, i, inp) =>
                     LatestIn(d, e, i, inp, A)
  BY LatestAfter
<1> HIDE DEF M, A
<1>4. ASSUME NEW k \in DOMAIN M.events
      PROVE  /\ LatestIn(M.events[k].by, k[1], 0, inp, A)
             /\ \A i \in 1..EntryCount(inp[M.events[k].by].raw) :
                  <<k[1], i>> \in DOMAIN M.entryKeys /\ EntryId(M, <<k[1], i>>) \in DOMAIN M.entries
  <2>1. ASSUME NEW U, Extends(U, M), NEW x, x \in DOMAIN U.entryKeys, EntryId(U, x) \in DOMAIN U.entries
        PROVE  x \in DOMAIN M.entryKeys /\ EntryId(M, x) \in DOMAIN M.entries
    BY <2>1, Names DEF Extends, EntryId
  <2>2. CASE k \in DOMAIN T.events
    <3>1. M.events[k].by = c /\ k[1] = EventOf(c, inp) /\ EventIn(c, inp) # {}
      BY <2>2, <1>1, Names DEF Own
    <3>2. HasIn(c, k[1], 0, inp)
      BY <3>1 DEF HasIn, EventOf
    <3>3. \A i \in 1..count :
            <<k[1], i>> \in DOMAIN T.entryKeys /\ EntryId(T, <<k[1], i>>) \in DOMAIN T.entries
      BY <3>1 DEF EntryStored
    <3> QED
      BY <1>2, <1>3, <2>1, <3>1, <3>2, <3>3
  <2>3. CASE k \notin DOMAIN T.events
    <3>1. k \in DOMAIN D.events /\ M.events[k] = D.events[k]
      BY <2>3, <1>1, Names
    <3>2. /\ LatestIn(M.events[k].by, k[1], 0, inp, C)
          /\ \A i \in 1..EntryCount(inp[M.events[k].by].raw) :
               <<k[1], i>> \in DOMAIN D.entryKeys /\ EntryId(D, <<k[1], i>>) \in DOMAIN D.entries
      BY <3>1 DEF Latest, LatestEvents
    <3>3. k[1] \notin EventIn(c, inp)
      <4> SUFFICES ASSUME k[1] \in EventIn(c, inp) PROVE FALSE
        OBVIOUS
      <4>1. k[1] = EventOf(c, inp) /\ EventIsThere(T, c, inp)
        OBVIOUS
      <4>2. k[1] \in DOMAIN T.eventKeys /\ EventRef(T, k[1]) \in DOMAIN T.events
        BY <4>1 DEF EventIsThere, EventKeyed
      <4>3. k = EventRef(D, k[1]) /\ k[1] \in DOMAIN D.eventKeys
        BY <3>1 DEF Sound, SoundEvents
      <4>4. EventRef(T, k[1]) = k
        BY <4>2, <4>3 DEF Agree, EventRef
      <4> QED
        BY <2>3, <4>2, <4>4
    <3> QED
      BY <1>2, <1>3, <2>1, <3>2, <3>3 DEF HasIn
  <2> QED
    BY <2>2, <2>3
<1>5. ASSUME NEW k \in DOMAIN M.entries
      PROVE  /\ k[1][2] \in Nat \ {0}
             /\ LatestIn(M.entries[k].by, M.entries[k].event, k[1][2], inp, A)
  <2>1. CASE k \in DOMAIN T.entries
    <3>1. /\ M.entries[k].by = c /\ M.entries[k].event = EventOf(c, inp) /\ EventIn(c, inp) # {}
          /\ k[1][2] \in 1..count
      BY <2>1, <1>1, Names DEF Own
    <3>2. HasIn(c, EventOf(c, inp), k[1][2], inp)
      BY <3>1 DEF HasIn, EventOf
    <3> QED
      BY <1>3, <3>1, <3>2
  <2>2. CASE k \notin DOMAIN T.entries
    <3>1. k \in DOMAIN D.entries /\ M.entries[k] = D.entries[k]
      BY <2>2, <1>1, Names
    <3>2. k[1][2] \in Nat \ {0} /\ LatestIn(M.entries[k].by, M.entries[k].event, k[1][2], inp, C)
      BY <3>1 DEF Latest, LatestEntries
    <3>3. ~HasIn(c, D.entries[k].event, k[1][2], inp)
      <4> SUFFICES ASSUME HasIn(c, D.entries[k].event, k[1][2], inp) PROVE FALSE
        OBVIOUS
      <4> DEFINE x == <<D.entries[k].event, k[1][2]>>
      <4>1. D.entries[k].event = EventOf(c, inp) /\ k[1][2] \in 1..count /\ EventIn(c, inp) # {}
        BY <3>2 DEF HasIn
      <4>2. x \in DOMAIN T.entryKeys /\ EntryId(T, x) \in DOMAIN T.entries
        BY <4>1 DEF EntryStored
      <4>3. x \in DOMAIN D.entryKeys /\ k = EntryId(D, x)
        BY <3>1 DEF Sound, SoundEntries
      <4> HIDE DEF x
      <4>4. EntryId(T, x) = k
        BY <4>2, <4>3 DEF Agree, EntryId
      <4> QED
        BY <2>2, <4>2, <4>4
    <3> QED
      BY <1>3, <3>1, <3>2, <3>3
  <2> QED
    BY <2>1, <2>2
<1> QED
  BY <1>4, <1>5 DEF Latest, LatestEvents, LatestEntries, M, A

(* A call that begins commits nothing.                                     *)
LEMMA LatestStays ==
  ASSUME NEW inp, NEW more, \A c \in DOMAIN inp : c \in DOMAIN more /\ more[c] = inp[c],
         NEW D, NEW C, \A n \in DOMAIN C : C[n] \in DOMAIN inp, Latest(D, inp, C)
  PROVE  Latest(D, more, C)
<1>1. \A c \in DOMAIN inp : \A e, i : HasIn(c, e, i, more) <=> HasIn(c, e, i, inp)
  BY DEF HasIn, EventIn
<1>2. ASSUME NEW c, NEW e, NEW i, LatestIn(c, e, i, inp, C)
      PROVE  LatestIn(c, e, i, more, C) /\ more[c] = inp[c]
  <2>1. PICK n \in DOMAIN C : /\ C[n] = c /\ HasIn(c, e, i, inp)
                              /\ \A m \in DOMAIN C : n < m => ~HasIn(C[m], e, i, inp)
    BY <1>2 DEF LatestIn
  <2>2. c \in DOMAIN inp /\ HasIn(c, e, i, more)
    BY <1>1, <2>1
  <2>3. \A m \in DOMAIN C : n < m => ~HasIn(C[m], e, i, more)
    BY <1>1, <2>1
  <2> QED
    BY <2>1, <2>2, <2>3 DEF LatestIn
<1>3. LatestEvents(D, more, C)
  <2> SUFFICES ASSUME NEW k \in DOMAIN D.events
               PROVE  /\ LatestIn(D.events[k].by, k[1], 0, more, C)
                      /\ more[D.events[k].by] = inp[D.events[k].by]
    BY DEF Latest, LatestEvents
  <2>1. LatestIn(D.events[k].by, k[1], 0, inp, C)
    BY DEF Latest, LatestEvents
  <2> QED
    BY <1>2, <2>1
<1>4. LatestEntries(D, more, C)
  BY <1>2 DEF Latest, LatestEntries
<1> QED
  BY <1>3, <1>4 DEF Latest

-----------------------------------------------------------------------------
(* Transactions that hold different locks do not disturb each other.       *)
LEMMA ApartAgrees ==
  ASSUME NEW T, NEW U, NEW D, Agree(T, D), Agree(U, D), Apart(U, T)
  PROVE  Agree(U, Merge(T, D))
<1> DEFINE M == Merge(T, D)
<1>1. \A t \in TableNames : \A k \in DOMAIN M[t] \cap DOMAIN U[t] :
        k \in DOMAIN D[t] /\ M[t][k] = D[t][k]
  BY Merged DEF Apart
<1> HIDE DEF M
<1>2. Agree(U, M)
  BY <1>1, Names DEF Agree
<1> QED
  BY <1>2 DEF M

LEMMA PutApart ==
  ASSUME NEW T, NEW U, DOMAIN T = TableNames, Apart(U, T), NEW t \in TableNames, NEW k, NEW row,
         k \notin DOMAIN U[t]
  PROVE  Apart(U, Put(T, t, k, row)) /\ Apart(Put(T, t, k, row), U)
<1> DEFINE V == Put(T, t, k, row)
<1>1. /\ DOMAIN V[t] = DOMAIN T[t] \cup {k}
      /\ \A u \in TableNames : u # t => V[u] = T[u]
  BY Puts
<1> HIDE DEF V
<1>2. Apart(U, V) /\ Apart(V, U)
  BY <1>1 DEF Apart
<1> QED
  BY <1>2 DEF V


-----------------------------------------------------------------------------
(* What is stored for a call stays stored.                                 *)
LEMMA HoldsStays ==
  ASSUME Extends(db, db'), NEW c, input'[c] = input[c], Holds(c)
  PROVE  Holds(c)'
BY Names DEF Holds, Extends

(* A COMMIT stores all a call stands for.                                  *)
LEMMA CommitStores ==
  ASSUME input \in Seq([raw : Raw, at : Time]), input' = input, NEW w \in Writer,
         Sound(tx[w], input), Agree(tx[w], db), NEW s, s.kind = "commit",
         Ready(tx[w], s, input), db' = Merge(tx[w], db)
  PROVE  Holds(s.call)'
<1> DEFINE M == Merge(tx[w], db)
           c == s.call
<1>1. /\ RawStored(tx[w], c, input)
      /\ EventIn(c, input) # {} =>
           /\ EventIsThere(tx[w], c, input)
           /\ \A i \in 1..EntryCount(input[c].raw) : EntryStored(tx[w], c, i, input)
  BY DEF Ready, Progress
<1>2. Extends(tx[w], M)
  BY MergeExtends
<1> HIDE DEF M, c
<1>3. /\ RawStored(M, c, input)
      /\ EventIn(c, input) # {} =>
           /\ EventIsThere(M, c, input)
           /\ \A i \in 1..EntryCount(input[c].raw) : EntryStored(M, c, i, input)
  BY <1>1, <1>2, StaysStored
<1>4. \A e \in EventsOf(input[c].raw, input[c].at) : e = EventOf(c, input) /\ EventIn(c, input) # {}
  BY TheEvent DEF c, Ready, EventIn
<1>5. db' = M
  BY DEF M
<1> QED
  BY <1>3, <1>4, <1>5 DEF c, Holds, RawStored, RawKeyed, RawId, EventIsThere, EventKeyed,
     EventRef, EntryStored, EntryId

(* What a statement that the server executes does to the tables.           *)
LEMMA RunEffect ==
  ASSUME Types, Tables, NEW w \in Writer, NEW s \in Statement, Ready(tx[w], s, input),
         Run(w, s), input' = input
  PROVE  /\ Extends(db, db') /\ Sound(db', input)
         /\ Sound(tx'[w], input) /\ Agree(tx'[w], db')
         /\ \A v \in Writer \ {w} :
              /\ tx'[v] = tx[v] /\ Agree(tx[v], db')
              /\ Apart(tx[v], tx'[w]) /\ Apart(tx'[w], tx[v])
         /\ s.kind = "begin" => tx' = tx
         /\ s.kind # "commit" =>
              /\ db' = db /\ committed' = committed
              /\ Ready(tx'[w], Following(s), input) /\ Following(s).kind # "begin"
              /\ Following(s).call = s.call
         /\ s.kind = "commit" =>
              /\ tx'[w] = NoRows /\ db' = Merge(tx[w], db)
              /\ committed' = Append(committed, s.call)
              /\ Holds(s.call)'
         /\ DOMAIN tx' = Writer /\ session' \in [Writer -> {"none", "open", "aborted"}]
         /\ committed' \in Seq(1..Len(input))
<1> USE DEF Types, Tables
<1>1. s.call \in 1..Len(input)
  BY Elements DEF Ready
<1>2. Extends(db, db)
  BY DEF Extends
<1>3. CASE s.kind = "begin"
  <2>1. UNCHANGED <<db, tx, committed>> /\ session' \in [Writer -> {"none", "open", "aborted"}]
    BY <1>3 DEF Run, Begin, Commit, Upsert
  <2>2. Following(s).kind = "rawKey" /\ Following(s).call = s.call /\ Following(s).idx = s.idx
    BY <1>3 DEF Following, Statement
  <2>3. Ready(tx[w], Following(s), input)
    BY <2>2, <1>3 DEF Ready, Statements, Progress
  <2> QED
    BY <1>2, <1>3, <2>1, <2>2, <2>3
<1>4. CASE s.kind = "commit"
  <2>1. /\ db' = Merge(tx[w], db) /\ tx' = [tx EXCEPT ![w] = NoRows]
        /\ session' = [session EXCEPT ![w] = "none"] /\ committed' = Append(committed, s.call)
    BY <1>4 DEF Run, Begin, Commit, Upsert, Discard
  <2>2. Extends(db, db') /\ Sound(db', input)
    BY <2>1, MergeExtends, MergeIsSound
  <2>3. Sound(tx'[w], input) /\ Agree(tx'[w], db')
    BY <2>1, NoRowsIsSound
  <2>4. ASSUME NEW v \in Writer \ {w}
        PROVE  /\ tx'[v] = tx[v] /\ Agree(tx[v], db')
               /\ Apart(tx[v], tx'[w]) /\ Apart(tx'[w], tx[v])
    <3>1. tx'[v] = tx[v] /\ tx'[w] = NoRows
      BY <2>1
    <3>2. Agree(tx[v], Merge(tx[w], db))
      <4>1. Apart(tx[v], tx[w]) /\ Agree(tx[v], db) /\ Agree(tx[w], db)
        OBVIOUS
      <4> QED
        BY <4>1, ApartAgrees
    <3> QED
      BY <3>1, <3>2, <2>1, NoRowsIsSound
  <2>5. Holds(s.call)'
    BY <1>4, <2>1, CommitStores
  <2> QED
    BY <1>1, <1>4, <2>1, <2>2, <2>3, <2>4, <2>5
<1>5. CASE s.kind \notin {"begin", "commit"}
  <2>1. /\ Upsert(w, s) /\ UNCHANGED <<db, session, committed>>
        /\ tx' = [tx EXCEPT ![w] = Put(@, Table(s.kind), Key(w, s), Row(w, s))]
    BY <1>5 DEF Run, Upsert
  <2>2. /\ Sound(tx'[w], input) /\ Agree(tx'[w], db)
        /\ Ready(tx'[w], Following(s), input) /\ Following(s).call = s.call
    BY <1>5, <2>1, UpsertAdvances
  <2>3. Following(s).kind # "begin"
    BY <1>5 DEF Following, Statement, Ready, Statements
  <2>4. ASSUME NEW v \in Writer \ {w}
        PROVE  tx'[v] = tx[v] /\ Apart(tx[v], tx'[w]) /\ Apart(tx'[w], tx[v])
    <3>1. tx'[v] = tx[v] /\ tx'[w] = Put(tx[w], Table(s.kind), Key(w, s), Row(w, s))
      BY <2>1
    <3>2. Key(w, s) \notin DOMAIN tx[v][Table(s.kind)]
      BY <2>1 DEF Upsert, Blocked, LockedByOther
    <3>3. Table(s.kind) \in TableNames
      BY <1>5 DEF Table, Ready, Statements, TableNames
    <3>4. Apart(tx[v], tx[w]) /\ DOMAIN tx[w] = TableNames
      BY DEF Sound
    <3> QED
      BY <3>1, <3>2, <3>3, <3>4, PutApart
  <2> QED
    BY <1>2, <1>5, <2>1, <2>2, <2>3, <2>4
<1> QED
  BY <1>3, <1>4, <1>5

(* ... and what it does to a database that holds whole transactions only.  *)
LEMMA RunIsClean ==
  ASSUME Types, Tables, NEW w \in Writer, NEW s \in Statement, Ready(tx[w], s, input),
         Run(w, s), input' = input,
         Own(tx[w], s.call, input), OnlyWholeTransactions, Latest(db, input, committed)
  PROVE  Own(tx'[w], s.call, input) /\ OnlyWholeTransactions' /\ Latest(db', input, committed')
<1> USE DEF Types, Tables
<1>1. CASE s.kind = "begin"
  <2>1. tx' = tx /\ db' = db /\ committed' = committed
    BY <1>1, RunEffect
  <2> QED
    BY <2>1 DEF OnlyWholeTransactions
<1>2. CASE s.kind = "commit"
  <2>1. /\ tx'[w] = NoRows /\ db' = Merge(tx[w], db) /\ committed' = Append(committed, s.call)
    BY <1>2, RunEffect
  <2>2. Latest(db', input, committed')
    <3>1. s.call \in DOMAIN input /\ DOMAIN input = 1..Len(input)
      BY Elements DEF Ready
    <3>2. EntryCount(input[s.call].raw) \in Nat
      <4>1. input[s.call] \in [raw : Raw, at : Time]
        BY <3>1, Elements
      <4> QED
        BY <4>1, EventRepositoryAssumption
    <3>3. \A e \in EventIn(s.call, input) : e = EventOf(s.call, input)
      BY <3>1, TheEvent DEF EventIn
    <3>4. EventIn(s.call, input) # {} =>
            /\ EventIsThere(tx[w], s.call, input)
            /\ \A i \in 1..EntryCount(input[s.call].raw) : EntryStored(tx[w], s.call, i, input)
      BY <1>2 DEF Ready, Progress
    <3>5. committed \in Seq(1..Len(input)) /\ s.call \in 1..Len(input)
      BY <3>1
    <3> QED
      BY <2>1, <3>2, <3>3, <3>4, <3>5, MergeIsLatest
  <2>3. OnlyWholeTransactions'
    <3>1. \A t \in {"raws", "events", "entries"} : \A k \in DOMAIN db'[t] :
            \/ k \in DOMAIN tx[w][t] /\ db'[t][k] = tx[w][t][k]
            \/ k \in DOMAIN db[t] /\ db'[t][k] = db[t][k]
      BY <2>1, Merged, Names
    <3>2. \A t \in {"raws", "events", "entries"} : \A k \in DOMAIN db'[t] :
            db'[t][k].by = s.call \/ \E n \in DOMAIN committed : committed[n] = db'[t][k].by
      <4> SUFFICES ASSUME NEW t \in {"raws", "events", "entries"}, NEW k \in DOMAIN db'[t]
                   PROVE  \/ db'[t][k].by = s.call
                          \/ \E n \in DOMAIN committed : committed[n] = db'[t][k].by
        OBVIOUS
      <4>1. CASE k \in DOMAIN tx[w][t] /\ db'[t][k] = tx[w][t][k]
        <5>1. tx[w][t][k].by = s.call
          BY <4>1 DEF Own
        <5> QED
          BY <4>1, <5>1
      <4>2. CASE k \in DOMAIN db[t] /\ db'[t][k] = db[t][k]
        BY <4>2 DEF OnlyWholeTransactions
      <4> QED
        BY <3>1, <4>1, <4>2
    <3>3. /\ \A n \in DOMAIN committed : n \in DOMAIN committed' /\ committed'[n] = committed[n]
          /\ Len(committed) + 1 \in DOMAIN committed' /\ committed'[Len(committed) + 1] = s.call
      BY <2>1
    <3>4. \A c : (c = s.call \/ \E n \in DOMAIN committed : committed[n] = c) =>
            \E n \in DOMAIN committed' : committed'[n] = c
      BY <3>3
    <3> QED
      BY <3>2, <3>4 DEF OnlyWholeTransactions
  <2>4. Own(tx'[w], s.call, input)
    BY <2>1, Nothing, Names DEF Own
  <2> QED
    BY <2>2, <2>3, <2>4
<1>3. CASE s.kind \notin {"begin", "commit"}
  <2>1. Upsert(w, s)
    BY <1>3 DEF Run
  <2>2. db' = db /\ committed' = committed
    BY <1>3, RunEffect
  <2> QED
    BY <1>3, <2>1, <2>2, UpsertIsOwn DEF OnlyWholeTransactions
<1> QED
  BY <1>1, <1>2, <1>3

-----------------------------------------------------------------------------
(* A step of one writer w that changes the tables as StepAt's hypotheses   *)
(* say keeps what the others rely on.                                      *)
OthersKeep(w) ==
  \A v \in Writer \ {w} :
    /\ tx'[v] = tx[v] /\ pc'[v] = pc[v] /\ idx'[v] = idx[v] /\ call'[v] = call[v]
    /\ late'[v] = late[v]

LEMMA StepAt ==
  ASSUME Tables, Sessions, NEW w \in Writer, OthersKeep(w), input' = input,
         Sound(db', input), Sound(tx'[w], input), Agree(tx'[w], db'),
         \A v \in Writer \ {w} :
           Agree(tx[v], db') /\ Apart(tx[v], tx'[w]) /\ Apart(tx'[w], tx[v]),
         UnderWay(tx'[w], pc'[w], call'[w], idx'[w], late'[w], input)
  PROVE  Tables' /\ Sessions'
<1>1. Sessions'
  BY DEF Sessions, OthersKeep
<1>2. \A v \in Writer : Sound(tx'[v], input) /\ Agree(tx'[v], db')
  BY DEF Tables, OthersKeep
<1>3. \A u, v \in Writer : u # v => Apart(tx'[u], tx'[v])
  BY DEF Tables, OthersKeep
<1> QED
  BY <1>1, <1>2, <1>3 DEF Tables

LEMMA CleanAt ==
  ASSUME Clean, NEW w \in Writer, OthersKeep(w), input' = input,
         CleanSession(tx'[w], pc'[w], call'[w], late'[w], input),
         OnlyWholeTransactions', Latest(db', input, committed')
  PROVE  Clean'
BY DEF Clean, OthersKeep

(* A transaction that ends without a COMMIT leaves nothing.                *)
LEMMA DiscardEffect ==
  ASSUME Types, Tables, NEW w \in Writer, Discard(w), db' = db
  PROVE  /\ DOMAIN tx' = Writer /\ tx'[w] = NoRows /\ \A v \in Writer \ {w} : tx'[v] = tx[v]
         /\ Sound(db', input) /\ Sound(tx'[w], input) /\ Agree(tx'[w], db')
         /\ \A v \in Writer \ {w} :
              Agree(tx[v], db') /\ Apart(tx[v], tx'[w]) /\ Apart(tx'[w], tx[v])
         /\ \A c : Own(tx'[w], c, input)
<1>1. tx' = [tx EXCEPT ![w] = NoRows] /\ DOMAIN tx = Writer
  BY DEF Discard, Types
<1>2. \A c : Own(NoRows, c, input)
  BY Nothing, Names DEF Own
<1> QED
  BY <1>1, <1>2, NoRowsIsSound DEF Tables

LEMMA StoredStays ==
  ASSUME Extends(db, db'), ResolvedIsStored, Len(outcome) = Len(input),
         input \in Seq([raw : Raw, at : Time]),
         outcome \in Seq({"open", "resolved", "rejected"}),
         outcome' \in Seq({"open", "resolved", "rejected"}),
         \A c \in 1..Len(input) : input'[c] = input[c],
         \A c \in 1..Len(outcome') : outcome'[c] = "resolved" =>
           c \in 1..Len(outcome) /\ (outcome[c] = "resolved" \/ Holds(c)')
  PROVE  ResolvedIsStored'
BY HoldsStays DEF ResolvedIsStored

(* The step that ends a call.                                              *)
LEMMA ReturnEffect ==
  ASSUME Types, NEW w \in Writer, pc[w] # "idle", Sessions, NEW result, Returns(w, result),
         result \in {"resolved", "rejected"}
  PROVE  /\ call[w] \in 1..Len(input)
         /\ pc'[w] = "idle" /\ \A v \in Writer \ {w} : pc'[v] = pc[v]
         /\ idx' = idx /\ pc' \in [Writer -> {"idle", "rollback"} \cup Statements]
         /\ outcome' \in Seq({"open", "resolved", "rejected"}) /\ Len(outcome') = Len(outcome)
         /\ \A c \in 1..Len(outcome') : outcome'[c] = IF c = call[w] THEN result ELSE outcome[c]
<1>1. call[w] \in 1..Len(input)
  BY Elements DEF Types, Sessions, UnderWay
<1>2. /\ pc' = [pc EXCEPT ![w] = "idle"] /\ idx' = idx
      /\ outcome' = [outcome EXCEPT ![call[w]] = result]
  BY DEF Returns
<1> QED
  BY <1>1, <1>2 DEF Types

-----------------------------------------------------------------------------
LEMMA Initially == Init => IInv
<1> SUFFICES ASSUME Init PROVE IInv
  OBVIOUS
<1>1. Types
  <2>1. input \in Seq([raw : Raw, at : Time]) /\ Len(input) = 0
    BY DEF Init
  <2>2. outcome \in Seq({"open", "resolved", "rejected"}) /\ Len(outcome) = 0
    BY DEF Init
  <2>3. NoStatement \in Statement
    BY DEF NoStatement, Statement
  <2>4. call \in [Writer -> 0..Len(input)] /\ idx \in [Writer -> Nat]
    BY <2>1 DEF Init
  <2>5. /\ DOMAIN tx = Writer /\ session \in [Writer -> {"none", "open", "aborted"}]
        /\ pc \in [Writer -> {"idle", "rollback"} \cup Statements]
        /\ late \in [Writer -> Statement]
    BY <2>3 DEF Init
  <2>6. committed \in Seq(1..Len(input)) /\ dirty = FALSE
    BY DEF Init
  <2> QED
    BY <2>1, <2>2, <2>4, <2>5, <2>6 DEF Types
<1>2. Tables
  BY NoRowsIsSound DEF Init, Tables
<1>3. Sessions
  BY DEF Init, Sessions, UnderWay, Statements
<1>4. Clean
  BY Nothing, Names DEF Init, Clean, CleanSession, Own, OnlyWholeTransactions, Latest,
     LatestEvents, LatestEntries
<1> QED
  BY <1>1, <1>2, <1>3, <1>4 DEF IInv, Init, ResolvedIsStored

LEMMA CallKeeps ==
  ASSUME IInv, NEW w \in Writer, NEW r \in Raw, NEW t \in Time, Call(w, r, t)
  PROVE  IInv'
<1> USE DEF IInv
<1>1. /\ input' = Append(input, [raw |-> r, at |-> t]) /\ outcome' = Append(outcome, "open")
      /\ call' = [call EXCEPT ![w] = Len(input')] /\ pc' = [pc EXCEPT ![w] = "begin"]
      /\ idx' = [idx EXCEPT ![w] = 0] /\ pc[w] = "idle"
      /\ UNCHANGED <<db, tx, session, late, committed, dirty>>
  BY DEF Call
<1>2. /\ input \in Seq([raw : Raw, at : Time]) /\ input' \in Seq([raw : Raw, at : Time])
      /\ Len(input') = Len(input) + 1 /\ DOMAIN input = 1..Len(input)
      /\ DOMAIN input' = 1..Len(input') /\ Len(input) \in Nat
      /\ \A c \in DOMAIN input : c \in DOMAIN input' /\ input'[c] = input[c]
  BY <1>1 DEF Types
<1>3. /\ outcome' \in Seq({"open", "resolved", "rejected"}) /\ Len(outcome') = Len(input')
      /\ \A c \in 1..Len(outcome') : outcome'[c] = "resolved" =>
           c \in 1..Len(outcome) /\ outcome[c] = "resolved"
  BY <1>1, <1>2 DEF Types
<1>4. Types'
  <2>1. /\ call' \in [Writer -> 0..Len(input')] /\ idx' \in [Writer -> Nat]
        /\ pc' \in [Writer -> {"idle", "rollback"} \cup Statements]
    BY <1>1, <1>2 DEF Types, Statements
  <2>2. committed' \in Seq(1..Len(input'))
    BY <1>1, <1>2 DEF Types
  <2> QED
    BY <1>1, <1>2, <1>3, <2>1, <2>2 DEF Types
<1>5. Tables'
  BY <1>1, <1>2, MoreCalls DEF Tables
<1>6. Sessions'
  <2> SUFFICES ASSUME NEW v \in Writer
               PROVE  UnderWay(tx'[v], pc'[v], call'[v], idx'[v], late'[v], input')
    BY DEF Sessions
  <2>1. UnderWay(tx[v], pc[v], call[v], idx[v], late[v], input)
    BY DEF Sessions
  <2>2. CASE v # w
    <3>1. UnderWay(tx[v], pc[v], call[v], idx[v], late[v], input')
      <4>1. \A s : Ready(tx[v], s, input) => Ready(tx[v], s, input')
        BY <1>2, MoreCalls
      <4> QED
        BY <2>1, <1>2, <4>1 DEF UnderWay
    <3> QED
      BY <2>2, <3>1, <1>1 DEF Types
  <2>3. CASE v = w
    <3>1. /\ pc'[w] = "begin" /\ call'[w] = Len(input') /\ idx'[w] = 0
          /\ tx'[w] = tx[w] /\ late'[w] = late[w]
      BY <1>1 DEF Types
    <3>2. Ready(tx[w], [kind |-> "begin", call |-> Len(input'), idx |-> 0], input')
      BY <1>2 DEF Ready, Statements, Progress
    <3>3. late[w] # NoStatement => Ready(tx[w], late[w], input')
      BY <2>1, <2>3, <1>2, MoreCalls DEF UnderWay
    <3> QED
      BY <2>3, <3>1, <3>2, <3>3, <1>2 DEF UnderWay
  <2> QED
    BY <2>2, <2>3
<1>7. ResolvedIsStored'
  BY <1>1, <1>2, <1>3, StoredStays DEF Types, Extends
<1>8. ASSUME ~dirty' PROVE Clean'
  <2>1. Clean
    BY <1>1, <1>8
  <2>2. OnlyWholeTransactions'
    BY <1>1, <2>1 DEF Clean, OnlyWholeTransactions
  <2>3. Latest(db', input', committed')
    <3>1. \A n \in DOMAIN committed : committed[n] \in DOMAIN input
      BY <1>2, Elements DEF Types
    <3> QED
      BY <1>1, <1>2, <2>1, <3>1, LatestStays DEF Clean
  <2>4. ASSUME NEW v \in Writer
        PROVE  CleanSession(tx'[v], pc'[v], call'[v], late'[v], input')
    <3>1. CleanSession(tx[v], pc[v], call[v], late[v], input)
      BY <2>1 DEF Clean
    <3>2. CASE v # w
      <4>1. pc'[v] = pc[v] /\ call'[v] = call[v] /\ tx'[v] = tx[v] /\ late'[v] = late[v]
        BY <3>2, <1>1 DEF Types
      <4>2. CASE call[v] \in DOMAIN input
        <5>1. Own(tx[v], call[v], input')
          BY <3>1, <4>2, <1>2, MoreCalls DEF CleanSession
        <5> QED
          BY <3>1, <4>1, <5>1 DEF CleanSession
      <4>3. CASE call[v] \notin DOMAIN input
        <5>1. pc[v] = "idle"
          BY <4>3 DEF Sessions, UnderWay
        <5>2. tx[v] = NoRows
          BY <3>1, <5>1 DEF CleanSession
        <5>3. Own(tx[v], call[v], input')
          BY <5>2, Nothing, Names DEF Own
        <5> QED
          BY <3>1, <4>1, <5>3 DEF CleanSession
      <4> QED
        BY <4>2, <4>3
    <3>3. CASE v = w
      <4>1. tx'[w] = NoRows /\ late'[w] = NoStatement
        BY <3>1, <3>3, <1>1 DEF CleanSession
      <4>2. Own(tx'[w], call'[w], input')
        BY <4>1, Nothing, Names DEF Own
      <4> QED
        BY <3>3, <4>1, <4>2 DEF CleanSession
    <3> QED
      BY <3>2, <3>3
  <2> QED
    BY <2>2, <2>3, <2>4 DEF Clean
<1> QED
  BY <1>4, <1>5, <1>6, <1>7, <1>8

LEMMA StatementKeeps ==
  ASSUME IInv, NEW w \in Writer, StatementSucceeds(w)
  PROVE  IInv'
<1> USE DEF IInv
<1> DEFINE s == Awaited(w)
           next == Following(s)
<1>1. /\ pc[w] \in Statements /\ pc[w] # "commit" /\ late[w] = NoStatement /\ Run(w, s)
      /\ pc' = [pc EXCEPT ![w] = next.kind] /\ idx' = [idx EXCEPT ![w] = next.idx]
      /\ UNCHANGED <<call, late, input, outcome, dirty>>
  BY DEF StatementSucceeds, Waiting, Answered, Types
<1>2. /\ s \in Statement /\ s.kind = pc[w] /\ s.call = call[w] /\ s.idx = idx[w]
      /\ s = [kind |-> pc[w], call |-> call[w], idx |-> idx[w]]
  BY <1>1 DEF Awaited, Statement, Types
<1>3. Ready(tx[w], s, input)
  BY <1>1, <1>2 DEF Sessions, UnderWay
<1>4. /\ db' = db /\ committed' = committed
      /\ Ready(tx'[w], next, input) /\ next.kind # "begin" /\ next.call = call[w]
      /\ Extends(db, db') /\ Sound(db', input)
      /\ Sound(tx'[w], input) /\ Agree(tx'[w], db')
      /\ \A v \in Writer \ {w} :
           /\ tx'[v] = tx[v] /\ Agree(tx[v], db')
           /\ Apart(tx[v], tx'[w]) /\ Apart(tx'[w], tx[v])
      /\ DOMAIN tx' = Writer /\ session' \in [Writer -> {"none", "open", "aborted"}]
  BY <1>1, <1>2, <1>3, RunEffect
<1> HIDE DEF s, next
<1>5. /\ next.kind \in Statements /\ next.idx \in Nat
      /\ pc'[w] = next.kind /\ idx'[w] = next.idx
  BY <1>1, <1>4 DEF Ready, Types
<1>6. OthersKeep(w)
  BY <1>1, <1>4 DEF OthersKeep, Types
<1>7. Types'
  BY <1>1, <1>4, <1>5 DEF Types
<1>8. UnderWay(tx'[w], pc'[w], call'[w], idx'[w], late'[w], input)
  <2>1. Ready(tx'[w], [kind |-> pc'[w], call |-> call'[w], idx |-> idx'[w]], input)
    BY <1>1, <1>4, <1>5 DEF Ready, Progress
  <2> QED
    BY <2>1, <1>1, <1>3, <1>2 DEF UnderWay, Ready
<1>9. Tables' /\ Sessions'
  BY <1>1, <1>4, <1>6, <1>8, StepAt
<1>10. ResolvedIsStored'
  BY <1>1, <1>4, Elements, StoredStays DEF Types, ResolvedIsStored
<1>11. ASSUME ~dirty' PROVE Clean'
  <2>1. Clean /\ CleanSession(tx[w], pc[w], call[w], late[w], input)
    BY <1>1, <1>11 DEF Clean
  <2>2. Own(tx'[w], call[w], input) /\ OnlyWholeTransactions' /\ Latest(db', input, committed')
    BY <1>1, <1>2, <1>3, <2>1, RunIsClean DEF Clean, CleanSession
  <2>3. CleanSession(tx'[w], pc'[w], call'[w], late'[w], input)
    BY <1>1, <1>4, <1>5, <2>2 DEF CleanSession, Statements
  <2> QED
    BY <1>1, <1>6, <2>1, <2>2, <2>3, CleanAt
<1> QED
  BY <1>7, <1>9, <1>10, <1>11

(* COMMIT executed, and acknowledged or not.                               *)
LEMMA CommitKeeps ==
  ASSUME IInv, NEW w \in Writer, CommitSucceeds(w) \/ CommitUnacknowledged(w)
  PROVE  IInv'
<1> USE DEF IInv
<1> DEFINE s == Awaited(w)
<1>1. /\ pc[w] = "commit" /\ late[w] = NoStatement /\ Run(w, s)
      /\ UNCHANGED <<call, late, input, dirty>>
  BY DEF CommitSucceeds, CommitUnacknowledged
<1>2. PICK result \in {"resolved", "rejected"} : Returns(w, result)
  BY DEF CommitSucceeds, CommitUnacknowledged
<1>3. /\ s \in Statement /\ s.kind = "commit" /\ s.call = call[w]
      /\ s = [kind |-> pc[w], call |-> call[w], idx |-> idx[w]]
  BY <1>1 DEF Awaited, Statement, Statements, Types
<1>4. Ready(tx[w], s, input)
  BY <1>1, <1>3 DEF Sessions, UnderWay, Statements
<1>5. /\ tx'[w] = NoRows /\ committed' = Append(committed, call[w]) /\ Holds(call[w])'
      /\ Extends(db, db') /\ Sound(db', input)
      /\ Sound(tx'[w], input) /\ Agree(tx'[w], db')
      /\ \A v \in Writer \ {w} :
           /\ tx'[v] = tx[v] /\ Agree(tx[v], db')
           /\ Apart(tx[v], tx'[w]) /\ Apart(tx'[w], tx[v])
      /\ DOMAIN tx' = Writer /\ session' \in [Writer -> {"none", "open", "aborted"}]
      /\ committed' \in Seq(1..Len(input))
  BY <1>1, <1>3, <1>4, RunEffect
<1> HIDE DEF s
<1>6. /\ pc'[w] = "idle" /\ \A v \in Writer \ {w} : pc'[v] = pc[v]
      /\ idx' = idx /\ pc' \in [Writer -> {"idle", "rollback"} \cup Statements]
      /\ outcome' \in Seq({"open", "resolved", "rejected"}) /\ Len(outcome') = Len(outcome)
      /\ \A c \in 1..Len(outcome') : outcome'[c] = IF c = call[w] THEN result ELSE outcome[c]
  BY <1>1, <1>2, ReturnEffect
<1>7. OthersKeep(w)
  BY <1>1, <1>5, <1>6 DEF OthersKeep
<1>8. Types'
  BY <1>1, <1>5, <1>6 DEF Types
<1>9. UnderWay(tx'[w], pc'[w], call'[w], idx'[w], late'[w], input)
  BY <1>1, <1>6 DEF UnderWay, Statements
<1>10. Tables' /\ Sessions'
  BY <1>1, <1>5, <1>7, <1>9, StepAt
<1>11. ResolvedIsStored'
  <2>1. \A c \in 1..Len(outcome') : outcome'[c] = "resolved" =>
          c \in 1..Len(outcome) /\ (outcome[c] = "resolved" \/ Holds(c)')
    BY <1>1, <1>5, <1>6
  <2> QED
    BY <1>1, <1>5, <1>6, <2>1, StoredStays DEF Types
<1>12. ASSUME ~dirty' PROVE Clean'
  <2>1. Clean /\ CleanSession(tx[w], pc[w], call[w], late[w], input)
    BY <1>1, <1>12 DEF Clean
  <2>2. Own(tx'[w], call[w], input) /\ OnlyWholeTransactions' /\ Latest(db', input, committed')
    BY <1>1, <1>3, <1>4, <2>1, RunIsClean DEF Clean, CleanSession
  <2>3. CleanSession(tx'[w], pc'[w], call'[w], late'[w], input)
    BY <1>1, <1>5, <1>6, <2>2 DEF CleanSession
  <2> QED
    BY <1>1, <1>7, <2>1, <2>2, <2>3, CleanAt
<1> QED
  BY <1>8, <1>10, <1>11, <1>12

(* Transactions that end without a COMMIT: a failed statement, a ROLLBACK, *)
(* a lost connection.                                                      *)
LEMMA EndsKeep ==
  ASSUME IInv, NEW w \in Writer,
         StatementFails(w) \/ RollbackSucceeds(w) \/ ConnectionLost(w)
  PROVE  IInv'
<1> USE DEF IInv
<1>1. /\ Discard(w) /\ UNCHANGED <<db, call, input, committed, dirty>> /\ late'[w] = NoStatement
      /\ late' \in [Writer -> Statement] /\ \A v \in Writer \ {w} : late'[v] = late[v]
      /\ session' \in [Writer -> {"none", "open", "aborted"}]
  <2>1. NoStatement \in Statement
    BY DEF NoStatement, Statement
  <2> QED
    BY <2>1 DEF StatementFails, RollbackSucceeds, ConnectionLost, Abort, RolledBack, Types
<1>2. /\ pc'[w] \in {"idle", "rollback"} /\ \A v \in Writer \ {w} : pc'[v] = pc[v]
      /\ pc' \in [Writer -> {"idle", "rollback"} \cup Statements]
      /\ idx' = idx /\ (pc'[w] # "idle" => call[w] \in DOMAIN input)
      /\ outcome' \in Seq({"open", "resolved", "rejected"}) /\ Len(outcome') = Len(outcome)
      /\ \A c \in 1..Len(outcome') : outcome'[c] = "resolved" => outcome[c] = "resolved"
  <2>1. CASE StatementFails(w)
    <3>1. pc' = [pc EXCEPT ![w] = "rollback"] /\ UNCHANGED <<idx, outcome>> /\ pc[w] # "idle"
      BY <2>1 DEF StatementFails, Waiting
    <3>2. call[w] \in DOMAIN input
      BY <3>1 DEF Sessions, UnderWay
    <3> QED
      BY <3>1, <3>2 DEF Types
  <2>2. CASE RollbackSucceeds(w) \/ ConnectionLost(w)
    <3>1. Returns(w, "rejected") /\ pc[w] # "idle"
      BY <2>2 DEF RollbackSucceeds, ConnectionLost
    <3> QED
      BY <3>1, ReturnEffect
  <2> QED
    BY <2>1, <2>2
<1>3. /\ DOMAIN tx' = Writer /\ tx'[w] = NoRows /\ \A v \in Writer \ {w} : tx'[v] = tx[v]
      /\ Sound(db', input) /\ Sound(tx'[w], input) /\ Agree(tx'[w], db')
      /\ \A v \in Writer \ {w} :
           Agree(tx[v], db') /\ Apart(tx[v], tx'[w]) /\ Apart(tx'[w], tx[v])
      /\ \A c : Own(tx'[w], c, input)
  BY <1>1, DiscardEffect
<1>4. OthersKeep(w)
  BY <1>1, <1>2, <1>3 DEF OthersKeep
<1>5. Types'
  BY <1>1, <1>2, <1>3 DEF Types
<1>6. UnderWay(tx'[w], pc'[w], call'[w], idx'[w], late'[w], input)
  BY <1>1, <1>2 DEF UnderWay, Statements
<1>7. Tables' /\ Sessions'
  BY <1>1, <1>3, <1>4, <1>6, StepAt
<1>8. ResolvedIsStored'
  BY <1>1, <1>2, StoredStays DEF Types, Extends
<1>9. ASSUME ~dirty' PROVE Clean'
  <2>1. Clean
    BY <1>1, <1>9
  <2>2. OnlyWholeTransactions' /\ Latest(db', input, committed')
    BY <1>1, <2>1 DEF Clean, OnlyWholeTransactions
  <2>3. CleanSession(tx'[w], pc'[w], call'[w], late'[w], input)
    BY <1>1, <1>3 DEF CleanSession
  <2> QED
    BY <1>1, <1>4, <2>1, <2>2, <2>3, CleanAt
<1> QED
  BY <1>5, <1>7, <1>8, <1>9

(* The client gives up: on a statement, or on its ROLLBACK, which leaves   *)
(* the connection dirty.                                                   *)
LEMMA TimeoutsKeep ==
  ASSUME IInv, NEW w \in Writer, StatementTimesOut(w) \/ RollbackTimesOut(w)
  PROVE  IInv'
<1> USE DEF IInv
<1>1. /\ UNCHANGED <<db, tx, session, call, input, committed>>
      /\ dirty' \in BOOLEAN /\ (~dirty' => StatementTimesOut(w) /\ ~dirty)
  BY DEF StatementTimesOut, RollbackTimesOut, Types
<1>2. /\ pc[w] # "idle" /\ call[w] \in DOMAIN input
      /\ UnderWay(tx[w], pc[w], call[w], idx[w], late[w], input)
  BY DEF StatementTimesOut, RollbackTimesOut, Waiting, Sessions, UnderWay
<1>3. /\ pc'[w] \in {"idle", "rollback"} /\ \A v \in Writer \ {w} : pc'[v] = pc[v]
      /\ pc' \in [Writer -> {"idle", "rollback"} \cup Statements] /\ idx' = idx
      /\ outcome' \in Seq({"open", "resolved", "rejected"}) /\ Len(outcome') = Len(outcome)
      /\ \A c \in 1..Len(outcome') : outcome'[c] = "resolved" => outcome[c] = "resolved"
  <2>1. CASE StatementTimesOut(w)
    BY <2>1 DEF StatementTimesOut, Types
  <2>2. CASE RollbackTimesOut(w)
    <3>1. Returns(w, "rejected")
      BY <2>2 DEF RollbackTimesOut
    <3> QED
      BY <1>2, <3>1, ReturnEffect
  <2> QED
    BY <2>1, <2>2
<1>4. /\ late' \in [Writer -> Statement] /\ \A v \in Writer \ {w} : late'[v] = late[v]
      /\ late'[w] # NoStatement => Ready(tx[w], late'[w], input)
      /\ ~dirty' => late'[w] # NoStatement /\ pc'[w] = "rollback" /\
                    (late'[w].call = call[w] \/ late'[w] = late[w])
  <2>1. CASE StatementTimesOut(w)
    <3>1. /\ pc[w] \in Statements /\ pc'[w] = "rollback"
          /\ late' = [late EXCEPT ![w] = IF late[w] = NoStatement THEN Awaited(w) ELSE late[w]]
      BY <2>1 DEF StatementTimesOut, Waiting, Types
    <3>2. Awaited(w) \in Statement /\ Awaited(w).call = call[w] /\ Awaited(w) # NoStatement
      BY <3>1 DEF Awaited, Statement, Statements, NoStatement, Types
    <3>3. Ready(tx[w], Awaited(w), input)
      BY <1>2, <3>1 DEF UnderWay, Awaited
    <3> QED
      BY <1>2, <3>1, <3>2, <3>3 DEF UnderWay, Types
  <2>2. CASE RollbackTimesOut(w)
    BY <1>2, <2>2 DEF RollbackTimesOut, UnderWay, Types
  <2> QED
    BY <2>1, <2>2
<1>5. OthersKeep(w)
  BY <1>1, <1>3, <1>4 DEF OthersKeep
<1>6. Types'
  BY <1>1, <1>3, <1>4 DEF Types
<1>7. UnderWay(tx'[w], pc'[w], call'[w], idx'[w], late'[w], input)
  BY <1>1, <1>2, <1>3, <1>4 DEF UnderWay, Statements
<1>8. Tables' /\ Sessions'
  BY <1>1, <1>5, <1>7, StepAt DEF Tables
<1>9. ResolvedIsStored'
  BY <1>1, <1>3, StoredStays DEF Types, Extends
<1>10. ASSUME ~dirty' PROVE Clean'
  <2>1. Clean /\ CleanSession(tx[w], pc[w], call[w], late[w], input)
    BY <1>1, <1>10 DEF Clean
  <2>2. OnlyWholeTransactions' /\ Latest(db', input, committed')
    BY <1>1, <2>1 DEF Clean, OnlyWholeTransactions
  <2>3. CleanSession(tx'[w], pc'[w], call'[w], late'[w], input)
    BY <1>1, <1>3, <1>4, <1>10, <2>1 DEF CleanSession
  <2> QED
    BY <1>1, <1>5, <2>1, <2>2, <2>3, CleanAt
<1> QED
  BY <1>6, <1>8, <1>9, <1>10

(* A statement nobody waits for any more runs, or fails.                   *)
LEMMA LateKeeps ==
  ASSUME IInv, NEW w \in Writer, LateStatementRuns(w)
  PROVE  IInv'
<1> USE DEF IInv
<1> DEFINE s == late[w]
<1>1. /\ s # NoStatement /\ late' = [late EXCEPT ![w] = NoStatement]
      /\ Run(w, s) \/ Abort(w)
      /\ UNCHANGED <<pc, idx, call, input, outcome, dirty>>
  BY DEF LateStatementRuns
<1>2. /\ s \in Statement /\ Ready(tx[w], s, input)
      /\ pc[w] \in {"idle", "rollback", "begin"}
      /\ UnderWay(tx[w], pc[w], call[w], idx[w], late[w], input)
  BY <1>1 DEF Sessions, UnderWay, Types
<1>3. /\ Extends(db, db') /\ Sound(db', input)
      /\ Sound(tx'[w], input) /\ Agree(tx'[w], db')
      /\ \A v \in Writer \ {w} :
           /\ tx'[v] = tx[v] /\ Agree(tx[v], db')
           /\ Apart(tx[v], tx'[w]) /\ Apart(tx'[w], tx[v])
      /\ DOMAIN tx' = Writer /\ session' \in [Writer -> {"none", "open", "aborted"}]
      /\ committed' \in Seq(1..Len(input))
  <2>1. CASE Run(w, s)
    BY <1>1, <1>2, <2>1, RunEffect
  <2>2. CASE Abort(w)
    <3>1. /\ Discard(w) /\ db' = db /\ committed' = committed
          /\ session' \in [Writer -> {"none", "open", "aborted"}]
      BY <2>2 DEF Abort, Types
    <3> QED
      BY <3>1, DiscardEffect DEF Types, Extends
  <2> QED
    BY <1>1, <2>1, <2>2
<1>4. late' \in [Writer -> Statement] /\ late'[w] = NoStatement
      /\ \A v \in Writer \ {w} : late'[v] = late[v]
  <2>1. NoStatement \in Statement
    BY DEF NoStatement, Statement
  <2> QED
    BY <1>1, <2>1 DEF Types
<1>5. OthersKeep(w)
  BY <1>1, <1>3, <1>4 DEF OthersKeep
<1>6. Types'
  BY <1>1, <1>3, <1>4 DEF Types
<1>7. UnderWay(tx'[w], pc'[w], call'[w], idx'[w], late'[w], input)
  <2>1. pc[w] = "begin" => Ready(tx'[w], [kind |-> pc[w], call |-> call[w], idx |-> idx[w]], input)
    BY <1>2 DEF UnderWay, Ready, Progress, Statements
  <2> QED
    BY <1>1, <1>2, <1>4, <2>1 DEF UnderWay, Statements
<1>8. Tables' /\ Sessions'
  BY <1>1, <1>3, <1>5, <1>7, StepAt
<1>9. ResolvedIsStored'
  BY <1>1, <1>3, StoredStays DEF Types
<1>10. ASSUME ~dirty' PROVE Clean'
  <2>1. Clean /\ CleanSession(tx[w], pc[w], call[w], late[w], input)
    BY <1>1, <1>10 DEF Clean
  <2>2. s.call = call[w] /\ Own(tx[w], s.call, input) /\ pc[w] = "rollback"
    BY <1>1, <1>2, <2>1 DEF CleanSession
  <2>3. Own(tx'[w], call[w], input) /\ OnlyWholeTransactions' /\ Latest(db', input, committed')
    <3>1. CASE Run(w, s)
      BY <1>1, <1>2, <2>1, <2>2, <3>1, RunIsClean DEF Clean
    <3>2. CASE Abort(w)
      <4>1. Discard(w) /\ db' = db /\ committed' = committed
        BY <3>2 DEF Abort
      <4> QED
        BY <4>1, <2>1, DiscardEffect DEF Clean, OnlyWholeTransactions
    <3> QED
      BY <1>1, <3>1, <3>2
  <2>4. CleanSession(tx'[w], pc'[w], call'[w], late'[w], input)
    BY <1>1, <1>4, <2>2, <2>3 DEF CleanSession
  <2> QED
    BY <1>1, <1>5, <2>1, <2>3, <2>4, CleanAt
<1> QED
  BY <1>6, <1>8, <1>9, <1>10

LEMMA Preserved == IInv /\ [Next]_vars => IInv'
<1> SUFFICES ASSUME IInv, [Next]_vars PROVE IInv'
  OBVIOUS
<1>1. ASSUME NEW w \in Writer, Step(w) PROVE IInv'
  BY <1>1, CallKeeps, StatementKeeps, CommitKeeps, EndsKeep, TimeoutsKeep, LateKeeps DEF Step
<1>2. CASE UNCHANGED vars
  BY <1>2 DEF vars, IInv, Types, Tables, Sessions, Clean, ResolvedIsStored, Holds,
              OnlyWholeTransactions
<1> QED
  BY <1>1, <1>2 DEF Next

LEMMA Invariant == Spec => []IInv
BY Initially, Preserved, PTL DEF Spec

-----------------------------------------------------------------------------
(* Every variable of the transactions keeps its type.                      *)
THEOREM TypeCorrect == Spec => []TypeOK
<1>1. IInv => TypeOK
  BY DEF IInv, Types, Tables, Sound, TypeOK, Statement
<1> QED
  BY Invariant, <1>1, PTL

(* Unless a connection went back to the pool dirty, every row in the       *)
(* database is from a call whose own COMMIT was executed                   *)
(* (ingestRawEvent(), rollbackQuietly()).                                  *)
THEOREM Atomicity == Spec => []WholeUnlessDirty
<1>1. IInv => WholeUnlessDirty
  BY DEF IInv, Clean, WholeUnlessDirty
<1> QED
  BY Invariant, <1>1, PTL

(* What ingestRawEvent() acknowledged is in the database under its         *)
(* identities, with every entry.                                           *)
THEOREM Durability == Spec => []ResolvedIsStored
<1>1. IInv => ResolvedIsStored
  BY DEF IInv
<1> QED
  BY Invariant, <1>1, PTL

(* One row per raw event, event and entry, each referring to rows that     *)
(* exist, although the tables' primary keys would allow several.           *)
THEOREM Identity == Spec => []OneRowPerIdentity
<1>1. IInv => OneRowPerIdentity
  <2> SUFFICES ASSUME Sound(db, input) PROVE OneRowPerIdentity
    BY DEF IInv, Tables
  <2>1. \A j, k \in DOMAIN db.events : j[1] = k[1] => j = k
    BY DEF Sound, SoundEvents, EventRef
  <2>2. \A j, k \in DOMAIN db.raws : KeyOf(db.raws[j].raw) = KeyOf(db.raws[k].raw) => j = k
    BY DEF Sound, SoundRaws
  <2> QED
    BY <2>1, <2>2 DEF Sound, SoundEvents, SoundEntries, OneRowPerIdentity
<1> QED
  BY Invariant, <1>1, PTL

(* Whatever the writers and the order of their commits: the row of an      *)
(* event and that of each entry are of the last committed version that had *)
(* it, and the event has every entry of its version (ingestRawEvent()).    *)
THEOREM InTurn == Spec => []LatestVersionOfEach
<1>1. \A c, e, i : HasIn(c, e, i, input) <=> Has(c, e, i)
  BY DEF HasIn, Has, EventIn
<1>2. \A c, e, i : LatestIn(c, e, i, input, committed) <=> IsLatest(c, e, i)
  BY <1>1 DEF LatestIn, IsLatest
<1>3. IInv => LatestVersionOfEach
  BY <1>2 DEF IInv, Clean, Latest, LatestEvents, LatestEntries, EntryId, LatestVersionOfEach
<1> QED
  BY Invariant, <1>3, PTL

(* An identity, once committed, is never changed nor removed by a retry, a *)
(* replay or another writer (the on-conflict clauses of the key tables).   *)
THEOREM Stability == Spec => IdentitiesAreStable
<1> DEFINE Stable ==
      /\ \A k \in DOMAIN db.rawKeys : k \in DOMAIN db'.rawKeys /\ db'.rawKeys[k] = db.rawKeys[k]
      /\ \A k \in DOMAIN db.eventKeys :
           k \in DOMAIN db'.eventKeys /\ db'.eventKeys[k].at = db.eventKeys[k].at
      /\ \A k \in DOMAIN db.entryKeys :
           k \in DOMAIN db'.entryKeys /\ db'.entryKeys[k] = db.entryKeys[k]
<1>1. ASSUME IInv, Next PROVE Stable
  <2>1. Extends(db, db') => Stable
    BY Names DEF Extends
  <2>2. db' = db => Stable
    OBVIOUS
  <2> HIDE DEF Stable
  <2> SUFFICES ASSUME NEW w \in Writer, Step(w) PROVE Stable
    BY <1>1 DEF Next
  <2>3. ASSUME NEW s \in Statement, Ready(tx[w], s, input), Run(w, s), input' = input PROVE Stable
    BY <1>1, <2>1, <2>3, RunEffect DEF IInv
  <2>4. CASE StatementSucceeds(w) \/ CommitSucceeds(w) \/ CommitUnacknowledged(w)
    <3>1. pc[w] \in Statements /\ Run(w, Awaited(w)) /\ input' = input
      BY <1>1, <2>4 DEF StatementSucceeds, CommitSucceeds, CommitUnacknowledged, Waiting, IInv,
                        Types, Statements
    <3>2. Awaited(w) \in Statement /\ Ready(tx[w], Awaited(w), input)
      BY <1>1, <3>1 DEF Awaited, Statement, IInv, Types, Sessions, UnderWay
    <3> QED
      BY <2>3, <3>1, <3>2
  <2>5. CASE LateStatementRuns(w)
    <3>1. /\ Run(w, late[w]) \/ Abort(w)
          /\ late[w] \in Statement /\ Ready(tx[w], late[w], input) /\ input' = input
      BY <1>1, <2>5 DEF LateStatementRuns, IInv, Types, Sessions, UnderWay
    <3> QED
      BY <2>2, <2>3, <3>1 DEF Abort
  <2>6. CASE \/ \E r \in Raw, t \in Time : Call(w, r, t)
             \/ StatementFails(w) \/ StatementTimesOut(w) \/ RollbackSucceeds(w)
             \/ RollbackTimesOut(w) \/ ConnectionLost(w)
    BY <2>2, <2>6 DEF Call, StatementFails, Abort, StatementTimesOut, RollbackSucceeds,
                      RollbackTimesOut, ConnectionLost
  <2> QED
    BY <2>4, <2>5, <2>6 DEF Step
<1>2. IInv /\ [Next]_vars => [Stable]_vars
  BY <1>1 DEF vars
<1> QED
  BY Invariant, <1>2, PTL DEF Spec, IdentitiesAreStable

-----------------------------------------------------------------------------
(* MarketData *)

Source == [kind : {"entry", "score"}, market : Named \cup {ScoreMarket(c) : c \in Range(Scored)},
           at : Nat]
LabelRow == [status : {"pending", "missing_base_price", "missing_future_price", "ready", "error"},
             base : Int, future : Int]

MarketTypes ==
  /\ clock \in Nat
  /\ sources \in Seq(Source)
  /\ \A t \in ticks : t.at \in Nat
  /\ \A l \in DOMAIN labels :
       /\ l \in (DOMAIN sources) \X Horizons
       /\ labels[l] \in LabelRow

(* The base time of a row is that of its event or snapshot until a base    *)
(* tick is found, and then that of this tick for good: being a tick        *)
(* itself, it is the latest one at or before it in every further try.      *)
BaseIsFound(l) ==
  /\ labels[l].base \in (AtOf(l) - Skew)..AtOf(l)
  /\ labels[l].base \in At(sources[l[1]].market)
FutureIsFound(l) ==
  /\ labels[l].future \in TargetOf(l)..(TargetOf(l) + Skew)
  /\ labels[l].future \in At(sources[l[1]].market)
RowInv(l) ==
  /\ labels[l].base = AtOf(l) \/ BaseIsFound(l)
  /\ labels[l].status = "ready" => BaseIsFound(l) /\ FutureIsFound(l)

LabelInv == MarketTypes /\ \A l \in DOMAIN labels : RowInv(l)

-----------------------------------------------------------------------------
(* Sets of integers that are bounded have a least or a greatest element.   *)
LEMMA MinIsLeast ==
  ASSUME NEW low \in Int, NEW S, S \subseteq Int, S # {}, \A x \in S : low <= x
  PROVE  Min(S) \in S /\ \A y \in S : Min(S) <= y
<1> DEFINE T == {x - low : x \in S}
<1>1. T \subseteq Nat
  <2>1. \A x \in S : x - low \in Nat
    OBVIOUS
  <2> QED
    BY <2>1
<1>2. T # {}
  OBVIOUS
<1>3. PICK t \in T : \A y \in T : t <= y
  BY <1>1, <1>2, LeastNumber
<1>4. PICK x \in S : t = x - low
  OBVIOUS
<1>5. ASSUME NEW y \in S PROVE x <= y
  <2>1. y - low \in T
    OBVIOUS
  <2>2. x - low <= y - low
    BY <1>3, <1>4, <2>1
  <2> QED
    BY <2>2
<1> QED
  BY <1>5 DEF Min

LEMMA MaxIsGreatest ==
  ASSUME NEW high \in Int, NEW S, S \subseteq Int, S # {}, \A x \in S : x <= high
  PROVE  Max(S) \in S /\ \A y \in S : y <= Max(S)
<1> DEFINE T == {high - x : x \in S}
<1>1. T \subseteq Nat
  <2>1. \A x \in S : high - x \in Nat
    OBVIOUS
  <2> QED
    BY <2>1
<1>2. T # {}
  OBVIOUS
<1>3. PICK t \in T : \A y \in T : t <= y
  BY <1>1, <1>2, LeastNumber
<1>4. PICK x \in S : t = high - x
  OBVIOUS
<1>5. ASSUME NEW y \in S PROVE y <= x
  <2>1. high - y \in T
    OBVIOUS
  <2>2. high - x <= high - y
    BY <1>3, <1>4, <2>1
  <2> QED
    BY <2>2
<1> QED
  BY <1>5 DEF Max

LEMMA PlacesOf ==
  ASSUME NEW S, NEW q \in Seq(S)
  PROVE  DOMAIN q = 1..Len(q) /\ \A n \in DOMAIN q : q[n] \in S
OBVIOUS

LEMMA Numbers ==
  /\ Skew \in Nat /\ CoinTtl \in Nat /\ Late \in Nat /\ Horizons \subseteq Nat
BY MarketDataAssumption

-----------------------------------------------------------------------------
(* Labelled(): one try of one row.                                         *)
LEMMA LabelledRow ==
  ASSUME LabelInv, NEW l \in DOMAIN labels
  PROVE  /\ Labelled(l) \in LabelRow
         /\ BaseIsFound(l) => Labelled(l).base = labels[l].base
         /\ \/ Labelled(l).base = AtOf(l)
            \/ /\ Labelled(l).base \in (AtOf(l) - Skew)..AtOf(l)
               /\ Labelled(l).base \in At(sources[l[1]].market)
         /\ Labelled(l).status = "ready" =>
              /\ Labelled(l).base \in (AtOf(l) - Skew)..AtOf(l)
              /\ Labelled(l).base \in At(sources[l[1]].market)
              /\ Labelled(l).future \in TargetOf(l)..(TargetOf(l) + Skew)
              /\ Labelled(l).future \in At(sources[l[1]].market)
<1> DEFINE m == sources[l[1]].market
           base == AtOrBefore(m, labels[l].base)
           future == AtOrAfter(m, TargetOf(l))
<1>1. /\ labels[l] \in LabelRow /\ labels[l].base \in Int
      /\ AtOf(l) \in Nat /\ TargetOf(l) \in Nat /\ TargetOf(l) \in Int /\ RowInv(l)
  <2>1. l[1] \in DOMAIN sources /\ l[2] \in Nat /\ sources[l[1]] \in Source
    BY Numbers, PlacesOf DEF LabelInv, MarketTypes
  <2>2. sources[l[1]].at \in Nat /\ labels[l] \in LabelRow /\ RowInv(l)
    BY <2>1 DEF LabelInv, MarketTypes, Source
  <2> QED
    BY <2>1, <2>2 DEF LabelRow, AtOf, TargetOf
<1>2. At(m) \subseteq Nat
  BY DEF LabelInv, MarketTypes, At
<1>3. /\ base \subseteq At(m) /\ base \subseteq Int
      /\ \A t \in base : t <= labels[l].base /\ t >= labels[l].base - Skew
  BY <1>2 DEF AtOrBefore
<1>4. /\ future \subseteq At(m) /\ future \subseteq Int
      /\ \A t \in future : TargetOf(l) <= t /\ t <= TargetOf(l) + Skew
  BY <1>2 DEF AtOrAfter
<1> HIDE DEF base, future, m
<1>9. BaseIsFound(l) => base # {} /\ Max(base) = labels[l].base
  <2> SUFFICES ASSUME BaseIsFound(l) PROVE base # {} /\ Max(base) = labels[l].base
    OBVIOUS
  <2>1. labels[l].base \in base
    BY <1>1, Numbers DEF BaseIsFound, base, m, AtOrBefore
  <2>2. Max(base) \in base /\ \A y \in base : y <= Max(base)
    BY <1>1, <1>3, <2>1, MaxIsGreatest
  <2> QED
    <3>1. labels[l].base \in Int /\ Max(base) \in Int
      BY <1>1, <1>3, <2>2
    <3>2. labels[l].base <= Max(base) /\ Max(base) <= labels[l].base
      BY <1>3, <2>1, <2>2
    <3> QED
      BY <2>1, <3>1, <3>2
<1>5. ASSUME base # {}
      PROVE  Max(base) \in At(m) /\ Max(base) \in (AtOf(l) - Skew)..AtOf(l)
  <2>1. Max(base) \in base /\ \A y \in base : y <= Max(base)
    BY <1>1, <1>3, <1>5, MaxIsGreatest
  <2>2. CASE labels[l].base = AtOf(l)
    <3>1. /\ Max(base) \in Int /\ Max(base) <= labels[l].base
          /\ Max(base) >= labels[l].base - Skew /\ Max(base) \in At(m)
      BY <1>3, <2>1
    <3> QED
      BY <1>1, <2>2, <3>1, Numbers
  <2>3. CASE BaseIsFound(l)
    <3>1. labels[l].base \in At(m) /\ labels[l].base \in (AtOf(l) - Skew)..AtOf(l)
      BY <2>3 DEF BaseIsFound, m
    <3> QED
      BY <1>9, <2>3, <3>1
  <2> QED
    BY <1>1, <2>2, <2>3 DEF RowInv
<1>6. ASSUME future # {}
      PROVE  Min(future) \in At(m) /\ Min(future) \in TargetOf(l)..(TargetOf(l) + Skew)
  <2>1. Min(future) \in future
    BY <1>1, <1>4, <1>6, MinIsLeast
  <2> QED
    <3>1. /\ Min(future) \in Int /\ TargetOf(l) <= Min(future)
          /\ Min(future) <= TargetOf(l) + Skew /\ Min(future) \in At(m)
      BY <1>4, <2>1
    <3> QED
      BY <1>1, <3>1, Numbers
<1>7. Labelled(l) =
        [status |-> IF base = {} THEN "missing_base_price"
                    ELSE IF future = {} THEN "missing_future_price" ELSE "ready",
         base |-> IF base = {} THEN labels[l].base ELSE Max(base),
         future |-> IF future = {} THEN NoTick ELSE Min(future)]
  BY DEF Labelled, base, future, m
<1>8. Labelled(l) \in LabelRow
  BY <1>1, <1>2, <1>5, <1>6, <1>7 DEF LabelRow, NoTick
<1> QED
  BY <1>1, <1>5, <1>6, <1>7, <1>8, <1>9 DEF m, RowInv

(* Ticks and sources are only added.                                       *)
LEMMA RowKept ==
  ASSUME LabelInv, NEW l \in DOMAIN labels, l \in DOMAIN labels', labels'[l] = labels[l],
         ticks \subseteq ticks', \A i \in DOMAIN sources : sources'[i] = sources[i]
  PROVE  RowInv(l)'
<1>1. l[1] \in DOMAIN sources
  BY DEF LabelInv, MarketTypes
<1>2. sources'[l[1]] = sources[l[1]]
  BY <1>1
<1>3. \A m : At(m) \subseteq At(m)'
  BY DEF At
<1> QED
  BY <1>2, <1>3 DEF LabelInv, RowInv, BaseIsFound, FutureIsFound, AtOf, TargetOf

LEMMA FirstLabels == MarketInit => LabelInv
BY DEF MarketInit, LabelInv, MarketTypes

(* An entry or a snapshot is stored.                                       *)
LEMMA SourceAdded ==
  ASSUME LabelInv, NEW s \in Source, sources' = Append(sources, s), UNCHANGED <<clock, ticks, labels>>
  PROVE  LabelInv'
<1>1. /\ sources' \in Seq(Source) /\ DOMAIN sources \subseteq DOMAIN sources'
      /\ \A i \in DOMAIN sources : sources'[i] = sources[i]
  BY DEF LabelInv, MarketTypes
<1>2. MarketTypes'
  BY <1>1 DEF LabelInv, MarketTypes
<1> QED
  BY <1>1, <1>2, RowKept DEF LabelInv

LEMMA LabelsPreserved == LabelInv /\ [MarketNext]_marketVars => LabelInv'
<1> SUFFICES ASSUME LabelInv, [MarketNext]_marketVars PROVE LabelInv'
  OBVIOUS
<1>1. ASSUME ticks \subseteq ticks', \A t \in ticks' : t.at \in Nat, clock' \in Nat,
             sources' = sources, labels' = labels
      PROVE  LabelInv'
  BY <1>1, RowKept DEF LabelInv, MarketTypes
<1>2. CASE Tick \/ CollectFires \/ Resolved \/ DueRead
  <2>1. UNCHANGED <<ticks, sources, labels>> /\ (clock' = clock \/ clock' = clock + 1)
    BY <1>2 DEF Tick, CollectFires, Resolved, DueRead
  <2>2. clock' \in Nat
    BY <2>1 DEF LabelInv, MarketTypes
  <2> QED
    BY <1>1, <2>1, <2>2 DEF LabelInv, MarketTypes
<1>3. ASSUME NEW m \in Named, EventStored(m) PROVE LabelInv'
  <2>1. [kind |-> "entry", market |-> m, at |-> clock] \in Source
    BY DEF LabelInv, MarketTypes, Source
  <2> QED
    BY <1>3, <2>1, SourceAdded DEF EventStored
<1>4. ASSUME NEW c \in Range(Scored), SnapshotStored(c) PROVE LabelInv'
  <2>1. [kind |-> "score", market |-> ScoreMarket(c), at |-> clock] \in Source
    BY DEF LabelInv, MarketTypes, Source
  <2> QED
    BY <1>4, <2>1, SourceAdded DEF SnapshotStored
<1>5. CASE Fetched
  <2>1. \A age \in 0..Late : age <= clock => clock - age \in Nat
    BY Numbers DEF LabelInv, MarketTypes
  <2>2. ticks \subseteq ticks' /\ \A t \in ticks' : t.at \in Nat
    BY <1>5, <2>1 DEF Fetched, LabelInv, MarketTypes
  <2> QED
    BY <1>1, <1>5, <2>2 DEF Fetched, LabelInv, MarketTypes
<1>6. CASE LabelFires
  <2>1. PICK S \in SUBSET (DOMAIN sources) : labels' = Seeded(S)
    BY <1>6 DEF LabelFires, Newest, OfKind
  <2>2. UNCHANGED <<clock, sources, ticks>>
    BY <1>6 DEF LabelFires
  <2>3. /\ DOMAIN labels' = (S \X Horizons) \cup DOMAIN labels
        /\ \A l \in DOMAIN labels : labels'[l] = labels[l]
        /\ \A l \in DOMAIN labels' : l \notin DOMAIN labels =>
             /\ l \in (DOMAIN sources) \X Horizons
             /\ labels'[l] = [status |-> "pending", base |-> sources[l[1]].at, future |-> NoTick]
    BY <2>1 DEF Seeded, Pending
  <2>4. ASSUME NEW l \in (DOMAIN sources) \X Horizons PROVE sources[l[1]].at \in Nat
    <3>1. l[1] \in DOMAIN sources /\ sources \in Seq(Source)
      BY DEF LabelInv, MarketTypes
    <3>2. sources[l[1]] \in Source
      BY <3>1, PlacesOf
    <3> QED
      BY <3>2 DEF Source
  <2>5. ASSUME NEW l \in DOMAIN labels', l \notin DOMAIN labels
        PROVE  /\ l \in (DOMAIN sources) \X Horizons /\ labels'[l] \in LabelRow
               /\ labels'[l].base = sources[l[1]].at /\ labels'[l].status = "pending"
    <3> DEFINE base == sources[l[1]].at
    <3>1. l \in (DOMAIN sources) \X Horizons
      BY <2>3, <2>5
    <3>2. labels'[l] = [status |-> "pending", base |-> base, future |-> NoTick]
      BY <2>3, <2>5
    <3>3. base \in Nat /\ base \in Int /\ NoTick \in Int
      BY <2>4, <3>1 DEF NoTick
    <3> HIDE DEF base
    <3>4. /\ labels'[l].base = base /\ labels'[l].status = "pending"
          /\ labels'[l] \in LabelRow
      BY <3>2, <3>3 DEF LabelRow
    <3> QED
      BY <3>1, <3>4 DEF base
  <2>6. MarketTypes'
    BY <2>2, <2>3, <2>5 DEF LabelInv, MarketTypes
  <2>7. ASSUME NEW l \in DOMAIN labels' PROVE RowInv(l)'
    <3>1. CASE l \in DOMAIN labels
      BY <2>2, <2>3, <3>1, RowKept
    <3>2. CASE l \notin DOMAIN labels
      <4>1. labels'[l].base = sources[l[1]].at /\ labels'[l].status = "pending"
        BY <2>5, <3>2
      <4> QED
        BY <2>2, <4>1 DEF RowInv, AtOf
    <3> QED
      BY <3>1, <3>2
  <2> QED
    BY <2>6, <2>7 DEF LabelInv
<1>7. CASE RowLabelled
  <2> DEFINE r == Head(labeller.due)
  <2>1. labels' = [labels EXCEPT ![r] = Labelled(r)] /\ UNCHANGED <<clock, sources, ticks>>
    BY <1>7 DEF RowLabelled
  <2>2. /\ DOMAIN labels' = DOMAIN labels
        /\ \A l \in DOMAIN labels : labels'[l] = IF l = r THEN Labelled(r) ELSE labels[l]
    BY <2>1
  <2>3. MarketTypes'
    BY <2>1, <2>2, LabelledRow DEF LabelInv, MarketTypes
  <2>4. ASSUME NEW l \in DOMAIN labels' PROVE RowInv(l)'
    <3>1. CASE l # r
      BY <2>1, <2>2, <3>1, RowKept
    <3>2. CASE l = r
      BY <2>1, <2>2, <3>2, LabelledRow DEF RowInv, BaseIsFound, FutureIsFound, AtOf, TargetOf, At
    <3> QED
      BY <3>1, <3>2
  <2> QED
    BY <2>3, <2>4 DEF LabelInv
<1>8. CASE RowFails
  <2>1. UNCHANGED <<clock, sources, ticks>>
    BY <1>8 DEF RowFails
  <2> DEFINE r == Head(labeller.due)
  <2>2. CASE labels' = labels
    BY <1>1, <2>1, <2>2 DEF LabelInv, MarketTypes
  <2>3. CASE labels' = [labels EXCEPT ![r].status = "error", ![r].future = NoTick]
    <3>1. /\ DOMAIN labels' = DOMAIN labels
          /\ \A l \in DOMAIN labels : l # r => labels'[l] = labels[l]
          /\ r \in DOMAIN labels =>
               labels'[r] = [status |-> "error", base |-> labels[r].base, future |-> NoTick]
      BY <2>3 DEF LabelInv, MarketTypes, LabelRow
    <3>2. MarketTypes'
      BY <2>1, <3>1 DEF LabelInv, MarketTypes, LabelRow, NoTick
    <3>3. ASSUME NEW l \in DOMAIN labels' PROVE RowInv(l)'
      <4>1. CASE l # r
        BY <2>1, <3>1, <4>1, RowKept
      <4>2. CASE l = r
        <5>1. labels'[l].base = labels[l].base /\ labels'[l].status = "error"
          BY <3>1, <4>2
        <5> QED
          BY <2>1, <3>1, <4>2, <5>1 DEF LabelInv, RowInv, BaseIsFound, AtOf, At
      <4> QED
        BY <4>1, <4>2
    <3> QED
      BY <3>2, <3>3 DEF LabelInv
  <2> QED
    BY <1>8, <2>2, <2>3 DEF RowFails
<1>9. CASE UNCHANGED marketVars
  BY <1>1, <1>9 DEF marketVars, LabelInv, MarketTypes
<1>10. CASE LabelFires \/ RowLabelled \/ RowFails \/ Fetched
  BY <1>5, <1>6, <1>7, <1>8, <1>10
<1> QED
  BY <1>2, <1>3, <1>4, <1>9, <1>10 DEF MarketNext

LEMMA LabelInvariant == MarketSpec => []LabelInv
BY FirstLabels, LabelsPreserved, PTL DEF MarketSpec

-----------------------------------------------------------------------------
(* However often the labeller tries a row, its return is between a tick at *)
(* most Skew before its event and one at most Skew after its target.       *)
THEOREM HorizonSpanned == MarketSpec => []ReturnSpansTheHorizon
<1>1. LabelInv => ReturnSpansTheHorizon
  BY DEF LabelInv, RowInv, BaseIsFound, FutureIsFound, ReturnSpansTheHorizon
<1> QED
  BY LabelInvariant, <1>1, PTL

(* The base time from which a try looks backwards is replaced by the time  *)
(* of the tick it finds, computeDueForwardReturns(): whatever ticks come   *)
(* later and whatever fails, a base once found is the base for good.       *)
BaseStays ==
  [][\A l \in DOMAIN labels : BaseIsFound(l) => labels'[l].base = labels[l].base]_marketVars

THEOREM BasesStay == MarketSpec => BaseStays
<1>1. ASSUME LabelInv, [MarketNext]_marketVars, NEW l \in DOMAIN labels, BaseIsFound(l)
      PROVE  labels'[l].base = labels[l].base
  <2>1. CASE UNCHANGED labels
    BY <2>1
  <2>2. CASE LabelFires
    BY <2>2 DEF LabelFires, Seeded
  <2>3. CASE RowLabelled
    <3>1. labels'[l] = labels[l] \/ labels'[l] = Labelled(l)
      BY <2>3 DEF RowLabelled
    <3> QED
      BY <1>1, <3>1, LabelledRow
  <2>4. CASE RowFails
    <3> DEFINE r == Head(labeller.due)
    <3>1. \/ labels' = labels
          \/ labels' = [labels EXCEPT ![r].status = "error", ![r].future = NoTick]
      BY <2>4 DEF RowFails
    <3>2. labels[l] \in LabelRow
      BY <1>1 DEF LabelInv, MarketTypes
    <3> QED
      BY <3>1, <3>2 DEF LabelRow
  <2> QED
    BY <1>1, <2>1, <2>2, <2>3, <2>4 DEF MarketNext, marketVars, Tick, EventStored, SnapshotStored, CollectFires,
         Resolved, Fetched, DueRead
<1>2. LabelInv /\ [MarketNext]_marketVars =>
        [\A l \in DOMAIN labels : BaseIsFound(l) => labels'[l].base = labels[l].base]_marketVars
  BY <1>1
<1> QED
  BY LabelInvariant, <1>2, PTL DEF MarketSpec, BaseStays

-----------------------------------------------------------------------------
(* indexOf() finds an element of a list where it is first.                 *)
LEMMA FirstPlace ==
  ASSUME NEW S, NEW list \in Seq(S), NEW x \in Range(list)
  PROVE  /\ IndexOf(list, x) \in DOMAIN list /\ IndexOf(list, x) \in Int
         /\ list[IndexOf(list, x)] = x
         /\ \A i \in DOMAIN list : list[i] = x => IndexOf(list, x) <= i
<1> DEFINE places == {i \in DOMAIN list : list[i] = x}
<1>1. DOMAIN list = 1..Len(list) /\ Len(list) \in Nat
  OBVIOUS
<1>2. places \subseteq Int /\ places # {} /\ \A i \in places : 0 <= i
  BY <1>1 DEF Range
<1> HIDE DEF places
<1>3. Min(places) \in places /\ \A i \in places : Min(places) <= i
  <2>1. 0 \in Int
    OBVIOUS
  <2> QED
    BY <1>2, <2>1, MinIsLeast
<1> QED
  BY <1>1, <1>3 DEF IndexOf, places

(* A list of everything once keeps the order of the first places.          *)
LEMMA DistinctList ==
  ASSUME NEW S, NEW list \in Seq(S), NEW once, once = Distinct(list)
  PROVE  /\ once \in Seq(Range(list)) /\ DOMAIN once = 1..Len(once)
         /\ \A x \in Range(list) : \E i \in DOMAIN once : once[i] = x
         /\ \A i, j \in DOMAIN once :
              /\ once[i] = once[j] => i = j
              /\ i <= j => IndexOf(list, once[i]) <= IndexOf(list, once[j])
<1> DEFINE key == [x \in Range(list) |-> <<IndexOf(list, x)>>]
<1>1. \A x \in Range(list) : IndexOf(list, x) \in Int
  BY FirstPlace
<1>2. HasKeys(key, Range(list)) /\ IsFiniteSet(Range(list))
  BY <1>1, FiniteRange DEF HasKeys
<1>3. once = SortedBy(key)
  BY DEF Distinct
<1>4. \A x \in Range(list) : key[x] = <<IndexOf(list, x)>>
  OBVIOUS
<1> HIDE DEF key
<1>5. /\ once \in Seq(Range(list)) /\ DOMAIN once = 1..Len(once)
      /\ \A i \in DOMAIN once : once[i] \in Range(list)
      /\ \A x \in Range(list) : \E i \in DOMAIN once : once[i] = x
      /\ \A i, j \in DOMAIN once :
           /\ once[i] = once[j] => i = j
           /\ i < j => ~Lower(key[once[j]], key[once[i]])
  BY <1>2, <1>3, SortedList
<1>6. ASSUME NEW i \in DOMAIN once, NEW j \in DOMAIN once, i <= j
      PROVE  IndexOf(list, once[i]) <= IndexOf(list, once[j])
  <2>1. i = j \/ i < j
    BY <1>5, <1>6
  <2>2. IndexOf(list, once[i]) \in Int /\ IndexOf(list, once[j]) \in Int
    BY <1>1, <1>5
  <2>3. ASSUME i < j PROVE ~Lower(<<IndexOf(list, once[j])>>, <<IndexOf(list, once[i])>>)
    BY <1>4, <1>5, <2>3
  <2> QED
    BY <2>1, <2>2, <2>3, LowerOne
<1> QED
  BY <1>5, <1>6

-----------------------------------------------------------------------------
(* The coins in memory come first, the last seen before the others.        *)
LEMMA MemoryFirst ==
  ASSUME NEW seen \in [Coins -> Nat \cup {Never}], NEW memory \in MemoryCoins(seen),
         NEW rest \in Seq(Coins), NEW all, all = memory \o rest,
         NEW c \in Coins, seen[c] # Never
  PROVE  /\ all \in Seq(Coins) /\ c \in Range(all)
         /\ \A x \in Range(all) : IndexOf(all, x) <= IndexOf(all, c) => seen[x] >= seen[c]
<1> DEFINE known == {d \in Coins : seen[d] # Never}
           n == Cardinality(known)
<1>1. memory \in Bijection(1..n, known) /\ LatestFirst(seen, memory)
  BY DEF MemoryCoins
<1>2. n \in Nat
  <2>1. IsFiniteSet(Coins) /\ known \subseteq Coins
    BY MarketDataAssumption
  <2> HIDE DEF known
  <2> QED
    BY <2>1, FS_Subset, FS_CardinalityType
<1>3. c \in known /\ known \subseteq Coins /\ \A d \in known : seen[d] \in Nat
  BY DEF Never
<1> HIDE DEF known, n
<1>4. memory \in [1..n -> known]
  BY <1>1 DEF Bijection, Injection
<1>5. memory \in Seq(Coins) /\ Len(memory) = n
  BY <1>2, <1>3, <1>4
<1>6. /\ all \in Seq(Coins) /\ \A i \in 1..n : i \in DOMAIN all /\ all[i] = memory[i]
      /\ DOMAIN all = 1..Len(all) /\ Len(all) \in Nat
  BY <1>2, <1>5
<1>7. PICK k \in 1..n : memory[k] = c
  BY <1>1, <1>3 DEF Bijection, Surjection
<1>8. c \in Range(all)
  BY <1>6, <1>7 DEF Range
<1>9. IndexOf(all, c) \in 1..n
  <2>1. IndexOf(all, c) \in DOMAIN all /\ IndexOf(all, c) <= k
    BY <1>6, <1>7, <1>8, FirstPlace
  <2> QED
    BY <1>2, <1>6, <2>1
<1>10. ASSUME NEW x \in Range(all), IndexOf(all, x) <= IndexOf(all, c)
       PROVE  seen[x] >= seen[c]
  <2> DEFINE i == IndexOf(all, x)
             j == IndexOf(all, c)
  <2>1. i \in DOMAIN all /\ all[i] = x /\ all[j] = c
    BY <1>6, <1>8, FirstPlace
  <2>2. i \in 1..n /\ j \in 1..n /\ (i < j \/ i = j)
    BY <1>2, <1>6, <1>9, <1>10, <2>1
  <2> HIDE DEF i, j
  <2>3. memory[i] = x /\ memory[j] = c
    BY <1>6, <2>1, <2>2
  <2>4. i < j => seen[x] >= seen[c]
    BY <1>1, <1>4, <2>2, <2>3 DEF LatestFirst
  <2> QED
    BY <1>3, <2>1, <2>2, <2>3, <2>4
<1> QED
  BY <1>6, <1>8, <1>10

(* resolveActiveCoins() and buildPriceTargets(), whatever the queries for  *)
(* coins with scores and entries return.                                   *)
LEMMA LeftOut ==
  ASSUME NEW seen \in [Coins -> Nat \cup {Never}], NEW memory \in MemoryCoins(seen),
         NEW scored \in Seq(Coins), NEW recent \in Seq(Coins),
         NEW chosen, chosen = Range(Targets(ActiveCoins(memory, scored, recent))),
         NEW m \in Range(Listed) \ chosen, seen[CoinOf(m)] # Never
  PROVE  \/ /\ Cardinality(chosen) = MaxTargets
            /\ \A t \in chosen : seen[CoinOf(t)] >= seen[CoinOf(m)]
         \/ Cardinality({d \in Coins \ {CoinOf(m)} : seen[d] >= seen[CoinOf(m)]}) >= MaxTargets
<1> DEFINE c == CoinOf(m)
           all == memory \o (scored \o recent)
           once == Distinct(all)
           coins == FirstOf(once, MaxTargets)
           lately == {d \in Coins \ {c} : seen[d] >= seen[c]}
<1>1. /\ MaxTargets \in Nat /\ c \in Coins /\ \A t \in Range(Listed) : CoinOf(t) \in Coins
      /\ scored \o recent \in Seq(Coins)
  BY MarketDataAssumption
<1>2. /\ all \in Seq(Coins) /\ c \in Range(all)
      /\ \A x \in Range(all) : IndexOf(all, x) <= IndexOf(all, c) => seen[x] >= seen[c]
  BY <1>1, MemoryFirst
<1>3. chosen = Range(Targets(coins))
  BY DEF ActiveCoins
<1> HIDE DEF all
<1>4. /\ once \in Seq(Range(all)) /\ DOMAIN once = 1..Len(once)
      /\ \A x \in Range(all) : \E i \in DOMAIN once : once[i] = x
      /\ \A i, j \in DOMAIN once :
           /\ once[i] = once[j] => i = j
           /\ i <= j => IndexOf(all, once[i]) <= IndexOf(all, once[j])
  BY <1>2, DistinctList
<1>5. Range(all) \subseteq Coins
  BY <1>2, FiniteRange
<1> HIDE DEF once, c
<1>6. CASE c \notin Range(coins)
  <2>1. PICK k \in DOMAIN once : once[k] = c
    BY <1>2, <1>4
  <2>2. /\ Cardinality(Range(coins)) = MaxTargets
        /\ \A x \in Range(coins) : \E i \in DOMAIN once : i < k /\ once[i] = x
    <3> HIDE DEF coins
    <3>1. coins = FirstOf(once, MaxTargets)
      BY DEF coins
    <3>2. \A i, j \in DOMAIN once : once[i] = once[j] => i = j
      BY <1>4
    <3>3. once[k] \notin Range(coins) /\ MaxTargets \in Nat /\ once \in Seq(Range(all))
      BY <1>1, <1>4, <1>6, <2>1
    <3> QED
      BY <2>1, <3>1, <3>2, <3>3, BeginningFirst
  <2> HIDE DEF coins
  <2>3. ASSUME NEW x \in Range(coins) PROVE x \in lately
    <3>1. PICK i \in DOMAIN once : i < k /\ once[i] = x
      BY <2>2
    <3>2. i <= k /\ x \in Range(all)
      BY <1>4, <3>1
    <3>3. seen[x] >= seen[c]
      BY <1>2, <1>4, <2>1, <3>1, <3>2
    <3> QED
      BY <1>5, <1>6, <3>2, <3>3
  <2>4. IsFiniteSet(lately)
    <3>1. IsFiniteSet(Coins) /\ lately \subseteq Coins
      BY MarketDataAssumption
    <3> HIDE DEF lately
    <3> QED
      BY <3>1, FS_Subset
  <2>5. Cardinality(lately) >= MaxTargets
    <3>1. Range(coins) \subseteq lately
      BY <2>3
    <3> HIDE DEF lately
    <3> QED
      BY <1>1, <2>2, <2>4, <3>1, FS_Subset, FS_CardinalityType
  <2> QED
    BY <2>5 DEF c
<1>7. CASE c \in Range(coins)
  <2> DEFINE markets == {t \in Range(Listed) : CoinOf(t) \in Range(coins)}
             key == [t \in markets |-> <<IndexOf(coins, CoinOf(t)), IndexOf(Listed, t)>>]
             list == SortedBy(key)
  <2>1. /\ coins \in Seq(Range(all))
        /\ \A i \in DOMAIN coins : i \in DOMAIN once /\ coins[i] = once[i]
    BY <1>1, <1>4, FirstOfList
  <2>2. chosen = Range(FirstOf(list, MaxTargets))
    BY <1>3 DEF Targets
  <2> HIDE DEF coins
  <2>3. \A x \in Range(coins) : /\ IndexOf(coins, x) \in Int
                                /\ IndexOf(coins, x) \in DOMAIN coins
                                /\ coins[IndexOf(coins, x)] = x
    BY <2>1, FirstPlace
  <2>4. Listed \in Seq(Range(Listed))
    BY MarketDataAssumption
  <2>5. \A t \in Range(Listed) : IndexOf(Listed, t) \in Int
    BY <2>4, FirstPlace
  <2>6. IsFiniteSet(markets)
    <3>1. IsFiniteSet(Range(Listed)) /\ markets \subseteq Range(Listed)
      BY <2>4, FiniteRange
    <3> HIDE DEF markets
    <3> QED
      BY <3>1, FS_Subset
  <2>7. HasKeys(key, markets)
    BY <2>3, <2>5 DEF HasKeys
  <2>8. /\ m \in markets
        /\ \A t \in markets : /\ CoinOf(t) \in Range(coins)
                              /\ key[t] = <<IndexOf(coins, CoinOf(t)), IndexOf(Listed, t)>>
    BY <1>7 DEF c
  <2> HIDE DEF markets, key
  <2>9. /\ list \in Seq(markets)
        /\ \A i \in DOMAIN list : list[i] \in markets
        /\ \A x \in markets : \E i \in DOMAIN list : list[i] = x
        /\ \A i, j \in DOMAIN list :
             /\ list[i] = list[j] => i = j
             /\ i < j => ~Lower(key[list[j]], key[list[i]])
    BY <2>6, <2>7, SortedList
  <2> HIDE DEF list
  <2>10. PICK k \in DOMAIN list : list[k] = m
    BY <2>8, <2>9
  <2>11. /\ Cardinality(chosen) = MaxTargets
         /\ \A t \in chosen : \E i \in DOMAIN list : i < k /\ list[i] = t
    <3>1. \A i, j \in DOMAIN list : list[i] = list[j] => i = j
      BY <2>9
    <3> QED
      BY <1>1, <2>2, <2>9, <2>10, <3>1, BeginningFirst
  <2>12. ASSUME NEW t \in chosen PROVE seen[CoinOf(t)] >= seen[c]
    <3>1. PICK i \in DOMAIN list : i < k /\ list[i] = t
      BY <2>11
    <3>2. t \in markets /\ ~Lower(key[m], key[t])
      BY <2>9, <2>10, <3>1
    <3> DEFINE p == IndexOf(coins, CoinOf(t))
               q == IndexOf(coins, c)
    <3>3. ~Lower(<<q, IndexOf(Listed, m)>>, <<p, IndexOf(Listed, t)>>)
      BY <2>8, <3>2 DEF c
    <3>4. /\ p \in Int /\ q \in Int /\ p \in DOMAIN once /\ q \in DOMAIN once
          /\ once[p] = CoinOf(t) /\ once[q] = c
      BY <1>7, <2>1, <2>3, <2>8, <3>2
    <3> HIDE DEF p, q
    <3>5. p <= q
      BY <3>3, <3>4, LowerTwo
    <3>6. CoinOf(t) \in Range(all) /\ IndexOf(all, CoinOf(t)) <= IndexOf(all, c)
      BY <1>4, <3>4, <3>5
    <3> QED
      BY <1>2, <3>6
  <2> QED
    BY <2>11, <2>12 DEF c
<1> QED
  BY <1>6, <1>7

-----------------------------------------------------------------------------
(* When a coin was seen is some instant up to now, and a collection that   *)
(* has read its memory has it in order.                                    *)
CollectorInv ==
  /\ MarketTypes
  /\ \A i \in DOMAIN sources : sources[i].at <= clock
  /\ activeCoins \in [Coins -> Nat \cup {Never}]
  /\ collector.phase = "resolving" =>
       /\ collector.seen \in [Coins -> Nat \cup {Never}]
       /\ collector.memory \in MemoryCoins(collector.seen)

LEMMA FirstCollector == MarketInit => CollectorInv
BY DEF MarketInit, CollectorInv, MarketTypes, IdleCollector, Never

LEMMA CollectorPreserved == CollectorInv /\ LabelInv' /\ [MarketNext]_marketVars => CollectorInv'
<1> SUFFICES ASSUME CollectorInv, LabelInv', [MarketNext]_marketVars PROVE CollectorInv'
  OBVIOUS
<1>1. MarketTypes'
  BY DEF LabelInv
<1>2. \A seen \in [Coins -> Nat \cup {Never}] : Pruned(seen) \in [Coins -> Nat \cup {Never}]
  BY DEF Pruned
<1>3. ASSUME UNCHANGED <<sources, clock>> PROVE \A i \in DOMAIN sources' : sources'[i].at <= clock'
  BY <1>3 DEF CollectorInv
<1>4. CASE Tick
  <2>1. \A i \in DOMAIN sources : sources[i].at <= clock + 1
    <3>1. ASSUME NEW i \in DOMAIN sources PROVE sources[i].at <= clock + 1
      <4>1. sources[i] \in Source /\ sources[i].at <= clock /\ clock \in Nat
        BY PlacesOf DEF CollectorInv, MarketTypes
      <4>2. sources[i].at \in Nat
        BY <4>1 DEF Source
      <4> QED
        BY <4>1, <4>2
    <3> QED
      BY <3>1
  <2> QED
    BY <1>1, <1>4, <2>1 DEF Tick, CollectorInv, MemoryCoins, LatestFirst
<1>5. ASSUME NEW s \in Source, s.at = clock, sources' = Append(sources, s), clock' = clock
      PROVE  \A i \in DOMAIN sources' : sources'[i].at <= clock'
  <2>1. clock \in Nat /\ sources \in Seq(Source)
    BY DEF CollectorInv, MarketTypes
  <2>2. \A i \in DOMAIN sources' : (i \in DOMAIN sources /\ sources'[i] = sources[i]) \/ sources'[i] = s
    BY <1>5, <2>1
  <2> QED
    BY <1>5, <2>1, <2>2 DEF CollectorInv
<1>6. ASSUME NEW m \in Named, EventStored(m) PROVE CollectorInv'
  <2>1. [kind |-> "entry", market |-> m, at |-> clock] \in Source /\ clock \in Nat
    BY DEF CollectorInv, MarketTypes, Source
  <2>2. [activeCoins EXCEPT ![CoinOf(m)] = clock] \in [Coins -> Nat \cup {Never}]
    BY <2>1 DEF CollectorInv
  <2>3. activeCoins' \in [Coins -> Nat \cup {Never}]
    BY <1>2, <1>6, <2>2 DEF EventStored
  <2>4. \A i \in DOMAIN sources' : sources'[i].at <= clock'
    BY <1>5, <1>6, <2>1 DEF EventStored
  <2> QED
    BY <1>1, <1>6, <2>3, <2>4 DEF EventStored, CollectorInv, MemoryCoins, LatestFirst
<1>7. ASSUME NEW c \in Range(Scored), SnapshotStored(c) PROVE CollectorInv'
  <2>1. [kind |-> "score", market |-> ScoreMarket(c), at |-> clock] \in Source
    BY DEF CollectorInv, MarketTypes, Source
  <2>2. \A i \in DOMAIN sources' : sources'[i].at <= clock'
    BY <1>5, <1>7, <2>1 DEF SnapshotStored
  <2> QED
    BY <1>1, <1>7, <2>2 DEF SnapshotStored, CollectorInv, MemoryCoins, LatestFirst
<1>8. CASE CollectFires
  <2> DEFINE seen == Pruned(activeCoins)
  <2>1. seen \in [Coins -> Nat \cup {Never}]
    BY <1>2 DEF CollectorInv
  <2> HIDE DEF seen
  <2>2. activeCoins' = seen /\ UNCHANGED <<sources, clock>>
    BY <1>8 DEF CollectFires, seen
  <2>3. PICK list \in MemoryCoins(seen) :
          collector' = [IdleCollector EXCEPT !.phase = "resolving", !.since = clock - CoinTtl,
                                             !.seen = seen, !.memory = list]
    BY <1>8 DEF CollectFires, seen
  <2>4. collector'.seen = seen /\ collector'.memory = list
    BY <2>3 DEF IdleCollector
  <2>5. MemoryCoins(seen) = MemoryCoins(collector'.seen)
    BY <2>4
  <2> QED
    BY <1>1, <1>3, <2>1, <2>2, <2>4, <2>5 DEF CollectorInv
<1>9. ASSUME collector'.phase # "resolving", UNCHANGED <<sources, clock, activeCoins>>
      PROVE  CollectorInv'
  BY <1>1, <1>3, <1>9 DEF CollectorInv
<1>10. \A targets : Fetching(targets).phase # "resolving"
  BY DEF Fetching, IdleCollector
<1>11. CASE Resolved \/ Fetched
  <2>1. UNCHANGED <<sources, clock, activeCoins>> /\ \E targets : collector' = Fetching(targets)
    BY <1>11 DEF Resolved, Fetched
  <2> QED
    BY <1>9, <1>10, <2>1
<1>12. CASE UNCHANGED <<sources, clock, activeCoins, collector>>
  BY <1>1, <1>3, <1>12 DEF CollectorInv, MemoryCoins, LatestFirst
<1> QED
  BY <1>4, <1>6, <1>7, <1>8, <1>11, <1>12
     DEF MarketNext, marketVars, LabelFires, DueRead, RowLabelled, RowFails

(* getRecentlyActiveCoins() returns coins.                                 *)
LEMMA RecentAreCoins ==
  ASSUME CollectorInv, NEW since
  PROVE  RecentCoins(since) \in Seq(Coins)
<1> DEFINE stored == {d \in Coins : EntriesOf(d, since) # {}}
           times(c) == {sources[i].at : i \in EntriesOf(c, since)}
           key == [c \in stored |-> <<-Max(times(c)), -Cardinality(EntriesOf(c, since))>>]
<1>1. IsFiniteSet(stored) /\ stored \subseteq Coins
  <2>1. IsFiniteSet(Coins) /\ stored \subseteq Coins
    BY MarketDataAssumption
  <2> HIDE DEF stored
  <2> QED
    BY <2>1, FS_Subset
<1>2. clock \in Nat /\ \A i \in DOMAIN sources : sources[i].at \in Nat /\ sources[i].at <= clock
  <2>1. clock \in Nat /\ \A i \in DOMAIN sources : sources[i] \in Source /\ sources[i].at <= clock
    BY PlacesOf DEF CollectorInv, MarketTypes
  <2> QED
    BY <2>1 DEF Source
<1>3. ASSUME NEW c \in stored
      PROVE  Max(times(c)) \in Int /\ Cardinality(EntriesOf(c, since)) \in Int
  <2>1. EntriesOf(c, since) \subseteq DOMAIN sources /\ EntriesOf(c, since) # {}
    BY <1>3 DEF EntriesOf, EntriesSince
  <2>2. times(c) \subseteq Int /\ times(c) # {} /\ \A x \in times(c) : x <= clock
    BY <1>2, <2>1
  <2>3. Max(times(c)) \in Int
    <3> HIDE DEF times
    <3>1. clock \in Int
      BY <1>2
    <3> QED
      BY <2>2, <3>1, MaxIsGreatest
  <2>4. Cardinality(EntriesOf(c, since)) \in Nat
    <3>1. DOMAIN sources = 1..Len(sources) /\ Len(sources) \in Nat
      BY DEF CollectorInv, MarketTypes
    <3>2. IsFiniteSet(DOMAIN sources)
      BY <3>1, FS_Interval
    <3> QED
      BY <2>1, <3>2, FS_Subset, FS_CardinalityType
  <2> QED
    BY <2>3, <2>4
<1>4. RecentCoins(since) = SortedBy(key)
  BY DEF RecentCoins
<1> HIDE DEF stored, times
<1>5. HasKeys(key, stored)
  <2>1. ASSUME NEW c \in stored PROVE key[c] \in Seq(Int)
    <3>1. -Max(times(c)) \in Int /\ -Cardinality(EntriesOf(c, since)) \in Int
      BY <1>3
    <3> QED
      BY <3>1
  <2> QED
    BY <2>1 DEF HasKeys
<1> HIDE DEF key
<1>6. SortedBy(key) \in Seq(stored)
  BY <1>1, <1>5, SortedList
<1> QED
  BY <1>1, <1>4, <1>6

LEMMA CollectorInvariant == MarketSpec => []CollectorInv
BY FirstCollector, CollectorPreserved, LabelInvariant, PTL DEF MarketSpec

(* Whatever coins are scored or stored and whichever query fails: a coin   *)
(* in memory with a market has no price taken only when maxTargets markets *)
(* or coins that were seen as recently leave no place (collectNow(),       *)
(* resolveActiveCoins(), buildPriceTargets()).                             *)
THEOREM RecentCoinsComeFirst == MarketSpec => RecentCoinsArePriced
<1>1. ASSUME CollectorInv, MarketNext, collector.phase = "resolving", collector' # collector,
             NEW m \in Range(Listed) \ Range(collector'.targets),
             collector.seen[CoinOf(m)] # Never
      PROVE  LeftOutForRecentOnes(m, Range(collector'.targets))
  <2>1. Resolved
    BY <1>1 DEF MarketNext, Tick, EventStored, SnapshotStored, CollectFires, Fetched, LabelFires,
         DueRead, RowLabelled, RowFails
  <2>2. PICK scored \in {<<>>, Scored}, recent \in {<<>>, RecentCoins(collector.since)} :
          collector' = Fetching(Targets(ActiveCoins(collector.memory, scored, recent)))
    BY <2>1 DEF Resolved
  <2> DEFINE targets == Targets(ActiveCoins(collector.memory, scored, recent))
             chosen == Range(targets)
  <2>3. collector'.targets = targets
    <3>1. collector' = Fetching(targets)
      BY <2>2
    <3> HIDE DEF targets
    <3> QED
      BY <3>1 DEF Fetching, IdleCollector
  <2>4. scored \in Seq(Coins) /\ recent \in Seq(Coins)
    <3>1. RecentCoins(collector.since) \in Seq(Coins)
      BY <1>1, RecentAreCoins
    <3>2. Scored \in Seq(Coins) /\ <<>> \in Seq(Coins)
      BY MarketDataAssumption
    <3> QED
      BY <2>2, <3>1, <3>2
  <2>5. /\ collector.seen \in [Coins -> Nat \cup {Never}]
        /\ collector.memory \in MemoryCoins(collector.seen)
    BY <1>1 DEF CollectorInv
  <2>6. chosen = Range(Targets(ActiveCoins(collector.memory, scored, recent)))
    OBVIOUS
  <2>7. m \in Range(Listed) \ chosen
    BY <1>1, <2>3
  <2> HIDE DEF targets, chosen
  <2>8. LeftOutForRecentOnes(m, chosen)
    BY <1>1, <2>4, <2>5, <2>6, <2>7, LeftOut DEF LeftOutForRecentOnes, SeenAsLately
  <2> QED
    BY <2>3, <2>8 DEF chosen
<1>2. CollectorInv /\ [MarketNext]_marketVars =>
        [collector.phase = "resolving" /\ collector' # collector =>
           LET chosen == Range(collector'.targets) IN
           \A m \in Range(Listed) \ chosen :
             collector.seen[CoinOf(m)] # Never => LeftOutForRecentOnes(m, chosen)]_marketVars
  BY <1>1
<1> QED
  BY CollectorInvariant, <1>2, PTL DEF MarketSpec, RecentCoinsArePriced
=============================================================================
