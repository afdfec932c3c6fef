--------------------------- MODULE EventRepository ---------------------------
(***************************************************************************)
(* ingestRawEvent() of apps/server/src/db/eventRepository.ts: one Postgres *)
(* transaction of upserts per raw event, run by the live write queue and   *)
(* by the backfill command at the same time.  A writer's connection runs   *)
(* its statements one at a time; an upsert holds the lock of its key until *)
(* the transaction ends.  A call fails when a statement is refused or      *)
(* cancelled by the server, when the connection is lost, or (Stalling)     *)
(* when the client's query_timeout fires while the statement is still on   *)
(* its way: the statement then runs later, and the ROLLBACK queued behind  *)
(* it is withdrawn from the client's queue if it times out as well.        *)
(*                                                                         *)
(* A database is a record of tables, a table a function from keys to rows. *)
(* A row keeps the number of the call that wrote it (by) in place of the   *)
(* columns that carry payload.                                             *)
(***************************************************************************)
EXTENDS Naturals, Sequences

CONSTANTS
  Writer,           \* connections that run ingestRawEvent()
  Raw,              \* raw event payloads
  Time,             \* values of receivedAt
  KeyOf(_),         \* buildRawIdempotencyKey() of a payload
  ProviderId(_),    \* its provider_event_id, or NoId
  EventsOf(_, _),   \* ids of the events a payload received at a time normalizes to
  EntryCount(_),    \* entries of each of those events
  NoId,
  Stalling,         \* bound of the model: whose statements may outlive query_timeout
  MaxCalls          \* bound of the model: the number of ingestRawEvent() calls

ASSUME EventRepositoryAssumption ==
  /\ MaxCalls \in Nat
  /\ Stalling \subseteq Raw
  /\ \A r \in Raw : EntryCount(r) \in Nat
  /\ \A r \in Raw, t \in Time : \A d, e \in EventsOf(r, t) : d = e

VARIABLES
  db,         \* the committed tables
  tx,         \* the uncommitted rows of each connection's transaction
  session,    \* none, open or aborted: the transaction state of a connection
  pc,         \* the statement each writer awaits
  idx,        \* the entry it is at
  call,       \* the call it runs
  late,       \* a statement the client gave up and the server still runs
  input,      \* the arguments of each call
  outcome,    \* what each call told its caller
  committed,  \* history: the calls whose COMMIT the server executed, in that order
  dirty       \* history: a client went back to the pool with a statement under way

vars == <<db, tx, session, pc, idx, call, late, input, outcome, committed, dirty>>

TableNames == {"rawKeys", "raws", "eventKeys", "events", "entryKeys", "entries"}
NoRows == [t \in TableNames |-> <<>>]
NoStatement == [kind |-> "none", call |-> 0, idx |-> 0]

Over(f, g) == [k \in DOMAIN f \cup DOMAIN g |-> IF k \in DOMAIN f THEN f[k] ELSE g[k]]
Merge(top, base) == [t \in TableNames |-> Over(top[t], base[t])]
Put(tables, t, key, row) == [tables EXCEPT ![t] = Over([k \in {key} |-> row], @)]

Init ==
  /\ db = NoRows
  /\ tx = [w \in Writer |-> NoRows]
  /\ session = [w \in Writer |-> "none"]
  /\ pc = [w \in Writer |-> "idle"]
  /\ idx = [w \in Writer |-> 0]
  /\ call = [w \in Writer |-> 0]
  /\ late = [w \in Writer |-> NoStatement]
  /\ input = <<>> /\ outcome = <<>>
  /\ committed = <<>>
  /\ dirty = FALSE

-----------------------------------------------------------------------------
(* Statements *)

Seen(w) == Merge(tx[w], db)
Awaited(w) == [kind |-> pc[w], call |-> call[w], idx |-> idx[w]]

RawKey(s)  == KeyOf(input[s.call].raw)
EventId(s) == CHOOSE e \in EventsOf(input[s.call].raw, input[s.call].at) : TRUE
EntryKey(s) == <<EventId(s), s.idx>>

(* raw_received_at of raw_event_keys, received_at of normalized_event_keys *)
(* and of event_entry_keys, as the key statements return them.             *)
RawRef(w, s)   == Seen(w).rawKeys[RawKey(s)]
EventAt(w, s)  == Seen(w).eventKeys[EventId(s)].at
EntryRef(w, s) == Seen(w).entryKeys[EntryKey(s)]

Known(w, t, key) == key \in DOMAIN Seen(w)[t]

(* on conflict (idempotency_key) do update set last_seen_at: the first     *)
(* identity stays.                                                         *)
RekeyRaw(w, s) == [id |-> s.call, at |-> input[s.call].at]
KeyedRaw(w, s) == IF Known(w, "rawKeys", RawKey(s)) THEN RawRef(w, s) ELSE RekeyRaw(w, s)

(* on conflict (event_id): the first received_at stays, the event belongs  *)
(* to the latest raw row.                                                  *)
RetimedEvent(w, s) ==
  [at |-> input[s.call].at, rawId |-> RawRef(w, s).id, rawAt |-> RawRef(w, s).at]
KeyedEvent(w, s) ==
  [at    |-> IF Known(w, "eventKeys", EventId(s)) THEN EventAt(w, s) ELSE input[s.call].at,
   rawId |-> RawRef(w, s).id, rawAt |-> RawRef(w, s).at]

KeyedEntry(w, s) ==
  IF Known(w, "entryKeys", EntryKey(s))
  THEN EntryRef(w, s)
  ELSE [id |-> <<s.call, s.idx>>, at |-> EventAt(w, s)]

RawRow(w, s)   == [raw |-> input[s.call].raw, by |-> s.call]
EventRow(w, s) == [rawId |-> RawRef(w, s).id, rawAt |-> RawRef(w, s).at, by |-> s.call]
EntryRow(w, s) == [event |-> EventId(s), eventAt |-> EventAt(w, s), by |-> s.call]

(* The table, key and row of each upsert. *)
Table(kind) ==
  CASE kind = "rawKey"   -> "rawKeys"
    [] kind = "raw"      -> "raws"
    [] kind = "eventKey" -> "eventKeys"
    [] kind = "event"    -> "events"
    [] kind = "entryKey" -> "entryKeys"
    [] kind = "entry"    -> "entries"

Key(w, s) ==
  CASE s.kind = "rawKey"   -> RawKey(s)
    [] s.kind = "raw"      -> <<RawRef(w, s).id, RawRef(w, s).at>>
    [] s.kind = "eventKey" -> EventId(s)
    [] s.kind = "event"    -> <<EventId(s), EventAt(w, s)>>
    [] s.kind = "entryKey" -> EntryKey(s)
    [] s.kind = "entry"    -> <<EntryRef(w, s).id, EntryRef(w, s).at>>

Row(w, s) ==
  CASE s.kind = "rawKey"   -> KeyedRaw(w, s)
    [] s.kind = "raw"      -> RawRow(w, s)
    [] s.kind = "eventKey" -> KeyedEvent(w, s)
    [] s.kind = "event"    -> EventRow(w, s)
    [] s.kind = "entryKey" -> KeyedEntry(w, s)
    [] s.kind = "entry"    -> EntryRow(w, s)

LastEntrySkipped(s, entries) == s.idx < entries - 1
MoreEntries(s, entries) == s.idx < entries

(* The statement that follows s in ingestRawEvent(). *)
Following(s) ==
  LET events  == EventsOf(input[s.call].raw, input[s.call].at)
      entries == EntryCount(input[s.call].raw)
  IN CASE s.kind = "begin"    -> [s EXCEPT !.kind = "rawKey"]
       [] s.kind = "rawKey"   -> [s EXCEPT !.kind = "raw"]
       [] s.kind = "raw"      -> [s EXCEPT !.kind = IF events = {} THEN "commit" ELSE "eventKey"]
       [] s.kind = "eventKey" -> [s EXCEPT !.kind = "event"]
       [] s.kind = "entryKey" -> [s EXCEPT !.kind = "entry"]
       [] s.kind \in {"event", "entry"} ->
            IF MoreEntries(s, entries)
            THEN [s EXCEPT !.kind = "entryKey", !.idx = @ + 1]
            ELSE [s EXCEPT !.kind = "commit"]

-----------------------------------------------------------------------------
(* The server *)

NoLocks(w, t, key) == FALSE
LockedByOther(w, t, key) == \E v \in Writer \ {w} : key \in DOMAIN tx[v][t]

(* The unique index on (provider, provider_event_id, received_at). *)
SameProviderEvent(rows, key, raw) ==
  \E k \in DOMAIN rows :
    k # key /\ k[2] = key[2] /\ ProviderId(raw) # NoId /\ ProviderId(rows[k].raw) = ProviderId(raw)

Violates(w, s) == s.kind = "raw" /\ SameProviderEvent(Seen(w).raws, Key(w, s), Row(w, s).raw)
Blocked(w, s) ==
  \/ LockedByOther(w, Table(s.kind), Key(w, s))
  \/ s.kind = "raw" /\ \E v \in Writer \ {w} :
       SameProviderEvent(tx[v].raws, Key(w, s), Row(w, s).raw)

Upsert(w, s) ==
  /\ session[w] = "open"
  /\ ~Blocked(w, s)
  /\ ~Violates(w, s)
  /\ tx' = [tx EXCEPT ![w] = Put(@, Table(s.kind), Key(w, s), Row(w, s))]
  /\ UNCHANGED <<db, session, committed>>

(* BEGIN inside an open transaction only draws a warning. *)
Begin(w) ==
  /\ session[w] # "aborted"
  /\ session' = [session EXCEPT ![w] = "open"]
  /\ UNCHANGED <<db, tx, committed>>

Discard(w) == tx' = [tx EXCEPT ![w] = NoRows]

Commit(w, s) ==
  /\ session[w] = "open"
  /\ db' = Merge(tx[w], db)
  /\ Discard(w)
  /\ session' = [session EXCEPT ![w] = "none"]
  /\ committed' = Append(committed, s.call)

Run(w, s) ==
  \/ s.kind = "begin" /\ Begin(w)
  \/ s.kind = "commit" /\ Commit(w, s)
  \/ s.kind \notin {"begin", "commit"} /\ Upsert(w, s)

(* An error aborts the transaction and releases its locks. *)
Abort(w) ==
  /\ session' = [session EXCEPT ![w] = IF @ = "none" THEN "none" ELSE "aborted"]
  /\ Discard(w)
  /\ UNCHANGED <<db, committed>>

-----------------------------------------------------------------------------
(* ingestRawEvent() *)

Call(w, r, t) ==
  /\ pc[w] = "idle"
  /\ Len(input) < MaxCalls
  /\ input' = Append(input, [raw |-> r, at |-> t])
  /\ outcome' = Append(outcome, "open")
  /\ call' = [call EXCEPT ![w] = Len(input')]
  /\ pc' = [pc EXCEPT ![w] = "begin"]
  /\ idx' = [idx EXCEPT ![w] = 0]
  /\ UNCHANGED <<db, tx, session, late, committed, dirty>>

Waiting(w) == pc[w] \notin {"idle", "rollback"}

Answered(w, next) ==
  /\ pc' = [pc EXCEPT ![w] = next.kind]
  /\ idx' = [idx EXCEPT ![w] = next.idx]

Returns(w, result) ==
  /\ pc' = [pc EXCEPT ![w] = "idle"]
  /\ outcome' = [outcome EXCEPT ![call[w]] = result]
  /\ UNCHANGED idx

StatementSucceeds(w) ==
  /\ Waiting(w) /\ pc[w] # "commit"
  /\ late[w] = NoStatement
  /\ Run(w, Awaited(w))
  /\ Answered(w, Following(Awaited(w)))
  /\ UNCHANGED <<call, late, input, outcome, dirty>>

CommitSucceeds(w) ==
  /\ pc[w] = "commit"
  /\ late[w] = NoStatement
  /\ Run(w, Awaited(w))
  /\ Returns(w, "resolved")
  /\ UNCHANGED <<call, late, input, dirty>>

(* A constraint, a lock wait cancelled by statement_timeout, a deadlock, a *)
(* server that is shutting down, or any statement of an aborted session.   *)
StatementFails(w) ==
  /\ Waiting(w)
  /\ late[w] = NoStatement
  /\ Abort(w)
  /\ pc' = [pc EXCEPT ![w] = "rollback"]
  /\ UNCHANGED <<idx, call, late, input, outcome, dirty>>

(* The client's query_timeout fires first; a statement that still waits    *)
(* behind an earlier one is withdrawn.                                     *)
StatementTimesOut(w) ==
  /\ Waiting(w)
  /\ input[call[w]].raw \in Stalling
  /\ late' = [late EXCEPT ![w] = IF @ = NoStatement THEN Awaited(w) ELSE @]
  /\ pc' = [pc EXCEPT ![w] = "rollback"]
  /\ UNCHANGED <<db, tx, session, idx, call, input, outcome, committed, dirty>>

LateStatementRuns(w) ==
  /\ late[w] # NoStatement
  /\ Run(w, late[w]) \/ Abort(w)
  /\ late' = [late EXCEPT ![w] = NoStatement]
  /\ UNCHANGED <<pc, idx, call, input, outcome, dirty>>

Kept(w) == UNCHANGED <<tx, session>>
RolledBack(w) ==
  /\ Discard(w)
  /\ session' = [session EXCEPT ![w] = "none"]

RollbackSucceeds(w) ==
  /\ pc[w] = "rollback"
  /\ late[w] = NoStatement
  /\ RolledBack(w)
  /\ Returns(w, "rejected")
  /\ UNCHANGED <<db, call, late, input, committed, dirty>>

(* rollbackQuietly() swallows the timeout of a ROLLBACK that never left    *)
(* the client, and the connection goes back to the pool as it is.          *)
RollbackTimesOut(w) ==
  /\ pc[w] = "rollback"
  /\ late[w] # NoStatement
  /\ Returns(w, "rejected")
  /\ dirty' = TRUE
  /\ UNCHANGED <<db, tx, session, call, late, input, committed>>

(* The server ends the transaction of a lost connection, and the pool      *)
(* opens another one.                                                      *)
ConnectionLost(w) ==
  /\ pc[w] # "idle"
  /\ RolledBack(w)
  /\ late' = [late EXCEPT ![w] = NoStatement]
  /\ Returns(w, "rejected")
  /\ UNCHANGED <<db, call, input, committed, dirty>>

(* COMMIT was executed but its answer got lost. *)
CommitUnacknowledged(w) ==
  /\ pc[w] = "commit"
  /\ late[w] = NoStatement
  /\ Run(w, Awaited(w))
  /\ Returns(w, "rejected")
  /\ UNCHANGED <<call, late, input, dirty>>

Step(w) ==
  \/ \E r \in Raw, t \in Time : Call(w, r, t)
  \/ StatementSucceeds(w) \/ CommitSucceeds(w) \/ StatementFails(w)
  \/ StatementTimesOut(w) \/ LateStatementRuns(w)
  \/ RollbackSucceeds(w) \/ RollbackTimesOut(w)
  \/ ConnectionLost(w) \/ CommitUnacknowledged(w)

Next == \E w \in Writer : Step(w)

Spec == Init /\ [][Next]_vars
-----------------------------------------------------------------------------
(***************************************************************************)
(* Properties                                                              *)
(***************************************************************************)
Statements ==
  {"begin", "rawKey", "raw", "eventKey", "event", "entryKey", "entry", "commit"}

TypeOK ==
  /\ DOMAIN db = TableNames
  /\ \A w \in Writer : DOMAIN tx[w] = TableNames
  /\ session \in [Writer -> {"none", "open", "aborted"}]
  /\ pc \in [Writer -> {"idle", "rollback"} \cup Statements]
  /\ idx \in [Writer -> Nat] /\ call \in [Writer -> 0..Len(input)]
  /\ late \in [Writer -> [kind : {"none"} \cup Statements, call : Nat, idx : Nat]]
  /\ input \in Seq([raw : Raw, at : Time])
  /\ outcome \in Seq({"open", "resolved", "rejected"}) /\ Len(outcome) = Len(input)
  /\ committed \in Seq(1..Len(input))
  /\ dirty \in BOOLEAN

(* All or nothing: every row in the database was written by a call whose   *)
(* own COMMIT was executed; a call that failed half way leaves no row, and *)
(* in particular none that a later call's COMMIT carries along.            *)
OnlyWholeTransactions ==
  \A t \in {"raws", "events", "entries"} :
    \A k \in DOMAIN db[t] : \E n \in DOMAIN committed : committed[n] = db[t][k].by

(* ... unless a client went back to the pool with its transaction open     *)
(* behind a ROLLBACK that timed out: the only way to lose atomicity.       *)
WholeUnlessDirty == ~dirty => OnlyWholeTransactions

(* The events a call with this argument stands for are in the database     *)
(* under its identities, with every entry.                                 *)
Holds(c) ==
  LET r == input[c].raw IN
  /\ KeyOf(r) \in DOMAIN db.rawKeys
  /\ <<db.rawKeys[KeyOf(r)].id, db.rawKeys[KeyOf(r)].at>> \in DOMAIN db.raws
  /\ \A e \in EventsOf(r, input[c].at) :
       /\ e \in DOMAIN db.eventKeys
       /\ <<e, db.eventKeys[e].at>> \in DOMAIN db.events
       /\ \A i \in 1..EntryCount(r) :
            /\ <<e, i>> \in DOMAIN db.entryKeys
            /\ <<db.entryKeys[<<e, i>>].id, db.entryKeys[<<e, i>>].at>> \in DOMAIN db.entries

(* A call that resolved has everything it was given in the database.       *)
ResolvedIsStored == \A c \in DOMAIN outcome : outcome[c] = "resolved" => Holds(c)

(* Retries, replays and concurrent writers never change the identity under *)
(* which a raw event, an event or an entry was first stored.               *)
IdentitiesAreStable ==
  [][/\ \A k \in DOMAIN db.rawKeys : k \in DOMAIN db'.rawKeys /\ db'.rawKeys[k] = db.rawKeys[k]
     /\ \A k \in DOMAIN db.eventKeys :
          k \in DOMAIN db'.eventKeys /\ db'.eventKeys[k].at = db.eventKeys[k].at
     /\ \A k \in DOMAIN db.entryKeys :
          k \in DOMAIN db'.entryKeys /\ db'.entryKeys[k] = db.entryKeys[k]]_vars

(* An event is stored in one row only, although the primary key of its     *)
(* table also has received_at, and so is an entry; each event refers to a  *)
(* raw row that exists and each entry to its event.                        *)
OneRowPerIdentity ==
  /\ \A j, k \in DOMAIN db.events : j[1] = k[1] => j = k
  /\ \A j, k \in DOMAIN db.raws :
       KeyOf(db.raws[j].raw) = KeyOf(db.raws[k].raw) => j = k
  /\ \A k \in DOMAIN db.events : <<db.events[k].rawId, db.events[k].rawAt>> \in DOMAIN db.raws
  /\ \A k \in DOMAIN db.entries : <<db.entries[k].event, db.entries[k].eventAt>> \in DOMAIN db.events

(* Of the calls that had entry i of event e, or with i = 0 the event, c is *)
(* the last one that was committed.                                        *)
Has(c, e, i) == e \in EventsOf(input[c].raw, input[c].at) /\ i <= EntryCount(input[c].raw)
IsLatest(c, e, i) ==
  \E n \in DOMAIN committed :
    /\ committed[n] = c /\ Has(c, e, i)
    /\ \A m \in DOMAIN committed : n < m => ~Has(committed[m], e, i)

(* Writers that store versions of one event at the same time do not        *)
(* overwrite each other out of turn: the event row, and of each entry its  *)
(* row, is that of the last committed version that had it.  A version is   *)
(* never left half written, so the event has every entry of its version;   *)
(* but nothing deletes entries, and after a version with fewer of them the *)
(* others stay, those of an earlier version (same exception).              *)
LatestVersionOfEach ==
  ~dirty =>
    /\ \A k \in DOMAIN db.events :
         /\ IsLatest(db.events[k].by, k[1], 0)
         /\ \A i \in 1..EntryCount(input[db.events[k].by].raw) :
              /\ <<k[1], i>> \in DOMAIN db.entryKeys
              /\ LET ref == db.entryKeys[<<k[1], i>>]
                 IN <<ref.id, ref.at>> \in DOMAIN db.entries
    /\ \A k \in DOMAIN db.entries : IsLatest(db.entries[k].by, db.entries[k].event, k[1][2])
=============================================================================
