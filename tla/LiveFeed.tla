------------------------------ MODULE LiveFeed ------------------------------
(***************************************************************************)
(* How a stored event reaches a dashboard: SseHub (http/sse.ts) writes it  *)
(* to every registered stream in the call that stored it, and the page     *)
(* (web/src/App.tsx, web/src/api/sse.ts) folds it into its own copy of the *)
(* feeds.  The page starts from two snapshots that race each other, one    *)
(* over REST and one at the head of its stream; a stream breaks at any     *)
(* time, and the browser opens another.  Streams are numbered in the order *)
(* handleStream() registers them; the model follows one page.              *)
(***************************************************************************)
EXTENDS EventStore, SequencesExt

CONSTANTS
  ViewSize,       \* 100 in addEventToSnapshot()
  AlertFeed,      \* alertFeedKeys
  MaxStreams      \* bound of the model: streams the page opens

ASSUME LiveFeedAssumption ==
  /\ ViewSize \in Nat \ {0}
  /\ MaxStreams \in Nat
  /\ AlertFeed \subseteq Feed

Stream == 1..MaxStreams
NoStream == 0

VARIABLES
  clients,     \* SseHub.clients
  socket,      \* server side of each stream: unused, open or destroyed
  stream,      \* the stream the page reads, or NoStream
  wire,        \* messages on their way to it
  rest,        \* the page's GET /api/snapshot: asked, answered or done
  answer,      \* its response
  view,        \* snapshot.feeds of the page
  paused,      \* pausedRef
  held,        \* queuedEventsRef
  applied,     \* history: events given to applyLiveEvent()
  excused      \* history: why the view may differ from the server's buffers

hubVars  == <<clients, socket>>
pageVars == <<stream, wire, rest, answer, view, paused, held, applied, excused>>
vars == <<storeVars, hubVars, pageVars>>

NoEvents == [f \in Feed |-> <<>>]

Init ==
  /\ InitStore
  /\ clients = {}
  /\ socket = [s \in Stream |-> "unused"]
  /\ stream = NoStream
  /\ wire = <<>>
  /\ rest = "asked" /\ answer = NoEvents
  /\ view = NoEvents
  /\ paused = FALSE
  /\ held = <<>>
  /\ applied = <<>>
  /\ excused = {}

Snapshot == [kind |-> "snapshot", feeds |-> buffers]
Live(event) == [kind |-> "event", event |-> event]

-----------------------------------------------------------------------------
(* SseHub *)

(* send() to every client: write() returns FALSE on a destroyed socket, and *)
(* may also return FALSE on an open one whose buffer is full.  refused are *)
(* the clients it returned FALSE for.                                      *)
Refusals == {r \in SUBSET clients : \A s \in clients : socket[s] = "destroyed" => s \in r}
SlowDropped(refused) == clients \ refused
Reached(refused) == clients \ {s \in refused : socket[s] = "destroyed"}

OnWire(message) ==
  IF stream \in clients /\ socket[stream] = "open" THEN Append(wire, message) ELSE wire

StoreEvent ==
  \E id \in Id, refused \in Refusals :
    /\ Store(id)
    /\ wire' = OnWire(Live(Event(id)))
    /\ clients' = Reached(refused)
    /\ UNCHANGED <<socket, stream, rest, answer, view, paused, held, applied, excused>>

DropDuplicate ==
  /\ \E id \in Id : Deduplicate(id)
  /\ UNCHANGED <<hubVars, pageVars>>

Heartbeat ==
  /\ \E refused \in Refusals : clients' = Reached(refused)
  /\ UNCHANGED <<storeVars, socket, pageVars>>

(* handleStream(): the client is registered and sent the snapshot in one   *)
(* go.  If the page has left by then, the first send() drops it again.     *)
NextStream ==
  CHOOSE s \in Stream : socket[s] = "unused" /\ \A t \in 1..(s - 1) : socket[t] # "unused"

Opening == <<Snapshot>>

HandleStream ==
  /\ stream = NoStream
  /\ \E s \in Stream : socket[s] = "unused"
  /\ \/ /\ socket' = [socket EXCEPT ![NextStream] = "open"]
        /\ clients' = clients \cup {NextStream}
        /\ stream' = NextStream
        /\ wire' = Opening
     \/ /\ socket' = [socket EXCEPT ![NextStream] = "destroyed"]
        /\ UNCHANGED <<clients, stream, wire>>
  /\ UNCHANGED <<storeVars, rest, answer, view, paused, held, applied, excused>>

(* The server's end of a connection goes away; its close event runs later. *)
SocketDestroyed(s) ==
  /\ socket[s] = "open"
  /\ socket' = [socket EXCEPT ![s] = "destroyed"]
  /\ UNCHANGED <<storeVars, clients, pageVars>>

CloseEvent(s) ==
  /\ socket[s] = "destroyed" /\ s \in clients
  /\ clients' = clients \ {s}
  /\ UNCHANGED <<storeVars, socket, pageVars>>

AnswerRest ==
  /\ rest = "asked"
  /\ rest' = "answered"
  /\ answer' = buffers
  /\ UNCHANGED <<storeVars, hubVars, stream, wire, view, paused, held, applied, excused>>

-----------------------------------------------------------------------------
(* The page *)

In(feeds, event) == \E k \in 1..Len(feeds[FeedOf(event.id)]) : feeds[FeedOf(event.id)][k] = event
Shown(feeds, id) == \E k \in 1..Len(feeds[FeedOf(id)]) : feeds[FeedOf(id)][k].id = id

(* addEventToSnapshot(): an id that is shown already is not shown again.   *)
AddedAgain(feeds, event) ==
  [feeds EXCEPT ![FeedOf(event.id)] = Prefix(<<event>> \o @, ViewSize)]
Added(feeds, event) ==
  IF Shown(feeds, event.id) THEN feeds ELSE AddedAgain(feeds, event)

(* The page ignored a newer event with the id of one it shows. *)
Missed(feeds, event) == Shown(feeds, event.id) /\ ~In(feeds, event)

(* applyLiveEvent() shows the event, and alerts if its feed calls for it.  *)
Alerts(event) == FeedOf(event.id) \in AlertFeed

Take(kind) ==
  /\ wire # <<>> /\ Head(wire).kind = kind
  /\ wire' = Tail(wire)
  /\ UNCHANGED <<storeVars, hubVars, stream, rest, answer, paused>>

(* onSnapshot replaces the view, whether or not the page is paused. *)
ReceiveSnapshot ==
  /\ Take("snapshot")
  /\ view' = Head(wire).feeds
  /\ excused' = IF \E k \in 1..Len(held) : ~In(view', held[k]) THEN {"held"} ELSE {}
  /\ UNCHANGED <<held, applied>>

ReceiveEvent ==
  /\ Take("event")
  /\ ~paused
  /\ view' = Added(view, Head(wire).event)
  /\ excused' = IF Missed(view, Head(wire).event) THEN excused \cup {"restored"} ELSE excused
  /\ applied' = Append(applied, Head(wire).event)
  /\ UNCHANGED held

HoldEvent ==
  /\ Take("event")
  /\ paused
  /\ held' = Append(held, Head(wire).event)
  /\ UNCHANGED <<view, applied, excused>>

(* The bootstrap response continues the view if it holds the newest event  *)
(* of each feed, or everything ever stored, and the shown events that are  *)
(* held as well; else it takes events away from the page, misses some that *)
(* are yet to come, or has old events shown as new when the page resumes.  *)
Continues(f) ==
  IF view[f] = <<>> THEN Len(answer[f]) < BufferSize ELSE In(answer, Head(view[f]))
KeepsHeld == \A k \in 1..Len(held) : In(view, held[k]) => In(answer, held[k])

ReceiveRest ==
  /\ rest = "answered"
  /\ rest' = "done"
  /\ view' = answer
  /\ answer' = NoEvents
  /\ excused' =
       IF KeepsHeld /\ \A f \in Feed : Continues(f) THEN excused ELSE excused \cup {"rest"}
  /\ UNCHANGED <<storeVars, hubVars, stream, wire, paused, held, applied>>

RestFails ==
  /\ rest # "done"
  /\ rest' = "done"
  /\ answer' = NoEvents
  /\ UNCHANGED <<storeVars, hubVars, stream, wire, view, paused, held, applied, excused>>

(* togglePause(): resuming applies the held events in their order. *)
Pause ==
  /\ ~paused
  /\ paused' = TRUE
  /\ UNCHANGED <<storeVars, hubVars, stream, wire, rest, answer, view, held, applied, excused>>

ShownAfter(events) ==
  LET shown[k \in 0..Len(events)] ==
        IF k = 0 THEN view ELSE Added(shown[k - 1], events[k])
  IN shown

HeldOn == held
Released == <<>>
Resume ==
  /\ paused
  /\ paused' = FALSE
  /\ held' = Released
  /\ view' = ShownAfter(held)[Len(held)]
  /\ applied' = applied \o held
  /\ excused' =
       IF \E k \in 1..Len(held) : Missed(ShownAfter(held)[k - 1], held[k])
       THEN excused \cup {"restored"}
       ELSE excused
  /\ UNCHANGED <<storeVars, hubVars, stream, wire, rest, answer>>

(* The browser notices that its stream broke; it retries on its own. *)
StreamError ==
  /\ stream # NoStream
  /\ stream' = NoStream
  /\ wire' = <<>>
  /\ UNCHANGED <<storeVars, hubVars, rest, answer, view, paused, held, applied, excused>>

-----------------------------------------------------------------------------
Next ==
  \/ Tick /\ UNCHANGED <<hubVars, pageVars>>
  \/ StoreEvent \/ DropDuplicate \/ Heartbeat \/ HandleStream \/ AnswerRest
  \/ \E s \in Stream : SocketDestroyed(s) \/ CloseEvent(s)
  \/ ReceiveSnapshot \/ ReceiveEvent \/ HoldEvent \/ ReceiveRest \/ RestFails
  \/ Pause \/ Resume \/ StreamError

Spec == Init /\ [][Next]_vars

-----------------------------------------------------------------------------
(* Properties *)

(* Types, and an unpaused page holds no event back. *)
TypeOK ==
  /\ StoreTypeOK
  /\ clients \subseteq Stream
  /\ socket \in [Stream -> {"unused", "open", "destroyed"}]
  /\ stream \in Stream \cup {NoStream}
  /\ \A i \in 1..Len(wire) : wire[i].kind \in {"snapshot", "event"}
  /\ rest \in {"asked", "answered", "done"}
  /\ paused \in BOOLEAN
  /\ held # <<>> => paused
  /\ excused \subseteq {"rest", "restored", "held"}

(* A stream is deregistered only after its socket is gone: a slow reader   *)
(* keeps its place (send, handleStream).                                   *)
OpenStreamsAreServed == \A s \in Stream : socket[s] = "open" => s \in clients

(* A page that reads an open stream, has drained it and holds nothing back *)
(* shows what the server would send it now: as many of the newest events   *)
(* of each feed as it keeps, in the server's order.  The exceptions are    *)
(* the three in excused: a late bootstrap response replaced the view, an   *)
(* id was stored again while its first event was shown, or events held     *)
(* over a reconnect had left the server's buffer (App.tsx, handleStream).  *)
Settled ==
  /\ stream # NoStream
  /\ socket[stream] = "open"
  /\ wire = <<>> /\ held = <<>>
  /\ rest = "done"

SameNewest(f) ==
  /\ Len(view[f]) >= Min({ViewSize, Len(buffers[f])})
  /\ \A k \in 1..Min({Len(view[f]), Len(buffers[f])}) : view[f][k] = buffers[f][k]

SettledViewIsLive == Settled /\ excused = {} => \A f \in Feed : SameNewest(f)

(* No stored event alerts twice, whether it was shown at once, held back,  *)
(* or seen in a snapshot as well (applyLiveEvent, togglePause).            *)
OneAlertPerEvent ==
  \A i, j \in 1..Len(applied) : Alerts(applied[i]) /\ applied[i] = applied[j] => i = j

=============================================================================
