------------------------- MODULE CryptoAttackClient -------------------------
(***************************************************************************)
(* One endpoint of apps/server/src/cryptoattack/client.ts: the handlers    *)
(* that connectEndpoint() installs on a Socket.IO socket, and the timer    *)
(* that repeats the subscriptions.  The socket itself is external: link is *)
(* where it stands, and it reopens by itself after a transport loss, but   *)
(* not once the server closed it or refused it, or stop() was called.      *)
(* Handlers are synchronous.  The numbers of attempts, times and last      *)
(* errors of the status are left out, and so is the news event: it stamps  *)
(* lastNewsAt and hands the payload on.                                    *)
(***************************************************************************)
EXTENDS Integers, Sequences

CONSTANTS
  MayRefuse,    \* can the server refuse a connection (CONNECT_ERROR)
  MaxLosses     \* bound of the model: connections lost or closed by the server

ASSUME CryptoAttackClientAssumption ==
  /\ MayRefuse \in BOOLEAN
  /\ MaxLosses \in Nat

VARIABLES
  link,        \* the socket: opening, handshake, connected, backoff or ended
  reopening,   \* is this a reconnect of its manager
  generation, subscribedGeneration, connectAttemptedGeneration,
  status,      \* the fields of the endpoint's ConnectionStatus
  stopped,     \* stop() was called
  losses,      \* bound of the model
  announced,   \* history: the server has sent its connected event on this connection
  heard,       \* history: rounds it received before and after that
  unforced     \* history: rounds that were not refreshes

socketVars == <<link, reopening, losses>>
generations == <<generation, subscribedGeneration, connectAttemptedGeneration>>
serverVars == <<announced, heard>>
vars == <<socketVars, generations, status, stopped, serverVars, unforced>>

Links == {"opening", "handshake", "connected", "backoff", "ended"}
Unset == -1

Init ==
  /\ link = "opening"
  /\ reopening = FALSE
  /\ generation = 0
  /\ subscribedGeneration = Unset
  /\ connectAttemptedGeneration = Unset
  /\ status = [connected |-> FALSE, serverConnected |-> FALSE, generation |-> 0,
               subscriptions |-> "pending"]
  /\ stopped = FALSE
  /\ losses = 0
  /\ announced = FALSE
  /\ heard = {}
  /\ unforced = <<>>

-----------------------------------------------------------------------------
(* subscribeAll(): a round of subscribe messages, after which the status   *)
(* says they were attempted; before is what the server heard on the        *)
(* connection so far.                                                      *)
Phase(spoken) == IF spoken THEN "late" ELSE "early"

Round(reason, gen, patched, before, spoken) ==
  /\ status' = [patched EXCEPT !.subscriptions = "attempted"]
  /\ heard' = before \cup {Phase(spoken)}
  /\ unforced' = IF reason = "refresh" THEN unforced
                 ELSE Append(unforced, [generation |-> gen, reason |-> reason])

NoRound(patched, before) ==
  /\ status' = patched
  /\ heard' = before
  /\ UNCHANGED unforced

(* The round on 'connect' does not wait for the server's announcement. *)
FallbackDue(gen) == connectAttemptedGeneration # gen

AlwaysDue(patched) == patched.serverConnected
AnnouncedDue(patched) == patched.serverConnected /\ subscribedGeneration # generation

RefreshUnforced == link = "connected" /\ subscribedGeneration # generation
RefreshDue == link = "connected"

-----------------------------------------------------------------------------
(* Handlers *)

(* 'connect': the transport is up, the server has yet to speak. *)
Connected ==
  LET gen == generation + 1
      patched == [status EXCEPT !.connected = TRUE, !.serverConnected = FALSE,
                                !.generation = gen]
  IN
  /\ link = "handshake"
  /\ link' = "connected"
  /\ generation' = gen
  /\ subscribedGeneration' = Unset
  /\ announced' = FALSE
  /\ IF FallbackDue(gen)
     THEN connectAttemptedGeneration' = gen /\ Round("connect", gen, patched, {}, FALSE)
     ELSE UNCHANGED connectAttemptedGeneration /\ NoRound(patched, {})
  /\ UNCHANGED <<reopening, losses, stopped>>

(* 'connected', the server's own event, which it may repeat. *)
ServerConnected ==
  LET patched == [status EXCEPT !.connected = TRUE, !.serverConnected = TRUE] IN
  /\ link = "connected"
  /\ announced' = TRUE
  /\ IF AnnouncedDue(patched)
     THEN subscribedGeneration' = generation /\ Round("connected", generation, patched, heard, TRUE)
     ELSE UNCHANGED subscribedGeneration /\ NoRound(patched, heard)
  /\ UNCHANGED <<socketVars, generation, connectAttemptedGeneration, stopped>>

(* The refresh timer repeats the round whatever was subscribed before. *)
Refresh ==
  /\ ~stopped
  /\ RefreshDue
  /\ subscribedGeneration' = generation
  /\ Round("refresh", generation, status, heard, announced)
  /\ UNCHANGED <<socketVars, generation, connectAttemptedGeneration, stopped, announced>>

ResetStatus == [status EXCEPT !.connected = FALSE, !.serverConnected = FALSE]

(* 'connect_error' *)
ConnectError ==
  /\ status' = ResetStatus
  /\ UNCHANGED <<generations, unforced>>

(* 'disconnect' *)
Disconnect ==
  /\ subscribedGeneration' = Unset
  /\ connectAttemptedGeneration' = Unset
  /\ status' = ResetStatus
  /\ UNCHANGED <<generation, unforced>>

-----------------------------------------------------------------------------
(* The socket *)

(* The manager's 'reconnect' comes when the transport is open again, the   *)
(* socket's 'connect' later.                                               *)
TransportOpens ==
  /\ link = "opening"
  /\ link' = "handshake"
  /\ subscribedGeneration' = IF reopening THEN Unset ELSE subscribedGeneration
  /\ reopening' = FALSE
  /\ UNCHANGED <<generation, connectAttemptedGeneration, status, stopped, losses,
                 serverVars, unforced>>

TransportFails ==
  /\ link = "opening"
  /\ link' = "backoff"
  /\ reopening' = TRUE
  /\ ConnectError
  /\ UNCHANGED <<stopped, losses, serverVars>>

BackoffEnds ==
  /\ link = "backoff"
  /\ link' = "opening"
  /\ UNCHANGED <<reopening, losses, generations, status, stopped, serverVars, unforced>>

ServerRefuses ==
  /\ MayRefuse
  /\ link = "handshake"
  /\ link' = "ended"
  /\ ConnectError
  /\ UNCHANGED <<reopening, losses, stopped, serverVars>>

(* Transport close, transport error or ping timeout. *)
TransportLost ==
  /\ link \in {"handshake", "connected"}
  /\ losses < MaxLosses
  /\ losses' = losses + 1
  /\ link' = "backoff"
  /\ reopening' = TRUE
  /\ Disconnect
  /\ UNCHANGED <<stopped, serverVars>>

ServerDisconnects ==
  /\ link = "connected"
  /\ losses < MaxLosses
  /\ losses' = losses + 1
  /\ link' = "ended"
  /\ Disconnect
  /\ UNCHANGED <<reopening, stopped, serverVars>>

(* stop(): close() raises 'disconnect' only on a connected socket. *)
Stop ==
  /\ ~stopped
  /\ stopped' = TRUE
  /\ link' = "ended"
  /\ IF link = "connected" THEN Disconnect ELSE UNCHANGED <<generations, status, unforced>>
  /\ UNCHANGED <<reopening, losses, serverVars>>

-----------------------------------------------------------------------------
Next ==
  \/ Connected \/ ServerConnected \/ Refresh
  \/ TransportOpens \/ TransportFails \/ BackoffEnds
  \/ ServerRefuses \/ TransportLost \/ ServerDisconnects
  \/ Stop

Spec == Init /\ [][Next]_vars

(* The interval timer fires again and again, and a server that keeps a     *)
(* connection announces itself on it.                                      *)
TimerSpec == Spec /\ WF_vars(Refresh) /\ WF_vars(ServerConnected)

-----------------------------------------------------------------------------
(* Properties *)

TypeOK ==
  /\ link \in Links
  /\ {reopening, stopped, announced} \subseteq BOOLEAN
  /\ generation \in Nat
  /\ {subscribedGeneration, connectAttemptedGeneration} \subseteq {Unset} \cup (0..generation)
  /\ status \in [connected : BOOLEAN, serverConnected : BOOLEAN, generation : 0..generation,
                 subscriptions : {"pending", "attempted"}]
  /\ losses \in 0..MaxLosses
  /\ heard \subseteq {"early", "late"}

(* A generation sees one fallback round and one round on the server's      *)
(* announcement, however often the server repeats it and whatever refresh, *)
(* loss and reconnect come between (subscribeAll).                         *)
OneRoundPerReason == \A i, j \in 1..Len(unforced) : unforced[i] = unforced[j] => i = j

(* The published status is that of the socket through every order of       *)
(* connect, connected, connect_error, disconnect and stop().               *)
StatusIsTrue ==
  /\ status.connected <=> link = "connected"
  /\ status.serverConnected <=> link = "connected" /\ announced
  /\ status.generation = generation

(* No connection stays silent: the server of every connected socket has    *)
(* received a round on this very connection.                               *)
ConnectedIsSubscribed == link = "connected" => heard # {}

(* A connection that lasts gets a round after the server's announcement: a *)
(* refresh that fires between connect and connected makes the latter skip  *)
(* its round, and the next refresh makes up for it.                        *)
RefreshHeals == <>[](link = "connected") => <>("late" \in heard)

=============================================================================
