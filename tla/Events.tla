-------------------------------- MODULE Events --------------------------------
(***************************************************************************)
(* What happens to a domain event of the bot: event_bus.publish makes one  *)
(* task per handler, ws_dispatcher broadcasts to the connected clients     *)
(* (api/routes/ws.py), notification_dispatcher queues for Telegram and     *)
(* Discord.  All of it runs on one asyncio loop: a task runs until an      *)
(* await really suspends it, and only then another one does.  `running` is *)
(* the broadcast that has the loop.                                        *)
(***************************************************************************)
EXTENDS Integers, Sequences, FiniteSets, Lists

CONSTANTS
    Clients,      \* websocket connections, each made and lost once
    EventTypes,   \* types of the events that are published
    MaxEvents     \* bound: events published

ASSUME EventsAssumption == MaxEvents \in Nat

VARIABLES
    services,      \* started by lifespan, in order
    published,     \* types of the events published so far; an event is its position
    ready,         \* tasks of the loop not started yet: <<handler, event>>
    connections,   \* manager.active_connections
    closed,        \* clients whose connection is gone
    casts,         \* broadcasts: [pos, failed], or Idle
    waiting,       \* broadcasts that wait for a client to take what was sent, in order
    running,       \* the broadcast that has the loop, or None
    queue,         \* NotificationDispatcher._queue
    sending,       \* what its worker sends: <<event, channel>>, or Idle
    delivered,     \* events sent to each client, in order
    sent,          \* events each channel accepted, in order
    ghost          \* per event: audience, disturbed; per channel: refused

loopVars == <<services, published, ready, running>>
socketVars == <<connections, closed, casts, waiting, delivered>>
notifyVars == <<queue, sending, sent>>
vars == <<loopVars, socketVars, notifyVars, ghost>>

None == 0
Idle == <<>>
Lifespan == <<"notifier", "sockets", "runner">>
Channels == <<"telegram", "discord">>
Event == 1 .. MaxEvents

Started(service) == \E i \in DOMAIN services : services[i] = service

\* Ghosts: who was connected when a broadcast began; whom a client that left
\* meanwhile stood before in the list; what a channel refused.
Init ==
    /\ services = <<>> /\ published = <<>> /\ ready = <<>> /\ running = None
    /\ connections = <<>> /\ closed = {}
    /\ casts = [e \in Event |-> Idle]
    /\ waiting = [c \in Clients |-> <<>>]
    /\ queue = <<>> /\ sending = Idle
    /\ delivered = [c \in Clients |-> <<>>]
    /\ sent = [telegram |-> <<>>, discord |-> <<>>]
    /\ ghost = [audience |-> [e \in Event |-> {}], disturbed |-> [e \in Event |-> {}],
                refused |-> [telegram |-> {}, discord |-> {}]]

NextService == Lifespan[Len(services) + 1]
StartService ==
    /\ Len(services) < Len(Lifespan) /\ running = None
    /\ services' = Append(services, NextService)
    /\ UNCHANGED <<published, ready, running, socketVars, notifyVars, ghost>>

(* ------------------------------ the bus ---------------------------------- *)
Notified == {"TRANCHE_BOUGHT", "TRANCHE_SOLD", "BOT_LIFECYCLE_CHANGED", "CAPITAL_ADJUSTED",
             "SYSTEM_ALERT"}
Broadcasted == {"TRANCHE_BOUGHT", "TRANCHE_SOLD", "BOT_LIFECYCLE_CHANGED", "BOT_STATUS_UPDATED"}

\* The handlers of a type, in the order of their subscription.
Handlers(type) ==
    (IF type \in Notified /\ Started("notifier") THEN <<"notify">> ELSE <<>>)
    \o (IF type \in Broadcasted /\ Started("sockets") THEN <<"cast">> ELSE <<>>)

Publish(type) ==
    /\ Started("runner") /\ running = None /\ Len(published) < MaxEvents
    /\ published' = Append(published, type)
    /\ ready' = ready \o [i \in DOMAIN Handlers(type) |-> <<Handlers(type)[i], Len(published) + 1>>]
    /\ UNCHANGED <<services, running, socketVars, notifyVars, ghost>>

Connected == {connections[i] : i \in DOMAIN connections}

Queued(e) == Append(queue, e)

\* The task at the head starts: the notifier's only puts into its queue.
RunNotify ==
    /\ ready # <<>> /\ running = None /\ Head(ready)[1] = "notify"
    /\ queue' = Queued(Head(ready)[2])
    /\ ready' = Tail(ready)
    /\ UNCHANGED <<services, published, running, socketVars, sending, sent, ghost>>

RunCast ==
    /\ ready # <<>> /\ running = None /\ Head(ready)[1] = "cast"
    /\ LET e == Head(ready)[2]
       IN  /\ casts' = [casts EXCEPT ![e] = [pos |-> 0, failed |-> {}]]
           /\ running' = e
           /\ ghost' = [ghost EXCEPT !.audience[e] = Connected \ closed]
    /\ ready' = Tail(ready)
    /\ UNCHANGED <<services, published, connections, closed, waiting, delivered, notifyVars>>

(* ---------------------------- the websockets ----------------------------- *)
\* Removing from the list: every broadcast under way counts positions, so for
\* it the clients behind move up.
Without(gone) == Kept(connections, Connected \ gone)
Behind(gone) ==
    {connections[j] : j \in {k \in DOMAIN connections :
        \E i \in DOMAIN connections : i < k /\ connections[i] \in gone}}
Disturb(gone) ==
    ghost' = [ghost EXCEPT !.disturbed =
        [e \in Event |-> IF casts[e] = Idle THEN @[e] ELSE @[e] \cup Behind(gone)]]

\* Mutant: the iteration begins behind the first client.
FirstPosition(e) == IF casts[e].pos = 0 THEN 2 ELSE casts[e].pos + 1
\* The client the iterator over the live list comes to.
Position(e) == casts[e].pos + 1

\* send_text to the next client: an exception, or nothing, when its connection
\* is gone; written at once otherwise, and the task is suspended if the client
\* does not take it.
SendToNext(e) ==
    /\ running = e /\ e # None /\ Position(e) <= Len(connections)
    /\ LET c == connections[Position(e)]
       IN  \/ /\ c \in closed
              /\ \/ casts' = [casts EXCEPT ![e] = [pos |-> Position(e), failed |-> @.failed \cup {c}]]
                 \/ casts' = [casts EXCEPT ![e].pos = Position(e)]
              /\ UNCHANGED <<delivered, waiting, running>>
           \/ /\ c \notin closed
              /\ delivered' = [delivered EXCEPT ![c] = Append(@, e)]
              /\ casts' = [casts EXCEPT ![e].pos = Position(e)]
              /\ \/ /\ waiting[c] = <<>> /\ UNCHANGED <<waiting, running>>
                 \/ /\ waiting' = [waiting EXCEPT ![c] = Append(@, e)]
                    /\ running' = None
    /\ UNCHANGED <<services, published, ready, connections, closed, notifyVars, ghost>>

\* Who waits for a client goes on in the order they came.
Woken(c) == Head(waiting[c])
Unwoken(c) == Tail(waiting[c])

\* The slow client took the message, or its connection went away.
Resume(c) ==
    /\ waiting[c] # <<>> /\ running = None
    /\ LET e == Woken(c)
       IN  /\ running' = e
           /\ casts' = IF c \in closed THEN [casts EXCEPT ![e].failed = @ \cup {c}] ELSE casts
    /\ waiting' = [waiting EXCEPT ![c] = Unwoken(c)]
    /\ UNCHANGED <<services, published, ready, connections, closed, delivered, notifyVars, ghost>>

\* The end of the list: the clients that failed are removed.
FinishCast(e) ==
    /\ running = e /\ e # None /\ Position(e) > Len(connections)
    /\ connections' = Without(casts[e].failed)
    /\ Disturb(casts[e].failed \cap Connected)
    /\ casts' = [casts EXCEPT ![e] = Idle]
    /\ running' = None
    /\ UNCHANGED <<services, published, ready, closed, waiting, delivered, notifyVars>>

\* Mutant: the newest client comes first in the list.
ConnectFirst(c) ==
    /\ Len(services) = Len(Lifespan) /\ running = None
    /\ c \notin Connected \cup closed
    /\ connections' = <<c>> \o connections
    /\ UNCHANGED <<loopVars, closed, casts, waiting, delivered, notifyVars, ghost>>
\* accept, then append to the list.  Requests are served once lifespan is through.
Connect(c) ==
    /\ Len(services) = Len(Lifespan) /\ running = None
    /\ c \notin Connected \cup closed
    /\ connections' = Append(connections, c)
    /\ UNCHANGED <<loopVars, closed, casts, waiting, delivered, notifyVars, ghost>>

ConnectionLost(c) ==
    /\ c \in Connected \ closed
    /\ closed' = closed \cup {c}
    /\ UNCHANGED <<loopVars, connections, casts, waiting, delivered, notifyVars, ghost>>

\* Its endpoint notices: WebSocketDisconnect.
Disconnect(c) ==
    /\ c \in Connected \cap closed /\ running = None
    /\ connections' = Without({c})
    /\ Disturb({c})
    /\ UNCHANGED <<loopVars, closed, casts, waiting, delivered, notifyVars>>

(* --------------------------- the notifications --------------------------- *)
\* What a channel has a message for.
Speaks(channel, type) == channel = "discord" \/ type # "SYSTEM_ALERT"

TakeFromQueue ==
    /\ sending = Idle /\ queue # <<>> /\ running = None
    /\ sending' = <<Head(queue), "telegram">>
    /\ queue' = Tail(queue)
    /\ UNCHANGED <<loopVars, socketVars, sent, ghost>>

\* Mutant: a refusal of the first channel ends the event.
AfterStop(channel, accepted) ==
    IF channel = "telegram" /\ accepted THEN <<sending[1], "discord">> ELSE Idle
After(channel, accepted) == IF channel = "telegram" THEN <<sending[1], "discord">> ELSE Idle

\* One channel: it accepts, it refuses (or is not enabled), or it has nothing
\* to say.
SendToChannel(accepted) ==
    /\ sending # Idle /\ running = None
    /\ LET e == sending[1]
           channel == sending[2]
           speaks == Speaks(channel, published[e])
       IN  /\ sent' = IF speaks /\ accepted THEN [sent EXCEPT ![channel] = Append(@, e)] ELSE sent
           /\ ghost' = IF accepted THEN ghost ELSE [ghost EXCEPT !.refused[channel] = @ \cup {e}]
           /\ sending' = After(channel, accepted)
    /\ UNCHANGED <<loopVars, socketVars, queue>>

Loop ==
    \/ StartService \/ RunNotify \/ RunCast \/ TakeFromQueue
    \/ \E e \in Event : SendToNext(e) \/ FinishCast(e)

Next ==
    \/ Loop
    \/ \E type \in EventTypes : Publish(type)
    \/ \E c \in Clients : Connect(c) \/ ConnectionLost(c) \/ Disconnect(c) \/ Resume(c)
    \/ \E accepted \in BOOLEAN : SendToChannel(accepted)

Spec == Init /\ [][Next]_vars

\* The loop goes on with what is ready, and a request to a channel ends (both
\* have timeouts).  Nothing makes a client read.
Fairness ==
    /\ WF_vars(RunNotify) /\ WF_vars(RunCast) /\ WF_vars(TakeFromQueue)
    /\ \A e \in Event : WF_vars(SendToNext(e) \/ FinishCast(e))
    /\ WF_vars(\E accepted \in BOOLEAN : SendToChannel(accepted))
FairSpec == Spec /\ Fairness

-----------------------------------------------------------------------------
Published == DOMAIN published

Over(e) == e \in Published /\ casts[e] = Idle /\ \A i \in DOMAIN ready : ready[i] # <<"cast", e>>
Hears(c, e) == \E i \in DOMAIN delivered[c] : delivered[c][i] = e

\* Who is connected when a broadcast begins and stays connected is sent the
\* event, unless a client in front of it in the list left during the broadcast:
\* the iteration goes by position over a list that others change.
HeardUnlessDisturbed ==
    \A e \in Published : Over(e) =>
      \A c \in ghost.audience[e] \ (closed \cup ghost.disturbed[e]) : Hears(c, e)

\* Two broadcasts can be under way together.  While no other connection is lost,
\* a client gets each event once, in the order they were published: a slow client
\* holds back every broadcast that comes to it.
ClientOrder ==
    \A c \in Clients : closed \subseteq {c} =>
      \A i, j \in DOMAIN delivered[c] : i < j => delivered[c][i] < delivered[c][j]

\* Every event the operator is to be notified of is offered to Discord, also
\* while a websocket client does not read and its broadcasts never end.
NotifiedInTheEnd ==
    \A e \in Event :
      (e \in Published /\ published[e] \in Notified)
        ~> (e \in ghost.refused.discord \/ \E i \in DOMAIN sent.discord : sent.discord[i] = e)
=============================================================================
