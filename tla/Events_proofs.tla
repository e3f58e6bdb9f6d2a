---------------------------- MODULE Events_proofs ----------------------------
(***************************************************************************)
(* Proofs about Events: every client that stays is sent an event unless the *)
(* list moved in front of it (HeardByAll), and in the order of publication  *)
(* while no other connection is lost (HeardInOrder).  LoopInv says how the  *)
(* broadcasts under way stand to the tasks, the list and what waits;        *)
(* Reached carries the first theorem, InStep the second: an older broadcast *)
(* is ahead of a younger one in the list, or in front of it at the client   *)
(* both wait for.                                                           *)
(***************************************************************************)
EXTENDS Events, FoldFacts, TLAPS

\* What a broadcast under way and a task of the loop are, and what a state is
\* made of.
Cast == [pos : Nat, failed : SUBSET Clients]
Task == {"notify", "cast"} \X (1 .. Len(published))

LoopTyped ==
    /\ published \in Seq(EventTypes) /\ Len(published) <= MaxEvents
    /\ ready \in Seq(Task)
    /\ connections \in Seq(Clients) /\ closed \subseteq Clients
    /\ casts \in [Event -> Cast \cup {Idle}]
    /\ running \in Event \cup {None}
    /\ waiting \in [Clients -> Seq(Event)]
    /\ delivered \in [Clients -> Seq(Event)]
    /\ ghost = [audience |-> ghost.audience, disturbed |-> ghost.disturbed,
                refused |-> ghost.refused]
    /\ ghost.audience \in [Event -> SUBSET Clients]
    /\ ghost.disturbed \in [Event -> SUBSET Clients]

UnderWay == {e \in Event : casts[e] # Idle}

\* A client is in the list once, and what a broadcast will remove is gone.
ListedOnce == \A k, m \in DOMAIN connections : connections[k] = connections[m] => k = m
FailedAreClosed == \A e \in UnderWay : casts[e].failed \subseteq closed

\* The tasks that broadcast are in the order of their events, and come after
\* every event that a broadcast was begun for.
IsCast(i) == ready[i][1] = "cast"
TasksInOrder ==
    /\ \A i, j \in DOMAIN ready : IsCast(i) /\ IsCast(j) /\ i < j => ready[i][2] < ready[j][2]
    /\ \A i \in DOMAIN ready : IsCast(i) =>
         /\ casts[ready[i][2]] = Idle
         /\ \A e \in UnderWay : e < ready[i][2]
         /\ \A c \in Clients : \A j \in DOMAIN delivered[c] : delivered[c][j] < ready[i][2]
    /\ \A e \in UnderWay : e \in DOMAIN published
    /\ \A c \in Clients : \A j \in DOMAIN delivered[c] : delivered[c][j] \in DOMAIN published

\* A broadcast under way has the loop or waits at one place.
OnePlace ==
    /\ running # None => running \in UnderWay
    /\ \A c \in Clients : \A i \in DOMAIN waiting[c] :
         /\ waiting[c][i] \in UnderWay /\ waiting[c][i] # running
         /\ \A d \in Clients : \A j \in DOMAIN waiting[d] :
              waiting[c][i] = waiting[d][j] => c = d /\ i = j
    /\ \A e \in UnderWay : running = e \/ \E c \in Clients : \E i \in DOMAIN waiting[c] : waiting[c][i] = e

\* Who is connected and was never moved up is ahead of the iteration, or has
\* been sent the event.
Reached ==
    \A e \in UnderWay : \A c \in ghost.audience[e] \ (closed \cup ghost.disturbed[e]) :
      \E k \in DOMAIN connections : connections[k] = c /\ (k > casts[e].pos \/ Hears(c, e))

\* Nobody is to hear of an event that is not published.
NoneBefore == \A e \in Event \ Published : ghost.audience[e] = {}

LoopInv == LoopTyped /\ ListedOnce /\ FailedAreClosed /\ TasksInOrder /\ OnePlace
HeardInv == Reached /\ NoneBefore /\ HeardUnlessDisturbed

\* While no connection is lost, an older broadcast is ahead of a younger one:
\* it is further in the list, or in front of it at the client both wait for.
InStep ==
    /\ \A e \in UnderWay : casts[e].pos <= Len(connections)
    /\ \A e, x \in UnderWay : e < x =>
         casts[e].pos >= casts[x].pos /\ (running = x => casts[e].pos > casts[x].pos)
    /\ \A c \in Clients : \A i \in DOMAIN waiting[c] :
         /\ casts[waiting[c][i]].pos \in DOMAIN connections
         /\ connections[casts[waiting[c][i]].pos] = c
         /\ \A j \in DOMAIN waiting[c] : i < j => waiting[c][i] < waiting[c][j]
    /\ \A c \in Clients : \A j \in DOMAIN delivered[c] :
         LET x == delivered[c][j]
         IN  IF x \in UnderWay THEN \E k \in DOMAIN connections : k <= casts[x].pos /\ connections[k] = c
             ELSE \A e \in UnderWay : x < e
    /\ \A c \in Clients : c \notin Connected => delivered[c] = <<>>

OrderInv == (closed = {} => InStep) /\ ClientOrder

-----------------------------------------------------------------------------
LEMMA IdleIsNoCast == Idle \notin Cast
<1> SUFFICES ASSUME NEW r \in Cast PROVE r # Idle
  OBVIOUS
<1>1. "pos" \in DOMAIN r
  BY DEF Cast
<1>2. "pos" \notin DOMAIN Idle
  BY DEF Idle
<1> QED
  BY <1>1, <1>2

LEMMA EventsAre == MaxEvents \in Nat /\ Event \subseteq Nat /\ None \notin Event
BY EventsAssumption DEF Event, None

LEMMA CastsTyped ==
  ASSUME LoopTyped, NEW e \in UnderWay
  PROVE  /\ e \in Event /\ casts[e] \in Cast /\ casts[e].pos \in Nat /\ casts[e].failed \subseteq Clients
         /\ casts[e] = [pos |-> casts[e].pos, failed |-> casts[e].failed]
<1>1. e \in Event /\ casts[e] \in Cast
  BY DEF LoopTyped, UnderWay
<1> QED
  BY <1>1 DEF Cast

LEMMA TailIs ==
  ASSUME NEW V, NEW s \in Seq(V), s # <<>>
  PROVE  /\ Tail(s) \in Seq(V) /\ Len(s) \in Nat /\ Len(s) > 0 /\ DOMAIN Tail(s) = 1 .. Len(s) - 1
         /\ DOMAIN s = 1 .. Len(s) /\ 1 \in DOMAIN s /\ Head(s) = s[1] /\ Head(s) \in V
         /\ \A i \in 1 .. Len(s) - 1 : Tail(s)[i] = s[i + 1] /\ i + 1 \in DOMAIN s
OBVIOUS

LEMMA AppendIs ==
  ASSUME NEW V, NEW s \in Seq(V), NEW x \in V
  PROVE  /\ Append(s, x) \in Seq(V) /\ Len(s) \in Nat /\ DOMAIN s = 1 .. Len(s)
         /\ DOMAIN Append(s, x) = 1 .. Len(s) + 1 /\ Append(s, x)[Len(s) + 1] = x
         /\ \A i \in DOMAIN s : Append(s, x)[i] = s[i]
OBVIOUS

LEMMA ConcatIs ==
  ASSUME NEW V, NEW s \in Seq(V), NEW t \in Seq(V)
  PROVE  /\ s \o t \in Seq(V) /\ Len(s) \in Nat /\ DOMAIN s = 1 .. Len(s) /\ DOMAIN t = 1 .. Len(t)
         /\ \A i \in DOMAIN (s \o t) :
              \/ i \in DOMAIN s /\ (s \o t)[i] = s[i]
              \/ i > Len(s) /\ i - Len(s) \in DOMAIN t /\ (s \o t)[i] = t[i - Len(s)]
         /\ \A i \in DOMAIN s : i \in DOMAIN (s \o t) /\ (s \o t)[i] = s[i]
OBVIOUS

\* A list some of whose elements were taken out: as far as none was, everything
\* stands where it stood.
LEMMA StaysInPlace ==
  ASSUME NEW V, NEW list \in Seq(V), NEW keep, NEW k \in 0 .. Len(list),
         \A i \in 1 .. k : list[i] \in keep
  PROVE  \A i \in 1 .. k : i \in DOMAIN Kept(list, keep) /\ Kept(list, keep)[i] = list[i]
<1> DEFINE after == Kept(list, keep)
           n == Len(list)
<1>1. PICK from : KeptFrom(list, keep, n, after, from)
  BY KeptIs
<1> DEFINE m == Len(after)
           S == {j \in 0 .. k : \A i \in 1 .. j : i \in 1 .. m /\ from[i] = i}
<1>2. /\ after \in Seq(keep) /\ m \in Nat /\ n \in Nat /\ k \in Nat /\ k <= n /\ DOMAIN after = 1 .. m
      /\ from \in [1 .. m -> {i \in 1 .. n : list[i] \in keep}]
      /\ \A j \in 1 .. m : after[j] = list[from[j]]
      /\ \A i, j \in 1 .. m : i < j => from[i] < from[j]
      /\ \A i \in 1 .. n : list[i] \in keep => \E j \in 1 .. m : from[j] = i
  BY <1>1 DEF KeptFrom
<1> HIDE DEF after, m, n
<1>3. 0 \in S
  BY <1>2
<1>4. ASSUME NEW j \in 0 .. k - 1, j \in S
      PROVE  j + 1 \in S
  <2>1. j \in Nat /\ j + 1 \in 1 .. k /\ j + 1 \in 1 .. n /\ list[j + 1] \in keep
        /\ \A i \in 1 .. j : i \in 1 .. m /\ from[i] = i
    BY <1>2, <1>4
  <2>2. PICK x \in 1 .. m : from[x] = j + 1
    BY <1>2, <2>1
  <2>3. x > j
    <3>1. x <= j => from[x] = x
      BY <2>1
    <3> QED
      BY <2>1, <2>2, <3>1
  <2>4. j + 1 \in 1 .. m /\ j + 1 <= x
    BY <2>1, <2>3, <1>2
  <2>5. from[j + 1] \in 1 .. n
    BY <1>2, <2>4
  <2>6. from[j + 1] >= j + 1
    <3>1. CASE j = 0
      BY <2>5, <3>1
    <3>2. CASE j # 0
      <4>1. j \in 1 .. m /\ from[j] = j
        BY <2>1, <3>2
      <4>2. from[j] < from[j + 1]
        BY <1>2, <2>1, <2>4, <4>1
      <4> QED
        BY <2>1, <2>5, <4>1, <4>2
    <3> QED
      BY <3>1, <3>2
  <2>7. x = j + 1
    <3>1. j + 1 < x => from[j + 1] < from[x]
      BY <1>2, <2>4
    <3> QED
      BY <2>1, <2>2, <2>4, <2>5, <2>6, <3>1
  <2>8. \A i \in 1 .. j + 1 : i \in 1 .. m /\ from[i] = i
    BY <2>1, <2>2, <2>4, <2>7
  <2> QED
    BY <2>1, <2>8
<1>5. k \in S
  <2> HIDE DEF S
  <2>1. 0 .. k \subseteq S
    BY <1>2, <1>3, <1>4, UpTo
  <2> QED
    BY <1>2, <2>1
<1>6. \A i \in 1 .. k : i \in 1 .. m /\ from[i] = i
  BY <1>5
<1> QED
  BY <1>2, <1>6 DEF after

\* The list of clients without some that left.
LEMMA WhoStays ==
  ASSUME connections \in Seq(Clients), ListedOnce, NEW gone
  PROVE  LET after == Without(gone)
         IN  /\ after \in Seq(Clients)
             /\ \A k, m \in DOMAIN after : after[k] = after[m] => k = m
             /\ \A k \in DOMAIN after : after[k] \in Connected \ gone
             /\ \A k \in DOMAIN connections :
                  connections[k] \notin gone \cup Behind(gone) =>
                    k \in DOMAIN after /\ after[k] = connections[k]
             /\ gone \cap Connected = {} => DOMAIN after = DOMAIN connections /\ after = connections
<1> DEFINE keep == Connected \ gone
           after == Kept(connections, keep)
           n == Len(connections)
<1>0. Without(gone) = after
  BY DEF Without
<1>1. PICK from : KeptFrom(connections, keep, n, after, from)
  BY KeptIs
<1> DEFINE m == Len(after)
<1>2. /\ after \in Seq(keep) /\ m \in Nat /\ n \in Nat /\ DOMAIN after = 1 .. m
      /\ DOMAIN connections = 1 .. n
      /\ from \in [1 .. m -> {i \in 1 .. n : connections[i] \in keep}]
      /\ \A j \in 1 .. m : after[j] = connections[from[j]]
      /\ \A i, j \in 1 .. m : i < j => from[i] < from[j]
  <2> HIDE DEF keep
  <2>1. n \in Nat /\ DOMAIN connections = 1 .. n
    OBVIOUS
  <2> HIDE DEF after, n
  <2>2. after \in Seq(keep) /\ m \in Nat /\ DOMAIN after = 1 .. m
    BY <1>1 DEF KeptFrom
  <2>3. /\ from \in [1 .. m -> {i \in 1 .. n : connections[i] \in keep}]
        /\ \A j \in 1 .. m : after[j] = connections[from[j]]
        /\ \A i, j \in 1 .. m : i < j => from[i] < from[j]
    BY <1>1 DEF KeptFrom
  <2> QED
    BY <2>1, <2>2, <2>3
<1>3. keep \subseteq Clients
  BY DEF Connected
<1>4. ASSUME NEW k \in DOMAIN connections, connections[k] \notin gone \cup Behind(gone)
      PROVE  k \in DOMAIN after /\ after[k] = connections[k]
  <2>1. \A i \in 1 .. k : connections[i] \notin gone
    <3> SUFFICES ASSUME NEW i \in 1 .. k, connections[i] \in gone PROVE FALSE
      OBVIOUS
    <3>1. i \in DOMAIN connections /\ i < k
      <4>1. i # k
        BY <1>4
      <4> QED
        BY <1>2, <4>1
    <3>2. connections[k] \in Behind(gone)
      BY <3>1 DEF Behind
    <3> QED
      BY <1>4, <3>2
  <2>2. k \in 1 .. n /\ k \in 0 .. n /\ \A i \in 1 .. k : connections[i] \in keep
    BY <1>2, <2>1 DEF Connected
  <2> HIDE DEF keep
  <2>3. \A i \in 1 .. k : i \in DOMAIN after /\ after[i] = connections[i]
    BY <2>2, StaysInPlace
  <2> QED
    BY <2>2, <2>3
<1> HIDE DEF after, m, n
<1>5. after \in Seq(Clients)
  BY <1>2, <1>3, MoreValues
<1>6. \A k \in DOMAIN after : after[k] \in keep
  BY <1>2
<1>7. ASSUME NEW j \in 1 .. m, NEW k \in 1 .. m, after[j] = after[k]
      PROVE  j = k
  <2>1. from[j] \in 1 .. n /\ from[k] \in 1 .. n
    BY <1>2
  <2>2. connections[from[j]] = connections[from[k]]
    BY <1>2, <1>7
  <2>3. from[j] = from[k]
    BY <1>2, <2>1, <2>2 DEF ListedOnce
  <2> QED
    BY <1>2, <2>1, <2>3
<1>8. ASSUME gone \cap Connected = {}
      PROVE  DOMAIN after = DOMAIN connections /\ after = connections
  <2>1. \A k \in DOMAIN connections : connections[k] \notin gone \cup Behind(gone)
    BY <1>8 DEF Connected, Behind
  <2>2. \A k \in 1 .. n : k \in 1 .. m /\ after[k] = connections[k]
    BY <1>2, <1>4, <2>1
  <2>3. ASSUME NEW j \in 1 .. m PROVE j \in 1 .. n
    <3>1. PICK k \in 1 .. n : after[j] = connections[k]
      BY <1>2, <1>6 DEF Connected
    <3>2. k \in 1 .. m /\ after[k] = after[j]
      BY <2>2, <3>1
    <3>3. j = k
      BY <1>7, <3>2
    <3> QED
      BY <3>3
  <2>4. 1 .. m = 1 .. n
    BY <2>2, <2>3
  <2>5. m = n
    BY <1>2, <2>4
  <2>6. after = connections
    BY <1>2, <1>5, <2>2, <2>5 DEF m, n
  <2> QED
    BY <2>6
<1> QED
  BY <1>0, <1>2, <1>4, <1>5, <1>6, <1>7, <1>8

LEMMA HandlersAre ==
  ASSUME NEW type
  PROVE  /\ Handlers(type) \in Seq({"notify", "cast"}) /\ Len(Handlers(type)) \in Nat
         /\ DOMAIN Handlers(type) = 1 .. Len(Handlers(type))
         /\ \A i, j \in DOMAIN Handlers(type) :
              Handlers(type)[i] = "cast" /\ Handlers(type)[j] = "cast" => i = j
<1>1. \/ Handlers(type) = <<>> \o <<>> \/ Handlers(type) = <<"notify">> \o <<>>
      \/ Handlers(type) = <<>> \o <<"cast">> \/ Handlers(type) = <<"notify">> \o <<"cast">>
  BY DEF Handlers
<1>2. CASE Handlers(type) = <<>> \o <<>>
  BY <1>2
<1>3. CASE Handlers(type) = <<"notify">> \o <<>>
  BY <1>3
<1>4. CASE Handlers(type) = <<>> \o <<"cast">>
  BY <1>4
<1>5. CASE Handlers(type) = <<"notify">> \o <<"cast">>
  BY <1>5
<1> QED
  BY <1>1, <1>2, <1>3, <1>4, <1>5

\* A broadcast under way that changes stays under way.
LEMMA CastChanges ==
  ASSUME LoopTyped, NEW e \in UnderWay, NEW r \in Cast, casts' = [casts EXCEPT ![e] = r]
  PROVE  /\ UnderWay' = UnderWay /\ casts' \in [Event -> Cast \cup {Idle}]
         /\ casts'[e] = r /\ \A x \in Event : x # e => casts'[x] = casts[x]
<1>1. casts \in [Event -> Cast \cup {Idle}] /\ e \in Event
  BY DEF LoopTyped, UnderWay
<1>2. casts'[e] = r /\ \A x \in Event : x # e => casts'[x] = casts[x]
  BY <1>1
<1>3. casts' \in [Event -> Cast \cup {Idle}]
  BY <1>1
<1>4. r # Idle /\ casts[e] # Idle
  BY IdleIsNoCast DEF UnderWay
<1> QED
  BY <1>1, <1>2, <1>3, <1>4 DEF UnderWay

\* What only the notifications and the start of the services leave alone.
loopState == <<published, ready, running, connections, closed, casts, waiting, delivered>>
GhostKept == /\ ghost' = [audience |-> ghost'.audience, disturbed |-> ghost'.disturbed,
                          refused |-> ghost'.refused]
             /\ ghost'.audience = ghost.audience /\ ghost'.disturbed = ghost.disturbed

LEMMA QuietIsGhostKept ==
  ASSUME LoopTyped,
         \/ ghost' = ghost
         \/ \E channel, S : ghost' = [ghost EXCEPT !.refused[channel] = S]
  PROVE  GhostKept
<1>1. ghost = [audience |-> ghost.audience, disturbed |-> ghost.disturbed, refused |-> ghost.refused]
  BY DEF LoopTyped
<1>2. CASE ghost' = ghost
  BY <1>1, <1>2 DEF GhostKept
<1>3. CASE \E channel, S : ghost' = [ghost EXCEPT !.refused[channel] = S]
  <2>1. PICK channel, S : ghost' = [ghost EXCEPT !.refused[channel] = S]
    BY <1>3
  <2> DEFINE other == [ghost.refused EXCEPT ![channel] = S]
  <2>2. ghost' = [ghost EXCEPT !.refused = other]
    BY <1>1, <2>1
  <2> HIDE DEF other
  <2>3. ghost' = [audience |-> ghost.audience, disturbed |-> ghost.disturbed, refused |-> other]
    BY <1>1, <2>2
  <2> QED
    BY <2>3 DEF GhostKept
<1> QED
  BY <1>2, <1>3

LEMMA QuietKeepsLoop ==
  ASSUME LoopInv, UNCHANGED loopState, GhostKept
  PROVE  LoopInv'
<1>1. UnderWay' = UnderWay
  BY DEF loopState, UnderWay
<1>2. LoopTyped'
  BY DEF loopState, GhostKept, LoopInv, LoopTyped, Task
<1>3. ListedOnce' /\ FailedAreClosed'
  BY <1>1 DEF loopState, LoopInv, ListedOnce, FailedAreClosed
<1>4. TasksInOrder'
  BY <1>1 DEF loopState, LoopInv, TasksInOrder, IsCast
<1>5. OnePlace'
  BY <1>1 DEF loopState, LoopInv, OnePlace
<1> QED
  BY <1>2, <1>3, <1>4, <1>5 DEF LoopInv

LEMMA QuietSteps ==
  ASSUME LoopTyped, StartService \/ TakeFromQueue \/ (\E a \in BOOLEAN : SendToChannel(a)) \/ UNCHANGED vars
  PROVE  UNCHANGED loopState /\ GhostKept
<1>1. CASE StartService
  BY <1>1, QuietIsGhostKept DEF StartService, loopState, socketVars
<1>2. CASE TakeFromQueue
  BY <1>2, QuietIsGhostKept DEF TakeFromQueue, loopState, loopVars, socketVars
<1>3. CASE \E a \in BOOLEAN : SendToChannel(a)
  <2>1. PICK a \in BOOLEAN : SendToChannel(a)
    BY <1>3
  <2>2. ghost' = ghost \/ \E channel, S : ghost' = [ghost EXCEPT !.refused[channel] = S]
    <3>1. CASE a
      BY <2>1, <3>1 DEF SendToChannel
    <3>2. CASE ~a
      <4>1. ghost' = [ghost EXCEPT !.refused[sending[2]] = @ \cup {sending[1]}]
        BY <2>1, <3>2 DEF SendToChannel
      <4>2. ghost' = [ghost EXCEPT !.refused[sending[2]] = ghost.refused[sending[2]] \cup {sending[1]}]
        BY <4>1
      <4> QED
        BY <4>2
    <3> QED
      BY <3>1, <3>2
  <2> QED
    BY <2>1, <2>2, QuietIsGhostKept DEF SendToChannel, loopState, loopVars, socketVars
<1>4. CASE UNCHANGED vars
  BY <1>4, QuietIsGhostKept DEF vars, loopState, loopVars, socketVars
<1> QED
  BY <1>1, <1>2, <1>3, <1>4

LEMMA RunNotifyKeepsLoop ==
  ASSUME LoopInv, RunNotify
  PROVE  LoopInv'
<1>1. /\ ready # <<>> /\ ready' = Tail(ready)
      /\ UNCHANGED <<published, running, connections, closed, casts, waiting, delivered, ghost>>
  BY DEF RunNotify, socketVars
<1>2. UnderWay' = UnderWay /\ Task' = Task
  BY <1>1 DEF UnderWay, Task
<1>3. /\ ready' \in Seq(Task) /\ DOMAIN ready' = 1 .. Len(ready) - 1 /\ Len(ready) \in Nat
      /\ DOMAIN ready = 1 .. Len(ready)
      /\ \A i \in 1 .. Len(ready) - 1 : ready'[i] = ready[i + 1] /\ i + 1 \in DOMAIN ready
  BY <1>1, TailIs DEF LoopInv, LoopTyped
<1>4. LoopTyped'
  BY <1>1, <1>2, <1>3 DEF LoopInv, LoopTyped
<1>5. ListedOnce' /\ FailedAreClosed'
  BY <1>1, <1>2 DEF LoopInv, ListedOnce, FailedAreClosed
<1>6. OnePlace'
  BY <1>1, <1>2 DEF LoopInv, OnePlace
<1>7. TasksInOrder'
  <2>1. \A i, j \in DOMAIN ready' : IsCast(i)' /\ IsCast(j)' /\ i < j => ready'[i][2] < ready'[j][2]
    <3> SUFFICES ASSUME NEW i \in DOMAIN ready', NEW j \in DOMAIN ready', IsCast(i)', IsCast(j)', i < j
                 PROVE  ready'[i][2] < ready'[j][2]
      OBVIOUS
    <3>1. IsCast(i + 1) /\ IsCast(j + 1) /\ i + 1 < j + 1 /\ i + 1 \in DOMAIN ready /\ j + 1 \in DOMAIN ready
      BY <1>3 DEF IsCast
    <3> QED
      BY <1>3, <3>1 DEF LoopInv, TasksInOrder
  <2>2. ASSUME NEW i \in DOMAIN ready', IsCast(i)'
        PROVE  IsCast(i + 1) /\ i + 1 \in DOMAIN ready /\ ready'[i] = ready[i + 1]
    BY <1>3, <2>2 DEF IsCast
  <2> QED
    BY <1>1, <1>2, <2>1, <2>2 DEF LoopInv, TasksInOrder
<1> QED
  BY <1>4, <1>5, <1>6, <1>7 DEF LoopInv

LEMMA NewTasks ==
  ASSUME LoopInv, NEW type \in EventTypes, Publish(type)
  PROVE  LET new == Len(published) + 1
         IN  /\ new \in Event /\ new \in Nat /\ Len(published) \in Nat
             /\ published' \in Seq(EventTypes) /\ Len(published') = new
             /\ DOMAIN published = 1 .. Len(published) /\ DOMAIN published' = 1 .. new
             /\ ready' \in Seq(Task') /\ Len(ready) \in Nat /\ DOMAIN ready = 1 .. Len(ready)
             /\ \A i \in DOMAIN ready' :
                  \/ i \in DOMAIN ready /\ ready'[i] = ready[i]
                  \/ i > Len(ready) /\ ready'[i][2] = new
             /\ \A i, j \in DOMAIN ready' :
                  i \notin DOMAIN ready /\ j \notin DOMAIN ready /\ IsCast(i)' /\ IsCast(j)' => i = j
             /\ \A i \in DOMAIN ready : i \in DOMAIN ready' /\ ready'[i] = ready[i]
<1> DEFINE new == Len(published) + 1
           H == Handlers(type)
           tasks == [i \in DOMAIN H |-> <<H[i], new>>]
           Both == Task'
<1>1. /\ Len(published) < MaxEvents /\ published' = Append(published, type) /\ ready' = ready \o tasks
  BY DEF Publish
<1>2. /\ published \in Seq(EventTypes) /\ ready \in Seq(Task) /\ Len(published) \in Nat
      /\ MaxEvents \in Nat
  BY EventsAssumption DEF LoopInv, LoopTyped
<1>3. /\ published' \in Seq(EventTypes) /\ Len(published') = new
      /\ DOMAIN published = 1 .. Len(published) /\ DOMAIN published' = 1 .. new
  BY <1>1, <1>2
<1>4. new \in Nat /\ new \in Event
  BY <1>1, <1>2 DEF Event
<1>5. Task \subseteq Both /\ Both = {"notify", "cast"} \X (1 .. new)
  BY <1>2, <1>3 DEF Task
<1>6. ready \in Seq(Both)
  BY <1>2, <1>5, MoreValues
<1> HIDE DEF Both, H
<1>7. /\ H \in Seq({"notify", "cast"}) /\ Len(H) \in Nat /\ DOMAIN H = 1 .. Len(H)
      /\ \A i, j \in DOMAIN H : H[i] = "cast" /\ H[j] = "cast" => i = j
  BY HandlersAre DEF H
<1>8. tasks \in Seq(Both)
  <2>1. \A i \in DOMAIN H : H[i] \in {"notify", "cast"}
    BY <1>7
  <2>2. \A i \in DOMAIN H : <<H[i], new>> \in Both
    BY <1>4, <1>5, <2>1
  <2> QED
    BY <1>7, <2>2
<1>9. DOMAIN tasks = DOMAIN H /\ \A i \in DOMAIN H : tasks[i] = <<H[i], new>>
  OBVIOUS
<1> HIDE DEF tasks
<1>10. /\ ready' \in Seq(Both) /\ Len(ready) \in Nat /\ DOMAIN ready = 1 .. Len(ready)
       /\ \A i \in DOMAIN ready' :
            \/ i \in DOMAIN ready /\ ready'[i] = ready[i]
            \/ i > Len(ready) /\ i - Len(ready) \in DOMAIN tasks /\ ready'[i] = tasks[i - Len(ready)]
       /\ \A i \in DOMAIN ready : i \in DOMAIN ready' /\ ready'[i] = ready[i]
  BY <1>1, <1>6, <1>8, ConcatIs
<1>11. \A i \in DOMAIN ready' :
         \/ i \in DOMAIN ready /\ ready'[i] = ready[i]
         \/ i > Len(ready) /\ i - Len(ready) \in DOMAIN H /\ ready'[i] = <<H[i - Len(ready)], new>>
  BY <1>9, <1>10
<1>12. ASSUME NEW i \in DOMAIN ready', NEW j \in DOMAIN ready', i \notin DOMAIN ready, j \notin DOMAIN ready,
              IsCast(i)', IsCast(j)'
       PROVE  i = j
  <2>1. /\ i - Len(ready) \in DOMAIN H /\ H[i - Len(ready)] = "cast"
        /\ j - Len(ready) \in DOMAIN H /\ H[j - Len(ready)] = "cast"
    BY <1>11, <1>12 DEF IsCast
  <2>2. i - Len(ready) = j - Len(ready) /\ i \in Int /\ j \in Int
    BY <1>7, <1>10, <2>1
  <2> QED
    BY <1>10, <2>2
<1> QED
  BY <1>3, <1>4, <1>2, <1>10, <1>11, <1>12 DEF Both

LEMMA PublishKeepsLoop ==
  ASSUME LoopInv, NEW type \in EventTypes, Publish(type)
  PROVE  LoopInv'
<1> DEFINE new == Len(published) + 1
<1>1. UNCHANGED <<running, connections, closed, casts, waiting, delivered, ghost>>
  BY DEF Publish, socketVars
<1>2. UnderWay' = UnderWay
  BY <1>1 DEF UnderWay
<1>3. /\ new \in Event /\ new \in Nat /\ Len(published) \in Nat
      /\ published' \in Seq(EventTypes) /\ Len(published') = new
      /\ DOMAIN published = 1 .. Len(published) /\ DOMAIN published' = 1 .. new
      /\ ready' \in Seq(Task') /\ Len(ready) \in Nat /\ DOMAIN ready = 1 .. Len(ready)
  BY NewTasks
<1>4. /\ \A i \in DOMAIN ready' :
            \/ i \in DOMAIN ready /\ ready'[i] = ready[i]
            \/ i > Len(ready) /\ ready'[i][2] = new
      /\ \A i, j \in DOMAIN ready' :
            i \notin DOMAIN ready /\ j \notin DOMAIN ready /\ IsCast(i)' /\ IsCast(j)' => i = j
  BY NewTasks
<1> HIDE DEF new
<1>5. LoopTyped'
  <2>1. new <= MaxEvents
    BY <1>3, EventsAssumption DEF Event
  <2> QED
    BY <1>1, <1>3, <2>1 DEF LoopInv, LoopTyped
<1>6. ListedOnce' /\ FailedAreClosed'
  BY <1>1, <1>2 DEF LoopInv, ListedOnce, FailedAreClosed
<1>7. OnePlace'
  BY <1>1, <1>2 DEF LoopInv, OnePlace
<1>8. \A i \in DOMAIN ready : ready[i][2] \in 1 .. Len(published)
  BY DEF LoopInv, LoopTyped, Task
<1>9. ASSUME NEW i \in DOMAIN ready', NEW j \in DOMAIN ready', IsCast(i)', IsCast(j)', i < j
      PROVE  ready'[i][2] < ready'[j][2]
  <2>1. CASE j \in DOMAIN ready
    <3>1. i \in Nat /\ i \in DOMAIN ready
      BY <1>3, <1>9, <2>1
    <3>2. ready'[i] = ready[i] /\ ready'[j] = ready[j]
      BY <1>3, <1>4, <2>1, <3>1
    <3> QED
      BY <1>9, <2>1, <3>1, <3>2 DEF LoopInv, TasksInOrder, IsCast
  <2>2. CASE j \notin DOMAIN ready
    <3>1. ready'[j][2] = new /\ i \in DOMAIN ready /\ ready'[i] = ready[i]
      BY <1>3, <1>4, <1>9, <2>2
    <3> QED
      BY <1>3, <1>8, <3>1 DEF new
  <2> QED
    BY <2>1, <2>2
<1>10. ASSUME NEW i \in DOMAIN ready', IsCast(i)'
       PROVE  /\ casts[ready'[i][2]] = Idle
              /\ \A e \in UnderWay : e < ready'[i][2]
              /\ \A c \in Clients : \A j \in DOMAIN delivered[c] : delivered[c][j] < ready'[i][2]
  <2>1. CASE i \in DOMAIN ready
    <3>1. ready'[i] = ready[i] /\ IsCast(i)
      BY <1>3, <1>4, <1>10, <2>1 DEF IsCast
    <3> QED
      BY <2>1, <3>1 DEF LoopInv, TasksInOrder
  <2>2. CASE i \notin DOMAIN ready
    <3>1. ready'[i][2] = new
      BY <1>4, <2>2
    <3>2. /\ \A e \in UnderWay : e \in 1 .. Len(published)
          /\ \A c \in Clients : \A j \in DOMAIN delivered[c] : delivered[c][j] \in 1 .. Len(published)
      BY <1>3 DEF LoopInv, TasksInOrder
    <3>3. new \notin UnderWay
      BY <1>3, <3>2 DEF new
    <3>4. casts[new] = Idle
      BY <1>3, <3>3 DEF UnderWay
    <3> QED
      BY <1>3, <3>1, <3>2, <3>4 DEF new
  <2> QED
    BY <2>1, <2>2
<1>11. /\ \A e \in UnderWay : e \in DOMAIN published'
       /\ \A c \in Clients : \A j \in DOMAIN delivered[c] : delivered[c][j] \in DOMAIN published'
  <2>1. DOMAIN published \subseteq DOMAIN published'
    BY <1>3 DEF new
  <2> QED
    BY <2>1 DEF LoopInv, TasksInOrder
<1>12. TasksInOrder'
  BY <1>1, <1>2, <1>9, <1>10, <1>11 DEF TasksInOrder
<1> QED
  BY <1>5, <1>6, <1>7, <1>12 DEF LoopInv

\* A broadcast begins.
LEMMA CastBegins ==
  ASSUME LoopInv, RunCast
  PROVE  LET e == Head(ready)[2]
         IN  /\ e \in Event /\ e \in Published /\ e = ready[1][2] /\ IsCast(1) /\ 1 \in DOMAIN ready
             /\ casts[e] = Idle /\ e \notin UnderWay /\ running = None
             /\ casts' \in [Event -> Cast \cup {Idle}] /\ casts'[e] = [pos |-> 0, failed |-> {}]
             /\ \A x \in Event : x # e => casts'[x] = casts[x]
             /\ UnderWay' = UnderWay \cup {e} /\ running' = e
             /\ \A x \in UnderWay : x < e
             /\ \A c \in Clients : \A j \in DOMAIN delivered[c] : delivered[c][j] < e
             /\ ghost' = [audience |-> ghost'.audience, disturbed |-> ghost.disturbed, refused |-> ghost.refused]
             /\ ghost'.audience = [ghost.audience EXCEPT ![e] = Connected \ closed]
             /\ UNCHANGED <<published, connections, closed, waiting, delivered>>
             /\ ready # <<>> /\ ready' = Tail(ready)
<1> DEFINE e == Head(ready)[2]
           fresh == [pos |-> 0, failed |-> {}]
<1>1. /\ ready # <<>> /\ running = None /\ Head(ready)[1] = "cast" /\ ready' = Tail(ready)
      /\ casts' = [casts EXCEPT ![e] = fresh]
      /\ running' = e
      /\ ghost' = [ghost EXCEPT !.audience[e] = Connected \ closed]
      /\ UNCHANGED <<published, connections, closed, waiting, delivered>>
  BY DEF RunCast
<1>2. ready \in Seq(Task)
  BY DEF LoopInv, LoopTyped
<1>3. 1 \in DOMAIN ready /\ Head(ready) = ready[1] /\ Head(ready) \in Task
  BY <1>1, <1>2, TailIs
<1>4. e \in 1 .. Len(published) /\ e = ready[1][2] /\ IsCast(1)
  BY <1>1, <1>3 DEF Task, IsCast
<1> HIDE DEF e
<1>5. e \in Event /\ e \in Published
  BY <1>4, EventsAssumption DEF LoopInv, LoopTyped, Event, Published
<1>6. /\ casts[e] = Idle /\ (\A x \in UnderWay : x < e)
      /\ \A c \in Clients : \A j \in DOMAIN delivered[c] : delivered[c][j] < e
  BY <1>3, <1>4 DEF LoopInv, TasksInOrder
<1>7. fresh \in Cast
  BY DEF Cast
<1> HIDE DEF fresh
<1>8. fresh # Idle
  BY <1>7, IdleIsNoCast
<1>9. casts \in [Event -> Cast \cup {Idle}]
  BY DEF LoopInv, LoopTyped
<1>10. /\ casts' \in [Event -> Cast \cup {Idle}] /\ casts'[e] = fresh
       /\ \A x \in Event : x # e => casts'[x] = casts[x]
  BY <1>1, <1>5, <1>7, <1>9
<1>11. UnderWay' = UnderWay \cup {e} /\ e \notin UnderWay
  BY <1>5, <1>6, <1>8, <1>10 DEF UnderWay
<1>12. /\ ghost' = [audience |-> ghost'.audience, disturbed |-> ghost.disturbed, refused |-> ghost.refused]
       /\ ghost'.audience = [ghost.audience EXCEPT ![e] = Connected \ closed]
  <2> DEFINE other == [ghost.audience EXCEPT ![e] = Connected \ closed]
  <2>1. ghost = [audience |-> ghost.audience, disturbed |-> ghost.disturbed, refused |-> ghost.refused]
    BY DEF LoopInv, LoopTyped
  <2>2. ghost' = [ghost EXCEPT !.audience = other]
    BY <1>1, <2>1
  <2> HIDE DEF other
  <2>3. ghost' = [audience |-> other, disturbed |-> ghost.disturbed, refused |-> ghost.refused]
    BY <2>1, <2>2
  <2> QED
    BY <2>3 DEF other
<1> QED
  BY <1>1, <1>3, <1>4, <1>5, <1>6, <1>10, <1>11, <1>12 DEF e, fresh

LEMMA RunCastKeepsLoop ==
  ASSUME LoopInv, RunCast
  PROVE  LoopInv'
<1> DEFINE e == Head(ready)[2]
<1>1. /\ e \in Event /\ e \in Published /\ e = ready[1][2] /\ IsCast(1) /\ 1 \in DOMAIN ready
      /\ casts[e] = Idle /\ e \notin UnderWay /\ running = None
      /\ casts' \in [Event -> Cast \cup {Idle}] /\ casts'[e] = [pos |-> 0, failed |-> {}]
      /\ \A x \in Event : x # e => casts'[x] = casts[x]
      /\ UnderWay' = UnderWay \cup {e} /\ running' = e
      /\ \A x \in UnderWay : x < e
  BY CastBegins
<1>2. /\ ghost' = [audience |-> ghost'.audience, disturbed |-> ghost.disturbed, refused |-> ghost.refused]
      /\ ghost'.audience = [ghost.audience EXCEPT ![e] = Connected \ closed]
      /\ UNCHANGED <<published, connections, closed, waiting, delivered>>
      /\ ready # <<>> /\ ready' = Tail(ready)
  BY CastBegins
<1> HIDE DEF e
<1>3. /\ ready' \in Seq(Task) /\ DOMAIN ready' = 1 .. Len(ready) - 1 /\ Len(ready) \in Nat
      /\ DOMAIN ready = 1 .. Len(ready)
      /\ \A i \in 1 .. Len(ready) - 1 : ready'[i] = ready[i + 1] /\ i + 1 \in DOMAIN ready
  BY <1>2, TailIs DEF LoopInv, LoopTyped
<1>4. Task' = Task
  BY <1>2 DEF Task
<1>5. Connected \ closed \subseteq Clients
  BY DEF LoopInv, LoopTyped, Connected
<1>6. ghost'.audience \in [Event -> SUBSET Clients] /\ ghost'.disturbed = ghost.disturbed
  <2>1. ghost.audience \in [Event -> SUBSET Clients]
    BY DEF LoopInv, LoopTyped
  <2>2. ghost'.audience = [ghost.audience EXCEPT ![e] = Connected \ closed]
    BY <1>2
  <2>3. ghost'.disturbed = ghost.disturbed
    <3> DEFINE mine == ghost'.audience
    <3>1. ghost' = [audience |-> mine, disturbed |-> ghost.disturbed, refused |-> ghost.refused]
      BY <1>2
    <3> HIDE DEF mine
    <3> QED
      BY <3>1
  <2> QED
    BY <1>5, <2>1, <2>2, <2>3
<1>7. LoopTyped'
  <2>1. ghost' = [audience |-> ghost'.audience, disturbed |-> ghost'.disturbed, refused |-> ghost'.refused]
    BY <1>2
  <2>2. running' \in Event \cup {None}
    BY <1>1
  <2> HIDE <1>2
  <2> QED
    BY <1>1, <1>2, <1>3, <1>4, <1>6, <2>1, <2>2 DEF LoopInv, LoopTyped
<1>8. ListedOnce'
  BY <1>2 DEF LoopInv, ListedOnce
<1>9. FailedAreClosed'
  <2>1. \A x \in UnderWay : x # e /\ x \in Event
    BY <1>1 DEF UnderWay
  <2>2. \A x \in UnderWay' : casts'[x].failed \subseteq closed
    BY <1>1, <2>1 DEF LoopInv, FailedAreClosed
  <2> QED
    BY <1>2, <2>2 DEF FailedAreClosed
<1>10. OnePlace'
  <2>1. \A c \in Clients : \A i \in DOMAIN waiting[c] : waiting[c][i] \in UnderWay /\ waiting[c][i] # e
    BY <1>1 DEF LoopInv, OnePlace
  <2>2. \A x \in UnderWay : \E c \in Clients : \E i \in DOMAIN waiting[c] : waiting[c][i] = x
    <3>1. None \notin UnderWay
      BY EventsAre DEF UnderWay
    <3> QED
      BY <1>1, <3>1 DEF LoopInv, OnePlace
  <2> QED
    BY <1>1, <1>2, <2>1, <2>2 DEF LoopInv, OnePlace
<1>11. TasksInOrder'
  <2>1. ASSUME NEW i \in DOMAIN ready', IsCast(i)'
        PROVE  IsCast(i + 1) /\ i + 1 \in DOMAIN ready /\ ready'[i] = ready[i + 1] /\ i \in Nat
    BY <1>3, <2>1 DEF IsCast
  <2>2. \A i, j \in DOMAIN ready' : IsCast(i)' /\ IsCast(j)' /\ i < j => ready'[i][2] < ready'[j][2]
    <3> SUFFICES ASSUME NEW i \in DOMAIN ready', NEW j \in DOMAIN ready', IsCast(i)', IsCast(j)', i < j
                 PROVE  ready'[i][2] < ready'[j][2]
      OBVIOUS
    <3>1. IsCast(i + 1) /\ IsCast(j + 1) /\ i + 1 < j + 1 /\ i + 1 \in DOMAIN ready /\ j + 1 \in DOMAIN ready
      BY <2>1
    <3> QED
      BY <2>1, <3>1 DEF LoopInv, TasksInOrder
  <2>3. ASSUME NEW i \in DOMAIN ready', IsCast(i)'
        PROVE  /\ casts'[ready'[i][2]] = Idle
               /\ \A x \in UnderWay' : x < ready'[i][2]
               /\ \A c \in Clients : \A j \in DOMAIN delivered[c] : delivered[c][j] < ready'[i][2]
    <3>1. IsCast(i + 1) /\ i + 1 \in DOMAIN ready /\ ready'[i] = ready[i + 1] /\ i \in Nat /\ 1 < i + 1
      BY <1>3, <2>1, <2>3
    <3>2. e < ready[i + 1][2]
      BY <1>1, <3>1 DEF LoopInv, TasksInOrder
    <3>3. /\ casts[ready[i + 1][2]] = Idle
          /\ \A x \in UnderWay : x < ready[i + 1][2]
          /\ \A c \in Clients : \A j \in DOMAIN delivered[c] : delivered[c][j] < ready[i + 1][2]
      BY <3>1 DEF LoopInv, TasksInOrder
    <3>4. ready[i + 1][2] \in 1 .. Len(published)
      BY <3>1 DEF LoopInv, LoopTyped, Task
    <3>5. ready[i + 1][2] \in Event /\ ready[i + 1][2] # e
      BY <1>1, <3>2, <3>4, EventsAssumption DEF LoopInv, LoopTyped, Event
    <3> QED
      BY <1>1, <3>1, <3>2, <3>3, <3>5
  <2>4. \A x \in UnderWay' : x \in DOMAIN published
    BY <1>1 DEF LoopInv, TasksInOrder, Published
  <2> QED
    BY <1>2, <2>2, <2>3, <2>4 DEF LoopInv, TasksInOrder
<1> QED
  BY <1>7, <1>8, <1>9, <1>10, <1>11 DEF LoopInv

\* A broadcast that waited goes on.
LEMMA CastGoesOn ==
  ASSUME LoopInv, NEW c \in Clients, Resume(c)
  PROVE  LET e == waiting[c][1]
         IN  /\ e \in UnderWay /\ running = None /\ running' = e /\ 1 \in DOMAIN waiting[c]
             /\ UnderWay' = UnderWay /\ casts' \in [Event -> Cast \cup {Idle}]
             /\ casts'[e].pos = casts[e].pos
             /\ casts'[e].failed \subseteq casts[e].failed \cup (closed \cap {c})
             /\ \A x \in Event : x # e => casts'[x] = casts[x]
             /\ waiting' \in [Clients -> Seq(Event)]
             /\ DOMAIN waiting[c] = 1 .. Len(waiting[c]) /\ Len(waiting[c]) \in Nat
             /\ DOMAIN waiting'[c] = 1 .. Len(waiting[c]) - 1
             /\ \A i \in DOMAIN waiting'[c] : i + 1 \in DOMAIN waiting[c] /\ waiting'[c][i] = waiting[c][i + 1]
             /\ \A d \in Clients : d # c => waiting'[d] = waiting[d]
             /\ UNCHANGED <<published, ready, connections, closed, delivered, ghost>>
<1> DEFINE e == waiting[c][1]
<1>1. /\ waiting[c] # <<>> /\ running = None /\ running' = Head(waiting[c])
      /\ casts' = IF c \in closed THEN [casts EXCEPT ![Head(waiting[c])].failed = @ \cup {c}] ELSE casts
      /\ waiting' = [waiting EXCEPT ![c] = Tail(waiting[c])]
      /\ UNCHANGED <<published, ready, connections, closed, delivered, ghost>>
  BY DEF Resume, Woken, Unwoken
<1>2. waiting \in [Clients -> Seq(Event)] /\ waiting[c] \in Seq(Event)
  BY DEF LoopInv, LoopTyped
<1>3. /\ Tail(waiting[c]) \in Seq(Event) /\ Len(waiting[c]) \in Nat
      /\ DOMAIN Tail(waiting[c]) = 1 .. Len(waiting[c]) - 1
      /\ DOMAIN waiting[c] = 1 .. Len(waiting[c]) /\ 1 \in DOMAIN waiting[c] /\ Head(waiting[c]) = e
      /\ \A i \in 1 .. Len(waiting[c]) - 1 : Tail(waiting[c])[i] = waiting[c][i + 1] /\ i + 1 \in DOMAIN waiting[c]
  BY <1>1, <1>2, TailIs
<1>4. waiting' \in [Clients -> Seq(Event)] /\ waiting'[c] = Tail(waiting[c])
      /\ \A d \in Clients : d # c => waiting'[d] = waiting[d]
  BY <1>1, <1>2, <1>3
<1>5. e \in UnderWay
  BY <1>3 DEF LoopInv, OnePlace
<1> HIDE DEF e
<1>6. /\ e \in Event /\ casts[e] \in Cast /\ casts[e].pos \in Nat /\ casts[e].failed \subseteq Clients
      /\ casts[e] = [pos |-> casts[e].pos, failed |-> casts[e].failed]
  BY <1>5, CastsTyped DEF LoopInv
<1>7. /\ UnderWay' = UnderWay /\ casts' \in [Event -> Cast \cup {Idle}]
      /\ casts'[e].pos = casts[e].pos
      /\ casts'[e].failed \subseteq casts[e].failed \cup (closed \cap {c})
      /\ \A x \in Event : x # e => casts'[x] = casts[x]
  <2>1. CASE c \in closed
    <3> DEFINE r == [pos |-> casts[e].pos, failed |-> casts[e].failed \cup {c}]
    <3>1. r \in Cast
      BY <1>6 DEF Cast
    <3>2. casts' = [casts EXCEPT ![e] = r]
      <4>1. casts' = [casts EXCEPT ![e].failed = @ \cup {c}]
        BY <1>1, <1>3, <2>1
      <4>2. [casts[e] EXCEPT !.failed = casts[e].failed \cup {c}] = r
        BY <1>6
      <4>3. [casts EXCEPT ![e].failed = @ \cup {c}]
              = [casts EXCEPT ![e] = [casts[e] EXCEPT !.failed = casts[e].failed \cup {c}]]
        OBVIOUS
      <4> QED
        BY <4>1, <4>2, <4>3
    <3>3. r.pos = casts[e].pos /\ r.failed = casts[e].failed \cup {c}
      OBVIOUS
    <3> HIDE DEF r
    <3>4. /\ UnderWay' = UnderWay /\ casts' \in [Event -> Cast \cup {Idle}]
          /\ casts'[e] = r /\ \A x \in Event : x # e => casts'[x] = casts[x]
      BY <1>5, <3>1, <3>2, CastChanges DEF LoopInv
    <3> QED
      BY <2>1, <3>3, <3>4
  <2>2. CASE c \notin closed
    <3>1. casts' = casts
      BY <1>1, <2>2
    <3>2. UnderWay' = UnderWay
      BY <3>1 DEF UnderWay
    <3> QED
      BY <3>1, <3>2 DEF LoopInv, LoopTyped
  <2> QED
    BY <2>1, <2>2
<1> QED
  BY <1>1, <1>3, <1>4, <1>5, <1>7 DEF e

LEMMA ResumeKeepsLoop ==
  ASSUME LoopInv, NEW c \in Clients, Resume(c)
  PROVE  LoopInv'
<1> DEFINE e == waiting[c][1]
<1>1. /\ e \in UnderWay /\ running = None /\ running' = e /\ 1 \in DOMAIN waiting[c]
      /\ UnderWay' = UnderWay /\ casts' \in [Event -> Cast \cup {Idle}]
      /\ casts'[e].failed \subseteq casts[e].failed \cup (closed \cap {c})
      /\ \A x \in Event : x # e => casts'[x] = casts[x]
      /\ waiting' \in [Clients -> Seq(Event)]
      /\ DOMAIN waiting[c] = 1 .. Len(waiting[c]) /\ Len(waiting[c]) \in Nat
  BY CastGoesOn
<1>2. /\ DOMAIN waiting'[c] = 1 .. Len(waiting[c]) - 1
      /\ \A i \in DOMAIN waiting'[c] : i + 1 \in DOMAIN waiting[c] /\ waiting'[c][i] = waiting[c][i + 1]
      /\ \A d \in Clients : d # c => waiting'[d] = waiting[d]
      /\ UNCHANGED <<published, ready, connections, closed, delivered, ghost>>
  BY CastGoesOn
<1>3. e \in Event /\ None \notin UnderWay
  BY <1>1, EventsAre DEF UnderWay
<1>4. e = waiting[c][1]
  OBVIOUS
<1> HIDE DEF e
<1>5. LoopTyped'
  <2>1. Task' = Task /\ running' \in Event \cup {None}
    BY <1>1, <1>2, <1>3 DEF Task
  <2> QED
    BY <1>1, <1>2, <2>1 DEF LoopInv, LoopTyped
<1>6. ListedOnce'
  BY <1>2 DEF LoopInv, ListedOnce
<1>7. FailedAreClosed'
  <2>1. \A x \in UnderWay : casts'[x].failed \subseteq closed
    BY <1>1 DEF LoopInv, FailedAreClosed, UnderWay
  <2> QED
    BY <1>1, <1>2, <2>1 DEF FailedAreClosed
<1>8. TasksInOrder'
  <2>1. \A i \in DOMAIN ready : IsCast(i) => casts'[ready[i][2]] = Idle
    <3> SUFFICES ASSUME NEW i \in DOMAIN ready, IsCast(i) PROVE casts'[ready[i][2]] = Idle
      OBVIOUS
    <3>1. casts[ready[i][2]] = Idle
      BY DEF LoopInv, TasksInOrder
    <3>2. ready[i][2] \in Event
      <4>1. ready[i][2] \in 1 .. Len(published)
        BY DEF LoopInv, LoopTyped, Task
      <4> QED
        BY <4>1, EventsAssumption DEF LoopInv, LoopTyped, Event
    <3>3. ready[i][2] # e
      BY <1>1, <3>1 DEF UnderWay
    <3> QED
      BY <1>1, <3>1, <3>2, <3>3
  <2> QED
    BY <1>1, <1>2, <2>1 DEF LoopInv, TasksInOrder, IsCast
<1>9. OnePlace'
  <2>1. \A d \in Clients : \A i \in DOMAIN waiting'[d] :
          \E k \in DOMAIN waiting[d] :
            /\ waiting'[d][i] = waiting[d][k]
            /\ (d # c /\ k = i) \/ (d = c /\ k = i + 1 /\ k # 1)
    <3> SUFFICES ASSUME NEW d \in Clients, NEW i \in DOMAIN waiting'[d]
                 PROVE  \E k \in DOMAIN waiting[d] :
                          /\ waiting'[d][i] = waiting[d][k]
                          /\ (d # c /\ k = i) \/ (d = c /\ k = i + 1 /\ k # 1)
      OBVIOUS
    <3>1. CASE d = c
      <4>1. i \in 1 .. Len(waiting[c]) - 1
        BY <1>2, <3>1
      <4> QED
        BY <1>1, <1>2, <3>1, <4>1
    <3>2. CASE d # c
      BY <1>2, <3>2
    <3> QED
      BY <3>1, <3>2
  <2>2. \A d \in Clients : \A i \in DOMAIN waiting'[d] : waiting'[d][i] \in UnderWay /\ waiting'[d][i] # e
    <3> SUFFICES ASSUME NEW d \in Clients, NEW i \in DOMAIN waiting'[d]
                 PROVE  waiting'[d][i] \in UnderWay /\ waiting'[d][i] # e
      OBVIOUS
    <3>1. PICK k \in DOMAIN waiting[d] : /\ waiting'[d][i] = waiting[d][k]
                                         /\ (d # c /\ k = i) \/ (d = c /\ k = i + 1 /\ k # 1)
      BY <2>1
    <3> QED
      BY <1>1, <1>4, <3>1 DEF LoopInv, OnePlace
  <2>3. \A b, d \in Clients : \A i \in DOMAIN waiting'[b] : \A j \in DOMAIN waiting'[d] :
          waiting'[b][i] = waiting'[d][j] => b = d /\ i = j
    <3> SUFFICES ASSUME NEW b \in Clients, NEW d \in Clients, NEW i \in DOMAIN waiting'[b],
                        NEW j \in DOMAIN waiting'[d], waiting'[b][i] = waiting'[d][j]
                 PROVE  b = d /\ i = j
      OBVIOUS
    <3>1. PICK k \in DOMAIN waiting[b] : /\ waiting'[b][i] = waiting[b][k]
                                         /\ (b # c /\ k = i) \/ (b = c /\ k = i + 1 /\ k # 1)
      BY <2>1
    <3>2. PICK m \in DOMAIN waiting[d] : /\ waiting'[d][j] = waiting[d][m]
                                         /\ (d # c /\ m = j) \/ (d = c /\ m = j + 1 /\ m # 1)
      BY <2>1
    <3>3. b = d /\ k = m
      <4>1. waiting[b][k] = waiting[d][m]
        BY <3>1, <3>2
      <4> QED
        BY <4>1 DEF LoopInv, OnePlace
    <3>4. CASE b # c
      BY <3>1, <3>2, <3>3, <3>4
    <3>5. CASE b = c
      <4>1. i \in Int /\ j \in Int
        BY <1>2, <3>3, <3>5, <1>1
      <4> QED
        BY <3>1, <3>2, <3>3, <3>5, <4>1
    <3> QED
      BY <3>4, <3>5
  <2>4. \A x \in UnderWay : x = e \/ \E d \in Clients : \E i \in DOMAIN waiting'[d] : waiting'[d][i] = x
    <3> SUFFICES ASSUME NEW x \in UnderWay, x # e
                 PROVE  \E d \in Clients : \E i \in DOMAIN waiting'[d] : waiting'[d][i] = x
      OBVIOUS
    <3>1. PICK d \in Clients : \E i \in DOMAIN waiting[d] : waiting[d][i] = x
      BY <1>1, <1>3 DEF LoopInv, OnePlace
    <3>2. PICK i \in DOMAIN waiting[d] : waiting[d][i] = x
      BY <3>1
    <3>3. CASE d # c
      BY <1>2, <3>2, <3>3
    <3>4. CASE d = c
      <4>1. i \in 1 .. Len(waiting[c]) /\ i # 1
        BY <1>1, <1>4, <3>2, <3>4
      <4>2. i - 1 \in DOMAIN waiting'[c] /\ i - 1 + 1 = i
        BY <1>1, <1>2, <4>1
      <4>3. waiting'[c][i - 1] = x
        BY <1>2, <3>2, <3>4, <4>2
      <4> QED
        BY <4>2, <4>3
    <3> QED
      BY <3>3, <3>4
  <2> QED
    BY <1>1, <2>2, <2>3, <2>4 DEF OnePlace
<1> QED
  BY <1>5, <1>6, <1>7, <1>8, <1>9 DEF LoopInv

\* A broadcast that has the loop.
LEMMA RunsUnderWay ==
  ASSUME LoopInv, NEW e \in Event, running = e
  PROVE  e \in UnderWay /\ e # None
<1>1. e # None
  BY EventsAre
<1> QED
  BY <1>1 DEF LoopInv, OnePlace

\* A broadcast comes to the next client.
LEMMA CastSends ==
  ASSUME LoopInv, NEW e \in Event, SendToNext(e)
  PROVE  LET k == casts[e].pos + 1
             c == connections[k]
         IN  /\ e \in UnderWay /\ running = e /\ casts[e].pos \in Nat
             /\ k \in DOMAIN connections /\ DOMAIN connections = 1 .. Len(connections)
             /\ Len(connections) \in Nat /\ c \in Clients
             /\ UnderWay' = UnderWay /\ casts' \in [Event -> Cast \cup {Idle}]
             /\ casts'[e].pos = k /\ casts'[e].failed \subseteq casts[e].failed \cup (closed \cap {c})
             /\ \A x \in Event : x # e => casts'[x] = casts[x]
             /\ UNCHANGED <<published, ready, connections, closed, ghost>>
             /\ \/ c \in closed /\ UNCHANGED <<delivered, waiting, running>>
                \/ /\ c \notin closed /\ delivered' = [delivered EXCEPT ![c] = Append(delivered[c], e)]
                   /\ \/ waiting[c] = <<>> /\ UNCHANGED <<waiting, running>>
                      \/ waiting' = [waiting EXCEPT ![c] = Append(waiting[c], e)] /\ running' = None
<1> DEFINE k == casts[e].pos + 1
           c == connections[k]
           Outcome == \/ c \in closed /\ UNCHANGED <<delivered, waiting, running>>
                      \/ /\ c \notin closed /\ delivered' = [delivered EXCEPT ![c] = Append(delivered[c], e)]
                         /\ \/ waiting[c] = <<>> /\ UNCHANGED <<waiting, running>>
                            \/ waiting' = [waiting EXCEPT ![c] = Append(waiting[c], e)] /\ running' = None
<1>1. running = e /\ k <= Len(connections) /\ UNCHANGED <<published, ready, connections, closed, ghost>>
  BY DEF SendToNext, Position
<1>2. e \in UnderWay
  BY <1>1, RunsUnderWay
<1>3. /\ casts[e] \in Cast /\ casts[e].pos \in Nat /\ casts[e].failed \subseteq Clients
      /\ casts[e] = [pos |-> casts[e].pos, failed |-> casts[e].failed]
  BY <1>2, CastsTyped DEF LoopInv
<1>4. connections \in Seq(Clients)
  BY DEF LoopInv, LoopTyped
<1>5. /\ k \in DOMAIN connections /\ DOMAIN connections = 1 .. Len(connections)
      /\ Len(connections) \in Nat /\ c \in Clients /\ k \in Nat
  BY <1>1, <1>3, <1>4
<1>6. /\ \/ casts' = [casts EXCEPT ![e] = [pos |-> k, failed |-> @.failed \cup {c}]] /\ c \in closed
         \/ casts' = [casts EXCEPT ![e].pos = k]
      /\ Outcome
  <2>1. CASE c \in closed
    BY <1>1, <2>1 DEF SendToNext, Position
  <2>2. CASE c \notin closed
    BY <1>1, <2>2 DEF SendToNext, Position
  <2> QED
    BY <2>1, <2>2
<1> HIDE DEF k, c, Outcome
<1>7. /\ UnderWay' = UnderWay /\ casts' \in [Event -> Cast \cup {Idle}]
      /\ casts'[e].pos = k /\ casts'[e].failed \subseteq casts[e].failed \cup (closed \cap {c})
      /\ \A x \in Event : x # e => casts'[x] = casts[x]
  <2>1. \E F \in SUBSET Clients :
           /\ casts' = [casts EXCEPT ![e] = [pos |-> k, failed |-> F]]
           /\ F \subseteq casts[e].failed \cup (closed \cap {c})
    <3>1. CASE casts' = [casts EXCEPT ![e] = [pos |-> k, failed |-> @.failed \cup {c}]] /\ c \in closed
      <4>1. casts' = [casts EXCEPT ![e] = [pos |-> k, failed |-> casts[e].failed \cup {c}]]
        BY <3>1
      <4>2. casts[e].failed \cup {c} \in SUBSET Clients
        BY <1>3, <1>5
      <4> QED
        BY <3>1, <4>1, <4>2
    <3>2. CASE casts' = [casts EXCEPT ![e].pos = k]
      <4>1. casts' = [casts EXCEPT ![e] = [casts[e] EXCEPT !.pos = k]]
        BY <3>2
      <4>2. [casts[e] EXCEPT !.pos = k] = [pos |-> k, failed |-> casts[e].failed]
        BY <1>3
      <4>3. casts' = [casts EXCEPT ![e] = [pos |-> k, failed |-> casts[e].failed]]
        BY <4>1, <4>2
      <4> QED
        BY <1>3, <4>3
    <3> QED
      BY <1>6, <3>1, <3>2
  <2>2. PICK F \in SUBSET Clients :
           /\ casts' = [casts EXCEPT ![e] = [pos |-> k, failed |-> F]]
           /\ F \subseteq casts[e].failed \cup (closed \cap {c})
    BY <2>1
  <2> DEFINE r == [pos |-> k, failed |-> F]
  <2>3. r \in Cast /\ r.pos = k /\ r.failed = F
    BY <1>5 DEF Cast
  <2>4. casts' = [casts EXCEPT ![e] = r]
    BY <2>2
  <2> HIDE DEF r
  <2>5. /\ UnderWay' = UnderWay /\ casts' \in [Event -> Cast \cup {Idle}]
        /\ casts'[e] = r /\ \A x \in Event : x # e => casts'[x] = casts[x]
    BY <1>2, <2>3, <2>4, CastChanges DEF LoopInv
  <2> QED
    BY <2>2, <2>3, <2>5
<1> QED
  BY <1>1, <1>2, <1>3, <1>5, <1>6, <1>7 DEF k, c, Outcome

\* What a broadcast did to the sequences at the client it came to.
LEMMA SendChanges ==
  ASSUME LoopInv, NEW e \in Event, SendToNext(e)
  PROVE  LET c == connections[casts[e].pos + 1]
         IN  /\ delivered' \in [Clients -> Seq(Event)] /\ waiting' \in [Clients -> Seq(Event)]
             /\ \A d \in Clients :
                  /\ DOMAIN delivered[d] = 1 .. Len(delivered[d]) /\ Len(delivered[d]) \in Nat
                  /\ DOMAIN waiting[d] = 1 .. Len(waiting[d]) /\ Len(waiting[d]) \in Nat
                  /\ \A j \in DOMAIN delivered[d] : j \in DOMAIN delivered'[d] /\ delivered'[d][j] = delivered[d][j]
                  /\ \A j \in DOMAIN delivered'[d] :
                       \/ j \in DOMAIN delivered[d]
                       \/ d = c /\ c \notin closed /\ j = Len(delivered[d]) + 1 /\ delivered'[d][j] = e
                  /\ \A j \in DOMAIN waiting[d] : j \in DOMAIN waiting'[d] /\ waiting'[d][j] = waiting[d][j]
                  /\ \A j \in DOMAIN waiting'[d] :
                       \/ j \in DOMAIN waiting[d]
                       \/ d = c /\ j = Len(waiting[d]) + 1 /\ waiting'[d][j] = e /\ running' = None
             /\ c \notin closed => delivered'[c][Len(delivered[c]) + 1] = e /\ Len(delivered[c]) + 1 \in DOMAIN delivered'[c]
             /\ running' # None => running' = e
             /\ running' = None => waiting'[c][Len(waiting[c]) + 1] = e /\ Len(waiting[c]) + 1 \in DOMAIN waiting'[c]
<1> DEFINE c == connections[casts[e].pos + 1]
<1>1. c \in Clients /\ running = e /\ e # None
  BY CastSends, EventsAre
<1>2. \/ c \in closed /\ UNCHANGED <<delivered, waiting, running>>
      \/ /\ c \notin closed /\ delivered' = [delivered EXCEPT ![c] = Append(delivered[c], e)]
         /\ \/ waiting[c] = <<>> /\ UNCHANGED <<waiting, running>>
            \/ waiting' = [waiting EXCEPT ![c] = Append(waiting[c], e)] /\ running' = None
  BY CastSends
<1>3. delivered \in [Clients -> Seq(Event)] /\ waiting \in [Clients -> Seq(Event)]
  BY DEF LoopInv, LoopTyped
<1> HIDE DEF c
<1>4. \A d \in Clients :
        /\ DOMAIN delivered[d] = 1 .. Len(delivered[d]) /\ Len(delivered[d]) \in Nat
        /\ DOMAIN waiting[d] = 1 .. Len(waiting[d]) /\ Len(waiting[d]) \in Nat
        /\ delivered[d] \in Seq(Event) /\ waiting[d] \in Seq(Event)
  <2> SUFFICES ASSUME NEW d \in Clients
               PROVE  /\ DOMAIN delivered[d] = 1 .. Len(delivered[d]) /\ Len(delivered[d]) \in Nat
                      /\ DOMAIN waiting[d] = 1 .. Len(waiting[d]) /\ Len(waiting[d]) \in Nat
                      /\ delivered[d] \in Seq(Event) /\ waiting[d] \in Seq(Event)
    OBVIOUS
  <2>1. delivered[d] \in Seq(Event) /\ waiting[d] \in Seq(Event)
    BY <1>3
  <2> QED
    BY <2>1
<1> DEFINE ad == Append(delivered[c], e)
           aw == Append(waiting[c], e)
<1>5. /\ ad \in Seq(Event) /\ DOMAIN ad = 1 .. Len(delivered[c]) + 1 /\ ad[Len(delivered[c]) + 1] = e
      /\ \A j \in DOMAIN delivered[c] : ad[j] = delivered[c][j]
  BY <1>1, <1>4, AppendIs
<1>6. /\ aw \in Seq(Event) /\ DOMAIN aw = 1 .. Len(waiting[c]) + 1 /\ aw[Len(waiting[c]) + 1] = e
      /\ \A j \in DOMAIN waiting[c] : aw[j] = waiting[c][j]
  BY <1>1, <1>4, AppendIs
<1> HIDE DEF ad, aw
<1> DEFINE newD == c \notin closed
           newW == c \notin closed /\ running' = None
<1>7. /\ newD => delivered' = [delivered EXCEPT ![c] = ad]
      /\ ~newD => delivered' = delivered
  BY <1>2 DEF ad
<1>8. /\ newW => waiting' = [waiting EXCEPT ![c] = aw]
      /\ ~newW => waiting' = waiting /\ running' = e
  BY <1>1, <1>2 DEF aw
<1>9. /\ \A d \in Clients : d # c \/ ~newD => delivered'[d] = delivered[d]
      /\ newD => delivered'[c] = ad
      /\ delivered' \in [Clients -> Seq(Event)]
  BY <1>1, <1>3, <1>5, <1>7
<1>10. /\ \A d \in Clients : d # c \/ ~newW => waiting'[d] = waiting[d]
       /\ newW => waiting'[c] = aw
       /\ waiting' \in [Clients -> Seq(Event)]
  BY <1>1, <1>3, <1>6, <1>8
<1>11. ASSUME NEW d \in Clients
       PROVE  /\ \A j \in DOMAIN delivered[d] : j \in DOMAIN delivered'[d] /\ delivered'[d][j] = delivered[d][j]
              /\ \A j \in DOMAIN delivered'[d] :
                   \/ j \in DOMAIN delivered[d]
                   \/ d = c /\ c \notin closed /\ j = Len(delivered[d]) + 1 /\ delivered'[d][j] = e
  <2>1. CASE d # c \/ ~newD
    BY <1>9, <2>1
  <2>2. CASE d = c /\ newD
    <3>1. delivered'[d] = ad /\ DOMAIN delivered[c] = 1 .. Len(delivered[c]) /\ Len(delivered[c]) \in Nat
      BY <1>1, <1>4, <1>9, <2>2
    <3> QED
      BY <1>5, <2>2, <3>1
  <2> QED
    BY <2>1, <2>2
<1>12. ASSUME NEW d \in Clients
       PROVE  /\ \A j \in DOMAIN waiting[d] : j \in DOMAIN waiting'[d] /\ waiting'[d][j] = waiting[d][j]
              /\ \A j \in DOMAIN waiting'[d] :
                   \/ j \in DOMAIN waiting[d]
                   \/ d = c /\ j = Len(waiting[d]) + 1 /\ waiting'[d][j] = e /\ running' = None
  <2>1. CASE d # c \/ ~newW
    BY <1>10, <2>1
  <2>2. CASE d = c /\ newW
    <3>1. waiting'[d] = aw /\ DOMAIN waiting[c] = 1 .. Len(waiting[c]) /\ Len(waiting[c]) \in Nat
      BY <1>1, <1>4, <1>10, <2>2
    <3> QED
      BY <1>6, <2>2, <3>1
  <2> QED
    BY <2>1, <2>2
<1>13. c \notin closed => delivered'[c][Len(delivered[c]) + 1] = e /\ Len(delivered[c]) + 1 \in DOMAIN delivered'[c]
  <2>1. c \notin closed => delivered'[c] = ad
    BY <1>9
  <2>2. Len(delivered[c]) + 1 \in 1 .. Len(delivered[c]) + 1
    BY <1>1, <1>4
  <2> QED
    BY <1>5, <2>1, <2>2
<1>14. /\ running' # None => running' = e
       /\ running' = None => waiting'[c][Len(waiting[c]) + 1] = e /\ Len(waiting[c]) + 1 \in DOMAIN waiting'[c]
  <2>1. Len(waiting[c]) + 1 \in 1 .. Len(waiting[c]) + 1
    BY <1>1, <1>4
  <2> QED
    BY <1>1, <1>6, <1>8, <1>10, <2>1
<1> HIDE DEF newD, newW
<1> QED
  BY <1>4, <1>9, <1>10, <1>11, <1>12, <1>13, <1>14 DEF c

\* A task that is to start keeps finding no broadcast of its event.
LEMMA TasksStayFree ==
  ASSUME LoopInv, NEW e \in UnderWay, \A x \in Event : x # e => casts'[x] = casts[x]
  PROVE  \A i \in DOMAIN ready : IsCast(i) => casts'[ready[i][2]] = Idle
<1> SUFFICES ASSUME NEW i \in DOMAIN ready, IsCast(i) PROVE casts'[ready[i][2]] = Idle
  OBVIOUS
<1>1. casts[ready[i][2]] = Idle
  BY DEF LoopInv, TasksInOrder
<1>2. ready[i][2] \in Event
  <2>1. ready[i][2] \in 1 .. Len(published)
    BY DEF LoopInv, LoopTyped, Task
  <2> QED
    BY <2>1, EventsAssumption DEF LoopInv, LoopTyped, Event
<1>3. ready[i][2] # e
  BY <1>1 DEF UnderWay
<1> QED
  BY <1>1, <1>2, <1>3

LEMMA SendKeepsLoop ==
  ASSUME LoopInv, NEW e \in Event, SendToNext(e)
  PROVE  LoopInv'
<1> DEFINE k == casts[e].pos + 1
           c == connections[k]
<1>1. /\ e \in UnderWay /\ running = e /\ c \in Clients
      /\ UnderWay' = UnderWay /\ casts' \in [Event -> Cast \cup {Idle}]
      /\ casts'[e].failed \subseteq casts[e].failed \cup (closed \cap {c})
      /\ \A x \in Event : x # e => casts'[x] = casts[x]
      /\ UNCHANGED <<published, ready, connections, closed, ghost>>
  BY CastSends
<1>2. /\ delivered' \in [Clients -> Seq(Event)] /\ waiting' \in [Clients -> Seq(Event)]
      /\ \A d \in Clients :
           /\ \A j \in DOMAIN delivered'[d] :
                \/ j \in DOMAIN delivered[d] /\ delivered'[d][j] = delivered[d][j]
                \/ delivered'[d][j] = e
           /\ \A j \in DOMAIN waiting[d] : j \in DOMAIN waiting'[d] /\ waiting'[d][j] = waiting[d][j]
           /\ \A j \in DOMAIN waiting'[d] :
                \/ j \in DOMAIN waiting[d]
                \/ d = c /\ j = Len(waiting[d]) + 1 /\ waiting'[d][j] = e /\ running' = None
      /\ running' # None => running' = e
      /\ running' = None => waiting'[c][Len(waiting[c]) + 1] = e /\ Len(waiting[c]) + 1 \in DOMAIN waiting'[c]
  BY SendChanges
<1>3. e # None
  BY EventsAre
<1> HIDE DEF c
<1>4. LoopTyped'
  <2>1. Task' = Task /\ running' \in Event \cup {None}
    BY <1>1, <1>2 DEF Task
  <2> QED
    BY <1>1, <1>2, <2>1 DEF LoopInv, LoopTyped
<1>5. ListedOnce'
  BY <1>1 DEF LoopInv, ListedOnce
<1>6. FailedAreClosed'
  <2>1. \A x \in UnderWay : casts'[x].failed \subseteq closed
    BY <1>1 DEF LoopInv, FailedAreClosed, UnderWay
  <2> QED
    BY <1>1, <2>1 DEF FailedAreClosed
<1>7. TasksInOrder'
  <2>1. \A i \in DOMAIN ready : IsCast(i) => casts'[ready[i][2]] = Idle
    BY <1>1, TasksStayFree
  <2>2. \A i \in DOMAIN ready : IsCast(i) => e < ready[i][2]
    BY <1>1 DEF LoopInv, TasksInOrder
  <2>3. \A i \in DOMAIN ready : IsCast(i) =>
          \A d \in Clients : \A j \in DOMAIN delivered'[d] : delivered'[d][j] < ready[i][2]
    BY <1>2, <2>2 DEF LoopInv, TasksInOrder
  <2>4. \A d \in Clients : \A j \in DOMAIN delivered'[d] : delivered'[d][j] \in DOMAIN published
    <3>1. e \in DOMAIN published
      BY <1>1 DEF LoopInv, TasksInOrder
    <3>2. \A d \in Clients : \A j \in DOMAIN delivered[d] : delivered[d][j] \in DOMAIN published
      BY DEF LoopInv, TasksInOrder
    <3> QED
      BY <1>2, <3>1, <3>2
  <2> QED
    BY <1>1, <2>1, <2>3, <2>4 DEF LoopInv, TasksInOrder, IsCast
<1>8. OnePlace'
  <2>1. \A d \in Clients : \A i \in DOMAIN waiting[d] : waiting[d][i] \in UnderWay /\ waiting[d][i] # e
    BY <1>1 DEF LoopInv, OnePlace
  <2>2. \A d \in Clients : \A i \in DOMAIN waiting'[d] : waiting'[d][i] \in UnderWay /\ waiting'[d][i] # running'
    <3> SUFFICES ASSUME NEW d \in Clients, NEW i \in DOMAIN waiting'[d]
                 PROVE  waiting'[d][i] \in UnderWay /\ waiting'[d][i] # running'
      OBVIOUS
    <3>1. CASE i \in DOMAIN waiting[d]
      <4>1. waiting'[d][i] = waiting[d][i] /\ waiting[d][i] \in UnderWay /\ waiting[d][i] # e
        BY <1>2, <2>1, <3>1
      <4>2. None \notin UnderWay
        BY EventsAre DEF UnderWay
      <4> QED
        BY <1>2, <4>1, <4>2
    <3>2. CASE i \notin DOMAIN waiting[d]
      BY <1>1, <1>2, <1>3, <3>2
    <3> QED
      BY <3>1, <3>2
  <2>3. \A b, d \in Clients : \A i \in DOMAIN waiting'[b] : \A j \in DOMAIN waiting'[d] :
          waiting'[b][i] = waiting'[d][j] => b = d /\ i = j
    <3> SUFFICES ASSUME NEW b \in Clients, NEW d \in Clients, NEW i \in DOMAIN waiting'[b],
                        NEW j \in DOMAIN waiting'[d], waiting'[b][i] = waiting'[d][j]
                 PROVE  b = d /\ i = j
      OBVIOUS
    <3>1. CASE i \in DOMAIN waiting[b] /\ j \in DOMAIN waiting[d]
      <4>1. waiting[b][i] = waiting[d][j]
        BY <1>2, <3>1
      <4> QED
        BY <3>1, <4>1 DEF LoopInv, OnePlace
    <3>2. CASE i \in DOMAIN waiting[b] /\ j \notin DOMAIN waiting[d]
      <4>1. waiting[b][i] # e /\ waiting'[b][i] = waiting[b][i] /\ waiting'[d][j] = e
        BY <1>2, <2>1, <3>2
      <4> QED
        BY <4>1
    <3>3. CASE i \notin DOMAIN waiting[b] /\ j \in DOMAIN waiting[d]
      <4>1. waiting[d][j] # e /\ waiting'[d][j] = waiting[d][j] /\ waiting'[b][i] = e
        BY <1>2, <2>1, <3>3
      <4> QED
        BY <4>1
    <3>4. CASE i \notin DOMAIN waiting[b] /\ j \notin DOMAIN waiting[d]
      BY <1>2, <3>4
    <3> QED
      BY <3>1, <3>2, <3>3, <3>4
  <2>4. \A x \in UnderWay : running' = x \/ \E d \in Clients : \E i \in DOMAIN waiting'[d] : waiting'[d][i] = x
    <3> SUFFICES ASSUME NEW x \in UnderWay
                 PROVE  running' = x \/ \E d \in Clients : \E i \in DOMAIN waiting'[d] : waiting'[d][i] = x
      OBVIOUS
    <3>1. CASE x = e
      BY <1>1, <1>2, <3>1
    <3>2. CASE x # e
      <4>1. PICK d \in Clients : \E i \in DOMAIN waiting[d] : waiting[d][i] = x
        BY <1>1, <3>2 DEF LoopInv, OnePlace
      <4> QED
        BY <1>2, <4>1
    <3> QED
      BY <3>1, <3>2
  <2> QED
    BY <1>1, <1>2, <2>2, <2>3, <2>4 DEF OnePlace
<1> QED
  BY <1>4, <1>5, <1>6, <1>7, <1>8 DEF LoopInv

\* Whom a step took out of the list, a broadcast that is under way knows of.
LEMMA DisturbIs ==
  ASSUME LoopTyped, NEW gone, Disturb(gone)
  PROVE  /\ ghost' = [audience |-> ghost.audience, disturbed |-> ghost'.disturbed, refused |-> ghost.refused]
         /\ ghost'.audience = ghost.audience /\ ghost'.disturbed \in [Event -> SUBSET Clients]
         /\ \A e \in Event : ghost.disturbed[e] \subseteq ghost'.disturbed[e]
         /\ \A e \in UnderWay : ghost'.disturbed[e] = ghost.disturbed[e] \cup Behind(gone)
<1> DEFINE more == [e \in Event |-> IF casts[e] = Idle THEN ghost.disturbed[e]
                                    ELSE ghost.disturbed[e] \cup Behind(gone)]
<1>1. ghost = [audience |-> ghost.audience, disturbed |-> ghost.disturbed, refused |-> ghost.refused]
      /\ ghost.disturbed \in [Event -> SUBSET Clients]
  BY DEF LoopTyped
<1>2. ghost' = [ghost EXCEPT !.disturbed = more]
  BY <1>1 DEF Disturb
<1>3. Behind(gone) \subseteq Clients
  BY DEF LoopTyped, Behind
<1>4. more \in [Event -> SUBSET Clients]
  BY <1>1, <1>3
<1>5. /\ \A e \in Event : ghost.disturbed[e] \subseteq more[e]
      /\ \A e \in UnderWay : more[e] = ghost.disturbed[e] \cup Behind(gone)
  BY DEF UnderWay
<1> HIDE DEF more
<1>6. ghost' = [audience |-> ghost.audience, disturbed |-> more, refused |-> ghost.refused]
  BY <1>1, <1>2
<1>7. ghost'.disturbed = more /\ ghost'.audience = ghost.audience
  BY <1>6
<1> QED
  BY <1>4, <1>5, <1>6, <1>7

\* A broadcast is at its end.
LEMMA CastEnds ==
  ASSUME LoopInv, NEW e \in Event, FinishCast(e)
  PROVE  /\ e \in UnderWay /\ running = e /\ running' = None /\ casts[e].pos \in Nat
         /\ casts[e].pos + 1 > Len(connections) /\ Len(connections) \in Nat
         /\ casts' \in [Event -> Cast \cup {Idle}] /\ casts'[e] = Idle
         /\ \A x \in Event : x # e => casts'[x] = casts[x]
         /\ UnderWay' = UnderWay \ {e}
         /\ connections' = Without(casts[e].failed) /\ Disturb(casts[e].failed \cap Connected)
         /\ casts[e].failed \subseteq closed
         /\ UNCHANGED <<published, ready, closed, waiting, delivered>>
<1>1. /\ running = e /\ running' = None /\ casts[e].pos + 1 > Len(connections)
      /\ casts' = [casts EXCEPT ![e] = Idle]
      /\ connections' = Without(casts[e].failed) /\ Disturb(casts[e].failed \cap Connected)
      /\ UNCHANGED <<published, ready, closed, waiting, delivered>>
  BY DEF FinishCast, Position
<1>2. e \in UnderWay
  BY <1>1, RunsUnderWay
<1>3. casts[e].pos \in Nat
  BY <1>2, CastsTyped DEF LoopInv
<1>4. /\ casts' \in [Event -> Cast \cup {Idle}] /\ casts'[e] = Idle
      /\ \A x \in Event : x # e => casts'[x] = casts[x]
  BY <1>1 DEF LoopInv, LoopTyped
<1>5. UnderWay' = UnderWay \ {e}
  BY <1>4 DEF UnderWay
<1>6. Len(connections) \in Nat
  BY DEF LoopInv, LoopTyped
<1>7. casts[e].failed \subseteq closed
  BY <1>2 DEF LoopInv, FailedAreClosed
<1> QED
  BY <1>1, <1>2, <1>3, <1>4, <1>5, <1>6, <1>7

LEMMA FinishKeepsLoop ==
  ASSUME LoopInv, NEW e \in Event, FinishCast(e)
  PROVE  LoopInv'
<1>1. /\ e \in UnderWay /\ running = e /\ running' = None
      /\ casts' \in [Event -> Cast \cup {Idle}]
      /\ \A x \in Event : x # e => casts'[x] = casts[x]
      /\ UnderWay' = UnderWay \ {e} /\ casts'[e] = Idle
      /\ connections' = Without(casts[e].failed) /\ Disturb(casts[e].failed \cap Connected)
      /\ UNCHANGED <<published, ready, closed, waiting, delivered>>
  BY CastEnds
<1>2. /\ connections' \in Seq(Clients)
      /\ \A k, m \in DOMAIN connections' : connections'[k] = connections'[m] => k = m
  BY <1>1, WhoStays DEF LoopInv, LoopTyped
<1>3. /\ ghost' = [audience |-> ghost.audience, disturbed |-> ghost'.disturbed, refused |-> ghost.refused]
      /\ ghost'.audience = ghost.audience /\ ghost'.disturbed \in [Event -> SUBSET Clients]
  BY <1>1, DisturbIs DEF LoopInv
<1>4. LoopTyped'
  <2>1. Task' = Task /\ running' \in Event \cup {None}
    BY <1>1 DEF Task
  <2>2. ghost' = [audience |-> ghost'.audience, disturbed |-> ghost'.disturbed, refused |-> ghost'.refused]
    BY <1>3
  <2>3. ghost'.audience = ghost.audience /\ ghost'.disturbed \in [Event -> SUBSET Clients]
    BY <1>3
  <2> HIDE <1>3
  <2> QED
    BY <1>1, <1>2, <2>1, <2>2, <2>3 DEF LoopInv, LoopTyped
<1>5. ListedOnce'
  BY <1>2 DEF ListedOnce
<1>6. FailedAreClosed'
  <2>1. \A x \in UnderWay \ {e} : casts'[x].failed \subseteq closed
    BY <1>1 DEF LoopInv, FailedAreClosed, UnderWay
  <2> QED
    BY <1>1, <2>1 DEF FailedAreClosed
<1>7. TasksInOrder'
  <2>1. \A i \in DOMAIN ready : IsCast(i) => casts'[ready[i][2]] = Idle
    BY <1>1, TasksStayFree
  <2> QED
    BY <1>1, <2>1 DEF LoopInv, TasksInOrder, IsCast
<1>8. OnePlace'
  <2>1. \A d \in Clients : \A i \in DOMAIN waiting[d] : waiting[d][i] \in UnderWay \ {e} /\ waiting[d][i] # None
    <3>1. None \notin UnderWay
      BY EventsAre DEF UnderWay
    <3> QED
      BY <1>1, <3>1 DEF LoopInv, OnePlace
  <2>2. \A x \in UnderWay \ {e} : \E d \in Clients : \E i \in DOMAIN waiting[d] : waiting[d][i] = x
    BY <1>1 DEF LoopInv, OnePlace
  <2> QED
    BY <1>1, <2>1, <2>2 DEF LoopInv, OnePlace
<1> QED
  BY <1>4, <1>5, <1>6, <1>7, <1>8 DEF LoopInv

LEMMA DisconnectKeepsLoop ==
  ASSUME LoopInv, NEW c \in Clients, Disconnect(c)
  PROVE  LoopInv'
<1>1. /\ connections' = Without({c}) /\ Disturb({c})
      /\ UNCHANGED <<published, ready, running, casts, closed, waiting, delivered>>
  BY DEF Disconnect, loopVars
<1>2. UnderWay' = UnderWay /\ Task' = Task
  BY <1>1 DEF UnderWay, Task
<1>3. /\ connections' \in Seq(Clients)
      /\ \A k, m \in DOMAIN connections' : connections'[k] = connections'[m] => k = m
  BY <1>1, WhoStays DEF LoopInv, LoopTyped
<1>4. /\ ghost' = [audience |-> ghost.audience, disturbed |-> ghost'.disturbed, refused |-> ghost.refused]
      /\ ghost'.audience = ghost.audience /\ ghost'.disturbed \in [Event -> SUBSET Clients]
  BY <1>1, DisturbIs DEF LoopInv
<1>5. LoopTyped'
  <2>1. ghost' = [audience |-> ghost'.audience, disturbed |-> ghost'.disturbed, refused |-> ghost'.refused]
    BY <1>4
  <2>2. ghost'.audience = ghost.audience /\ ghost'.disturbed \in [Event -> SUBSET Clients]
    BY <1>4
  <2> HIDE <1>4
  <2> QED
    BY <1>1, <1>2, <1>3, <2>1, <2>2 DEF LoopInv, LoopTyped
<1>6. ListedOnce'
  BY <1>3 DEF ListedOnce
<1>7. FailedAreClosed' /\ TasksInOrder'
  BY <1>1, <1>2 DEF LoopInv, FailedAreClosed, TasksInOrder, IsCast
<1>8. OnePlace'
  BY <1>1, <1>2 DEF LoopInv, OnePlace
<1> QED
  BY <1>5, <1>6, <1>7, <1>8 DEF LoopInv

\* A client is the last of the list.
LEMMA Joins ==
  ASSUME LoopTyped, NEW c \in Clients, Connect(c)
  PROVE  /\ connections' \in Seq(Clients) /\ Len(connections) \in Nat
         /\ DOMAIN connections = 1 .. Len(connections) /\ DOMAIN connections' = 1 .. Len(connections) + 1
         /\ connections'[Len(connections) + 1] = c /\ c \notin closed
         /\ \A k \in DOMAIN connections : connections'[k] = connections[k] /\ connections[k] # c
         /\ UNCHANGED <<published, ready, running, casts, closed, waiting, delivered, ghost>>
<1>1. /\ connections' = Append(connections, c) /\ c \notin Connected /\ c \notin closed
      /\ UNCHANGED <<published, ready, running, casts, closed, waiting, delivered, ghost>>
  BY DEF Connect, loopVars
<1>2. connections \in Seq(Clients)
  BY DEF LoopTyped
<1> QED
  BY <1>1, <1>2, AppendIs DEF Connected

LEMMA ConnectKeepsLoop ==
  ASSUME LoopInv, NEW c \in Clients, Connect(c)
  PROVE  LoopInv'
<1>1. /\ connections' \in Seq(Clients) /\ Len(connections) \in Nat
      /\ DOMAIN connections = 1 .. Len(connections) /\ DOMAIN connections' = 1 .. Len(connections) + 1
      /\ connections'[Len(connections) + 1] = c
      /\ \A k \in DOMAIN connections : connections'[k] = connections[k] /\ connections[k] # c
      /\ UNCHANGED <<published, ready, running, casts, closed, waiting, delivered, ghost>>
  BY Joins DEF LoopInv
<1>2. UnderWay' = UnderWay /\ Task' = Task
  BY <1>1 DEF UnderWay, Task
<1>3. LoopTyped'
  BY <1>1, <1>2 DEF LoopInv, LoopTyped
<1>4. ListedOnce'
  <2> SUFFICES ASSUME NEW k \in DOMAIN connections', NEW m \in DOMAIN connections',
                      connections'[k] = connections'[m]
               PROVE  k = m
    BY DEF ListedOnce
  <2>1. \A i \in DOMAIN connections' : i \in DOMAIN connections \/ i = Len(connections) + 1
    BY <1>1
  <2>2. CASE k \in DOMAIN connections /\ m \in DOMAIN connections
    <3>1. connections[k] = connections[m]
      BY <1>1, <2>2
    <3> QED
      BY <2>2, <3>1 DEF LoopInv, ListedOnce
  <2> QED
    BY <1>1, <2>1, <2>2
<1>5. FailedAreClosed' /\ TasksInOrder'
  BY <1>1, <1>2 DEF LoopInv, FailedAreClosed, TasksInOrder, IsCast
<1>6. OnePlace'
  BY <1>1, <1>2 DEF LoopInv, OnePlace
<1> QED
  BY <1>3, <1>4, <1>5, <1>6 DEF LoopInv

LEMMA LostKeepsLoop ==
  ASSUME LoopInv, NEW c \in Clients, ConnectionLost(c)
  PROVE  LoopInv'
<1>1. /\ closed' = closed \cup {c}
      /\ UNCHANGED <<published, ready, running, connections, casts, waiting, delivered, ghost>>
  BY DEF ConnectionLost, loopVars
<1>2. UnderWay' = UnderWay /\ Task' = Task
  BY <1>1 DEF UnderWay, Task
<1>3. LoopTyped'
  BY <1>1, <1>2 DEF LoopInv, LoopTyped
<1>4. ListedOnce' /\ FailedAreClosed' /\ TasksInOrder'
  BY <1>1, <1>2 DEF LoopInv, ListedOnce, FailedAreClosed, TasksInOrder, IsCast
<1>5. OnePlace'
  BY <1>1, <1>2 DEF LoopInv, OnePlace
<1> QED
  BY <1>3, <1>4, <1>5 DEF LoopInv

LEMMA LoopBegins == Init => LoopInv
<1> SUFFICES ASSUME Init PROVE LoopInv
  OBVIOUS
<1>1. UnderWay = {}
  BY DEF Init, UnderWay
<1>2. LoopTyped
  <2>1. ghost = [audience |-> ghost.audience, disturbed |-> ghost.disturbed, refused |-> ghost.refused]
        /\ ghost.audience \in [Event -> SUBSET Clients] /\ ghost.disturbed \in [Event -> SUBSET Clients]
    BY DEF Init
  <2>2. published = <<>> /\ ready = <<>> /\ connections = <<>> /\ closed = {} /\ running = None
        /\ casts = [e \in Event |-> Idle] /\ waiting = [c \in Clients |-> <<>>]
        /\ delivered = [c \in Clients |-> <<>>]
    BY DEF Init
  <2> QED
    BY <2>1, <2>2, EventsAssumption DEF LoopTyped
<1>3. ListedOnce /\ FailedAreClosed
  BY <1>1 DEF Init, ListedOnce, FailedAreClosed
<1>4. TasksInOrder
  BY <1>1 DEF Init, TasksInOrder
<1>5. OnePlace
  BY <1>1 DEF Init, OnePlace
<1> QED
  BY <1>2, <1>3, <1>4, <1>5 DEF LoopInv

LEMMA StepIs ==
  ASSUME [Next]_vars
  PROVE  \/ StartService \/ TakeFromQueue \/ (\E a \in BOOLEAN : SendToChannel(a)) \/ UNCHANGED vars
         \/ RunNotify \/ RunCast
         \/ \E type \in EventTypes : Publish(type)
         \/ \E e \in Event : SendToNext(e)
         \/ \E e \in Event : FinishCast(e)
         \/ \E c \in Clients : Resume(c)
         \/ \E c \in Clients : Connect(c)
         \/ \E c \in Clients : ConnectionLost(c)
         \/ \E c \in Clients : Disconnect(c)
BY Zenon DEF Next, Loop

LEMMA LoopGoesOn == LoopInv /\ [Next]_vars => LoopInv'
<1> SUFFICES ASSUME LoopInv, [Next]_vars PROVE LoopInv'
  OBVIOUS
<1>1. CASE StartService \/ TakeFromQueue \/ (\E a \in BOOLEAN : SendToChannel(a)) \/ UNCHANGED vars
  BY <1>1, QuietSteps, QuietKeepsLoop DEF LoopInv
<1> QED
  BY <1>1, StepIs, RunNotifyKeepsLoop, RunCastKeepsLoop, PublishKeepsLoop, SendKeepsLoop, FinishKeepsLoop,
     ResumeKeepsLoop, ConnectKeepsLoop, LostKeepsLoop, DisconnectKeepsLoop

\* The list, the tasks, the broadcasts and who waits stand to each other as the
\* loop of api/routes/ws.py and event_bus.py leaves them after every step.
THEOREM LoopHolds == Spec => []LoopInv
BY LoopBegins, LoopGoesOn, PTL DEF Spec

LEMMA PublishedAre == LoopInv => Published \subseteq Event
<1> SUFFICES ASSUME LoopInv PROVE Published \subseteq Event
  OBVIOUS
<1>1. Len(published) \in Nat /\ Len(published) <= MaxEvents /\ Published = 1 .. Len(published)
  BY DEF LoopInv, LoopTyped, Published
<1> QED
  BY <1>1, EventsAssumption DEF Event

LEMMA QuietHears ==
  ASSUME LoopInv, HeardInv, UNCHANGED loopState, GhostKept
  PROVE  HeardInv'
<1>1. UnderWay' = UnderWay /\ Published' = Published
  BY DEF loopState, UnderWay, Published
<1>2. \A e \in Published : Over(e)' = Over(e)
  BY <1>1 DEF loopState, Over
<1>3. \A c \in Clients, e \in Event : Hears(c, e)' = Hears(c, e)
  BY DEF loopState, Hears
<1>4. Reached' /\ NoneBefore'
  BY <1>1, <1>3 DEF loopState, GhostKept, HeardInv, Reached, NoneBefore, Hears
<1>5. HeardUnlessDisturbed'
  BY <1>1, <1>2 DEF loopState, GhostKept, HeardInv, HeardUnlessDisturbed, Hears
<1> QED
  BY <1>4, <1>5 DEF HeardInv

LEMMA RunNotifyHears ==
  ASSUME LoopInv, HeardInv, RunNotify
  PROVE  HeardInv'
<1>1. /\ ready # <<>> /\ ready' = Tail(ready) /\ Head(ready)[1] = "notify"
      /\ UNCHANGED <<published, running, connections, closed, casts, waiting, delivered, ghost>>
  BY DEF RunNotify, socketVars
<1>2. UnderWay' = UnderWay /\ Published' = Published
  BY <1>1 DEF UnderWay, Published
<1>3. /\ DOMAIN ready' = 1 .. Len(ready) - 1 /\ Len(ready) \in Nat
      /\ DOMAIN ready = 1 .. Len(ready) /\ Head(ready) = ready[1]
      /\ \A i \in 1 .. Len(ready) - 1 : ready'[i] = ready[i + 1]
  BY <1>1, TailIs DEF LoopInv, LoopTyped
<1>4. ASSUME NEW e \in Published, Over(e)' PROVE Over(e)
  <2>1. ASSUME NEW i \in DOMAIN ready, ready[i] = <<"cast", e>> PROVE FALSE
    <3>1. i # 1
      BY <1>1, <1>3, <2>1
    <3>2. i - 1 \in DOMAIN ready' /\ ready'[i - 1] = ready[i]
      BY <1>3, <3>1
    <3> QED
      BY <1>4, <2>1, <3>2 DEF Over
  <2> QED
    BY <1>1, <1>2, <1>4, <2>1 DEF Over
<1>5. Reached' /\ NoneBefore'
  BY <1>1, <1>2 DEF HeardInv, Reached, NoneBefore, Hears
<1>6. HeardUnlessDisturbed'
  BY <1>1, <1>2, <1>4 DEF HeardInv, HeardUnlessDisturbed, Hears
<1> QED
  BY <1>5, <1>6 DEF HeardInv

LEMMA PublishHears ==
  ASSUME LoopInv, HeardInv, NEW type \in EventTypes, Publish(type)
  PROVE  HeardInv'
<1> DEFINE new == Len(published) + 1
<1>1. UNCHANGED <<running, connections, closed, casts, waiting, delivered, ghost>>
  BY DEF Publish, socketVars
<1>2. /\ new \in Event /\ Published = 1 .. Len(published) /\ Published' = 1 .. new /\ Len(published) \in Nat
      /\ \A i \in DOMAIN ready : i \in DOMAIN ready' /\ ready'[i] = ready[i]
  BY NewTasks DEF Published
<1>3. Published' = Published \cup {new} /\ new \notin Published
  BY <1>2
<1> HIDE DEF new
<1>4. ASSUME NEW e \in Published, Over(e)' PROVE Over(e)
  BY <1>1, <1>2, <1>4 DEF Over
<1>5. ghost.audience[new] = {}
  BY <1>2, <1>3 DEF HeardInv, NoneBefore
<1>6. UnderWay' = UnderWay
  BY <1>1 DEF UnderWay
<1>7. Reached' /\ NoneBefore'
  BY <1>1, <1>3, <1>6 DEF HeardInv, Reached, NoneBefore, Hears
<1>8. HeardUnlessDisturbed'
  <2> SUFFICES ASSUME NEW e \in Published', Over(e)', NEW c \in ghost.audience[e] \ (closed \cup ghost.disturbed[e])
               PROVE  Hears(c, e)'
    BY <1>1 DEF HeardUnlessDisturbed
  <2>1. e \in Published
    BY <1>3, <1>5
  <2>2. Hears(c, e)
    BY <1>4, <2>1 DEF HeardInv, HeardUnlessDisturbed
  <2> QED
    BY <1>1, <2>2 DEF Hears
<1> QED
  BY <1>7, <1>8 DEF HeardInv

LEMMA RunCastHears ==
  ASSUME LoopInv, HeardInv, RunCast
  PROVE  HeardInv'
<1> DEFINE e == Head(ready)[2]
<1>1. /\ e \in Event /\ e \in Published /\ e = ready[1][2]
      /\ e \notin UnderWay
      /\ casts'[e] = [pos |-> 0, failed |-> {}]
      /\ \A x \in Event : x # e => casts'[x] = casts[x]
      /\ UnderWay' = UnderWay \cup {e}
  BY CastBegins
<1>2. /\ ghost' = [audience |-> ghost'.audience, disturbed |-> ghost.disturbed, refused |-> ghost.refused]
      /\ ghost'.audience = [ghost.audience EXCEPT ![e] = Connected \ closed]
      /\ UNCHANGED <<published, connections, closed, waiting, delivered>>
      /\ ready # <<>> /\ ready' = Tail(ready)
  BY CastBegins
<1> HIDE DEF e
<1>3. /\ DOMAIN ready' = 1 .. Len(ready) - 1 /\ Len(ready) \in Nat
      /\ DOMAIN ready = 1 .. Len(ready)
      /\ \A i \in 1 .. Len(ready) - 1 : ready'[i] = ready[i + 1]
  BY <1>2, TailIs DEF LoopInv, LoopTyped
<1>4. /\ ghost'.audience[e] = Connected \ closed
      /\ \A x \in Event : x # e => ghost'.audience[x] = ghost.audience[x]
  BY <1>1, <1>2 DEF LoopInv, LoopTyped
<1>5. ghost'.disturbed = ghost.disturbed
  <2> DEFINE mine == ghost'.audience
  <2>1. ghost' = [audience |-> mine, disturbed |-> ghost.disturbed, refused |-> ghost.refused]
    BY <1>2
  <2> HIDE DEF mine
  <2> QED
    BY <2>1
<1>6. Published' = Published /\ Published \subseteq Event
  BY <1>2, PublishedAre DEF Published
<1>7. ASSUME NEW x \in Published, Over(x)' PROVE x # e /\ Over(x)
  <2>1. casts'[x] = Idle
    BY <1>7 DEF Over
  <2>2. x # e
    <3> DEFINE r == [pos |-> 0, failed |-> {}]
    <3>1. r \in Cast
      BY DEF Cast
    <3> HIDE DEF r
    <3>2. casts'[e] # Idle
      BY <1>1, <3>1, IdleIsNoCast DEF r
    <3> QED
      BY <2>1, <3>2
  <2>3. ASSUME NEW i \in DOMAIN ready, ready[i] = <<"cast", x>> PROVE FALSE
    <3>1. i # 1
      BY <1>1, <2>2, <2>3
    <3>2. i - 1 \in DOMAIN ready' /\ ready'[i - 1] = ready[i]
      BY <1>3, <3>1
    <3> QED
      BY <1>7, <2>3, <3>2 DEF Over
  <2>4. casts[x] = Idle
    BY <1>1, <1>6, <2>1, <2>2
  <2> QED
    BY <2>2, <2>3, <2>4 DEF Over
<1>8. NoneBefore'
  BY <1>1, <1>4, <1>6 DEF HeardInv, NoneBefore
<1>9. HeardUnlessDisturbed'
  <2> SUFFICES ASSUME NEW x \in Published, Over(x)', NEW c \in ghost'.audience[x] \ (closed \cup ghost.disturbed[x])
               PROVE  Hears(c, x)'
    BY <1>2, <1>5, <1>6 DEF HeardUnlessDisturbed
  <2>1. x # e /\ Over(x) /\ ghost'.audience[x] = ghost.audience[x]
    BY <1>4, <1>6, <1>7
  <2>2. Hears(c, x)
    BY <2>1 DEF HeardInv, HeardUnlessDisturbed
  <2> QED
    BY <1>2, <2>2 DEF Hears
<1>10. Reached'
  <2>1. connections' = connections /\ closed' = closed /\ delivered' = delivered
    BY <1>2
  <2> SUFFICES ASSUME NEW x \in UnderWay', NEW c \in ghost'.audience[x] \ (closed \cup ghost.disturbed[x])
               PROVE  \E k \in DOMAIN connections : connections[k] = c /\ (k > casts'[x].pos \/ Hears(c, x)')
    BY <1>5, <2>1 DEF Reached
  <2>2. CASE x = e
    <3>1. PICK k \in DOMAIN connections : connections[k] = c
      BY <1>4, <2>2 DEF Connected
    <3>2. k > 0 /\ casts'[x].pos = 0
      <4>1. connections \in Seq(Clients)
        BY DEF LoopInv, LoopTyped
      <4> QED
        BY <1>1, <2>2, <4>1
    <3> QED
      BY <3>1, <3>2
  <2>3. CASE x # e
    <3>1. x \in UnderWay /\ x \in Event
      BY <1>1, <2>3 DEF UnderWay
    <3>2. casts'[x] = casts[x] /\ ghost'.audience[x] = ghost.audience[x]
      BY <1>1, <1>4, <2>3, <3>1
    <3>3. PICK k \in DOMAIN connections : connections[k] = c /\ (k > casts[x].pos \/ Hears(c, x))
      BY <3>1, <3>2 DEF HeardInv, Reached
    <3> QED
      BY <2>1, <3>2, <3>3 DEF Hears
  <2> QED
    BY <2>2, <2>3
<1> QED
  BY <1>8, <1>9, <1>10 DEF HeardInv

\* While the broadcast `e` goes on, another event is over just when it was.
LEMMA OverIsOver ==
  ASSUME LoopInv, NEW e \in Event, casts'[e] # Idle, \A x \in Event : x # e => casts'[x] = casts[x],
         UNCHANGED <<published, ready>>
  PROVE  \A x \in Published : Over(x)' => Over(x)
<1>1. Published' = Published /\ Published \subseteq Event
  BY PublishedAre DEF Published
<1> QED
  BY <1>1 DEF Over

LEMMA SendHears ==
  ASSUME LoopInv, HeardInv, NEW e \in Event, SendToNext(e)
  PROVE  HeardInv'
<1> DEFINE k == casts[e].pos + 1
           d == connections[k]
<1>1. /\ e \in UnderWay /\ casts[e].pos \in Nat /\ k \in DOMAIN connections
      /\ DOMAIN connections = 1 .. Len(connections) /\ d \in Clients /\ Len(connections) \in Nat
      /\ UnderWay' = UnderWay /\ casts'[e].pos = k
      /\ \A x \in Event : x # e => casts'[x] = casts[x]
      /\ UNCHANGED <<published, ready, connections, closed, ghost>>
  BY CastSends
<1>2. /\ \A c \in Clients : \A j \in DOMAIN delivered[c] : j \in DOMAIN delivered'[c] /\ delivered'[c][j] = delivered[c][j]
      /\ d \notin closed => delivered'[d][Len(delivered[d]) + 1] = e /\ Len(delivered[d]) + 1 \in DOMAIN delivered'[d]
  BY SendChanges
<1>3. d = connections[k] /\ k = casts[e].pos + 1
  OBVIOUS
<1> HIDE DEF k, d
<1>4. casts'[e] # Idle
  BY <1>1 DEF UnderWay
<1>5. \A x \in Published : Over(x)' => Over(x)
  BY <1>1, <1>4, OverIsOver
<1>6. \A c \in Clients, x \in Event : Hears(c, x) => Hears(c, x)'
  BY <1>2 DEF Hears
<1>7. Published' = Published /\ Published \subseteq Event
  BY <1>1, PublishedAre DEF Published
<1>8. NoneBefore'
  BY <1>1, <1>7 DEF HeardInv, NoneBefore
<1>9. \A x \in Event : ghost.audience[x] \subseteq Clients
  BY DEF LoopInv, LoopTyped
<1>10. HeardUnlessDisturbed'
  <2> SUFFICES ASSUME NEW x \in Published, Over(x)', NEW c \in ghost.audience[x] \ (closed \cup ghost.disturbed[x])
               PROVE  Hears(c, x)'
    BY <1>1, <1>7 DEF HeardUnlessDisturbed
  <2>1. Hears(c, x)
    BY <1>5 DEF HeardInv, HeardUnlessDisturbed
  <2> QED
    BY <1>6, <1>7, <1>9, <2>1
<1>11. Reached'
  <2> SUFFICES ASSUME NEW x \in UnderWay, NEW c \in ghost.audience[x] \ (closed \cup ghost.disturbed[x])
               PROVE  \E m \in DOMAIN connections : connections[m] = c /\ (m > casts'[x].pos \/ Hears(c, x)')
    BY <1>1 DEF Reached
  <2>1. x \in Event /\ c \in Clients
    BY <1>9 DEF UnderWay
  <2>2. PICK m \in DOMAIN connections : connections[m] = c /\ (m > casts[x].pos \/ Hears(c, x))
    BY DEF HeardInv, Reached
  <2>3. CASE x = e
    <3>1. CASE m = k
      <4>1. Hears(c, e)'
        BY <1>2, <1>3, <2>2, <3>1 DEF Hears
      <4> QED
        BY <2>2, <2>3, <4>1
    <3>2. CASE m # k
      <4>1. m > casts'[x].pos \/ Hears(c, x)
        <5>1. m \in Nat
          BY <1>1
        <5> QED
          BY <1>1, <1>3, <2>2, <2>3, <3>2, <5>1
      <4> QED
        BY <1>6, <2>1, <2>2, <4>1
    <3> QED
      BY <3>1, <3>2
  <2>4. CASE x # e
    BY <1>1, <1>6, <2>1, <2>2, <2>4
  <2> QED
    BY <2>3, <2>4
<1> QED
  BY <1>8, <1>10, <1>11 DEF HeardInv

LEMMA ResumeHears ==
  ASSUME LoopInv, HeardInv, NEW c \in Clients, Resume(c)
  PROVE  HeardInv'
<1> DEFINE e == waiting[c][1]
<1>1. /\ e \in UnderWay /\ UnderWay' = UnderWay /\ casts'[e].pos = casts[e].pos
      /\ \A x \in Event : x # e => casts'[x] = casts[x]
      /\ UNCHANGED <<published, ready, connections, closed, delivered, ghost>>
  BY CastGoesOn
<1> HIDE DEF e
<1>2. casts'[e] # Idle /\ e \in Event
  BY <1>1 DEF UnderWay
<1>3. \A x \in Published : Over(x)' => Over(x)
  BY <1>1, <1>2, OverIsOver
<1>4. \A x \in UnderWay : casts'[x].pos = casts[x].pos
  BY <1>1 DEF UnderWay
<1>5. Published' = Published
  BY <1>1 DEF Published
<1>6. NoneBefore' /\ Reached'
  BY <1>1, <1>4, <1>5 DEF HeardInv, NoneBefore, Reached, Hears
<1>7. HeardUnlessDisturbed'
  BY <1>1, <1>3, <1>5 DEF HeardInv, HeardUnlessDisturbed, Hears
<1> QED
  BY <1>6, <1>7 DEF HeardInv

\* Clients are taken out of the list; for who stands behind them that is a
\* disturbance, everybody else stays at its place.
LEMMA RemovalKeepsReached ==
  ASSUME LoopInv, Reached, NEW gone, gone \subseteq closed, connections' = Without(gone),
         Disturb(gone) \/ Disturb(gone \cap Connected), UNCHANGED <<closed, delivered>>,
         UnderWay' \subseteq UnderWay, \A x \in UnderWay' : casts'[x] = casts[x]
  PROVE  /\ Reached' /\ ghost'.audience = ghost.audience
         /\ \A x \in Event : ghost.disturbed[x] \subseteq ghost'.disturbed[x]
<1>1. Behind(gone \cap Connected) = Behind(gone)
  BY DEF Behind, Connected
<1>2. /\ ghost'.audience = ghost.audience
      /\ \A x \in Event : ghost.disturbed[x] \subseteq ghost'.disturbed[x]
      /\ \A x \in UnderWay : ghost'.disturbed[x] = ghost.disturbed[x] \cup Behind(gone)
  BY <1>1, DisturbIs DEF LoopInv
<1>3. \A k \in DOMAIN connections :
        connections[k] \notin gone \cup Behind(gone) => k \in DOMAIN connections' /\ connections'[k] = connections[k]
  BY WhoStays DEF LoopInv, LoopTyped
<1>4. Reached'
  <2> SUFFICES ASSUME NEW x \in UnderWay', NEW c \in ghost.audience[x] \ (closed \cup ghost'.disturbed[x])
               PROVE  \E m \in DOMAIN connections' : connections'[m] = c /\ (m > casts[x].pos \/ Hears(c, x)')
    BY <1>2 DEF Reached
  <2>1. x \in UnderWay /\ c \notin Behind(gone) /\ c \notin gone /\ c \notin ghost.disturbed[x]
    BY <1>2
  <2>2. PICK m \in DOMAIN connections : connections[m] = c /\ (m > casts[x].pos \/ Hears(c, x))
    BY <2>1 DEF Reached
  <2>3. m \in DOMAIN connections' /\ connections'[m] = c
    BY <1>3, <2>1, <2>2
  <2> QED
    BY <2>2, <2>3 DEF Hears
<1> QED
  BY <1>2, <1>4

LEMMA FinishHears ==
  ASSUME LoopInv, HeardInv, NEW e \in Event, FinishCast(e)
  PROVE  HeardInv'
<1>1. /\ e \in UnderWay /\ casts[e].pos \in Nat
      /\ casts[e].pos + 1 > Len(connections) /\ Len(connections) \in Nat
      /\ \A x \in Event : x # e => casts'[x] = casts[x]
      /\ UnderWay' = UnderWay \ {e}
      /\ connections' = Without(casts[e].failed) /\ Disturb(casts[e].failed \cap Connected)
      /\ casts[e].failed \subseteq closed
      /\ UNCHANGED <<published, ready, closed, waiting, delivered>>
  BY CastEnds
<1>2. \A x \in UnderWay' : casts'[x] = casts[x]
  BY <1>1 DEF UnderWay
<1>3. /\ Reached' /\ ghost'.audience = ghost.audience
      /\ \A x \in Event : ghost.disturbed[x] \subseteq ghost'.disturbed[x]
  BY <1>1, <1>2, RemovalKeepsReached DEF HeardInv
<1>4. Published' = Published /\ Published \subseteq Event
  BY <1>1, PublishedAre DEF Published
<1>5. NoneBefore'
  BY <1>3, <1>4 DEF HeardInv, NoneBefore
<1>6. \A c \in ghost.audience[e] \ (closed \cup ghost.disturbed[e]) : Hears(c, e)
  <2> SUFFICES ASSUME NEW c \in ghost.audience[e] \ (closed \cup ghost.disturbed[e]) PROVE Hears(c, e)
    OBVIOUS
  <2>1. PICK k \in DOMAIN connections : connections[k] = c /\ (k > casts[e].pos \/ Hears(c, e))
    BY <1>1 DEF HeardInv, Reached
  <2>2. k \in 1 .. Len(connections)
    BY DEF LoopInv, LoopTyped
  <2> QED
    BY <1>1, <2>1, <2>2
<1>7. HeardUnlessDisturbed'
  <2> SUFFICES ASSUME NEW x \in Published, Over(x)', NEW c \in ghost.audience[x] \ (closed \cup ghost'.disturbed[x])
               PROVE  Hears(c, x)
    BY <1>1, <1>3, <1>4 DEF HeardUnlessDisturbed, Hears
  <2>1. c \notin ghost.disturbed[x]
    BY <1>3, <1>4
  <2>2. CASE x = e
    BY <1>6, <2>1, <2>2
  <2>3. CASE x # e
    <3>1. Over(x)
      BY <1>1, <1>4, <2>3 DEF Over
    <3> QED
      BY <2>1, <3>1 DEF HeardInv, HeardUnlessDisturbed
  <2> QED
    BY <2>2, <2>3
<1> QED
  BY <1>3, <1>5, <1>7 DEF HeardInv

LEMMA DisconnectHears ==
  ASSUME LoopInv, HeardInv, NEW c \in Clients, Disconnect(c)
  PROVE  HeardInv'
<1>1. /\ connections' = Without({c}) /\ Disturb({c}) /\ c \in closed
      /\ UNCHANGED <<published, ready, running, casts, closed, waiting, delivered>>
  BY DEF Disconnect, loopVars
<1>2. UnderWay' = UnderWay /\ Published' = Published
  BY <1>1 DEF UnderWay, Published
<1>3. /\ Reached' /\ ghost'.audience = ghost.audience
      /\ \A x \in Event : ghost.disturbed[x] \subseteq ghost'.disturbed[x]
  <2>1. {c} \subseteq closed /\ UnderWay' \subseteq UnderWay /\ \A x \in UnderWay' : casts'[x] = casts[x]
    BY <1>1, <1>2
  <2> QED
    BY <1>1, <2>1, RemovalKeepsReached DEF HeardInv
<1>4. Published \subseteq Event
  BY PublishedAre
<1>5. NoneBefore'
  BY <1>2, <1>3 DEF HeardInv, NoneBefore
<1>6. HeardUnlessDisturbed'
  <2> SUFFICES ASSUME NEW x \in Published, Over(x)', NEW d \in ghost.audience[x] \ (closed \cup ghost'.disturbed[x])
               PROVE  Hears(d, x)
    BY <1>1, <1>2, <1>3 DEF HeardUnlessDisturbed, Hears
  <2>1. d \notin ghost.disturbed[x] /\ Over(x)
    BY <1>1, <1>3, <1>4 DEF Over
  <2> QED
    BY <2>1 DEF HeardInv, HeardUnlessDisturbed
<1> QED
  BY <1>3, <1>5, <1>6 DEF HeardInv

LEMMA ConnectHears ==
  ASSUME LoopInv, HeardInv, NEW c \in Clients, Connect(c)
  PROVE  HeardInv'
<1>1. /\ DOMAIN connections = 1 .. Len(connections) /\ DOMAIN connections' = 1 .. Len(connections) + 1
      /\ Len(connections) \in Nat
      /\ \A k \in DOMAIN connections : connections'[k] = connections[k]
      /\ UNCHANGED <<published, ready, running, casts, closed, waiting, delivered, ghost>>
  BY Joins DEF LoopInv
<1>2. UnderWay' = UnderWay /\ Published' = Published
  BY <1>1 DEF UnderWay, Published
<1>3. NoneBefore' /\ HeardUnlessDisturbed'
  BY <1>1, <1>2 DEF HeardInv, NoneBefore, HeardUnlessDisturbed, Over, Hears
<1>4. \A k \in DOMAIN connections : k \in DOMAIN connections'
  BY <1>1
<1>5. Reached'
  BY <1>1, <1>2, <1>4 DEF HeardInv, Reached, Hears
<1> QED
  BY <1>3, <1>5 DEF HeardInv

LEMMA LostHears ==
  ASSUME LoopInv, HeardInv, NEW c \in Clients, ConnectionLost(c)
  PROVE  HeardInv'
<1>1. /\ closed' = closed \cup {c}
      /\ UNCHANGED <<published, ready, running, connections, casts, waiting, delivered, ghost>>
  BY DEF ConnectionLost, loopVars
<1>2. UnderWay' = UnderWay /\ Published' = Published
  BY <1>1 DEF UnderWay, Published
<1>3. NoneBefore' /\ HeardUnlessDisturbed'
  BY <1>1, <1>2 DEF HeardInv, NoneBefore, HeardUnlessDisturbed, Over, Hears
<1>4. Reached'
  BY <1>1, <1>2 DEF HeardInv, Reached, Hears
<1> QED
  BY <1>3, <1>4 DEF HeardInv

LEMMA HeardBegins == Init => HeardInv
<1> SUFFICES ASSUME Init PROVE HeardInv
  OBVIOUS
<1>1. UnderWay = {} /\ Published = {}
  BY DEF Init, UnderWay, Published
<1>2. \A e \in Event : ghost.audience[e] = {}
  BY DEF Init
<1> QED
  BY <1>1, <1>2 DEF HeardInv, Reached, NoneBefore, HeardUnlessDisturbed

LEMMA HeardGoesOn == LoopInv /\ HeardInv /\ [Next]_vars => HeardInv'
<1> SUFFICES ASSUME LoopInv, HeardInv, [Next]_vars PROVE HeardInv'
  OBVIOUS
<1>1. CASE StartService \/ TakeFromQueue \/ (\E a \in BOOLEAN : SendToChannel(a)) \/ UNCHANGED vars
  BY <1>1, QuietSteps, QuietHears DEF LoopInv
<1> QED
  BY <1>1, StepIs, RunNotifyHears, RunCastHears, PublishHears, SendHears, FinishHears,
     ResumeHears, ConnectHears, LostHears, DisconnectHears

\* Whoever was connected when a broadcast began and stays connected is sent the
\* event, unless a client in front of it in the list left meanwhile.
THEOREM HeardByAll == Spec => []HeardUnlessDisturbed
<1>1. HeardInv => HeardUnlessDisturbed
  BY DEF HeardInv
<1> QED
  BY <1>1, LoopHolds, HeardBegins, HeardGoesOn, PTL DEF Spec

\* The parts of InStep, for steps that disturb only some.
LEMMA InStepIs ==
  ASSUME LoopInv, InStep
  PROVE  /\ \A e \in UnderWay : casts[e].pos \in Nat /\ casts[e].pos <= Len(connections)
         /\ DOMAIN connections = 1 .. Len(connections) /\ Len(connections) \in Nat
         /\ UnderWay \subseteq Nat /\ None \notin UnderWay
<1>1. UnderWay \subseteq Nat /\ None \notin UnderWay
  BY EventsAre DEF UnderWay
<1>2. \A e \in UnderWay : casts[e].pos \in Nat
  BY CastsTyped DEF LoopInv
<1>3. DOMAIN connections = 1 .. Len(connections) /\ Len(connections) \in Nat
  BY DEF LoopInv, LoopTyped
<1> QED
  BY <1>1, <1>2, <1>3 DEF InStep

stepState == <<running, connections, closed, casts, waiting, delivered>>

LEMMA QuietOrders ==
  ASSUME OrderInv, UNCHANGED stepState
  PROVE  OrderInv'
<1>1. UnderWay' = UnderWay /\ Connected' = Connected
  BY DEF stepState, UnderWay, Connected
<1>2. InStep => InStep'
  BY <1>1 DEF stepState, InStep
<1>3. ClientOrder => ClientOrder'
  BY DEF stepState, ClientOrder
<1> QED
  BY <1>2, <1>3 DEF OrderInv, stepState

\* A step that sends nothing keeps the order of what was sent.
LEMMA UnsentOrders ==
  ASSUME ClientOrder, delivered' = delivered, closed \subseteq closed'
  PROVE  ClientOrder'
BY DEF ClientOrder

LEMMA RunCastOrders ==
  ASSUME LoopInv, OrderInv, RunCast
  PROVE  OrderInv'
<1> DEFINE e == Head(ready)[2]
<1>1. /\ e \in Event /\ e \notin UnderWay /\ running = None
      /\ casts'[e] = [pos |-> 0, failed |-> {}]
      /\ \A x \in Event : x # e => casts'[x] = casts[x]
      /\ UnderWay' = UnderWay \cup {e} /\ running' = e
      /\ \A x \in UnderWay : x < e
      /\ \A c \in Clients : \A j \in DOMAIN delivered[c] : delivered[c][j] < e
      /\ UNCHANGED <<connections, closed, waiting, delivered>>
  BY CastBegins
<1> HIDE DEF e
<1>2. casts'[e].pos = 0 /\ \A x \in UnderWay : x # e /\ casts'[x] = casts[x]
  BY <1>1 DEF UnderWay
<1>3. ASSUME InStep PROVE InStep'
  <2>1. /\ \A x \in UnderWay : casts[x].pos \in Nat /\ casts[x].pos <= Len(connections)
        /\ DOMAIN connections = 1 .. Len(connections) /\ Len(connections) \in Nat
        /\ UnderWay \subseteq Nat /\ None \notin UnderWay
    BY <1>3, InStepIs
  <2>2. e \in Nat
    BY <1>1, EventsAre
  <2>3. ASSUME NEW x \in UnderWay PROVE casts[x].pos > 0
    <3>1. PICK c \in Clients : \E i \in DOMAIN waiting[c] : waiting[c][i] = x
      BY <1>1, <2>1 DEF LoopInv, OnePlace
    <3>2. casts[x].pos \in DOMAIN connections
      BY <1>3, <3>1 DEF InStep
    <3> QED
      BY <2>1, <3>2
  <2>4. \A x \in UnderWay' : casts'[x].pos <= Len(connections)
    <3> SUFFICES ASSUME NEW x \in UnderWay' PROVE casts'[x].pos <= Len(connections)
      OBVIOUS
    <3>1. x = e \/ x \in UnderWay
      BY <1>1
    <3>2. 0 <= Len(connections)
      BY <2>1
    <3> QED
      BY <1>2, <2>1, <3>1, <3>2
  <2>5. ASSUME NEW b \in UnderWay', NEW x \in UnderWay', b < x
        PROVE  casts'[b].pos >= casts'[x].pos /\ (running' = x => casts'[b].pos > casts'[x].pos)
    <3>1. b # e
      <4> SUFFICES ASSUME b = e PROVE FALSE
        OBVIOUS
      <4>1. x # e
        BY <2>2, <2>5
      <4>2. x \in UnderWay /\ x \in Nat
        BY <1>1, <2>1, <4>1
      <4>3. x < e
        BY <1>1, <4>2
      <4> QED
        BY <2>2, <2>5, <4>2, <4>3
    <3>2. b \in UnderWay
      BY <1>1, <3>1
    <3>3. CASE x = e
      BY <1>2, <2>1, <2>3, <3>2, <3>3
    <3>4. CASE x # e
      <4>1. x \in UnderWay
        BY <1>1, <3>4
      <4> QED
        BY <1>1, <1>2, <1>3, <2>5, <3>2, <3>4, <4>1 DEF InStep
    <3> QED
      BY <3>3, <3>4
  <2>6. \A c \in Clients : \A i \in DOMAIN waiting[c] : waiting[c][i] \in UnderWay
    BY DEF LoopInv, OnePlace
  <2>7. \A c \in Clients : \A i \in DOMAIN waiting[c] :
          /\ casts'[waiting[c][i]].pos \in DOMAIN connections
          /\ connections[casts'[waiting[c][i]].pos] = c
          /\ \A j \in DOMAIN waiting[c] : i < j => waiting[c][i] < waiting[c][j]
    BY <1>2, <1>3, <2>6 DEF InStep
  <2>8. ASSUME NEW c \in Clients, NEW j \in DOMAIN delivered[c]
        PROVE  IF delivered[c][j] \in UnderWay'
               THEN \E k \in DOMAIN connections : k <= casts'[delivered[c][j]].pos /\ connections[k] = c
               ELSE \A x \in UnderWay' : delivered[c][j] < x
    <3> DEFINE x == delivered[c][j]
    <3>1. x < e
      BY <1>1
    <3>2. x # e
      BY <2>2, <3>1
    <3>3. IF x \in UnderWay THEN \E k \in DOMAIN connections : k <= casts[x].pos /\ connections[k] = c
          ELSE \A y \in UnderWay : x < y
      BY <1>3 DEF InStep
    <3> HIDE DEF x
    <3>4. IF x \in UnderWay' THEN \E k \in DOMAIN connections : k <= casts'[x].pos /\ connections[k] = c
          ELSE \A y \in UnderWay' : x < y
      BY <1>1, <1>2, <3>1, <3>2, <3>3
    <3> QED
      BY <3>4 DEF x
  <2>9. \A c \in Clients : c \notin Connected => delivered[c] = <<>>
    BY <1>3 DEF InStep
  <2>10. Connected' = Connected
    BY <1>1 DEF Connected
  <2> QED
    BY <1>1, <2>4, <2>5, <2>7, <2>8, <2>9, <2>10 DEF InStep
<1>4. ClientOrder'
  BY <1>1, UnsentOrders DEF OrderInv
<1> QED
  BY <1>1, <1>3, <1>4 DEF OrderInv

LEMMA ResumeOrders ==
  ASSUME LoopInv, OrderInv, NEW c \in Clients, Resume(c)
  PROVE  OrderInv'
<1> DEFINE e == waiting[c][1]
<1>1. /\ e \in UnderWay /\ running = None /\ running' = e /\ 1 \in DOMAIN waiting[c]
      /\ UnderWay' = UnderWay /\ casts'[e].pos = casts[e].pos
      /\ \A x \in Event : x # e => casts'[x] = casts[x]
      /\ DOMAIN waiting[c] = 1 .. Len(waiting[c]) /\ Len(waiting[c]) \in Nat
  BY CastGoesOn
<1>2. /\ DOMAIN waiting'[c] = 1 .. Len(waiting[c]) - 1
      /\ \A i \in DOMAIN waiting'[c] : i + 1 \in DOMAIN waiting[c] /\ waiting'[c][i] = waiting[c][i + 1]
      /\ \A d \in Clients : d # c => waiting'[d] = waiting[d]
      /\ UNCHANGED <<connections, closed, delivered>>
  BY CastGoesOn
<1>3. e = waiting[c][1]
  OBVIOUS
<1> HIDE DEF e
<1>4. \A x \in UnderWay : casts'[x].pos = casts[x].pos
  BY <1>1 DEF UnderWay
<1>5. ASSUME InStep PROVE InStep'
  <2>1. /\ \A x \in UnderWay : casts[x].pos \in Nat /\ casts[x].pos <= Len(connections)
        /\ DOMAIN connections = 1 .. Len(connections) /\ Len(connections) \in Nat
        /\ UnderWay \subseteq Nat /\ None \notin UnderWay
    BY <1>5, InStepIs
  <2>2. ASSUME NEW b \in UnderWay, b < e, casts[b].pos = casts[e].pos PROVE FALSE
    <3>1. PICK d \in Clients : \E i \in DOMAIN waiting[d] : waiting[d][i] = b
      BY <1>1, <2>1 DEF LoopInv, OnePlace
    <3>2. PICK i \in DOMAIN waiting[d] : waiting[d][i] = b
      BY <3>1
    <3>3. connections[casts[b].pos] = d /\ connections[casts[e].pos] = c
      BY <1>1, <1>3, <1>5, <3>2 DEF InStep
    <3>4. d = c
      BY <2>2, <3>3
    <3>5. i \in 1 .. Len(waiting[c]) /\ i # 1
      <4>1. b # e
        BY <1>1, <2>1, <2>2
      <4> QED
        BY <1>1, <1>3, <3>2, <3>4, <4>1
    <3>6. 1 < i
      BY <1>1, <3>5
    <3>7. e < b
      BY <1>1, <1>3, <1>5, <3>2, <3>4, <3>6 DEF InStep
    <3> QED
      BY <1>1, <2>1, <2>2, <3>7
  <2>3. ASSUME NEW b \in UnderWay, NEW x \in UnderWay, b < x
        PROVE  casts[b].pos >= casts[x].pos /\ (running' = x => casts[b].pos > casts[x].pos)
    <3>1. casts[b].pos >= casts[x].pos
      BY <1>5, <2>3 DEF InStep
    <3>2. ASSUME running' = x PROVE casts[b].pos > casts[x].pos
      <4>1. casts[b].pos # casts[x].pos
        BY <1>1, <2>2, <2>3, <3>2
      <4> QED
        BY <2>1, <3>1, <4>1
    <3> QED
      BY <3>1, <3>2
  <2>4. ASSUME NEW d \in Clients, NEW i \in DOMAIN waiting'[d]
        PROVE  \E m \in DOMAIN waiting[d] : waiting'[d][i] = waiting[d][m] /\ m = IF d = c THEN i + 1 ELSE i
    BY <1>2
  <2>5. \A d \in Clients : \A i \in DOMAIN waiting[d] : waiting[d][i] \in UnderWay
    BY DEF LoopInv, OnePlace
  <2>6. ASSUME NEW d \in Clients, NEW i \in DOMAIN waiting'[d]
        PROVE  /\ casts'[waiting'[d][i]].pos \in DOMAIN connections
               /\ connections[casts'[waiting'[d][i]].pos] = d
               /\ \A j \in DOMAIN waiting'[d] : i < j => waiting'[d][i] < waiting'[d][j]
    <3>1. PICK m \in DOMAIN waiting[d] : waiting'[d][i] = waiting[d][m] /\ m = IF d = c THEN i + 1 ELSE i
      BY <2>4, <2>6
    <3>2. ASSUME NEW j \in DOMAIN waiting'[d], i < j PROVE waiting'[d][i] < waiting'[d][j]
      <4>1. PICK n \in DOMAIN waiting[d] : waiting'[d][j] = waiting[d][n] /\ n = IF d = c THEN j + 1 ELSE j
        BY <2>4, <3>2
      <4>2. m < n
        <5>1. CASE d = c
          <6>1. i \in Int /\ j \in Int
            BY <1>1, <1>2, <2>6, <3>2, <5>1
          <6> QED
            BY <3>1, <3>2, <4>1, <5>1, <6>1
        <5>2. CASE d # c
          BY <3>1, <3>2, <4>1, <5>2
        <5> QED
          BY <5>1, <5>2
      <4> QED
        BY <1>5, <3>1, <4>1, <4>2 DEF InStep
    <3>3. /\ casts[waiting[d][m]].pos \in DOMAIN connections
          /\ connections[casts[waiting[d][m]].pos] = d
      BY <1>5 DEF InStep
    <3> QED
      BY <1>4, <2>5, <3>1, <3>2, <3>3
  <2>7. \A d \in Clients : \A j \in DOMAIN delivered[d] :
          IF delivered[d][j] \in UnderWay
          THEN \E k \in DOMAIN connections : k <= casts'[delivered[d][j]].pos /\ connections[k] = d
          ELSE \A x \in UnderWay : delivered[d][j] < x
    BY <1>4, <1>5 DEF InStep
  <2>8. \A d \in Clients : d \notin Connected => delivered[d] = <<>>
    BY <1>5 DEF InStep
  <2>9. Connected' = Connected
    BY <1>2 DEF Connected
  <2>10. \A x \in UnderWay : casts'[x].pos <= Len(connections)
    BY <1>4, <2>1
  <2>11. \A b, x \in UnderWay : b < x =>
           casts'[b].pos >= casts'[x].pos /\ (running' = x => casts'[b].pos > casts'[x].pos)
    BY <1>4, <2>3
  <2>12. \A d \in Clients : \A i \in DOMAIN waiting'[d] :
           /\ casts'[waiting'[d][i]].pos \in DOMAIN connections
           /\ connections[casts'[waiting'[d][i]].pos] = d
           /\ \A j \in DOMAIN waiting'[d] : i < j => waiting'[d][i] < waiting'[d][j]
    BY <2>6
  <2> QED
    BY <1>1, <1>2, <2>7, <2>8, <2>9, <2>10, <2>11, <2>12 DEF InStep
<1>6. ClientOrder'
  BY <1>2, UnsentOrders DEF OrderInv
<1> QED
  BY <1>2, <1>5, <1>6 DEF OrderInv

\* Whom a broadcast comes to was sent nothing younger.
LEMMA NothingYounger ==
  ASSUME LoopInv, InStep, NEW e \in Event, SendToNext(e)
  PROVE  LET c == connections[casts[e].pos + 1]
         IN  \A j \in DOMAIN delivered[c] : delivered[c][j] < e
<1> DEFINE k == casts[e].pos + 1
           c == connections[k]
<1>1. /\ e \in UnderWay /\ casts[e].pos \in Nat /\ k \in DOMAIN connections /\ c \in Clients
  BY CastSends
<1>2. k = casts[e].pos + 1 /\ c = connections[k]
  OBVIOUS
<1> HIDE DEF k, c
<1>3. /\ \A x \in UnderWay : casts[x].pos \in Nat /\ casts[x].pos <= Len(connections)
      /\ DOMAIN connections = 1 .. Len(connections) /\ Len(connections) \in Nat
      /\ UnderWay \subseteq Nat
  BY InStepIs
<1> SUFFICES ASSUME NEW j \in DOMAIN delivered[c] PROVE delivered[c][j] < e
  BY <1>2
<1> DEFINE x == delivered[c][j]
<1>4. IF x \in UnderWay THEN \E m \in DOMAIN connections : m <= casts[x].pos /\ connections[m] = c
      ELSE \A y \in UnderWay : x < y
  BY <1>1 DEF InStep
<1> HIDE DEF x
<1>5. CASE x \notin UnderWay
  BY <1>1, <1>4, <1>5 DEF x
<1>6. CASE x \in UnderWay
  <2>1. PICK m \in DOMAIN connections : m <= casts[x].pos /\ connections[m] = c
    BY <1>4, <1>6
  <2>2. m = k
    BY <1>1, <1>2, <2>1 DEF LoopInv, ListedOnce
  <2>3. casts[x].pos > casts[e].pos
    BY <1>1, <1>2, <1>3, <1>6, <2>1, <2>2
  <2>4. ~(e < x)
    <3>1. e < x => casts[e].pos >= casts[x].pos
      BY <1>1, <1>6 DEF InStep
    <3> QED
      BY <1>1, <1>3, <1>6, <2>3, <3>1
  <2>5. x # e
    BY <1>1, <2>3
  <2>6. x < e
    BY <1>1, <1>3, <1>6, <2>4, <2>5
  <2> QED
    BY <2>6 DEF x
<1> QED
  BY <1>5, <1>6

LEMMA SendKeepsStep ==
  ASSUME LoopInv, InStep, closed = {}, NEW e \in Event, SendToNext(e)
  PROVE  InStep'
<1> DEFINE k == casts[e].pos + 1
           c == connections[k]
<1>1. /\ e \in UnderWay /\ running = e /\ casts[e].pos \in Nat
      /\ k \in DOMAIN connections /\ c \in Clients
      /\ UnderWay' = UnderWay /\ casts'[e].pos = k
      /\ \A x \in Event : x # e => casts'[x] = casts[x]
      /\ UNCHANGED <<published, ready, connections, closed, ghost>>
  BY CastSends
<1>2. \/ UNCHANGED waiting /\ running' = e /\ (c \in closed \/ waiting[c] = <<>>)
      \/ running' = None
  <2>1. \/ c \in closed /\ UNCHANGED <<delivered, waiting, running>>
        \/ /\ c \notin closed /\ delivered' = [delivered EXCEPT ![c] = Append(delivered[c], e)]
           /\ \/ waiting[c] = <<>> /\ UNCHANGED <<waiting, running>>
              \/ waiting' = [waiting EXCEPT ![c] = Append(waiting[c], e)] /\ running' = None
    BY CastSends
  <2> HIDE DEF c, k
  <2> QED
    BY <1>1, <2>1
<1>3. \A d \in Clients : d # c => delivered'[d] = delivered[d]
  <2>1. delivered' = delivered \/ delivered' = [delivered EXCEPT ![c] = Append(delivered[c], e)]
    BY CastSends
  <2>2. delivered \in [Clients -> Seq(Event)]
    BY DEF LoopInv, LoopTyped
  <2> HIDE DEF c, k
  <2> QED
    BY <2>1, <2>2
<1>4. \A d \in Clients :
        /\ DOMAIN waiting[d] = 1 .. Len(waiting[d]) /\ Len(waiting[d]) \in Nat
        /\ \A j \in DOMAIN delivered[d] : j \in DOMAIN delivered'[d] /\ delivered'[d][j] = delivered[d][j]
        /\ \A j \in DOMAIN delivered'[d] :
             \/ j \in DOMAIN delivered[d]
             \/ d = c /\ delivered'[d][j] = e
        /\ \A j \in DOMAIN waiting[d] : j \in DOMAIN waiting'[d] /\ waiting'[d][j] = waiting[d][j]
        /\ \A j \in DOMAIN waiting'[d] :
             \/ j \in DOMAIN waiting[d]
             \/ d = c /\ j = Len(waiting[d]) + 1 /\ waiting'[d][j] = e /\ running' = None
  BY SendChanges
<1>5. k = casts[e].pos + 1 /\ c = connections[k]
  OBVIOUS
<1> HIDE DEF k, c
<1>6. /\ \A x \in UnderWay : casts[x].pos \in Nat /\ casts[x].pos <= Len(connections)
      /\ DOMAIN connections = 1 .. Len(connections) /\ Len(connections) \in Nat
      /\ UnderWay \subseteq Nat /\ None \notin UnderWay
  BY InStepIs
<1>7. \A x \in UnderWay : x # e => casts'[x] = casts[x]
  BY <1>1 DEF UnderWay
<1>8. \A x \in UnderWay : casts'[x].pos <= Len(connections)
  <2>1. k <= Len(connections)
    BY <1>1, <1>6
  <2> QED
    BY <1>1, <1>6, <1>7, <2>1
<1>9. ASSUME NEW b \in UnderWay, b < e, casts[b].pos = k PROVE running' = None
  <2> SUFFICES ASSUME running' # None PROVE FALSE
    OBVIOUS
  <2>1. DOMAIN waiting[c] = {}
    BY <1>2
  <2>2. b # running
    BY <1>1, <1>6, <1>9
  <2>3. PICK d \in Clients : \E i \in DOMAIN waiting[d] : waiting[d][i] = b
    BY <2>2 DEF LoopInv, OnePlace
  <2>4. connections[casts[b].pos] = d
    BY <2>3 DEF InStep
  <2>5. d = c
    BY <1>5, <1>9, <2>4
  <2> QED
    BY <2>1, <2>3, <2>5
<1>10. ASSUME NEW b \in UnderWay, NEW x \in UnderWay, b < x
      PROVE  casts'[b].pos >= casts'[x].pos /\ (running' = x => casts'[b].pos > casts'[x].pos)
  <2>1. casts[b].pos >= casts[x].pos /\ (running = x => casts[b].pos > casts[x].pos)
    BY <1>10 DEF InStep
  <2>2. x # None /\ b # x
    BY <1>6, <1>10
  <2>3. CASE x = e
    <3>1. casts'[b].pos = casts[b].pos /\ casts'[x].pos = k
      BY <1>1, <1>7, <2>2, <2>3
    <3>2. casts[b].pos > casts[e].pos
      BY <1>1, <2>1, <2>3
    <3>3. casts[b].pos >= k
      BY <1>1, <1>5, <1>6, <3>2
    <3>4. casts[b].pos = k => running' # x
      BY <1>9, <1>10, <2>2, <2>3
    <3> QED
      BY <1>1, <1>5, <1>6, <3>1, <3>3, <3>4
  <2>4. CASE x # e
    <3>1. running' # x
      BY <1>2, <2>2, <2>4
    <3>2. casts'[x].pos = casts[x].pos /\ casts'[b].pos >= casts[b].pos
      BY <1>1, <1>5, <1>6, <1>7, <2>4
    <3>3. casts'[b].pos \in Nat
      BY <1>1, <1>5, <1>6, <1>7
    <3> QED
      BY <1>6, <2>1, <3>1, <3>2, <3>3
  <2> QED
    BY <2>3, <2>4
<1>11. \A d \in Clients : \A i \in DOMAIN waiting[d] : waiting[d][i] \in UnderWay /\ waiting[d][i] # e
  BY <1>1 DEF LoopInv, OnePlace
<1>12. ASSUME NEW i \in DOMAIN waiting[c] PROVE waiting[c][i] < e
  <2> DEFINE b == waiting[c][i]
  <2>1. b \in UnderWay /\ b # e
    BY <1>1, <1>11
  <2>2. casts[b].pos \in DOMAIN connections /\ connections[casts[b].pos] = c
    BY <1>1 DEF InStep
  <2> HIDE DEF b
  <2>3. casts[b].pos = k
    BY <1>1, <1>5, <2>2 DEF LoopInv, ListedOnce
  <2>4. ~(e < b)
    <3>1. e < b => casts[e].pos >= casts[b].pos
      BY <1>1, <2>1 DEF InStep
    <3> QED
      BY <1>1, <1>5, <2>3, <3>1
  <2>5. b < e
    BY <1>1, <1>6, <2>1, <2>4
  <2> QED
    BY <2>5 DEF b
<1>13. ASSUME NEW d \in Clients, NEW i \in DOMAIN waiting'[d]
       PROVE  /\ casts'[waiting'[d][i]].pos \in DOMAIN connections
              /\ connections[casts'[waiting'[d][i]].pos] = d
              /\ \A j \in DOMAIN waiting'[d] : i < j => waiting'[d][i] < waiting'[d][j]
  <2>1. CASE i \in DOMAIN waiting[d]
    <3>1. waiting'[d][i] = waiting[d][i] /\ casts'[waiting[d][i]] = casts[waiting[d][i]]
      BY <1>4, <1>7, <1>11, <2>1
    <3>2. /\ casts[waiting[d][i]].pos \in DOMAIN connections
          /\ connections[casts[waiting[d][i]].pos] = d
      BY <2>1 DEF InStep
    <3>3. ASSUME NEW j \in DOMAIN waiting'[d], i < j PROVE waiting'[d][i] < waiting'[d][j]
      <4>1. CASE j \in DOMAIN waiting[d]
        <5>1. waiting[d][i] < waiting[d][j]
          BY <2>1, <3>3, <4>1 DEF InStep
        <5> QED
          BY <1>4, <3>1, <4>1, <5>1
      <4>2. CASE j \notin DOMAIN waiting[d]
        <5>1. d = c /\ waiting'[d][j] = e
          BY <1>4, <4>2
        <5> QED
          BY <1>12, <2>1, <3>1, <5>1
      <4> QED
        BY <4>1, <4>2
    <3> QED
      BY <3>1, <3>2, <3>3
  <2>2. CASE i \notin DOMAIN waiting[d]
    <3>1. d = c /\ waiting'[d][i] = e /\ i = Len(waiting[c]) + 1
      BY <1>4, <2>2
    <3>2. ASSUME NEW j \in DOMAIN waiting'[d], i < j PROVE FALSE
      <4>1. j \in 1 .. Len(waiting[c]) \/ j = Len(waiting[c]) + 1
        BY <1>1, <1>4, <3>1
      <4> QED
        BY <1>1, <1>4, <3>1, <3>2, <4>1
    <3> QED
      BY <1>1, <1>5, <3>1, <3>2
  <2> QED
    BY <2>1, <2>2
<1>14. ASSUME NEW d \in Clients, NEW j \in DOMAIN delivered'[d]
       PROVE  IF delivered'[d][j] \in UnderWay
              THEN \E m \in DOMAIN connections : m <= casts'[delivered'[d][j]].pos /\ connections[m] = d
              ELSE \A x \in UnderWay : delivered'[d][j] < x
  <2>1. CASE j \notin DOMAIN delivered[d]
    <3>1. d = c /\ delivered'[d][j] = e
      BY <1>4, <2>1
    <3>2. k <= casts'[e].pos /\ connections[k] = d
      BY <1>1, <1>5, <3>1
    <3> QED
      BY <1>1, <3>1, <3>2
  <2>2. CASE j \in DOMAIN delivered[d]
    <3>1. delivered'[d][j] = delivered[d][j]
      BY <1>4, <2>2
    <3> DEFINE x == delivered[d][j]
    <3>2. IF x \in UnderWay THEN \E m \in DOMAIN connections : m <= casts[x].pos /\ connections[m] = d
          ELSE \A y \in UnderWay : x < y
      BY <2>2 DEF InStep
    <3> HIDE DEF x
    <3>3. ASSUME x \in UnderWay PROVE \E m \in DOMAIN connections : m <= casts'[x].pos /\ connections[m] = d
      <4>1. PICK m \in DOMAIN connections : m <= casts[x].pos /\ connections[m] = d
        BY <3>2, <3>3
      <4>2. m <= casts'[x].pos
        BY <1>1, <1>5, <1>6, <1>7, <3>3, <4>1
      <4> QED
        BY <4>1, <4>2
    <3>4. IF x \in UnderWay THEN \E m \in DOMAIN connections : m <= casts'[x].pos /\ connections[m] = d
          ELSE \A y \in UnderWay : x < y
      BY <3>2, <3>3
    <3> QED
      BY <3>1, <3>4 DEF x
  <2> QED
    BY <2>1, <2>2
<1>15. ASSUME NEW d \in Clients, d \notin Connected PROVE delivered'[d] = <<>>
  <2>1. delivered[d] = <<>>
    BY <1>15 DEF InStep
  <2>2. d # c
    BY <1>1, <1>5, <1>15 DEF Connected
  <2>3. delivered'[d] = delivered[d]
    BY <1>3, <2>2
  <2> QED
    BY <2>1, <2>3
<1>16. Connected' = Connected
  BY <1>1 DEF Connected
<1> QED
  BY <1>1, <1>8, <1>10, <1>13, <1>14, <1>15, <1>16 DEF InStep

LEMMA SendOrders ==
  ASSUME LoopInv, OrderInv, NEW e \in Event, SendToNext(e)
  PROVE  OrderInv'
<1> DEFINE k == casts[e].pos + 1
           c == connections[k]
<1>1. closed' = closed /\ c \in Clients
  BY CastSends
<1>2. \A d \in Clients :
        /\ DOMAIN delivered[d] = 1 .. Len(delivered[d]) /\ Len(delivered[d]) \in Nat
        /\ \A j \in DOMAIN delivered[d] : j \in DOMAIN delivered'[d] /\ delivered'[d][j] = delivered[d][j]
        /\ \A j \in DOMAIN delivered'[d] :
             \/ j \in DOMAIN delivered[d]
             \/ d = c /\ c \notin closed /\ j = Len(delivered[d]) + 1 /\ delivered'[d][j] = e
  BY SendChanges
<1>3. ASSUME closed = {} PROVE InStep' /\ \A j \in DOMAIN delivered[c] : delivered[c][j] < e
  <2>1. InStep
    BY <1>3 DEF OrderInv
  <2> QED
    BY <1>3, <2>1, SendKeepsStep, NothingYounger
<1> HIDE DEF k, c
<1>4. ClientOrder'
  <2> SUFFICES ASSUME NEW d \in Clients, closed \subseteq {d}, NEW i \in DOMAIN delivered'[d],
                      NEW j \in DOMAIN delivered'[d], i < j
               PROVE  delivered'[d][i] < delivered'[d][j]
    BY <1>1 DEF ClientOrder
  <2>1. CASE i \in DOMAIN delivered[d] /\ j \in DOMAIN delivered[d]
    <3>1. delivered[d][i] < delivered[d][j]
      BY <2>1 DEF OrderInv, ClientOrder
    <3> QED
      BY <1>2, <2>1, <3>1
  <2>2. CASE i \in DOMAIN delivered[d] /\ j \notin DOMAIN delivered[d]
    <3>1. d = c /\ c \notin closed /\ delivered'[d][j] = e /\ delivered'[d][i] = delivered[d][i]
      BY <1>2, <2>2
    <3>2. closed = {}
      BY <3>1
    <3> QED
      BY <1>3, <2>2, <3>1, <3>2
  <2>3. CASE i \notin DOMAIN delivered[d]
    <3>1. i = Len(delivered[d]) + 1 /\ Len(delivered[d]) \in Nat
      BY <1>2, <2>3
    <3>2. j \in 1 .. Len(delivered[d]) \/ j = Len(delivered[d]) + 1
      BY <1>2
    <3> QED
      BY <3>1, <3>2
  <2> QED
    BY <2>1, <2>2, <2>3
<1> QED
  BY <1>1, <1>3, <1>4 DEF OrderInv

\* Nobody is taken out of the list while nobody's connection is lost.
LEMMA NobodyLeaves ==
  ASSUME LoopInv, NEW gone, gone \subseteq closed, closed = {}
  PROVE  Without(gone) = connections
<1>1. gone = {}
  OBVIOUS
<1> QED
  BY <1>1, WhoStays DEF LoopInv, LoopTyped

LEMMA FinishOrders ==
  ASSUME LoopInv, OrderInv, NEW e \in Event, FinishCast(e)
  PROVE  OrderInv'
<1>1. /\ e \in UnderWay /\ running = e /\ running' = None /\ casts[e].pos \in Nat
      /\ casts[e].pos + 1 > Len(connections) /\ Len(connections) \in Nat
      /\ \A x \in Event : x # e => casts'[x] = casts[x]
      /\ UnderWay' = UnderWay \ {e}
      /\ connections' = Without(casts[e].failed)
      /\ casts[e].failed \subseteq closed
      /\ UNCHANGED <<published, ready, closed, waiting, delivered>>
  BY CastEnds
<1>2. ASSUME closed = {} PROVE InStep'
  <2>1. InStep
    BY <1>2 DEF OrderInv
  <2>2. connections' = connections
    BY <1>1, <1>2, NobodyLeaves
  <2>3. /\ \A x \in UnderWay : casts[x].pos \in Nat /\ casts[x].pos <= Len(connections)
        /\ UnderWay \subseteq Nat /\ None \notin UnderWay
    BY <2>1, InStepIs
  <2>4. \A x \in UnderWay' : x \in UnderWay /\ x # e /\ casts'[x] = casts[x] /\ x # None
    BY <1>1, <2>3 DEF UnderWay
  <2>5. ASSUME NEW x \in UnderWay' PROVE e < x
    <3>1. x < e => casts[x].pos > casts[e].pos
      BY <1>1, <2>1, <2>4 DEF InStep
    <3>2. ~(x < e)
      BY <1>1, <2>3, <2>4, <3>1
    <3> QED
      BY <1>1, <2>3, <2>4, <3>2
  <2>6. \A d \in Clients : \A i \in DOMAIN waiting[d] : waiting[d][i] \in UnderWay'
    BY <1>1 DEF LoopInv, OnePlace
  <2>7. \A x \in UnderWay' : casts'[x].pos <= Len(connections)
    BY <2>3, <2>4
  <2>8. \A b, x \in UnderWay' : b < x =>
          casts'[b].pos >= casts'[x].pos /\ (running' = x => casts'[b].pos > casts'[x].pos)
    BY <1>1, <2>1, <2>4 DEF InStep
  <2>9. \A d \in Clients : \A i \in DOMAIN waiting[d] :
          /\ casts'[waiting[d][i]].pos \in DOMAIN connections
          /\ connections[casts'[waiting[d][i]].pos] = d
          /\ \A j \in DOMAIN waiting[d] : i < j => waiting[d][i] < waiting[d][j]
    BY <2>1, <2>4, <2>6 DEF InStep
  <2>10. ASSUME NEW d \in Clients, NEW j \in DOMAIN delivered[d]
         PROVE  IF delivered[d][j] \in UnderWay'
                THEN \E m \in DOMAIN connections : m <= casts'[delivered[d][j]].pos /\ connections[m] = d
                ELSE \A x \in UnderWay' : delivered[d][j] < x
    <3> DEFINE x == delivered[d][j]
    <3>1. IF x \in UnderWay THEN \E m \in DOMAIN connections : m <= casts[x].pos /\ connections[m] = d
          ELSE \A y \in UnderWay : x < y
      BY <2>1 DEF InStep
    <3> HIDE DEF x
    <3>2. IF x \in UnderWay' THEN \E m \in DOMAIN connections : m <= casts'[x].pos /\ connections[m] = d
          ELSE \A y \in UnderWay' : x < y
      <4>1. CASE x = e
        BY <1>1, <2>5, <4>1
      <4>2. CASE x # e
        BY <1>1, <2>4, <3>1, <4>2
      <4> QED
        BY <4>1, <4>2
    <3> QED
      BY <3>2 DEF x
  <2>11. \A d \in Clients : d \notin Connected => delivered[d] = <<>>
    BY <2>1 DEF InStep
  <2>12. Connected' = Connected
    BY <2>2 DEF Connected
  <2> QED
    BY <1>1, <2>2, <2>7, <2>8, <2>9, <2>10, <2>11, <2>12 DEF InStep
<1>3. ClientOrder'
  BY <1>1, UnsentOrders DEF OrderInv
<1> QED
  BY <1>1, <1>2, <1>3 DEF OrderInv

LEMMA ConnectOrders ==
  ASSUME LoopInv, OrderInv, NEW c \in Clients, Connect(c)
  PROVE  OrderInv'
<1>1. /\ Len(connections) \in Nat /\ connections' \in Seq(Clients)
      /\ DOMAIN connections = 1 .. Len(connections) /\ DOMAIN connections' = 1 .. Len(connections) + 1
      /\ \A k \in DOMAIN connections : connections'[k] = connections[k]
      /\ UNCHANGED <<published, ready, running, casts, closed, waiting, delivered, ghost>>
  BY Joins DEF LoopInv
<1>2. UnderWay' = UnderWay
  BY <1>1 DEF UnderWay
<1>3. DOMAIN connections \subseteq DOMAIN connections' /\ Len(connections') = Len(connections) + 1
  BY <1>1
<1>4. ASSUME InStep PROVE InStep'
  <2>1. \A x \in UnderWay : casts[x].pos \in Nat /\ casts[x].pos <= Len(connections)
    BY <1>4, InStepIs
  <2>2. \A x \in UnderWay : casts[x].pos <= Len(connections')
    BY <1>1, <1>3, <2>1
  <2>3. \A b, x \in UnderWay : b < x =>
          casts[b].pos >= casts[x].pos /\ (running = x => casts[b].pos > casts[x].pos)
    BY <1>4 DEF InStep
  <2>4. \A d \in Clients : \A i \in DOMAIN waiting[d] :
          /\ casts[waiting[d][i]].pos \in DOMAIN connections'
          /\ connections'[casts[waiting[d][i]].pos] = d
          /\ \A j \in DOMAIN waiting[d] : i < j => waiting[d][i] < waiting[d][j]
    BY <1>1, <1>3, <1>4 DEF InStep
  <2>5. ASSUME NEW d \in Clients, NEW j \in DOMAIN delivered[d]
        PROVE  IF delivered[d][j] \in UnderWay
               THEN \E m \in DOMAIN connections' : m <= casts[delivered[d][j]].pos /\ connections'[m] = d
               ELSE \A x \in UnderWay : delivered[d][j] < x
    <3>1. IF delivered[d][j] \in UnderWay
          THEN \E m \in DOMAIN connections : m <= casts[delivered[d][j]].pos /\ connections[m] = d
          ELSE \A x \in UnderWay : delivered[d][j] < x
      BY <1>4 DEF InStep
    <3> QED
      BY <1>1, <1>3, <3>1
  <2>6. \A d \in Clients : d \notin Connected' => delivered[d] = <<>>
    <3>1. Connected \subseteq Connected'
      BY <1>1, <1>3 DEF Connected
    <3> QED
      BY <1>4, <3>1 DEF InStep
  <2> QED
    BY <1>1, <1>2, <2>2, <2>3, <2>4, <2>5, <2>6 DEF InStep
<1>5. ClientOrder'
  BY <1>1, UnsentOrders DEF OrderInv
<1> QED
  BY <1>1, <1>4, <1>5 DEF OrderInv

LEMMA LossOrders ==
  ASSUME LoopInv, OrderInv, NEW c \in Clients, ConnectionLost(c) \/ Disconnect(c)
  PROVE  OrderInv'
<1>1. closed' # {} /\ closed \subseteq closed' /\ delivered' = delivered
  BY DEF ConnectionLost, Disconnect
<1> QED
  BY <1>1, UnsentOrders DEF OrderInv

LEMMA OrderBegins == Init => OrderInv
<1> SUFFICES ASSUME Init PROVE OrderInv
  OBVIOUS
<1>1. UnderWay = {} /\ \A c \in Clients : DOMAIN waiting[c] = {} /\ delivered[c] = <<>>
  BY DEF Init, UnderWay
<1>2. ClientOrder
  BY <1>1 DEF ClientOrder
<1>3. InStep
  BY <1>1 DEF InStep
<1> QED
  BY <1>2, <1>3 DEF OrderInv

LEMMA OrderGoesOn == LoopInv /\ OrderInv /\ [Next]_vars => OrderInv'
<1> SUFFICES ASSUME LoopInv, OrderInv, [Next]_vars PROVE OrderInv'
  OBVIOUS
<1>1. CASE StartService \/ TakeFromQueue \/ (\E a \in BOOLEAN : SendToChannel(a)) \/ UNCHANGED vars
  BY <1>1, QuietSteps, QuietOrders DEF LoopInv, loopState, stepState
<1>2. CASE RunNotify
  BY <1>2, QuietOrders DEF RunNotify, stepState, socketVars
<1>3. CASE \E type \in EventTypes : Publish(type)
  BY <1>3, QuietOrders DEF Publish, stepState, socketVars
<1> QED
  BY <1>1, <1>2, <1>3, StepIs, RunCastOrders, SendOrders, FinishOrders, ResumeOrders, ConnectOrders, LossOrders

\* While no other connection is lost, a client is sent each event at most once
\* and in the order of their publication.
THEOREM HeardInOrder == Spec => []ClientOrder
<1>1. OrderInv => ClientOrder
  BY DEF OrderInv
<1> QED
  BY <1>1, LoopHolds, OrderBegins, OrderGoesOn, PTL DEF Spec

==============================================================================
