------------------------------- MODULE ChatHub -------------------------------
(***************************************************************************)
(* The live side of the chat: connections, their send queues and pumps,    *)
(* presence, and the broadcaster that carries an event to every instance   *)
(* (application/messaging/hub.go and broadcaster.go,                       *)
(* adapter/out/messagingbus/redis.go, adapter/in/http/chat_ws_handler.go). *)
(*                                                                         *)
(* All the members here share a room, so an event goes to all of them, or  *)
(* to all but its author; who is in which room is the subject of ChatRooms *)
(* and what events say that of ChatMessages.                               *)
(***************************************************************************)
EXTENDS Naturals, Sequences, FiniteSets

CONSTANTS
    Instances,
    Members,
    Conns,       \* the WebSocket connections that will ever be opened, each once
    Places,      \* to whom connections belong and where they are opened: functions from
                 \* Conns to a member and an instance
    MaxFrames,   \* per broadcaster: bound of the messages and typing signals sent,
    Leavers,     \* and the connections whose peer may leave (a bound)
    Cap,         \* wsSendBuffer
    InFlight,    \* bound of the events Redis holds for one instance
    Modes        \* the broadcasters to consider, "memory" and "redis"

ASSUME HubAssumption ==
    /\ IsFiniteSet(Conns)
    /\ Places \subseteq [Conns -> Members \X Instances]
    /\ MaxFrames \in [Modes -> Nat]
    /\ Leavers \in [Modes -> SUBSET Conns]
    /\ InFlight \in Nat
    /\ Cap \in Nat \ {0}
    /\ Modes \subseteq {"memory", "redis"}

VARIABLES
    mode,       \* messaging.broadcaster of the configuration
    place,      \* whose token a connection shows, and where the load balancer sends it
    reader,     \* Serve and readPump of a connection
    writer,     \* writePump of a connection
    wire,       \* the connection itself
    hub,        \* the registered connections, of every instance
    queue,      \* Client.Send
    closed,     \* connections whose Client.Send is closed
    sending,    \* SendToMembers calls under way: they hold the hub's read lock
    inbox,      \* what Redis still has to hand to an instance
    frames,     \* messages and typing signals sent so far
    got,        \* history: the events put into a queue, in order
    told,       \* history: the presence last told about a member
    crossed     \* history: members of whom two presence changes were told at once,
                \* or one was not told

pumps == <<reader, writer, wire>>
history == <<told, crossed>>
deploy == <<mode, place>>
vars == <<deploy, pumps, hub, queue, closed, sending, inbox, frames, got, history>>

Frames == Nat
Events == [about : Frames \cup Conns, kind : {"sent", "online", "offline"}]

\* by: the goroutine that called; todo: the connections not offered the event yet.
Sending == [at : Instances, by : Conns \cup Frames \cup Instances, ev : Events, todo : SUBSET Conns]

TypeOK ==
    /\ mode \in Modes /\ place \in Places
    /\ reader \in [Conns -> {"new", "online", "serve", "loop", "leave", "offline", "close", "done"}]
    /\ writer \in [Conns -> {"off", "run", "done"}]
    /\ wire \in [Conns -> {"none", "up", "dead", "closed"}]
    /\ hub \subseteq Conns /\ closed \subseteq Conns
    /\ queue \in [Conns -> Seq(Events)] /\ \A c \in Conns : Len(queue[c]) <= Cap
    /\ sending \subseteq Sending
    /\ inbox \in [Instances -> Seq([ev : Events, to : SUBSET Members])]
    /\ frames \in 0 .. MaxFrames[mode]
    /\ got \in [Conns -> Seq(Events)]
    /\ told \in [Members -> {"online", "offline"}] /\ crossed \subseteq Members

Init ==
    /\ mode \in Modes /\ place \in Places
    /\ reader = [c \in Conns |-> "new"]
    /\ writer = [c \in Conns |-> "off"]
    /\ wire = [c \in Conns |-> "none"]
    /\ hub = {} /\ closed = {} /\ sending = {}
    /\ queue = [c \in Conns |-> <<>>]
    /\ inbox = [i \in Instances |-> <<>>]
    /\ frames = 0
    /\ got = [c \in Conns |-> <<>>]
    /\ told = [m \in Members |-> "offline"] /\ crossed = {}

-----------------------------------------------------------------------------

MemberOf(c) == place[c][1]
HomeOf(c) == place[c][2]

\* The connections of a member on an instance: hub.clients[member] there.
Clients(i, m) == {c \in hub : HomeOf(c) = i /\ MemberOf(c) = m}

\* OnlineAmong of an instance's hub.
OnlineAmong(i, among) == {m \in among : Clients(i, m) # {}}

Others(m) == Members \ {m}
Busy(g) == \E s \in sending : s.by = g
Event(x, kind) == [about |-> x, kind |-> kind]

\* The hub's write lock waits for every SendToMembers of the instance.
Unlocked(i) == \A s \in sending : s.at # i

\* select { case c.Send <- payload: default: }
Offer(c, ev) ==
    IF Len(queue[c]) < Cap
    THEN /\ queue' = [queue EXCEPT ![c] = Append(@, ev)]
         /\ got' = [got EXCEPT ![c] = Append(@, ev)]
    ELSE UNCHANGED <<queue, got>>

\* SendToMembers takes the read lock and the connections registered then.
Targets(i, to) == {c \in hub : HomeOf(c) = i /\ MemberOf(c) \in to}
SendToMembers(i, by, ev, to) ==
    sending' = IF Targets(i, to) = {} THEN sending
               ELSE sending \cup {[at |-> i, by |-> by, ev |-> ev, todo |-> Targets(i, to)]}

\* RedisBroadcaster.Broadcast: at most once at every instance, in one order; a failed
\* publish reaches none.
Publish(ev, to) ==
    \E reached \in {{}, {i \in Instances : \A j \in Instances : Len(inbox[j]) < InFlight}} :
        inbox' = [i \in Instances |-> IF i \in reached THEN Append(inbox[i], [ev |-> ev, to |-> to])
                                      ELSE inbox[i]]

BroadcastHereToo(i, by, ev, to) ==
    \/ /\ mode = "memory"
       /\ SendToMembers(i, by, ev, to)
       /\ UNCHANGED inbox
    \/ /\ mode = "redis"
       /\ Publish(ev, to)
       /\ SendToMembers(i, by, ev, to)

\* Service.broadcast, by a goroutine of an instance.
Broadcast(i, by, ev, to) ==
    \/ /\ to # {} /\ mode = "memory"
       /\ SendToMembers(i, by, ev, to)
       /\ UNCHANGED inbox
    \/ /\ to # {} /\ mode = "redis"
       /\ Publish(ev, to)
       /\ UNCHANGED sending
    \/ to = {} /\ UNCHANGED <<sending, inbox>>

\* One connection of a SendToMembers call: into its queue, or dropped when that is full.
Deliver(s, c) ==
    /\ s \in sending /\ c \in s.todo
    /\ Offer(c, s.ev)
    /\ sending' = (sending \ {s}) \cup (IF s.todo = {c} THEN {} ELSE {[s EXCEPT !.todo = @ \ {c}]})
    /\ UNCHANGED <<deploy, pumps, hub, closed, inbox, frames, history>>

\* RedisBroadcaster.run hands an instance's events over one at a time.
BusLoop(i) ==
    /\ mode = "redis"
    /\ ~ Busy(i) /\ inbox[i] # <<>>
    /\ SendToMembers(i, i, Head(inbox[i]).ev, Head(inbox[i]).to)
    /\ inbox' = [inbox EXCEPT ![i] = Tail(@)]
    /\ UNCHANGED <<deploy, pumps, hub, queue, closed, frames, got, history>>

\* A message sent through the REST API of an instance.
Post(i) ==
    /\ frames < MaxFrames[mode]
    /\ frames' = frames + 1
    /\ Broadcast(i, frames + 1, Event(frames + 1, "sent"), Members)
    /\ UNCHANGED <<deploy, pumps, hub, queue, closed, got, history>>

-----------------------------------------------------------------------------

GoTo(c, pc) == reader' = [reader EXCEPT ![c] = pc]

\* Changes of presence of m that are still to be told, other than c's own.
Announcing(m, c) == {d \in Conns \ {c} : MemberOf(d) = m /\ reader[d] \in {"online", "offline"}}
NotePresence(c) ==
    crossed' = IF Announcing(MemberOf(c), c) = {} THEN crossed \ {MemberOf(c)}
               ELSE crossed \cup {MemberOf(c)}

\* Upgrade and Hub.Register: the member's first connection here is to be told.
Register(c) ==
    /\ reader[c] = "new"
    /\ Unlocked(HomeOf(c))
    /\ wire' = [wire EXCEPT ![c] = "up"]
    /\ hub' = hub \cup {c}
    /\ \/ /\ Clients(HomeOf(c), MemberOf(c)) = {}
          /\ GoTo(c, "online") /\ NotePresence(c)
       \/ /\ Clients(HomeOf(c), MemberOf(c)) # {}
          /\ GoTo(c, "serve") /\ UNCHANGED crossed
    /\ UNCHANGED <<deploy, writer, queue, closed, sending, inbox, frames, got, told>>

\* broadcastPresence: CoMembers is read after the hub changed, outside its lock.
Tell(c, kind, next) ==
    /\ reader[c] = kind
    /\ GoTo(c, next)
    /\ \/ /\ Broadcast(HomeOf(c), c, Event(c, kind), Others(MemberOf(c)))
          /\ told' = [told EXCEPT ![MemberOf(c)] = kind]
          /\ UNCHANGED crossed
       \/ \* CoMembers fails: nobody is told
          /\ crossed' = crossed \cup {MemberOf(c)}
          /\ UNCHANGED <<told, sending, inbox>>
    /\ UNCHANGED <<deploy, writer, wire, hub, queue, closed, frames, got>>

TellOnline(c) == Tell(c, "online", "serve")
TellOffline(c) == Tell(c, "offline", "close")

StartPumps(c) ==
    /\ reader[c] = "serve" /\ ~ Busy(c)
    /\ GoTo(c, "loop")
    /\ writer' = [writer EXCEPT ![c] = "run"]
    /\ UNCHANGED <<deploy, wire, hub, queue, closed, sending, inbox, frames, got, history>>

Reading(c) == reader[c] = "loop" /\ ~ Busy(c)

\* A "send" frame reaches everybody, its author's other devices included; a "typing"
\* frame reaches the others.
ReadFrame(c) ==
    /\ Reading(c) /\ wire[c] = "up" /\ frames < MaxFrames[mode]
    /\ frames' = frames + 1
    /\ \E to \in {Members, Others(MemberOf(c))} : Broadcast(HomeOf(c), c, Event(frames + 1, "sent"), to)
    /\ UNCHANGED <<deploy, pumps, hub, queue, closed, got, history>>

\* SendMessage refuses a "send" frame: an error for this connection alone.
ReadRefused(c) ==
    /\ Reading(c) /\ wire[c] = "up" /\ frames < MaxFrames[mode]
    /\ frames' = frames + 1
    /\ Offer(c, Event(frames + 1, "sent"))
    /\ UNCHANGED <<deploy, pumps, hub, closed, sending, inbox, history>>

\* ReadMessage fails: the read deadline passed, or the write pump closed the connection.
ReadEnds(c) ==
    /\ Reading(c) /\ wire[c] # "up"
    /\ GoTo(c, "leave")
    /\ UNCHANGED <<deploy, writer, wire, hub, queue, closed, sending, inbox, frames, got, history>>

\* The connection leaves the hub and its queue is closed: a change of presence, or not.
LeaveHub(c, gone, tells) ==
    /\ reader[c] = "leave"
    /\ hub' = hub \ gone
    /\ closed' = closed \cup {c}
    /\ IF tells THEN GoTo(c, "offline") /\ NotePresence(c)
                ELSE GoTo(c, "close") /\ UNCHANGED crossed
    /\ UNCHANGED <<deploy, writer, wire, queue, sending, inbox, frames, got, told>>

IsLast(c) == Clients(HomeOf(c), MemberOf(c)) = {c}

UnregisterUnlocked(c) == LeaveHub(c, {c}, IsLast(c))
UnregisterAnyTells(c) == Unlocked(HomeOf(c)) /\ LeaveHub(c, {c}, TRUE)
UnregisterLastOnly(c) == Unlocked(HomeOf(c)) /\ LeaveHub(c, IF IsLast(c) THEN {c} ELSE {}, IsLast(c))

\* Hub.Unregister, under the write lock: was it the member's last connection here?
Unregister(c) == Unlocked(HomeOf(c)) /\ LeaveHub(c, {c}, IsLast(c))

CloseConn(c) ==
    /\ reader[c] = "close" /\ ~ Busy(c)
    /\ GoTo(c, "done")
    /\ wire' = [wire EXCEPT ![c] = "closed"]
    /\ UNCHANGED <<deploy, writer, hub, queue, closed, sending, inbox, frames, got, history>>

-----------------------------------------------------------------------------

\* writePump writes the next event; on a dead connection the kernel may still take it.
WriteNext(c) ==
    /\ writer[c] = "run" /\ wire[c] # "closed"
    /\ queue[c] # <<>>
    /\ queue' = [queue EXCEPT ![c] = Tail(@)]
    /\ UNCHANGED <<deploy, pumps, hub, closed, sending, inbox, frames, got, history>>

StopWriting(c) ==
    /\ writer' = [writer EXCEPT ![c] = "done"]
    /\ wire' = [wire EXCEPT ![c] = "closed"]

\* The event could not be written: the deadline passed or the connection is gone.
WriteFails(c) ==
    /\ writer[c] = "run" /\ queue[c] # <<>> /\ wire[c] # "up"
    /\ StopWriting(c)
    /\ queue' = [queue EXCEPT ![c] = Tail(@)]
    /\ UNCHANGED <<deploy, reader, hub, closed, sending, inbox, frames, got, history>>

\* The queue is empty and closed: the hub let the connection go.
WriteClosed(c) ==
    /\ writer[c] = "run" /\ queue[c] = <<>> /\ c \in closed
    /\ StopWriting(c)
    /\ UNCHANGED <<deploy, reader, hub, queue, closed, sending, inbox, frames, got, history>>

\* The ping of the ticker fails.
PingFails(c) ==
    /\ writer[c] = "run" /\ wire[c] \in {"dead", "closed"}
    /\ StopWriting(c)
    /\ UNCHANGED <<deploy, reader, hub, queue, closed, sending, inbox, frames, got, history>>

\* The peer leaves, with or without a word, breaks the protocol, or stops reading.
PeerGone(c) ==
    /\ wire[c] = "up" /\ c \in Leavers[mode]
    /\ wire' = [wire EXCEPT ![c] = "dead"]
    /\ UNCHANGED <<deploy, reader, writer, hub, queue, closed, sending, inbox, frames, got, history>>

Serve(c) ==
    \/ Register(c) \/ TellOnline(c) \/ StartPumps(c)
    \/ ReadEnds(c) \/ Unregister(c) \/ TellOffline(c) \/ CloseConn(c)
    \/ ReadFrame(c) \/ ReadRefused(c)

WritePump(c) == WriteNext(c) \/ WriteFails(c) \/ WriteClosed(c) \/ PingFails(c)

Next ==
    \/ \E c \in Conns : Serve(c) \/ WritePump(c) \/ PeerGone(c)
    \/ \E s \in sending : \E c \in s.todo : Deliver(s, c)
    \/ \E i \in Instances : BusLoop(i)
    \/ \E i \in Instances : Post(i)

\* The database answers, reads end at their deadline and the pumps are scheduled; peers,
\* pings and senders promise nothing.  Unregister waits for the read lock, which Go's
\* RWMutex refuses to new readers while a writer waits.
Fairness ==
    /\ \A c \in Conns :
          /\ WF_vars(TellOnline(c)) /\ WF_vars(StartPumps(c))
          /\ WF_vars(ReadEnds(c))
          /\ WF_vars(Unregister(c)) /\ WF_vars(TellOffline(c)) /\ WF_vars(CloseConn(c))
          /\ WF_vars(WriteNext(c) \/ WriteFails(c)) /\ WF_vars(WriteClosed(c))
    /\ WF_vars(\E s \in sending : \E c \in s.todo : Deliver(s, c))
    /\ \A i \in Instances : WF_vars(BusLoop(i))

Spec == Init /\ [][Next]_vars /\ Fairness

-----------------------------------------------------------------------------

\* Nobody sends on a closed channel, which would take the whole process down: whoever is
\* being sent to is registered, and the queue of a registered connection is open
\* (SendToMembers and Unregister of hub.go).
NeverSendsOnClosed ==
    /\ \A s \in sending : s.todo \cap closed = {}
    /\ \A c \in Conns : reader[c] = "loop" => c \notin closed

Precedes(c, e, f) == \E i, j \in DOMAIN got[c] : i < j /\ got[c][i] = e /\ got[c][j] = f

\* An event enters the queue of a connection once at most, and with the Redis broadcaster
\* no two connections see two events in opposite orders, on whatever instances they are
\* (redis.go: the publisher never delivers locally, every instance has one loop).
OnceInOneOrder ==
    /\ \A c \in Conns : \A i, j \in DOMAIN got[c] : got[c][i] = got[c][j] => i = j
    /\ mode = "redis" =>
         \A c, d \in Conns : \A i, j \in DOMAIN got[c] :
             i < j => ~ Precedes(d, got[c][j], got[c][i])

OneHome(m) == \A c, d \in Conns : MemberOf(c) = m /\ MemberOf(d) = m => HomeOf(c) = HomeOf(d)
IsOnline(m) == \E i \in Instances : OnlineAmong(i, {m}) # {}

\* When no presence change of a member is waiting to be told, the last one told is the
\* truth, whichever of his devices came and went, unless two changes were told at the same
\* time or one could not be told (Connect, Disconnect and broadcastPresence of service.go).
PresenceTrueUnlessCrossed ==
    \A m \in Members :
        (OneHome(m) /\ m \notin crossed
           /\ \A c \in Conns : MemberOf(c) = m => reader[c] \notin {"online", "offline"})
        => (told[m] = "online" <=> IsOnline(m))

\* A connection whose peer is gone leaves the hub and both of its pumps end.
DeadConnectionsEnd ==
    \A c \in Conns : (wire[c] \in {"dead", "closed"})
                     ~> (reader[c] = "done" /\ writer[c] = "done" /\ c \notin hub)
=============================================================================
