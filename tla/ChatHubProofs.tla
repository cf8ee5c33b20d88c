---------------------------- MODULE ChatHubProofs ----------------------------
(***************************************************************************)
(* What ChatHub guarantees for any number of instances, members and        *)
(* connections and queues of any size: nobody sends on a closed channel,   *)
(* presence is told truly, and events arrive once and in one order.        *)
(***************************************************************************)
EXTENDS ChatHub, TLAPS

-----------------------------------------------------------------------------
(* Who is registered *)

InHub == {"online", "serve", "loop", "leave"}

\* The hub holds the connections that were registered and have not been taken out; a call
\* under way sends to some of them, of its own instance.
Sound(s) ==
    /\ s = [at |-> s.at, by |-> s.by, ev |-> s.ev, todo |-> s.todo]
    /\ s.todo \subseteq {c \in hub : HomeOf(c) = s.at}

HubInv ==
    /\ place \in [Conns -> Members \X Instances]
    /\ reader \in [Conns -> {"new", "offline", "close", "done"} \cup InHub]
    /\ hub = {c \in Conns : reader[c] \in InHub}
    /\ closed = {c \in Conns : reader[c] \in {"offline", "close", "done"}}
    /\ \A s \in sending : Sound(s)

LEMMA HubOpen == HubInv => NeverSendsOnClosed
BY DEF HubInv, NeverSendsOnClosed, InHub, Sound

\* What a broadcast adds to the calls under way.
LEMMA Calls ==
  ASSUME \A s \in sending : Sound(s)
  PROVE  \A i, by, ev, to :
            SendToMembers(i, by, ev, to) \/ Broadcast(i, by, ev, to) => \A s \in sending' : Sound(s)
<1> SUFFICES ASSUME NEW i, NEW by, NEW ev, NEW to, SendToMembers(i, by, ev, to) \/ Broadcast(i, by, ev, to),
                    NEW s, s \in sending', s \notin sending
             PROVE  Sound(s)
  OBVIOUS
<1>1. s = [at |-> i, by |-> by, ev |-> ev, todo |-> Targets(i, to)]
  BY DEF Broadcast, SendToMembers
<1> QED
  BY <1>1 DEF Targets, Sound

\* A step of c's reader that moves it on without taking it out of the hub.
LEMMA HubKeeps ==
  ASSUME HubInv, UNCHANGED <<place, hub, closed>>,
         UNCHANGED reader \/ \E c \in Conns, pc \in {"new", "offline", "close", "done"} \cup InHub :
            /\ GoTo(c, pc)
            /\ pc \in InHub <=> reader[c] \in InHub
            /\ pc = "new" <=> reader[c] = "new",
         \A s \in sending' : Sound(s)
  PROVE  HubInv'
<1>1. reader' \in [Conns -> {"new", "offline", "close", "done"} \cup InHub]
  BY DEF HubInv, GoTo
<1>2. \A c \in Conns : /\ reader'[c] \in InHub <=> reader[c] \in InHub
                       /\ reader'[c] \in {"offline", "close", "done"} <=> reader[c] \in {"offline", "close", "done"}
  BY DEF HubInv, GoTo, InHub
<1>3. \A c \in Conns : HomeOf(c)' = HomeOf(c)
  BY DEF HomeOf
<1>4. \A s \in sending' : s.todo \subseteq Conns
  BY DEF HubInv, Sound
<1> QED
  BY <1>1, <1>2, <1>3, <1>4 DEF HubInv, Sound

LEMMA HubStep ==
  ASSUME HubInv, Next
  PROVE  HubInv'
<1> USE DEF InHub
<1>0. \A s \in sending : Sound(s) /\ s.todo \subseteq Conns
  BY DEF HubInv, Sound
<1>1. ASSUME NEW c \in Conns, Register(c)
      PROVE  HubInv'
  <2>1. UNCHANGED <<place, closed, sending>> /\ reader[c] = "new" /\ hub' = hub \cup {c}
    BY <1>1 DEF Register, deploy
  <2>2. \E pc \in {"online", "serve"} : GoTo(c, pc)
    BY <1>1 DEF Register
  <2>3. \A d \in Conns : HomeOf(d)' = HomeOf(d)
    BY <2>1 DEF HomeOf
  <2> QED
    BY <1>0, <2>1, <2>2, <2>3 DEF HubInv, GoTo, Sound
<1>2. ASSUME NEW c \in Conns, Unregister(c)
      PROVE  HubInv'
  <2>1. /\ UNCHANGED <<place, sending>> /\ reader[c] = "leave"
        /\ hub' = hub \ {c} /\ closed' = closed \cup {c}
    BY <1>2 DEF Unregister, LeaveHub, deploy
  <2>2. \E pc \in {"offline", "close"} : GoTo(c, pc)
    BY <1>2 DEF Unregister, LeaveHub
  <2>3. \A d \in Conns : HomeOf(d)' = HomeOf(d)
    BY <2>1 DEF HomeOf
  <2>4. \A s \in sending : c \notin s.todo
    BY <1>2, <1>0 DEF Unregister, Unlocked, Sound
  <2> QED
    BY <1>0, <2>1, <2>2, <2>3, <2>4 DEF HubInv, GoTo, Sound
<1>3. ASSUME NEW c \in Conns, NEW kind \in {"online", "offline"},
             IF kind = "online" THEN TellOnline(c) ELSE TellOffline(c)
      PROVE  HubInv'
  <2> DEFINE next == IF kind = "online" THEN "serve" ELSE "close"
  <2>1. Tell(c, kind, next)
    BY <1>3 DEF TellOnline, TellOffline
  <2>2. GoTo(c, next) /\ reader[c] = kind /\ UNCHANGED <<place, hub, closed>>
    BY <2>1 DEF Tell, deploy
  <2>3. \A s \in sending' : Sound(s)
    BY <1>0, <2>1, Calls DEF Tell
  <2> QED
    BY <2>2, <2>3, HubKeeps
<1>4. ASSUME NEW c \in Conns, StartPumps(c) \/ ReadEnds(c) \/ CloseConn(c)
      PROVE  HubInv'
  <2>1. UNCHANGED <<place, hub, closed, sending>>
    BY <1>4 DEF StartPumps, ReadEnds, CloseConn, deploy
  <2>2. \/ GoTo(c, "loop") /\ reader[c] = "serve"
        \/ GoTo(c, "leave") /\ reader[c] = "loop"
        \/ GoTo(c, "done") /\ reader[c] = "close"
    BY <1>4 DEF StartPumps, ReadEnds, CloseConn, Reading
  <2> QED
    BY <1>0, <2>1, <2>2, HubKeeps
<1>5. ASSUME UNCHANGED <<place, hub, closed, reader>>,
             UNCHANGED sending \/ \E i, by, ev, to : SendToMembers(i, by, ev, to) \/ Broadcast(i, by, ev, to)
      PROVE  HubInv'
  <2>1. \A s \in sending' : Sound(s)
    BY <1>0, <1>5, Calls
  <2> QED
    BY <1>5, <2>1, HubKeeps
<1>6. ASSUME NEW c \in Conns, ReadFrame(c) \/ ReadRefused(c)
      PROVE  HubInv'
  BY <1>5, <1>6 DEF ReadFrame, ReadRefused, deploy, pumps
<1>7. ASSUME NEW c \in Conns, WritePump(c) \/ PeerGone(c)
      PROVE  HubInv'
  BY <1>5, <1>7 DEF WritePump, WriteNext, WriteFails, WriteClosed, PingFails, PeerGone, deploy, pumps
<1>8. ASSUME NEW s \in sending, NEW c \in s.todo, Deliver(s, c)
      PROVE  HubInv'
  <2>1. UNCHANGED <<place, hub, closed, reader>>
    BY <1>8 DEF Deliver, deploy, pumps
  <2>2. \A t \in sending' : t \in sending \/ t = [s EXCEPT !.todo = @ \ {c}]
    BY <1>8 DEF Deliver
  <2>3. Sound([s EXCEPT !.todo = @ \ {c}])
    BY <1>0 DEF Sound
  <2> QED
    BY <1>0, <2>1, <2>2, <2>3, HubKeeps
<1>9. ASSUME NEW i \in Instances, BusLoop(i) \/ Post(i)
      PROVE  HubInv'
  BY <1>5, <1>9 DEF BusLoop, Post, deploy, pumps
<1> QED
  BY <1>1, <1>2, <1>3, <1>4, <1>6, <1>7, <1>8, <1>9 DEF Next, Serve

LEMMA HubSpec ==
  /\ Init => HubInv
  /\ HubInv /\ [Next]_vars => HubInv'
<1>1. Init => HubInv
  BY HubAssumption DEF Init, HubInv, InHub
<1>2. HubInv /\ vars' = vars => HubInv'
  BY DEF vars, deploy, pumps, HubInv, HomeOf, Sound
<1> QED
  BY <1>1, <1>2, HubStep

\* With any number of connections, nobody sends on a closed channel.
THEOREM SendsOnOpen == Spec => []NeverSendsOnClosed
BY HubSpec, HubOpen, PTL DEF Spec

-----------------------------------------------------------------------------
(* Types *)

LEMMA CallTypes ==
  ASSUME TypeOK, NEW i \in Instances, NEW by \in Conns \cup Frames \cup Instances, NEW ev \in Events,
         NEW to \in SUBSET Members, Broadcast(i, by, ev, to)
  PROVE  sending' \subseteq Sending /\ inbox' \in [Instances -> Seq([ev : Events, to : SUBSET Members])]
<1> DEFINE call == [at |-> i, by |-> by, ev |-> ev, todo |-> Targets(i, to)]
           Mail == [ev : Events, to : SUBSET Members]
<1>1. call \in Sending
  BY DEF Targets, TypeOK, Sending
<1>2. ASSUME SendToMembers(i, by, ev, to)
      PROVE  sending' \subseteq Sending
  BY <1>1, <1>2 DEF SendToMembers, TypeOK
<1>3. ASSUME Publish(ev, to)
      PROVE  inbox' \in [Instances -> Seq(Mail)]
  <2>1. [ev |-> ev, to |-> to] \in Mail
    OBVIOUS
  <2>2. \A j \in Instances : inbox[j] \in Seq(Mail)
    BY DEF TypeOK
  <2> HIDE DEF Mail
  <2>3. \A j \in Instances : Append(inbox[j], [ev |-> ev, to |-> to]) \in Seq(Mail)
    BY <2>1, <2>2
  <2> QED
    BY <1>3, <2>2, <2>3 DEF Publish
<1>4. sending \subseteq Sending /\ inbox \in [Instances -> Seq(Mail)]
  BY DEF TypeOK
<1> QED
  BY <1>2, <1>3, <1>4 DEF Broadcast

LEMMA QueueTypes ==
  ASSUME TypeOK, NEW c \in Conns, NEW ev \in Events, Offer(c, ev)
  PROVE  /\ queue' \in [Conns -> Seq(Events)] /\ \A d \in Conns : Len(queue'[d]) <= Cap
         /\ got' \in [Conns -> Seq(Events)]
<1>1. queue[c] \in Seq(Events) /\ got[c] \in Seq(Events) /\ Cap \in Nat
  BY HubAssumption DEF TypeOK
<1>2. /\ Append(queue[c], ev) \in Seq(Events) /\ Append(got[c], ev) \in Seq(Events)
      /\ Len(Append(queue[c], ev)) = Len(queue[c]) + 1 /\ Len(queue[c]) \in Nat
  BY <1>1
<1>3. CASE Len(queue[c]) < Cap
  <2>1. /\ queue' = [queue EXCEPT ![c] = Append(queue[c], ev)]
        /\ got' = [got EXCEPT ![c] = Append(got[c], ev)]
    BY <1>3 DEF Offer
  <2>2. Len(Append(queue[c], ev)) <= Cap
    BY <1>1, <1>2, <1>3
  <2> HIDE <1>3
  <2>3. \A d \in Conns : Len(queue'[d]) <= Cap
    BY <2>1, <2>2 DEF TypeOK
  <2> QED
    BY <1>2, <2>1, <2>3 DEF TypeOK
<1>4. CASE ~ Len(queue[c]) < Cap
  BY <1>4 DEF Offer, TypeOK
<1> QED
  BY <1>3, <1>4

LEMMA TailTypes ==
  ASSUME TypeOK, NEW c \in Conns, queue[c] # <<>>, queue' = [queue EXCEPT ![c] = Tail(@)]
  PROVE  queue' \in [Conns -> Seq(Events)] /\ \A d \in Conns : Len(queue'[d]) <= Cap
<1>1. queue[c] \in Seq(Events) /\ Len(queue[c]) <= Cap /\ Cap \in Nat
  BY HubAssumption DEF TypeOK
<1>2. Tail(queue[c]) \in Seq(Events) /\ Len(Tail(queue[c])) = Len(queue[c]) - 1 /\ Len(queue[c]) \in Nat
  BY <1>1
<1> QED
  BY <1>1, <1>2 DEF TypeOK

LEMMA TypeStep ==
  ASSUME TypeOK, Next
  PROVE  TypeOK'
<1>0. /\ \A c \in Conns : MemberOf(c) \in Members /\ HomeOf(c) \in Instances
      /\ \A c \in Conns : Others(MemberOf(c)) \subseteq Members
      /\ MaxFrames[mode] \in Nat /\ frames + 1 \in Frames
  BY HubAssumption DEF TypeOK, MemberOf, HomeOf, Others, Frames
<1>1. ASSUME NEW c \in Conns, Register(c)
      PROVE  TypeOK'
  BY <1>0, <1>1 DEF Register, TypeOK, deploy, GoTo, NotePresence
<1>2. ASSUME NEW c \in Conns, NEW kind \in {"online", "offline"}, NEW next \in {"serve", "close"},
             Tell(c, kind, next)
      PROVE  TypeOK'
  <2>1. Event(c, kind) \in Events /\ Others(MemberOf(c)) \in SUBSET Members
    BY <1>0 DEF Event, Events
  <2>2. sending' \subseteq Sending /\ inbox' \in [Instances -> Seq([ev : Events, to : SUBSET Members])]
    <3>1. CASE Broadcast(HomeOf(c), c, Event(c, kind), Others(MemberOf(c)))
      BY <1>0, <2>1, <3>1, CallTypes
    <3>2. CASE UNCHANGED <<sending, inbox>>
      BY <3>2 DEF TypeOK
    <3> QED
      BY <1>2, <3>1, <3>2 DEF Tell
  <2>3. told' \in [Members -> {"online", "offline"}] /\ crossed' \subseteq Members
    BY <1>0, <1>2 DEF Tell, TypeOK
  <2> QED
    BY <1>2, <2>2, <2>3 DEF Tell, TypeOK, deploy, GoTo
<1>3. ASSUME NEW c \in Conns, StartPumps(c) \/ ReadEnds(c) \/ CloseConn(c) \/ PeerGone(c)
      PROVE  TypeOK'
  BY <1>3 DEF StartPumps, ReadEnds, CloseConn, PeerGone, TypeOK, deploy, history, GoTo
<1>4. ASSUME NEW c \in Conns, Unregister(c)
      PROVE  TypeOK'
  <2>1. hub' \subseteq Conns /\ closed' \subseteq Conns
    BY <1>4 DEF Unregister, LeaveHub, TypeOK
  <2>2. crossed' \subseteq Members
    BY <1>0, <1>4 DEF Unregister, LeaveHub, NotePresence, TypeOK
  <2>3. reader' \in [Conns -> {"new", "online", "serve", "loop", "leave", "offline", "close", "done"}]
    BY <1>4 DEF Unregister, LeaveHub, GoTo, TypeOK
  <2> QED
    BY <1>4, <2>1, <2>2, <2>3 DEF Unregister, LeaveHub, TypeOK, deploy
<1>5. frames < MaxFrames[mode] => frames + 1 \in 0 .. MaxFrames[mode] /\ Event(frames + 1, "sent") \in Events
  BY <1>0 DEF TypeOK, Event, Events
<1>6. ASSUME NEW c \in Conns, ReadFrame(c)
      PROVE  TypeOK'
  <2>1. PICK to \in {Members, Others(MemberOf(c))} : Broadcast(HomeOf(c), c, Event(frames + 1, "sent"), to)
    BY <1>6 DEF ReadFrame
  <2>2. sending' \subseteq Sending /\ inbox' \in [Instances -> Seq([ev : Events, to : SUBSET Members])]
    BY <1>0, <1>5, <1>6, <2>1, CallTypes DEF ReadFrame
  <2> QED
    BY <1>5, <1>6, <2>2 DEF ReadFrame, TypeOK, deploy, pumps, history
<1>7. ASSUME NEW c \in Conns, ReadRefused(c)
      PROVE  TypeOK'
  <2>1. /\ queue' \in [Conns -> Seq(Events)] /\ \A d \in Conns : Len(queue'[d]) <= Cap
        /\ got' \in [Conns -> Seq(Events)]
    BY <1>5, <1>7, QueueTypes DEF ReadRefused
  <2> QED
    BY <1>5, <1>7, <2>1 DEF ReadRefused, TypeOK, deploy, pumps, history
<1>8. ASSUME NEW c \in Conns, WriteNext(c) \/ WriteFails(c)
      PROVE  TypeOK'
  <2>1. queue' \in [Conns -> Seq(Events)] /\ \A d \in Conns : Len(queue'[d]) <= Cap
    BY <1>8, TailTypes DEF WriteNext, WriteFails
  <2> QED
    BY <1>8, <2>1 DEF WriteNext, WriteFails, StopWriting, TypeOK, deploy, pumps, history
<1>9. ASSUME NEW c \in Conns, WriteClosed(c) \/ PingFails(c)
      PROVE  TypeOK'
  BY <1>9 DEF WriteClosed, PingFails, StopWriting, TypeOK, deploy, history
<1>10. ASSUME NEW s \in sending, NEW c \in s.todo, Deliver(s, c)
       PROVE  TypeOK'
  <2>1. s \in Sending
    BY <1>10 DEF TypeOK
  <2>2. s.ev \in Events /\ c \in Conns /\ [s EXCEPT !.todo = @ \ {c}] \in Sending
    BY <1>10, <2>1 DEF Sending
  <2>3. sending' \subseteq Sending
    BY <1>10, <2>2 DEF Deliver, TypeOK
  <2>4. /\ queue' \in [Conns -> Seq(Events)] /\ \A d \in Conns : Len(queue'[d]) <= Cap
        /\ got' \in [Conns -> Seq(Events)]
    BY <1>10, <2>2, QueueTypes DEF Deliver
  <2> QED
    BY <1>10, <2>3, <2>4 DEF Deliver, TypeOK, deploy, pumps, history
<1>11. ASSUME NEW i \in Instances, BusLoop(i)
       PROVE  TypeOK'
  <2> DEFINE Mail == [ev : Events, to : SUBSET Members]
  <2>1. inbox[i] \in Seq(Mail) /\ inbox[i] # <<>>
    BY <1>11 DEF BusLoop, TypeOK
  <2>2. Head(inbox[i]) \in Mail /\ Tail(inbox[i]) \in Seq(Mail)
    <3> HIDE DEF Mail
    <3> QED
      BY <2>1
  <2>3. inbox' \in [Instances -> Seq(Mail)]
    BY <1>11, <2>2 DEF BusLoop, TypeOK
  <2>4. Targets(i, Head(inbox[i]).to) \subseteq Conns
    BY DEF Targets, TypeOK
  <2>5. sending' \subseteq Sending
    BY <1>11, <2>2, <2>4 DEF BusLoop, SendToMembers, TypeOK, Sending
  <2> QED
    BY <1>11, <2>3, <2>5 DEF BusLoop, TypeOK, deploy, pumps, history
<1>12. ASSUME NEW i \in Instances, Post(i)
       PROVE  TypeOK'
  <2>1. sending' \subseteq Sending /\ inbox' \in [Instances -> Seq([ev : Events, to : SUBSET Members])]
    BY <1>0, <1>5, <1>12, CallTypes DEF Post
  <2> QED
    BY <1>5, <1>12, <2>1 DEF Post, TypeOK, deploy, pumps, history
<1> QED
  BY <1>1, <1>2, <1>3, <1>4, <1>6, <1>7, <1>8, <1>9, <1>10, <1>11, <1>12
     DEF Next, Serve, WritePump, TellOnline, TellOffline

\* Connections, queues and what Redis holds keep their types; no queue holds more than Cap.
THEOREM TypeCorrect == Spec => []TypeOK
<1>1. Init => TypeOK
  <2> SUFFICES ASSUME Init
               PROVE  TypeOK
    OBVIOUS
  <2>1. <<>> \in Seq(Events) /\ <<>> \in Seq([ev : Events, to : SUBSET Members]) /\ Len(<<>>) = 0
    OBVIOUS
  <2>2. mode \in Modes /\ MaxFrames[mode] \in Nat /\ Cap \in Nat
    BY HubAssumption DEF Init
  <2>3. queue = [c \in Conns |-> <<>>] /\ inbox = [i \in Instances |-> <<>>] /\ got = [c \in Conns |-> <<>>]
    BY DEF Init
  <2>4. queue \in [Conns -> Seq(Events)] /\ \A c \in Conns : Len(queue[c]) <= Cap
    BY <2>1, <2>2, <2>3
  <2>5. inbox \in [Instances -> Seq([ev : Events, to : SUBSET Members])] /\ got \in [Conns -> Seq(Events)]
    BY <2>1, <2>3
  <2>6. frames = 0 /\ frames \in 0 .. MaxFrames[mode]
    BY <2>2 DEF Init
  <2> QED
    BY <2>4, <2>5, <2>6 DEF Init, TypeOK
<1>2. TypeOK /\ vars' = vars => TypeOK'
  BY DEF TypeOK, vars, deploy, pumps, history
<1>3. TypeOK /\ [Next]_vars => TypeOK'
  BY <1>2, TypeStep
<1> QED
  BY <1>1, <1>3, PTL DEF Spec

-----------------------------------------------------------------------------
(* Presence *)

Present(m) == \E c \in hub : MemberOf(c) = m
Waiting(m) == {c \in Conns : MemberOf(c) = m /\ reader[c] \in {"online", "offline"}}

\* Of a member whose changes did not cross, one change at most waits to be told, and it is
\* the one that made the hub as it is.
PresenceInv ==
    /\ told \in [Members -> {"online", "offline"}]
    /\ \A m \in Members : OneHome(m) /\ m \notin crossed =>
        /\ \A c, d \in Waiting(m) : c = d
        /\ \A c \in Waiting(m) : reader[c] = "online" <=> Present(m)
        /\ Waiting(m) = {} => (told[m] = "online" <=> Present(m))

LEMMA Presence ==
  ASSUME HubInv, NEW m \in Members
  PROVE  IsOnline(m) <=> Present(m)
<1>1. \A c \in hub : HomeOf(c) \in Instances
  BY DEF HubInv, HomeOf
<1> QED
  BY <1>1 DEF IsOnline, OnlineAmong, Clients, Present

LEMMA PresenceTold == HubInv /\ PresenceInv => PresenceTrueUnlessCrossed
BY Presence DEF PresenceInv, PresenceTrueUnlessCrossed, Waiting

LEMMA OfOneHome ==
  ASSUME HubInv, NEW c \in Conns, OneHome(MemberOf(c))
  PROVE  /\ Clients(HomeOf(c), MemberOf(c)) = {d \in hub : MemberOf(d) = MemberOf(c)}
         /\ MemberOf(c) \in Members
<1>1. hub \subseteq Conns
  BY DEF HubInv
<1>2. \A d \in hub : MemberOf(d) = MemberOf(c) => HomeOf(d) = HomeOf(c)
  BY <1>1 DEF OneHome
<1>3. MemberOf(c) \in Members
  BY DEF HubInv, MemberOf
<1> QED
  BY <1>2, <1>3 DEF Clients

\* A step that tells nothing and changes nobody's presence.
LEMMA PresenceKeeps ==
  ASSUME HubInv, PresenceInv, UNCHANGED <<place, told, crossed>>,
         \A m \in Members : OneHome(m) => (Present(m)' <=> Present(m)),
         \A c \in Conns : reader'[c] = reader[c]
                          \/ {reader[c], reader'[c]} \cap {"online", "offline"} = {}
  PROVE  PresenceInv'
<1>1. \A m \in Members : Waiting(m)' = Waiting(m) /\ (OneHome(m)' <=> OneHome(m))
  BY DEF Waiting, MemberOf, OneHome, HomeOf
<1>2. \A m \in Members : \A c \in Waiting(m) : reader'[c] = reader[c]
  BY DEF Waiting
<1> QED
  BY <1>1, <1>2 DEF PresenceInv

\* One that changes the presence of the member of c alone.
LEMMA PresenceOther ==
  ASSUME HubInv, PresenceInv, NEW c \in Conns, NEW pc, GoTo(c, pc), UNCHANGED place,
         told' \in [Members -> {"online", "offline"}],
         \A m \in Members \ {MemberOf(c)} :
             told'[m] = told[m] /\ (Present(m)' <=> Present(m)) /\ (m \in crossed' <=> m \in crossed),
         OneHome(MemberOf(c)) /\ MemberOf(c) \notin crossed' =>
            /\ \A d, e \in Waiting(MemberOf(c))' : d = e
            /\ \A d \in Waiting(MemberOf(c))' : reader'[d] = "online" <=> Present(MemberOf(c))'
            /\ Waiting(MemberOf(c))' = {} => (told'[MemberOf(c)] = "online" <=> Present(MemberOf(c))')
  PROVE  PresenceInv'
<1>1. \A d \in Conns : d # c => reader'[d] = reader[d]
  BY DEF GoTo, HubInv
<1>2. \A m \in Members : OneHome(m)' <=> OneHome(m)
  BY DEF OneHome, HomeOf, MemberOf
<1>3. ASSUME NEW m \in Members, m # MemberOf(c)
      PROVE  Waiting(m)' = Waiting(m) /\ \A d \in Waiting(m) : reader'[d] = reader[d]
  BY <1>1, <1>3 DEF Waiting, MemberOf
<1>4. MemberOf(c)' = MemberOf(c)
  BY DEF MemberOf
<1>5. ASSUME NEW m \in Members, OneHome(m), m \notin crossed', m # MemberOf(c)
      PROVE  /\ \A d, e \in Waiting(m)' : d = e
             /\ \A d \in Waiting(m)' : reader'[d] = "online" <=> Present(m)'
             /\ Waiting(m)' = {} => (told'[m] = "online" <=> Present(m)')
  <2>1. /\ \A d, e \in Waiting(m) : d = e
        /\ \A d \in Waiting(m) : reader[d] = "online" <=> Present(m)
        /\ Waiting(m) = {} => (told[m] = "online" <=> Present(m))
    BY <1>5 DEF PresenceInv
  <2> QED
    BY <1>3, <1>5, <2>1
<1> QED
  BY <1>2, <1>4, <1>5 DEF PresenceInv

LEMMA PresenceStep ==
  ASSUME HubInv, HubInv', PresenceInv, Next
  PROVE  PresenceInv'
<1>0. \A m \in Members : place' = place /\ hub' = hub => (Present(m)' <=> Present(m))
  BY DEF Present, MemberOf
<1>1. ASSUME NEW c \in Conns, Register(c)
      PROVE  PresenceInv'
  <2> DEFINE m == MemberOf(c)
  <2>1. UNCHANGED <<place, told>> /\ hub' = hub \cup {c} /\ reader[c] = "new" /\ m \in Members
    BY <1>1 DEF Register, deploy, HubInv, MemberOf
  <2>2. ASSUME NEW n \in Members
        PROVE  Present(n)' <=> Present(n) \/ n = m
    BY <2>1 DEF Present, MemberOf
  <2>3. CASE GoTo(c, "online") /\ NotePresence(c) /\ Clients(HomeOf(c), m) = {}
    <3>1. \A n \in Members \ {m} : n \in crossed' <=> n \in crossed
      BY <2>3 DEF NotePresence
    <3>2. ASSUME m \notin crossed'
          PROVE  Announcing(m, c) = {}
      BY <2>1, <2>3, <3>2 DEF NotePresence
    <3>3. m \notin crossed' => Waiting(m)' = {c} /\ reader'[c] = "online"
      BY <2>1, <2>3, <3>2 DEF Announcing, Waiting, GoTo, HubInv, MemberOf
    <3>4. told' \in [Members -> {"online", "offline"}] /\ \A n \in Members : told'[n] = told[n]
      BY <2>1 DEF PresenceInv
    <3>5. Present(m)'
      BY <2>1 DEF Present, MemberOf
    <3>6. \A n \in Members \ {m} : Present(n)' <=> Present(n)
      BY <2>2
    <3>7. GoTo(c, "online") /\ UNCHANGED place
      BY <2>1, <2>3
    <3>8. m \notin crossed' =>
            /\ \A d, e \in Waiting(m)' : d = e
            /\ \A d \in Waiting(m)' : reader'[d] = "online" <=> Present(m)'
            /\ Waiting(m)' = {} => (told'[m] = "online" <=> Present(m)')
      BY <3>3, <3>5
    <3> QED
      BY <3>1, <3>4, <3>6, <3>7, <3>8, PresenceOther
  <2>4. CASE GoTo(c, "serve") /\ UNCHANGED crossed /\ Clients(HomeOf(c), m) # {}
    <3>1. Present(m)
      BY <2>4 DEF Clients, Present
    <3>2. \A d \in Conns : reader'[d] = reader[d] \/ {reader[d], reader'[d]} \cap {"online", "offline"} = {}
      BY <2>1, <2>4 DEF GoTo, HubInv
    <3> QED
      BY <2>1, <2>2, <2>4, <3>1, <3>2, PresenceKeeps
  <2> QED
    BY <1>1, <2>3, <2>4 DEF Register
<1>2. ASSUME NEW c \in Conns, Unregister(c)
      PROVE  PresenceInv'
  <2> DEFINE m == MemberOf(c)
  <2>1. UNCHANGED <<place, told>> /\ hub' = hub \ {c} /\ reader[c] = "leave" /\ m \in Members
    BY <1>2 DEF Unregister, LeaveHub, deploy, HubInv, MemberOf
  <2>2. ASSUME NEW n \in Members, n # m
        PROVE  Present(n)' <=> Present(n)
    BY <2>1, <2>2 DEF Present, MemberOf
  <2>3. CASE IsLast(c)
    <3>1. GoTo(c, "offline") /\ NotePresence(c)
      BY <1>2, <2>3 DEF Unregister, LeaveHub
    <3>2. \A n \in Members \ {m} : n \in crossed' <=> n \in crossed
      BY <3>1 DEF NotePresence
    <3>3. ASSUME m \notin crossed'
          PROVE  Announcing(m, c) = {}
      BY <2>1, <3>1, <3>3 DEF NotePresence
    <3>4. m \notin crossed' => Waiting(m)' = {c} /\ reader'[c] = "offline"
      BY <2>1, <3>1, <3>3 DEF Announcing, Waiting, GoTo, HubInv, MemberOf
    <3>5. OneHome(m) => ~ Present(m)'
      <4>1. OneHome(m) => {d \in hub : MemberOf(d) = m} = {c}
        BY <2>3, OfOneHome DEF IsLast
      <4> QED
        BY <2>1, <4>1 DEF Present, MemberOf
    <3> HIDE DEF m
    <3> QED
      BY <2>1, <2>2, <3>1, <3>2, <3>4, <3>5, PresenceOther DEF PresenceInv, m
  <2>4. CASE ~ IsLast(c)
    <3>1. GoTo(c, "close") /\ UNCHANGED crossed
      BY <1>2, <2>4 DEF Unregister, LeaveHub
    <3>2. OneHome(m) => (Present(m)' <=> Present(m))
      <4>1. c \in hub
        BY <2>1 DEF HubInv, InHub
      <4>2. OneHome(m) => {d \in hub : MemberOf(d) = m} # {c}
        BY <2>4, OfOneHome DEF IsLast
      <4> QED
        BY <2>1, <4>1, <4>2 DEF Present, MemberOf
    <3>3. \A d \in Conns : reader'[d] = reader[d] \/ {reader[d], reader'[d]} \cap {"online", "offline"} = {}
      BY <2>1, <3>1 DEF GoTo, HubInv
    <3>4. ASSUME NEW n \in Members, OneHome(n)
          PROVE  Present(n)' <=> Present(n)
      <4>1. CASE n = m
        BY <2>1, <3>2, <3>4, <4>1 DEF Present, MemberOf
      <4> QED
        BY <2>2, <4>1
    <3> QED
      BY <2>1, <3>1, <3>3, <3>4, PresenceKeeps
  <2> QED
    BY <2>3, <2>4
<1>3. ASSUME NEW c \in Conns, NEW kind \in {"online", "offline"},
             IF kind = "online" THEN TellOnline(c) ELSE TellOffline(c)
      PROVE  PresenceInv'
  <2> DEFINE next == IF kind = "online" THEN "serve" ELSE "close"
             m == MemberOf(c)
  <2>1. Tell(c, kind, next)
    BY <1>3 DEF TellOnline, TellOffline
  <2>2. GoTo(c, next) /\ reader[c] = kind /\ UNCHANGED <<place, hub>> /\ m \in Members
    BY <2>1 DEF Tell, deploy, HubInv, MemberOf
  <2>3. \A n \in Members : Present(n)' <=> Present(n)
    BY <1>0, <2>2
  <2>4. c \in Waiting(m)
    BY <2>2 DEF Waiting
  <2>5. CASE told' = [told EXCEPT ![m] = kind] /\ UNCHANGED crossed
    <3>1. OneHome(m) /\ m \notin crossed =>
             Waiting(m) = {c} /\ (kind = "online" <=> Present(m))
      BY <2>2, <2>4 DEF PresenceInv
    <3>2. reader'[c] = next /\ next \notin {"online", "offline"}
      BY <2>2 DEF GoTo, HubInv
    <3>3. Waiting(m)' = Waiting(m) \ {c}
      BY <2>2, <3>2 DEF Waiting, GoTo, HubInv, MemberOf
    <3>4. told'[m] = kind /\ told' \in [Members -> {"online", "offline"}]
          /\ \A n \in Members \ {m} : told'[n] = told[n]
      BY <2>2, <2>5 DEF PresenceInv
    <3>5. GoTo(c, next) /\ UNCHANGED <<place, crossed>>
      BY <2>2, <2>5
    <3>6. OneHome(m) /\ m \notin crossed' =>
            /\ \A d, e \in Waiting(m)' : d = e
            /\ \A d \in Waiting(m)' : reader'[d] = "online" <=> Present(m)'
            /\ Waiting(m)' = {} => (told'[m] = "online" <=> Present(m)')
      <4>1. Present(m)' <=> Present(m)
        BY <2>2 DEF Present, MemberOf
      <4>2. OneHome(m) /\ m \notin crossed' => Waiting(m)' = {} /\ (kind = "online" <=> Present(m))
        BY <3>1, <3>3, <3>5
      <4> HIDE DEF m
      <4> QED
        BY <3>4, <4>1, <4>2
    <3> HIDE DEF next
    <3> QED
      BY <2>3, <3>4, <3>5, <3>6, PresenceOther
  <2>6. CASE crossed' = crossed \cup {m} /\ UNCHANGED told
    <3>1. m \in crossed' /\ \A n \in Members \ {m} : n \in crossed' <=> n \in crossed
      BY <2>6
    <3> HIDE DEF m, next
    <3> QED
      BY <2>2, <2>3, <2>6, <3>1, PresenceOther DEF PresenceInv, m
  <2> QED
    BY <2>1, <2>5, <2>6 DEF Tell
<1>4. ASSUME NEW c \in Conns, StartPumps(c) \/ ReadEnds(c) \/ CloseConn(c)
      PROVE  PresenceInv'
  <2>1. UNCHANGED <<place, hub, told, crossed>>
    BY <1>4 DEF StartPumps, ReadEnds, CloseConn, deploy, history
  <2>2. \/ GoTo(c, "loop") /\ reader[c] = "serve"
        \/ GoTo(c, "leave") /\ reader[c] = "loop"
        \/ GoTo(c, "done") /\ reader[c] = "close"
    BY <1>4 DEF StartPumps, ReadEnds, CloseConn, Reading
  <2>3. \A d \in Conns : reader'[d] = reader[d] \/ {reader[d], reader'[d]} \cap {"online", "offline"} = {}
    BY <2>2 DEF GoTo, HubInv
  <2> QED
    BY <1>0, <2>1, <2>3, PresenceKeeps
<1>5. ASSUME UNCHANGED <<place, hub, reader, history>>
      PROVE  PresenceInv'
  BY <1>0, <1>5, PresenceKeeps DEF history
<1>6. ASSUME NEW c \in Conns, ReadFrame(c) \/ ReadRefused(c)
      PROVE  PresenceInv'
  BY <1>5, <1>6 DEF ReadFrame, ReadRefused, deploy, pumps
<1>7. ASSUME NEW c \in Conns, WritePump(c) \/ PeerGone(c)
      PROVE  PresenceInv'
  BY <1>5, <1>7 DEF WritePump, WriteNext, WriteFails, WriteClosed, PingFails, PeerGone, deploy, pumps
<1>8. ASSUME NEW s, NEW c, Deliver(s, c)
      PROVE  PresenceInv'
  BY <1>5, <1>8 DEF Deliver, deploy, pumps
<1>9. ASSUME NEW i \in Instances, BusLoop(i) \/ Post(i)
      PROVE  PresenceInv'
  BY <1>5, <1>9 DEF BusLoop, Post, deploy, pumps
<1> QED
  BY <1>1, <1>2, <1>3, <1>4, <1>6, <1>7, <1>8, <1>9 DEF Next, Serve

LEMMA PresenceSpec ==
  /\ Init => PresenceInv
  /\ HubInv /\ HubInv' /\ PresenceInv /\ [Next]_vars => PresenceInv'
<1>1. Init => PresenceInv
  BY DEF Init, PresenceInv, Waiting, Present
<1>2. PresenceInv /\ vars' = vars => PresenceInv'
  BY DEF vars, deploy, pumps, history, PresenceInv, OneHome, HomeOf, MemberOf, Waiting, Present
<1> QED
  BY <1>1, <1>2, PresenceStep

\* Whichever of a member's devices come and go, what was last told about him is true, but
\* for changes that crossed or could not be told.
THEOREM PresenceIsTrue == Spec => []PresenceTrueUnlessCrossed
BY HubSpec, PresenceSpec, PresenceTold, PTL DEF Spec

-----------------------------------------------------------------------------
(* Order *)

LineTypes ==
    /\ mode \in {"memory", "redis"}
    /\ got \in [Conns -> Seq(Events)]
    /\ inbox \in [Instances -> Seq([ev : Events, to : SUBSET Members])]
    /\ \A s \in sending : s.ev \in Events
    /\ frames \in Nat

\* The line of a connection: the events that were put into its queue, those a call is about
\* to offer it, and those Redis holds for its instance.
InGot(c, e) == \E k \in DOMAIN got[c] : got[c][k] = e
Sent(c, e) == \E s \in sending : s.ev = e /\ c \in s.todo
Called(i, e) == \E s \in sending : s.at = i /\ s.ev = e
Held(i, e) == \E k \in DOMAIN inbox[i] : inbox[i][k].ev = e
HeldBefore(i, e, f) == \E k, l \in DOMAIN inbox[i] : k < l /\ inbox[i][k].ev = e /\ inbox[i][l].ev = f

Ahead(c, e, f) ==
    \/ Precedes(c, e, f)
    \/ InGot(c, e) /\ (Sent(c, f) \/ Held(HomeOf(c), f))
    \/ Sent(c, e) /\ Held(HomeOf(c), f)
    \/ HeldBefore(HomeOf(c), e, f)

\* Events that have been sent.
Used(e) ==
    \/ e.kind = "sent" /\ e.about \in 1 .. frames
    \/ \E c \in Conns : e = Event(c, "online") /\ reader[c] \notin {"new", "online"}
    \/ \E c \in Conns : e = Event(c, "offline") /\ reader[c] \in {"close", "done"}

\* Every event is once in a line at most,
Once ==
    /\ \A c \in Conns, e \in Events : ~ Precedes(c, e, e) /\ ~ (InGot(c, e) /\ Sent(c, e))
    /\ \A i \in Instances, e \in Events :
          /\ ~ HeldBefore(i, e, e)
          /\ Held(i, e) => ~ Called(i, e) /\ \A c \in Conns : HomeOf(c) = i => ~ InGot(c, e)
    /\ \A s, t \in sending : s.at = t.at /\ s.ev = t.ev => s = t

\* only those that have been sent,
OnlyUsed ==
    \A e \in Events :
        (\E c \in Conns : InGot(c, e)) \/ (\E i \in Instances : Called(i, e) \/ Held(i, e)) => Used(e)

\* and with Redis no two lines have two events in opposite orders.
OneOrder == \A c, d \in Conns, e, f \in Events : ~ (Ahead(c, e, f) /\ Ahead(d, f, e))

OrderInv ==
    /\ LineTypes /\ Once /\ OnlyUsed
    /\ mode = "memory" => \A i \in Instances : inbox[i] = <<>>
    /\ mode = "redis" =>
        /\ OneOrder
        /\ \A s \in sending : s.by = s.at
        /\ \A s, t \in sending : s.at = t.at => s = t

LEMMA OrderHolds == OrderInv => OnceInOneOrder
<1> SUFFICES ASSUME OrderInv
             PROVE  OnceInOneOrder
  OBVIOUS
<1>1. \A c \in Conns : \A k \in DOMAIN got[c] : got[c][k] \in Events /\ DOMAIN got[c] \subseteq Nat
  BY DEF OrderInv, LineTypes
<1>2. ASSUME NEW c \in Conns, NEW k \in DOMAIN got[c], NEW l \in DOMAIN got[c], got[c][k] = got[c][l]
      PROVE  k = l
  <2>1. k \in Nat /\ l \in Nat /\ got[c][k] \in Events
    BY <1>1
  <2>2. ~ Precedes(c, got[c][k], got[c][k])
    BY <2>1 DEF OrderInv, Once
  <2>3. ~ k < l /\ ~ l < k
    BY <1>2, <2>2 DEF Precedes
  <2> QED
    BY <2>1, <2>3
<1>3. ASSUME mode = "redis", NEW c \in Conns, NEW d \in Conns, NEW k \in DOMAIN got[c],
             NEW l \in DOMAIN got[c], k < l, Precedes(d, got[c][l], got[c][k])
      PROVE  FALSE
  <2>1. Precedes(c, got[c][k], got[c][l])
    BY <1>3 DEF Precedes
  <2> QED
    BY <1>1, <1>3, <2>1 DEF OrderInv, OneOrder, Ahead
<1> QED
  BY <1>2, <1>3 DEF OnceInOneOrder

LEMMA Appended ==
  ASSUME NEW S, NEW q \in Seq(S), NEW x \in S, NEW r, r = Append(q, x)
  PROVE  /\ r \in Seq(S) /\ Len(r) = Len(q) + 1 /\ r[Len(q) + 1] = x
         /\ DOMAIN q = 1 .. Len(q) /\ DOMAIN r = 1 .. Len(q) + 1 /\ Len(q) \in Nat
         /\ \A k \in DOMAIN q : r[k] = q[k]
OBVIOUS

\* What one more event in a queue changes.
LEMMA GotMore ==
  ASSUME LineTypes, NEW c \in Conns, NEW x \in Events, Offer(c, x)
  PROVE  /\ got' \in [Conns -> Seq(Events)]
         /\ \A d \in Conns : d # c => got'[d] = got[d]
         /\ \A e : InGot(c, e) => InGot(c, e)'
         /\ \A e : InGot(c, e)' => InGot(c, e) \/ e = x
         /\ \A e, f : Precedes(c, e, f)' => Precedes(c, e, f) \/ (InGot(c, e) /\ f = x)
<1>1. CASE UNCHANGED got
  BY <1>1 DEF LineTypes, InGot, Precedes
<1>2. CASE got' = [got EXCEPT ![c] = Append(@, x)]
  <2> DEFINE q == got[c]
             r == got'[c]
  <2>1. got' \in [Conns -> Seq(Events)] /\ q \in Seq(Events) /\ r = Append(q, x)
    BY <1>2 DEF LineTypes
  <2>2. /\ DOMAIN q = 1 .. Len(q) /\ DOMAIN r = 1 .. Len(q) + 1 /\ Len(q) \in Nat
        /\ r[Len(q) + 1] = x /\ \A k \in DOMAIN q : r[k] = q[k]
    BY <2>1, Appended
  <2>3. \A d \in Conns : d # c => got'[d] = got[d]
    BY <1>2 DEF LineTypes
  <2>4. \A e : InGot(c, e) => InGot(c, e)'
    BY <2>2 DEF InGot
  <2>5. \A e : InGot(c, e)' => InGot(c, e) \/ e = x
    BY <2>2 DEF InGot
  <2>6. \A e, f : Precedes(c, e, f)' => Precedes(c, e, f) \/ (InGot(c, e) /\ f = x)
    <3> SUFFICES ASSUME NEW e, NEW f, NEW k \in DOMAIN r, NEW l \in DOMAIN r, k < l, r[k] = e, r[l] = f
                 PROVE  Precedes(c, e, f) \/ (InGot(c, e) /\ f = x)
      BY DEF Precedes
    <3>1. k \in DOMAIN q /\ q[k] = e
      BY <2>2
    <3>2. CASE l \in DOMAIN q
      BY <2>2, <3>1, <3>2 DEF Precedes
    <3>3. CASE l \notin DOMAIN q
      BY <2>2, <3>1, <3>3 DEF InGot
    <3> QED
      BY <3>2, <3>3
  <2> QED
    BY <2>1, <2>3, <2>4, <2>5, <2>6
<1> QED
  BY <1>1, <1>2 DEF Offer

\* Who is in the line of a connection.
LEMMA InLine ==
  ASSUME HubInv, NEW c \in Conns, NEW e, NEW f, Ahead(c, e, f)
  PROVE  /\ HomeOf(c) \in Instances
         /\ InGot(c, e) \/ Called(HomeOf(c), e) \/ Held(HomeOf(c), e)
         /\ InGot(c, f) \/ Called(HomeOf(c), f) \/ Held(HomeOf(c), f)
<1>1. HomeOf(c) \in Instances
  BY DEF HubInv, HomeOf
<1>2. \A x : Sent(c, x) => Called(HomeOf(c), x)
  BY DEF HubInv, Sound, Sent, Called
<1>3. Precedes(c, e, f) => InGot(c, e) /\ InGot(c, f)
  BY DEF Precedes, InGot
<1>4. HeldBefore(HomeOf(c), e, f) => Held(HomeOf(c), e) /\ Held(HomeOf(c), f)
  BY DEF HeldBefore, Held
<1> QED
  BY <1>1, <1>2, <1>3, <1>4 DEF Ahead

LEMMA Unused ==
  ASSUME HubInv, OrderInv, NEW x \in Events, ~ Used(x)
  PROVE  /\ \A c \in Conns : ~ InGot(c, x) /\ ~ Sent(c, x)
         /\ \A i \in Instances : ~ Called(i, x) /\ ~ Held(i, x)
         /\ \A c \in Conns : \A e : ~ Ahead(c, x, e) /\ ~ Ahead(c, e, x)
<1>1. /\ \A c \in Conns : ~ InGot(c, x)
      /\ \A i \in Instances : ~ Called(i, x) /\ ~ Held(i, x)
  BY DEF OrderInv, OnlyUsed
<1>2. ASSUME NEW c \in Conns
      PROVE  ~ Sent(c, x)
  <2>1. HomeOf(c) \in Instances
    BY DEF HubInv, HomeOf
  <2>2. Sent(c, x) => Called(HomeOf(c), x)
    BY DEF HubInv, Sound, Sent, Called
  <2> QED
    BY <1>1, <2>1, <2>2
<1> QED
  BY <1>1, <1>2, InLine

\* An event is put into a queue by a call, or dropped.
LEMMA DeliverKeeps ==
  ASSUME HubInv, OrderInv, NEW s \in sending, NEW c \in s.todo, Deliver(s, c)
  PROVE  OrderInv'
<1> DEFINE x == s.ev
<1>0. /\ c \in Conns /\ HomeOf(c) = s.at /\ x \in Events /\ s.at \in Instances
      /\ LineTypes /\ Once
  BY DEF HubInv, Sound, OrderInv, LineTypes, HomeOf
<1>1. /\ UNCHANGED <<mode, place, reader, frames, inbox>> /\ Offer(c, x)
      /\ \A t \in sending' : t \in sending \ {s} \/ t = [s EXCEPT !.todo = @ \ {c}]
  BY DEF Deliver, deploy, pumps
<1>2. \A t \in sending' :
         \/ t \in sending /\ t # s
         \/ /\ t = [s EXCEPT !.todo = @ \ {c}]
            /\ t.at = s.at /\ t.ev = s.ev /\ t.by = s.by /\ t.todo = s.todo \ {c}
  BY <1>1 DEF HubInv, Sound
<1>3. /\ got' \in [Conns -> Seq(Events)]
      /\ \A d \in Conns : d # c => got'[d] = got[d]
      /\ \A e : InGot(c, e)' => InGot(c, e) \/ e = x
      /\ \A e, f : Precedes(c, e, f)' => Precedes(c, e, f) \/ (InGot(c, e) /\ f = x)
  BY <1>0, <1>1, GotMore
<1>4. ASSUME NEW d \in Conns, d # c
      PROVE  \A e, f : (InGot(d, e)' <=> InGot(d, e)) /\ (Precedes(d, e, f)' <=> Precedes(d, e, f))
  BY <1>3, <1>4 DEF InGot, Precedes
<1>5. /\ \A d \in Conns : \A e : Sent(d, e)' => Sent(d, e)
      /\ \A i, e : Called(i, e)' => Called(i, e)
      /\ \A i, e, f : (Held(i, e)' <=> Held(i, e)) /\ (HeldBefore(i, e, f)' <=> HeldBefore(i, e, f))
      /\ \A d \in Conns : HomeOf(d)' = HomeOf(d)
      /\ \A e : Used(e)' <=> Used(e)
  BY <1>1, <1>2 DEF Sent, Called, Held, HeldBefore, HomeOf, Used
<1>6. Sent(c, x) /\ Called(HomeOf(c), x)
  BY <1>0 DEF Sent, Called
<1>7. ~ Sent(c, x)'
  <2> SUFFICES ASSUME NEW t \in sending', t.ev = x, c \in t.todo
               PROVE  FALSE
    BY DEF Sent
  <2>1. t \in sending /\ t # s
    BY <1>2
  <2>2. t.at = s.at
    BY <1>0, <2>1 DEF HubInv, Sound
  <2> QED
    BY <1>0, <2>1, <2>2 DEF Once
<1>8. LineTypes'
  BY <1>0, <1>1, <1>2, <1>3 DEF LineTypes
<1>9. Once'
  <2>1. ASSUME NEW d \in Conns, NEW e \in Events
        PROVE  ~ Precedes(d, e, e)' /\ ~ (InGot(d, e)' /\ Sent(d, e)')
    <3>1. ~ Precedes(d, e, e) /\ ~ (InGot(d, e) /\ Sent(d, e))
      BY <1>0 DEF Once
    <3> QED
      BY <1>3, <1>4, <1>5, <1>6, <1>7, <3>1
  <2>2. ASSUME NEW i \in Instances, NEW e \in Events
        PROVE  /\ ~ HeldBefore(i, e, e)'
               /\ Held(i, e)' => ~ Called(i, e)' /\ \A d \in Conns : HomeOf(d)' = i => ~ InGot(d, e)'
    <3>1. /\ ~ HeldBefore(i, e, e)
          /\ Held(i, e) => ~ Called(i, e) /\ \A d \in Conns : HomeOf(d) = i => ~ InGot(d, e)
      BY <1>0 DEF Once
    <3>2. ASSUME Held(i, e), NEW d \in Conns, HomeOf(d) = i
          PROVE  ~ InGot(d, e)'
      BY <1>3, <1>4, <1>6, <3>1, <3>2
    <3> QED
      BY <1>5, <3>1, <3>2
  <2>3. \A t, u \in sending' : t.at = u.at /\ t.ev = u.ev => t = u
    BY <1>0, <1>2 DEF Once
  <2> QED
    BY <2>1, <2>2, <2>3 DEF Once
<1>10. OnlyUsed'
  <2>1. \A e \in Events : (\E d \in Conns : InGot(d, e)') => (\E d \in Conns : InGot(d, e)) \/ e = x
    BY <1>3, <1>4
  <2>2. Used(x)
    BY <1>0, <1>6 DEF OrderInv, OnlyUsed
  <2> QED
    BY <1>5, <2>1, <2>2 DEF OrderInv, OnlyUsed
<1>11. ASSUME mode = "redis"
       PROVE  OneOrder' /\ (\A t \in sending' : t.by = t.at) /\ (\A t, u \in sending' : t.at = u.at => t = u)
  <2>1. /\ \A t \in sending : t.by = t.at
        /\ \A t, u \in sending : t.at = u.at => t = u
    BY <1>11 DEF OrderInv
  <2>2. \A f : ~ Sent(c, f)'
    BY <1>0, <1>2, <2>1 DEF Sent, HubInv, Sound
  <2>3. ASSUME NEW d \in Conns, NEW e \in Events, NEW f \in Events, Ahead(d, e, f)'
        PROVE  Ahead(d, e, f)
    <3>1. \/ Precedes(d, e, f)'
          \/ InGot(d, e)' /\ (Sent(d, f)' \/ Held(HomeOf(d), f))
          \/ Sent(d, e)' /\ Held(HomeOf(d), f)
          \/ HeldBefore(HomeOf(d), e, f)
      <4>1. HomeOf(d)' = HomeOf(d) /\ inbox' = inbox
        BY <1>1, <1>5
      <4> QED
        BY <4>1, <2>3 DEF Ahead, Held, HeldBefore
    <3>2. CASE d # c
      BY <1>4, <1>5, <3>1, <3>2 DEF Ahead
    <3>3. CASE d = c
      BY <1>3, <1>5, <1>6, <2>2, <3>1, <3>3 DEF Ahead
    <3> QED
      BY <3>2, <3>3
  <2>4. OneOrder
    BY <1>11 DEF OrderInv
  <2>5. \A t \in sending' : t.by = t.at
    BY <1>2, <2>1
  <2>6. \A t, u \in sending' : t.at = u.at => t = u
    BY <1>2, <2>1
  <2> QED
    BY <2>3, <2>4, <2>5, <2>6 DEF OneOrder
<1> QED
  BY <1>1, <1>8, <1>9, <1>10, <1>11 DEF OrderInv

LEMMA Rest ==
  ASSUME NEW S, NEW q \in Seq(S), q # <<>>, NEW r, r = Tail(q)
  PROVE  /\ DOMAIN q = 1 .. Len(q) /\ Len(q) \in Nat /\ Len(q) > 0
         /\ r \in Seq(S) /\ DOMAIN r = 1 .. (Len(q) - 1)
         /\ \A k \in DOMAIN r : r[k] = q[k + 1]
         /\ Head(q) = q[1] /\ Head(q) \in S
<1>1. /\ DOMAIN q = 1 .. Len(q) /\ Len(q) \in Nat /\ Len(q) > 0
      /\ Head(q) = q[1] /\ Head(q) \in S
  OBVIOUS
<1>2. r \in Seq(S) /\ Len(r) = Len(q) - 1 /\ DOMAIN r = 1 .. Len(r)
  BY <1>1
<1>3. \A k \in 1 .. Len(r) : r[k] = q[k + 1]
  BY <1>1, <1>2
<1> QED
  BY <1>1, <1>2, <1>3

\* What is left of an instance's events when its loop took the first.
LEMMA Handed ==
  ASSUME LineTypes, NEW i \in Instances, inbox[i] # <<>>, inbox' = [inbox EXCEPT ![i] = Tail(@)]
  PROVE  /\ inbox' \in [Instances -> Seq([ev : Events, to : SUBSET Members])]
         /\ Head(inbox[i]) \in [ev : Events, to : SUBSET Members]
         /\ Held(i, Head(inbox[i]).ev)
         /\ \A e : Held(i, e)' => HeldBefore(i, Head(inbox[i]).ev, e)
         /\ \A j \in Instances : \A e, f : /\ Held(j, e)' => Held(j, e)
                                           /\ HeldBefore(j, e, f)' => HeldBefore(j, e, f)
<1>0. PICK q, r, S : q = inbox[i] /\ r = inbox'[i] /\ S = [ev : Events, to : SUBSET Members]
  OBVIOUS
<1>1. q \in Seq(S) /\ r = Tail(q) /\ q # <<>>
  BY <1>0 DEF LineTypes
<1>2. /\ DOMAIN q = 1 .. Len(q) /\ Len(q) \in Nat /\ Len(q) > 0
      /\ DOMAIN r = 1 .. (Len(q) - 1)
      /\ \A k \in DOMAIN r : r[k] = q[k + 1]
      /\ Head(q) = q[1] /\ Head(q) \in S /\ r \in Seq(S)
  BY <1>1, Rest
<1>3. inbox' \in [Instances -> Seq([ev : Events, to : SUBSET Members])]
  BY <1>0, <1>2 DEF LineTypes
<1>4. \A j \in Instances : j # i => inbox'[j] = inbox[j]
  BY DEF LineTypes
<1>5. Held(i, Head(q).ev)
  BY <1>0, <1>2 DEF Held
<1>6. \A e : Held(i, e)' => HeldBefore(i, Head(q).ev, e)
  <2> SUFFICES ASSUME NEW e, NEW k \in DOMAIN r, r[k].ev = e
               PROVE  HeldBefore(i, Head(q).ev, e)
    BY <1>0 DEF Held
  <2>1. k + 1 \in DOMAIN q /\ 1 \in DOMAIN q /\ 1 < k + 1 /\ q[k + 1].ev = e
    BY <1>2
  <2> QED
    BY <1>0, <1>2, <2>1 DEF HeldBefore
<1>7. \A e : Held(i, e)' => Held(i, e)
  <2> SUFFICES ASSUME NEW e, HeldBefore(i, Head(q).ev, e)
               PROVE  Held(i, e)
    BY <1>6
  <2> QED
    BY DEF Held, HeldBefore
<1>8. \A e, f : HeldBefore(i, e, f)' => HeldBefore(i, e, f)
  <2> SUFFICES ASSUME NEW e, NEW f, HeldBefore(i, e, f)'
               PROVE  HeldBefore(i, e, f)
    OBVIOUS
  <2>a. PICK k \in DOMAIN r, l \in DOMAIN r : k < l /\ r[k].ev = e /\ r[l].ev = f
    BY <1>0 DEF HeldBefore
  <2>0. k \in Nat /\ l \in Nat
    BY <1>2
  <2>1. k + 1 \in DOMAIN q /\ l + 1 \in DOMAIN q /\ k + 1 < l + 1 /\ q[k + 1].ev = e /\ q[l + 1].ev = f
    BY <1>2, <2>0, <2>a
  <2> QED
    BY <1>0, <2>1 DEF HeldBefore
<1>9. \A j \in Instances : j # i => \A e, f : /\ Held(j, e)' <=> Held(j, e)
                                              /\ HeldBefore(j, e, f)' <=> HeldBefore(j, e, f)
  BY <1>4 DEF Held, HeldBefore
<1>10. \A j \in Instances : \A e, f : /\ Held(j, e)' => Held(j, e)
                                      /\ HeldBefore(j, e, f)' => HeldBefore(j, e, f)
  BY <1>7, <1>8, <1>9
<1>11. /\ Head(inbox[i]) \in [ev : Events, to : SUBSET Members]
       /\ Held(i, Head(inbox[i]).ev)
       /\ \A e : Held(i, e)' => HeldBefore(i, Head(inbox[i]).ev, e)
  BY <1>0, <1>2, <1>5, <1>6
<1> QED
  BY <1>3, <1>10, <1>11

\* What one more call adds.
LEMMA CallMore ==
  ASSUME HubInv, NEW i, NEW by, NEW ev, NEW to, SendToMembers(i, by, ev, to)
  PROVE  /\ \A s \in sending' : s \in sending \/ (s.at = i /\ s.ev = ev /\ s.by = by)
         /\ \A s, t \in sending' : s \notin sending /\ t \notin sending => s = t
         /\ \A j, e : Called(j, e)' => Called(j, e) \/ (j = i /\ e = ev)
         /\ \A d \in Conns : \A e : Sent(d, e)' => Sent(d, e) \/ (HomeOf(d) = i /\ e = ev)
<1> DEFINE call == [at |-> i, by |-> by, ev |-> ev, todo |-> Targets(i, to)]
<1>1. \A s \in sending' : s \in sending \/ s = call
  BY DEF SendToMembers
<1>2. /\ call.at = i /\ call.ev = ev /\ call.by = by
      /\ \A d \in call.todo : HomeOf(d) = i
  BY DEF Targets
<1>3. \A j, e : Called(j, e)' => Called(j, e) \/ (j = i /\ e = ev)
  BY <1>1, <1>2 DEF Called
<1>4. \A d \in Conns : \A e : Sent(d, e)' => Sent(d, e) \/ (HomeOf(d) = i /\ e = ev)
  BY <1>1, <1>2 DEF Sent
<1> HIDE DEF call
<1> QED
  BY <1>1, <1>2, <1>3, <1>4

\* With Redis an instance's only calls are its loop's, one at a time.
LEMMA BusKeeps ==
  ASSUME HubInv, OrderInv, NEW i \in Instances, BusLoop(i)
  PROVE  OrderInv'
<1> SUFFICES ASSUME NEW x, NEW to, x = Head(inbox[i]).ev, to = Head(inbox[i]).to
             PROVE  OrderInv'
  OBVIOUS
<1>0. /\ mode = "redis" /\ inbox[i] # <<>> /\ ~ Busy(i)
      /\ SendToMembers(i, i, x, to)
      /\ inbox' = [inbox EXCEPT ![i] = Tail(@)]
      /\ UNCHANGED <<mode, place, reader, frames, got>>
      /\ LineTypes /\ Once
  BY DEF BusLoop, deploy, pumps, OrderInv
<1>1. /\ inbox' \in [Instances -> Seq([ev : Events, to : SUBSET Members])]
      /\ x \in Events /\ Held(i, x)
      /\ \A e : Held(i, e)' => HeldBefore(i, x, e)
      /\ \A j \in Instances : \A e, f : /\ Held(j, e)' => Held(j, e)
                                        /\ HeldBefore(j, e, f)' => HeldBefore(j, e, f)
  BY <1>0, Handed
<1>2. /\ \A s \in sending' : s \in sending \/ (s.at = i /\ s.ev = x /\ s.by = i)
      /\ \A s, t \in sending' : s \notin sending /\ t \notin sending => s = t
      /\ \A j, e : Called(j, e)' => Called(j, e) \/ (j = i /\ e = x)
      /\ \A d \in Conns : \A e : Sent(d, e)' => Sent(d, e) \/ (HomeOf(d) = i /\ e = x)
  BY <1>0, CallMore
<1>3. \A s \in sending : s.at # i
  BY <1>0 DEF OrderInv, Busy
<1>4. ~ Held(i, x)'
  BY <1>0, <1>1 DEF Once
<1>5. /\ \A d \in Conns : HomeOf(d)' = HomeOf(d) /\ HomeOf(d) \in Instances
      /\ \A d, e : InGot(d, e)' <=> InGot(d, e)
      /\ \A d, e, f : Precedes(d, e, f)' <=> Precedes(d, e, f)
      /\ \A e : Used(e)' <=> Used(e)
  BY <1>0 DEF HubInv, HomeOf, InGot, Precedes, Used
<1>6. LineTypes'
  BY <1>0, <1>1, <1>2 DEF LineTypes
<1>7. Once'
  <2>1. ASSUME NEW d \in Conns, NEW e \in Events
        PROVE  ~ Precedes(d, e, e)' /\ ~ (InGot(d, e)' /\ Sent(d, e)')
    <3>1. ~ Precedes(d, e, e) /\ ~ (InGot(d, e) /\ Sent(d, e))
      BY <1>0 DEF Once
    <3>2. HomeOf(d) = i /\ e = x => ~ InGot(d, e)
      BY <1>0, <1>1 DEF Once
    <3> QED
      BY <1>2, <1>5, <3>1, <3>2
  <2>2. ASSUME NEW j \in Instances, NEW e \in Events
        PROVE  /\ ~ HeldBefore(j, e, e)'
               /\ Held(j, e)' => ~ Called(j, e)' /\ \A d \in Conns : HomeOf(d)' = j => ~ InGot(d, e)'
    <3>1. /\ ~ HeldBefore(j, e, e)
          /\ Held(j, e) => ~ Called(j, e) /\ \A d \in Conns : HomeOf(d) = j => ~ InGot(d, e)
      BY <1>0 DEF Once
    <3> QED
      BY <1>1, <1>2, <1>4, <1>5, <3>1
  <2>3. ASSUME NEW s \in sending', NEW t \in sending', s.at = t.at, s.ev = t.ev
        PROVE  s = t
    <3>1. CASE s \in sending /\ t \in sending
      BY <1>0, <2>3, <3>1 DEF Once
    <3>2. CASE s \notin sending \/ t \notin sending
      BY <1>2, <1>3, <2>3, <3>2
    <3> QED
      BY <3>1, <3>2
  <2> QED
    BY <2>1, <2>2, <2>3 DEF Once
<1>8. OnlyUsed'
  <2>1. Used(x)
    BY <1>1 DEF OrderInv, OnlyUsed
  <2> QED
    BY <1>1, <1>2, <1>5, <2>1 DEF OrderInv, OnlyUsed
<1>9. OneOrder'
  <2>1. ASSUME NEW d \in Conns, NEW e, NEW f, Ahead(d, e, f)'
        PROVE  Ahead(d, e, f)
    <3>1. \/ Precedes(d, e, f)
          \/ InGot(d, e) /\ (Sent(d, f)' \/ Held(HomeOf(d), f)')
          \/ Sent(d, e)' /\ Held(HomeOf(d), f)'
          \/ HeldBefore(HomeOf(d), e, f)'
      BY <1>5, <2>1 DEF Ahead
    <3>2. Sent(d, f)' => Sent(d, f) \/ Held(HomeOf(d), f)
      BY <1>1, <1>2
    <3>3. HomeOf(d)' = HomeOf(d) /\ HomeOf(d) \in Instances
      BY <1>5
    <3>4. Held(HomeOf(d), f)' => Held(HomeOf(d), f)
      BY <1>1, <3>3
    <3>5. Sent(d, e)' /\ Held(HomeOf(d), f)' => Sent(d, e) \/ HeldBefore(HomeOf(d), e, f)
      BY <1>1, <1>2, <3>3
    <3>6. HeldBefore(HomeOf(d), e, f)' => HeldBefore(HomeOf(d), e, f)
      BY <1>1, <3>3
    <3> QED
      BY <3>1, <3>2, <3>4, <3>5, <3>6 DEF Ahead
  <2> QED
    BY <1>0, <2>1 DEF OrderInv, OneOrder
<1>10. /\ \A s \in sending' : s.by = s.at
       /\ \A s, t \in sending' : s.at = t.at => s = t
  BY <1>0, <1>2, <1>3 DEF OrderInv
<1> QED
  BY <1>0, <1>6, <1>7, <1>8, <1>9, <1>10 DEF OrderInv

\* What a publish adds to the events held for the instances.
LEMMA Published ==
  ASSUME LineTypes, NEW x \in Events, NEW to \in SUBSET Members, Publish(x, to)
  PROVE  /\ inbox' \in [Instances -> Seq([ev : Events, to : SUBSET Members])]
         /\ \A j \in Instances : \A e : Held(j, e)' => Held(j, e) \/ e = x
         /\ \A j \in Instances : \A e, f : HeldBefore(j, e, f)' => HeldBefore(j, e, f) \/ (Held(j, e) /\ f = x)
<1>1. PICK reached : inbox' = [j \in Instances |-> IF j \in reached THEN Append(inbox[j], [ev |-> x, to |-> to])
                                                   ELSE inbox[j]]
  BY DEF Publish
<1>2. PICK S, y : S = [ev : Events, to : SUBSET Members] /\ y = [ev |-> x, to |-> to]
  OBVIOUS
<1>3. y \in S /\ y.ev = x
  BY <1>2
<1>4. \A j \in Instances : inbox[j] \in Seq(S)
  BY <1>2 DEF LineTypes
<1>5. \A j \in Instances : inbox'[j] = inbox[j] \/ inbox'[j] = Append(inbox[j], y)
  BY <1>1, <1>2
<1>6. ASSUME NEW j \in Instances
      PROVE  inbox'[j] \in Seq(S)
  <2>1. PICK q, r : q = inbox[j] /\ r = inbox'[j]
    OBVIOUS
  <2>2. q \in Seq(S) /\ (r = q \/ r = Append(q, y))
    BY <1>4, <1>5, <2>1
  <2> QED
    BY <1>3, <2>1, <2>2, Appended
<1>7. inbox' \in [Instances -> Seq(S)]
  BY <1>1, <1>6
<1>8. ASSUME NEW j \in Instances
      PROVE  /\ \A e : Held(j, e)' => Held(j, e) \/ e = x
             /\ \A e, f : HeldBefore(j, e, f)' => HeldBefore(j, e, f) \/ (Held(j, e) /\ f = x)
  <2>1. PICK q, r : q = inbox[j] /\ r = inbox'[j]
    OBVIOUS
  <2>2. CASE r = q
    BY <2>1, <2>2 DEF Held, HeldBefore
  <2>3. CASE r = Append(q, y)
    <3>1. /\ DOMAIN q = 1 .. Len(q) /\ DOMAIN r = 1 .. Len(q) + 1 /\ Len(q) \in Nat
          /\ r[Len(q) + 1] = y /\ \A k \in DOMAIN q : r[k] = q[k]
      BY <1>3, <1>4, <2>1, <2>3, Appended
    <3>2. ASSUME NEW e, Held(j, e)'
          PROVE  Held(j, e) \/ e = x
      <4>1. PICK k \in DOMAIN r : r[k].ev = e
        BY <2>1, <3>2 DEF Held
      <4>2. k \in DOMAIN q \/ k = Len(q) + 1
        BY <3>1
      <4> QED
        BY <1>3, <2>1, <3>1, <4>1, <4>2 DEF Held
    <3>3. ASSUME NEW e, NEW f, HeldBefore(j, e, f)'
          PROVE  HeldBefore(j, e, f) \/ (Held(j, e) /\ f = x)
      <4>1. PICK k \in DOMAIN r, l \in DOMAIN r : k < l /\ r[k].ev = e /\ r[l].ev = f
        BY <2>1, <3>3 DEF HeldBefore
      <4>2. k \in DOMAIN q /\ (l \in DOMAIN q \/ l = Len(q) + 1)
        BY <3>1, <4>1
      <4>3. q[k].ev = e
        BY <3>1, <4>1, <4>2
      <4>4. Held(j, e)
        BY <2>1, <4>2, <4>3 DEF Held
      <4>5. l \in DOMAIN q => HeldBefore(j, e, f)
        BY <2>1, <3>1, <4>1, <4>2, <4>3 DEF HeldBefore
      <4> QED
        BY <1>3, <3>1, <4>1, <4>2, <4>4, <4>5
    <3> QED
      BY <3>2, <3>3
  <2> QED
    BY <1>5, <2>1, <2>2, <2>3
<1> QED
  BY <1>2, <1>7, <1>8

\* What a broadcast adds to the lines, whichever the broadcaster.
LEMMA Broadcasted ==
  ASSUME HubInv, OrderInv, NEW i, NEW by, NEW x \in Events, NEW to \in SUBSET Members, Broadcast(i, by, x, to)
  PROVE  /\ inbox' \in [Instances -> Seq([ev : Events, to : SUBSET Members])]
         /\ mode = "memory" => inbox' = inbox
         /\ mode = "redis" => sending' = sending
         /\ \A s \in sending' : s \in sending \/ (s.at = i /\ s.ev = x)
         /\ \A s, t \in sending' : s \notin sending /\ t \notin sending => s = t
         /\ \A j, e : Called(j, e)' => Called(j, e) \/ e = x
         /\ \A d \in Conns : \A e : Sent(d, e)' => Sent(d, e) \/ e = x
         /\ \A j \in Instances : \A e : Held(j, e)' => Held(j, e) \/ e = x
         /\ \A j \in Instances : \A e, f : HeldBefore(j, e, f)' => HeldBefore(j, e, f) \/ (Held(j, e) /\ f = x)
<1>0. LineTypes
  BY DEF OrderInv
<1>1. /\ inbox' = inbox => /\ inbox' \in [Instances -> Seq([ev : Events, to : SUBSET Members])]
                           /\ \A j \in Instances : \A e : Held(j, e)' => Held(j, e)
                           /\ \A j \in Instances : \A e, f : HeldBefore(j, e, f)' => HeldBefore(j, e, f)
      /\ sending' = sending => /\ \A j, e : Called(j, e)' => Called(j, e)
                               /\ \A d \in Conns : \A e : Sent(d, e)' => Sent(d, e)
  BY <1>0 DEF LineTypes, Held, HeldBefore, Called, Sent
<1>2. CASE mode = "memory" /\ SendToMembers(i, by, x, to) /\ UNCHANGED inbox
  <2>1. /\ \A s \in sending' : s \in sending \/ (s.at = i /\ s.ev = x /\ s.by = by)
        /\ \A s, t \in sending' : s \notin sending /\ t \notin sending => s = t
        /\ \A j, e : Called(j, e)' => Called(j, e) \/ (j = i /\ e = x)
        /\ \A d \in Conns : \A e : Sent(d, e)' => Sent(d, e) \/ (HomeOf(d) = i /\ e = x)
    BY <1>2, CallMore
  <2>2. /\ \A s \in sending' : s \in sending \/ (s.at = i /\ s.ev = x)
        /\ \A s, t \in sending' : s \notin sending /\ t \notin sending => s = t
        /\ \A j, e : Called(j, e)' => Called(j, e) \/ e = x
        /\ \A d \in Conns : \A e : Sent(d, e)' => Sent(d, e) \/ e = x
    BY <2>1
  <2>3. mode = "memory" /\ inbox' = inbox
    BY <1>2
  <2>4. /\ inbox' \in [Instances -> Seq([ev : Events, to : SUBSET Members])]
        /\ \A j \in Instances : \A e : Held(j, e)' => Held(j, e)
        /\ \A j \in Instances : \A e, f : HeldBefore(j, e, f)' => HeldBefore(j, e, f)
    BY <1>1, <2>3
  <2> QED
    BY <2>2, <2>3, <2>4
<1>3. CASE mode = "redis" /\ Publish(x, to) /\ UNCHANGED sending
  BY <1>0, <1>1, <1>3, Published
<1>4. CASE UNCHANGED <<sending, inbox>>
  BY <1>1, <1>4
<1> QED
  BY <1>2, <1>3, <1>4 DEF Broadcast

\* A step that sends nothing.
LEMMA QuietKeeps ==
  ASSUME HubInv, OrderInv, UNCHANGED <<mode, place, got, sending, inbox>>, frames' \in Nat,
         \A e : Used(e) => Used(e)'
  PROVE  OrderInv'
<1>1. /\ \A c \in Conns : HomeOf(c)' = HomeOf(c)
      /\ \A c, e : (InGot(c, e)' <=> InGot(c, e)) /\ (Sent(c, e)' <=> Sent(c, e))
      /\ \A j, e : (Called(j, e)' <=> Called(j, e)) /\ (Held(j, e)' <=> Held(j, e))
      /\ \A c, e, f : Precedes(c, e, f)' <=> Precedes(c, e, f)
      /\ \A j, e, f : HeldBefore(j, e, f)' <=> HeldBefore(j, e, f)
  BY DEF HomeOf, InGot, Sent, Called, Held, Precedes, HeldBefore
<1>2. LineTypes'
  BY DEF OrderInv, LineTypes
<1>3. Once'
  BY <1>1 DEF OrderInv, Once
<1>4. OnlyUsed'
  BY <1>1 DEF OrderInv, OnlyUsed
<1>5. \A c \in Conns : \A e, f : Ahead(c, e, f)' => Ahead(c, e, f)
  BY DEF Ahead, HomeOf, InGot, Sent, Held, Precedes, HeldBefore
<1>6. mode = "redis" => OneOrder'
  BY <1>5 DEF OrderInv, OneOrder
<1> QED
  BY <1>2, <1>3, <1>4, <1>6 DEF OrderInv

\* An event that was never sent before is the last of every line it enters.
LEMMA BroadcastKeeps ==
  ASSUME HubInv, OrderInv, NEW i \in Instances, NEW by, NEW x \in Events, NEW to \in SUBSET Members,
         Broadcast(i, by, x, to),
         UNCHANGED <<mode, place, got>>, frames' \in Nat,
         ~ Used(x), Used(x)', \A e : Used(e) => Used(e)'
  PROVE  OrderInv'
<1>1. /\ inbox' \in [Instances -> Seq([ev : Events, to : SUBSET Members])]
      /\ mode = "memory" => inbox' = inbox
      /\ mode = "redis" => sending' = sending
      /\ \A s \in sending' : s \in sending \/ (s.at = i /\ s.ev = x)
      /\ \A s, t \in sending' : s \notin sending /\ t \notin sending => s = t
      /\ \A j, e : Called(j, e)' => Called(j, e) \/ e = x
      /\ \A d \in Conns : \A e : Sent(d, e)' => Sent(d, e) \/ e = x
      /\ \A j \in Instances : \A e : Held(j, e)' => Held(j, e) \/ e = x
      /\ \A j \in Instances : \A e, f : HeldBefore(j, e, f)' => HeldBefore(j, e, f) \/ (Held(j, e) /\ f = x)
  BY Broadcasted
<1>2. /\ \A c \in Conns : ~ InGot(c, x) /\ ~ Sent(c, x)
      /\ \A j \in Instances : ~ Called(j, x) /\ ~ Held(j, x)
  BY Unused
<1>3. /\ \A d \in Conns : HomeOf(d)' = HomeOf(d) /\ HomeOf(d) \in Instances
      /\ \A d, e : InGot(d, e)' <=> InGot(d, e)
      /\ \A d, e, f : Precedes(d, e, f)' <=> Precedes(d, e, f)
  BY DEF HubInv, HomeOf, InGot, Precedes
<1>4. LineTypes'
  BY <1>1 DEF OrderInv, LineTypes
<1>5. ASSUME NEW j \in Instances
      PROVE  ~ Called(j, x)' \/ ~ Held(j, x)'
  <2>1. mode = "memory" => (Held(j, x)' <=> Held(j, x))
    BY <1>1 DEF Held
  <2>2. mode = "redis" => (Called(j, x)' <=> Called(j, x))
    BY <1>1 DEF Called
  <2> QED
    BY <1>2, <2>1, <2>2 DEF OrderInv, LineTypes
<1>6. Once'
  <2>0. Once
    BY DEF OrderInv
  <2>1. ASSUME NEW d \in Conns, NEW e \in Events
        PROVE  ~ Precedes(d, e, e)' /\ ~ (InGot(d, e)' /\ Sent(d, e)')
    <3>1. ~ Precedes(d, e, e) /\ ~ (InGot(d, e) /\ Sent(d, e))
      BY <2>0 DEF Once
    <3> QED
      BY <1>1, <1>2, <1>3, <3>1
  <2>2. ASSUME NEW j \in Instances, NEW e \in Events
        PROVE  /\ ~ HeldBefore(j, e, e)'
               /\ Held(j, e)' => ~ Called(j, e)' /\ \A d \in Conns : HomeOf(d)' = j => ~ InGot(d, e)'
    <3>1. /\ ~ HeldBefore(j, e, e)
          /\ Held(j, e) => ~ Called(j, e) /\ \A d \in Conns : HomeOf(d) = j => ~ InGot(d, e)
      BY <2>0 DEF Once
    <3> QED
      BY <1>1, <1>2, <1>3, <1>5, <3>1
  <2>3. ASSUME NEW s \in sending', NEW t \in sending', s.at = t.at, s.ev = t.ev
        PROVE  s = t
    <3>1. CASE s \in sending /\ t \in sending
      BY <2>0, <2>3, <3>1 DEF Once
    <3>2. CASE s \notin sending \/ t \notin sending
      <4>1. s.at = i /\ s.ev = x
        BY <1>1, <2>3, <3>2
      <4>2. s \notin sending /\ t \notin sending
        BY <1>2, <2>3, <4>1 DEF Called
      <4> QED
        BY <1>1, <4>2
    <3> QED
      BY <3>1, <3>2
  <2> QED
    BY <2>1, <2>2, <2>3 DEF Once
<1>7. OnlyUsed'
  BY <1>1, <1>3 DEF OrderInv, OnlyUsed
<1>8. ASSUME mode = "redis"
      PROVE  OneOrder'
  <2>1. ASSUME NEW d \in Conns, NEW e, NEW f, Ahead(d, e, f)'
        PROVE  Ahead(d, e, f) \/ (f = x /\ e # x)
    <3>1. \/ Precedes(d, e, f)
          \/ InGot(d, e) /\ (Sent(d, f)' \/ Held(HomeOf(d), f)')
          \/ Sent(d, e)' /\ Held(HomeOf(d), f)'
          \/ HeldBefore(HomeOf(d), e, f)'
      BY <1>3, <2>1 DEF Ahead
    <3>2. HomeOf(d)' = HomeOf(d) /\ HomeOf(d) \in Instances
      BY <1>3
    <3>3. Sent(d, f)' => Sent(d, f)
      BY <1>1, <1>8 DEF Sent
    <3>4. Sent(d, e)' => Sent(d, e)
      BY <1>1, <1>8 DEF Sent
    <3>5. Held(HomeOf(d), f)' => Held(HomeOf(d), f) \/ f = x
      BY <1>1, <3>2
    <3>6. HeldBefore(HomeOf(d), e, f)' => HeldBefore(HomeOf(d), e, f) \/ (Held(HomeOf(d), e) /\ f = x)
      BY <1>1, <3>2
    <3>7. ~ InGot(d, x) /\ ~ Sent(d, x) /\ ~ Held(HomeOf(d), x)
      BY <1>2, <3>2
    <3> QED
      BY <3>1, <3>3, <3>4, <3>5, <3>6, <3>7 DEF Ahead
  <2>2. \A d \in Conns : \A e : ~ Ahead(d, x, e)
    BY Unused
  <2> QED
    BY <1>8, <2>1, <2>2 DEF OrderInv, OneOrder
<1>9. mode = "redis" => /\ \A s \in sending' : s.by = s.at
                        /\ \A s, t \in sending' : s.at = t.at => s = t
  BY <1>1 DEF OrderInv
<1>10. mode = "memory" => \A j \in Instances : inbox'[j] = <<>>
  BY <1>1 DEF OrderInv
<1> QED
  BY <1>4, <1>6, <1>7, <1>8, <1>9, <1>10 DEF OrderInv

\* A refusal is for its own connection alone.
LEMMA RefusedKeeps ==
  ASSUME HubInv, OrderInv, NEW c \in Conns, NEW x \in Events, Offer(c, x),
         UNCHANGED <<mode, place, sending, inbox>>, frames' \in Nat,
         ~ Used(x), Used(x)', \A e : Used(e) => Used(e)'
  PROVE  OrderInv'
<1>0. LineTypes /\ Once
  BY DEF OrderInv
<1>1. /\ got' \in [Conns -> Seq(Events)]
      /\ \A d \in Conns : d # c => got'[d] = got[d]
      /\ \A e : InGot(c, e)' => InGot(c, e) \/ e = x
      /\ \A e, f : Precedes(c, e, f)' => Precedes(c, e, f) \/ (InGot(c, e) /\ f = x)
  BY <1>0, GotMore
<1>2. /\ \A d \in Conns : ~ InGot(d, x) /\ ~ Sent(d, x)
      /\ \A j \in Instances : ~ Called(j, x) /\ ~ Held(j, x)
      /\ \A d \in Conns : \A e : ~ Ahead(d, x, e) /\ ~ Ahead(d, e, x)
  BY Unused
<1>3. /\ \A d \in Conns : HomeOf(d)' = HomeOf(d) /\ HomeOf(d) \in Instances
      /\ \A d, e : Sent(d, e)' <=> Sent(d, e)
      /\ \A j, e : (Called(j, e)' <=> Called(j, e)) /\ (Held(j, e)' <=> Held(j, e))
      /\ \A j, e, f : HeldBefore(j, e, f)' <=> HeldBefore(j, e, f)
  BY DEF HubInv, HomeOf, Sent, Called, Held, HeldBefore
<1>4. ASSUME NEW d \in Conns
      PROVE  \A e, f : /\ InGot(d, e)' => InGot(d, e) \/ e = x
                       /\ Precedes(d, e, f)' => Precedes(d, e, f) \/ (InGot(d, e) /\ f = x /\ d = c)
  <2>1. CASE d = c
    BY <1>1, <2>1
  <2>2. CASE d # c
    BY <1>1, <2>2 DEF InGot, Precedes
  <2> QED
    BY <2>1, <2>2
<1>5. \A d \in Conns : d # c => ~ InGot(d, x)'
  BY <1>1, <1>2 DEF InGot
<1>6. LineTypes'
  BY <1>0, <1>1 DEF LineTypes
<1>7. Once'
  <2>1. ASSUME NEW d \in Conns, NEW e \in Events
        PROVE  ~ Precedes(d, e, e)' /\ ~ (InGot(d, e)' /\ Sent(d, e)')
    <3>1. ~ Precedes(d, e, e) /\ ~ (InGot(d, e) /\ Sent(d, e))
      BY <1>0 DEF Once
    <3> QED
      BY <1>2, <1>3, <1>4, <3>1
  <2>2. ASSUME NEW j \in Instances, NEW e \in Events
        PROVE  /\ ~ HeldBefore(j, e, e)'
               /\ Held(j, e)' => ~ Called(j, e)' /\ \A d \in Conns : HomeOf(d)' = j => ~ InGot(d, e)'
    <3>1. /\ ~ HeldBefore(j, e, e)
          /\ Held(j, e) => ~ Called(j, e) /\ \A d \in Conns : HomeOf(d) = j => ~ InGot(d, e)
      BY <1>0 DEF Once
    <3> QED
      BY <1>2, <1>3, <1>4, <3>1
  <2> QED
    BY <1>0, <2>1, <2>2 DEF Once
<1>8. OnlyUsed'
  BY <1>3, <1>4 DEF OrderInv, OnlyUsed
<1>9. ASSUME mode = "redis"
      PROVE  OneOrder'
  <2>1. ASSUME NEW d \in Conns, NEW e \in Events, NEW f \in Events, Ahead(d, e, f)'
        PROVE  \/ Ahead(d, e, f)
               \/ d = c /\ f = x /\ InGot(c, e)
               \/ d = c /\ e = x /\ f # x /\ ~ InGot(c, f)
    <3>1. \/ Precedes(d, e, f)'
          \/ InGot(d, e)' /\ (Sent(d, f) \/ Held(HomeOf(d), f))
          \/ Sent(d, e) /\ Held(HomeOf(d), f)
          \/ HeldBefore(HomeOf(d), e, f)
      BY <2>1 DEF Ahead, HomeOf, Sent, Held, HeldBefore
    <3>2. HomeOf(d) \in Instances /\ ~ Sent(d, x) /\ ~ Held(HomeOf(d), x)
      BY <1>2, <1>3
    <3>3. ~ (InGot(d, f) /\ (Sent(d, f) \/ Held(HomeOf(d), f)))
      BY <1>3 DEF OrderInv, Once
    <3> QED
      BY <1>4, <1>5, <3>1, <3>2, <3>3 DEF Ahead
  <2> QED
    BY <1>2, <1>9, <2>1 DEF OrderInv, OneOrder
<1> QED
  BY <1>6, <1>7, <1>8, <1>9 DEF OrderInv

LEMMA UsedGrows ==
  ASSUME frames \in Nat, frames' \in Nat, frames' >= frames,
         \A c \in Conns : /\ reader[c] \notin {"new", "online"} => reader'[c] \notin {"new", "online"}
                          /\ reader[c] \in {"close", "done"} => reader'[c] \in {"close", "done"}
  PROVE  \A e : Used(e) => Used(e)'
<1>1. \A n \in 1 .. frames : n \in 1 .. frames'
  OBVIOUS
<1> QED
  BY <1>1 DEF Used

\* A step of a reader from one place to a later one.
LEMMA GoesOn ==
  ASSUME HubInv, NEW c \in Conns, NEW pc, GoTo(c, pc),
         reader[c] \notin {"new", "online"} => pc \notin {"new", "online"},
         reader[c] \in {"close", "done"} => pc \in {"close", "done"}
  PROVE  \A d \in Conns : /\ reader[d] \notin {"new", "online"} => reader'[d] \notin {"new", "online"}
                          /\ reader[d] \in {"close", "done"} => reader'[d] \in {"close", "done"}
BY DEF HubInv, GoTo

\* A message or typing signal has a number of its own.
LEMMA NewFrame ==
  ASSUME OrderInv, NEW x, x = Event(frames + 1, "sent"), frames' = frames + 1, UNCHANGED reader
  PROVE  x \in Events /\ ~ Used(x) /\ Used(x)' /\ frames' \in Nat /\ \A e : Used(e) => Used(e)'
<1>1. /\ frames \in Nat /\ frames' \in Nat /\ frames + 1 \in 1 .. frames' /\ frames + 1 \notin 1 .. frames
      /\ frames' >= frames
  BY DEF OrderInv, LineTypes
<1>2. x.about = frames + 1 /\ x.kind = "sent" /\ x \in Events
  BY <1>1 DEF Event, Events, Frames
<1>3. \A d : x # Event(d, "online") /\ x # Event(d, "offline")
  BY <1>2 DEF Event
<1>4. ~ Used(x)
  BY <1>1, <1>2, <1>3 DEF Used
<1>5. Used(x)'
  BY <1>1, <1>2 DEF Used
<1>6. \A e : Used(e) => Used(e)'
  BY <1>1, UsedGrows
<1> QED
  BY <1>1, <1>2, <1>4, <1>5, <1>6

\* A connection tells of each change once.
LEMMA NewPresence ==
  ASSUME HubInv, OrderInv, NEW c \in Conns, NEW kind \in {"online", "offline"}, NEW x, x = Event(c, kind),
         reader[c] = kind, GoTo(c, IF kind = "online" THEN "serve" ELSE "close"), UNCHANGED frames
  PROVE  x \in Events /\ ~ Used(x) /\ Used(x)' /\ \A e : Used(e) => Used(e)'
<1>1. x.about = c /\ x.kind = kind /\ x \in Events
  BY DEF Event, Events
<1>2. \A d : \A k : x = Event(d, k) => d = c /\ k = kind
  BY <1>1 DEF Event
<1>3. ~ Used(x)
  BY <1>1, <1>2 DEF Used
<1>4. reader'[c] = IF kind = "online" THEN "serve" ELSE "close"
  BY DEF HubInv, GoTo
<1>5. Used(x)'
  BY <1>4 DEF Used
<1>6. \A e : Used(e) => Used(e)'
  <2>1. \A d \in Conns : /\ reader[d] \notin {"new", "online"} => reader'[d] \notin {"new", "online"}
                         /\ reader[d] \in {"close", "done"} => reader'[d] \in {"close", "done"}
    BY GoesOn
  <2>2. frames \in Nat /\ frames' \in Nat /\ frames' >= frames
    BY DEF OrderInv, LineTypes
  <2> QED
    BY <2>1, <2>2, UsedGrows
<1> QED
  BY <1>1, <1>3, <1>5, <1>6

LEMMA OrderStep ==
  ASSUME HubInv, OrderInv, Next
  PROVE  OrderInv'
<1>0. frames \in Nat /\ frames >= frames
  BY DEF OrderInv, LineTypes
<1>1. ASSUME NEW c \in Conns, NEW kind \in {"online", "offline"},
             Tell(c, kind, IF kind = "online" THEN "serve" ELSE "close")
      PROVE  OrderInv'
  <2> SUFFICES ASSUME NEW x, x = Event(c, kind)
               PROVE  OrderInv'
    OBVIOUS
  <2>1. /\ UNCHANGED <<mode, place, got, frames>> /\ reader[c] = kind
        /\ GoTo(c, IF kind = "online" THEN "serve" ELSE "close")
        /\ Broadcast(HomeOf(c), c, x, Others(MemberOf(c))) \/ UNCHANGED <<sending, inbox>>
    BY <1>1 DEF Tell, deploy
  <2>2. x \in Events /\ ~ Used(x) /\ Used(x)' /\ \A e : Used(e) => Used(e)'
    BY <2>1, NewPresence
  <2>3. HomeOf(c) \in Instances /\ Others(MemberOf(c)) \in SUBSET Members
    BY DEF HubInv, HomeOf, Others
  <2>4. CASE Broadcast(HomeOf(c), c, x, Others(MemberOf(c)))
    BY <1>0, <2>1, <2>2, <2>3, <2>4, BroadcastKeeps
  <2>5. CASE UNCHANGED <<sending, inbox>>
    BY <1>0, <2>1, <2>2, <2>5, QuietKeeps
  <2> QED
    BY <2>1, <2>4, <2>5
<1>2. ASSUME NEW i \in Instances, NEW by, NEW to \in SUBSET Members, frames' = frames + 1,
             UNCHANGED <<mode, place, reader, got>>, Broadcast(i, by, Event(frames + 1, "sent"), to)
      PROVE  OrderInv'
  <2> SUFFICES ASSUME NEW x, x = Event(frames + 1, "sent")
               PROVE  OrderInv'
    OBVIOUS
  <2>1. x \in Events /\ ~ Used(x) /\ Used(x)' /\ frames' \in Nat /\ \A e : Used(e) => Used(e)'
    BY <1>2, NewFrame
  <2>2. Broadcast(i, by, x, to)
    BY <1>2
  <2> QED
    BY <1>2, <2>1, <2>2, BroadcastKeeps
<1>3. ASSUME NEW c \in Conns, ReadRefused(c)
      PROVE  OrderInv'
  <2> SUFFICES ASSUME NEW x, x = Event(frames + 1, "sent")
               PROVE  OrderInv'
    OBVIOUS
  <2>1. Offer(c, x) /\ frames' = frames + 1 /\ UNCHANGED <<mode, place, reader, sending, inbox>>
    BY <1>3 DEF ReadRefused, deploy, pumps
  <2>2. x \in Events /\ ~ Used(x) /\ Used(x)' /\ frames' \in Nat /\ \A e : Used(e) => Used(e)'
    BY <2>1, NewFrame
  <2> QED
    BY <2>1, <2>2, RefusedKeeps
<1>4. ASSUME NEW c \in Conns, NEW pc, GoTo(c, pc) \/ UNCHANGED reader,
             UNCHANGED <<mode, place, got, sending, inbox, frames>>,
             reader[c] \notin {"new", "online"} => pc \notin {"new", "online"},
             reader[c] \in {"close", "done"} => pc \in {"close", "done"}
      PROVE  OrderInv'
  <2>1. \A d \in Conns : /\ reader[d] \notin {"new", "online"} => reader'[d] \notin {"new", "online"}
                         /\ reader[d] \in {"close", "done"} => reader'[d] \in {"close", "done"}
    BY <1>4, GoesOn
  <2>2. \A e : Used(e) => Used(e)'
    BY <1>0, <1>4, <2>1, UsedGrows
  <2> QED
    BY <1>0, <1>4, <2>2, QuietKeeps
<1>5. ASSUME NEW c \in Conns, Serve(c)
      PROVE  OrderInv'
  <2> USE DEF deploy, pumps
  <2>1. CASE TellOnline(c) \/ TellOffline(c)
    BY <1>1, <2>1 DEF TellOnline, TellOffline
  <2>2. CASE ReadRefused(c)
    BY <1>3, <2>2
  <2>3. CASE ReadFrame(c)
    <3>1. PICK to \in {Members, Others(MemberOf(c))} : Broadcast(HomeOf(c), c, Event(frames + 1, "sent"), to)
      BY <2>3 DEF ReadFrame
    <3>2. to \in SUBSET Members /\ HomeOf(c) \in Instances
      BY <3>1 DEF Others, HubInv, HomeOf
    <3>3. frames' = frames + 1 /\ UNCHANGED <<mode, place, reader, got>>
      BY <2>3 DEF ReadFrame
    <3> QED
      BY <1>2, <3>1, <3>2, <3>3
  <2>4. CASE Register(c)
    <3>1. PICK pc \in {"online", "serve"} : GoTo(c, pc)
      BY <2>4 DEF Register
    <3>2. reader[c] = "new" /\ UNCHANGED <<mode, place, got, sending, inbox, frames>>
      BY <2>4 DEF Register
    <3> QED
      BY <1>4, <3>1, <3>2
  <2>5. CASE Unregister(c)
    <3>1. PICK pc \in {"offline", "close"} : GoTo(c, pc)
      BY <2>5 DEF Unregister, LeaveHub
    <3>2. reader[c] = "leave" /\ UNCHANGED <<mode, place, got, sending, inbox, frames>>
      BY <2>5 DEF Unregister, LeaveHub
    <3> QED
      BY <1>4, <3>1, <3>2
  <2>6. CASE StartPumps(c)
    <3>1. GoTo(c, "loop") /\ UNCHANGED <<mode, place, got, sending, inbox, frames>> /\ reader[c] = "serve"
      BY <2>6 DEF StartPumps
    <3> QED
      BY <1>4, <3>1
  <2>7. CASE ReadEnds(c)
    <3>1. GoTo(c, "leave") /\ UNCHANGED <<mode, place, got, sending, inbox, frames>> /\ reader[c] = "loop"
      BY <2>7 DEF ReadEnds, Reading
    <3> QED
      BY <1>4, <3>1
  <2>8. CASE CloseConn(c)
    <3>1. GoTo(c, "done") /\ UNCHANGED <<mode, place, got, sending, inbox, frames>>
      BY <2>8 DEF CloseConn
    <3> QED
      BY <1>4, <3>1
  <2> QED
    BY <1>5, <2>1, <2>2, <2>3, <2>4, <2>5, <2>6, <2>7, <2>8 DEF Serve
<1>6. ASSUME NEW c \in Conns, WritePump(c) \/ PeerGone(c)
      PROVE  OrderInv'
  <2>1. UNCHANGED <<mode, place, reader, got, sending, inbox, frames>>
    BY <1>6 DEF WritePump, WriteNext, WriteFails, WriteClosed, PingFails, PeerGone, deploy, pumps
  <2> QED
    BY <1>4, <2>1
<1>7. ASSUME NEW i \in Instances, Post(i)
      PROVE  OrderInv'
  <2>1. /\ Broadcast(i, frames + 1, Event(frames + 1, "sent"), Members) /\ frames' = frames + 1
        /\ UNCHANGED <<mode, place, reader, got>>
    BY <1>7 DEF Post, deploy, pumps
  <2> QED
    BY <1>2, <2>1
<1> QED
  BY <1>5, <1>6, <1>7, BusKeeps, DeliverKeeps DEF Next

\* Whatever the broadcaster, an event enters a queue once at most, and with Redis no two
\* connections see two events in opposite orders (redis.go has one loop for an instance and
\* never delivers locally).
THEOREM OrderIsKept == Spec => []OnceInOneOrder
<1>1. Init => OrderInv
  <2> SUFFICES ASSUME Init
               PROVE  OrderInv
    OBVIOUS
  <2>1. LineTypes
    BY HubAssumption DEF Init, LineTypes
  <2>2. /\ \A c \in Conns : \A e, f : ~ InGot(c, e) /\ ~ Sent(c, e) /\ ~ Precedes(c, e, f)
        /\ \A i \in Instances : \A e, f : ~ Called(i, e) /\ ~ Held(i, e) /\ ~ HeldBefore(i, e, f)
    BY DEF Init, InGot, Sent, Precedes, Called, Held, HeldBefore
  <2>3. \A c \in Conns : HomeOf(c) \in Instances
    BY HubAssumption DEF Init, HomeOf
  <2>4. Once /\ OnlyUsed /\ OneOrder
    BY <2>2, <2>3 DEF Init, Once, OnlyUsed, OneOrder, Ahead
  <2> QED
    BY <2>1, <2>4 DEF Init, OrderInv
<1>2. HubInv /\ OrderInv /\ [Next]_vars => OrderInv'
  <2>1. HubInv /\ OrderInv /\ UNCHANGED vars => OrderInv'
    <3> SUFFICES ASSUME HubInv, OrderInv, UNCHANGED vars
                 PROVE  OrderInv'
      OBVIOUS
    <3>1. UNCHANGED <<mode, place, reader, got, sending, inbox, frames>>
      BY DEF vars, deploy, pumps
    <3>2. frames \in Nat /\ \A e : Used(e) => Used(e)'
      BY <3>1 DEF OrderInv, LineTypes, Used
    <3> QED
      BY <3>1, <3>2, QuietKeeps
  <2> QED
    BY <2>1, OrderStep
<1>3. Spec => []HubInv
  BY HubSpec, PTL DEF Spec
<1>4. Spec => []OrderInv
  BY <1>1, <1>2, <1>3, PTL DEF Spec
<1> QED
  BY <1>4, OrderHolds, PTL
=============================================================================
