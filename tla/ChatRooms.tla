------------------------------ MODULE ChatRooms ------------------------------
(***************************************************************************)
(* Rooms and membership of the person-to-person chat, on one instance of   *)
(* the server: application/messaging/service.go over the tables chat_rooms *)
(* and chat_room_members, and the typing cache of typing_cache.go.         *)
(*                                                                         *)
(* Every request runs in its own goroutine and takes one step per database *)
(* statement: what a handler read may no longer hold when it writes.  No   *)
(* lock spans two statements.  A statement that fails was not applied.     *)
(* The last step of a handler hands its event to the broadcaster with the  *)
(* member list it read earlier.                                            *)
(***************************************************************************)
EXTENDS Naturals, FiniteSets

CONSTANTS
    Members,    \* accounts
    RoomIds,    \* the UUIDs newID() will ever draw (bounds the rooms created)
    Procs,      \* request goroutines that may run at once
    CacheMax,   \* typingCacheMaxRooms
    NoMember,   \* "": no account
    NoRoomId    \* "": no room

ASSUME ChatAssumption ==
    /\ NoMember \notin Members
    /\ NoRoomId \notin RoomIds
    /\ CacheMax \in Nat \ {0}

VARIABLES
    fresh,      \* UUIDs not drawn yet
    room,       \* chat_rooms: the row of every id, or NoRow
    members,    \* chat_room_members: the member_ids of every room_id (no foreign key)
    posted,     \* chat_messages: the room_ids that have a message
    cache,      \* memberListCache.entries
    req,        \* per goroutine: where its handler is, and the handler's locals
    during,     \* history: who was a member of req[p].room at some time since p began
    late        \* history: rooms whose cache entry was put after a change it had missed

db == <<fresh, room, members, posted>>
vars == <<db, cache, req, during, late>>

RoomRow == [kind : {"group", "direct"}, key : SUBSET Members, creator : Members]
NoRow == [kind |-> "none", key |-> {}, creator |-> NoMember]

\* The list of an entry past its TTL is never read again.
Entry == [state : {"none", "live", "expired"}, list : SUBSET Members]
NoEntry == [state |-> "none", list |-> {}]
ExpiredEntry == [state |-> "expired", list |-> {}]

PCs == {"idle",
        "direct_insert", "direct_refind", "direct_done",
        "send_save", "send_tell",
        "add_get", "add_insert", "add_tell",
        "leave_get", "leave_remove", "leave_tell",
        "kick_is_member", "kick_members", "kick_remove", "kick_tell",
        "typing_read", "typing_put", "typing_tell"}

\* Steps at which a handler is about to run a database statement.
StatementPCs == {"direct_refind", "send_save", "add_get", "add_insert", "leave_get",
                 "leave_remove", "kick_is_member", "kick_members", "kick_remove",
                 "typing_read"}

\* Between a committed membership change and the invalidate that follows it.
ChangedPCs == {"add_tell", "leave_tell", "kick_tell"}

Request == [pc : PCs, actor : Members \cup {NoMember}, room : RoomIds \cup {NoRoomId},
            targets : SUBSET Members, snap : SUBSET Members]

Idle == [pc |-> "idle", actor |-> NoMember, room |-> NoRoomId, targets |-> {}, snap |-> {}]

Init ==
    /\ fresh = RoomIds
    /\ room = [r \in RoomIds |-> NoRow]
    /\ members = [r \in RoomIds |-> {}]
    /\ posted = {}
    /\ cache = [r \in RoomIds |-> NoEntry]
    /\ req = [p \in Procs |-> Idle]
    /\ during = [p \in Procs |-> {}]
    /\ late = {}

-----------------------------------------------------------------------------
(* Steps of a handler *)

At(p, pc) == req[p].pc = pc

\* An idle goroutine starts a handler on a stored (or since deleted) room.
Begin(p, pc, a, r, t, s) ==
    /\ At(p, "idle")
    /\ r \notin fresh
    /\ req' = [req EXCEPT ![p] = [pc |-> pc, actor |-> a, room |-> r, targets |-> t, snap |-> s]]
    /\ during' = [during EXCEPT ![p] = members[r]]

GoTo(p, pc) == req' = [req EXCEPT ![p].pc = pc]

\* The handler returns: its locals are gone.
Return(p) ==
    /\ req' = [req EXCEPT ![p] = Idle]
    /\ during' = [during EXCEPT ![p] = {}]

\* A statement replaces the member rows of room r by ms.
SetMembers(r, ms) ==
    /\ members' = [members EXCEPT ![r] = ms]
    /\ during' = [q \in Procs |->
                    IF req[q].room = r THEN during[q] \cup ms ELSE during[q]]

\* The handler does not get past a guard: it returns an error (or nothing to do).
Refuse(p) == Return(p) /\ UNCHANGED <<db, cache, late>>

-----------------------------------------------------------------------------
(* Rooms *)

\* The rows FindDirect selects for this pair.
DirectRooms(key) == {r \in RoomIds : room[r].kind = "direct" /\ room[r].key = key}

\* Create's transaction: the room row and its member rows, together.
InsertRoom(r, row, ms) ==
    /\ fresh' = fresh \ {r}
    /\ room' = [room EXCEPT ![r] = row]
    /\ SetMembers(r, ms)

DirectRow(p) ==
    [kind |-> "direct", key |-> req[p].targets, creator |-> req[p].actor]

\* CreateGroup: the actor is a member, the list is de-duplicated.
CreateGroup(a, ms) ==
    \E r \in fresh :
        /\ InsertRoom(r, [kind |-> "group", key |-> {}, creator |-> a], ms \cup {a})
        /\ UNCHANGED <<posted, cache, req, late>>

\* CreateDirect answers the room of the pair if FindDirect knows one.
DirectFind(p, a, b) ==
    /\ a # b
    /\ At(p, "idle")
    /\ \/ /\ \E r \in DirectRooms({a, b}) : Begin(p, "direct_done", a, r, {a, b}, {})
       \/ /\ DirectRooms({a, b}) = {}
          /\ req' = [req EXCEPT ![p] = [pc |-> "direct_insert", actor |-> a, room |-> NoRoomId,
                                        targets |-> {a, b}, snap |-> {}]]
          /\ UNCHANGED during
    /\ UNCHANGED <<db, cache, late>>

\* Bug: no unique index on direct_key.
DirectInsertNoIndex(p) ==
    /\ At(p, "direct_insert")
    /\ \E r \in fresh :
        /\ InsertRoom(r, DirectRow(p), req[p].targets)
        /\ req' = [req EXCEPT ![p].pc = "direct_done", ![p].room = r]
    /\ UNCHANGED <<posted, cache, late>>

\* The insert succeeds when no room has the pair's direct_key (unique index).
DirectInsert(p) ==
    /\ At(p, "direct_insert")
    /\ DirectRooms(req[p].targets) = {}
    /\ \E r \in fresh :
        /\ InsertRoom(r, DirectRow(p), req[p].targets)
        /\ req' = [req EXCEPT ![p].pc = "direct_done", ![p].room = r]
    /\ UNCHANGED <<posted, cache, late>>

\* Bug: the room that was not inserted is answered.
DirectInsertFailsUnseen(p) ==
    /\ At(p, "direct_insert")
    /\ \E r \in fresh : req' = [req EXCEPT ![p].pc = "direct_done", ![p].room = r]
    /\ UNCHANGED <<db, cache, during, late>>

\* It fails on the unique index, or for a reason of its own.
DirectInsertFails(p) ==
    /\ At(p, "direct_insert")
    /\ GoTo(p, "direct_refind")
    /\ UNCHANGED <<db, cache, during, late>>

\* The pair's room is looked up again; if there is none the insert's error is returned.
DirectRefind(p) ==
    /\ At(p, "direct_refind")
    /\ \/ /\ \E r \in DirectRooms(req[p].targets) :
                req' = [req EXCEPT ![p].pc = "direct_done", ![p].room = r]
          /\ UNCHANGED <<db, cache, during, late>>
       \/ /\ DirectRooms(req[p].targets) = {}
          /\ Refuse(p)

DirectAnswer(p) == At(p, "direct_done") /\ Refuse(p)

\* DeleteRoom's transaction.  The typing cache is not told.
AdminDeleteRoom(r) ==
    /\ r \notin fresh
    /\ room' = [room EXCEPT ![r] = NoRow]
    /\ posted' = posted \ {r}
    /\ SetMembers(r, {})
    /\ UNCHANGED <<fresh, cache, req, late>>

-----------------------------------------------------------------------------
(* Messages *)

\* Bug: a message goes to the list cached for typing.
SendCheckCached(p, a, r) ==
    /\ a \in members[r]
    /\ LET known == IF cache[r].state = "live" THEN cache[r].list ELSE members[r]
       IN  Begin(p, "send_save", a, r, {}, known)
    /\ UNCHANGED <<db, cache, late>>

\* membersRequiring: the list that will be broadcast to is the one checked.
SendCheck(p, a, r) ==
    /\ a \in members[r]
    /\ Begin(p, "send_save", a, r, {}, members[r])
    /\ UNCHANGED <<db, cache, late>>

SendSave(p) ==
    /\ At(p, "send_save")
    /\ posted' = posted \cup {req[p].room}
    /\ GoTo(p, "send_tell")
    /\ UNCHANGED <<fresh, room, members, cache, during, late>>

SendTell(p) == At(p, "send_tell") /\ Refuse(p)

-----------------------------------------------------------------------------
(* Membership *)

Forget(r) ==
    /\ cache' = [cache EXCEPT ![r] = NoEntry]
    /\ late' = late \ {r}

\* The end of AddMembers, LeaveRoom and KickMember: typingMembers.invalidate,
\* then the event to the members read earlier.
InvalidateAndTell(p, pc) ==
    /\ At(p, pc)
    /\ Forget(req[p].room)
    /\ Return(p)
    /\ UNCHANGED db

AddCheck(p, a, r, t) ==
    /\ a \in members[r]
    /\ Begin(p, "add_get", a, r, t, members[r])
    /\ UNCHANGED <<db, cache, late>>

\* Only a group takes members; those it already had are left out.
AddGet(p) ==
    /\ At(p, "add_get")
    /\ LET added == req[p].targets \ req[p].snap
       IN  \/ /\ room[req[p].room].kind = "group"
              /\ added # {}
              /\ req' = [req EXCEPT ![p].pc = "add_insert", ![p].targets = added]
              /\ UNCHANGED <<db, cache, during, late>>
           \/ /\ room[req[p].room].kind # "group" \/ added = {}
              /\ Refuse(p)

\* The repository's AddMembers ignores who is a member by now.
AddInsert(p) ==
    /\ At(p, "add_insert")
    /\ SetMembers(req[p].room, members[req[p].room] \cup req[p].targets)
    /\ GoTo(p, "add_tell")
    /\ UNCHANGED <<fresh, room, posted, cache, late>>

AddTell(p) == InvalidateAndTell(p, "add_tell")

LeaveCheck(p, a, r) ==
    /\ a \in members[r]
    /\ Begin(p, "leave_get", a, r, {a}, members[r])
    /\ UNCHANGED <<db, cache, late>>

\* Bug: a 1:1 room can be left.
LeaveGetAnyKind(p) ==
    /\ At(p, "leave_get")
    /\ room[req[p].room] # NoRow
    /\ GoTo(p, "leave_remove")
    /\ UNCHANGED <<db, cache, during, late>>

LeaveGet(p) ==
    /\ At(p, "leave_get")
    /\ \/ /\ room[req[p].room].kind = "group"
          /\ GoTo(p, "leave_remove")
          /\ UNCHANGED <<db, cache, during, late>>
       \/ /\ room[req[p].room].kind # "group"
          /\ Refuse(p)

LeaveRemove(p) ==
    /\ At(p, "leave_remove")
    /\ SetMembers(req[p].room, members[req[p].room] \ {req[p].actor})
    /\ GoTo(p, "leave_tell")
    /\ UNCHANGED <<fresh, room, posted, cache, late>>

\* Bug: the cache keeps the list with the one who left.
LeaveTellOnly(p) == At(p, "leave_tell") /\ Refuse(p)

LeaveTell(p) == InvalidateAndTell(p, "leave_tell")

\* Bug: the creator may name himself.
KickGetSelf(p, a, r, m) ==
    /\ room[r].kind = "group"
    /\ room[r].creator = a
    /\ Begin(p, "kick_is_member", a, r, {m}, {})
    /\ UNCHANGED <<db, cache, late>>

\* Only the creator of a group, who need not be a member, and never himself.
KickGet(p, a, r, m) ==
    /\ m # a
    /\ room[r].kind = "group"
    /\ room[r].creator = a
    /\ Begin(p, "kick_is_member", a, r, {m}, {})
    /\ UNCHANGED <<db, cache, late>>

KickIsMember(p) ==
    /\ At(p, "kick_is_member")
    /\ \/ /\ req[p].targets \subseteq members[req[p].room]
          /\ GoTo(p, "kick_members")
          /\ UNCHANGED <<db, cache, during, late>>
       \/ /\ ~ (req[p].targets \subseteq members[req[p].room])
          /\ Refuse(p)

\* The members before the removal, so that the target hears of it too.
KickMembers(p) ==
    /\ At(p, "kick_members")
    /\ req' = [req EXCEPT ![p].pc = "kick_remove", ![p].snap = members[req[p].room]]
    /\ UNCHANGED <<db, cache, during, late>>

KickRemove(p) ==
    /\ At(p, "kick_remove")
    /\ SetMembers(req[p].room, members[req[p].room] \ req[p].targets)
    /\ GoTo(p, "kick_tell")
    /\ UNCHANGED <<fresh, room, posted, cache, late>>

KickTell(p) == InvalidateAndTell(p, "kick_tell")

-----------------------------------------------------------------------------
(* Typing *)

Cached == {r \in RoomIds : cache[r].state # "none"}
Current(r) == cache[r].state = "live"

\* typingRoomMembers: the cache, if its entry has not expired, or the database.
TypingGet(p, a, r) ==
    /\ \/ Current(r) /\ Begin(p, "typing_tell", a, r, {}, cache[r].list)
       \/ ~ Current(r) /\ Begin(p, "typing_read", a, r, {}, {})
    /\ UNCHANGED <<db, cache, late>>

TypingRead(p) ==
    /\ At(p, "typing_read")
    /\ req' = [req EXCEPT ![p].pc = "typing_put", ![p].snap = members[req[p].room]]
    /\ UNCHANGED <<db, cache, during, late>>

\* A full cache drops what has expired, and everything if that is not enough.
Kept ==
    LET alive == {r \in RoomIds : Current(r)}
    IN  CASE Cardinality(Cached) < CacheMax -> Cached
          [] Cardinality(Cached) >= CacheMax /\ Cardinality(alive) < CacheMax -> alive
          [] OTHER -> {}

TypingPut(p) ==
    /\ At(p, "typing_put")
    /\ LET r == req[p].room
       IN  /\ cache' = [k \in RoomIds |->
                          IF k = r THEN [state |-> "live", list |-> req[p].snap]
                          ELSE IF k \in Kept THEN cache[k] ELSE NoEntry]
           /\ late' = ((late \cap Kept) \ {r}) \cup (IF req[p].snap = members[r] THEN {} ELSE {r})
    /\ GoTo(p, "typing_tell")
    /\ UNCHANGED <<db, during>>

\* The others in the list are told, if the actor is in it.
TypingTell(p) == At(p, "typing_tell") /\ Refuse(p)

\* typingMembersTTL has passed since the entry was put.
ExpireEntry(r) ==
    /\ Current(r)
    /\ cache' = [cache EXCEPT ![r] = ExpiredEntry]
    /\ late' = late \ {r}
    /\ UNCHANGED <<db, req, during>>

-----------------------------------------------------------------------------
(* Failures *)

\* A statement fails: the handler returns the error.
Fail(p) == req[p].pc \in StatementPCs /\ Refuse(p)

\* The process dies and starts again: goroutines and cache are gone.
Restart ==
    /\ req' = [p \in Procs |-> Idle]
    /\ during' = [p \in Procs |-> {}]
    /\ cache' = [r \in RoomIds |-> NoEntry]
    /\ late' = {}
    /\ UNCHANGED db

Next ==
    \/ \E a \in Members, ms \in SUBSET Members : CreateGroup(a, ms)
    \/ \E r \in RoomIds : AdminDeleteRoom(r) \/ ExpireEntry(r)
    \/ \E p \in Procs, a, b \in Members : DirectFind(p, a, b)
    \/ \E p \in Procs, a \in Members, r \in RoomIds :
            SendCheck(p, a, r) \/ LeaveCheck(p, a, r) \/ TypingGet(p, a, r)
    \/ \E p \in Procs, a, m \in Members, r \in RoomIds : KickGet(p, a, r, m)
    \/ \E p \in Procs, a \in Members, r \in RoomIds, t \in SUBSET Members : AddCheck(p, a, r, t)
    \/ \E p \in Procs :
            \/ DirectInsert(p) \/ DirectInsertFails(p) \/ DirectRefind(p) \/ DirectAnswer(p)
            \/ SendSave(p) \/ SendTell(p)
            \/ AddGet(p) \/ AddInsert(p) \/ AddTell(p)
            \/ LeaveGet(p) \/ LeaveRemove(p) \/ LeaveTell(p)
            \/ KickIsMember(p) \/ KickMembers(p) \/ KickRemove(p) \/ KickTell(p)
            \/ TypingRead(p) \/ TypingPut(p) \/ TypingTell(p)
            \/ Fail(p)
    \/ Restart

Spec == Init /\ [][Next]_vars

-----------------------------------------------------------------------------
(* Properties *)

\* The rows, the cache and the locals have the shapes the Go types give them.
TypeOK ==
    /\ fresh \subseteq RoomIds
    /\ room \in [RoomIds -> RoomRow \cup {NoRow}]
    /\ members \in [RoomIds -> SUBSET Members]
    /\ posted \subseteq RoomIds
    /\ cache \in [RoomIds -> Entry]
    /\ req \in [Procs -> Request]
    /\ during \in [Procs -> SUBSET Members]
    /\ late \subseteq RoomIds

Live(r) == room[r] # NoRow

\* A 1:1 room has exactly its two members for as long as it exists: the kind is
\* checked by one statement and the member rows are written by a later one.
DirectRoomsKeepTheirPair ==
    \A r \in RoomIds :
        room[r].kind = "direct" => members[r] = room[r].key /\ Cardinality(members[r]) = 2

\* Two requests that open a chat between the same two people end up in one room.
OneDirectRoomPerPair ==
    \A r, s \in RoomIds :
        room[r].kind = "direct" /\ room[s].kind = "direct" /\ room[r].key = room[s].key => r = s

\* CreateDirect answers the pair's stored room, unless an administrator deleted it since.
CreateDirectAnswersStoredRoom ==
    \A p \in Procs :
        At(p, "direct_done") =>
            LET r == req[p].room
            IN  /\ r \notin fresh
                /\ Live(r) => room[r].kind = "direct" /\ room[r].key = req[p].targets

\* What an event's handler hands to the broadcaster.
Audience(p) ==
    CASE At(p, "add_tell") -> req[p].snap \cup req[p].targets
      [] At(p, "leave_tell") -> req[p].snap \ {req[p].actor}
      [] At(p, "send_tell") \/ At(p, "kick_tell") -> req[p].snap
      [] OTHER -> {}

\* A message or a membership event goes only to accounts that were members of the
\* room at some time during the request: no handler but Typing takes its list
\* from anywhere but the database.
EventsReachOnlyMembers == \A p \in Procs : Audience(p) \subseteq during[p]

\* A group loses its creator only when he leaves or the room is deleted.
CreatorStaysUntilHeLeaves ==
    [][\A r \in RoomIds :
         LET c == room[r].creator
         IN  /\ room'[r] # NoRow
             /\ c \in members[r] \ members'[r]
             => \E p \in Procs :
                    At(p, "leave_remove") /\ req[p].room = r /\ req[p].actor = c]_vars

Changing(r) == \E p \in Procs : req[p].pc \in ChangedPCs /\ req[p].room = r

\* The list Typing relays by is the room's, except between a change and its
\* invalidate, and except for an entry put after a change that its read missed.
TypingEntryStaleOnlyIfLate ==
    \A r \in RoomIds :
        Current(r) /\ Live(r) /\ r \notin late => cache[r].list = members[r] \/ Changing(r)

\* The typing cache never holds more rooms than its limit.
TypingCacheBounded == Cardinality(Cached) <= CacheMax

=============================================================================
