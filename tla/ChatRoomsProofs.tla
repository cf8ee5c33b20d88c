--------------------------- MODULE ChatRoomsProofs ---------------------------
(***************************************************************************)
(* The safety properties of ChatRooms, for any number of accounts, rooms   *)
(* and goroutines.                                                         *)
(***************************************************************************)
EXTENDS ChatRooms, FiniteSetTheorems, TLAPS

DirectPCs == {"direct_insert", "direct_refind", "direct_done"}

\* A handler that has found its room, and one that has found it to be a group.
Located(p) == req[p].pc \notin {"idle", "direct_insert", "direct_refind"}
GroupPCs == {"add_insert", "leave_remove", "kick_is_member", "kick_members", "kick_remove"}
KickPCs == {"kick_is_member", "kick_members", "kick_remove"}

\* A handler that holds a list of members it read.
ListPCs == {"send_save", "send_tell", "add_get", "add_insert", "add_tell",
            "leave_get", "leave_remove", "leave_tell", "kick_remove", "kick_tell"}

Pair(S) == \E a, b \in Members : a # b /\ S = {a, b}

\* What a handler's locals promise at each of its steps.
LocalRoom(p) ==
    /\ Located(p) => req[p].room \in RoomIds \ fresh
    /\ req[p].pc \in DirectPCs => req[p].actor \in Members /\ Pair(req[p].targets)
    /\ At(p, "direct_done") /\ Live(req[p].room)
         => room[req[p].room].kind = "direct" /\ room[req[p].room].key = req[p].targets
    /\ req[p].pc \in GroupPCs => room[req[p].room].kind # "direct"
    /\ req[p].pc \in KickPCs =>
         /\ req[p].actor \notin req[p].targets
         /\ Live(req[p].room) => room[req[p].room].creator = req[p].actor

LocalList(p) ==
    /\ Located(p) /\ ~ At(p, "direct_done") => members[req[p].room] \subseteq during[p]
    /\ req[p].pc \in ListPCs => req[p].snap \subseteq during[p]
    /\ At(p, "add_tell") => req[p].targets \subseteq during[p]

\* The rows.
Rooms ==
    /\ \A r \in fresh : room[r] = NoRow /\ cache[r] = NoEntry
    /\ \A r \in RoomIds : room[r].kind = "direct" => members[r] = room[r].key /\ Pair(room[r].key)
    /\ OneDirectRoomPerPair

IInv ==
    /\ TypeOK
    /\ Rooms
    /\ TypingEntryStaleOnlyIfLate
    /\ \A p \in Procs : LocalRoom(p) /\ LocalList(p)

-----------------------------------------------------------------------------

LEMMA InitInv == Init => IInv
  BY ChatAssumption DEF Init, IInv, TypeOK, Rooms, TypingEntryStaleOnlyIfLate, LocalRoom, LocalList,
     OneDirectRoomPerPair, Located, DirectPCs, GroupPCs, KickPCs, ListPCs, At, Idle, NoRow, NoEntry, Entry, Request,
     PCs, Current, RoomRow

-----------------------------------------------------------------------------
(* Steps that change neither rows nor cache                                *)

LEMMA ReqStep ==
  ASSUME IInv, NEW p \in Procs, UNCHANGED <<db, cache, late>>,
         req' \in [Procs -> Request], during' \in [Procs -> SUBSET Members],
         \A q \in Procs \ {p} : req'[q] = req[q] /\ during'[q] = during[q],
         req[p].pc \notin ChangedPCs,
         LocalRoom(p)', LocalList(p)'
  PROVE  IInv'
<1>1. TypeOK'
  BY DEF IInv, TypeOK, db
<1>2. Rooms'
  BY DEF IInv, Rooms, OneDirectRoomPerPair, db
<1>3. TypingEntryStaleOnlyIfLate'
  <2>1. ASSUME NEW r \in RoomIds, Changing(r)
        PROVE  Changing(r)'
    BY <2>1 DEF Changing
  <2> QED
    BY <2>1 DEF IInv, TypingEntryStaleOnlyIfLate, db, Current, Live
<1>4. ASSUME NEW q \in Procs, q # p
      PROVE  LocalRoom(q)' /\ LocalList(q)'
  BY <1>4 DEF IInv, LocalRoom, LocalList, Located, At, db, Live
<1> QED
  BY <1>1, <1>2, <1>3, <1>4 DEF IInv

\* A handler that returns has nothing left to promise.
LEMMA ReturnStep ==
  ASSUME TypeOK, NEW p \in Procs, Return(p)
  PROVE  /\ req' \in [Procs -> Request] /\ during' \in [Procs -> SUBSET Members]
         /\ \A q \in Procs \ {p} : req'[q] = req[q] /\ during'[q] = during[q]
         /\ LocalRoom(p)' /\ LocalList(p)'
<1>1. Idle \in Request
  BY DEF Idle, Request, PCs
<1>2. req'[p] = Idle
  BY DEF Return, TypeOK
<1> QED
  BY <1>1, <1>2 DEF Return, TypeOK, LocalRoom, LocalList, Located, At, Idle, DirectPCs, GroupPCs, KickPCs, ListPCs

LEMMA RefuseStep ==
  ASSUME IInv, NEW p \in Procs, Refuse(p), req[p].pc \notin ChangedPCs
  PROVE  IInv'
  BY ReturnStep, ReqStep DEF Refuse, IInv

\* A handler that begins has located a stored room, or one deleted since.
LEMMA BeginStep ==
  ASSUME IInv, NEW p \in Procs, NEW pc \in PCs, NEW a \in Members, NEW r \in RoomIds,
         NEW t \in SUBSET Members, NEW s \in SUBSET Members, Begin(p, pc, a, r, t, s),
         UNCHANGED <<db, cache, late>>,
         pc \in ListPCs => s \subseteq members[r],
         pc \in DirectPCs => /\ pc = "direct_done" /\ Pair(t)
                             /\ room[r].kind = "direct" /\ room[r].key = t,
         pc \in GroupPCs => /\ pc = "kick_is_member" /\ a \notin t
                            /\ room[r].kind = "group" /\ room[r].creator = a,
         pc # "add_tell"
  PROVE  IInv'
<1> DEFINE new == [pc |-> pc, actor |-> a, room |-> r, targets |-> t, snap |-> s]
<1>1. new \in Request
  BY DEF Request
<1>2. /\ req' = [req EXCEPT ![p] = new] /\ req'[p] = new
      /\ during' = [during EXCEPT ![p] = members[r]] /\ during'[p] = members[r]
  BY DEF Begin, IInv, TypeOK
<1>3. /\ req' \in [Procs -> Request] /\ during' \in [Procs -> SUBSET Members]
      /\ \A q \in Procs \ {p} : req'[q] = req[q] /\ during'[q] = during[q]
  BY <1>1, <1>2 DEF IInv, TypeOK
<1>4. r \notin fresh /\ req[p].pc = "idle"
  BY DEF Begin, At
<1>5. LocalRoom(p)'
  BY <1>2, <1>4 DEF LocalRoom, Located, At, DirectPCs, GroupPCs, KickPCs, db, Live
<1>6. LocalList(p)'
  BY <1>2, <1>4 DEF LocalList, Located, At, ListPCs, db
<1> QED
  BY <1>3, <1>4, <1>5, <1>6, ReqStep DEF ChangedPCs

\* Checks that begin a handler.
LEMMA CheckStep ==
  ASSUME IInv, NEW p \in Procs, NEW a \in Members, NEW r \in RoomIds, NEW t \in SUBSET Members,
         \/ SendCheck(p, a, r) \/ LeaveCheck(p, a, r) \/ TypingGet(p, a, r) \/ AddCheck(p, a, r, t)
  PROVE  IInv'
<1> USE DEF PCs, ListPCs, DirectPCs, GroupPCs
<1>1. members[r] \in SUBSET Members /\ cache[r].list \in SUBSET Members
  BY DEF IInv, TypeOK, Entry
<1>2. CASE SendCheck(p, a, r)
  BY <1>1, <1>2, BeginStep DEF SendCheck
<1>3. CASE LeaveCheck(p, a, r)
  BY <1>1, <1>3, BeginStep DEF LeaveCheck
<1>4. CASE TypingGet(p, a, r)
  BY <1>1, <1>4, BeginStep DEF TypingGet
<1>5. CASE AddCheck(p, a, r, t)
  BY <1>1, <1>5, BeginStep DEF AddCheck
<1> QED
  BY <1>2, <1>3, <1>4, <1>5

LEMMA KickGetStep ==
  ASSUME IInv, NEW p \in Procs, NEW a \in Members, NEW m \in Members, NEW r \in RoomIds, KickGet(p, a, r, m)
  PROVE  IInv'
  BY BeginStep DEF KickGet, PCs, ListPCs, DirectPCs, GroupPCs

LEMMA DirectFindStep ==
  ASSUME IInv, NEW p \in Procs, NEW a \in Members, NEW b \in Members, DirectFind(p, a, b)
  PROVE  IInv'
<1>1. Pair({a, b})
  BY DEF DirectFind, Pair
<1>2. ASSUME NEW r \in DirectRooms({a, b}), Begin(p, "direct_done", a, r, {a, b}, {})
      PROVE  IInv'
  <2>1. /\ r \in RoomIds /\ room[r].kind = "direct" /\ room[r].key = {a, b}
        /\ {a, b} \in SUBSET Members /\ {} \in SUBSET Members
    BY DEF DirectRooms
  <2>2. "direct_done" \in PCs /\ "direct_done" \notin ListPCs \cup GroupPCs
    BY DEF PCs, ListPCs, GroupPCs
  <2> QED
    BY <1>1, <1>2, <2>1, <2>2, BeginStep DEF DirectFind
<1> DEFINE new == [pc |-> "direct_insert", actor |-> a, room |-> NoRoomId, targets |-> {a, b}, snap |-> {}]
<1>3. ASSUME req' = [req EXCEPT ![p] = new], UNCHANGED during
      PROVE  IInv'
  <2>1. new \in Request
    BY DEF Request, PCs
  <2>2. req'[p] = new /\ req[p].pc = "idle"
    BY <1>3 DEF IInv, TypeOK, DirectFind, At
  <2>3. LocalRoom(p)' /\ LocalList(p)'
    BY <1>1, <2>2 DEF LocalRoom, LocalList, Located, At, DirectPCs, GroupPCs, KickPCs, ListPCs
  <2>4. /\ req' \in [Procs -> Request] /\ during' \in [Procs -> SUBSET Members]
        /\ \A q \in Procs \ {p} : req'[q] = req[q] /\ during'[q] = during[q]
    BY <1>3, <2>1 DEF IInv, TypeOK
  <2> QED
    BY <2>2, <2>3, <2>4, ReqStep DEF DirectFind, ChangedPCs
<1> QED
  BY <1>2, <1>3 DEF DirectFind

\* A handler that moves on, with its locals but the place as they were.
LEMMA MoveStep ==
  ASSUME IInv, NEW p \in Procs, NEW x \in Request, req' = [req EXCEPT ![p] = x],
         UNCHANGED <<db, cache, late, during>>, req[p].pc \notin ChangedPCs,
         LocalRoom(p)', LocalList(p)'
  PROVE  IInv'
<1>1. /\ req' \in [Procs -> Request] /\ during' \in [Procs -> SUBSET Members]
      /\ \A q \in Procs \ {p} : req'[q] = req[q] /\ during'[q] = during[q]
  BY DEF IInv, TypeOK
<1> QED
  BY <1>1, ReqStep

LEMMA QuietSteps ==
  ASSUME IInv, NEW p \in Procs,
         \/ DirectInsertFails(p) \/ DirectRefind(p) \/ DirectAnswer(p) \/ SendTell(p) \/ AddGet(p)
         \/ LeaveGet(p) \/ KickIsMember(p) \/ KickMembers(p) \/ TypingRead(p) \/ TypingTell(p) \/ Fail(p)
  PROVE  IInv'
<1> USE DEF PCs, ListPCs, DirectPCs, GroupPCs, KickPCs, ChangedPCs, At
<1>0. req[p] \in Request /\ LocalRoom(p) /\ LocalList(p)
  BY DEF IInv, TypeOK
<1>1. CASE DirectInsertFails(p)
  <2>1. [req[p] EXCEPT !.pc = "direct_refind"] \in Request
    BY <1>0 DEF Request
  <2>2. req' = [req EXCEPT ![p] = [req[p] EXCEPT !.pc = "direct_refind"]]
    BY <1>1 DEF DirectInsertFails, GoTo
  <2>3. LocalRoom(p)' /\ LocalList(p)'
    BY <1>0, <1>1, <2>2 DEF LocalRoom, LocalList, Located, DirectInsertFails, IInv, TypeOK, Request
  <2> QED
    BY <1>1, <2>1, <2>2, <2>3, MoveStep DEF DirectInsertFails
<1>2. CASE DirectRefind(p)
  <2>1. ASSUME NEW r \in DirectRooms(req[p].targets),
               req' = [req EXCEPT ![p].pc = "direct_done", ![p].room = r],
               UNCHANGED <<db, cache, during, late>>
        PROVE  IInv'
    <3> DEFINE x == [req[p] EXCEPT !.pc = "direct_done", !.room = r]
    <3>1. x \in Request /\ r \in RoomIds /\ room[r].kind = "direct" /\ room[r].key = req[p].targets
      BY <1>0 DEF Request, DirectRooms
    <3>2. req' = [req EXCEPT ![p] = x] /\ req'[p] = x
      BY <2>1 DEF IInv, TypeOK
    <3>3. r \notin fresh
      BY <3>1 DEF IInv, Rooms, NoRow
    <3>4. LocalRoom(p)' /\ LocalList(p)'
      BY <1>0, <1>2, <2>1, <3>1, <3>2, <3>3 DEF LocalRoom, LocalList, Located, DirectRefind, Request, db
    <3> QED
      BY <1>2, <2>1, <3>1, <3>2, <3>4, MoveStep DEF DirectRefind
  <2> QED
    BY <1>2, <2>1, RefuseStep DEF DirectRefind
<1>3. CASE DirectAnswer(p) \/ SendTell(p) \/ TypingTell(p) \/ Fail(p)
  BY <1>3, RefuseStep DEF DirectAnswer, SendTell, TypingTell, Fail, StatementPCs
<1>4. CASE AddGet(p)
  <2>1. ASSUME room[req[p].room].kind = "group",
               req' = [req EXCEPT ![p].pc = "add_insert", ![p].targets = req[p].targets \ req[p].snap],
               UNCHANGED <<db, cache, during, late>>
        PROVE  IInv'
    <3> DEFINE x == [req[p] EXCEPT !.pc = "add_insert", !.targets = req[p].targets \ req[p].snap]
    <3>1. x \in Request
      BY <1>0 DEF Request
    <3>2. req' = [req EXCEPT ![p] = x] /\ req'[p] = x
      BY <2>1 DEF IInv, TypeOK
    <3>3. LocalRoom(p)' /\ LocalList(p)'
      BY <1>0, <1>4, <2>1, <3>2 DEF LocalRoom, LocalList, Located, AddGet, Request, db
    <3> QED
      BY <1>4, <2>1, <3>1, <3>2, <3>3, MoveStep DEF AddGet
  <2> QED
    BY <1>4, <2>1, RefuseStep DEF AddGet
<1>5. CASE LeaveGet(p)
  <2>1. ASSUME room[req[p].room].kind = "group", GoTo(p, "leave_remove"), UNCHANGED <<db, cache, during, late>>
        PROVE  IInv'
    <3> DEFINE x == [req[p] EXCEPT !.pc = "leave_remove"]
    <3>1. x \in Request
      BY <1>0 DEF Request
    <3>2. req' = [req EXCEPT ![p] = x] /\ req'[p] = x
      BY <2>1 DEF IInv, TypeOK, GoTo
    <3>3. LocalRoom(p)' /\ LocalList(p)'
      BY <1>0, <1>5, <2>1, <3>2 DEF LocalRoom, LocalList, Located, LeaveGet, Request, db
    <3> QED
      BY <1>5, <2>1, <3>1, <3>2, <3>3, MoveStep DEF LeaveGet
  <2> QED
    BY <1>5, <2>1, RefuseStep DEF LeaveGet
<1>6. CASE KickIsMember(p)
  <2>1. ASSUME GoTo(p, "kick_members"), UNCHANGED <<db, cache, during, late>>
        PROVE  IInv'
    <3> DEFINE x == [req[p] EXCEPT !.pc = "kick_members"]
    <3>1. x \in Request
      BY <1>0 DEF Request
    <3>2. req' = [req EXCEPT ![p] = x] /\ req'[p] = x
      BY <2>1 DEF IInv, TypeOK, GoTo
    <3>3. LocalRoom(p)' /\ LocalList(p)'
      BY <1>0, <1>6, <2>1, <3>2 DEF LocalRoom, LocalList, Located, KickIsMember, Request, db, Live
    <3> QED
      BY <1>6, <2>1, <3>1, <3>2, <3>3, MoveStep DEF KickIsMember
  <2> QED
    BY <1>6, <2>1, RefuseStep DEF KickIsMember
<1>7. CASE KickMembers(p)
  <2> DEFINE x == [req[p] EXCEPT !.pc = "kick_remove", !.snap = members[req[p].room]]
  <2>1. req[p].room \in RoomIds
    BY <1>0, <1>7 DEF KickMembers, LocalRoom, Located
  <2>2. x \in Request
    BY <1>0, <2>1 DEF Request, IInv, TypeOK
  <2>3. req' = [req EXCEPT ![p] = x] /\ req'[p] = x
    BY <1>7 DEF IInv, TypeOK, KickMembers
  <2>4. LocalRoom(p)' /\ LocalList(p)'
    BY <1>0, <1>7, <2>3 DEF LocalRoom, LocalList, Located, KickMembers, Request, db, Live
  <2> QED
    BY <1>7, <2>2, <2>3, <2>4, MoveStep DEF KickMembers
<1>8. CASE TypingRead(p)
  <2> DEFINE x == [req[p] EXCEPT !.pc = "typing_put", !.snap = members[req[p].room]]
  <2>1. req[p].room \in RoomIds
    BY <1>0, <1>8 DEF TypingRead, LocalRoom, Located
  <2>2. x \in Request
    BY <1>0, <2>1 DEF Request, IInv, TypeOK
  <2>3. req' = [req EXCEPT ![p] = x] /\ req'[p] = x
    BY <1>8 DEF IInv, TypeOK, TypingRead
  <2>4. LocalRoom(p)' /\ LocalList(p)'
    BY <1>0, <1>8, <2>3 DEF LocalRoom, LocalList, Located, TypingRead, Request, db, Live
  <2> QED
    BY <1>8, <2>2, <2>3, <2>4, MoveStep DEF TypingRead
<1> QED
  BY <1>1, <1>2, <1>3, <1>4, <1>5, <1>6, <1>7, <1>8

LEMMA SendSaveStep ==
  ASSUME IInv, NEW p \in Procs, SendSave(p)
  PROVE  IInv'
<1> DEFINE x == [req[p] EXCEPT !.pc = "send_tell"]
<1>1. req[p] \in Request /\ LocalRoom(p) /\ LocalList(p)
  BY DEF IInv, TypeOK
<1>2. x \in Request /\ req' = [req EXCEPT ![p] = x] /\ req'[p] = x
  BY <1>1 DEF Request, PCs, SendSave, GoTo, IInv, TypeOK
<1>3. req[p].room \in RoomIds
  BY <1>1 DEF LocalRoom, Located, SendSave, At
<1>4. TypeOK'
  BY <1>2, <1>3 DEF IInv, TypeOK, SendSave
<1>5. Rooms'
  BY DEF IInv, Rooms, OneDirectRoomPerPair, SendSave
<1>6. TypingEntryStaleOnlyIfLate'
  <2>1. ASSUME NEW r \in RoomIds, Changing(r)
        PROVE  Changing(r)'
    BY <1>2, <2>1 DEF Changing, SendSave, At, ChangedPCs
  <2> QED
    BY <2>1 DEF IInv, TypingEntryStaleOnlyIfLate, SendSave, Current, Live
<1>7. LocalRoom(p)' /\ LocalList(p)'
  BY <1>1, <1>2 DEF LocalRoom, LocalList, Located, SendSave, At, DirectPCs, GroupPCs, KickPCs, ListPCs, Request
<1>8. ASSUME NEW q \in Procs, q # p
      PROVE  LocalRoom(q)' /\ LocalList(q)'
  <2>1. req'[q] = req[q]
    BY <1>2, <1>8
  <2> QED
    BY <2>1 DEF IInv, LocalRoom, LocalList, Located, At, SendSave, Live
<1> QED
  BY <1>4, <1>5, <1>6, <1>7, <1>8 DEF IInv

-----------------------------------------------------------------------------
(* Steps that change the members of a room                                 *)

\* Whoever works on the room now sees its new members too.
LEMMA MembersStep ==
  ASSUME IInv, NEW p \in Procs, NEW ms \in SUBSET Members, NEW pc \in ChangedPCs,
         NEW r, r = req[p].room, Located(p), room[r].kind # "direct", req[p].pc \notin ChangedPCs,
         req[p].pc \in ListPCs, pc = "add_tell" => req[p].targets \subseteq ms,
         SetMembers(r, ms), GoTo(p, pc), UNCHANGED <<fresh, room, posted, cache, late>>
  PROVE  IInv'
<1> DEFINE x == [req[p] EXCEPT !.pc = pc]
<1>1. req[p] \in Request /\ LocalRoom(p) /\ LocalList(p)
  BY DEF IInv, TypeOK
<1>2. x \in Request /\ req' = [req EXCEPT ![p] = x] /\ req'[p] = x
  BY <1>1 DEF Request, PCs, ChangedPCs, GoTo, IInv, TypeOK
<1>3. r \in RoomIds \ fresh
  BY <1>1 DEF LocalRoom
<1>4. members' = [members EXCEPT ![r] = ms]
  BY DEF SetMembers
<1>5. TypeOK'
  BY <1>2, <1>4 DEF IInv, TypeOK, SetMembers
<1>6. Rooms'
  BY <1>3, <1>4 DEF IInv, Rooms, OneDirectRoomPerPair, TypeOK
<1>7. TypingEntryStaleOnlyIfLate'
  <2>1. Changing(r)'
    <3>1. req'[p].pc = pc /\ req'[p].room = r
      BY <1>1, <1>2 DEF Request
    <3> QED
      BY <3>1 DEF Changing, ChangedPCs
  <2>2. ASSUME NEW k \in RoomIds, k # r, Changing(k)
        PROVE  Changing(k)'
    BY <1>2, <2>2 DEF Changing
  <2>3. ASSUME NEW k \in RoomIds, Current(k)', Live(k)', k \notin late'
        PROVE  cache'[k].list = members'[k] \/ Changing(k)'
    <3>1. CASE k = r
      BY <2>1, <3>1
    <3>2. CASE k # r
      <4>1. members'[k] = members[k]
        BY <1>4, <3>2 DEF IInv, TypeOK
      <4>2. cache[k].list = members[k] \/ Changing(k)
        BY <2>3 DEF IInv, TypingEntryStaleOnlyIfLate, Current, Live
      <4> QED
        BY <2>2, <3>2, <4>1, <4>2
    <3> QED
      BY <3>1, <3>2
  <2> QED
    BY <2>3 DEF TypingEntryStaleOnlyIfLate
<1>8. ASSUME NEW q \in Procs
      PROVE  LocalRoom(q)'
  <2>1. CASE q = p
    BY <1>1, <1>2, <2>1 DEF LocalRoom, Located, At, DirectPCs, GroupPCs, KickPCs, ChangedPCs, Request, Live
  <2>2. CASE q # p
    <3>1. req'[q] = req[q]
      BY <1>2, <2>2
    <3> QED
      BY <3>1 DEF IInv, LocalRoom, Located, At, Live
  <2> QED
    BY <2>1, <2>2
<1>9. ASSUME NEW q \in Procs
      PROVE  LocalList(q)'
  <2>1. during'[q] = IF req[q].room = r THEN during[q] \cup ms ELSE during[q]
    BY DEF SetMembers
  <2>2. LocalList(q)
    BY DEF IInv
  <2>3. CASE q = p
    BY <1>1, <1>2, <1>3, <1>4, <2>1, <2>3 DEF LocalList, Located, At, ListPCs, ChangedPCs, Request, IInv, TypeOK
  <2>4. CASE q # p
    <3>1. req'[q] = req[q]
      BY <1>2, <2>4
    <3>2. Located(q) => req[q].room \in RoomIds
      BY DEF IInv, LocalRoom
    <3>3. Located(q) => members'[req[q].room] \subseteq members[req[q].room] \cup (IF req[q].room = r THEN ms ELSE {})
      BY <1>4, <3>2 DEF IInv, TypeOK
    <3> QED
      BY <2>1, <2>2, <3>1, <3>3 DEF LocalList, Located, At
  <2> QED
    BY <2>3, <2>4
<1> QED
  BY <1>5, <1>6, <1>7, <1>8, <1>9 DEF IInv

LEMMA MembershipSteps ==
  ASSUME IInv, NEW p \in Procs, AddInsert(p) \/ LeaveRemove(p) \/ KickRemove(p)
  PROVE  IInv'
<1>1. req[p] \in Request /\ LocalRoom(p)
  BY DEF IInv, TypeOK
<1> USE DEF At, Located, GroupPCs, ChangedPCs, ListPCs, LocalRoom
<1>2. req[p].room \in RoomIds
  BY <1>1 DEF AddInsert, LeaveRemove, KickRemove
<1>3. members[req[p].room] \in SUBSET Members /\ req[p].targets \in SUBSET Members
  BY <1>1, <1>2 DEF IInv, TypeOK, Request
<1>4. CASE AddInsert(p)
  BY <1>1, <1>3, <1>4, MembersStep DEF AddInsert
<1>5. CASE LeaveRemove(p)
  BY <1>1, <1>3, <1>5, MembersStep DEF LeaveRemove
<1>6. CASE KickRemove(p)
  BY <1>1, <1>3, <1>6, MembersStep DEF KickRemove
<1> QED
  BY <1>4, <1>5, <1>6

LEMMA AdminDeleteStep ==
  ASSUME IInv, NEW r \in RoomIds, AdminDeleteRoom(r)
  PROVE  IInv'
<1>1. /\ members' = [members EXCEPT ![r] = {}] /\ room' = [room EXCEPT ![r] = NoRow]
      /\ during' = [q \in Procs |-> IF req[q].room = r THEN during[q] \cup {} ELSE during[q]]
  BY DEF AdminDeleteRoom, SetMembers
<1>2. TypeOK'
  BY <1>1 DEF IInv, TypeOK, AdminDeleteRoom
<1>3. NoRow.kind # "direct"
  BY DEF NoRow
<1>4. ASSUME NEW k \in RoomIds, room'[k].kind = "direct"
      PROVE  k # r /\ room'[k] = room[k] /\ members'[k] = members[k]
  BY <1>1, <1>3, <1>4 DEF IInv, TypeOK
<1>5. Rooms'
  <2>1. \A k \in fresh' : room'[k] = NoRow /\ cache'[k] = NoEntry
    BY <1>1 DEF IInv, Rooms, TypeOK, AdminDeleteRoom
  <2> QED
    BY <1>4, <2>1 DEF IInv, Rooms, OneDirectRoomPerPair
<1>6. TypingEntryStaleOnlyIfLate'
  <2>1. ASSUME NEW k \in RoomIds, Live(k)'
        PROVE  Live(k) /\ members'[k] = members[k]
    BY <1>1, <2>1 DEF Live, IInv, TypeOK
  <2>2. ASSUME NEW k \in RoomIds
        PROVE  Changing(k)' <=> Changing(k)
    BY DEF Changing, AdminDeleteRoom
  <2> QED
    BY <2>1, <2>2 DEF IInv, TypingEntryStaleOnlyIfLate, Current, AdminDeleteRoom
<1>7. ASSUME NEW q \in Procs
      PROVE  LocalRoom(q)'
  <2>1. LocalRoom(q)
    BY DEF IInv
  <2>2. ASSUME NEW k \in RoomIds
        PROVE  room'[k] = room[k] \/ room'[k] = NoRow
    BY <1>1 DEF IInv, TypeOK
  <2> QED
    BY <1>3, <2>1, <2>2 DEF LocalRoom, Located, At, AdminDeleteRoom, Live, DirectPCs, GroupPCs, KickPCs
<1>8. ASSUME NEW q \in Procs
      PROVE  LocalList(q)'
  <2>1. LocalList(q) /\ (Located(q) => req[q].room \in RoomIds)
    BY DEF IInv, LocalRoom
  <2>2. during'[q] = during[q]
    BY <1>1 DEF IInv, TypeOK
  <2>3. ASSUME NEW k \in RoomIds
        PROVE  members'[k] \subseteq members[k]
    BY <1>1 DEF IInv, TypeOK
  <2> QED
    BY <2>1, <2>2, <2>3 DEF LocalList, Located, At, AdminDeleteRoom
<1> QED
  BY <1>2, <1>5, <1>6, <1>7, <1>8 DEF IInv

-----------------------------------------------------------------------------
(* Steps that insert a room                                                *)

\* The rows of a new room: nobody works on it yet and the cache does not know it.
LEMMA InsertRows ==
  ASSUME IInv, NEW r \in fresh, NEW row \in RoomRow, NEW ms \in SUBSET Members,
         InsertRoom(r, row, ms), UNCHANGED <<posted, cache, late>>,
         row.kind = "direct" => ms = row.key /\ Pair(ms) /\ DirectRooms(row.key) = {}
  PROVE  /\ fresh' \subseteq RoomIds /\ room' \in [RoomIds -> RoomRow \cup {NoRow}]
         /\ members' \in [RoomIds -> SUBSET Members] /\ during' \in [Procs -> SUBSET Members]
         /\ Rooms'
         /\ \A k \in RoomIds : k # r => room'[k] = room[k] /\ members'[k] = members[k]
         /\ room'[r] = row /\ r \notin fresh'
         /\ \A q \in Procs : Located(q) => req[q].room # r /\ during'[q] = during[q]
<1>1. r \in RoomIds
  BY DEF IInv, TypeOK
<1>2. /\ fresh' = fresh \ {r} /\ room' = [room EXCEPT ![r] = row] /\ members' = [members EXCEPT ![r] = ms]
      /\ during' = [q \in Procs |-> IF req[q].room = r THEN during[q] \cup ms ELSE during[q]]
  BY DEF InsertRoom, SetMembers
<1>3. \A k \in RoomIds : k # r => room'[k] = room[k] /\ members'[k] = members[k]
  BY <1>2 DEF IInv, TypeOK
<1>4. room'[r] = row /\ members'[r] = ms /\ r \notin fresh'
  BY <1>1, <1>2 DEF IInv, TypeOK
<1>5. Rooms'
  <2>1. \A k \in fresh' : room'[k] = NoRow /\ cache'[k] = NoEntry
    BY <1>2, <1>3 DEF IInv, Rooms, TypeOK
  <2>2. \A k \in RoomIds : room'[k].kind = "direct" => members'[k] = room'[k].key /\ Pair(room'[k].key)
    BY <1>3, <1>4 DEF IInv, Rooms
  <2>3. OneDirectRoomPerPair'
    BY <1>3, <1>4 DEF IInv, Rooms, OneDirectRoomPerPair, DirectRooms
  <2> QED
    BY <2>1, <2>2, <2>3 DEF Rooms, Pair
<1>6. \A q \in Procs : Located(q) => req[q].room # r /\ during'[q] = during[q]
  BY <1>2 DEF IInv, LocalRoom, TypeOK
<1>7. /\ fresh' \subseteq RoomIds /\ room' \in [RoomIds -> RoomRow \cup {NoRow}]
      /\ members' \in [RoomIds -> SUBSET Members] /\ during' \in [Procs -> SUBSET Members]
  BY <1>2 DEF IInv, TypeOK
<1> QED
  BY <1>3, <1>4, <1>5, <1>6, <1>7

\* A new room concerns no handler but the one that inserted it.
LEMMA InsertOthers ==
  ASSUME IInv, NEW r \in fresh, NEW row \in RoomRow, NEW ms \in SUBSET Members,
         InsertRoom(r, row, ms), UNCHANGED <<posted, cache, late>>,
         row.kind = "direct" => ms = row.key /\ Pair(ms) /\ DirectRooms(row.key) = {},
         NEW q \in Procs, req'[q] = req[q]
  PROVE  LocalRoom(q)' /\ LocalList(q)'
<1>1. /\ \A k \in RoomIds : k # r => room'[k] = room[k] /\ members'[k] = members[k]
      /\ Located(q) => req[q].room # r /\ during'[q] = during[q]
  BY InsertRows
<1>2. LocalRoom(q) /\ LocalList(q) /\ fresh' \subseteq fresh
  BY DEF IInv, InsertRoom
<1>3. LocalRoom(q)'
  BY <1>1, <1>2 DEF LocalRoom, Located, At, Live, DirectPCs, GroupPCs, KickPCs
<1>4. LocalList(q)'
  BY <1>1, <1>2 DEF LocalList, LocalRoom, Located, At, ListPCs
<1> QED
  BY <1>3, <1>4

LEMMA InsertTyping ==
  ASSUME IInv, NEW r \in fresh, NEW row \in RoomRow, NEW ms \in SUBSET Members,
         InsertRoom(r, row, ms), UNCHANGED <<posted, cache, late>>,
         row.kind = "direct" => ms = row.key /\ Pair(ms) /\ DirectRooms(row.key) = {},
         \A k \in RoomIds : Changing(k) => Changing(k)'
  PROVE  TypingEntryStaleOnlyIfLate'
<1>1. \A k \in RoomIds : k # r => room'[k] = room[k] /\ members'[k] = members[k]
  BY InsertRows
<1>2. cache[r].state = "none"
  BY DEF IInv, Rooms, NoEntry
<1> QED
  BY <1>1, <1>2 DEF IInv, TypingEntryStaleOnlyIfLate, Current, Live

LEMMA CreateGroupStep ==
  ASSUME IInv, NEW a \in Members, NEW ms \in SUBSET Members, CreateGroup(a, ms)
  PROVE  IInv'
<1> DEFINE row == [kind |-> "group", key |-> {}, creator |-> a]
<1>1. PICK r \in fresh : InsertRoom(r, row, ms \cup {a}) /\ UNCHANGED <<posted, cache, req, late>>
  BY DEF CreateGroup
<1>2. row \in RoomRow /\ row.kind # "direct" /\ ms \cup {a} \in SUBSET Members
  BY DEF RoomRow
<1> HIDE DEF row
<1>3. TypeOK' /\ Rooms'
  BY <1>1, <1>2, InsertRows DEF IInv, TypeOK
<1>4. \A q \in Procs : LocalRoom(q)' /\ LocalList(q)'
  BY <1>1, <1>2, InsertOthers
<1>5. TypingEntryStaleOnlyIfLate'
  <2>1. \A k \in RoomIds : Changing(k) => Changing(k)'
    BY <1>1 DEF Changing
  <2> QED
    BY <1>1, <1>2, <2>1, InsertTyping
<1> QED
  BY <1>3, <1>4, <1>5 DEF IInv

LEMMA DirectInsertStep ==
  ASSUME IInv, NEW p \in Procs, DirectInsert(p)
  PROVE  IInv'
<1> DEFINE row == DirectRow(p)
           ms == req[p].targets
<1>1. PICK r \in fresh : /\ InsertRoom(r, row, ms)
                         /\ req' = [req EXCEPT ![p].pc = "direct_done", ![p].room = r]
  BY DEF DirectInsert
<1>2. req[p] \in Request /\ req[p].actor \in Members /\ Pair(ms) /\ r \in RoomIds /\ req[p].pc = "direct_insert"
  BY DEF DirectInsert, At, IInv, TypeOK, LocalRoom, DirectPCs
<1>3. row \in RoomRow /\ row.kind = "direct" /\ row.key = ms /\ ms \in SUBSET Members
  BY <1>2 DEF RoomRow, DirectRow, Request
<1>4. DirectRooms(row.key) = {} /\ UNCHANGED <<posted, cache, late>>
  BY <1>3 DEF DirectInsert
<1> DEFINE x == [req[p] EXCEPT !.pc = "direct_done", !.room = r]
<1>5. x \in Request /\ req' = [req EXCEPT ![p] = x] /\ req'[p] = x
  BY <1>1, <1>2 DEF Request, PCs, IInv, TypeOK
<1> HIDE DEF row, x
<1>6. /\ fresh' \subseteq RoomIds /\ room' \in [RoomIds -> RoomRow \cup {NoRow}]
      /\ members' \in [RoomIds -> SUBSET Members] /\ during' \in [Procs -> SUBSET Members]
      /\ Rooms' /\ room'[r] = row /\ r \notin fresh'
  BY <1>1, <1>2, <1>3, <1>4, InsertRows
<1>7. TypeOK'
  BY <1>4, <1>5, <1>6 DEF IInv, TypeOK
<1>8. LocalRoom(p)' /\ LocalList(p)'
  BY <1>2, <1>3, <1>5, <1>6 DEF x, LocalRoom, LocalList, Located, At, DirectPCs, GroupPCs, KickPCs, ListPCs, Request
<1>9. ASSUME NEW q \in Procs, q # p
      PROVE  LocalRoom(q)' /\ LocalList(q)'
  <2>1. req'[q] = req[q]
    BY <1>5, <1>9
  <2> QED
    BY <1>1, <1>2, <1>3, <1>4, <2>1, InsertOthers
<1>10. TypingEntryStaleOnlyIfLate'
  <2>1. \A k \in RoomIds : Changing(k) => Changing(k)'
    BY <1>2, <1>5 DEF Changing, ChangedPCs
  <2> QED
    BY <1>1, <1>2, <1>3, <1>4, <2>1, InsertTyping
<1> QED
  BY <1>6, <1>7, <1>8, <1>9, <1>10 DEF IInv

-----------------------------------------------------------------------------
(* Steps of the typing cache                                               *)

LEMMA InvalidateStep ==
  ASSUME IInv, NEW p \in Procs, AddTell(p) \/ LeaveTell(p) \/ KickTell(p)
  PROVE  IInv'
<1>1. PICK pc \in ChangedPCs : InvalidateAndTell(p, pc)
  BY DEF AddTell, LeaveTell, KickTell, ChangedPCs
<1>2. PICK r \in RoomIds : r = req[p].room
  BY <1>1 DEF IInv, LocalRoom, Located, InvalidateAndTell, At, ChangedPCs
<1>3. /\ req' \in [Procs -> Request] /\ during' \in [Procs -> SUBSET Members]
      /\ \A q \in Procs \ {p} : req'[q] = req[q] /\ during'[q] = during[q]
      /\ LocalRoom(p)' /\ LocalList(p)'
  BY <1>1, ReturnStep DEF InvalidateAndTell, IInv
<1>4. cache' = [cache EXCEPT ![r] = NoEntry] /\ late' = late \ {r} /\ UNCHANGED db
  BY <1>1, <1>2 DEF InvalidateAndTell, Forget
<1>5. TypeOK'
  BY <1>3, <1>4 DEF IInv, TypeOK, db, NoEntry, Entry
<1>6. Rooms'
  BY <1>4 DEF IInv, TypeOK, Rooms, OneDirectRoomPerPair, db
<1>7. TypingEntryStaleOnlyIfLate'
  <2>1. ASSUME NEW k \in RoomIds, k # r, Changing(k)
        PROVE  Changing(k)'
    BY <1>2, <1>3, <2>1 DEF Changing
  <2>2. cache'[r].state = "none"
    BY <1>4 DEF IInv, TypeOK, NoEntry
  <2>3. \A k \in RoomIds : k # r => cache'[k] = cache[k]
    BY <1>4 DEF IInv, TypeOK
  <2> QED
    BY <1>4, <2>1, <2>2, <2>3 DEF IInv, TypingEntryStaleOnlyIfLate, Current, Live, db
<1>8. ASSUME NEW q \in Procs, q # p
      PROVE  LocalRoom(q)' /\ LocalList(q)'
  BY <1>3, <1>4, <1>8 DEF IInv, LocalRoom, LocalList, Located, At, db, Live
<1> QED
  BY <1>3, <1>5, <1>6, <1>7, <1>8 DEF IInv

LEMMA TypingPutStep ==
  ASSUME IInv, NEW p \in Procs, TypingPut(p)
  PROVE  IInv'
<1> DEFINE x == [req[p] EXCEPT !.pc = "typing_tell"]
<1>1. req[p] \in Request /\ LocalRoom(p) /\ LocalList(p) /\ req[p].pc = "typing_put"
  BY DEF IInv, TypeOK, TypingPut, At
<1>2. x \in Request /\ req' = [req EXCEPT ![p] = x] /\ req'[p] = x
  BY <1>1 DEF Request, PCs, TypingPut, GoTo, IInv, TypeOK
<1>3. PICK r \in RoomIds \ fresh : r = req[p].room
  BY <1>1 DEF LocalRoom, Located
<1>4. /\ cache' = [k \in RoomIds |-> IF k = r THEN [state |-> "live", list |-> req[p].snap]
                                     ELSE IF k \in Kept THEN cache[k] ELSE NoEntry]
      /\ late' = ((late \cap Kept) \ {r}) \cup (IF req[p].snap = members[r] THEN {} ELSE {r})
      /\ UNCHANGED <<db, during>>
  BY <1>3 DEF TypingPut
<1>5. [state |-> "live", list |-> req[p].snap] \in Entry /\ NoEntry \in Entry
  BY <1>1 DEF Entry, Request, NoEntry
<1>6. TypeOK'
  BY <1>2, <1>4, <1>5 DEF IInv, TypeOK, db
<1>7. Rooms'
  BY <1>3, <1>4 DEF IInv, TypeOK, Rooms, OneDirectRoomPerPair, db
<1>8. TypingEntryStaleOnlyIfLate'
  <2>1. ASSUME NEW k \in RoomIds, Changing(k)
        PROVE  Changing(k)'
    BY <1>1, <1>2, <2>1 DEF Changing, ChangedPCs
  <2>2. ASSUME NEW k \in RoomIds, Current(k)', Live(k)', k \notin late'
        PROVE  cache'[k].list = members'[k] \/ Changing(k)'
    <3>1. CASE k = r
      BY <1>4, <2>2, <3>1 DEF db
    <3>2. CASE k # r
      <4>1. k \in Kept /\ cache'[k] = cache[k] /\ k \notin late
        BY <1>4, <2>2, <3>2 DEF Current, NoEntry
      <4> QED
        BY <1>4, <2>1, <2>2, <4>1 DEF IInv, TypingEntryStaleOnlyIfLate, Current, Live, db
    <3> QED
      BY <3>1, <3>2
  <2> QED
    BY <2>2 DEF TypingEntryStaleOnlyIfLate
<1>9. LocalRoom(p)' /\ LocalList(p)'
  BY <1>1, <1>2, <1>4 DEF LocalRoom, LocalList, Located, At, DirectPCs, GroupPCs, KickPCs, ListPCs, Request, db
<1>10. ASSUME NEW q \in Procs, q # p
       PROVE  LocalRoom(q)' /\ LocalList(q)'
  <2>1. req'[q] = req[q]
    BY <1>2, <1>10
  <2> QED
    BY <1>4, <2>1 DEF IInv, LocalRoom, LocalList, Located, At, db, Live
<1> QED
  BY <1>6, <1>7, <1>8, <1>9, <1>10 DEF IInv

LEMMA ExpireStep ==
  ASSUME IInv, NEW r \in RoomIds, ExpireEntry(r)
  PROVE  IInv'
<1>1. /\ cache' = [cache EXCEPT ![r] = ExpiredEntry] /\ late' = late \ {r} /\ UNCHANGED <<db, req, during>>
      /\ cache[r].state = "live"
  BY DEF ExpireEntry, Current
<1>2. TypeOK'
  BY <1>1 DEF IInv, TypeOK, db, ExpiredEntry, Entry
<1>3. Rooms'
  BY <1>1 DEF IInv, TypeOK, Rooms, OneDirectRoomPerPair, db, NoEntry
<1>4. TypingEntryStaleOnlyIfLate'
  <2>1. \A k \in RoomIds : Changing(k) => Changing(k)'
    BY <1>1 DEF Changing
  <2>2. cache'[r].state = "expired"
    BY <1>1 DEF IInv, TypeOK, ExpiredEntry
  <2>3. \A k \in RoomIds : k # r => cache'[k] = cache[k]
    BY <1>1 DEF IInv, TypeOK
  <2> QED
    BY <1>1, <2>1, <2>2, <2>3 DEF IInv, TypingEntryStaleOnlyIfLate, Current, Live, db
<1>5. \A q \in Procs : LocalRoom(q)' /\ LocalList(q)'
  BY <1>1 DEF IInv, LocalRoom, LocalList, Located, At, db, Live
<1> QED
  BY <1>2, <1>3, <1>4, <1>5 DEF IInv

LEMMA RestartStep ==
  ASSUME IInv, Restart
  PROVE  IInv'
<1>1. TypeOK'
  BY DEF IInv, TypeOK, Restart, db, Idle, Request, PCs, NoEntry, Entry
<1>2. Rooms'
  BY DEF IInv, TypeOK, Rooms, OneDirectRoomPerPair, Restart, db
<1>3. TypingEntryStaleOnlyIfLate'
  BY DEF TypingEntryStaleOnlyIfLate, Restart, Current, NoEntry
<1>4. \A q \in Procs : LocalRoom(q)' /\ LocalList(q)'
  BY DEF LocalRoom, LocalList, Located, At, Restart, Idle, DirectPCs, GroupPCs, KickPCs, ListPCs
<1> QED
  BY <1>1, <1>2, <1>3, <1>4 DEF IInv

-----------------------------------------------------------------------------

LEMMA StutterStep ==
  ASSUME IInv, UNCHANGED vars
  PROVE  IInv'
  BY DEF IInv, TypeOK, Rooms, OneDirectRoomPerPair, TypingEntryStaleOnlyIfLate, Changing, Current, Live,
     LocalRoom, LocalList, Located, At, vars, db

LEMMA NextInv == IInv /\ [Next]_vars => IInv'
<1> SUFFICES ASSUME IInv, [Next]_vars PROVE IInv'
  OBVIOUS
<1>1. CASE UNCHANGED vars
  BY <1>1, StutterStep
<1>2. CASE \E a \in Members, ms \in SUBSET Members : CreateGroup(a, ms)
  BY <1>2, CreateGroupStep
<1>3. CASE \E r \in RoomIds : AdminDeleteRoom(r) \/ ExpireEntry(r)
  BY <1>3, AdminDeleteStep, ExpireStep
<1>4. CASE \E p \in Procs, a, b \in Members : DirectFind(p, a, b)
  BY <1>4, DirectFindStep
<1>5. CASE \E p \in Procs, a \in Members, r \in RoomIds :
             SendCheck(p, a, r) \/ LeaveCheck(p, a, r) \/ TypingGet(p, a, r)
  <2>1. PICK p \in Procs, a \in Members, r \in RoomIds :
             SendCheck(p, a, r) \/ LeaveCheck(p, a, r) \/ TypingGet(p, a, r)
    BY <1>5
  <2>2. {} \in SUBSET Members
    OBVIOUS
  <2> QED
    BY <2>1, <2>2, CheckStep
<1>6. CASE \E p \in Procs, a, m \in Members, r \in RoomIds : KickGet(p, a, r, m)
  BY <1>6, KickGetStep
<1>7. CASE \E p \in Procs, a \in Members, r \in RoomIds, t \in SUBSET Members : AddCheck(p, a, r, t)
  BY <1>7, CheckStep
<1>8. ASSUME NEW p \in Procs,
             \/ DirectInsert(p) \/ DirectInsertFails(p) \/ DirectRefind(p) \/ DirectAnswer(p)
             \/ SendSave(p) \/ SendTell(p)
             \/ AddGet(p) \/ AddInsert(p) \/ AddTell(p)
             \/ LeaveGet(p) \/ LeaveRemove(p) \/ LeaveTell(p)
             \/ KickIsMember(p) \/ KickMembers(p) \/ KickRemove(p) \/ KickTell(p)
             \/ TypingRead(p) \/ TypingPut(p) \/ TypingTell(p)
             \/ Fail(p)
      PROVE  IInv'
  BY <1>8, DirectInsertStep, QuietSteps, SendSaveStep, MembershipSteps, InvalidateStep, TypingPutStep
<1>9. CASE Restart
  BY <1>9, RestartStep
<1> QED
  BY <1>1, <1>2, <1>3, <1>4, <1>5, <1>6, <1>7, <1>8, <1>9 DEF Next

LEMMA Invariance == Spec => []IInv
  BY InitInv, NextInv, PTL DEF Spec

\* The rows, the cache and the locals keep their types (messaging/service.go).
THEOREM TypeCorrect == Spec => []TypeOK
<1>1. IInv => TypeOK
  BY DEF IInv
<1> QED
  BY <1>1, Invariance, PTL

\* A 1:1 room has exactly its two members for as long as it exists, although kind and
\* members are read and written by different statements (requireGroup, RemoveMember).
THEOREM PairsKept == Spec => []DirectRoomsKeepTheirPair
<1>1. ASSUME NEW S, Pair(S)
      PROVE  Cardinality(S) = 2
  <2>1. PICK a, b \in Members : a # b /\ S = {a, b}
    BY <1>1 DEF Pair
  <2>2. IsFiniteSet({a}) /\ Cardinality({a}) = 1 /\ S = {a} \cup {b} /\ b \notin {a}
    BY <2>1, FS_Singleton
  <2>3. Cardinality({a} \cup {b}) = Cardinality({a}) + 1
    BY <2>2, FS_AddElement
  <2> QED
    BY <2>2, <2>3
<1>2. IInv => DirectRoomsKeepTheirPair
  BY <1>1 DEF IInv, Rooms, DirectRoomsKeepTheirPair
<1> QED
  BY <1>2, Invariance, PTL

\* Two requests that open a chat between the same two people end up in one room
\* (CreateDirect and the unique index on direct_key).
THEOREM OneRoomPerPair == Spec => []OneDirectRoomPerPair
<1>1. IInv => OneDirectRoomPerPair
  BY DEF IInv, Rooms
<1> QED
  BY <1>1, Invariance, PTL

\* CreateDirect answers the pair's stored room, unless it was deleted since.
THEOREM AnswersStored == Spec => []CreateDirectAnswersStoredRoom
<1>1. IInv => CreateDirectAnswersStoredRoom
  BY DEF IInv, LocalRoom, Located, At, CreateDirectAnswersStoredRoom
<1> QED
  BY <1>1, Invariance, PTL

\* Messages and membership events go only to accounts that were members of the room at some
\* time during the request (broadcast in messaging/service.go).
THEOREM OnlyMembersHear == Spec => []EventsReachOnlyMembers
<1>1. IInv => EventsReachOnlyMembers
  BY DEF IInv, LocalList, EventsReachOnlyMembers, Audience, At, ListPCs
<1> QED
  BY <1>1, Invariance, PTL

\* The list Typing relays by is the room's, except between a change and its invalidate and
\* for an entry put after a change its read missed (typing_cache.go).
THEOREM TypingStaleOnlyIfLate == Spec => []TypingEntryStaleOnlyIfLate
<1>1. IInv => TypingEntryStaleOnlyIfLate
  BY DEF IInv
<1> QED
  BY <1>1, Invariance, PTL

-----------------------------------------------------------------------------
(* The creator of a group                                                  *)

\* The account left the room by its own request.
Left(r, c) == \E p \in Procs : At(p, "leave_remove") /\ req[p].room = r /\ req[p].actor = c

\* Nobody but himself takes the creator out of a room that stays.
CreatorKept ==
    \A r \in RoomIds :
        room'[r] # NoRow /\ room[r].creator \in members[r] \ members'[r] => Left(r, room[r].creator)

LEMMA NewRoomKeepsCreators ==
  ASSUME IInv, NEW s \in fresh, NEW row, NEW ms, InsertRoom(s, row, ms)
  PROVE  CreatorKept
<1>1. room[s].creator = NoMember /\ members[s] \subseteq Members
  BY DEF IInv, TypeOK, Rooms, NoRow
<1>2. \A r \in RoomIds : r # s => members'[r] = members[r]
  BY DEF InsertRoom, SetMembers, IInv, TypeOK
<1> QED
  BY <1>1, <1>2, ChatAssumption DEF CreatorKept

LEMMA RemovalKeepsCreators ==
  ASSUME IInv, NEW p \in Procs, AddInsert(p) \/ LeaveRemove(p) \/ KickRemove(p)
  PROVE  CreatorKept
<1>1. LocalRoom(p) /\ room' = room
  BY DEF IInv, AddInsert, LeaveRemove, KickRemove
<1>2. PICK s \in RoomIds : s = req[p].room
  BY <1>1 DEF LocalRoom, Located, At, AddInsert, LeaveRemove, KickRemove
<1>3. CASE AddInsert(p)
  BY <1>2, <1>3 DEF AddInsert, SetMembers, CreatorKept, IInv, TypeOK
<1>4. CASE LeaveRemove(p)
  <2>1. members' = [members EXCEPT ![s] = members[s] \ {req[p].actor}]
    BY <1>2, <1>4 DEF LeaveRemove, SetMembers
  <2>2. Left(s, req[p].actor)
    BY <1>2, <1>4 DEF Left, LeaveRemove
  <2> QED
    BY <2>1, <2>2 DEF CreatorKept, IInv, TypeOK
<1>5. CASE KickRemove(p)
  <2>1. members' = [members EXCEPT ![s] = members[s] \ req[p].targets]
    BY <1>2, <1>5 DEF KickRemove, SetMembers
  <2>2. Live(s) => room[s].creator \notin req[p].targets
    BY <1>1, <1>2, <1>5 DEF LocalRoom, KickRemove, At, KickPCs
  <2> QED
    BY <1>1, <2>1, <2>2 DEF CreatorKept, IInv, TypeOK, Live
<1> QED
  BY <1>3, <1>4, <1>5

LEMMA StepKeepsCreators == IInv /\ [Next]_vars => CreatorKept
<1> SUFFICES ASSUME IInv, [Next]_vars PROVE CreatorKept
  OBVIOUS
<1>0. ASSUME members' = members
      PROVE  CreatorKept
  BY <1>0 DEF CreatorKept
<1>1. CASE UNCHANGED vars
  BY <1>0, <1>1 DEF vars, db
<1>2. ASSUME NEW a \in Members, NEW ms \in SUBSET Members, CreateGroup(a, ms)
      PROVE  CreatorKept
  BY <1>2, NewRoomKeepsCreators DEF CreateGroup
<1>3. ASSUME NEW s \in RoomIds, AdminDeleteRoom(s)
      PROVE  CreatorKept
  BY <1>3 DEF AdminDeleteRoom, SetMembers, CreatorKept, IInv, TypeOK
<1>4. ASSUME NEW s \in RoomIds, ExpireEntry(s)
      PROVE  CreatorKept
  BY <1>0, <1>4 DEF ExpireEntry, db
<1>5. ASSUME \/ \E p \in Procs, a, b \in Members : DirectFind(p, a, b)
             \/ \E p \in Procs, a \in Members, r \in RoomIds :
                    SendCheck(p, a, r) \/ LeaveCheck(p, a, r) \/ TypingGet(p, a, r)
             \/ \E p \in Procs, a, m \in Members, r \in RoomIds : KickGet(p, a, r, m)
             \/ \E p \in Procs, a \in Members, r \in RoomIds, t \in SUBSET Members : AddCheck(p, a, r, t)
      PROVE  CreatorKept
  BY <1>0, <1>5 DEF DirectFind, SendCheck, LeaveCheck, TypingGet, KickGet, AddCheck, db
<1>6. ASSUME NEW p \in Procs, DirectInsert(p)
      PROVE  CreatorKept
  BY <1>6, NewRoomKeepsCreators DEF DirectInsert
<1>7. ASSUME NEW p \in Procs, AddInsert(p) \/ LeaveRemove(p) \/ KickRemove(p)
      PROVE  CreatorKept
  BY <1>7, RemovalKeepsCreators
<1>8. ASSUME NEW p \in Procs,
             \/ DirectInsertFails(p) \/ DirectRefind(p) \/ DirectAnswer(p) \/ SendSave(p) \/ SendTell(p)
             \/ AddGet(p) \/ AddTell(p) \/ LeaveGet(p) \/ LeaveTell(p)
             \/ KickIsMember(p) \/ KickMembers(p) \/ KickTell(p)
             \/ TypingRead(p) \/ TypingPut(p) \/ TypingTell(p) \/ Fail(p)
      PROVE  CreatorKept
  <2>1. members' = members
    BY <1>8 DEF DirectInsertFails, DirectRefind, DirectAnswer, SendSave, SendTell, AddGet, AddTell, LeaveGet,
       LeaveTell, KickIsMember, KickMembers, KickTell, TypingRead, TypingPut, TypingTell, Fail, Refuse,
       InvalidateAndTell, db
  <2> QED
    BY <1>0, <2>1
<1>9. CASE Restart
  BY <1>0, <1>9 DEF Restart, db
<1> QED
  BY <1>1, <1>2, <1>3, <1>4, <1>5, <1>6, <1>7, <1>8, <1>9 DEF Next

\* A group loses its creator only when he leaves or the room is deleted, whatever kicks and
\* departures meet (KickMember of messaging/service.go).
THEOREM CreatorsStay == Spec => CreatorStaysUntilHeLeaves
<1>1. CreatorKept => \A r \in RoomIds :
         LET c == room[r].creator
         IN  /\ room'[r] # NoRow
             /\ c \in members[r] \ members'[r]
             => \E p \in Procs : At(p, "leave_remove") /\ req[p].room = r /\ req[p].actor = c
  BY DEF CreatorKept, Left
<1> QED
  BY <1>1, Invariance, StepKeepsCreators, PTL DEF Spec, CreatorStaysUntilHeLeaves

-----------------------------------------------------------------------------
(* The bound of the typing cache                                           *)

CacheInv == IsFiniteSet(Cached) /\ TypingCacheBounded

LEMMA FewerCached ==
  ASSUME CacheInv, Cached' \subseteq Cached
  PROVE  CacheInv'
<1>1. Cached' \in SUBSET Cached
  OBVIOUS
<1>2. IsFiniteSet(Cached') /\ Cardinality(Cached') <= Cardinality(Cached)
  BY <1>1, FS_Subset DEF CacheInv
<1>3. Cardinality(Cached) \in Nat /\ Cardinality(Cached') \in Nat
  BY <1>2, FS_CardinalityType DEF CacheInv
<1> QED
  BY <1>2, <1>3, ChatAssumption DEF CacheInv, TypingCacheBounded

LEMMA PutBounded ==
  ASSUME CacheInv, NEW p \in Procs, TypingPut(p)
  PROVE  CacheInv'
<1> DEFINE r == req[p].room
           alive == {k \in RoomIds : Current(k)}
<1>1. alive \in SUBSET Cached
  BY DEF Current, Cached
<1>2. IsFiniteSet(alive) /\ Cardinality(alive) \in Nat /\ Cardinality(Cached) \in Nat
  BY <1>1, FS_Subset, FS_CardinalityType DEF CacheInv
<1>3. IsFiniteSet(Kept) /\ Cardinality(Kept) < CacheMax
  BY <1>2, FS_EmptySet, ChatAssumption DEF Kept, CacheInv
<1>4. IsFiniteSet(Kept \cup {r}) /\ Cardinality(Kept \cup {r}) <= CacheMax
  <2>1. /\ IsFiniteSet(Kept \cup {r})
        /\ Cardinality(Kept \cup {r}) = IF r \in Kept THEN Cardinality(Kept) ELSE Cardinality(Kept) + 1
    BY <1>3, FS_AddElement
  <2>2. Cardinality(Kept) \in Nat
    BY <1>3, FS_CardinalityType
  <2> QED
    BY <1>3, <2>1, <2>2, ChatAssumption
<1>5. Cached' \in SUBSET (Kept \cup {r})
  BY DEF TypingPut, Cached, NoEntry
<1>6. IsFiniteSet(Cached') /\ Cardinality(Cached') <= Cardinality(Kept \cup {r})
  BY <1>4, <1>5, FS_Subset
<1>7. Cardinality(Cached') \in Nat /\ Cardinality(Kept \cup {r}) \in Nat
  BY <1>4, <1>6, FS_CardinalityType
<1> QED
  BY <1>4, <1>6, <1>7, ChatAssumption DEF CacheInv, TypingCacheBounded

LEMMA NextBounded == TypeOK /\ CacheInv /\ [Next]_vars => CacheInv'
<1> SUFFICES ASSUME TypeOK, CacheInv, [Next]_vars PROVE CacheInv'
  OBVIOUS
<1>1. ASSUME cache' = cache
      PROVE  CacheInv'
  BY <1>1, FewerCached DEF Cached
<1>2. ASSUME NEW p \in Procs, TypingPut(p)
      PROVE  CacheInv'
  BY <1>2, PutBounded
<1>3. ASSUME NEW p \in Procs, AddTell(p) \/ LeaveTell(p) \/ KickTell(p)
      PROVE  CacheInv'
  BY <1>3, FewerCached DEF AddTell, LeaveTell, KickTell, InvalidateAndTell, Forget, Cached, NoEntry, TypeOK
<1>4. ASSUME NEW r \in RoomIds, ExpireEntry(r)
      PROVE  CacheInv'
  BY <1>4, FewerCached DEF ExpireEntry, Current, Cached, ExpiredEntry, TypeOK
<1>5. CASE Restart
  BY <1>5, FewerCached DEF Restart, Cached, NoEntry
<1>6. CASE cache' # cache
  <2>1. ASSUME \/ \E p \in Procs, a, b \in Members : DirectFind(p, a, b)
               \/ \E p \in Procs, a \in Members, r \in RoomIds :
                      SendCheck(p, a, r) \/ LeaveCheck(p, a, r) \/ TypingGet(p, a, r)
               \/ \E p \in Procs, a, m \in Members, r \in RoomIds : KickGet(p, a, r, m)
               \/ \E p \in Procs, a \in Members, r \in RoomIds, t \in SUBSET Members : AddCheck(p, a, r, t)
               \/ \E a \in Members, ms \in SUBSET Members : CreateGroup(a, ms)
               \/ \E r \in RoomIds : AdminDeleteRoom(r)
        PROVE  FALSE
    BY <1>6, <2>1 DEF DirectFind, SendCheck, LeaveCheck, TypingGet, KickGet, AddCheck, CreateGroup, AdminDeleteRoom
  <2>2. ASSUME NEW p \in Procs,
               \/ DirectInsert(p) \/ DirectInsertFails(p) \/ DirectRefind(p) \/ DirectAnswer(p)
               \/ SendSave(p) \/ SendTell(p) \/ AddGet(p) \/ AddInsert(p) \/ LeaveGet(p) \/ LeaveRemove(p)
               \/ KickIsMember(p) \/ KickMembers(p) \/ KickRemove(p)
               \/ TypingRead(p) \/ TypingTell(p) \/ Fail(p)
        PROVE  FALSE
    BY <1>6, <2>2 DEF DirectInsert, DirectInsertFails, DirectRefind, DirectAnswer, SendSave, SendTell, AddGet,
       AddInsert, LeaveGet, LeaveRemove, KickIsMember, KickMembers, KickRemove, TypingRead, TypingTell, Fail, Refuse
  <2> QED
    BY <1>2, <1>3, <1>4, <1>5, <1>6, <2>1, <2>2 DEF Next, vars
<1> QED
  BY <1>1, <1>6

\* The typing cache never holds more rooms than its limit (put in typing_cache.go).
THEOREM TypingBounded == Spec => []TypingCacheBounded
<1>1. Init => CacheInv
  <2>1. ASSUME Init
        PROVE  Cached = {}
    BY <2>1 DEF Init, Cached, NoEntry
  <2> QED
    BY <2>1, FS_EmptySet, ChatAssumption DEF CacheInv, TypingCacheBounded
<1>2. CacheInv => TypingCacheBounded
  BY DEF CacheInv
<1> QED
  BY <1>1, <1>2, TypeCorrect, NextBounded, PTL DEF Spec
=============================================================================
