-------------------------- MODULE ChatMessagesProofs --------------------------
(***************************************************************************)
(* What ChatMessages guarantees for any number of accounts, messages,      *)
(* texts and requests, any page size and any length of time.               *)
(***************************************************************************)
EXTENDS ChatMessages, FiniteSetTheorems, TLAPS

Sending == {"send_stamp", "send_save"}
Editing == {"edit_members", "edit_write"}
Deleting == {"delete_members", "delete_write", "admin_write"}
Telling == {"send_event", "edit_event", "delete_event", "admin_members"}
Reading == {"read_stamp", "read_write"}

\* What the locals of a handler say, when f are the ids not drawn yet.
Sound(r, f) ==
    /\ r.pc \in {"idle"} \cup Sending \cup Reading => r.msg = NoMsg
    /\ r.pc \in Sending => r.actor \in Accounts /\ r.text \in Texts
    /\ r.pc \in Reading => r.actor \in Accounts
    /\ r.pc \in Editing \cup Deleting \cup Telling => r.msg \in Msgs \ f
    /\ r.pc \in Editing \cup {"send_event", "edit_event"} => r.text \in Texts
    /\ r.pc \in Deleting \cup {"delete_event", "admin_members"} => r.text = NoText

\* What was deleted says nothing, and nothing else does.
Says(m) == IF row[m].deleted THEN row[m].text = NoText ELSE row[m].text \in Texts

RowsOK == \A m \in Msgs : Stored(m) => m \notin fresh /\ Says(m)

Base == TypeOK /\ RowsOK /\ \A p \in Procs : Sound(req[p], fresh)

LEMMA IdleFacts == Idle \in Request /\ Idle.pc = "idle" /\ Idle.msg = NoMsg
                   /\ \A f : Sound(Idle, f)
<1>1. 0 \in Times
  BY MessageAssumption DEF Times
<1>2. Idle \in Request /\ Idle.pc = "idle" /\ Idle.msg = NoMsg
  BY <1>1 DEF Idle, Request, PCs
<1>3. \A f : Sound(Idle, f)
  BY <1>2 DEF Sound, Sending, Editing, Deleting, Telling, Reading
<1> QED
  BY <1>2, <1>3

LEMMA StoredRow ==
  ASSUME TypeOK, NEW m \in Msgs, Stored(m)
  PROVE  /\ row[m] \in Row /\ row[m].sender \in Accounts /\ row[m].created \in Times
         /\ row[m].text \in Texts \cup {NoText} /\ row[m].deleted \in BOOLEAN
<1>1. row[m] \in Row
  BY DEF TypeOK, Stored
<1> QED
  BY <1>1 DEF Row

\* A row with a sender is a row.
LEMMA RowStored ==
  ASSUME NEW r \in Row
  PROVE  r # NoRow
  BY MessageAssumption DEF Row, NoRow

-----------------------------------------------------------------------------
(* Base is kept *)

LEMMA InitBase == Init => Base
<1> SUFFICES ASSUME Init PROVE Base
  OBVIOUS
<1>1. TypeOK
  <2>1. 0 \in Times /\ 1 \in Times
    BY MessageAssumption DEF Times
  <2>2. NoPager \in Pager
    BY DEF NoPager, Pager
  <2> QED
    BY <2>1, <2>2, IdleFacts DEF Init, TypeOK
<1>2. RowsOK
  BY DEF Init, RowsOK, Stored
<1>3. \A p \in Procs : Sound(req[p], fresh)
  BY IdleFacts DEF Init
<1> QED
  BY <1>1, <1>2, <1>3 DEF Base

LEMMA RequestStep ==
  ASSUME Base, NEW p \in Procs, NEW q \in Request, Sound(q, fresh'), fresh' \subseteq fresh,
         req' = [req EXCEPT ![p] = q]
  PROVE  req' \in [Procs -> Request] /\ \A s \in Procs : Sound(req'[s], fresh')
<1>1. req' \in [Procs -> Request] /\ req'[p] = q /\ \A s \in Procs \ {p} : req'[s] = req[s]
  BY DEF Base, TypeOK
<1>2. \A s \in Procs : Sound(req[s], fresh')
  BY DEF Base, Sound
<1> QED
  BY <1>1, <1>2

\* A handler that only moves on: the rest stays as it is.
LEMMA MoveBase ==
  ASSUME Base, NEW p \in Procs, NEW q \in Request, Sound(q, fresh),
         req' = [req EXCEPT ![p] = q], UNCHANGED <<clock, db, pager>>,
         told' \in [Msgs -> Texts \cup {NoText, Untold, Unsure}]
  PROVE  Base'
<1>1. UNCHANGED <<fresh, row, in, lastRead>>
  BY DEF db
<1>2. req' \in [Procs -> Request] /\ \A s \in Procs : Sound(req'[s], fresh')
  BY <1>1, RequestStep
<1>3. RowsOK'
  BY <1>1 DEF Base, RowsOK, Stored, Says
<1>4. TypeOK'
  BY <1>1, <1>2 DEF Base, TypeOK
<1> QED
  BY <1>2, <1>3, <1>4 DEF Base

LEMMA RefuseBase ==
  ASSUME Base, NEW p \in Procs, Refuse(p)
  PROVE  Base'
  BY MoveBase, IdleFacts DEF Refuse, Return, Base, TypeOK

LEMMA BeginBase ==
  ASSUME Base, NEW p \in Procs, UNCHANGED <<clock, db, told, pager>>,
         \/ \E a \in Accounts, t \in Texts : Send(p, a, t)
         \/ \E a \in Accounts, m \in Msgs, t \in Texts : Edit(p, a, m, t)
         \/ \E a \in Accounts, m \in Msgs : Delete(p, a, m)
         \/ \E m \in Msgs : AdminDelete(p, m)
         \/ \E a \in Accounts : Read(p, a)
  PROVE  Base'
<1>1. ASSUME NEW pc \in PCs, NEW a \in Accounts \cup {NoAccount}, NEW m \in Msgs \cup {NoMsg},
             NEW t \in Texts \cup {NoText}, Begin(p, pc, a, m, t),
             Sound([Idle EXCEPT !.pc = pc, !.actor = a, !.msg = m, !.text = t], fresh)
      PROVE  Base'
  <2> DEFINE q == [Idle EXCEPT !.pc = pc, !.actor = a, !.msg = m, !.text = t]
  <2>1. q \in Request
    BY IdleFacts DEF Request
  <2> HIDE DEF q
  <2>2. Sound(q, fresh) /\ req' = [req EXCEPT ![p] = q]
    BY <1>1 DEF q, Begin
  <2> QED
    BY <2>1, <2>2, MoveBase DEF Base, TypeOK
<1>2. ASSUME NEW pc \in PCs, NEW a \in Accounts \cup {NoAccount}, NEW m \in Msgs \cup {NoMsg},
             NEW t \in Texts \cup {NoText}
      PROVE  LET q == [Idle EXCEPT !.pc = pc, !.actor = a, !.msg = m, !.text = t]
             IN  q.pc = pc /\ q.actor = a /\ q.msg = m /\ q.text = t
  BY DEF Idle
<1> USE DEF Sound, Sending, Editing, Deleting, Telling, Reading, PCs
<1>3. ASSUME NEW a \in Accounts, NEW t \in Texts, Send(p, a, t) PROVE Base'
  BY <1>1, <1>2, <1>3 DEF Send
<1>4. ASSUME NEW a \in Accounts, NEW m \in Msgs, NEW t \in Texts, Edit(p, a, m, t) PROVE Base'
  BY <1>1, <1>2, <1>4 DEF Edit, Base, RowsOK
<1>5. ASSUME NEW a \in Accounts, NEW m \in Msgs, Delete(p, a, m) PROVE Base'
  BY <1>1, <1>2, <1>5 DEF Delete, Base, RowsOK
<1>6. ASSUME NEW m \in Msgs, AdminDelete(p, m) PROVE Base'
  BY <1>1, <1>2, <1>6 DEF AdminDelete, Base, RowsOK
<1>7. ASSUME NEW a \in Accounts, Read(p, a) PROVE Base'
  BY <1>1, <1>2, <1>7 DEF Read
<1> QED
  BY <1>3, <1>4, <1>5, <1>6, <1>7

\* The clock is read, or the membership checked, and the handler goes on.
LEMMA AdvanceBase ==
  ASSUME Base, NEW p \in Procs,
         \/ SendStamp(p) \/ ReadStamp(p) \/ EditMembers(p) \/ DeleteMembers(p)
  PROVE  Base'
<1> USE DEF Sound, Sending, Editing, Deleting, Telling, Reading, PCs
<1>1. req[p] \in Request /\ Sound(req[p], fresh) /\ clock \in Times
  BY DEF Base, TypeOK
<1>2. told \in [Msgs -> Texts \cup {NoText, Untold, Unsure}]
  BY DEF Base, TypeOK
<1>3. ASSUME NEW from \in PCs, NEW to \in PCs, Stamp(p, from, to),
             <<from, to>> \in {<<"send_stamp", "send_save">>, <<"read_stamp", "read_write">>}
      PROVE  Base'
  <2> DEFINE q == [req[p] EXCEPT !.pc = to, !.at = clock]
  <2>1. q \in Request /\ Sound(q, fresh)
    BY <1>1, <1>3 DEF Request, Stamp, At
  <2>2. req' = [req EXCEPT ![p] = q]
    BY <1>3 DEF Stamp, Base, TypeOK
  <2> HIDE DEF q
  <2> QED
    BY <1>2, <1>3, <2>1, <2>2, MoveBase DEF Stamp
<1>4. ASSUME NEW from \in PCs, NEW to \in PCs, CheckMember(p, from, to),
             <<from, to>> \in {<<"edit_members", "edit_write">>, <<"delete_members", "delete_write">>}
      PROVE  Base'
  <2> DEFINE q == [req[p] EXCEPT !.pc = to]
  <2>1. q \in Request /\ Sound(q, fresh)
    BY <1>1, <1>4 DEF Request, CheckMember, At
  <2>2. GoTo(p, to) => req' = [req EXCEPT ![p] = q]
    BY DEF GoTo, Base, TypeOK
  <2> HIDE DEF q
  <2> QED
    BY <1>2, <1>4, <2>1, <2>2, MoveBase, RefuseBase DEF CheckMember
<1> QED
  BY <1>3, <1>4 DEF SendStamp, ReadStamp, EditMembers, DeleteMembers

\* A write about m: the handler is about to tell it, and told has its type.
LEMMA AnnounceStep ==
  ASSUME Base, NEW p \in Procs, NEW pc \in Telling, NEW m \in Msgs, m \notin fresh',
         fresh' \subseteq fresh, Announce(p, pc, m),
         pc \in {"send_event", "edit_event"} => req[p].text \in Texts,
         pc \in {"delete_event", "admin_members"} => req[p].text = NoText
  PROVE  /\ req' \in [Procs -> Request] /\ \A s \in Procs : Sound(req'[s], fresh')
         /\ told' \in [Msgs -> Texts \cup {NoText, Untold, Unsure}]
         /\ req'[p].pc = pc /\ req'[p].msg = m /\ req'[p].text = req[p].text
         /\ \A s \in Procs \ {p} : req'[s] = req[s]
<1> DEFINE q == [Idle EXCEPT !.pc = pc, !.msg = m, !.text = req[p].text]
<1>1. req[p] \in Request
  BY DEF Base, TypeOK
<1>2. q \in Request /\ q.pc = pc /\ q.msg = m /\ q.text = req[p].text
  BY <1>1, IdleFacts DEF Request, Idle, PCs, Telling
<1>3. Sound(q, fresh')
  BY <1>2 DEF Sound, Sending, Editing, Deleting, Telling, Reading
<1>4. req' = [req EXCEPT ![p] = q]
  BY DEF Announce
<1>5. told' \in [Msgs -> Texts \cup {NoText, Untold, Unsure}]
  BY DEF Announce, Base, TypeOK
<1> HIDE DEF q
<1>6. req'[p] = q /\ \A s \in Procs \ {p} : req'[s] = req[s]
  BY <1>4 DEF Base, TypeOK
<1> QED
  BY <1>2, <1>3, <1>4, <1>5, <1>6, RequestStep

LEMMA SendSaveRow ==
  ASSUME Base, NEW p \in Procs, At(p, "send_save"), NEW m \in fresh,
         fresh' = fresh \ {m},
         row' = [row EXCEPT ![m] = [sender |-> req[p].actor, text |-> req[p].text,
                                    created |-> req[p].at, deleted |-> FALSE]]
  PROVE  /\ m \in Msgs /\ ~ Stored(m) /\ Stored(m)' /\ req[p].text \in Texts
         /\ row'[m] = [sender |-> req[p].actor, text |-> req[p].text,
                       created |-> req[p].at, deleted |-> FALSE]
         /\ row'[m] \in Row /\ \A n \in Msgs \ {m} : row'[n] = row[n]
         /\ row' \in [Msgs -> Row \cup {NoRow}] /\ RowsOK'
<1>1. m \in Msgs /\ ~ Stored(m)
  BY DEF Base, TypeOK, RowsOK
<1>2. req[p].actor \in Accounts /\ req[p].text \in Texts /\ req[p].at \in Times
  BY DEF Base, TypeOK, Request, Sound, Sending, At
<1>3. row'[m] = [sender |-> req[p].actor, text |-> req[p].text,
                 created |-> req[p].at, deleted |-> FALSE]
  BY <1>1 DEF Base, TypeOK
<1>4. row'[m] \in Row /\ row'[m].text \in Texts /\ row'[m].deleted = FALSE
  <2>1. row'[m].text = req[p].text /\ row'[m].deleted = FALSE
    BY <1>3
  <2>2. [sender |-> req[p].actor, text |-> req[p].text,
         created |-> req[p].at, deleted |-> FALSE] \in Row
    BY <1>2 DEF Row
  <2>3. row'[m] \in Row
    BY <1>3, <2>2, Zenon
  <2> QED
    BY <1>2, <2>1, <2>3
<1>5. \A n \in Msgs \ {m} : row'[n] = row[n]
  BY DEF Base, TypeOK
<1>6. row' \in [Msgs -> Row \cup {NoRow}]
  BY <1>4, <1>5 DEF Base, TypeOK
<1>7. Stored(m)'
  BY <1>4, RowStored DEF Stored
<1>8. RowsOK'
  BY <1>4, <1>5 DEF Base, RowsOK, Stored, Says
<1> QED
  BY <1>1, <1>2, <1>3, <1>4, <1>5, <1>6, <1>7, <1>8

\* The two updates of a stored row keep its author and its time.
LEMMA EditRow ==
  ASSUME Base, NEW m \in Msgs, Stored(m), ~ row[m].deleted, NEW t \in Texts, UNCHANGED fresh,
         row' = [row EXCEPT ![m].text = t]
  PROVE  /\ row' \in [Msgs -> Row \cup {NoRow}] /\ RowsOK'
         /\ row'[m] \in Row /\ row'[m].text = t /\ ~ row'[m].deleted
         /\ row'[m].sender = row[m].sender /\ row'[m].created = row[m].created
         /\ \A n \in Msgs \ {m} : row'[n] = row[n]
         /\ \A n \in Msgs : Stored(n)' <=> Stored(n)
<1>1. row[m] \in Row
  BY StoredRow DEF Base
<1>2. row'[m] = [row[m] EXCEPT !.text = t] /\ \A n \in Msgs \ {m} : row'[n] = row[n]
  BY DEF Base, TypeOK
<1>3. row'[m] \in Row /\ row'[m].text = t /\ ~ row'[m].deleted
      /\ row'[m].sender = row[m].sender /\ row'[m].created = row[m].created
  BY <1>1, <1>2 DEF Row
<1>4. row' \in [Msgs -> Row \cup {NoRow}]
  BY <1>2, <1>3 DEF Base, TypeOK
<1>5. \A n \in Msgs : Stored(n)' <=> Stored(n)
  BY <1>2, <1>3, RowStored DEF Stored
<1>6. RowsOK'
  BY <1>2, <1>3, <1>5 DEF Base, RowsOK, Says
<1> QED
  BY <1>2, <1>3, <1>4, <1>5, <1>6

LEMMA MarkRow ==
  ASSUME Base, NEW m \in Msgs, Stored(m), MarkDeleted(m), UNCHANGED fresh
  PROVE  /\ row' \in [Msgs -> Row \cup {NoRow}] /\ RowsOK'
         /\ row'[m] \in Row /\ row'[m].text = NoText /\ row'[m].deleted
         /\ row'[m].sender = row[m].sender /\ row'[m].created = row[m].created
         /\ \A n \in Msgs \ {m} : row'[n] = row[n]
         /\ \A n \in Msgs : Stored(n)' <=> Stored(n)
<1>1. row[m] \in Row
  BY StoredRow DEF Base
<1> DEFINE r == [row[m] EXCEPT !.text = NoText, !.deleted = TRUE]
<1>2. row'[m] = r /\ row' = [row EXCEPT ![m] = r] /\ \A n \in Msgs \ {m} : row'[n] = row[n]
  BY DEF MarkDeleted, Base, TypeOK
<1>3. row'[m] \in Row /\ row'[m].text = NoText /\ row'[m].deleted
      /\ row'[m].sender = row[m].sender /\ row'[m].created = row[m].created
  <2>1. r \in Row
    BY <1>1 DEF Row
  <2>2. r.text = NoText /\ r.sender = row[m].sender /\ r.created = row[m].created
    BY <1>1 DEF Row
  <2>3. r.deleted
    BY <1>1 DEF Row
  <2> HIDE DEF r
  <2> QED
    BY <1>2, <2>1, <2>2, <2>3
<1> HIDE DEF r
<1>4. row' \in [Msgs -> Row \cup {NoRow}]
  BY <1>2, <1>3 DEF Base, TypeOK
<1>5. \A n \in Msgs : Stored(n)' <=> Stored(n)
  BY <1>2, <1>3, RowStored DEF Stored
<1>6. RowsOK'
  BY <1>2, <1>3, <1>5 DEF Base, RowsOK, Says
<1> QED
  BY <1>2, <1>3, <1>4, <1>5, <1>6

LEMMA SendSaveBase ==
  ASSUME Base, NEW p \in Procs, SendSave(p)
  PROVE  Base'
<1>1. PICK m \in fresh :
        /\ fresh' = fresh \ {m}
        /\ row' = [row EXCEPT ![m] = [sender |-> req[p].actor, text |-> req[p].text,
                                      created |-> req[p].at, deleted |-> FALSE]]
        /\ Announce(p, "send_event", m)
  BY DEF SendSave
<1>2. UNCHANGED <<clock, in, lastRead, pager>> /\ At(p, "send_save")
  BY DEF SendSave
<1>3. m \in Msgs /\ req[p].text \in Texts /\ row' \in [Msgs -> Row \cup {NoRow}] /\ RowsOK'
  BY <1>1, <1>2, SendSaveRow
<1>4. m \notin fresh' /\ fresh' \subseteq fresh
  BY <1>1
<1>5. /\ req' \in [Procs -> Request] /\ \A s \in Procs : Sound(req'[s], fresh')
      /\ told' \in [Msgs -> Texts \cup {NoText, Untold, Unsure}]
  BY <1>1, <1>3, <1>4, AnnounceStep DEF Telling
<1> QED
  BY <1>2, <1>3, <1>4, <1>5 DEF Base, TypeOK

LEMMA EditWriteBase ==
  ASSUME Base, NEW p \in Procs, EditWrite(p)
  PROVE  Base'
<1> DEFINE m == req[p].msg
<1>1. /\ row' = IF Stored(m) /\ ~ row[m].deleted THEN [row EXCEPT ![m].text = req[p].text] ELSE row
      /\ Announce(p, "edit_event", m) /\ UNCHANGED <<clock, fresh, in, lastRead, pager>>
  BY DEF EditWrite
<1>2. m \in Msgs \ fresh /\ req[p].text \in Texts
  BY DEF EditWrite, At, Base, Sound, Editing
<1>3. /\ req' \in [Procs -> Request] /\ \A s \in Procs : Sound(req'[s], fresh')
      /\ told' \in [Msgs -> Texts \cup {NoText, Untold, Unsure}]
  BY <1>1, <1>2, AnnounceStep DEF Telling
<1> HIDE DEF m
<1>4. row' \in [Msgs -> Row \cup {NoRow}] /\ RowsOK'
  <2>1. CASE Stored(m) /\ ~ row[m].deleted
    BY <2>1, <1>1, <1>2, EditRow
  <2>2. CASE ~ (Stored(m) /\ ~ row[m].deleted)
    BY <2>2, <1>1 DEF Base, TypeOK, RowsOK, Stored, Says
  <2> QED
    BY <2>1, <2>2
<1> QED
  BY <1>1, <1>3, <1>4 DEF Base, TypeOK

LEMMA DeleteWriteBase ==
  ASSUME Base, NEW p \in Procs, DeleteWrite(p)
  PROVE  Base'
<1> DEFINE m == req[p].msg
<1>1. PICK pc \in {"delete_event", "admin_members"} : Announce(p, pc, m)
  BY DEF DeleteWrite
<1>2. MarkDeleted(m) /\ UNCHANGED <<clock, fresh, in, lastRead, pager>>
  BY DEF DeleteWrite
<1>3. m \in Msgs \ fresh /\ req[p].text = NoText
  BY DEF DeleteWrite, At, Base, Sound, Deleting
<1>4. /\ req' \in [Procs -> Request] /\ \A s \in Procs : Sound(req'[s], fresh')
      /\ told' \in [Msgs -> Texts \cup {NoText, Untold, Unsure}]
  BY <1>1, <1>2, <1>3, AnnounceStep DEF Telling
<1> HIDE DEF m
<1>5. row' \in [Msgs -> Row \cup {NoRow}] /\ RowsOK'
  <2>1. CASE Stored(m)
    BY <2>1, <1>2, <1>3, MarkRow
  <2>2. CASE ~ Stored(m)
    BY <2>2, <1>2 DEF MarkDeleted, Base, TypeOK, RowsOK, Stored, Says
  <2> QED
    BY <2>1, <2>2
<1> QED
  BY <1>2, <1>4, <1>5 DEF Base, TypeOK

LEMMA TellBase ==
  ASSUME Base, NEW p \in Procs,
         SendEvent(p) \/ EditEvent(p) \/ DeleteEvent(p) \/ AdminMembers(p)
  PROVE  Base'
<1>1. req[p] \in Request /\ Sound(req[p], fresh)
  BY DEF Base, TypeOK
<1>2. ASSUME NEW t \in Texts \cup {NoText}, Tell(p, t) PROVE Base'
  BY <1>2, IdleFacts, MoveBase DEF Tell, Return, Base, TypeOK
<1>3. CASE AdminMembers(p)
  <2>1. CASE GoTo(p, "delete_event") /\ UNCHANGED <<clock, db, told, pager>>
    <3> DEFINE q == [req[p] EXCEPT !.pc = "delete_event"]
    <3>1. q \in Request /\ Sound(q, fresh)
      BY <1>1, <1>3 DEF Request, PCs, AdminMembers, At, Sound, Sending, Editing, Deleting,
                        Telling, Reading
    <3>2. req' = [req EXCEPT ![p] = q]
      BY <2>1 DEF GoTo, Base, TypeOK
    <3> HIDE DEF q
    <3> QED
      BY <2>1, <3>1, <3>2, MoveBase DEF Base, TypeOK
  <2>2. CASE /\ told' = [told EXCEPT ![req[p].msg] = Unsure]
             /\ Return(p) /\ UNCHANGED <<clock, db, pager>>
    BY <2>2, IdleFacts, MoveBase DEF Return, Base, TypeOK
  <2> QED
    BY <1>3, <2>1, <2>2 DEF AdminMembers
<1>4. SendEvent(p) \/ EditEvent(p) => req[p].text \in Texts
  BY <1>1 DEF SendEvent, EditEvent, At, Sound, Telling
<1> QED
  BY <1>2, <1>3, <1>4 DEF SendEvent, EditEvent, DeleteEvent

LEMMA ReadWriteBase ==
  ASSUME Base, NEW p \in Procs, ReadWrite(p)
  PROVE  Base'
<1>1. req[p] \in Request
  BY DEF Base, TypeOK
<1>2. lastRead' \in [Accounts -> Times]
  BY <1>1 DEF ReadWrite, Request, Base, TypeOK
<1>3. req' \in [Procs -> Request] /\ \A s \in Procs : Sound(req'[s], fresh')
  BY IdleFacts, RequestStep DEF ReadWrite, Return
<1> QED
  BY <1>2, <1>3 DEF ReadWrite, Base, TypeOK, RowsOK, Stored, Says

LEMMA PageBase ==
  ASSUME Base, NextPage
  PROVE  Base'
<1>1. pager \in Pager
  BY DEF Base, TypeOK
<1>2. pager' \in Pager
  <2>1. PICK page \in SUBSET Earlier(pager.before) :
          LET start == IF pager.before = NoMsg THEN {m \in Msgs : Stored(m)} ELSE pager.start
          IN  IF page = {}
              THEN pager' = [pager EXCEPT !.done = TRUE, !.start = start]
              ELSE \E m \in page :
                      pager' = [pager EXCEPT !.before = m, !.seen = @ \cup page,
                                             !.start = start, !.last = @ \cup {m}]
    BY DEF NextPage
  <2>2. page \subseteq Msgs
    BY DEF Earlier
  <2> DEFINE start == IF pager.before = NoMsg THEN {m \in Msgs : Stored(m)} ELSE pager.start
  <2>3. start \in SUBSET Msgs /\ pager.seen \in SUBSET Msgs /\ pager.last \in SUBSET Msgs
    BY <1>1 DEF Pager
  <2> HIDE DEF start
  <2>4. CASE page = {}
    <3>1. pager' = [pager EXCEPT !.done = TRUE, !.start = start]
      BY <2>1, <2>4 DEF start
    <3> QED
      BY <1>1, <2>3, <3>1 DEF Pager
  <2>5. CASE page # {}
    <3>1. PICK m \in page : pager' = [pager EXCEPT !.before = m, !.seen = @ \cup page,
                                                   !.start = start, !.last = @ \cup {m}]
      BY <2>1, <2>5 DEF start
    <3>2. m \in Msgs /\ pager.seen \cup page \in SUBSET Msgs
          /\ pager.last \cup {m} \in SUBSET Msgs
      BY <2>2, <2>3
    <3> QED
      BY <1>1, <2>3, <3>1, <3>2 DEF Pager
  <2> QED
    BY <2>4, <2>5
<1> QED
  BY <1>2 DEF NextPage, db, Base, TypeOK, RowsOK, Stored, Says

LEMMA RoomBase ==
  ASSUME Base, Tick \/ DeleteRoom \/ Restart \/ (\E a \in Accounts : Leave(a))
               \/ (\E a \in Accounts, t \in 1 .. MaxTime : Join(a, t))
  PROVE  Base'
<1> USE DEF Base, TypeOK, RowsOK, Stored, Says, db
<1>1. 0 \in Times /\ 1 .. MaxTime \subseteq Times
  BY MessageAssumption DEF Times
<1>2. CASE Tick
  <2>1. clock' \in Times
    BY <1>2, MessageAssumption DEF Tick, Times
  <2> QED
    BY <1>2, <2>1 DEF Tick
<1>3. CASE DeleteRoom
  BY <1>1, <1>3 DEF DeleteRoom
<1>4. CASE Restart
  BY <1>4, IdleFacts DEF Restart
<1>5. ASSUME NEW a \in Accounts, Leave(a) PROVE Base'
  BY <1>1, <1>5 DEF Leave
<1>6. ASSUME NEW a \in Accounts, NEW t \in 1 .. MaxTime, Join(a, t) PROVE Base'
  BY <1>1, <1>6 DEF Join
<1> QED
  BY <1>2, <1>3, <1>4, <1>5, <1>6

-----------------------------------------------------------------------------
(* The kinds of steps.  Moves: a handler begins, goes on or gives up. *)

Moves(p) ==
    \/ \E a \in Accounts, t \in Texts : Send(p, a, t)
    \/ \E a \in Accounts, m \in Msgs, t \in Texts : Edit(p, a, m, t)
    \/ \E a \in Accounts, m \in Msgs : Delete(p, a, m)
    \/ \E m \in Msgs : AdminDelete(p, m)
    \/ \E a \in Accounts : Read(p, a)
    \/ SendStamp(p) \/ ReadStamp(p) \/ EditMembers(p) \/ DeleteMembers(p) \/ Fail(p)

Writes(p) == SendSave(p) \/ EditWrite(p) \/ DeleteWrite(p)
Tells(p) == SendEvent(p) \/ EditEvent(p) \/ DeleteEvent(p) \/ AdminMembers(p)
RoomStep == Tick \/ (\E a \in Accounts : Leave(a))
            \/ (\E a \in Accounts, t \in 1 .. MaxTime : Join(a, t))

LEMMA NextKinds ==
  ASSUME Next
  PROVE  \/ \E p \in Procs : Moves(p) \/ Writes(p) \/ Tells(p) \/ ReadWrite(p)
         \/ DeleteRoom \/ Restart \/ NextPage \/ RoomStep
  BY DEF Next, Moves, Writes, Tells, RoomStep

LEMMA MovesUnchanged ==
  ASSUME NEW p \in Procs, Moves(p)
  PROVE  UNCHANGED <<clock, db, told, pager>>
  BY DEF Moves, Send, Edit, Delete, AdminDelete, Read, SendStamp, ReadStamp, Stamp,
         EditMembers, DeleteMembers, CheckMember, Fail, Refuse

LEMMA NextKeepsBase ==
  ASSUME Base, [Next]_vars
  PROVE  Base'
<1>1. CASE UNCHANGED vars
  BY <1>1 DEF vars, db, Base, TypeOK, RowsOK, Stored, Says
<1>2. ASSUME NEW p \in Procs, Moves(p) PROVE Base'
  <2>1. UNCHANGED <<clock, db, told, pager>>
    BY <1>2, MovesUnchanged
  <2> QED
    BY <1>2, <2>1, BeginBase, AdvanceBase, RefuseBase DEF Moves, Fail
<1>3. ASSUME NEW p \in Procs, Writes(p) PROVE Base'
  BY <1>3, SendSaveBase, EditWriteBase, DeleteWriteBase DEF Writes
<1>4. ASSUME NEW p \in Procs, Tells(p) \/ ReadWrite(p) PROVE Base'
  BY <1>4, TellBase, ReadWriteBase DEF Tells
<1>5. CASE DeleteRoom \/ Restart \/ NextPage \/ RoomStep
  BY <1>5, RoomBase, PageBase DEF RoomStep
<1> QED
  BY <1>1, <1>2, <1>3, <1>4, <1>5, NextKinds

LEMMA BaseAlways == Spec => []Base
  BY InitBase, NextKeepsBase, PTL DEF Spec

\* Rows, positions, locals and pages always have the shapes the Go types give them.
THEOREM TypeCorrect == Spec => []TypeOK
<1>1. Base => TypeOK
  BY DEF Base
<1> QED
  BY <1>1, BaseAlways, PTL

-----------------------------------------------------------------------------
(* Read positions *)

Forward ==
    \A a \in in \cap in' :
        lastRead'[a] # lastRead[a] =>
            /\ lastRead'[a] > lastRead[a]
            /\ \E p \in Procs : At(p, "read_write") /\ req[p].actor = a

LEMMA ForwardStep ==
  ASSUME Base, [Next]_vars
  PROVE  [Forward]_vars
<1>0. Times \subseteq Nat
  BY MessageAssumption DEF Times
<1> USE DEF Forward
<1>1. CASE UNCHANGED <<in, lastRead>>
  BY <1>1
<1>2. ASSUME NEW p \in Procs, ReadWrite(p) PROVE Forward
  <2>1. req[p] \in Request /\ req[p].at \in Nat /\ At(p, "read_write")
    BY <1>2, <1>0 DEF Base, TypeOK, Request, ReadWrite
  <2>2. \A a \in Accounts : lastRead[a] \in Nat
    BY <1>0 DEF Base, TypeOK
  <2>3. \A a \in Accounts : lastRead'[a] # lastRead[a] =>
           a = req[p].actor /\ lastRead[a] < req[p].at /\ lastRead'[a] = req[p].at
    BY <1>2 DEF ReadWrite, Base, TypeOK
  <2>4. in \subseteq Accounts
    BY DEF Base, TypeOK
  <2> QED
    BY <2>1, <2>2, <2>3, <2>4
<1>3. ASSUME NEW a \in Accounts, Leave(a) PROVE Forward
  BY <1>3 DEF Leave, Base, TypeOK
<1>4. ASSUME NEW a \in Accounts, NEW t \in 1 .. MaxTime, Join(a, t) PROVE Forward
  BY <1>4 DEF Join, Base, TypeOK
<1>5. CASE DeleteRoom
  BY <1>5 DEF DeleteRoom
<1>6. CASE UNCHANGED vars \/ Tick \/ Restart \/ NextPage
  BY <1>6, <1>1 DEF vars, db, Tick, Restart, NextPage
<1>7. ASSUME NEW p \in Procs, Moves(p) \/ Writes(p) \/ Tells(p) PROVE UNCHANGED <<in, lastRead>>
  <2>1. CASE Moves(p)
    BY <2>1, MovesUnchanged DEF db
  <2>2. CASE Writes(p)
    BY <2>2 DEF Writes, SendSave, EditWrite, DeleteWrite
  <2>3. CASE Tells(p)
    BY <2>3 DEF Tells, SendEvent, EditEvent, DeleteEvent, AdminMembers, Tell, db
  <2> QED
    BY <1>7, <2>1, <2>2, <2>3
<1> QED
  BY <1>1, <1>2, <1>3, <1>4, <1>5, <1>6, <1>7, NextKinds DEF RoomStep

\* The read position of a member never goes back, and only his own request moves it:
\* the statement of MarkRead compares before it writes (TouchRead).
THEOREM ReadsGoForward == Spec => ReadPositionsForward
<1>1. Base /\ [Next]_vars => [Forward]_vars
  BY ForwardStep
<1> QED
  BY <1>1, BaseAlways, PTL DEF Spec, ReadPositionsForward, Forward

-----------------------------------------------------------------------------
(* The room implements the mailbox *)

LEMMA BoxOthers ==
  ASSUME NEW m \in Msgs, NEW n \in Msgs \ {m},
         row'[n] = row[n], n \in fresh' <=> n \in fresh
  PROVE  Box'[n] = Box[n]
  BY DEF Box, Stored

LEMMA BoxOnly ==
  ASSUME NEW m \in Msgs, \A n \in Msgs \ {m} : row'[n] = row[n] /\ (n \in fresh' <=> n \in fresh)
  PROVE  Box' = [Box EXCEPT ![m] = Box'[m]]
<1>1. \A n \in Msgs \ {m} : Box'[n] = Box[n]
  BY BoxOthers
<1>2. Box = [n \in Msgs |-> Box[n]] /\ Box' = [n \in Msgs |-> Box'[n]]
  BY DEF Box
<1> QED
  BY <1>1, <1>2

LEMMA PostStep ==
  ASSUME Base, NEW p \in Procs, SendSave(p)
  PROVE  Mail!Next
<1>1. PICK m \in fresh :
          /\ fresh' = fresh \ {m}
          /\ row' = [row EXCEPT ![m] = [sender |-> req[p].actor, text |-> req[p].text,
                                        created |-> req[p].at, deleted |-> FALSE]]
  BY DEF SendSave
<1>2. m \in Msgs /\ req[p].actor \in Accounts /\ req[p].text \in Texts /\ req[p].at \in Times
  <2>1. req[p] \in Request /\ Sound(req[p], fresh) /\ req[p].pc = "send_save"
    BY DEF SendSave, At, Base, TypeOK
  <2> QED
    BY <2>1, <1>1 DEF Request, Sound, Sending, Base, TypeOK
<1> DEFINE r == [sender |-> req[p].actor, text |-> req[p].text,
                 created |-> req[p].at, deleted |-> FALSE]
<1>3. row'[m] = r /\ m \notin fresh'
  BY <1>1, <1>2 DEF Base, TypeOK
<1>4. r # NoRow
  BY <1>2, MessageAssumption DEF NoRow
<1>5. Box'[m] = [state |-> "live", sender |-> req[p].actor, created |-> req[p].at,
                 text |-> req[p].text]
  BY <1>2, <1>3, <1>4 DEF Box, Stored
<1>6. Box[m] = Mail!Absent
  BY <1>1, <1>2 DEF Box, Mail!Absent
<1>7. Box'[m] \in Mail!Live
  BY <1>2, <1>5 DEF Mail!Live
<1>8. Box' = [Box EXCEPT ![m] = Box'[m]]
  BY <1>1, <1>2, BoxOnly DEF Base, TypeOK
<1> QED
  BY <1>2, <1>6, <1>7, <1>8 DEF Mail!Next, Mail!Post

\* What the box holds of a stored message.
LEMMA BoxStored ==
  ASSUME Base, NEW m \in Msgs, Stored(m)
  PROVE  Box[m] = [state |-> IF row[m].deleted THEN "deleted" ELSE "live",
                   sender |-> row[m].sender, created |-> row[m].created, text |-> row[m].text]
  BY DEF Base, RowsOK, Box

LEMMA EditStep ==
  ASSUME Base, NEW p \in Procs, EditWrite(p)
  PROVE  Mail!Next \/ Box' = Box
<1> DEFINE m == req[p].msg
<1>1. m \in Msgs /\ req[p].text \in Texts
  <2>1. Sound(req[p], fresh) /\ req[p].pc = "edit_write"
    BY DEF EditWrite, At, Base, TypeOK
  <2> QED
    BY <2>1 DEF Sound, Editing
<1>2. fresh' = fresh
  BY DEF EditWrite
<1>3. CASE ~ (Stored(m) /\ ~ row[m].deleted)
  <2>1. row' = row
    BY <1>3 DEF EditWrite
  <2> QED
    BY <2>1, <1>2 DEF Box, Stored
<1>4. CASE Stored(m) /\ ~ row[m].deleted
  <2>1. row' = [row EXCEPT ![m].text = req[p].text]
    BY <1>4 DEF EditWrite
  <2> HIDE DEF m
  <2>2. row[m] \in Row /\ row[m].sender \in Accounts /\ row[m].created \in Times /\ Says(m)
    BY <1>1, <1>4, StoredRow DEF Base, RowsOK
  <2>3. row'[m] = [row[m] EXCEPT !.text = req[p].text]
    BY <2>1, <1>1 DEF Base, TypeOK
  <2>4. /\ row'[m].sender = row[m].sender /\ row'[m].created = row[m].created
        /\ row'[m].text = req[p].text
    BY <2>2, <2>3 DEF Row
  <2>5. ~ row'[m].deleted
    BY <2>2, <2>3, <1>4, Zenon DEF Row
  <2>6. row'[m] # NoRow /\ m \notin fresh
    BY <2>2, <2>4, <1>1, <1>4, MessageAssumption DEF NoRow, Base, RowsOK
  <2>7. Box'[m] = [state |-> "live", sender |-> row[m].sender, created |-> row[m].created,
                   text |-> req[p].text]
    BY <1>1, <1>2, <2>4, <2>5, <2>6 DEF Box, Stored
  <2>8. Box[m] = [state |-> "live", sender |-> row[m].sender, created |-> row[m].created,
                  text |-> row[m].text]
    BY <1>1, <1>4, BoxStored
  <2>9. Box[m] \in Mail!Live /\ Box'[m] \in Mail!Live
    BY <1>1, <1>4, <2>2, <2>7, <2>8 DEF Mail!Live, Says
  <2>10. Box' = [Box EXCEPT ![m] = Box'[m]]
    BY <1>1, <1>2, <2>1, BoxOnly DEF Base, TypeOK
  <2>11. Box'[m] = [Box[m] EXCEPT !.text = Box'[m].text]
    BY <2>7, <2>8
  <2>12. Box' = [Box EXCEPT ![m].text = Box'[m].text]
    BY <2>10, <2>11
  <2> QED
    BY <1>1, <2>9, <2>12 DEF Mail!Next, Mail!Edit
<1> QED
  BY <1>3, <1>4

LEMMA DeleteStep ==
  ASSUME Base, NEW p \in Procs, DeleteWrite(p)
  PROVE  Mail!Next \/ Box' = Box
<1> DEFINE m == req[p].msg
<1>1. m \in Msgs
  <2>1. Sound(req[p], fresh) /\ req[p].pc \in {"delete_write", "admin_write"}
    BY DEF DeleteWrite, At, Base, TypeOK
  <2> QED
    BY <2>1 DEF Sound, Deleting
<1>2. fresh' = fresh /\ MarkDeleted(m)
  BY DEF DeleteWrite
<1> HIDE DEF m
<1>3. CASE ~ Stored(m)
  <2>1. row' = row
    BY <1>2, <1>3 DEF MarkDeleted
  <2> QED
    BY <2>1, <1>2 DEF Box, Stored
<1>4. CASE Stored(m)
  <2>1. row' = [row EXCEPT ![m].text = NoText, ![m].deleted = TRUE]
    BY <1>2, <1>4 DEF MarkDeleted
  <2>2. row[m] \in Row /\ row[m].sender \in Accounts /\ row[m].created \in Times /\ Says(m)
    BY <1>1, <1>4, StoredRow DEF Base, RowsOK
  <2>3. row'[m] = [row[m] EXCEPT !.text = NoText, !.deleted = TRUE]
    BY <2>1, <1>1 DEF Base, TypeOK
  <2>4. /\ row'[m].sender = row[m].sender /\ row'[m].created = row[m].created
        /\ row'[m].text = NoText
    BY <2>2, <2>3 DEF Row
  <2>5. row'[m].deleted
    BY <2>2, <2>3, Zenon DEF Row
  <2>6. row'[m] # NoRow /\ m \notin fresh
    BY <2>2, <2>4, <1>1, <1>4, MessageAssumption DEF NoRow, Base, RowsOK
  <2>7. Box'[m] = [state |-> "deleted", sender |-> row[m].sender, created |-> row[m].created,
                   text |-> NoText]
    BY <1>1, <1>2, <2>4, <2>5, <2>6 DEF Box, Stored
  <2>8. Box' = [Box EXCEPT ![m] = Box'[m]]
    BY <1>1, <1>2, <2>1, BoxOnly DEF Base, TypeOK
  <2>9. CASE row[m].deleted
    <3>1. Box[m] = Box'[m]
      BY <1>1, <1>4, <2>2, <2>7, <2>9, BoxStored DEF Says
    <3> QED
      BY <2>8, <3>1 DEF Box
  <2>10. CASE ~ row[m].deleted
    <3>1. Box[m] = [state |-> "live", sender |-> row[m].sender, created |-> row[m].created,
                    text |-> row[m].text]
      BY <1>1, <1>4, <2>10, BoxStored
    <3>2. Box[m] \in Mail!Live
      BY <3>1, <2>2, <2>10 DEF Mail!Live, Says
    <3>3. Box'[m] = [Box[m] EXCEPT !.state = "deleted", !.text = NoText]
      <4>1. [Box[m] EXCEPT !.state = "deleted"] =
              [state |-> "deleted", sender |-> row[m].sender, created |-> row[m].created,
               text |-> row[m].text]
        BY <3>1
      <4>2. [[state |-> "deleted", sender |-> row[m].sender, created |-> row[m].created,
              text |-> row[m].text] EXCEPT !.text = NoText] = Box'[m]
        BY <2>7
      <4> QED
        BY <4>1, <4>2, Zenon
    <3>4. Box' = [Box EXCEPT ![m].state = "deleted", ![m].text = NoText]
      <4>1. Box = [n \in Msgs |-> Box[n]]
        BY DEF Box
      <4> HIDE DEF Box
      <4> QED
        BY <2>8, <3>3, <4>1, <1>1
    <3> QED
      BY <1>1, <3>2, <3>4 DEF Mail!Next, Mail!Delete
  <2> QED
    BY <2>9, <2>10
<1> QED
  BY <1>3, <1>4

LEMMA RemoveStep ==
  ASSUME Base, DeleteRoom
  PROVE  Mail!Next
<1>1. \A m \in Msgs : Box[m] = Mail!Absent <=> m \in fresh
  BY BoxStored DEF Box, Mail!Absent, Stored
<1>2. \A m \in Msgs : ~ Stored(m)' /\ (m \in fresh' <=> m \in fresh)
  BY DEF DeleteRoom, Stored
<1>3. Box' = [m \in Msgs |-> IF m \in fresh THEN Mail!Absent ELSE Mail!Gone]
  BY <1>2 DEF Box, Mail!Absent, Mail!Gone
<1>4. Mail!Remove
  BY <1>1, <1>3 DEF Mail!Remove
<1> QED
  BY <1>4 DEF Mail!Next

LEMMA BoxStep ==
  ASSUME Base, [Next]_vars
  PROVE  [Mail!Next]_Box
<1>1. CASE UNCHANGED <<fresh, row>>
  BY <1>1 DEF Box, Stored
<1>2. ASSUME NEW p \in Procs, Writes(p) PROVE [Mail!Next]_Box
  BY <1>2, PostStep, EditStep, DeleteStep DEF Writes
<1>3. CASE DeleteRoom
  BY <1>3, RemoveStep
<1>4. CASE UNCHANGED vars \/ Restart \/ NextPage \/ RoomStep
  BY <1>4, <1>1 DEF vars, db, Restart, NextPage, RoomStep, Tick, Leave, Join
<1>5. ASSUME NEW p \in Procs, Moves(p) \/ Tells(p) \/ ReadWrite(p) PROVE UNCHANGED <<fresh, row>>
  <2>1. CASE Moves(p)
    BY <2>1, MovesUnchanged DEF db
  <2>2. CASE Tells(p)
    BY <2>2 DEF Tells, SendEvent, EditEvent, DeleteEvent, AdminMembers, Tell, db
  <2>3. CASE ReadWrite(p)
    BY <2>3 DEF ReadWrite
  <2> QED
    BY <1>5, <2>1, <2>2, <2>3
<1> QED
  BY <1>1, <1>2, <1>3, <1>4, <1>5, NextKinds

\* Whoever sends, edits, deletes and moderates at once, every message is posted once,
\* keeps its author and its time, is edited only until it is deleted, and what was
\* deleted stays so until the room is removed.
THEOREM ImplementsMailbox == Spec => MailboxSpec
<1>1. Init => Mail!Init
  BY DEF Init, Mail!Init, Box, Mail!Absent
<1>2. Base /\ [Next]_vars => [Mail!Next]_Box
  BY BoxStep
<1> QED
  BY <1>1, <1>2, BaseAlways, PTL DEF Spec, MailboxSpec, Mail!Spec

-----------------------------------------------------------------------------
(* What the last event said *)

\* Of a message nothing was lost about: one request at most has written it and not told
\* yet, and it tells what it wrote; once all have told, the last event is true; and who
\* is about to write it finds it as he read it.
TellsOf(p, m) == req[p].pc \in Telling /\ About(p, m)

Agree(m) ==
    told[m] # Unsure =>
        /\ \A p \in Procs : TellsOf(p, m) => Stored(m) /\ row[m].text = req[p].text
        /\ \A p, q \in Procs : TellsOf(p, m) /\ TellsOf(q, m) => p = q
        /\ Stored(m) /\ (\A p \in Procs : ~ TellsOf(p, m)) => told[m] = row[m].text
        /\ \A p \in Procs : About(p, m) /\ req[p].pc \in Editing =>
                               Stored(m) /\ ~ row[m].deleted
        /\ \A p \in Procs : About(p, m) /\ req[p].pc \in Deleting => Stored(m)

\* p goes on with q: neither the message nor what was told about it changes.
LEMMA AgreeMove ==
  ASSUME Base, NEW m \in Msgs, Agree(m), NEW p \in Procs, NEW q,
         row'[m] = row[m], told'[m] = told[m], req' = [req EXCEPT ![p] = q],
         told[m] # Unsure =>
            /\ TellsOf(p, m) => q.pc \in Telling /\ q.msg = m /\ q.text = req[p].text
            /\ q.pc \in Telling /\ q.msg = m => TellsOf(p, m)
            /\ q.pc \in Editing /\ q.msg = m => Stored(m) /\ ~ row[m].deleted
            /\ q.pc \in Deleting /\ q.msg = m => Stored(m)
  PROVE  Agree(m)'
<1>1. req'[p] = q /\ \A s \in Procs \ {p} : req'[s] = req[s]
  BY DEF Base, TypeOK
<1>2. Stored(m)' <=> Stored(m)
  BY DEF Stored
<1>3. \A s \in Procs \ {p} : (TellsOf(s, m)' <=> TellsOf(s, m)) /\ (About(s, m)' <=> About(s, m))
  BY <1>1 DEF TellsOf, About
<1>4. (TellsOf(p, m)' <=> q.pc \in Telling /\ q.msg = m) /\ (About(p, m)' <=> q.msg = m)
  BY <1>1 DEF TellsOf, About
<1> QED
  BY <1>1, <1>2, <1>3, <1>4 DEF Agree

\* p has no message, or stops working on one it has not written.
LEMMA AgreeQuit ==
  ASSUME Base, NEW m \in Msgs, Agree(m), NEW p \in Procs, row' = row, told'[m] = told[m],
         Return(p), req[p].pc \notin Telling \/ ~ About(p, m)
  PROVE  Agree(m)'
  BY AgreeMove, IdleFacts, MessageAssumption DEF Return, TellsOf, Telling, Editing, Deleting

LEMMA AgreeBegin ==
  ASSUME Base, NEW m \in Msgs, Agree(m), NEW p \in Procs, UNCHANGED <<db, told>>,
         \/ \E a \in Accounts, t \in Texts : Send(p, a, t)
         \/ \E a \in Accounts, n \in Msgs, t \in Texts : Edit(p, a, n, t)
         \/ \E a \in Accounts, n \in Msgs : Delete(p, a, n)
         \/ \E n \in Msgs : AdminDelete(p, n)
         \/ \E a \in Accounts : Read(p, a)
  PROVE  Agree(m)'
<1> USE DEF TellsOf, Telling, Editing, Deleting
<1>1. UNCHANGED <<row, told>>
  BY DEF db
<1>2. ASSUME NEW pc \in PCs \ Telling, NEW a, NEW n, NEW t, Begin(p, pc, a, n, t),
             pc \in Editing => Stored(n) /\ ~ row[n].deleted, pc \in Deleting => Stored(n)
      PROVE  Agree(m)'
  <2> DEFINE q == [Idle EXCEPT !.pc = pc, !.actor = a, !.msg = n, !.text = t]
  <2>1. q.pc = pc /\ q.msg = n
    BY DEF Idle
  <2>2. req[p].pc = "idle" /\ req' = [req EXCEPT ![p] = q]
    BY <1>2 DEF Begin, At
  <2> HIDE DEF q
  <2> QED
    BY <1>1, <1>2, <2>1, <2>2, AgreeMove
<1>3. \A pc \in {"send_stamp", "edit_members", "delete_members", "admin_write", "read_stamp"} :
         pc \in PCs \ Telling
  BY DEF PCs
<1>4. ASSUME NEW a \in Accounts, NEW t \in Texts, Send(p, a, t) PROVE Agree(m)'
  BY <1>2, <1>3, <1>4 DEF Send
<1>5. ASSUME NEW a \in Accounts, NEW n \in Msgs, NEW t \in Texts, Edit(p, a, n, t)
      PROVE  Agree(m)'
  BY <1>2, <1>3, <1>5 DEF Edit
<1>6. ASSUME NEW a \in Accounts, NEW n \in Msgs, Delete(p, a, n) PROVE Agree(m)'
  BY <1>2, <1>3, <1>6 DEF Delete
<1>7. ASSUME NEW n \in Msgs, AdminDelete(p, n) PROVE Agree(m)'
  BY <1>2, <1>3, <1>7 DEF AdminDelete
<1>8. ASSUME NEW a \in Accounts, Read(p, a) PROVE Agree(m)'
  BY <1>2, <1>3, <1>8 DEF Read
<1> QED
  BY <1>4, <1>5, <1>6, <1>7, <1>8

\* The steps between the first check and the write.
LEMMA AgreeAdvance ==
  ASSUME Base, NEW m \in Msgs, Agree(m), NEW p \in Procs, UNCHANGED <<db, told>>,
         SendStamp(p) \/ ReadStamp(p) \/ EditMembers(p) \/ DeleteMembers(p) \/ Fail(p)
  PROVE  Agree(m)'
<1> USE DEF TellsOf, Telling, Editing, Deleting
<1>1. UNCHANGED <<row, told>> /\ req[p] \in Request /\ Sound(req[p], fresh)
  BY DEF db, Base, TypeOK
<1>2. CASE SendStamp(p) \/ ReadStamp(p)
  <2>1. PICK pc \in {"send_save", "read_write"} :
           req' = [req EXCEPT ![p].pc = pc, ![p].at = clock]
    BY <1>2 DEF SendStamp, ReadStamp, Stamp
  <2>2. req[p].pc \in Sending \cup Reading
    BY <1>2 DEF SendStamp, ReadStamp, Stamp, At, Sending, Reading
  <2> DEFINE q == [req[p] EXCEPT !.pc = pc, !.at = clock]
  <2>3. q.pc = pc /\ q.msg = NoMsg /\ req' = [req EXCEPT ![p] = q]
    BY <1>1, <2>1, <2>2 DEF Request, Sound, Base, TypeOK
  <2> HIDE DEF q
  <2> QED
    BY <1>1, <2>2, <2>3, AgreeMove, MessageAssumption DEF Sending, Reading
<1>3. ASSUME NEW from, NEW to, CheckMember(p, from, to), from \notin Telling, to \notin Telling,
             from \in Editing => to \in Editing, from \in Deleting => to \in Deleting,
             to \in Editing => from \in Editing, to \in Deleting => from \in Deleting
      PROVE  Agree(m)'
  <2>1. req[p].pc = from
    BY <1>3 DEF CheckMember, At
  <2>2. CASE GoTo(p, to)
    <3> DEFINE q == [req[p] EXCEPT !.pc = to]
    <3>1. q.pc = to /\ q.msg = req[p].msg /\ req' = [req EXCEPT ![p] = q]
      BY <1>1, <2>2 DEF GoTo, Request, Base, TypeOK
    <3> HIDE DEF q
    <3> QED
      BY <1>1, <1>3, <2>1, <3>1, AgreeMove DEF Agree, About
  <2>3. CASE Return(p)
    BY <1>1, <1>3, <2>1, <2>3, AgreeQuit
  <2> QED
    BY <1>3, <2>2, <2>3 DEF CheckMember, Refuse
<1>4. CASE EditMembers(p)
  BY <1>3, <1>4 DEF EditMembers
<1>5. CASE DeleteMembers(p)
  BY <1>3, <1>5 DEF DeleteMembers
<1>6. CASE Fail(p)
  BY <1>1, <1>6, AgreeQuit DEF Fail, Refuse
<1> QED
  BY <1>2, <1>4, <1>5, <1>6

\* A write of n by p that announces it: n is only about p, or what was told is unsure.
LEMMA AgreeWrite ==
  ASSUME Base, NEW m \in Msgs, Agree(m), NEW p \in Procs, NEW n \in Msgs, NEW pc \in Telling,
         Announce(p, pc, n), req[p].pc \notin Telling, req[p].msg \in {n, NoMsg},
         m # n => row'[m] = row[m],
         m = n /\ ~ Crosses(p, n) /\ told[n] # Unsure =>
            row'[n] # NoRow /\ row'[n].text = req[p].text
  PROVE  Agree(m)'
<1> DEFINE q == [Idle EXCEPT !.pc = pc, !.msg = n, !.text = req[p].text]
<1>1. q.pc = pc /\ q.msg = n /\ q.text = req[p].text
  BY DEF Idle
<1>2. req' = [req EXCEPT ![p] = q]
  BY DEF Announce
<1> HIDE DEF q
<1>3. req'[p] = q /\ \A s \in Procs \ {p} : req'[s] = req[s]
  BY <1>2 DEF Base, TypeOK
<1>4. CASE m # n
  <2>1. told'[m] = told[m]
    BY <1>4 DEF Announce, Base, TypeOK
  <2> QED
    BY <1>1, <1>2, <1>4, <2>1, AgreeMove DEF TellsOf
<1>5. CASE m = n /\ Crosses(p, n)
  BY <1>5 DEF Announce, Agree, Base, TypeOK
<1>6. CASE m = n /\ ~ Crosses(p, n)
  <2>1. \A s \in Procs \ {p} : ~ About(s, n)'
    BY <1>3, <1>6 DEF Crosses, About
  <2>2. told' = told
    BY <1>6 DEF Announce
  <2>3. TellsOf(p, n)'
    BY <1>1, <1>3 DEF TellsOf, About
  <2>4. req'[p].pc \notin Editing \cup Deleting
    BY <1>1, <1>3 DEF Telling, Editing, Deleting
  <2>5. \A s \in Procs : TellsOf(s, n)' => s = p
    BY <2>1 DEF TellsOf
  <2>6. \A s \in Procs : About(s, n)' => s = p
    BY <2>1
  <2> QED
    BY <1>1, <1>3, <1>6, <2>2, <2>3, <2>4, <2>5, <2>6 DEF Agree, Stored
<1> QED
  BY <1>4, <1>5, <1>6

LEMMA AgreeSendSave ==
  ASSUME Base, NEW m \in Msgs, Agree(m), NEW p \in Procs, SendSave(p)
  PROVE  Agree(m)'
<1>1. PICK n \in fresh :
          /\ row' = [row EXCEPT ![n] = [sender |-> req[p].actor, text |-> req[p].text,
                                        created |-> req[p].at, deleted |-> FALSE]]
          /\ Announce(p, "send_event", n)
  BY DEF SendSave
<1>2. req[p].pc = "send_save" /\ req[p].msg = NoMsg /\ req[p].actor \in Accounts
  BY DEF SendSave, At, Base, Sound, Sending
<1>3. n \in Msgs
  BY <1>1 DEF Base, TypeOK
<1>4. row'[n].sender = req[p].actor /\ row'[n].text = req[p].text /\ (m # n => row'[m] = row[m])
  BY <1>1, <1>3 DEF Base, TypeOK
<1>5. row'[n] # NoRow
  BY <1>2, <1>4, MessageAssumption DEF NoRow
<1> QED
  BY <1>1, <1>2, <1>3, <1>4, <1>5, AgreeWrite DEF Telling

LEMMA AgreeEditWrite ==
  ASSUME Base, NEW m \in Msgs, Agree(m), NEW p \in Procs, EditWrite(p)
  PROVE  Agree(m)'
<1> DEFINE n == req[p].msg
<1>1. req[p].pc = "edit_write" /\ n \in Msgs
  BY DEF EditWrite, At, Base, Sound, Editing
<1>2. Announce(p, "edit_event", n)
  BY DEF EditWrite
<1>3. m # n => row'[m] = row[m]
  BY <1>1 DEF EditWrite, Base, TypeOK
<1>4. ASSUME m = n, told[n] # Unsure PROVE row'[n] # NoRow /\ row'[n].text = req[p].text
  <2>1. Stored(n) /\ ~ row[n].deleted
    BY <1>1, <1>4 DEF Agree, About, Editing
  <2>2. row[n] \in Row /\ row[n].sender \in Accounts
    BY <1>1, <2>1, StoredRow DEF Base
  <2>3. row'[n] = [row[n] EXCEPT !.text = req[p].text]
    BY <1>1, <2>1 DEF EditWrite, Base, TypeOK
  <2>4. row'[n].sender = row[n].sender /\ row'[n].text = req[p].text
    BY <2>2, <2>3 DEF Row
  <2> QED
    BY <2>2, <2>4, MessageAssumption DEF NoRow
<1> QED
  BY <1>1, <1>2, <1>3, <1>4, AgreeWrite DEF Telling

LEMMA AgreeDeleteWrite ==
  ASSUME Base, NEW m \in Msgs, Agree(m), NEW p \in Procs, DeleteWrite(p)
  PROVE  Agree(m)'
<1> DEFINE n == req[p].msg
<1>1. req[p].pc \in {"delete_write", "admin_write"} /\ n \in Msgs /\ req[p].text = NoText
  BY DEF DeleteWrite, At, Base, Sound, Deleting
<1>2. MarkDeleted(n) /\ \E pc \in {"delete_event", "admin_members"} : Announce(p, pc, n)
  BY DEF DeleteWrite
<1>3. m # n => row'[m] = row[m]
  BY <1>1, <1>2 DEF MarkDeleted, Base, TypeOK
<1>4. ASSUME m = n, told[n] # Unsure PROVE row'[n] # NoRow /\ row'[n].text = req[p].text
  <2>1. Stored(n)
    BY <1>1, <1>4 DEF Agree, About, Deleting
  <2>2. row[n] \in Row /\ row[n].sender \in Accounts
    BY <1>1, <2>1, StoredRow DEF Base
  <2>3. row'[n] = [row[n] EXCEPT !.text = NoText, !.deleted = TRUE]
    BY <1>1, <1>2, <2>1 DEF MarkDeleted, Base, TypeOK
  <2>4. row'[n].sender = row[n].sender /\ row'[n].text = NoText
    BY <2>2, <2>3 DEF Row
  <2> QED
    BY <1>1, <2>2, <2>4, MessageAssumption DEF NoRow
<1> QED
  BY <1>1, <1>2, <1>3, <1>4, AgreeWrite DEF Telling

LEMMA AgreeTell ==
  ASSUME Base, NEW m \in Msgs, Agree(m), NEW p \in Procs, Tells(p)
  PROVE  Agree(m)'
<1> DEFINE n == req[p].msg
<1>1. req[p].pc \in Telling /\ n \in Msgs /\ req[p] \in Request
      /\ (req[p].pc = "delete_event" => req[p].text = NoText)
  BY DEF Tells, SendEvent, EditEvent, DeleteEvent, AdminMembers, At, Telling, Base, TypeOK, Sound
<1>2. UNCHANGED row
  BY DEF Tells, SendEvent, EditEvent, DeleteEvent, AdminMembers, Tell, db
<1>3. ASSUME Return(p), m # n, told'[m] = told[m] PROVE Agree(m)'
  BY <1>2, <1>3, AgreeQuit DEF About
<1>4. ASSUME Tell(p, req[p].text) PROVE Agree(m)'
  <2>1. Return(p) /\ told' = [told EXCEPT ![n] = IF @ = Unsure THEN Unsure ELSE req[p].text]
    BY <1>4 DEF Tell
  <2>2. CASE m # n
    BY <1>3, <2>1, <2>2 DEF Base, TypeOK
  <2>3. CASE m = n /\ told[n] = Unsure
    BY <2>1, <2>3 DEF Agree, Base, TypeOK
  <2>4. CASE m = n /\ told[n] # Unsure
    <3>1. req'[p].pc = "idle" /\ req'[p].msg = NoMsg /\ \A s \in Procs \ {p} : req'[s] = req[s]
      BY <2>1, IdleFacts DEF Return, Base, TypeOK
    <3>2. row[m].text = req[p].text /\ \A s \in Procs : TellsOf(s, m) => s = p
      BY <1>1, <2>4 DEF Agree, TellsOf, About
    <3>3. told'[m] = row'[m].text
      BY <1>1, <1>2, <2>1, <2>4, <3>2 DEF Base, TypeOK
    <3>4. \A s \in Procs : ~ TellsOf(s, m)'
      BY <3>1, <3>2 DEF TellsOf, About, Telling
    <3>5. \A s \in Procs : About(s, m)' => About(s, m) /\ req'[s] = req[s]
      BY <1>1, <2>4, <3>1, MessageAssumption DEF About
    <3> QED
      BY <1>2, <2>4, <3>3, <3>4, <3>5 DEF Agree, Stored
  <2> QED
    BY <2>2, <2>3, <2>4
<1>5. CASE AdminMembers(p)
  <2>1. CASE GoTo(p, "delete_event") /\ UNCHANGED told
    <3> DEFINE q == [req[p] EXCEPT !.pc = "delete_event"]
    <3>1. q.pc = "delete_event" /\ q.msg = n /\ q.text = req[p].text
          /\ req' = [req EXCEPT ![p] = q]
      BY <1>1, <2>1 DEF GoTo, Request, Base, TypeOK
    <3> HIDE DEF q
    <3> QED
      BY <1>1, <1>2, <2>1, <3>1, AgreeMove DEF TellsOf, About, Telling, Editing, Deleting
  <2>2. CASE Return(p) /\ told' = [told EXCEPT ![n] = Unsure]
    <3>1. CASE m # n
      BY <1>3, <2>2, <3>1 DEF Base, TypeOK
    <3>2. CASE m = n
      BY <2>2, <3>2 DEF Agree, Base, TypeOK
    <3> QED
      BY <3>1, <3>2
  <2> QED
    BY <1>5, <2>1, <2>2 DEF AdminMembers
<1> QED
  BY <1>1, <1>4, <1>5 DEF Tells, SendEvent, EditEvent, DeleteEvent, At

LEMMA AgreeRoom ==
  ASSUME Base, NEW m \in Msgs, Agree(m), DeleteRoom \/ Restart
  PROVE  Agree(m)'
<1>1. CASE DeleteRoom
  <2>1. told'[m] = IF m \in fresh THEN told[m] ELSE Unsure
    BY <1>1 DEF DeleteRoom
  <2>2. req' = req /\ row'[m] = NoRow
    BY <1>1 DEF DeleteRoom
  <2>3. m \in fresh => \A p \in Procs : ~ TellsOf(p, m)
                         /\ (About(p, m) => req[p].pc \notin Editing \cup Deleting)
    BY DEF Base, Sound, TellsOf, About
  <2> QED
    BY <2>1, <2>2, <2>3 DEF Agree, Stored, TellsOf, About
<1>2. CASE Restart
  <2>1. row' = row /\ told'[m] = IF \E p \in Procs : About(p, m) THEN Unsure ELSE told[m]
    BY <1>2 DEF Restart, db
  <2>2. \A p \in Procs : ~ About(p, m)'
    BY <1>2, IdleFacts, MessageAssumption DEF Restart, About
  <2> QED
    BY <2>1, <2>2 DEF Agree, Stored, TellsOf
<1> QED
  BY <1>1, <1>2

LEMMA AgreeStep ==
  ASSUME Base, NEW m \in Msgs, Agree(m), [Next]_vars
  PROVE  Agree(m)'
<1>1. CASE UNCHANGED <<row, told, req>>
  BY <1>1 DEF Agree, Stored, TellsOf, About
<1>2. CASE UNCHANGED vars \/ NextPage \/ RoomStep
  BY <1>1, <1>2 DEF vars, db, NextPage, RoomStep, Tick, Leave, Join
<1>3. ASSUME NEW p \in Procs, Moves(p) PROVE Agree(m)'
  <2>1. UNCHANGED <<db, told>>
    BY <1>3, MovesUnchanged
  <2> QED
    BY <1>3, <2>1, AgreeBegin, AgreeAdvance DEF Moves
<1>4. ASSUME NEW p \in Procs, Writes(p) \/ Tells(p) PROVE Agree(m)'
  BY <1>4, AgreeSendSave, AgreeEditWrite, AgreeDeleteWrite, AgreeTell DEF Writes
<1>5. ASSUME NEW p \in Procs, ReadWrite(p) PROVE Agree(m)'
  BY <1>5, AgreeQuit DEF ReadWrite, At, Telling
<1>6. CASE DeleteRoom \/ Restart
  BY <1>6, AgreeRoom
<1> QED
  BY <1>2, <1>3, <1>4, <1>5, <1>6, NextKinds

\* Once nobody works on a message, the last event broadcast about it said what is stored,
\* unless requests about it overlapped or an event was lost.
THEOREM LastEventIsTrue == Spec => []LastEventTrue
<1> DEFINE IInv == Base /\ \A m \in Msgs : Agree(m)
<1>1. Init => IInv
  <2> SUFFICES ASSUME Init PROVE \A m \in Msgs : Agree(m)
    BY InitBase
  <2> QED
    BY IdleFacts DEF Init, Agree, Stored, TellsOf, About, Telling, Editing, Deleting
<1>2. IInv /\ [Next]_vars => IInv'
  BY AgreeStep, NextKeepsBase
<1>3. IInv => LastEventTrue
  BY DEF Agree, TellsOf, LastEventTrue
<1> HIDE DEF IInv
<1> QED
  BY <1>1, <1>2, <1>3, PTL DEF Spec

-----------------------------------------------------------------------------
(* Paging *)

\* What is left to show of a message goes before the pages shown, or it has the
\* second of one that ended a page.
Awaited(m) ==
    \/ \E n \in pager.last : row[n].created = row[m].created
    \/ ~ pager.done /\ pager.before # NoMsg /\ row[m].created < row[pager.before].created

PageInv ==
    /\ pager.start \cap fresh = {} /\ pager.last \cap fresh = {}
    /\ pager.before = NoMsg => pager.start = {} /\ pager.last = {}
    /\ pager.before # NoMsg => pager.before \in pager.last
    /\ (\E m \in pager.start : Stored(m)) => \A n \in pager.last : Stored(n)
    /\ \A m \in pager.start \ pager.seen : Stored(m) => Awaited(m)

\* No message is given back once it is gone, or gets another time; the pager waits.
Settled ==
    /\ fresh' \subseteq fresh /\ pager' = pager
    /\ \A n \in Msgs \ fresh : Stored(n)' => Stored(n) /\ row'[n].created = row[n].created
    /\ \/ \A n \in Msgs \ fresh : Stored(n) => Stored(n)'
       \/ \A n \in Msgs : ~ Stored(n)'

LEMMA OthersSettled ==
  ASSUME Base, [Next]_vars
  PROVE  Settled \/ NextPage
<1> USE DEF Settled
<1>1. ASSUME UNCHANGED <<fresh, row, pager>> PROVE Settled
  BY <1>1 DEF Stored
<1>2. ASSUME NEW p \in Procs, Moves(p) \/ Tells(p) \/ ReadWrite(p) PROVE Settled
  <2>1. Moves(p) => UNCHANGED <<fresh, row, pager>>
    BY MovesUnchanged DEF db
  <2>2. Tells(p) \/ ReadWrite(p) => UNCHANGED <<fresh, row, pager>>
    BY DEF Tells, SendEvent, EditEvent, DeleteEvent, AdminMembers, Tell, ReadWrite, db
  <2> QED
    BY <1>1, <1>2, <2>1, <2>2
<1>3. ASSUME NEW p \in Procs, SendSave(p) PROVE Settled
  <2>1. PICK m \in fresh :
          /\ fresh' = fresh \ {m}
          /\ row' = [row EXCEPT ![m] = [sender |-> req[p].actor, text |-> req[p].text,
                                        created |-> req[p].at, deleted |-> FALSE]]
    BY <1>3 DEF SendSave
  <2>2. \A n \in Msgs \ fresh : row'[n] = row[n]
    BY <2>1 DEF Base, TypeOK
  <2>3. fresh' \subseteq fresh /\ pager' = pager
    BY <2>1, <1>3 DEF SendSave
  <2> QED
    BY <2>2, <2>3 DEF Stored
<1>4. ASSUME NEW p \in Procs, EditWrite(p) PROVE Settled
  <2> DEFINE m == req[p].msg
  <2>1. /\ row' = IF Stored(m) /\ ~ row[m].deleted
                  THEN [row EXCEPT ![m].text = req[p].text] ELSE row
        /\ fresh' = fresh /\ pager' = pager
    BY <1>4 DEF EditWrite
  <2>2. m \in Msgs /\ req[p].text \in Texts
    BY <1>4 DEF EditWrite, At, Base, Sound, Editing
  <2> HIDE DEF m
  <2>3. CASE Stored(m) /\ ~ row[m].deleted
    <3>1. /\ row'[m].created = row[m].created /\ \A n \in Msgs \ {m} : row'[n] = row[n]
          /\ \A n \in Msgs : Stored(n)' <=> Stored(n)
      BY <2>1, <2>2, <2>3, EditRow
    <3> QED
      BY <2>1, <3>1
  <2>4. CASE ~ (Stored(m) /\ ~ row[m].deleted)
    <3>1. UNCHANGED <<fresh, row, pager>>
      BY <2>1, <2>4
    <3> QED
      BY <1>1, <3>1
  <2> QED
    BY <2>3, <2>4
<1>5. ASSUME NEW p \in Procs, DeleteWrite(p) PROVE Settled
  <2> DEFINE m == req[p].msg
  <2>1. MarkDeleted(m) /\ fresh' = fresh /\ pager' = pager
    BY <1>5 DEF DeleteWrite
  <2>2. m \in Msgs
    BY <1>5 DEF DeleteWrite, At, Base, Sound, Deleting
  <2> HIDE DEF m
  <2>3. CASE Stored(m)
    <3>1. /\ row'[m].created = row[m].created /\ \A n \in Msgs \ {m} : row'[n] = row[n]
          /\ \A n \in Msgs : Stored(n)' <=> Stored(n)
      BY <2>1, <2>2, <2>3, MarkRow
    <3> QED
      BY <2>1, <3>1
  <2>4. CASE ~ Stored(m)
    <3>1. UNCHANGED <<fresh, row, pager>>
      BY <2>1, <2>4 DEF MarkDeleted
    <3> QED
      BY <1>1, <3>1
  <2> QED
    BY <2>3, <2>4
<1>6. CASE DeleteRoom
  BY <1>6 DEF DeleteRoom, Stored
<1>7. CASE UNCHANGED vars \/ Restart \/ RoomStep
  BY <1>7, <1>1 DEF vars, db, Restart, RoomStep, Tick, Leave, Join
<1> QED
  BY <1>2, <1>3, <1>4, <1>5, <1>6, <1>7, NextKinds DEF Writes

LEMMA PagerWaits ==
  ASSUME Base, PageInv, Settled
  PROVE  PageInv'
<1>1. pager \in Pager /\ pager' = pager
  BY DEF Base, TypeOK, Settled
<1>2. pager.start \subseteq Msgs \ fresh /\ pager.last \subseteq Msgs \ fresh
  BY <1>1 DEF Pager, PageInv
<1>3. (\E m \in pager.start : Stored(m)') => \A n \in pager.last : Stored(n)'
  BY <1>2 DEF PageInv, Settled
<1>4. ASSUME NEW m \in pager.start \ pager.seen, Stored(m)' PROVE Awaited(m)'
  <2>1. Awaited(m) /\ row'[m].created = row[m].created
    BY <1>2, <1>4 DEF PageInv, Settled
  <2>2. \A n \in pager.last : row'[n].created = row[n].created
    BY <1>2, <1>3, <1>4 DEF Settled
  <2> QED
    BY <1>1, <2>1, <2>2 DEF Awaited, PageInv
<1>5. pager.start \cap fresh' = {} /\ pager.last \cap fresh' = {}
  BY <1>2 DEF Settled
<1> QED
  BY <1>1, <1>3, <1>4, <1>5 DEF PageInv

\* An empty page means that there is nothing left to show.
LEMMA EmptyPage ==
  ASSUME NEW from \in SUBSET Msgs, IsPage({}, from)
  PROVE  from = {}
<1>1. IsFiniteSet(from) /\ Cardinality(from) \in Nat
  BY MessageAssumption, FS_Subset, FS_CardinalityType
<1>2. Cardinality(from) = 0
  BY <1>1, FS_EmptySet, MessageAssumption DEF IsPage
<1> QED
  BY <1>1, <1>2, FS_EmptySet

LEMMA PageShown ==
  ASSUME Base, PageInv, NextPage
  PROVE  PageInv'
<1> DEFINE start == IF pager.before = NoMsg THEN {m \in Msgs : Stored(m)} ELSE pager.start
           from == Earlier(pager.before)
<1>1. PICK page \in SUBSET from :
        /\ IsPage(page, from)
        /\ IF page = {}
           THEN pager' = [pager EXCEPT !.done = TRUE, !.start = start]
           ELSE \E m \in page :
                  /\ \A n \in page : row[m].created <= row[n].created
                  /\ pager' = [pager EXCEPT !.before = m, !.seen = @ \cup page,
                                            !.start = start, !.last = @ \cup {m}]
  BY DEF NextPage
<1>2. UNCHANGED <<fresh, row>> /\ ~ pager.done
  BY DEF NextPage, db
<1>3. /\ pager \in Pager /\ pager.start \subseteq Msgs /\ pager.last \subseteq Msgs
      /\ pager.before \in Msgs \cup {NoMsg}
  BY DEF Base, TypeOK, Pager
<1>4. from \subseteq {m \in Msgs : Stored(m)} /\ {m \in Msgs : Stored(m)} \cap fresh = {}
  BY DEF Earlier, Base, RowsOK
<1>5. \A m \in Msgs : Stored(m) => row[m].created \in Nat
  BY StoredRow, MessageAssumption DEF Base, Times
<1>6. start \subseteq Msgs /\ start \cap fresh = {}
  BY <1>3, <1>4 DEF PageInv
\* What was not shown before this page is in from, or has the second of an earlier page's end.
<1>7. ASSUME NEW m \in start \ pager.seen, Stored(m)
      PROVE  m \in from \/ \E n \in pager.last : row[n].created = row[m].created
  <2>1. CASE pager.before = NoMsg
    BY <1>6, <1>7, <2>1 DEF Earlier
  <2>2. CASE pager.before # NoMsg
    <3>1. Awaited(m) /\ Stored(pager.before)
      BY <1>7, <2>2 DEF PageInv
    <3> QED
      BY <1>6, <1>7, <2>2, <3>1 DEF Awaited, Earlier
  <2> QED
    BY <2>1, <2>2
<1>8. (\E m \in start : Stored(m)) => \A n \in pager.last : Stored(n)
  BY DEF PageInv
<1>9. pager.last \cap fresh = {}
  BY DEF PageInv
<1> HIDE DEF start, from
<1>10. CASE page = {}
  <2>1. pager' = [pager EXCEPT !.done = TRUE, !.start = start]
    BY <1>1, <1>10
  <2>2. /\ pager'.start = start /\ pager'.last = pager.last /\ pager'.before = pager.before
        /\ pager'.seen = pager.seen
    BY <1>3, <2>1 DEF Pager
  <2>3. from = {}
    BY <1>1, <1>4, <1>10, EmptyPage
  <2>4. \A m \in start \ pager.seen : Stored(m) => Awaited(m)'
    BY <1>2, <1>7, <2>2, <2>3 DEF Awaited
  <2>5. pager.before = NoMsg => start = {}
    BY <2>3 DEF start, from, Earlier
  <2>6. \A m : Stored(m)' <=> Stored(m)
    BY <1>2 DEF Stored
  <2> QED
    BY <1>2, <1>6, <1>8, <1>9, <2>2, <2>4, <2>5, <2>6 DEF PageInv
<1>11. CASE page # {}
  <2>1. PICK b \in page :
          /\ \A n \in page : row[b].created <= row[n].created
          /\ pager' = [pager EXCEPT !.before = b, !.seen = @ \cup page,
                                    !.start = start, !.last = @ \cup {b}]
    BY <1>1, <1>11
  <2>2. /\ pager'.start = start /\ pager'.last = pager.last \cup {b} /\ pager'.before = b
        /\ pager'.seen = pager.seen \cup page /\ pager'.done = pager.done
    BY <1>3, <2>1 DEF Pager
  <2>3. b \in Msgs /\ Stored(b) /\ b \notin fresh /\ b # NoMsg
    BY <1>1, <1>4, MessageAssumption
  <2>4. ASSUME NEW m \in start \ (pager.seen \cup page), Stored(m) PROVE Awaited(m)'
    <3>1. CASE \E n \in pager.last : row[n].created = row[m].created
      BY <1>2, <2>2, <3>1 DEF Awaited
    <3>2. CASE m \in from
      <4>1. row[b].created >= row[m].created
        BY <1>1, <2>4, <3>2 DEF IsPage
      <4>2. row[b].created = row[m].created \/ row[m].created < row[b].created
        BY <1>4, <1>5, <2>3, <3>2, <4>1
      <4> QED
        BY <1>2, <2>2, <2>3, <4>2 DEF Awaited
    <3> QED
      BY <1>7, <2>4, <3>1, <3>2
  <2>5. \A m : Stored(m)' <=> Stored(m)
    BY <1>2 DEF Stored
  <2> QED
    BY <1>2, <1>6, <1>8, <1>9, <2>2, <2>3, <2>4, <2>5 DEF PageInv
<1> QED
  BY <1>10, <1>11

\* Whoever pages through the history to its end has seen every message that was there
\* when he began and still is, except in a second at which a page ended: the next page
\* is asked for by the time of the last message, and takes what is strictly older
\* (List).
THEOREM PagesMissTiesOnly == Spec => []PagesMissOnlyTies
<1> DEFINE IInv == Base /\ PageInv
<1>1. Init => IInv
  <2> SUFFICES ASSUME Init PROVE PageInv
    BY InitBase
  <2>1. /\ pager.before = NoMsg /\ pager.start = {} /\ pager.last = {}
    BY DEF Init, NoPager
  <2> QED
    BY <2>1 DEF PageInv
<1>2. IInv /\ [Next]_vars => IInv'
  BY OthersSettled, PagerWaits, PageShown, NextKeepsBase
<1>3. IInv => PagesMissOnlyTies
  BY DEF PageInv, Awaited, PagesMissOnlyTies
<1> HIDE DEF IInv
<1> QED
  BY <1>1, <1>2, <1>3, PTL DEF Spec
=============================================================================
