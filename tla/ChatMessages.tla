----------------------------- MODULE ChatMessages -----------------------------
(***************************************************************************)
(* The messages of one chat room and the read positions of its members:    *)
(* SendMessage, EditMessage, DeleteMessage, AdminDeleteMessage, MarkRead,  *)
(* UnreadByRoom and History of application/messaging/service.go, over the  *)
(* tables chat_messages and chat_room_members.                             *)
(*                                                                         *)
(* One step per statement and per reading of the clock, which counts       *)
(* seconds.  How members come and go is the subject of ChatRooms: here     *)
(* they join and leave at any time.  What a message says includes its      *)
(* mentions and attachments.                                               *)
(***************************************************************************)
EXTENDS Naturals, FiniteSets

CONSTANTS
    Accounts,
    Msgs,       \* the message ids that will ever be drawn (bounds the messages sent)
    Texts,      \* what a message can say
    Procs,      \* request goroutines that may run at once
    MaxTime,    \* bound of the clock, in seconds
    PageSize,   \* limit of a History request
    NoText,     \* what a deleted message says
    Untold,     \* no event told about the message
    Unsure,     \* what was told about it raced another request, or was lost
    NoMsg, NoAccount

ASSUME MessageAssumption ==
    /\ IsFiniteSet(Msgs)
    /\ MaxTime \in Nat \ {0}
    /\ PageSize \in Nat \ {0}
    /\ NoText \notin Texts
    /\ Untold \notin Texts \cup {NoText}
    /\ Unsure \notin Texts \cup {NoText, Untold}
    /\ NoMsg \notin Msgs
    /\ NoAccount \notin Accounts

VARIABLES
    clock,      \* s.now().UTC().Unix()
    fresh,      \* message ids not drawn yet
    row,        \* chat_messages: the row of every id, or NoRow
    in,         \* chat_room_members: who is in the room,
    lastRead,   \* and, for those, the last_read_at of the row
    req,        \* per goroutine: where its handler is, and the handler's locals
    told,       \* history: what the last event broadcast about a message said
    pager       \* a client that pages through the history, newest first

db == <<fresh, row, in, lastRead>>
vars == <<clock, db, req, told, pager>>

Times == 0 .. MaxTime  \* 0 is never

Row == [sender : Accounts, text : Texts \cup {NoText}, created : Times, deleted : BOOLEAN]
NoRow == [sender |-> NoAccount, text |-> NoText, created |-> 0, deleted |-> FALSE]

PCs == {"idle", "send_stamp", "send_save", "send_event", "edit_members", "edit_write",
        "edit_event", "delete_members", "delete_write", "delete_event", "admin_write",
        "admin_members", "read_stamp", "read_write"}

\* msg: the message, once it has an id; text: what it will say; at: the time taken.
Request == [pc : PCs, actor : Accounts \cup {NoAccount}, msg : Msgs \cup {NoMsg},
            text : Texts \cup {NoText}, at : Times]

Idle == [pc |-> "idle", actor |-> NoAccount, msg |-> NoMsg, text |-> NoText, at |-> 0]

\* before: the message the next page must precede; seen: those shown; start: those
\* that were stored when the first page was asked for; last: the last of every page.
Pager == [before : Msgs \cup {NoMsg}, seen : SUBSET Msgs, start : SUBSET Msgs,
          last : SUBSET Msgs, done : BOOLEAN]

NoPager == [before |-> NoMsg, seen |-> {}, start |-> {}, last |-> {}, done |-> FALSE]

Init ==
    /\ clock = 1
    /\ fresh = Msgs
    /\ row = [m \in Msgs |-> NoRow]
    /\ in = Accounts
    /\ lastRead = [a \in Accounts |-> 0]
    /\ req = [p \in Procs |-> Idle]
    /\ told = [m \in Msgs |-> Untold]
    /\ pager = NoPager

-----------------------------------------------------------------------------

At(p, pc) == req[p].pc = pc
Stored(m) == row[m] # NoRow
About(p, m) == req[p].msg = m

\* UnreadByRoom: newer than last_read_at, by somebody else, not deleted.
Unread(a) == {m \in Msgs : /\ Stored(m) /\ ~ row[m].deleted
                           /\ row[m].sender # a /\ row[m].created > lastRead[a]}

Begin(p, pc, a, m, t) ==
    /\ At(p, "idle")
    /\ req' = [req EXCEPT ![p] = [Idle EXCEPT !.pc = pc, !.actor = a, !.msg = m, !.text = t]]

GoTo(p, pc) == req' = [req EXCEPT ![p].pc = pc]
Return(p) == req' = [req EXCEPT ![p] = Idle]
Refuse(p) == Return(p) /\ UNCHANGED <<clock, db, told, pager>>

\* s.now() after the checks: the handler goes on with the time it took.
Stamp(p, from, to) ==
    /\ At(p, from)
    /\ req' = [req EXCEPT ![p].pc = to, ![p].at = clock]
    /\ UNCHANGED <<clock, db, told, pager>>

\* A write about m while another request about m runs: their events may cross.
Crosses(p, m) == \E q \in Procs \ {p} : About(q, m)
Announce(p, pc, m) ==
    /\ req' = [req EXCEPT ![p] = [Idle EXCEPT !.pc = pc, !.msg = m, !.text = req[p].text]]
    /\ told' = IF Crosses(p, m) THEN [told EXCEPT ![m] = Unsure] ELSE told

\* The membership check of ownMessage, after the message was read.
CheckMember(p, from, to) ==
    /\ At(p, from)
    /\ \/ /\ req[p].actor \in in
          /\ GoTo(p, to)
          /\ UNCHANGED <<clock, db, told, pager>>
       \/ /\ req[p].actor \notin in
          /\ Refuse(p)

\* An event about the request's message; broadcasting cannot fail.
Tell(p, t) ==
    /\ told' = [told EXCEPT ![req[p].msg] = IF @ = Unsure THEN Unsure ELSE t]
    /\ Return(p)
    /\ UNCHANGED <<clock, db, pager>>

-----------------------------------------------------------------------------
(* SendMessage *)

Send(p, a, t) ==
    /\ a \in in
    /\ Begin(p, "send_stamp", a, NoMsg, t)
    /\ UNCHANGED <<clock, db, told, pager>>

SendStamp(p) == Stamp(p, "send_stamp", "send_save")

\* Save: nothing ties the insert to the membership read before it.
SendSave(p) ==
    /\ At(p, "send_save")
    /\ \E m \in fresh :
        /\ fresh' = fresh \ {m}
        /\ row' = [row EXCEPT ![m] = [sender |-> req[p].actor, text |-> req[p].text,
                                      created |-> req[p].at, deleted |-> FALSE]]
        /\ Announce(p, "send_event", m)
    /\ UNCHANGED <<clock, in, lastRead, pager>>

SendEvent(p) == At(p, "send_event") /\ Tell(p, req[p].text)

-----------------------------------------------------------------------------
(* EditMessage *)

\* GetMessage, and what of the checks on it cannot change the outcome any more.
Edit(p, a, m, t) ==
    /\ Stored(m)
    /\ row[m].sender = a
    /\ ~ row[m].deleted
    /\ Begin(p, "edit_members", a, m, t)
    /\ UNCHANGED <<clock, db, told, pager>>

EditMembers(p) == CheckMember(p, "edit_members", "edit_write")

\* Bug: the statement does not look at deleted_at.
EditWriteDeleted(p) ==
    /\ At(p, "edit_write")
    /\ LET m == req[p].msg
       IN  /\ row' = IF Stored(m) THEN [row EXCEPT ![m].text = req[p].text] ELSE row
           /\ Announce(p, "edit_event", m)
    /\ UNCHANGED <<clock, fresh, in, lastRead, pager>>

\* Except of a deleted message; how many rows it changed is not asked.
EditWrite(p) ==
    /\ At(p, "edit_write")
    /\ LET m == req[p].msg
       IN  /\ row' = IF Stored(m) /\ ~ row[m].deleted
                     THEN [row EXCEPT ![m].text = req[p].text] ELSE row
           /\ Announce(p, "edit_event", m)
    /\ UNCHANGED <<clock, fresh, in, lastRead, pager>>

\* Bug: the event has the message as it was before the edit.
EditEventOld(p) == At(p, "edit_event") /\ Tell(p, told[req[p].msg])

EditEvent(p) == At(p, "edit_event") /\ Tell(p, req[p].text)

-----------------------------------------------------------------------------
(* DeleteMessage and AdminDeleteMessage.  A message read as deleted is left alone. *)

Delete(p, a, m) ==
    /\ Stored(m)
    /\ row[m].sender = a
    /\ ~ row[m].deleted
    /\ Begin(p, "delete_members", a, m, NoText)
    /\ UNCHANGED <<clock, db, told, pager>>

DeleteMembers(p) == CheckMember(p, "delete_members", "delete_write")

AdminDelete(p, m) ==
    /\ Stored(m)
    /\ ~ row[m].deleted
    /\ Begin(p, "admin_write", NoAccount, m, NoText)
    /\ UNCHANGED <<clock, db, told, pager>>

\* Bug: a row is made for a message that is gone.
MarkDeletedGone(m) == row' = [row EXCEPT ![m].text = NoText, ![m].deleted = TRUE]

\* Whatever became of the message since it was read.
MarkDeleted(m) ==
    row' = IF Stored(m) THEN [row EXCEPT ![m].text = NoText, ![m].deleted = TRUE] ELSE row

DeleteWrite(p) ==
    /\ \/ At(p, "delete_write") /\ Announce(p, "delete_event", req[p].msg)
       \/ At(p, "admin_write") /\ Announce(p, "admin_members", req[p].msg)
    /\ MarkDeleted(req[p].msg)
    /\ UNCHANGED <<clock, fresh, in, lastRead, pager>>

\* Members, read after the write: if that fails nobody is told.
AdminMembers(p) ==
    /\ At(p, "admin_members")
    /\ \/ /\ GoTo(p, "delete_event")
          /\ UNCHANGED <<clock, db, told, pager>>
       \/ /\ told' = [told EXCEPT ![req[p].msg] = Unsure]
          /\ Return(p)
          /\ UNCHANGED <<clock, db, pager>>

DeleteEvent(p) == At(p, "delete_event") /\ Tell(p, NoText)

-----------------------------------------------------------------------------
(* MarkRead.  Its event is sent whether or not the position moved. *)

Read(p, a) ==
    /\ a \in in
    /\ Begin(p, "read_stamp", a, NoMsg, NoText)
    /\ UNCHANGED <<clock, db, told, pager>>

ReadStamp(p) == Stamp(p, "read_stamp", "read_write")

\* Bug: the position is set to the time taken, wherever it was.
ReadWriteAny(p) ==
    /\ At(p, "read_write")
    /\ lastRead' = IF req[p].actor \in in THEN [lastRead EXCEPT ![req[p].actor] = req[p].at]
                                          ELSE lastRead
    /\ Return(p)
    /\ UNCHANGED <<clock, fresh, row, in, told, pager>>

ReadWrite(p) ==
    /\ At(p, "read_write")
    /\ LET a == req[p].actor
       IN  lastRead' = IF a \in in /\ lastRead[a] < req[p].at
                       THEN [lastRead EXCEPT ![a] = req[p].at] ELSE lastRead
    /\ Return(p)
    /\ UNCHANGED <<clock, fresh, row, in, told, pager>>

-----------------------------------------------------------------------------
(* History, page by page *)

\* The messages a page may show: those before the last one shown, if it still exists.
Earlier(b) == IF b = NoMsg THEN {m \in Msgs : Stored(m)}
              ELSE {m \in Msgs : Stored(m) /\ Stored(b) /\ row[m].created < row[b].created}

\* Bug: the oldest of them.
IsPageOldest(page, from) ==
    /\ page \subseteq from
    /\ \A m \in page, n \in from \ page : row[m].created <= row[n].created
    /\ Cardinality(page) = IF Cardinality(from) < PageSize THEN Cardinality(from) ELSE PageSize

\* A page: the latest of them, PageSize at most, in any order within a second.
IsPage(page, from) ==
    /\ page \subseteq from
    /\ \A m \in page, n \in from \ page : row[m].created >= row[n].created
    /\ Cardinality(page) = IF Cardinality(from) < PageSize THEN Cardinality(from) ELSE PageSize

\* The client asks for the page before the last message of the one before.
NextPage ==
    /\ ~ pager.done
    /\ \E page \in SUBSET Earlier(pager.before) :
        /\ IsPage(page, Earlier(pager.before))
        /\ LET start == IF pager.before = NoMsg THEN {m \in Msgs : Stored(m)} ELSE pager.start
           IN  IF page = {}
               THEN pager' = [pager EXCEPT !.done = TRUE, !.start = start]
               ELSE \E m \in page :
                      /\ \A n \in page : row[m].created <= row[n].created
                      /\ pager' = [pager EXCEPT !.before = m, !.seen = @ \cup page,
                                                !.start = start, !.last = @ \cup {m}]
    /\ UNCHANGED <<clock, db, req, told>>

-----------------------------------------------------------------------------
(* The rest of the world *)

Tick ==
    /\ clock < MaxTime
    /\ clock' = clock + 1
    /\ UNCHANGED <<db, req, told, pager>>

\* AddMembers: last_read_at is the time it took, at some time before the insert.
Join(a, t) ==
    /\ a \notin in
    /\ t <= clock
    /\ in' = in \cup {a}
    /\ lastRead' = [lastRead EXCEPT ![a] = t]
    /\ UNCHANGED <<clock, fresh, row, req, told, pager>>

Leave(a) ==
    /\ a \in in
    /\ in' = in \ {a}
    /\ lastRead' = [lastRead EXCEPT ![a] = 0]
    /\ UNCHANGED <<clock, fresh, row, req, told, pager>>

\* AdminDeleteRoom: messages and members.
DeleteRoom ==
    /\ row' = [m \in Msgs |-> NoRow]
    /\ in' = {}
    /\ lastRead' = [a \in Accounts |-> 0]
    /\ told' = [m \in Msgs |-> IF m \in fresh THEN told[m] ELSE Unsure]
    /\ UNCHANGED <<clock, fresh, req, pager>>

\* A statement fails: it was not applied, and the handler returns the error.
Fail(p) == /\ req[p].pc \in {"send_save", "edit_members", "edit_write", "delete_members",
                             "delete_write", "admin_write", "read_write"}
           /\ Refuse(p)

\* The process dies: what it wrote and did not tell, nobody is told.
Restart ==
    /\ req' = [p \in Procs |-> Idle]
    /\ told' = [m \in Msgs |-> IF \E p \in Procs : About(p, m) THEN Unsure ELSE told[m]]
    /\ UNCHANGED <<clock, db, pager>>

Next ==
    \/ Tick \/ DeleteRoom \/ Restart \/ NextPage
    \/ \E a \in Accounts : Leave(a) \/ \E t \in 1 .. MaxTime : Join(a, t)
    \/ \E p \in Procs, a \in Accounts :
            \/ \E t \in Texts : Send(p, a, t) \/ \E m \in Msgs : Edit(p, a, m, t)
            \/ \E m \in Msgs : Delete(p, a, m)
            \/ Read(p, a)
    \/ \E p \in Procs, m \in Msgs : AdminDelete(p, m)
    \/ \E p \in Procs :
            \/ SendStamp(p) \/ SendSave(p) \/ SendEvent(p)
            \/ EditMembers(p) \/ EditWrite(p) \/ EditEvent(p)
            \/ DeleteMembers(p) \/ DeleteWrite(p) \/ AdminMembers(p) \/ DeleteEvent(p)
            \/ ReadStamp(p) \/ ReadWrite(p)
            \/ Fail(p)

Spec == Init /\ [][Next]_vars

-----------------------------------------------------------------------------
(* Properties *)

\* Rows, positions and locals have the shapes the Go types give them.
TypeOK ==
    /\ clock \in Times
    /\ fresh \subseteq Msgs
    /\ row \in [Msgs -> Row \cup {NoRow}]
    /\ in \subseteq Accounts
    /\ lastRead \in [Accounts -> Times]
    /\ req \in [Procs -> Request]
    /\ told \in [Msgs -> Texts \cup {NoText, Untold, Unsure}]
    /\ pager \in Pager

\* Once nobody works on a message, the last event about it said what is stored,
\* unless the requests about it overlapped or an event was lost on the way.
LastEventTrue ==
    \A m \in Msgs : Stored(m) /\ (\A p \in Procs : ~ About(p, m))
                       => told[m] \in {row[m].text, Unsure}

\* API-SPEC.md:709: the read position of a member never goes back, and only his own
\* request moves it.
ReadPositionsForward ==
    [][\A a \in in \cap in' :
        lastRead'[a] # lastRead[a] =>
            /\ lastRead'[a] > lastRead[a]
            /\ \E p \in Procs : At(p, "read_write") /\ req[p].actor = a]_vars

\* Whoever pages through the history to its end has seen every message that was there
\* when he began and still is, or its second had one at the end of a page.
PagesMissOnlyTies ==
    pager.done => \A m \in pager.start \ pager.seen :
        Stored(m) => \E n \in pager.last : row[n].created = row[m].created

\* The room implements the abstract mailbox.
Box == [m \in Msgs |->
         CASE m \in fresh -> [state |-> "absent"]
           [] m \notin fresh /\ ~ Stored(m) -> [state |-> "gone"]
           [] OTHER -> [state |-> IF row[m].deleted THEN "deleted" ELSE "live",
                        sender |-> row[m].sender, created |-> row[m].created,
                        text |-> row[m].text]]

Mail == INSTANCE Mailbox WITH box <- Box

\* Every message goes through the mailbox's stages, and through them only: no edit
\* prepared before a deletion undoes it.
MailboxSpec == Mail!Spec

=============================================================================
