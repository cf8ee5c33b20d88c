----------------------------- MODULE MCChatRooms -----------------------------
(***************************************************************************)
(* ChatRooms on a small instance.  Accounts and goroutines are             *)
(* interchangeable, and so are room ids, which are numbers here so that    *)
(* they can be drawn in order.                                             *)
(***************************************************************************)
EXTENDS ChatRooms, TLC

Symmetry == Permutations(Members) \cup Permutations(Procs)

InOrder == \A r \in fresh : \A s \in RoomIds : s < r => s \in fresh

\* Two accounts open their 1:1 chat, and nothing else is going on.
OnePairOpens ==
    /\ posted = {} /\ cache = [r \in RoomIds |-> NoEntry]
    /\ \E pair \in SUBSET Members :
        /\ \A r \in RoomIds : room[r] # NoRow => room[r].kind = "direct" /\ room[r].key = pair
        /\ \A p \in Procs : ~ At(p, "idle") => req[p].targets = pair /\ req[p].pc \in
                                {"direct_insert", "direct_refind", "direct_done"}

\* The other rooms are gone, and who opens a chat opens that of the room's pair.
OneRoomUsed ==
    /\ fresh \subseteq {1} /\ \A r \in RoomIds \ {1} : room[r] = NoRow /\ cache[r] = NoEntry
    /\ \A p \in Procs : \/ req[p].room = 1
                        \/ req[p].room = NoRoomId /\ req[p].targets \subseteq room[1].key

\* No step reads the messages, so what comes after one that was sent is what comes after
\* one that was not.
NoneLeft == posted = {} \/ \E p \in Procs : At(p, "send_tell")

\* A pair's room may be opened, deleted and opened again under the next id; to the room of
\* the last id requests do whatever they can.
Focus == InOrder /\ NoneLeft /\ (OneRoomUsed \/ OnePairOpens)
=============================================================================
