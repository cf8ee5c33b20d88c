------------------------------- MODULE Mailbox -------------------------------
(***************************************************************************)
(* What the store of a chat room promises of every message, whoever sends, *)
(* edits, deletes and moderates at once: it is posted once, its author and *)
(* its time never change, it may be edited until it is deleted, and what   *)
(* was deleted says nothing and stays so until the room is removed.        *)
(***************************************************************************)
EXTENDS Naturals

CONSTANTS Msgs, Accounts, Times, Texts, NoText

VARIABLE box    \* every message: absent, then live, deleted, gone

Absent == [state |-> "absent"]
Gone == [state |-> "gone"]
Live == [state : {"live"}, sender : Accounts, created : Times, text : Texts]

Init == box = [m \in Msgs |-> Absent]

Post(m) ==
    /\ box[m] = Absent
    /\ box'[m] \in Live
    /\ box' = [box EXCEPT ![m] = box'[m]]

Edit(m) ==
    /\ box[m] \in Live
    /\ box'[m] \in Live
    /\ box' = [box EXCEPT ![m].text = box'[m].text]

Delete(m) ==
    /\ box[m] \in Live
    /\ box' = [box EXCEPT ![m].state = "deleted", ![m].text = NoText]

\* The room is removed; messages on their way to it may still arrive.
Remove ==
    box' = [m \in Msgs |-> IF box[m] = Absent THEN Absent ELSE Gone]

Next ==
    \/ \E m \in Msgs : Post(m) \/ Edit(m) \/ Delete(m)
    \/ Remove

Spec == Init /\ [][Next]_box
=============================================================================
