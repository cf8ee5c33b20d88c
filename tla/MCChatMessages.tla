---------------------------- MODULE MCChatMessages ----------------------------
(***************************************************************************)
(* ChatMessages on small instances.  Accounts, message ids, texts and      *)
(* goroutines are interchangeable.                                         *)
(***************************************************************************)
EXTENDS ChatMessages, TLC

Symmetry == Permutations(Accounts) \cup Permutations(Msgs) \cup Permutations(Texts)
            \cup Permutations(Procs)

\* While a client pages, nobody but it and senders is at work, on messages that are
\* not deleted: what edits, deletions and read marks do, no page depends on.
PagingWithSenders ==
    pager # NoPager =>
        /\ in \in {{}, Accounts}
        /\ lastRead = [x \in Accounts |-> 0]
        /\ \A x \in Procs : req[x].pc \in {"idle", "send_stamp", "send_save", "send_event"}
        /\ \A x \in Msgs : ~ row[x].deleted

\* One account at a time has a read position: every property is about one reader.
OneReader == Cardinality({x \in Accounts : lastRead[x] > 0}) <= 1
=============================================================================
