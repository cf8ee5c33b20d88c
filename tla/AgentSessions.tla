---------------------------- MODULE AgentSessions ----------------------------
(***************************************************************************)
(* The agent sessions that clients keep on the server                      *)
(* (application/chatsession/usecase.go, adapter/out/db/                    *)
(* chatsession_repository.go).  Their ids are the clients' own, so two     *)
(* members may use one id; a PUT looks for the owner, reads the session    *)
(* and writes it, each by a statement of its own.                          *)
(* Of a session's title and history only who put them is kept.             *)
(***************************************************************************)

CONSTANTS
    Members,
    SessionIds,
    Putters      \* PUT requests served at once

VARIABLES
    sessions,    \* chat_sessions: the owner, and whose history it holds
    put          \* Upsert of a request

sessionVars == <<sessions, put>>

NoSession == [owner |-> "nobody", data |-> "nothing"]
NoPut == [step |-> "none"]

SessionsInit ==
    /\ sessions = [i \in SessionIds |-> NoSession]
    /\ put = [p \in Putters |-> NoPut]

Kept == {i \in SessionIds : sessions[i] # NoSession}
Owns(m, i) == i \in Kept /\ sessions[i].owner = m

At(p, step) == put[p].step = step
Answer(p) == put' = [put EXCEPT ![p] = NoPut]

-----------------------------------------------------------------------------

\* Another member's session is refused with 403.
FindOwner(p, m, i) ==
    /\ put[p] = NoPut /\ (i \in Kept => Owns(m, i))
    /\ put' = [put EXCEPT ![p] = [step |-> IF i \in Kept THEN "get" ELSE "insert", by |-> m, id |-> i]]
    /\ UNCHANGED sessions

\* Gone since, the answer is 404.
Get(p) ==
    /\ At(p, "get")
    /\ IF Owns(put[p].by, put[p].id) THEN put' = [put EXCEPT ![p].step = "update"] ELSE Answer(p)
    /\ UNCHANGED sessions

\* With a fault: the owner found before is not asked for again.
UpdateById(p) ==
    /\ At(p, "update")
    /\ sessions' = IF put[p].id \in Kept THEN [sessions EXCEPT ![put[p].id].data = put[p].by] ELSE sessions
    /\ Answer(p)

\* UPDATE ... WHERE id=? AND owner_id=?; gone since, the answer is 404, as it is on MySQL when
\* the same history is put twice in one second and no row changes.
Update(p) ==
    /\ At(p, "update")
    /\ sessions' = IF Owns(put[p].by, put[p].id)
                   THEN [sessions EXCEPT ![put[p].id].data = put[p].by] ELSE sessions
    /\ Answer(p)

\* Under an id taken since, the insert fails.
Insert(p) ==
    /\ At(p, "insert")
    /\ sessions' = IF put[p].id \in Kept THEN sessions
                   ELSE [sessions EXCEPT ![put[p].id] = [owner |-> put[p].by, data |-> put[p].by]]
    /\ Answer(p)

PutFails(p) == put[p] # NoPut /\ Answer(p) /\ UNCHANGED sessions

Delete(m, i) ==
    /\ Owns(m, i)
    /\ sessions' = [sessions EXCEPT ![i] = NoSession]
    /\ UNCHANGED put

-----------------------------------------------------------------------------

\* A session holds only what its owner has put, although its id may pass to another member
\* between a PUT's check and its write (usecase.go:57).
SessionsAreTheirOwners == \A i \in Kept : sessions[i].data = sessions[i].owner
=============================================================================
