--------------------------- MODULE MCConversations ---------------------------
(***************************************************************************)
(* One member's pushes on a few plans: about the cap, about bodies and     *)
(* rows, about the settings, and about agent sessions.                     *)
(***************************************************************************)
EXTENDS Conversations, TLC

CONSTANTS p1, p2, v, t1

Set(b, m) == [backend |-> b, max |-> m]
MCSettings == {Set("db", 0), Set("db", 1), Set("file", 1)}

Quiet == [settings |-> Set("db", 0), steady |-> TRUE, updates |-> 0, projects |-> {p1},
          creates |-> 0, pushes |-> 0, convs |-> {v}, texts |-> {t1}, deletes |-> 0, calls |-> 0]

Symmetry == Permutations(Handlers) \cup Permutations(Admins) \cup Permutations(ClientIds \ {v})
            \cup Permutations(Members) \cup Permutations(Putters)

MCPlans == {
    [Quiet EXCEPT !.settings = Set("db", 1), !.pushes = 4, !.convs = ClientIds, !.deletes = 1],
    [Quiet EXCEPT !.projects = {p1, p2}, !.creates = 1, !.pushes = 3, !.texts = Texts, !.deletes = 1],
    [Quiet EXCEPT !.steady = FALSE, !.pushes = 2, !.texts = Texts, !.updates = 1],
    [Quiet EXCEPT !.steady = FALSE, !.settings = Set("db", 1), !.updates = 3],
    [Quiet EXCEPT !.calls = 5]
}
=============================================================================
