------------------------------- MODULE MCAccess -------------------------------
(***************************************************************************)
(* Two agents of one account, under one name or two, and instances that    *)
(* start together; each plan with the changes of one kind.                 *)
(***************************************************************************)
EXTENDS Access

CONSTANTS a, b, c1, c2, n1

Quiet == [who |-> [c \in Clients |-> <<a, n1>>], agents |-> {c1}, admin |-> 0, remove |-> 0, expire |-> 0, starts |-> 0]

MCPlans == {
    [Quiet EXCEPT !.admin = 4],
    [Quiet EXCEPT !.admin = 2, !.expire = 1],
    [Quiet EXCEPT !.agents = {c1, c2}, !.admin = 2, !.remove = 1],
    [Quiet EXCEPT !.agents = {}, !.starts = 5]
}
=============================================================================
