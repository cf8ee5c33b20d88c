------------------------------- MODULE MCTurns -------------------------------
(***************************************************************************)
(* Turns on a few plans, each with the changes of one kind.                *)
(***************************************************************************)
EXTENDS Turns

CONSTANTS x, y

Lim(d, w, m) == ("day" :> d) @@ ("week" :> w) @@ ("month" :> m)
Changes == [c \in {"limits", "policy", "settings", "purge", "stop", "leave"} |-> 0]
Quiet == [turns |-> 3, tools |-> {{}}, ticks |-> 0, recorded |-> FALSE,
          limits |-> {Lim(0, 0, 0)}, steady |-> TRUE, changes |-> Changes]

MCPlans == {
    [Quiet EXCEPT !.turns = 4, !.limits = {Lim(2, 0, 3)}, !.ticks = 2],
    [Quiet EXCEPT !.turns = 2, !.limits = {Lim(1, 0, 0)}, !.steady = FALSE, !.ticks = 1, !.changes["limits"] = 2],
    [Quiet EXCEPT !.turns = 1, !.tools = {{}, {x}}, !.changes["policy"] = 2],
    [Quiet EXCEPT !.turns = 1, !.recorded = TRUE, !.changes["settings"] = 2],
    [Quiet EXCEPT !.turns = 1, !.ticks = 2, !.recorded = TRUE, !.changes["settings"] = 1, !.changes["purge"] = 1],
    [Quiet EXCEPT !.turns = 2, !.recorded = TRUE, !.changes = [@ EXCEPT !["stop"] = 1, !["leave"] = 1]]
}

TwoListPlans == {[Quiet EXCEPT !.turns = 1, !.tools = {{x}}, !.changes["policy"] = 2]}

MCLimitChoices == {Lim(0, 0, 0), Lim(2, 0, 3)}
MCPolicyChoices == {NoPolicy, [enabled |-> {y}, disabled |-> {}], [enabled |-> {}, disabled |-> {x}]}
TwoListChoices == {[enabled |-> {t}, disabled |-> {}] : t \in Tools}
MCSettingsChoices == {
    [enabled |-> TRUE, backend |-> "file", retention |-> 0],
    [enabled |-> TRUE, backend |-> "db", retention |-> 1],
    [enabled |-> FALSE, backend |-> "db", retention |-> 1]}
=============================================================================
