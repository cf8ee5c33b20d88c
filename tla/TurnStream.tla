----------------------------- MODULE TurnStream -----------------------------
(***************************************************************************)
(* What an agent turn promises the client that reads its events: deltas    *)
(* first, then the tool calls, then exactly one stop; or, when something   *)
(* fails, at most one error and nothing after it (AgentHandler.Chat).      *)
(***************************************************************************)
EXTENDS Sequences

VARIABLES
    read,       \* the kinds of the events of this turn
    status      \* "none", "open", "calls", "stopped" or "failed"

vars == <<read, status>>

Init == read = <<>> /\ status = "none"

\* A turn begins only when the one before it has ended.
Start ==
    /\ status \in {"none", "stopped", "failed"}
    /\ status' = "open" /\ read' = <<>>

Delta ==
    /\ status = "open" /\ UNCHANGED status
    /\ \E kind \in {"content", "thinking"} : read' = Append(read, kind)

Call ==
    /\ status \in {"open", "calls"} /\ status' = "calls"
    /\ read' = Append(read, "tool_call")

Stop ==
    /\ status \in {"open", "calls"} /\ status' = "stopped"
    /\ read' = Append(read, "stop")

\* A turn that fails before its first event is answered with an HTTP error, and a client
\* that is gone reads no event.
Fail ==
    /\ status \in {"open", "calls"} /\ status' = "failed"
    /\ UNCHANGED read \/ read' = Append(read, "error")

Next == Start \/ Delta \/ Call \/ Stop \/ Fail

Spec == Init /\ [][Next]_vars
=============================================================================
