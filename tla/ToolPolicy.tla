------------------------------ MODULE ToolPolicy ------------------------------
(***************************************************************************)
(* The tool policy of one server process (application/toolpolicy/          *)
(* manager.go, domain/toolpolicy/model.go): the stored policy and the      *)
(* members' overrides, the two copies a process answers from, the reload   *)
(* that follows every change, and the check of a turn's tools.             *)
(* Allow lists and block lists are sets of tools: their order and repeated *)
(* entries decide nothing.                                                 *)
(***************************************************************************)
EXTENDS Server, FiniteSets, TLC

CONSTANTS
    Tools,
    PolicyChoices     \* the policies an administrator may store

Policies == [enabled : SUBSET Tools, disabled : SUBSET Tools]
NoPolicy == [enabled |-> {}, disabled |-> {}]          \* also: a member without an override

ASSUME ToolPolicyAssumption == PolicyChoices \subseteq Policies

VARIABLES
    policy,       \* tool_policy_settings
    overrides,    \* member_tool_policy; no row is NoPolicy
    cur,          \* Manager.cur
    members,      \* Manager.members
    reloads,      \* an administrator's reload
    gates,        \* the global policy that a handler's EffectivePolicy has loaded
    policyStale   \* history: why the copies may differ from the database

stored == <<policy, overrides>>
copies == <<cur, members>>
policyVars == <<stored, copies, reloads, gates, policyStale>>

NoReload == [step |-> "none"]

\* NewManager loads both copies before the server listens.
PolicyInit ==
    /\ policy = NoPolicy /\ cur = policy
    /\ overrides = [m \in Members |-> NoPolicy] /\ members = overrides
    /\ reloads = [a \in Admins |-> NoReload]
    /\ gates = [h \in Handlers |-> NoPolicy]
    /\ policyStale = {}

-----------------------------------------------------------------------------
(* The effective policy *)

\* An empty allow list allows every tool, so the list of both is the other one when
\* one is empty, and their intersection when neither is.
ResolveEffective(global, member) ==
    [disabled |-> global.disabled \cup member.disabled,
     enabled  |-> CASE global.enabled = {} -> member.enabled
                    [] member.enabled = {} -> global.enabled
                    [] OTHER -> global.enabled \cap member.enabled]

Authorize(p, tool) == tool \notin p.disabled /\ (p.enabled = {} \/ tool \in p.enabled)

Allows(p, tools) == \A tool \in tools : Authorize(p, tool)

\* EffectivePolicy loads the global copy, then the members'.
LoadGlobal(h) ==
    /\ gates' = [gates EXCEPT ![h] = cur]
    /\ UNCHANGED <<stored, copies, reloads, policyStale>>

\* The answer of checkToolPolicy for a request with these tools.
ToolsAllowed(h, m, tools) == tools = {} \/ Allows(ResolveEffective(gates[h], members[m]), tools)

-----------------------------------------------------------------------------
(* Changes *)

Step(a, s) == reloads' = [reloads EXCEPT ![a] = s]

Idle == \A a \in Admins : reloads[a] = NoReload

\* Reloads that have read an older row will store it after this change.
Overtake(a) ==
    [b \in Admins |->
        IF b = a THEN [step |-> "saved", late |-> FALSE]
        ELSE IF reloads[b].step \in {"read", "listed"} THEN [reloads[b] EXCEPT !.late = TRUE]
        ELSE reloads[b]]

Save(a) ==
    /\ reloads[a].step = "none"
    /\ reloads' = Overtake(a)
    /\ policyStale' = IF Idle THEN {} ELSE policyStale
    /\ UNCHANGED <<copies, gates>>

UpdateSettings(a, p) == policy' = p /\ UNCHANGED overrides /\ Save(a)

\* With a fault: deleting an override returns without the reload.
UpdateMemberPolicyNoReload(a, m, p) ==
    /\ overrides' = [overrides EXCEPT ![m] = p]
    /\ UNCHANGED policy
    /\ IF p = NoPolicy THEN UNCHANGED <<copies, reloads, gates, policyStale>> ELSE Save(a)

\* An override without entries is deleted, any other one stored.
UpdateMemberPolicy(a, m, p) == overrides' = [overrides EXCEPT ![m] = p] /\ UNCHANGED policy /\ Save(a)

\* reload: the global policy is read, kept, and then the overrides are.
ReadPolicy(a) ==
    /\ reloads[a].step = "saved"
    /\ Step(a, [step |-> "read", late |-> reloads[a].late, got |-> policy])
    /\ UNCHANGED <<stored, copies, gates, policyStale>>

KeepPolicy(a) ==
    /\ reloads[a].step = "read"
    /\ cur' = reloads[a].got
    /\ Step(a, [step |-> "listed", late |-> reloads[a].late, got |-> overrides])
    /\ UNCHANGED <<stored, members, gates, policyStale>>

KeepMembers(a) ==
    /\ reloads[a].step = "listed"
    /\ members' = reloads[a].got
    /\ policyStale' = policyStale \cup IF reloads[a].late THEN {"crossed"} ELSE {}
    /\ Step(a, NoReload)
    /\ UNCHANGED <<stored, cur, gates>>

\* A read of the reload fails: the request does, and what was kept so far stays.
ReloadFails(a) ==
    /\ reloads[a].step \in {"saved", "read"}
    /\ cur' = IF reloads[a].step = "read" THEN reloads[a].got ELSE cur
    /\ policyStale' = policyStale \cup {"failed"}
    /\ Step(a, NoReload)
    /\ UNCHANGED <<stored, members, gates>>

-----------------------------------------------------------------------------

\* Once every change has been reloaded, the process answers from what is stored, unless
\* two reloads crossed or one failed (manager.go:38).
PolicyTrueUnlessCrossed ==
    Idle => <<cur, members>> = <<policy, overrides>> \/ policyStale # {}

\* The comment on ResolveEffective and docs/API-SPEC.md: the global policy is a floor, and
\* a member's override only ever narrows what it allows.
MembersOnlyNarrow ==
    \A m \in Members, tool \in Tools :
        Authorize(ResolveEffective(cur, members[m]), tool) => Authorize(cur, tool)
=============================================================================
