---------------------------- MODULE Conversations ----------------------------
(***************************************************************************)
(* The projects and conversations a member's clients push                  *)
(* (application/project/service.go, adapter/out/db/project_repository.go,  *)
(* conversation_repository.go): rows in the database, bodies in the store  *)
(* the session settings choose, and the member's cap on conversations.     *)
(* All of it is scoped by owner, so one member stands for all.  Requests   *)
(* interleave statement by statement.                                      *)
(* Beside them the agent sessions, the other thing clients keep on the     *)
(* server.                                                                 *)
(***************************************************************************)
EXTENDS SessionSettings, AgentSessions

CONSTANTS
    Handlers,      \* the member's requests served at once
    ProjectNames,  \* the clients' ids of projects
    ClientIds,     \* and of conversations
    Texts,         \* messages of a conversation
    MaxIds,        \* bound of the projects and of the conversations ever inserted
    Plans          \* see PlanType

PlanType == [
    settings : SettingsChoices,      \* the settings at first,
    steady   : BOOLEAN,              \* and whether they stay,
    updates  : Nat,                  \* changes of them or of the member's own limit,
    projects : SUBSET ProjectNames,  \* projects there at first, and
    creates  : Nat,                  \* created later,
    pushes   : Nat,                  \* pushes,
    convs    : SUBSET ClientIds,     \* of these conversations
    texts    : SUBSET Texts,         \* with these messages,
    deletes  : Nat,                  \* deletions of projects and conversations
    calls    : Nat                   \* requests about agent sessions
]

ASSUME ConversationsAssumption ==
    /\ \A S \in {Handlers, ProjectNames, ClientIds} : IsFiniteSet(S)
    /\ MaxIds \in Nat /\ Plans \subseteq PlanType
    /\ \A p \in Plans : p.steady => p.updates = 0

VARIABLES
    projects,    \* projects: their ids
    convs,       \* conversations: id, project and what the client pushed
    bodies,      \* what the stores hold: under which key, which text
    memberMax,   \* member_session_limits; 0: none
    nextId,      \* uuids below it have been made
    push,        \* a handler's UpsertConversation
    mixed,       \* history: conversations whose last pushes met or broke off
    plan         \* what is left of the plan

syncVars == <<projects, convs, bodies, memberMax, nextId, push, mixed>>
vars == <<settingsVars, syncVars, sessionVars, plan>>

NoId == 0
NoConv == [id |-> NoId, project |-> NoId, text |-> "none"]
Idle == [step |-> "idle"]
NumberOf == CHOOSE n \in [ProjectNames -> 1 .. Cardinality(ProjectNames)] :
                \A p, q \in ProjectNames : n[p] = n[q] => p = q

Init ==
    /\ plan \in Plans
    /\ SettingsInit(plan.settings) /\ SessionsInit
    /\ projects = [p \in ProjectNames |-> IF p \in plan.projects THEN NumberOf[p] ELSE NoId]
    /\ convs = [x \in ClientIds |-> NoConv]
    /\ bodies = {}
    /\ memberMax = 0
    /\ nextId = Cardinality(ProjectNames) + 1
    /\ push = [h \in Handlers |-> Idle]
    /\ mixed = {}

Rows == {x \in ClientIds : convs[x] # NoConv}
ProjectIds == {projects[p] : p \in ProjectNames} \ {NoId}
Busy == {h \in Handlers : push[h] # Idle}

Goto(h, step) == push' = [push EXCEPT ![h].step = step]

\* The pushes that a change concerns are no longer alone.
Disturbed(hs) == [h \in Handlers |-> IF h \in hs THEN [push[h] EXCEPT !.alone = FALSE] ELSE push[h]]

-----------------------------------------------------------------------------
(* Projects *)

\* UpsertProject: the row keeps the id it was inserted under.
UpsertProject(p) ==
    /\ projects[p] = NoId /\ nextId <= MaxIds
    /\ projects' = [projects EXCEPT ![p] = nextId]
    /\ nextId' = nextId + 1
    /\ UNCHANGED <<convs, bodies, memberMax, push, mixed>>

\* DeleteProject: the project and its conversations, in one transaction.
DeleteProject(p) ==
    /\ projects[p] # NoId
    /\ projects' = [projects EXCEPT ![p] = NoId]
    /\ convs' = [x \in ClientIds |-> IF convs[x].project = projects[p] THEN NoConv ELSE convs[x]]
    /\ push' = Disturbed({h \in Busy : push[h].project = projects[p]})
    /\ UNCHANGED <<bodies, memberMax, nextId, mixed>>

-----------------------------------------------------------------------------
(* Conversations *)

\* The project is looked up; without it the answer is 404.
Begin(h, p, x, t) ==
    /\ push[h] = Idle /\ projects[p] # NoId
    /\ LET others == {g \in Busy : push[g].conv = x} IN
       push' = [Disturbed(others) EXCEPT
                   ![h] = [step |-> "find", project |-> projects[p], conv |-> x, text |-> t,
                           id |-> NoId, max |-> 0, alone |-> others = {}]]
    /\ UNCHANGED <<projects, convs, bodies, memberMax, nextId, mixed>>

\* With a fault: every push makes an id.
FindAnew(h) ==
    /\ push[h].step = "find" /\ nextId <= MaxIds
    /\ push' = [push EXCEPT ![h].step = "save", ![h].id = nextId]
    /\ nextId' = nextId + 1
    /\ UNCHANGED <<projects, convs, bodies, memberMax, mixed>>

\* A conversation that is there is pushed under its id, whatever the cap.
Find(h) ==
    /\ push[h].step = "find"
    /\ IF push[h].conv \in Rows
       THEN push' = [push EXCEPT ![h].step = "save", ![h].id = convs[push[h].conv].id]
       ELSE Goto(h, "cap")
    /\ UNCHANGED <<projects, convs, bodies, memberMax, nextId, mixed>>

EffectiveMaxSessions == IF memberMax > 0 THEN memberMax ELSE defaultMax

Cap(h) ==
    /\ push[h].step = "cap"
    /\ push' = [push EXCEPT ![h].step = "count", ![h].max = EffectiveMaxSessions]
    /\ UNCHANGED <<projects, convs, bodies, memberMax, nextId, mixed>>

\* With a fault: the cap itself still lets one in.
WithinOrAt(max) == max = 0 \/ Cardinality(Rows) <= max

Within(max) == max = 0 \/ Cardinality(Rows) < max

\* A new one is counted in, and given an id, or refused with 429.
Count(h) ==
    /\ push[h].step = "count"
    /\ IF Within(push[h].max)
       THEN /\ nextId <= MaxIds /\ nextId' = nextId + 1
            /\ push' = [push EXCEPT ![h].step = "save", ![h].id = nextId]
       ELSE push' = [push EXCEPT ![h] = Idle] /\ UNCHANGED nextId
    /\ UNCHANGED <<projects, convs, bodies, memberMax, mixed>>

\* The body goes to the store in use, in place of what is under its key there.
Key(h) == <<store, push[h].project, push[h].id>>
Written(h, text) == {b \in bodies : b.key # Key(h)} \cup {[key |-> Key(h), text |-> text]}

SaveContent(h) ==
    /\ push[h].step = "save"
    /\ bodies' = Written(h, push[h].text)
    /\ Goto(h, "upsert")
    /\ UNCHANGED <<projects, convs, memberMax, nextId, mixed>>

\* A file is truncated and then written: a write that breaks off leaves no whole body, the
\* old or the new.
Torn == "torn"

SaveTears(h) ==
    /\ push[h].step = "save" /\ store = "file"
    /\ bodies' = Written(h, Torn)
    /\ mixed' = mixed \cup {push[h].conv}
    /\ push' = [push EXCEPT ![h] = Idle]
    /\ UNCHANGED <<projects, convs, memberMax, nextId>>

\* The row is inserted, or updated under the id it has.
UpsertConversation(h) ==
    /\ push[h].step = "upsert"
    /\ LET x == push[h].conv IN
       /\ convs' = [convs EXCEPT ![x] =
              [id |-> IF x \in Rows THEN @.id ELSE push[h].id,
               project |-> push[h].project, text |-> push[h].text]]
       /\ mixed' = IF push[h].alone THEN mixed \ {x} ELSE mixed \cup {x}
    /\ push' = [push EXCEPT ![h] = Idle]
    /\ UNCHANGED <<projects, bodies, memberMax, nextId>>

\* The database or the store fails, or the process does.  On MySQL the database's store fails
\* on every body it holds already: an UPDATE that changes nothing is followed by an INSERT.
PushFails(h) ==
    /\ push[h] # Idle
    /\ mixed' = IF push[h].step = "upsert" THEN mixed \cup {push[h].conv} ELSE mixed
    /\ push' = [push EXCEPT ![h] = Idle]
    /\ UNCHANGED <<projects, convs, bodies, memberMax, nextId>>

\* Only the row: the body stays.
DeleteConversation(x) ==
    /\ x \in Rows
    /\ convs' = [convs EXCEPT ![x] = NoConv]
    /\ UNCHANGED <<projects, bodies, memberMax, nextId, push, mixed>>

SetMemberLimit(n) ==
    /\ memberMax' = n
    /\ UNCHANGED <<projects, convs, bodies, nextId, push, mixed>>

-----------------------------------------------------------------------------

Spend(what) == plan[what] > 0 /\ plan' = [plan EXCEPT ![what] = @ - 1]

Create ==
    /\ Spend("creates") /\ \E p \in ProjectNames : UpsertProject(p)
    /\ UNCHANGED <<settingsVars, sessionVars>>

Remove ==
    /\ Spend("deletes")
    /\ (\E p \in ProjectNames : DeleteProject(p)) \/ (\E x \in ClientIds : DeleteConversation(x))
    /\ UNCHANGED <<settingsVars, sessionVars>>

Push(h) ==
    /\ \/ Spend("pushes") /\ \E p \in ProjectNames, x \in plan.convs, t \in plan.texts : Begin(h, p, x, t)
       \/ /\ plan' = plan
          /\ Find(h) \/ Cap(h) \/ Count(h) \/ SaveContent(h) \/ SaveTears(h)
             \/ UpsertConversation(h) \/ PushFails(h)
    /\ UNCHANGED <<settingsVars, sessionVars>>

Limit ==
    /\ Spend("updates") /\ \E n \in {s.max : s \in SettingsChoices} : SetMemberLimit(n)
    /\ UNCHANGED <<settingsVars, sessionVars>>

ChangeSettings ==
    /\ \E d \in Admins :
        \/ Spend("updates") /\ \E s \in SettingsChoices : SaveSettings(d, s)
        \/ /\ plan' = plan
           /\ ReadSettings(d) \/ ReadSettingsFails(d) \/ KeepStore(d) \/ KeepMax(d)
    /\ UNCHANGED <<syncVars, sessionVars>>

\* A client puts or deletes an agent session.
Call ==
    /\ Spend("calls")
    /\ \E m \in Members, i \in SessionIds : Delete(m, i) \/ \E p \in Putters : FindOwner(p, m, i)
    /\ UNCHANGED <<settingsVars, syncVars>>

Answering ==
    /\ \E p \in Putters : Get(p) \/ Update(p) \/ Insert(p) \/ PutFails(p)
    /\ UNCHANGED <<settingsVars, syncVars, plan>>

Next ==
    \/ Create \/ Remove \/ (\E h \in Handlers : Push(h))
    \/ Limit \/ ChangeSettings
    \/ Call \/ Answering

Spec == Init /\ [][Next]_vars

-----------------------------------------------------------------------------

\* A conversation is in a project that exists, and under its key some store holds the body
\* it was last pushed with (while a push is between body and row, the next one), unless
\* pushes of it met, one broke off while a file was written or between the body and the row,
\* or its project was deleted under a push: and then only until the next push of it that
\* meets nothing (service.go:80, 127, file_store.go:30).
RowsWholeUnlessMixed ==
    \A x \in Rows \ mixed :
        /\ convs[x].project \in ProjectIds
        /\ \/ \E h \in Busy : push[h].conv = x /\ push[h].step = "upsert"
           \/ \E b \in bodies :
                /\ <<b.key[2], b.key[3]>> = <<convs[x].project, convs[x].id>>
                /\ b.text = convs[x].text

\* The documents call the cap hard: no more conversations than it says, and 429 to the next
\* ("신규 세션은 계정별 캡(하드)으로 제한한다", service.go:2; "계정별 세션 캡(하드)", API-SPEC.md:694,
\* where :645 calls the tokens' quota soft).  But they are counted before the row is inserted,
\* so two new ones that meet at the last place both get it (service.go:99).
CapHard ==
    plan.steady /\ settings.max > 0 => Cardinality(Rows) <= settings.max

\* How far what is written of the cap may be missed: by one for each request served at once,
\* less one, and by no more however long they keep coming, whatever is deleted meanwhile.
\* Requests one after the other keep it exactly (service.go:99).
CapOvershootBounded ==
    plan.steady /\ settings.max > 0 => Cardinality(Rows) < settings.max + Cardinality(Handlers)
=============================================================================
