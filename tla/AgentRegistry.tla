---------------------------- MODULE AgentRegistry ----------------------------
(***************************************************************************)
(* The registry of headless agents (application/agentregistry/usecase.go,  *)
(* adapter/out/db/agentregistry_repository.go): one row per owner and      *)
(* name, with the id it was inserted under and the time since its last     *)
(* heartbeat; the agents' requests; and the sweeper.                       *)
(* A request is modelled statement by statement, from the moment the       *)
(* router has let it in.                                                   *)
(***************************************************************************)
EXTENDS Naturals, FiniteSets

CONSTANTS
    Clients,     \* agents, each of them sending one request at a time
    Owners,
    Names,
    Retention,   \* sweepOfflineRetention in ticks of the clock
    SweepDelay,  \* bound: how long the sweeper's DELETE may take to start
    MaxIds       \* bound: how many rows are ever inserted

ASSUME RegistryAssumption == {Retention, SweepDelay, MaxIds} \subseteq Nat

VARIABLES
    agents,      \* the agents table
    nextId,      \* ids below it have been inserted
    client,      \* an agent: who it is, the id it holds and its request
    missed,      \* history: the ids for which an agent was told 404
    sweep        \* RunSweeper

registryVars == <<agents, nextId, client, missed, sweep>>

Slots == Owners \X Names
NoRow == [id |-> 0, age |-> 0]
NoId == 0
MaxAge == Retention + SweepDelay + 1      \* ages beyond it make no difference
Resting == [on |-> FALSE, since |-> 0]

RegistryInit(who) ==
    /\ agents = [s \in Slots |-> NoRow]
    /\ nextId = 1
    /\ client = [c \in Clients |-> [slot |-> who[c], held |-> NoId, step |-> "idle"]]
    /\ missed = {}
    /\ sweep = Resting

RegistryTypeOK ==
    /\ agents \in [Slots -> [id : Nat, age : 0 .. MaxAge]]
    /\ nextId \in Nat \ {0}
    /\ client \in [Clients -> [slot : Slots, held : Nat,
                               step : {"idle", "in", "reload", "verify", "classify"}]]
    /\ missed \subseteq Nat
    /\ sweep \in [on : BOOLEAN, since : 0 .. SweepDelay]

Stored == {s \in Slots : agents[s] # NoRow}
Owner(c) == client[c].slot[1]

\* UPDATE and DELETE ... WHERE id=? AND owner_member_id=?
Matching(c) == {s \in Stored : agents[s].id = client[c].held /\ s[1] = Owner(c)}

At(c, step) == client[c].step = step
Goto(c, step) == client' = [client EXCEPT ![c].step = step] /\ UNCHANGED missed

\* The answer, after which the agent holds this id.
Reply(c, held) ==
    /\ client' = [client EXCEPT ![c].step = "idle", ![c].held = held]
    /\ UNCHANGED missed

Without(slots) == [s \in Slots |-> IF s \in slots THEN NoRow ELSE agents[s]]

-----------------------------------------------------------------------------
(* An agent's requests *)

Enter(c) == At(c, "idle") /\ Goto(c, "in") /\ UNCHANGED <<agents, nextId, sweep>>

\* Register: one statement inserts the row or revives the one that is there, which keeps
\* its id, ...
Upsert(c) ==
    /\ At(c, "in")
    /\ LET s == client[c].slot IN
       IF s \in Stored
       THEN agents' = [agents EXCEPT ![s].age = 0] /\ UNCHANGED nextId
       ELSE /\ nextId <= MaxIds
            /\ agents' = [agents EXCEPT ![s] = [id |-> nextId, age |-> 0]]
            /\ nextId' = nextId + 1
    /\ Goto(c, "reload")
    /\ UNCHANGED sweep

\* ... and the row is read again for the id the agent is told; it may be gone by then.
Reload(c) ==
    /\ At(c, "reload")
    /\ IF client[c].slot \in Stored
       THEN Reply(c, agents[client[c].slot].id)
       ELSE Reply(c, client[c].held)
    /\ UNCHANGED <<agents, nextId, sweep>>

\* Heartbeat.  MySQL counts the rows an UPDATE changed: in the second of the last heartbeat
\* that is none, as when no row matches.
Touch(c) ==
    /\ At(c, "in") /\ client[c].held # NoId
    /\ agents' = [s \in Slots |-> IF s \in Matching(c) THEN [agents[s] EXCEPT !.age = 0] ELSE agents[s]]
    /\ \/ Matching(c) # {} /\ Reply(c, client[c].held)
       \/ (\A s \in Matching(c) : agents[s].age = 0) /\ Goto(c, "verify")
    /\ UNCHANGED <<nextId, sweep>>

\* With a fault: no changed row is no row.
VerifyNothing(c) ==
    /\ At(c, "verify")
    /\ Goto(c, "classify")
    /\ UNCHANGED <<agents, nextId, sweep>>

\* So Touch looks whether the row is there, ...
Verify(c) ==
    /\ At(c, "verify")
    /\ IF Matching(c) # {} THEN Reply(c, client[c].held) ELSE Goto(c, "classify")
    /\ UNCHANGED <<agents, nextId, sweep>>

\* Deregister.
Delete(c) ==
    /\ At(c, "in") /\ client[c].held # NoId
    /\ agents' = Without(Matching(c))
    /\ IF Matching(c) # {} THEN Reply(c, NoId) ELSE Goto(c, "classify")
    /\ UNCHANGED <<nextId, sweep>>

\* classifyOwnerMiss: of another owner or nobody's, the answer is 404, on which the agent
\* forgets its id to register anew.
Classify(c) ==
    /\ At(c, "classify")
    /\ client' = [client EXCEPT ![c].step = "idle", ![c].held = NoId]
    /\ missed' = missed \cup {client[c].held}
    /\ UNCHANGED <<agents, nextId, sweep>>

\* The database fails, or the agent gives up before any statement.
RequestFails(c) ==
    /\ ~At(c, "idle")
    /\ Reply(c, client[c].held)
    /\ UNCHANGED <<agents, nextId, sweep>>

Request(c) ==
    Upsert(c) \/ Reload(c) \/ Touch(c) \/ Verify(c) \/ Delete(c) \/ Classify(c) \/ RequestFails(c)

\* AdminDelete, whose row is whoever's.
DeleteByID(s) ==
    /\ s \in Stored
    /\ agents' = Without({s})
    /\ UNCHANGED <<nextId, client, missed, sweep>>

-----------------------------------------------------------------------------
(* Time and the sweeper *)

Older(age) == IF age < MaxAge THEN age + 1 ELSE age

Tick ==
    /\ sweep.on => sweep.since < SweepDelay
    /\ agents' = [s \in Slots |-> IF s \in Stored THEN [agents[s] EXCEPT !.age = Older(@)] ELSE NoRow]
    /\ sweep' = IF sweep.on THEN [sweep EXCEPT !.since = @ + 1] ELSE sweep
    /\ UNCHANGED <<nextId, client, missed>>

\* The ticker fires: the cutoff is computed ...
Cut ==
    /\ ~sweep.on
    /\ sweep' = [on |-> TRUE, since |-> 0]
    /\ UNCHANGED <<agents, nextId, client, missed>>

Before == {s \in Stored : agents[s].age > Retention + sweep.since}

\* ... and rows whose last heartbeat is older are deleted,
DeleteHeartbeatBefore ==
    /\ sweep.on
    /\ agents' = Without(Before)
    /\ sweep' = Resting
    /\ UNCHANGED <<nextId, client, missed>>

\* or the failure is logged until the next turn.
SweepFails ==
    /\ sweep.on
    /\ sweep' = Resting
    /\ UNCHANGED <<agents, nextId, client, missed>>

-----------------------------------------------------------------------------

\* An agent is sent away with 404, its sign to register anew, only for an id that the
\* registry has stored and removed since: not for a second heartbeat within one second, and
\* not for an id that a crossing registration made up (agentregistry_repository.go:55, 70).
HeartbeatMissesOnlyRemoved ==
    \A id \in missed : id < nextId /\ \A s \in Stored : agents[s].id # id
=============================================================================
