-------------------------------- MODULE Access --------------------------------
(***************************************************************************)
(* What a headless agent meets: the service account it signs in with, the  *)
(* registry it keeps itself in, and the key its calls are signed with.     *)
(*                                                                         *)
(* How often administrators act, keys run out and instances start is       *)
(* bounded by a plan drawn at the start; the agents' requests and the      *)
(* clock go on for ever.                                                   *)
(***************************************************************************)
EXTENDS ServiceAccounts, AgentRegistry, Broker

CONSTANTS
    Plans     \* see PlanType

PlanType == [
    who    : [Clients -> Slots],     \* the agents' accounts and names,
    agents : SUBSET Clients,         \* and which of them run
    admin  : Nat,                    \* requests of administrators about accounts,
    remove : Nat,                    \* and about agents,
    expire : Nat,                    \* keys that run out
    starts : Nat                     \* starts of instances
]

ASSUME AccessAssumption == Plans \subseteq PlanType /\ Owners = Accounts

VARIABLE plan     \* what is left of the plan

vars == <<accountVars, registryVars, brokerVars, plan>>

Init ==
    /\ plan \in Plans
    /\ AccountsInit /\ RegistryInit(plan.who) /\ BrokerInit

Spend(what) == plan[what] > 0 /\ plan' = [plan EXCEPT ![what] = @ - 1]

-----------------------------------------------------------------------------

\* An administrator creates, revokes, issues.
Ask ==
    /\ Spend("admin")
    /\ \/ \E a \in Accounts : CreateAccount(a)
       \/ \E d \in Admins, a \in Accounts : RevokeAccount(d, a) \/ FindAccount(d, a)
       \/ \E k \in Keys : RevokeKey(k)
    /\ UNCHANGED <<registryVars, brokerVars>>

EndAsk ==
    /\ \E d \in Admins :
        \/ RevokeKeysByAccount(d) \/ JobFails(d)
        \/ \E e \in {"never", "later"} : SaveKey(d, e)
    /\ UNCHANGED <<registryVars, brokerVars, plan>>

RunOut ==
    /\ Spend("expire") /\ \E k \in Keys : Expire(k)
    /\ UNCHANGED <<registryVars, brokerVars>>

\* An administrator removes an agent.
RemoveAgent ==
    /\ Spend("remove") /\ \E s \in Slots : DeleteByID(s)
    /\ UNCHANGED <<accountVars, brokerVars>>

\* Secured lets a request in; what it does to the registry comes after that.
Call(c) ==
    /\ c \in plan.agents /\ Authenticate(Owner(c))
    /\ Enter(c)
    /\ UNCHANGED <<accountVars, brokerVars, plan>>

Serve(c) == Request(c) /\ UNCHANGED <<accountVars, brokerVars, plan>>

Clock == Tick /\ UNCHANGED <<accountVars, brokerVars, plan>>
StartSweep == Cut /\ UNCHANGED <<accountVars, brokerVars, plan>>
Sweep == DeleteHeartbeatBefore /\ UNCHANGED <<accountVars, brokerVars, plan>>
MissSweep == SweepFails /\ UNCHANGED <<accountVars, brokerVars, plan>>

\* EnableBroker.
Start(i) ==
    /\ Spend("starts") /\ (LoadKey(i) \/ GenerateKey(i))
    /\ UNCHANGED <<accountVars, registryVars>>

Run(i) ==
    /\ SaveKid(i) \/ Stop(i)
    /\ UNCHANGED <<accountVars, registryVars, plan>>

Wait ==
    /\ plan.starts > 0 /\ NextSecond
    /\ UNCHANGED <<accountVars, registryVars, plan>>

Next ==
    \/ Ask \/ EndAsk \/ RunOut \/ RemoveAgent
    \/ \E c \in Clients : Call(c) \/ Serve(c)
    \/ Clock \/ StartSweep \/ Sweep \/ MissSweep
    \/ \E i \in Instances : Start(i) \/ Run(i)
    \/ Wait

\* A request that was let in ends, time passes, the ticker fires, and of the sweeper's
\* DELETEs not all fail.
Fairness ==
    /\ \A c \in Clients : WF_vars(Serve(c))
    /\ WF_vars(Clock) /\ WF_vars(StartSweep) /\ WF_vars(Sweep \/ MissSweep) /\ SF_vars(Sweep)

Spec == Init /\ [][Next]_vars /\ Fairness

-----------------------------------------------------------------------------

TypeOK == AccountsTypeOK /\ RegistryTypeOK /\ BrokerTypeOK

\* Once an account is revoked its agents disappear from the registry for good, although its
\* keys may not be revoked with it: revoking them may fail, and a key whose issue began
\* before is saved after (serviceaccount/usecase.go:132, 162).
RevokedFallSilent ==
    \A a \in Accounts :
        account[a] = "revoked" ~> [](\A s \in Stored : s[1] # a)
=============================================================================
