-------------------------------- MODULE Broker --------------------------------
(***************************************************************************)
(* The signing key of the A2A token broker (application/agentregistry/     *)
(* broker.go, adapter/out/db/a2akey_repository.go): every instance loads   *)
(* the active key when it starts, or makes one when there is none, and     *)
(* signs with it until it stops.                                           *)
(***************************************************************************)
EXTENDS Naturals, FiniteSets

CONSTANTS
    Instances,
    MaxKids,      \* bound of the keys ever made
    MaxSecond     \* bound of the clock, in seconds

ASSUME BrokerAssumption == {MaxKids, MaxSecond} \subseteq Nat

VARIABLES
    a2aKeys,      \* a2a_keys: key ids and their created_at
    instance,     \* EnableBroker of an instance, the key it has and whether that was loaded
    kids,         \* keys made so far
    second,
    crossed       \* history: an instance found no key while another was making one

brokerVars == <<a2aKeys, instance, kids, second, crossed>>

NoKid == 0
Down == [step |-> "down", kid |-> NoKid, at |-> 0, seen |-> {}]

BrokerInit ==
    /\ a2aKeys = {}
    /\ instance = [i \in Instances |-> Down]
    /\ kids = 0
    /\ second = 0
    /\ crossed = FALSE

BrokerTypeOK ==
    /\ a2aKeys \subseteq [kid : Nat, at : Nat]
    /\ instance \in [Instances -> [step : {"down", "save", "up"}, kid : Nat, at : Nat,
                                   seen : SUBSET [kid : Nat, at : Nat]]]
    /\ kids \in Nat /\ second \in Nat /\ crossed \in BOOLEAN

Is(i, inst) == instance' = [instance EXCEPT ![i] = inst]

\* ORDER BY created_at DESC LIMIT 1: of several made in one second, any.
Latest == {k \in a2aKeys : \A l \in a2aKeys : l.at <= k.at}

\* GetActive finds a key, and it is kept.
LoadKey(i) ==
    /\ instance[i] = Down
    /\ \E k \in Latest : Is(i, [step |-> "up", kid |-> k.kid, at |-> k.at, seen |-> a2aKeys])
    /\ UNCHANGED <<a2aKeys, kids, second, crossed>>

\* With a fault: any error of GetActive is taken for an empty table.
GenerateKeyOnError(i) ==
    /\ instance[i] = Down /\ kids < MaxKids
    /\ kids' = kids + 1
    /\ Is(i, [step |-> "save", kid |-> kids + 1, at |-> second, seen |-> {}])
    /\ crossed' = (crossed \/ \E j \in Instances : instance[j].step = "save")
    /\ UNCHANGED <<a2aKeys, second>>

\* GetActive finds none: a key is made, ...
GenerateKey(i) ==
    /\ instance[i] = Down /\ a2aKeys = {} /\ kids < MaxKids
    /\ kids' = kids + 1
    /\ Is(i, [step |-> "save", kid |-> kids + 1, at |-> second, seen |-> {}])
    /\ crossed' = (crossed \/ \E j \in Instances : instance[j].step = "save")
    /\ UNCHANGED <<a2aKeys, second>>

\* ... saved and kept.
SaveKid(i) ==
    /\ instance[i].step = "save"
    /\ LET k == [kid |-> instance[i].kid, at |-> instance[i].at] IN
       /\ a2aKeys' = a2aKeys \cup {k}
       /\ Is(i, [instance[i] EXCEPT !.step = "up", !.seen = {k}])
    /\ UNCHANGED <<kids, second, crossed>>

\* The start fails with the database; an instance stops or crashes.
Stop(i) ==
    /\ instance[i] # Down
    /\ Is(i, Down)
    /\ UNCHANGED <<a2aKeys, kids, second, crossed>>

NextSecond ==
    /\ second < MaxSecond /\ second' = second + 1
    /\ UNCHANGED <<a2aKeys, instance, kids, crossed>>

Up == {i \in Instances : instance[i].step = "up"}
Tied == Cardinality(Latest) > 1

-----------------------------------------------------------------------------

\* A token minted on one instance is verified with the key another publishes.  They are of
\* one pair, unless two first starts crossed; and then too once both instances have
\* restarted, unless the crossed keys were made in one second (broker.go:46,
\* a2akey_repository.go:30).
SharedKeyUnlessCrossed ==
    /\ ~crossed => \A i, j \in Up : instance[i].kid = instance[j].kid
    /\ \A i, j \in Up :
        instance[i].seen = a2aKeys /\ instance[j].seen = a2aKeys /\ ~Tied
            => instance[i].kid = instance[j].kid
=============================================================================
