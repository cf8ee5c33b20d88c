------------------------------ MODULE Providers ------------------------------
(***************************************************************************)
(* LLM providers: application/llmprovider/usecase.go over the table        *)
(* llm_providers, the cached active provider of every instance             *)
(* (adapter/out/llm/cache.go), and the seeding of the defaults when an     *)
(* instance starts (cmd/api/main.go).                                      *)
(*                                                                         *)
(* One step per statement or cache access; Activate is one transaction,    *)
(* and so is every single statement.  The commands come from               *)
(* administrators: their gate reads another table.  Of a configuration,    *)
(* only the stored API key is kept: an update replaces all the rest.       *)
(***************************************************************************)
EXTENDS Naturals, Sequences, FiniteSets

CONSTANTS
    Ids,        \* the UUIDs that will ever be drawn (bounds the providers created)
    Names,
    Defaults,   \* names of defaultProviders, in order
    Keys,       \* API keys
    Instances,
    Procs,      \* request goroutines that may run at once
    NoId, NoName, NoKey, NoInstance

ASSUME ProviderAssumption ==
    /\ Defaults \in Seq(Names)
    /\ \A i, j \in DOMAIN Defaults : Defaults[i] = Defaults[j] => i = j
    /\ NoId \notin Ids
    /\ NoName \notin Names
    /\ NoKey \notin Keys
    /\ NoInstance \notin Instances

VARIABLES
    fresh,      \* UUIDs not drawn yet
    row,        \* llm_providers: the row of every id, or NoRow
    cache,      \* per instance: the provider llm.Cache holds, or NoCopy
    inst,       \* per instance: down, seeding (and the locals of it) or serving
    req,        \* per goroutine: where its handler is, and the handler's locals
    late        \* history: instances whose cache was set to a provider changed since its read

db == <<fresh, row>>
vars == <<db, cache, inst, req, late>>

Row == [name : Names, active : BOOLEAN, key : Keys \cup {NoKey}]
NoRow == [name |-> NoName, active |-> FALSE, key |-> NoKey]

Copy == [id : Ids, key : Keys \cup {NoKey}]
NoCopy == [id |-> NoId, key |-> NoKey]

\* known: byName, what seeding found stored; todo: the defaults left to go through.
Seeding == [pc : {"down", "list", "active", "save", "up"}, known : SUBSET Names,
            todo : 1 .. Len(Defaults) + 1, needActive : BOOLEAN]

Down == [pc |-> "down", known |-> {}, todo |-> 1, needActive |-> FALSE]
Up == [Down EXCEPT !.pc = "up"]

PCs == {"idle", "create_activate", "update_write", "invalidate", "adapter_read", "adapter_set"}

\* key: the key the command gives; copy: the row, or the active provider, as read.
Request == [pc : PCs, at : Instances \cup {NoInstance}, id : Ids \cup {NoId},
            key : Keys \cup {NoKey}, copy : Row \cup {NoRow}]

Idle == [pc |-> "idle", at |-> NoInstance, id |-> NoId, key |-> NoKey, copy |-> NoRow]

Init ==
    /\ fresh = Ids
    /\ row = [x \in Ids |-> NoRow]
    /\ cache = [i \in Instances |-> NoCopy]
    /\ inst = [i \in Instances |-> Down]
    /\ req = [p \in Procs |-> Idle]
    /\ late = {}

-----------------------------------------------------------------------------

At(p, pc) == req[p].pc = pc
Stored(x) == row[x] # NoRow
Active == {x \in Ids : row[x].active}
Cached(i) == cache[i] # NoCopy

\* What a cache may hold: the providers that are active, as they are stored.
ActiveCopies == {[id |-> x, key |-> row[x].key] : x \in Active}

\* Instance i starts a handler in an idle goroutine.
Begin(p, i, pc, x, k, r) ==
    /\ At(p, "idle")
    /\ inst[i].pc = "up"
    /\ req' = [req EXCEPT ![p] = [pc |-> pc, at |-> i, id |-> x, key |-> k, copy |-> r]]

Return(p) == req' = [req EXCEPT ![p] = Idle]
GoTo(p, pc) == req' = [req EXCEPT ![p].pc = pc]
Refuse(p) == Return(p) /\ UNCHANGED <<db, cache, inst, late>>

\* INSERT of a new row.  Names need not differ.
Insert(x, n, on, k) ==
    /\ x \in fresh
    /\ fresh' = fresh \ {x}
    /\ row' = [row EXCEPT ![x] = [name |-> n, active |-> on, key |-> k]]

\* Activate's transaction: everything off, then this one on; rolled back if it is gone.
ActivateTx(x) ==
    /\ Stored(x)
    /\ row' = [y \in Ids |-> IF Stored(y) THEN [row[y] EXCEPT !.active = (y = x)] ELSE NoRow]
    /\ UNCHANGED fresh

-----------------------------------------------------------------------------
(* Commands *)

\* Bug: a provider that is to be active is inserted active.
CreateActive(p, i, x, n, k, on) ==
    /\ Begin(p, i, "invalidate", x, k, NoRow)
    /\ Insert(x, n, on, k)
    /\ UNCHANGED <<cache, inst, late>>

\* Create inserts the provider switched off; it is activated afterwards, if asked.
Create(p, i, x, n, k, on) ==
    /\ At(p, "idle")
    /\ inst[i].pc = "up"
    /\ IF on THEN Begin(p, i, "create_activate", x, k, NoRow) ELSE UNCHANGED req
    /\ Insert(x, n, FALSE, k)
    /\ UNCHANGED <<cache, inst, late>>

CreateActivate(p) ==
    /\ At(p, "create_activate")
    /\ \/ /\ ActivateTx(req[p].id)
          /\ GoTo(p, "invalidate")
          /\ UNCHANGED <<cache, inst, late>>
       \/ /\ ~ Stored(req[p].id)
          /\ Refuse(p)

Update(p, i, x, k) ==
    /\ Stored(x)
    /\ Begin(p, i, "update_write", x, k, row[x])
    /\ UNCHANGED <<db, cache, inst, late>>

NewKey(p) == IF req[p].key = NoKey THEN req[p].copy.key ELSE req[p].key

\* Bug: the row that was read is written back whole.
UpdateWriteRow(p) ==
    /\ At(p, "update_write")
    /\ Stored(req[p].id)
    /\ row' = [row EXCEPT ![req[p].id] = [req[p].copy EXCEPT !.key = NewKey(p)]]
    /\ GoTo(p, "invalidate")
    /\ UNCHANGED <<fresh, cache, inst, late>>

\* A command without a key writes back the key that was read.
UpdateWrite(p) ==
    /\ At(p, "update_write")
    /\ \/ /\ Stored(req[p].id)
          /\ row' = [row EXCEPT ![req[p].id].key = NewKey(p)]
          /\ GoTo(p, "invalidate")
          /\ UNCHANGED <<fresh, cache, inst, late>>
       \/ /\ ~ Stored(req[p].id)
          /\ Refuse(p)

Activate(p, i, x) ==
    /\ ActivateTx(x)
    /\ Begin(p, i, "invalidate", x, NoKey, NoRow)
    /\ UNCHANGED <<cache, inst, late>>

\* Bug: the cache still has the provider that was deleted.
DeleteOnly(p, i, x) ==
    /\ Stored(x)
    /\ At(p, "idle")
    /\ inst[i].pc = "up"
    /\ row' = [row EXCEPT ![x] = NoRow]
    /\ UNCHANGED <<fresh, cache, inst, req, late>>

Delete(p, i, x) ==
    /\ Stored(x)
    /\ row' = [row EXCEPT ![x] = NoRow]
    /\ Begin(p, i, "invalidate", x, NoKey, NoRow)
    /\ UNCHANGED <<fresh, cache, inst, late>>

\* Only the cache of the instance that served the command.
Invalidate(p) ==
    /\ At(p, "invalidate")
    /\ cache' = [cache EXCEPT ![req[p].at] = NoCopy]
    /\ late' = late \ {req[p].at}
    /\ Return(p)
    /\ UNCHANGED <<db, inst>>

-----------------------------------------------------------------------------
(* GetActiveAdapter.  A hit changes nothing. *)

AdapterGet(p, i) ==
    /\ ~ Cached(i)
    /\ Begin(p, i, "adapter_read", NoId, NoKey, NoRow)
    /\ UNCHANGED <<db, cache, inst, late>>

\* GetActive: were there several, the one updated last; here, any of them.
AdapterRead(p) ==
    /\ At(p, "adapter_read")
    /\ \/ /\ \E x \in Active :
                req' = [req EXCEPT ![p].pc = "adapter_set", ![p].id = x, ![p].copy = row[x]]
          /\ UNCHANGED <<db, cache, inst, late>>
       \/ /\ Active = {}
          /\ Refuse(p)

AdapterSet(p) ==
    /\ At(p, "adapter_set")
    /\ LET copy == [id |-> req[p].id, key |-> req[p].copy.key]
       IN  /\ cache' = [cache EXCEPT ![req[p].at] = copy]
           /\ late' = IF copy \in ActiveCopies THEN late \ {req[p].at} ELSE late \cup {req[p].at}
    /\ Return(p)
    /\ UNCHANGED <<db, inst>>

-----------------------------------------------------------------------------
(* Instances *)

\* In production an instance does not seed.
Start(i) ==
    /\ inst[i].pc = "down"
    /\ \E s \in {Up, [Down EXCEPT !.pc = "list"]} : inst' = [inst EXCEPT ![i] = s]
    /\ UNCHANGED <<db, cache, req, late>>

\* Bug: the defaults are not compared with what is stored.
SeedListBlind(i) ==
    /\ inst[i].pc = "list"
    /\ inst' = [inst EXCEPT ![i] = [Down EXCEPT !.pc = "active"]]
    /\ UNCHANGED <<db, cache, req, late>>

SeedList(i) ==
    /\ inst[i].pc = "list"
    /\ LET known == {row[x].name : x \in {y \in Ids : Stored(y)}}
           found == [Down EXCEPT !.pc = "active", !.known = known]
       IN  \E s \in {found, Up} : inst' = [inst EXCEPT ![i] = s]
    /\ UNCHANGED <<db, cache, req, late>>

\* A lookup that fails for another reason than ErrNoActiveProvider needs no active one.
SeedActive(i) ==
    /\ inst[i].pc = "active"
    /\ \E need \in {Active = {}, FALSE} :
            inst' = [inst EXCEPT ![i].pc = "save", ![i].needActive = need]
    /\ UNCHANGED <<db, cache, req, late>>

\* The defaults seeding still has to insert.
Missing(i) == {k \in inst[i].todo .. Len(Defaults) : Defaults[k] \notin inst[i].known}

\* The next of them; needActive is given up even if the insert fails.
SeedSave(i) ==
    /\ inst[i].pc = "save"
    /\ \E k \in Missing(i) :
        /\ \A j \in Missing(i) : k <= j
        /\ \/ \E x \in fresh : Insert(x, Defaults[k], inst[i].needActive, NoKey)
           \/ UNCHANGED db
        /\ inst' = [inst EXCEPT ![i].todo = k + 1, ![i].needActive = FALSE]
    /\ UNCHANGED <<cache, req, late>>

SeedDone(i) ==
    /\ inst[i].pc = "save"
    /\ Missing(i) = {}
    /\ inst' = [inst EXCEPT ![i] = Up]
    /\ UNCHANGED <<db, cache, req, late>>

\* The process dies: its goroutines and its cache are gone.
Crash(i) ==
    /\ inst[i].pc # "down"
    /\ inst' = [inst EXCEPT ![i] = Down]
    /\ cache' = [cache EXCEPT ![i] = NoCopy]
    /\ late' = late \ {i}
    /\ req' = [p \in Procs |-> IF req[p].at = i THEN Idle ELSE req[p]]
    /\ UNCHANGED db

\* A statement fails: it was not applied, and the handler returns the error.
Fail(p) == req[p].pc \in {"create_activate", "update_write", "adapter_read"} /\ Refuse(p)

Next ==
    \/ \E i \in Instances :
            Start(i) \/ SeedList(i) \/ SeedActive(i) \/ SeedSave(i) \/ SeedDone(i) \/ Crash(i)
    \/ \E p \in Procs, i \in Instances, x \in Ids :
            \/ \E n \in Names, k \in Keys \cup {NoKey}, on \in BOOLEAN : Create(p, i, x, n, k, on)
            \/ \E k \in Keys \cup {NoKey} : Update(p, i, x, k)
            \/ Activate(p, i, x)
            \/ Delete(p, i, x)
    \/ \E p \in Procs, i \in Instances : AdapterGet(p, i)
    \/ \E p \in Procs :
            \/ CreateActivate(p) \/ UpdateWrite(p) \/ Invalidate(p)
            \/ AdapterRead(p) \/ AdapterSet(p)
            \/ Fail(p)

Spec == Init /\ [][Next]_vars

-----------------------------------------------------------------------------
(* Properties *)

\* Rows, caches and locals have the shapes the Go types give them.
TypeOK ==
    /\ fresh \subseteq Ids
    /\ row \in [Ids -> Row \cup {NoRow}]
    /\ cache \in [Instances -> Copy \cup {NoCopy}]
    /\ inst \in [Instances -> Seeding]
    /\ req \in [Procs -> Request]
    /\ late \subseteq Instances

\* API-SPEC.md:136: two providers are never active at once, whatever is created,
\* activated and seeded.
AtMostOneActive == \A x, y \in Active : x = y

Changing(i) == \E p \in Procs : At(p, "invalidate") /\ req[p].at = i

\* With one instance, turns use the active provider as it is stored, except between
\* a change and its invalidate, and except for a copy set after a change its read missed.
CacheStaleOnlyIfLate ==
    \A i \in Instances : Cached(i) /\ i \notin late => cache[i] \in ActiveCopies \/ Changing(i)

\* A configuration update leaves the choice of the active provider as it finds it
\* when it writes, not as it was when it read.
UpdatesKeepActivation ==
    [][\A p \in Procs : At(p, "update_write") /\ req'[p] # req[p] => Active' = Active]_vars

\* main.go:382: seeding adds a default only if no provider has its name.
SeedsOnlyMissing ==
    [][\A i \in Instances, x \in fresh \ fresh' :
         inst[i].pc = "save" /\ inst'[i] # inst[i] =>
            \A y \in Ids : row[y].name # row'[x].name]_vars

=============================================================================
