----------------------------- MODULE LLMProofs ------------------------------
(***************************************************************************)
(* The providers and their streams, for any number of providers, requests, *)
(* calls and pieces.  Providers: nothing is served while an instance seeds,*)
(* so that what seeding read still holds when it inserts; what concerns the*)
(* active provider and the cache is proved for one instance, since with two*)
(* it does not hold.  Streams: what an adapter has collected of a stream is*)
(* what the provider said, and what a client has read is what the adapter  *)
(* passed on and the events of its final chunk.  Requests: what a client   *)
(* sends back is a conversation in which every call has its result, and    *)
(* each adapter's request follows it part by part.                         *)
(***************************************************************************)
EXTENDS Providers, Streams, Induction, SequenceTheorems, TLAPS

-----------------------------------------------------------------------------
(* Providers *)

OneInstance == \A i, j \in Instances : i = j

MaybeKey == Keys \cup {NoKey}

FreshUnused == \A x \in fresh : row[x] = NoRow

\* A handler runs on an instance that serves, and about a provider once it knows which.
Served(p) ==
    /\ ~ At(p, "idle") => req[p].at \in Instances /\ inst[req[p].at].pc = "up"
    /\ req[p].pc \in {"create_activate", "update_write", "adapter_set"} => req[p].id \in Ids

\* The part of the invariant that holds on any number of instances.
Base ==
    /\ TypeOK
    /\ FreshUnused
    /\ \A p \in Procs : Served(p)

LEMMA NoRowFacts == NoRow \notin Row /\ NoRow.active = FALSE /\ NoRow.key = NoKey
  BY ProviderAssumption DEF NoRow, Row

LEMMA IdleRequest == Idle \in Request /\ Idle.pc = "idle" /\ Down \in Seeding /\ Up \in Seeding
                     /\ Down.pc = "down" /\ Up.pc = "up"
<1>1. 1 \in 1 .. Len(Defaults) + 1
  BY ProviderAssumption
<1>2. Down \in Seeding /\ Down.pc = "down"
  BY <1>1 DEF Down, Seeding
<1>3. Up \in Seeding /\ Up.pc = "up"
  BY <1>2 DEF Up, Down, Seeding
<1>4. NoRow \in Row \cup {NoRow}
  OBVIOUS
<1>5. Idle \in Request /\ Idle.pc = "idle"
  BY <1>4 DEF Idle, Request, PCs
<1> QED
  BY <1>2, <1>3, <1>5

LEMMA RowKeys ==
  ASSUME NEW r \in Row \cup {NoRow}
  PROVE  r.key \in MaybeKey /\ r.active \in BOOLEAN
<1>1. CASE r \in Row
  BY <1>1 DEF Row, MaybeKey
<1>2. CASE r = NoRow
  BY <1>2 DEF NoRow, MaybeKey
<1> QED
  BY <1>1, <1>2

-----------------------------------------------------------------------------
(* Base is kept *)

LEMMA InitBase == Init => Base
  BY IdleRequest DEF Init, Base, TypeOK, FreshUnused, Served, At

\* A statement of the table alone.
LEMMA InsertBase ==
  ASSUME Base, NEW x \in Ids, NEW n \in Names, NEW on \in BOOLEAN, NEW k \in MaybeKey,
         Insert(x, n, on, k)
  PROVE  /\ fresh' \subseteq Ids /\ row' \in [Ids -> Row \cup {NoRow}] /\ FreshUnused'
         /\ row'[x] = [name |-> n, active |-> on, key |-> k]
         /\ \A y \in Ids \ {x} : row'[y] = row[y]
  BY DEF Insert, Base, TypeOK, FreshUnused, Row, MaybeKey

LEMMA ActivateBase ==
  ASSUME Base, NEW x \in Ids, ActivateTx(x)
  PROVE  /\ fresh' \subseteq Ids /\ row' \in [Ids -> Row \cup {NoRow}] /\ FreshUnused'
         /\ Active' = {x}
<1>1. \A y \in Ids : Stored(y) => row[y] \in Row
  BY DEF Base, TypeOK, Stored
<1>2. \A y \in Ids : row'[y] = IF Stored(y) THEN [row[y] EXCEPT !.active = (y = x)] ELSE NoRow
  BY DEF ActivateTx
<1>3. \A y \in Ids : Stored(y) => row'[y] \in Row /\ row'[y].active = (y = x)
  BY <1>1, <1>2 DEF Row
<1>4. \A y \in Ids : ~ Stored(y) => row'[y] = NoRow
  BY <1>2
<1>5. row' \in [Ids -> Row \cup {NoRow}]
  BY <1>3, <1>4 DEF ActivateTx
<1>6. FreshUnused' /\ fresh' \subseteq Ids
  BY <1>4 DEF ActivateTx, Base, FreshUnused, Stored, TypeOK
<1>7. Active' = {x}
  BY <1>3, <1>4, NoRowFacts DEF Active, ActivateTx
<1> QED
  BY <1>5, <1>6, <1>7

\* One goroutine moves, on an instance that serves; the instances stay as they are.
LEMMA RequestStep ==
  ASSUME Base, NEW p \in Procs, NEW q \in Request, req' = [req EXCEPT ![p] = q], inst' = inst,
         q.pc # "idle" => q.at \in Instances /\ inst[q.at].pc = "up",
         q.pc \in {"create_activate", "update_write", "adapter_set"} => q.id \in Ids
  PROVE  req' \in [Procs -> Request] /\ \A r \in Procs : Served(r)'
  BY DEF Base, TypeOK, Served, At

LEMMA ReturnStep ==
  ASSUME Base, NEW p \in Procs, Return(p), inst' = inst
  PROVE  req' \in [Procs -> Request] /\ \A r \in Procs : Served(r)'
  BY IdleRequest, RequestStep DEF Return

LEMMA BeginStep ==
  ASSUME Base, NEW p \in Procs, NEW i \in Instances, NEW pc \in PCs, NEW x \in Ids \cup {NoId},
         NEW k \in MaybeKey, NEW r \in Row \cup {NoRow}, Begin(p, i, pc, x, k, r), inst' = inst,
         pc \in {"create_activate", "update_write", "adapter_set"} => x \in Ids
  PROVE  req' \in [Procs -> Request] /\ \A s \in Procs : Served(s)'
<1> DEFINE q == [pc |-> pc, at |-> i, id |-> x, key |-> k, copy |-> r]
<1>1. q \in Request
  BY DEF Request, MaybeKey
<1> QED
  BY <1>1, RequestStep DEF Begin

LEMMA GoToStep ==
  ASSUME Base, NEW p \in Procs, NEW pc \in PCs, GoTo(p, pc), inst' = inst, ~ At(p, "idle"),
         pc \notin {"create_activate", "update_write", "adapter_set"}
  PROVE  req' \in [Procs -> Request] /\ \A s \in Procs : Served(s)'
<1> DEFINE q == [req[p] EXCEPT !.pc = pc]
<1>1. req[p] \in Request /\ Served(p)
  BY DEF Base, TypeOK
<1>2. q \in Request /\ q.pc = pc /\ q.at = req[p].at
  BY <1>1 DEF Request
<1>3. req' = [req EXCEPT ![p] = q]
  BY DEF GoTo, Base, TypeOK
<1> QED
  BY <1>1, <1>2, <1>3, RequestStep DEF Served

LEMMA RefuseBase ==
  ASSUME Base, NEW p \in Procs, Refuse(p)
  PROVE  Base'
<1>1. inst' = inst
  BY DEF Refuse
<1>2. req' \in [Procs -> Request] /\ \A r \in Procs : Served(r)'
  BY <1>1, ReturnStep DEF Refuse
<1> QED
  BY <1>2 DEF Refuse, Base, TypeOK, FreshUnused, db

LEMMA CreateBase ==
  ASSUME Base, NEW p \in Procs, NEW i \in Instances, NEW x \in Ids, NEW n \in Names,
         NEW k \in MaybeKey, NEW on \in BOOLEAN, Create(p, i, x, n, k, on)
  PROVE  Base'
<1>1. Insert(x, n, FALSE, k) /\ UNCHANGED <<cache, inst, late>>
  BY DEF Create
<1>2. fresh' \subseteq Ids /\ row' \in [Ids -> Row \cup {NoRow}] /\ FreshUnused'
  BY <1>1, InsertBase
<1>3. req' \in [Procs -> Request] /\ \A s \in Procs : Served(s)'
  <2>1. CASE on
    BY <2>1, <1>1, BeginStep DEF Create, PCs
  <2>2. CASE ~ on
    BY <2>2, <1>1 DEF Create, Base, TypeOK, Served, At
  <2> QED
    BY <2>1, <2>2
<1> QED
  BY <1>1, <1>2, <1>3 DEF Base, TypeOK

LEMMA CreateActivateBase ==
  ASSUME Base, NEW p \in Procs, CreateActivate(p)
  PROVE  Base'
<1>1. CASE ActivateTx(req[p].id) /\ GoTo(p, "invalidate") /\ UNCHANGED <<cache, inst, late>>
  <2>1. req[p].id \in Ids /\ ~ At(p, "idle")
    BY DEF CreateActivate, At, Base, Served
  <2>2. req' \in [Procs -> Request] /\ \A s \in Procs : Served(s)'
    BY <1>1, <2>1, GoToStep DEF PCs
  <2>3. fresh' \subseteq Ids /\ row' \in [Ids -> Row \cup {NoRow}] /\ FreshUnused'
    BY <1>1, <2>1, ActivateBase
  <2> QED
    BY <1>1, <2>2, <2>3 DEF Base, TypeOK
<1>2. CASE Refuse(p)
  BY <1>2, RefuseBase
<1> QED
  BY <1>1, <1>2 DEF CreateActivate

LEMMA UpdateBase ==
  ASSUME Base, NEW p \in Procs, NEW i \in Instances, NEW x \in Ids, NEW k \in MaybeKey,
         Update(p, i, x, k)
  PROVE  Base'
<1>1. UNCHANGED <<db, cache, inst, late>> /\ row[x] \in Row \cup {NoRow}
  BY DEF Update, Base, TypeOK
<1>2. req' \in [Procs -> Request] /\ \A s \in Procs : Served(s)'
  BY <1>1, BeginStep DEF Update, PCs
<1> QED
  BY <1>1, <1>2 DEF Base, TypeOK, FreshUnused, db

\* The key of a provider is replaced; which provider is active is not touched.
LEMMA UpdateWriteRows ==
  ASSUME Base, NEW p \in Procs, At(p, "update_write"), Stored(req[p].id),
         row' = [row EXCEPT ![req[p].id].key = NewKey(p)], UNCHANGED fresh
  PROVE  /\ row' \in [Ids -> Row \cup {NoRow}] /\ FreshUnused' /\ Active' = Active
         /\ \A y \in Ids : row'[y].name = row[y].name
<1>1. req[p] \in Request /\ req[p].id \in Ids
  BY DEF Base, TypeOK, Served, At
<1>2. NewKey(p) \in MaybeKey
  BY <1>1, RowKeys DEF NewKey, Request, MaybeKey
<1>3. row[req[p].id] \in Row
  BY <1>1 DEF Base, TypeOK, Stored
<1>4. row'[req[p].id] = [row[req[p].id] EXCEPT !.key = NewKey(p)]
  BY <1>1 DEF Base, TypeOK
<1>5. \A y \in Ids \ {req[p].id} : row'[y] = row[y]
  BY DEF Base, TypeOK
<1>6. /\ row'[req[p].id] \in Row
      /\ row'[req[p].id].active = row[req[p].id].active
      /\ row'[req[p].id].name = row[req[p].id].name
  BY <1>2, <1>3, <1>4 DEF Row, MaybeKey
<1>7. row' \in [Ids -> Row \cup {NoRow}]
  BY <1>5, <1>6 DEF Base, TypeOK
<1>8. FreshUnused'
  BY <1>5 DEF Base, FreshUnused, Stored, TypeOK
<1>9. Active' = Active
  BY <1>5, <1>6 DEF Active
<1> QED
  BY <1>5, <1>6, <1>7, <1>8, <1>9

LEMMA UpdateWriteBase ==
  ASSUME Base, NEW p \in Procs, UpdateWrite(p)
  PROVE  Base'
<1>1. CASE /\ Stored(req[p].id)
           /\ row' = [row EXCEPT ![req[p].id].key = NewKey(p)]
           /\ GoTo(p, "invalidate")
           /\ UNCHANGED <<fresh, cache, inst, late>>
  <2>1. req' \in [Procs -> Request] /\ \A s \in Procs : Served(s)'
    BY <1>1, GoToStep DEF UpdateWrite, At, PCs
  <2>2. row' \in [Ids -> Row \cup {NoRow}] /\ FreshUnused'
    BY <1>1, UpdateWriteRows DEF UpdateWrite
  <2> QED
    BY <1>1, <2>1, <2>2 DEF Base, TypeOK
<1>2. CASE Refuse(p)
  BY <1>2, RefuseBase
<1> QED
  BY <1>1, <1>2 DEF UpdateWrite

LEMMA ActivateStepBase ==
  ASSUME Base, NEW p \in Procs, NEW i \in Instances, NEW x \in Ids, Activate(p, i, x)
  PROVE  Base'
<1>1. UNCHANGED <<cache, inst, late>> /\ NoKey \in MaybeKey
  BY DEF Activate, MaybeKey
<1>2. req' \in [Procs -> Request] /\ \A s \in Procs : Served(s)'
  BY <1>1, BeginStep DEF Activate, PCs
<1>3. fresh' \subseteq Ids /\ row' \in [Ids -> Row \cup {NoRow}] /\ FreshUnused'
  BY ActivateBase DEF Activate
<1> QED
  BY <1>1, <1>2, <1>3 DEF Base, TypeOK

LEMMA DeleteBase ==
  ASSUME Base, NEW p \in Procs, NEW i \in Instances, NEW x \in Ids, Delete(p, i, x)
  PROVE  Base'
<1>1. UNCHANGED <<fresh, cache, inst, late>> /\ NoKey \in MaybeKey
  BY DEF Delete, MaybeKey
<1>2. req' \in [Procs -> Request] /\ \A s \in Procs : Served(s)'
  BY <1>1, BeginStep DEF Delete, PCs
<1>3. row' \in [Ids -> Row \cup {NoRow}] /\ FreshUnused'
  BY <1>1 DEF Delete, Base, TypeOK, FreshUnused
<1> QED
  BY <1>1, <1>2, <1>3 DEF Base, TypeOK

LEMMA InvalidateBase ==
  ASSUME Base, NEW p \in Procs, Invalidate(p)
  PROVE  Base'
<1>1. req' \in [Procs -> Request] /\ \A s \in Procs : Served(s)'
  BY ReturnStep DEF Invalidate
<1> QED
  BY <1>1 DEF Invalidate, Base, TypeOK, FreshUnused, db

LEMMA AdapterBase ==
  ASSUME Base, NEW p \in Procs,
         (\E i \in Instances : AdapterGet(p, i)) \/ AdapterRead(p) \/ AdapterSet(p)
  PROVE  Base'
<1>1. ASSUME NEW i \in Instances, AdapterGet(p, i) PROVE Base'
  <2>1. UNCHANGED <<db, cache, inst, late>>
    BY <1>1 DEF AdapterGet
  <2>2. req' \in [Procs -> Request] /\ \A s \in Procs : Served(s)'
    BY <1>1, <2>1, BeginStep DEF AdapterGet, PCs, MaybeKey
  <2> QED
    BY <2>1, <2>2 DEF Base, TypeOK, FreshUnused, db
<1>2. ASSUME NEW x \in Active, At(p, "adapter_read"), UNCHANGED <<db, cache, inst, late>>,
             req' = [req EXCEPT ![p].pc = "adapter_set", ![p].id = x, ![p].copy = row[x]]
      PROVE  Base'
  <2> DEFINE q == [req[p] EXCEPT !.pc = "adapter_set", !.id = x, !.copy = row[x]]
  <2>1. req[p] \in Request /\ Served(p) /\ x \in Ids /\ row[x] \in Row \cup {NoRow}
    BY DEF Base, TypeOK, Active
  <2>2. q \in Request /\ q.at = req[p].at /\ q.id = x
    BY <2>1 DEF Request, PCs
  <2>3. req' = [req EXCEPT ![p] = q]
    BY <1>2 DEF Base, TypeOK
  <2>4. req[p].at \in Instances /\ inst[req[p].at].pc = "up" /\ inst' = inst
    BY <1>2, <2>1 DEF Served, At
  <2> HIDE DEF q
  <2>5. req' \in [Procs -> Request] /\ \A s \in Procs : Served(s)'
    BY <2>1, <2>2, <2>3, <2>4, RequestStep
  <2> QED
    BY <1>2, <2>5 DEF Base, TypeOK, FreshUnused, db
<1>3. CASE AdapterSet(p)
  <2>1. req[p] \in Request /\ req[p].id \in Ids /\ req[p].at \in Instances
    BY <1>3 DEF AdapterSet, Base, TypeOK, Served, At
  <2>2. [id |-> req[p].id, key |-> req[p].copy.key] \in Copy
    BY <2>1, RowKeys DEF Copy, Request, MaybeKey
  <2>3. cache' \in [Instances -> Copy \cup {NoCopy}] /\ late' \subseteq Instances
    BY <1>3, <2>1, <2>2 DEF AdapterSet, Base, TypeOK
  <2>4. req' \in [Procs -> Request] /\ \A s \in Procs : Served(s)'
    BY <1>3, ReturnStep DEF AdapterSet
  <2> QED
    BY <1>3, <2>3, <2>4 DEF AdapterSet, Base, TypeOK, FreshUnused, db
<1> QED
  BY <1>1, <1>2, <1>3, RefuseBase DEF AdapterRead

\* An instance that serves nothing moves on.
LEMMA InstanceStep ==
  ASSUME Base, NEW i \in Instances, inst[i].pc # "up", NEW s \in Seeding,
         inst' = [inst EXCEPT ![i] = s], req' = req
  PROVE  inst' \in [Instances -> Seeding] /\ \A p \in Procs : Served(p)'
  BY DEF Base, TypeOK, Served, At

LEMMA BootBase ==
  ASSUME Base, NEW i \in Instances, Start(i) \/ SeedList(i) \/ SeedActive(i) \/ SeedDone(i)
  PROVE  Base'
<1>1. UNCHANGED <<db, cache, req, late>> /\ inst[i].pc # "up"
  BY DEF Start, SeedList, SeedActive, SeedDone
<1>2. inst[i] \in Seeding
  BY DEF Base, TypeOK
<1>3. PICK s \in Seeding : inst' = [inst EXCEPT ![i] = s]
  <2>1. CASE Start(i)
    <3>1. [Down EXCEPT !.pc = "list"] \in Seeding
      BY IdleRequest DEF Seeding
    <3> QED
      BY <2>1, <3>1, IdleRequest DEF Start
  <2>2. CASE SeedList(i)
    <3> DEFINE known == {row[x].name : x \in {y \in Ids : Stored(y)}}
    <3>1. known \in SUBSET Names
      BY DEF Stored, Base, TypeOK, Row
    <3>2. [Down EXCEPT !.pc = "active", !.known = known] \in Seeding
      BY <3>1, IdleRequest DEF Seeding
    <3> QED
      BY <2>2, <3>2, IdleRequest DEF SeedList
  <2>3. CASE SeedActive(i)
    <3>1. PICK need \in BOOLEAN : inst' = [inst EXCEPT ![i].pc = "save", ![i].needActive = need]
      BY <2>3 DEF SeedActive
    <3>2. [inst[i] EXCEPT !.pc = "save", !.needActive = need] \in Seeding
      BY <1>2 DEF Seeding
    <3>3. inst' = [inst EXCEPT ![i] = [inst[i] EXCEPT !.pc = "save", !.needActive = need]]
      BY <3>1 DEF Base, TypeOK
    <3> QED
      BY <3>2, <3>3
  <2>4. CASE SeedDone(i)
    BY <2>4, IdleRequest DEF SeedDone
  <2> QED
    BY <2>1, <2>2, <2>3, <2>4
<1>4. inst' \in [Instances -> Seeding] /\ \A p \in Procs : Served(p)'
  BY <1>1, <1>3, InstanceStep
<1> QED
  BY <1>1, <1>4 DEF Base, TypeOK, FreshUnused, db

\* Seeding inserts one of the defaults it found missing, or fails to.
LEMMA SeedSaveFacts ==
  ASSUME Base, NEW i \in Instances, NEW k \in Missing(i),
         inst' = [inst EXCEPT ![i].todo = k + 1, ![i].needActive = FALSE]
  PROVE  /\ k \in Nat /\ k >= inst[i].todo /\ k \in DOMAIN Defaults
         /\ Defaults[k] \in Names /\ Defaults[k] \notin inst[i].known
         /\ [inst[i] EXCEPT !.todo = k + 1, !.needActive = FALSE] \in Seeding
         /\ inst' = [inst EXCEPT ![i] = [inst[i] EXCEPT !.todo = k + 1, !.needActive = FALSE]]
<1>1. inst[i] \in Seeding
  BY DEF Base, TypeOK
<1>2. Len(Defaults) \in Nat /\ inst[i].todo \in 1 .. Len(Defaults) + 1
  BY <1>1, ProviderAssumption DEF Seeding
<1>3. k \in inst[i].todo .. Len(Defaults) /\ Defaults[k] \notin inst[i].known
  BY DEF Missing
<1>4. k \in Nat /\ k >= inst[i].todo /\ k \in 1 .. Len(Defaults) /\ k + 1 \in 1 .. Len(Defaults) + 1
  BY <1>2, <1>3
<1>5. k \in DOMAIN Defaults /\ Defaults[k] \in Names
  BY <1>4, ProviderAssumption
<1>6. [inst[i] EXCEPT !.todo = k + 1, !.needActive = FALSE] \in Seeding
  BY <1>1, <1>4 DEF Seeding
<1>7. inst' = [inst EXCEPT ![i] = [inst[i] EXCEPT !.todo = k + 1, !.needActive = FALSE]]
  BY DEF Base, TypeOK
<1> QED
  BY <1>3, <1>4, <1>5, <1>6, <1>7

LEMMA SeedSaveBase ==
  ASSUME Base, NEW i \in Instances, SeedSave(i)
  PROVE  Base'
<1>1. PICK k \in Missing(i) :
        /\ \/ \E x \in fresh : Insert(x, Defaults[k], inst[i].needActive, NoKey)
           \/ UNCHANGED db
        /\ inst' = [inst EXCEPT ![i].todo = k + 1, ![i].needActive = FALSE]
  BY DEF SeedSave
<1>2. UNCHANGED <<cache, req, late>> /\ inst[i].pc # "up"
  BY DEF SeedSave
<1>3. inst' \in [Instances -> Seeding] /\ \A p \in Procs : Served(p)'
  BY <1>1, <1>2, SeedSaveFacts, InstanceStep
<1>4. fresh' \subseteq Ids /\ row' \in [Ids -> Row \cup {NoRow}] /\ FreshUnused'
  <2>1. CASE UNCHANGED db
    BY <2>1 DEF db, Base, TypeOK, FreshUnused
  <2>2. ASSUME NEW x \in fresh, Insert(x, Defaults[k], inst[i].needActive, NoKey)
        PROVE  fresh' \subseteq Ids /\ row' \in [Ids -> Row \cup {NoRow}] /\ FreshUnused'
    <3>1. x \in Ids /\ inst[i].needActive \in BOOLEAN /\ NoKey \in MaybeKey
      BY DEF Base, TypeOK, Seeding, MaybeKey
    <3>2. Defaults[k] \in Names
      BY <1>1, SeedSaveFacts
    <3> QED
      BY <2>2, <3>1, <3>2, InsertBase
  <2> QED
    BY <1>1, <2>1, <2>2
<1> QED
  BY <1>2, <1>3, <1>4 DEF Base, TypeOK

LEMMA CrashBase ==
  ASSUME Base, NEW i \in Instances, Crash(i)
  PROVE  Base'
<1>1. req' \in [Procs -> Request]
  BY IdleRequest DEF Crash, Base, TypeOK
<1>2. \A p \in Procs : Served(p)'
  BY IdleRequest DEF Crash, Base, TypeOK, Served, At
<1>3. inst' \in [Instances -> Seeding] /\ cache' \in [Instances -> Copy \cup {NoCopy}]
  BY IdleRequest DEF Crash, Base, TypeOK
<1> QED
  BY <1>1, <1>2, <1>3 DEF Crash, Base, TypeOK, FreshUnused, db

LEMMA NextKeepsBase ==
  ASSUME Base, [Next]_vars
  PROVE  Base'
<1>1. CASE UNCHANGED vars
  BY <1>1 DEF vars, db, Base, TypeOK, FreshUnused, Served, At
<1>2. ASSUME NEW i \in Instances,
             Start(i) \/ SeedList(i) \/ SeedActive(i) \/ SeedSave(i) \/ SeedDone(i) \/ Crash(i)
      PROVE  Base'
  BY <1>2, BootBase, SeedSaveBase, CrashBase
<1>3. ASSUME NEW p \in Procs, NEW i \in Instances, NEW x \in Ids,
             \/ \E n \in Names, k \in MaybeKey, on \in BOOLEAN : Create(p, i, x, n, k, on)
             \/ \E k \in MaybeKey : Update(p, i, x, k)
             \/ Activate(p, i, x) \/ Delete(p, i, x)
      PROVE  Base'
  BY <1>3, CreateBase, UpdateBase, ActivateStepBase, DeleteBase
<1>4. ASSUME NEW p \in Procs,
             \/ \E i \in Instances : AdapterGet(p, i)
             \/ CreateActivate(p) \/ UpdateWrite(p) \/ Invalidate(p)
             \/ AdapterRead(p) \/ AdapterSet(p) \/ Fail(p)
      PROVE  Base'
  BY <1>4, CreateActivateBase, UpdateWriteBase, InvalidateBase, AdapterBase, RefuseBase DEF Fail
<1> QED
  BY <1>1, <1>2, <1>3, <1>4 DEF Next, MaybeKey

LEMMA BaseAlways == Spec => []Base
  BY InitBase, NextKeepsBase, PTL DEF Spec

\* Rows, caches, seeding and handlers always have the shapes the Go types give
\* them, and no handler works on a provider it does not know.
THEOREM TypeCorrect == Spec => []TypeOK
<1>1. Base => TypeOK
  BY DEF Base
<1> QED
  BY <1>1, BaseAlways, PTL

-----------------------------------------------------------------------------
(* Updates *)

\* A goroutine that starts a handler, or that is another one, is not the one that writes.
LEMMA OthersKeepRequest ==
  ASSUME Base, NEW p \in Procs, At(p, "update_write"), NEW i \in Instances, NEW s \in Procs,
         NEW x \in Ids,
         \/ \E n \in Names, k \in MaybeKey, on \in BOOLEAN : Create(s, i, x, n, k, on)
         \/ \E k \in MaybeKey : Update(s, i, x, k)
         \/ Activate(s, i, x) \/ Delete(s, i, x)
  PROVE  req'[p] = req[p]
<1>1. At(s, "idle") /\ s # p
  BY DEF Create, Update, Activate, Delete, Begin, At
<1>2. CASE UNCHANGED req
  BY <1>2
<1>3. ASSUME NEW pc \in PCs, NEW y, NEW k, NEW r, Begin(s, i, pc, y, k, r)
      PROVE  req'[p] = req[p]
  BY <1>1, <1>3 DEF Begin, Base, TypeOK
<1> QED
  BY <1>2, <1>3 DEF Create, Update, Activate, Delete, PCs

LEMMA UpdateStepKeepsActive ==
  ASSUME Base, Next, NEW p \in Procs, At(p, "update_write"), req'[p] # req[p]
  PROVE  Active' = Active
<1>1. UNCHANGED row => Active' = Active
  BY DEF Active
<1>2. ASSUME NEW i \in Instances,
             Start(i) \/ SeedList(i) \/ SeedActive(i) \/ SeedSave(i) \/ SeedDone(i) \/ Crash(i)
      PROVE  Active' = Active
  BY <1>1, <1>2 DEF Start, SeedList, SeedActive, SeedSave, SeedDone, Crash, db
<1>3. ASSUME NEW s \in Procs, NEW i \in Instances, NEW x \in Ids,
             \/ \E n \in Names, k \in MaybeKey, on \in BOOLEAN : Create(s, i, x, n, k, on)
             \/ \E k \in MaybeKey : Update(s, i, x, k)
             \/ Activate(s, i, x) \/ Delete(s, i, x)
      PROVE  Active' = Active
  BY <1>3, OthersKeepRequest
<1>4. ASSUME NEW s \in Procs,
             \/ \E i \in Instances : AdapterGet(s, i)
             \/ Invalidate(s) \/ AdapterRead(s) \/ AdapterSet(s) \/ Fail(s)
      PROVE  Active' = Active
  BY <1>1, <1>4 DEF AdapterGet, Invalidate, AdapterRead, AdapterSet, Fail, Refuse, db
<1>5. ASSUME NEW s \in Procs, CreateActivate(s)
      PROVE  Active' = Active
  <2>1. s # p
    BY <1>5 DEF CreateActivate, At
  <2> QED
    BY <1>5, <2>1 DEF CreateActivate, GoTo, Refuse, Return, Base, TypeOK
<1>6. ASSUME NEW s \in Procs, UpdateWrite(s)
      PROVE  Active' = Active
  BY <1>1, <1>6, UpdateWriteRows DEF UpdateWrite, Refuse, db
<1> QED
  BY <1>2, <1>3, <1>4, <1>5, <1>6 DEF Next, MaybeKey

\* On any number of instances, a configuration update leaves the choice of the active
\* provider as it stands when it writes, whatever was activated since it read the row.
THEOREM UpdatesKeep == Spec => UpdatesKeepActivation
<1>1. ASSUME Base, [Next]_vars
      PROVE  [\A p \in Procs : At(p, "update_write") /\ req'[p] # req[p] => Active' = Active]_vars
  BY <1>1, UpdateStepKeepsActive
<1> QED
  BY <1>1, BaseAlways, PTL DEF Spec, UpdatesKeepActivation

-----------------------------------------------------------------------------
(* One instance *)

\* While the instance does not serve, nothing is cached, an active provider is still
\* missing if seeding found none, and only seeding added to what it found stored.
Steady(i) ==
    /\ inst[i].pc # "up" => ~ Cached(i)
    /\ inst[i].pc = "save" /\ inst[i].needActive => Active = {}
    /\ inst[i].pc \in {"active", "save"} =>
         \A y \in Ids : Stored(y) =>
            \/ row[y].name \in inst[i].known
            \/ \E k \in 1 .. inst[i].todo - 1 : row[y].name = Defaults[k]

IInv == Base /\ AtMostOneActive /\ CacheStaleOnlyIfLate /\ \A i \in Instances : Steady(i)

LEMMA InitIInv == Init => IInv
<1>1. Init => \A i \in Instances : ~ Cached(i)
  BY DEF Init, Cached
<1>2. Init => AtMostOneActive
  BY NoRowFacts DEF Init, AtMostOneActive, Active
<1>3. Init => \A i \in Instances : Steady(i)
  BY <1>1, IdleRequest DEF Init, Steady
<1> QED
  BY <1>1, <1>2, <1>3, InitBase DEF IInv, CacheStaleOnlyIfLate

\* Once the instance serves, Steady asks nothing of it.
LEMMA ServingSteady ==
  ASSUME OneInstance, NEW i \in Instances, inst[i].pc = "up", inst' = inst
  PROVE  \A j \in Instances : Steady(j)'
  BY DEF OneInstance, Steady

\* A step that leaves the table and the cache alone, and ends no invalidate.
LEMMA SameCopies ==
  ASSUME CacheStaleOnlyIfLate, UNCHANGED <<row, cache, late>>,
         \A i \in Instances : Changing(i) => Changing(i)'
  PROVE  CacheStaleOnlyIfLate'
  BY DEF CacheStaleOnlyIfLate, Cached, ActiveCopies, Active

\* After a change the instance that made it has still to invalidate its cache.
LEMMA Changed ==
  ASSUME OneInstance, NEW i \in Instances, NEW p \in Procs,
         req'[p].pc = "invalidate", req'[p].at = i
  PROVE  CacheStaleOnlyIfLate'
  BY DEF OneInstance, CacheStaleOnlyIfLate, Changing, At

LEMMA CreateSafe ==
  ASSUME OneInstance, IInv, NEW p \in Procs, NEW i \in Instances, NEW x \in Ids, NEW n \in Names,
         NEW k \in MaybeKey, NEW on \in BOOLEAN, Create(p, i, x, n, k, on)
  PROVE  IInv'
<1>1. Base /\ Insert(x, n, FALSE, k) /\ UNCHANGED <<cache, inst, late>>
      /\ At(p, "idle") /\ inst[i].pc = "up"
  BY DEF Create, IInv
<1>2. row'[x] = [name |-> n, active |-> FALSE, key |-> k] /\ \A y \in Ids \ {x} : row'[y] = row[y]
  BY <1>1, InsertBase
<1>3. row[x] = NoRow
  BY <1>1 DEF Insert, Base, FreshUnused
<1>4. Active' = Active /\ ActiveCopies' = ActiveCopies
  BY <1>2, <1>3, NoRowFacts DEF Active, ActiveCopies
<1>5. \A j \in Instances : Changing(j) => Changing(j)'
  BY <1>1 DEF Create, Begin, Changing, At, Base, TypeOK
<1>6. CacheStaleOnlyIfLate'
  BY <1>1, <1>4, <1>5 DEF IInv, CacheStaleOnlyIfLate, Cached
<1> QED
  BY <1>1, <1>4, <1>6, CreateBase, ServingSteady DEF IInv, AtMostOneActive

LEMMA ActivateSafe ==
  ASSUME OneInstance, IInv, NEW p \in Procs, NEW i \in Instances, NEW x \in Ids,
         ActivateTx(x), inst[i].pc = "up", inst' = inst, Base',
         req'[p].pc = "invalidate", req'[p].at = i
  PROVE  IInv'
<1>1. Active' = {x}
  BY ActivateBase DEF IInv
<1> QED
  BY <1>1, Changed, ServingSteady DEF IInv, AtMostOneActive

\* Which providers are active shrinks at most, and the cache is still to be invalidated.
LEMMA ChangeSafe ==
  ASSUME OneInstance, IInv, NEW p \in Procs, NEW i \in Instances,
         Active' \subseteq Active, inst[i].pc = "up", inst' = inst, Base',
         req'[p].pc = "invalidate", req'[p].at = i
  PROVE  IInv'
  BY Changed, ServingSteady DEF IInv, AtMostOneActive

\* Nothing but a handler that was not about to invalidate moves.
LEMMA MoveSafe ==
  ASSUME OneInstance, IInv, Base', UNCHANGED <<row, cache, inst, late>>,
         NEW p \in Procs, ~ At(p, "invalidate"), \A s \in Procs \ {p} : req'[s] = req[s]
  PROVE  IInv'
<1>1. \A i \in Instances : Changing(i) => Changing(i)'
  BY DEF Changing, At
<1>2. CacheStaleOnlyIfLate'
  BY <1>1, SameCopies DEF IInv
<1>3. Active' = Active
  BY DEF Active
<1>4. \A i \in Instances : Steady(i)'
  BY <1>3 DEF IInv, Steady, Cached, Stored
<1> QED
  BY <1>2, <1>3, <1>4 DEF IInv, AtMostOneActive

LEMMA CommandSafe ==
  ASSUME OneInstance, IInv, NEW p \in Procs, NEW i \in Instances, NEW x \in Ids,
         \/ \E n \in Names, k \in MaybeKey, on \in BOOLEAN : Create(p, i, x, n, k, on)
         \/ \E k \in MaybeKey : Update(p, i, x, k)
         \/ Activate(p, i, x) \/ Delete(p, i, x)
  PROVE  IInv'
<1> USE DEF IInv
<1>1. ASSUME NEW k \in MaybeKey, Update(p, i, x, k) PROVE IInv'
  <2>1. Base' /\ ~ At(p, "invalidate") /\ \A s \in Procs \ {p} : req'[s] = req[s]
    BY <1>1, UpdateBase DEF Update, Begin, At, Base, TypeOK
  <2>2. UNCHANGED <<row, cache, inst, late>>
    BY <1>1 DEF Update, db
  <2> QED
    BY <2>1, <2>2, MoveSafe
<1>2. ASSUME NEW k, NEW r, Begin(p, i, "invalidate", x, k, r)
      PROVE  req'[p].pc = "invalidate" /\ req'[p].at = i /\ inst[i].pc = "up"
  BY <1>2 DEF Begin, Base, TypeOK
<1>3. CASE Activate(p, i, x)
  <2>1. Base' /\ ActivateTx(x) /\ inst' = inst
    BY <1>3, ActivateStepBase DEF Activate
  <2> QED
    BY <1>2, <1>3, <2>1, ActivateSafe DEF Activate
<1>4. CASE Delete(p, i, x)
  <2>1. Base' /\ inst' = inst
    BY <1>4, DeleteBase DEF Delete
  <2>2. Active' \subseteq Active
    BY <1>4, NoRowFacts DEF Delete, Active, Base, TypeOK
  <2> QED
    BY <1>2, <1>4, <2>1, <2>2, ChangeSafe DEF Delete
<1> QED
  BY <1>1, <1>3, <1>4, CreateSafe

LEMMA WriteSafe ==
  ASSUME OneInstance, IInv, NEW p \in Procs, CreateActivate(p) \/ UpdateWrite(p)
  PROVE  IInv'
<1>1. Base /\ Base' /\ req[p].id \in Ids /\ ~ At(p, "invalidate") /\ ~ At(p, "idle")
      /\ req[p].at \in Instances /\ inst[req[p].at].pc = "up"
  BY CreateActivateBase, UpdateWriteBase DEF IInv, CreateActivate, UpdateWrite, At, Base, Served
<1>2. CASE Refuse(p)
  <2>1. \A s \in Procs \ {p} : req'[s] = req[s]
    BY <1>1, <1>2 DEF Refuse, Return, Base, TypeOK
  <2> QED
    BY <1>1, <1>2, <2>1, MoveSafe DEF Refuse, db
<1>3. GoTo(p, "invalidate") => req'[p].pc = "invalidate" /\ req'[p].at = req[p].at
  BY <1>1 DEF GoTo, Base, TypeOK, Request
<1>4. CASE /\ ActivateTx(req[p].id) /\ GoTo(p, "invalidate") /\ UNCHANGED <<cache, inst, late>>
  BY <1>1, <1>3, <1>4, ActivateSafe
<1>5. CASE /\ At(p, "update_write") /\ Stored(req[p].id)
           /\ row' = [row EXCEPT ![req[p].id].key = NewKey(p)]
           /\ GoTo(p, "invalidate")
           /\ UNCHANGED <<fresh, cache, inst, late>>
  <2>1. Active' = Active
    BY <1>1, <1>5, UpdateWriteRows
  <2> QED
    BY <1>1, <1>3, <1>5, <2>1, ChangeSafe
<1> QED
  BY <1>2, <1>4, <1>5 DEF CreateActivate, UpdateWrite

LEMMA ReadSafe ==
  ASSUME OneInstance, IInv, NEW p \in Procs,
         (\E i \in Instances : AdapterGet(p, i)) \/ AdapterRead(p) \/ Fail(p)
  PROVE  IInv'
<1>1. Base /\ Base' /\ ~ At(p, "invalidate")
  BY AdapterBase, RefuseBase DEF IInv, AdapterGet, Begin, AdapterRead, Fail, At
<1>2. UNCHANGED <<row, cache, inst, late>>
  BY DEF AdapterGet, AdapterRead, Fail, Refuse, db
<1>3. \A s \in Procs \ {p} : req'[s] = req[s]
  BY <1>1 DEF AdapterGet, Begin, AdapterRead, Fail, Refuse, Return, Base, TypeOK
<1> QED
  BY <1>1, <1>2, <1>3, MoveSafe

LEMMA CacheSafe ==
  ASSUME OneInstance, IInv, NEW p \in Procs, Invalidate(p) \/ AdapterSet(p)
  PROVE  IInv'
<1>1. Base /\ Base' /\ req[p].at \in Instances /\ inst[req[p].at].pc = "up" /\ inst' = inst
      /\ UNCHANGED row
  BY InvalidateBase, AdapterBase DEF IInv, Invalidate, AdapterSet, At, Base, Served, db
<1>2. Active' = Active /\ ActiveCopies' = ActiveCopies
  BY <1>1 DEF Active, ActiveCopies
<1>3. \A i \in Instances : i = req[p].at
  BY <1>1 DEF OneInstance
<1>4. CacheStaleOnlyIfLate'
  <2>1. CASE Invalidate(p)
    <3>1. cache'[req[p].at] = NoCopy
      BY <2>1, <1>1 DEF Invalidate, Base, TypeOK
    <3> QED
      BY <3>1, <1>3 DEF CacheStaleOnlyIfLate, Cached
  <2>2. CASE AdapterSet(p)
    <3> DEFINE copy == [id |-> req[p].id, key |-> req[p].copy.key]
    <3>1. cache'[req[p].at] = copy
      BY <2>2, <1>1 DEF AdapterSet, Base, TypeOK
    <3>2. req[p].at \notin late' => copy \in ActiveCopies
      BY <2>2 DEF AdapterSet
    <3> HIDE DEF copy
    <3> QED
      BY <3>1, <3>2, <1>2, <1>3 DEF CacheStaleOnlyIfLate
  <2> QED
    BY <2>1, <2>2
<1> QED
  BY <1>1, <1>2, <1>4, ServingSteady DEF IInv, AtMostOneActive

\* Without a cached provider, nothing is stale.
LEMMA NothingCached ==
  ASSUME \A i \in Instances : ~ Cached(i)'
  PROVE  CacheStaleOnlyIfLate'
  BY DEF CacheStaleOnlyIfLate

LEMMA BootSafe ==
  ASSUME OneInstance, IInv, NEW i \in Instances,
         Start(i) \/ SeedList(i) \/ SeedActive(i) \/ SeedDone(i)
  PROVE  IInv'
<1>1. Base /\ Base' /\ UNCHANGED <<row, cache, req, late>> /\ inst[i].pc # "up"
  BY BootBase DEF IInv, Start, SeedList, SeedActive, SeedDone, db
<1>2. ~ Cached(i) /\ Active' = Active /\ \A j \in Instances : j = i
  BY <1>1 DEF IInv, Steady, Active, OneInstance
<1>3. CacheStaleOnlyIfLate'
  BY <1>1, <1>2, NothingCached DEF Cached
<1>4. Steady(i)'
  <2>1. ~ Cached(i)'
    BY <1>1, <1>2 DEF Cached
  <2>2. ASSUME inst'[i].pc \notin {"active", "save"} PROVE Steady(i)'
    BY <2>1, <2>2 DEF Steady
  <2>3. CASE Start(i)
    <3>1. inst'[i].pc \notin {"active", "save"}
      BY <2>3, IdleRequest DEF Start, Base, TypeOK, Seeding
    <3> QED
      BY <2>2, <3>1
  <2>4. CASE SeedDone(i)
    <3>1. inst'[i].pc \notin {"active", "save"}
      BY <2>4, <1>1, IdleRequest DEF SeedDone, Base, TypeOK
    <3> QED
      BY <2>2, <3>1
  <2>5. CASE SeedList(i)
    <3> DEFINE known == {row[x].name : x \in {y \in Ids : Stored(y)}}
               found == [Down EXCEPT !.pc = "active", !.known = known]
    <3>1. inst'[i] = found \/ inst'[i] = Up
      BY <2>5, <1>1 DEF SeedList, Base, TypeOK
    <3>2. Down \in Seeding
      BY IdleRequest
    <3>3. found.pc = "active" /\ found.known = known
      BY <3>2 DEF Seeding
    <3>4. \A y \in Ids : Stored(y) => row[y].name \in known
      OBVIOUS
    <3> HIDE DEF known, found
    <3>5. CASE inst'[i] = found
      BY <3>3, <3>4, <3>5, <1>1, <2>1 DEF Steady, Stored
    <3>6. CASE inst'[i] = Up
      BY <3>6, <2>2, IdleRequest
    <3> QED
      BY <3>1, <3>5, <3>6
  <2>6. CASE SeedActive(i)
    <3>1. inst[i] \in Seeding
      BY <1>1 DEF Base, TypeOK
    <3>2. \/ inst' = [inst EXCEPT ![i].pc = "save", ![i].needActive = (Active = {})]
          \/ inst' = [inst EXCEPT ![i].pc = "save", ![i].needActive = FALSE]
      BY <2>6 DEF SeedActive
    <3>3. \/ inst'[i] = [inst[i] EXCEPT !.pc = "save", !.needActive = (Active = {})]
          \/ inst'[i] = [inst[i] EXCEPT !.pc = "save", !.needActive = FALSE]
      BY <3>2, <1>1 DEF Base, TypeOK
    <3>4. inst'[i].pc = "save" /\ inst'[i].known = inst[i].known /\ inst'[i].todo = inst[i].todo
          /\ (inst'[i].needActive => Active = {})
      BY <3>1, <3>3 DEF Seeding
    <3>5. \A y \in Ids : Stored(y) =>
             \/ row[y].name \in inst[i].known
             \/ \E k \in 1 .. inst[i].todo - 1 : row[y].name = Defaults[k]
      BY <2>6 DEF IInv, Steady, SeedActive
    <3> QED
      BY <3>4, <3>5, <1>1, <1>2, <2>1 DEF Steady, Stored
  <2> QED
    BY <2>3, <2>4, <2>5, <2>6
<1> QED
  BY <1>1, <1>2, <1>3, <1>4 DEF IInv, AtMostOneActive

LEMMA CrashSafe ==
  ASSUME OneInstance, IInv, NEW i \in Instances, Crash(i)
  PROVE  IInv'
<1>1. Base /\ Base' /\ row' = row /\ inst'[i].pc = "down" /\ cache'[i] = NoCopy
      /\ \A j \in Instances : j = i
  BY CrashBase, IdleRequest DEF IInv, Crash, Base, TypeOK, db, OneInstance
<1>2. Active' = Active
  BY <1>1 DEF Active
<1>3. CacheStaleOnlyIfLate'
  BY <1>1, NothingCached DEF Cached
<1>4. \A j \in Instances : Steady(j)'
  BY <1>1 DEF Steady, Cached
<1> QED
  BY <1>1, <1>2, <1>3, <1>4 DEF IInv, AtMostOneActive

\* The default that seeding inserts has a name that no stored provider has.
LEMMA SeedNameNew ==
  ASSUME IInv, NEW i \in Instances, inst[i].pc = "save", NEW k \in Missing(i),
         inst' = [inst EXCEPT ![i].todo = k + 1, ![i].needActive = FALSE]
  PROVE  \A y \in Ids : row[y].name # Defaults[k]
<1>1. k \in Nat /\ k >= inst[i].todo /\ k \in DOMAIN Defaults
      /\ Defaults[k] \in Names /\ Defaults[k] \notin inst[i].known
  BY SeedSaveFacts DEF IInv
<1>2. inst[i].todo \in Nat /\ inst[i].todo <= Len(Defaults) + 1 /\ Len(Defaults) \in Nat
  BY ProviderAssumption DEF IInv, Base, TypeOK, Seeding
<1>3. \A j \in 1 .. inst[i].todo - 1 : Defaults[j] # Defaults[k]
  BY <1>1, <1>2, ProviderAssumption
<1>4. \A y \in Ids : Stored(y) => row[y].name # Defaults[k]
  BY <1>1, <1>3 DEF IInv, Steady
<1>5. \A y \in Ids : ~ Stored(y) => row[y].name # Defaults[k]
  BY <1>1, ProviderAssumption DEF Stored, NoRow
<1> QED
  BY <1>4, <1>5

LEMMA SeedSaveSafe ==
  ASSUME OneInstance, IInv, NEW i \in Instances, SeedSave(i)
  PROVE  IInv'
<1>1. Base /\ Base' /\ UNCHANGED <<cache, req, late>> /\ inst[i].pc = "save"
      /\ \A j \in Instances : j = i
  BY SeedSaveBase DEF IInv, SeedSave, OneInstance
<1>2. PICK k \in Missing(i) :
        /\ \/ \E x \in fresh : Insert(x, Defaults[k], inst[i].needActive, NoKey)
           \/ UNCHANGED db
        /\ inst' = [inst EXCEPT ![i].todo = k + 1, ![i].needActive = FALSE]
  BY DEF SeedSave
<1>3. k \in Nat /\ k >= inst[i].todo /\ k >= 1 /\ Defaults[k] \in Names
      /\ inst[i] \in Seeding /\ inst[i].todo \in Nat
      /\ inst'[i] = [inst[i] EXCEPT !.todo = k + 1, !.needActive = FALSE]
  <2>1. inst[i] \in Seeding /\ inst \in [Instances -> Seeding]
    BY <1>1 DEF Base, TypeOK
  <2>2. inst[i].todo \in Nat /\ inst[i].todo >= 1
    BY <2>1, ProviderAssumption DEF Seeding
  <2>3. k \in Nat /\ k >= inst[i].todo /\ Defaults[k] \in Names
        /\ inst' = [inst EXCEPT ![i] = [inst[i] EXCEPT !.todo = k + 1, !.needActive = FALSE]]
    BY <1>1, <1>2, SeedSaveFacts
  <2>4. inst'[i] = [inst[i] EXCEPT !.todo = k + 1, !.needActive = FALSE]
    BY <2>1, <2>3
  <2> QED
    BY <2>1, <2>2, <2>3, <2>4
<1>4. inst'[i].pc = "save" /\ inst'[i].todo = k + 1 /\ inst'[i].needActive = FALSE
      /\ inst'[i].known = inst[i].known
  BY <1>1, <1>3 DEF Seeding
<1>5. ~ Cached(i)'
  BY <1>1 DEF IInv, Steady, Cached
<1>6. \A y \in Ids : Stored(y) =>
         \/ row[y].name \in inst[i].known
         \/ \E j \in 1 .. k : row[y].name = Defaults[j]
  BY <1>1, <1>3 DEF IInv, Steady
<1>7. AtMostOneActive' /\ \A y \in Ids : Stored(y)' =>
         \/ row'[y].name \in inst[i].known
         \/ \E j \in 1 .. k : row'[y].name = Defaults[j]
  <2>1. CASE UNCHANGED db
    BY <2>1, <1>6 DEF IInv, AtMostOneActive, Active, Stored, db
  <2>2. ASSUME NEW x \in fresh, Insert(x, Defaults[k], inst[i].needActive, NoKey)
        PROVE  AtMostOneActive' /\ \A y \in Ids : Stored(y)' =>
                 \/ row'[y].name \in inst[i].known
                 \/ \E j \in 1 .. k : row'[y].name = Defaults[j]
    <3>1. x \in Ids /\ inst[i].needActive \in BOOLEAN /\ NoKey \in MaybeKey /\ row[x] = NoRow
      BY <1>1, <1>3 DEF Base, TypeOK, FreshUnused, Seeding, MaybeKey
    <3>2. row'[x] = [name |-> Defaults[k], active |-> inst[i].needActive, key |-> NoKey]
          /\ \A y \in Ids \ {x} : row'[y] = row[y]
      BY <2>2, <3>1, <1>1, <1>3, InsertBase
    <3>3. CASE inst[i].needActive
      <4>1. Active = {}
        BY <3>3, <1>1 DEF IInv, Steady
      <4>2. \A y \in Active' : y = x
        BY <4>1, <3>2 DEF Active
      <4> QED
        BY <4>2, <3>2, <1>3, <1>6 DEF AtMostOneActive, Stored
    <3>4. CASE ~ inst[i].needActive
      <4>1. Active' = Active
        BY <3>1, <3>2, <3>4, NoRowFacts DEF Active
      <4> QED
        BY <4>1, <3>2, <1>3, <1>6 DEF IInv, AtMostOneActive, Stored
    <3> QED
      BY <3>1, <3>3, <3>4
  <2> QED
    BY <1>2, <2>1, <2>2
<1>8. Steady(i)'
  BY <1>3, <1>4, <1>5, <1>7 DEF Steady
<1>9. CacheStaleOnlyIfLate'
  BY <1>1, <1>5, NothingCached
<1> QED
  BY <1>1, <1>7, <1>8, <1>9 DEF IInv

LEMMA NextKeepsIInv ==
  ASSUME OneInstance, IInv, [Next]_vars
  PROVE  IInv'
<1>1. CASE UNCHANGED vars
  <2>1. Base' /\ Active' = Active
    BY <1>1, NextKeepsBase DEF IInv, Active, vars, db
  <2>2. CacheStaleOnlyIfLate'
    BY <1>1, SameCopies DEF IInv, Changing, At, vars, db
  <2>3. \A i \in Instances : Steady(i)'
    BY <1>1, <2>1 DEF IInv, Steady, Cached, Stored, vars, db
  <2> QED
    BY <2>1, <2>2, <2>3 DEF IInv, AtMostOneActive
<1>2. ASSUME NEW i \in Instances,
             Start(i) \/ SeedList(i) \/ SeedActive(i) \/ SeedSave(i) \/ SeedDone(i) \/ Crash(i)
      PROVE  IInv'
  BY <1>2, BootSafe, SeedSaveSafe, CrashSafe
<1>3. ASSUME NEW p \in Procs, NEW i \in Instances, NEW x \in Ids,
             \/ \E n \in Names, k \in MaybeKey, on \in BOOLEAN : Create(p, i, x, n, k, on)
             \/ \E k \in MaybeKey : Update(p, i, x, k)
             \/ Activate(p, i, x) \/ Delete(p, i, x)
      PROVE  IInv'
  BY <1>3, CommandSafe
<1>4. ASSUME NEW p \in Procs,
             \/ \E i \in Instances : AdapterGet(p, i)
             \/ CreateActivate(p) \/ UpdateWrite(p) \/ Invalidate(p)
             \/ AdapterRead(p) \/ AdapterSet(p) \/ Fail(p)
      PROVE  IInv'
  BY <1>4, WriteSafe, ReadSafe, CacheSafe
<1> QED
  BY <1>1, <1>2, <1>3, <1>4 DEF Next, MaybeKey

LEMMA IInvAlways == ASSUME OneInstance PROVE Spec => []IInv
  BY InitIInv, NextKeepsIInv, PTL DEF Spec

\* On one instance, two providers are never active, whatever is created, activated,
\* seeded and crashes: nothing is served between what seeding reads and what it inserts.
THEOREM OneActive == ASSUME OneInstance PROVE Spec => []AtMostOneActive
<1>1. IInv => AtMostOneActive
  BY DEF IInv
<1> QED
  BY <1>1, IInvAlways, PTL

\* On one instance, turns use the active provider as it is stored, until a change has
\* been made and not yet invalidated, or a fill came after a change its read had missed.
THEOREM CacheFollows == ASSUME OneInstance PROVE Spec => []CacheStaleOnlyIfLate
<1>1. IInv => CacheStaleOnlyIfLate
  BY DEF IInv
<1> QED
  BY <1>1, IInvAlways, PTL

LEMMA SeedStepMissing ==
  ASSUME OneInstance, IInv, Next, NEW i \in Instances, NEW x \in fresh \ fresh',
         inst[i].pc = "save", inst'[i] # inst[i]
  PROVE  \A y \in Ids : row[y].name # row'[x].name
<1>1. \A j \in Instances : j = i
  BY DEF OneInstance
<1>2. ASSUME NEW j \in Instances, SeedSave(j)
      PROVE  \A y \in Ids : row[y].name # row'[x].name
  <2>1. PICK k \in Missing(i) :
        /\ \/ \E z \in fresh : Insert(z, Defaults[k], inst[i].needActive, NoKey)
           \/ UNCHANGED db
        /\ inst' = [inst EXCEPT ![i].todo = k + 1, ![i].needActive = FALSE]
    BY <1>1, <1>2 DEF SeedSave
  <2>2. Insert(x, Defaults[k], inst[i].needActive, NoKey)
    BY <2>1 DEF Insert, db
  <2>3. row'[x].name = Defaults[k]
    BY <2>2 DEF Insert, IInv, Base, TypeOK
  <2> QED
    BY <2>1, <2>3, SeedNameNew
<1>3. ASSUME NEW j \in Instances,
             Start(j) \/ SeedList(j) \/ SeedActive(j) \/ SeedDone(j) \/ Crash(j)
      PROVE  FALSE
  BY <1>3 DEF Start, SeedList, SeedActive, SeedDone, Crash, db
<1>4. ASSUME NEW p \in Procs, NEW j \in Instances, NEW z \in Ids,
             \/ \E n \in Names, k \in MaybeKey, on \in BOOLEAN : Create(p, j, z, n, k, on)
             \/ \E k \in MaybeKey : Update(p, j, z, k)
             \/ Activate(p, j, z) \/ Delete(p, j, z)
      PROVE  FALSE
  BY <1>4 DEF Create, Update, Activate, Delete
<1>5. ASSUME NEW p \in Procs,
             \/ \E j \in Instances : AdapterGet(p, j)
             \/ CreateActivate(p) \/ UpdateWrite(p) \/ Invalidate(p)
             \/ AdapterRead(p) \/ AdapterSet(p) \/ Fail(p)
      PROVE  FALSE
  BY <1>5 DEF AdapterGet, CreateActivate, UpdateWrite, Invalidate, AdapterRead, AdapterSet,
              Fail, Refuse
<1> QED
  BY <1>2, <1>3, <1>4, <1>5 DEF Next, MaybeKey

\* On one instance, seeding adds a default only if no provider has its name, however
\* often it was cut short before and whatever administrators stored in between.
THEOREM SeedsMissing == ASSUME OneInstance PROVE Spec => SeedsOnlyMissing
<1>1. ASSUME IInv, [Next]_vars
      PROVE  [\A i \in Instances, x \in fresh \ fresh' :
                inst[i].pc = "save" /\ inst'[i] # inst[i] =>
                  \A y \in Ids : row[y].name # row'[x].name]_vars
  BY <1>1, SeedStepMissing
<1> QED
  BY <1>1, IInvAlways, PTL DEF Spec, SeedsOnlyMissing

-----------------------------------------------------------------------------
(* Sequences of events, whatever they are *)

Sequence(s) == s \in Seq({s[i] : i \in DOMAIN s})

LEMMA Appended ==
  ASSUME NEW s, Sequence(s), NEW e
  PROVE  /\ Sequence(Append(s, e)) /\ Sequence(<<e>>) /\ Sequence(<<>>)
         /\ Len(s) \in Nat /\ DOMAIN s = 1 .. Len(s)
         /\ DOMAIN Append(s, e) = 1 .. Len(s) + 1
         /\ Append(s, e)[Len(s) + 1] = e
         /\ \A i \in DOMAIN s : Append(s, e)[i] = s[i]
         /\ Append(s, e) # <<>>
<1> DEFINE E == {s[i] : i \in DOMAIN s} \cup {e}
           t == Append(s, e)
<1>1. s \in Seq(E) /\ Len(s) \in Nat /\ DOMAIN s = 1 .. Len(s)
  BY DEF Sequence
<1>2. /\ t \in Seq(E) /\ Len(t) = Len(s) + 1 /\ t[Len(s) + 1] = e
      /\ \A i \in 1 .. Len(s) : t[i] = s[i]
  BY <1>1
<1>3. DOMAIN t = 1 .. Len(s) + 1
  BY <1>1, <1>2
<1> HIDE DEF t
<1>4. ASSUME NEW u, NEW F, u \in Seq(F) PROVE Sequence(u)
  <2>1. Len(u) \in Nat /\ DOMAIN u = 1 .. Len(u) /\ u = [i \in 1 .. Len(u) |-> u[i]]
    BY <1>4
  <2>2. u \in [1 .. Len(u) -> {u[i] : i \in DOMAIN u}]
    BY <2>1
  <2> QED
    BY <2>1, <2>2 DEF Sequence
<1>5. <<e>> \in Seq({e}) /\ <<>> \in Seq({e})
  OBVIOUS
<1>6. Sequence(t) /\ Sequence(<<e>>) /\ Sequence(<<>>)
  BY <1>2, <1>4, <1>5
<1>7. t # <<>>
  BY <1>2, <1>1
<1> QED
  BY <1>1, <1>2, <1>3, <1>6, <1>7 DEF t

\* f gives what is kept of every beginning of s.
UpTo(f, s, kind) ==
    /\ f[0] = <<>>
    /\ \A n \in Nat : f[n + 1] = IF s[n + 1].kind = kind THEN Append(f[n], s[n + 1]) ELSE f[n]

LEMMA OnlyUpTo ==
  ASSUME NEW s, Sequence(s), NEW kind
  PROVE  \E f : Only(s, kind) = f[Len(s)] /\ UpTo(f, s, kind)
<1> DEFINE V == Seq({s[i] : i \in Nat})
           step == [x \in Nat \X V |-> IF s[x[1]].kind = kind THEN Append(x[2], s[x[1]]) ELSE x[2]]
           Unfolds(f) == f = [n \in Nat |->
                IF n = 0 THEN <<>>
                ELSE IF s[n].kind = kind THEN Append(f[n - 1], s[n]) ELSE f[n - 1]]
           f == CHOOSE g : Unfolds(g)
<1>1. \A n \in Nat, v \in V : step[n, v] = IF s[n].kind = kind THEN Append(v, s[n]) ELSE v
  OBVIOUS
<1>2. step \in [Nat \X V -> V]
  <2>1. \A n \in Nat, v \in V : Append(v, s[n]) \in V
    OBVIOUS
  <2> QED
    BY <2>1
<1>3. <<>> \in V
  OBVIOUS
<1> HIDE DEF V, step
<1>4. PICK g : Recurs(g, V, <<>>, step)
  BY <1>2, <1>3, NatRecursion
<1>5. \A n \in Nat \ {0} : g[n] = IF s[n].kind = kind THEN Append(g[n - 1], s[n]) ELSE g[n - 1]
  <2> SUFFICES ASSUME NEW n \in Nat \ {0}
               PROVE  g[n] = IF s[n].kind = kind THEN Append(g[n - 1], s[n]) ELSE g[n - 1]
    OBVIOUS
  <2>1. n - 1 \in Nat
    OBVIOUS
  <2>2. g[n] = step[n, g[n - 1]] /\ g[n - 1] \in V
    BY <1>4, <2>1 DEF Recurs
  <2> QED
    BY <1>1, <2>2
<1>6. Unfolds(g)
  <2>1. g[0] = <<>> /\ g = [n \in Nat |-> g[n]]
    BY <1>4 DEF Recurs
  <2>2. \A n \in Nat : g[n] = IF n = 0 THEN <<>>
                ELSE IF s[n].kind = kind THEN Append(g[n - 1], s[n]) ELSE g[n - 1]
    BY <1>5, <2>1
  <2> QED
    BY <2>1, <2>2
<1>7. Unfolds(f)
  <2> HIDE DEF Unfolds
  <2> QED
    BY <1>6
<1>8. Only(s, kind) = f[Len(s)]
  BY DEF Only
<1> HIDE DEF f
<1>9. f[0] = <<>>
  BY <1>7
<1>10. ASSUME NEW n \in Nat
       PROVE  f[n + 1] = IF s[n + 1].kind = kind THEN Append(f[n], s[n + 1]) ELSE f[n]
  <2>1. n + 1 \in Nat /\ n + 1 # 0 /\ (n + 1) - 1 = n
    OBVIOUS
  <2>2. \A k \in Nat : k # 0 => f[k] = IF s[k].kind = kind THEN Append(f[k - 1], s[k]) ELSE f[k - 1]
    BY <1>7
  <2> QED
    BY <2>1, <2>2
<1> QED
  BY <1>8, <1>9, <1>10 DEF UpTo

LEMMA OnlyAppended ==
  ASSUME NEW s, Sequence(s), NEW e, NEW kind
  PROVE  /\ Only(<<>>, kind) = <<>>
         /\ Only(Append(s, e), kind) = IF e.kind = kind THEN Append(Only(s, kind), e) ELSE Only(s, kind)
<1> DEFINE t == Append(s, e)
<1>1. /\ Sequence(t) /\ Sequence(<<>>) /\ Len(s) \in Nat /\ Len(t) = Len(s) + 1
      /\ \A i \in 1 .. Len(s) : t[i] = s[i]
      /\ t[Len(s) + 1] = e
  BY Appended DEF Sequence
<1> HIDE DEF t
<1>2. PICK f : Only(s, kind) = f[Len(s)] /\ UpTo(f, s, kind)
  BY OnlyUpTo
<1>3. PICK g : Only(t, kind) = g[Len(t)] /\ UpTo(g, t, kind)
  BY <1>1, OnlyUpTo
<1>4. PICK h : Only(<<>>, kind) = h[Len(<<>>)] /\ UpTo(h, <<>>, kind)
  BY <1>1, OnlyUpTo
<1> DEFINE S == {n \in Nat : n <= Len(s) => f[n] = g[n]}
<1>5. 0 \in S
  BY <1>2, <1>3 DEF UpTo
<1>6. \A n \in Nat : n \in S => n + 1 \in S
  <2> SUFFICES ASSUME NEW n \in Nat, n \in S, n + 1 <= Len(s)
               PROVE  f[n + 1] = g[n + 1]
    OBVIOUS
  <2>1. n + 1 \in 1 .. Len(s) /\ f[n] = g[n]
    BY <1>1
  <2>2. t[n + 1] = s[n + 1]
    BY <1>1, <2>1
  <2> QED
    BY <1>2, <1>3, <2>1, <2>2 DEF UpTo
<1>7. Nat \subseteq S
  <2> HIDE DEF S
  <2> QED
    BY <1>5, <1>6, NatInduct
<1>8. f[Len(s)] = g[Len(s)]
  BY <1>1, <1>7
<1>9. g[Len(s) + 1] = IF e.kind = kind THEN Append(g[Len(s)], e) ELSE g[Len(s)]
  BY <1>1, <1>3 DEF UpTo
<1> QED
  BY <1>1, <1>2, <1>3, <1>4, <1>8, <1>9 DEF t, UpTo

-----------------------------------------------------------------------------
(* The steps of the provider's stream *)

\* What an adapter collects of a call.
Blocks == [key : Nat, id : Nat \X Nat, args : Int]

\* What an adapter makes of the reasons that providers give for a stop.
Reasons == {"", "max_tokens", "tool_use", "end_turn", "length", "tool_calls", "stop", "MAX_TOKENS", "STOP"}

Sayings == [text : Nat, thought : Nat, calls : Seq(Int), why : {"none", "end", "cut"}, used : [total : Int]]
Accs == [calls : Seq(Blocks), finish : Reasons, usage : [total : Int], thinking : Nat]

StreamTypes ==
    /\ turn \in 0 .. MaxTurns
    /\ adapter \in Protocols
    /\ phase \in {"idle", "ask", "stream", "final", "stopped", "failed"}
    /\ alive \in BOOLEAN
    /\ said \in Sayings /\ acc \in Accs
    /\ Sequence(todo) /\ Sequence(out)

\* What is still to be written and what has been, phase by phase.
Order ==
    /\ phase # "final" => todo = <<>>
    /\ phase = "final" =>
          /\ todo # <<>>
          /\ \A i \in DOMAIN todo : todo[i].kind = IF i = Len(todo) THEN "stop" ELSE "tool_call"
    /\ phase \in {"idle", "ask"} => out = <<>>
    /\ phase = "stream" => \A i \in DOMAIN out : out[i].kind \in {"content", "thinking"}
    /\ phase = "final" => \A i \in DOMAIN out : out[i].kind \in {"content", "thinking", "tool_call"}
    /\ phase = "failed" => ~ Told
    /\ phase = "stopped" /\ Told => alive
    /\ phase = "idle" => turn = 0

\* What the adapter has kept of the provider's calls.
Collected ==
    /\ \A j \in DOMAIN acc.calls :
          /\ acc.calls[j].key \in Begun
          /\ acc.calls[j].args = said.calls[acc.calls[j].key]
          /\ acc.calls[j].id[2] = acc.calls[j].key
          /\ ~ Mixes => acc.calls[j].key = j
    /\ \A k \in Begun : \E j \in DOMAIN acc.calls : acc.calls[j].key = k
    /\ \A i, j \in DOMAIN acc.calls : acc.calls[i].key = acc.calls[j].key => i = j

Concluded ==
    /\ said.why = "none" => acc.usage = NoUsage /\ said.used = NoUsage
    /\ said.why # "none" =>
          /\ acc.usage = said.used
          /\ \A k \in Begun : 1 .. k \subseteq Begun
    /\ said.why = "end" => NormalizeStopReason(acc.finish, acc.calls # <<>>)
                              = IF acc.calls = <<>> THEN "end_turn" ELSE "tool_use"
Contents == [n \in 1 .. said.text |-> Delta(n)]
Passed ==
    /\ (phase \in {"ask", "stream"} /\ alive) =>
          Seen("content") = Contents /\ Seen("tool_call") = <<>> /\ Seen("stop") = <<>>
    /\ (phase = "final" /\ alive) =>
          /\ Seen("content") = Contents /\ Seen("stop") = <<>>
          /\ Sequence(Seen("tool_call")) /\ Seen("tool_call") \o todo = FinalEvents
    /\ (phase = "stopped" /\ Told) =>
          Seen("content") = Contents /\ Seen("tool_call") = CallEvents /\ Seen("stop") = <<StopEvent>>

LEMMA TextFacts ==
  ASSUME StreamTypes, SayText
  PROVE  /\ said' = [said EXCEPT !.text = said.text + 1] /\ acc' = acc
         /\ Emit(Delta(said.text + 1))
         /\ UNCHANGED <<turn, adapter, phase, history, sent, todo, alive>>
         /\ phase = "stream" /\ said.why = "none"
<1> DEFINE e == [kind |-> "text", piece |-> said.text + 1]
<1>1. On(acc, e) = Does(Delta(said.text + 1), acc)
  BY DEF On, ClaudeOn, OpenAIOn, ResponsesOn, GeminiOn, OllamaOn, StreamTypes, Protocols
<1>2. On(acc, e).acc = acc /\ On(acc, e).chunk = Delta(said.text + 1) /\ Delta(said.text + 1) # Nothing
  <2>1. Delta(said.text + 1).kind = "content" /\ Nothing.kind = "nothing"
    BY DEF Delta, Nothing
  <2> QED
    BY <1>1, <2>1 DEF Does
<1> QED
  BY <1>2 DEF SayText, Comes, Saying, Streaming

LEMMA ThoughtFacts ==
  ASSUME StreamTypes, SayThought
  PROVE  /\ said' = [said EXCEPT !.thought = said.thought + 1]
         /\ acc' = acc \/ acc' = [acc EXCEPT !.thinking = turn]
         /\ Emit(Thought)
         /\ UNCHANGED <<turn, adapter, phase, history, sent, todo, alive>>
         /\ phase = "stream" /\ said.why = "none"
<1> DEFINE e == [kind |-> "thought"]
<1>1. On(acc, e) = Does(Thought, acc) \/ On(acc, e) = Does(Thought, [acc EXCEPT !.thinking = turn])
  BY DEF On, ClaudeOn, ResponsesOn, SayThought
<1>2. On(acc, e).acc \in {acc, [acc EXCEPT !.thinking = turn]} /\ On(acc, e).chunk = Thought /\ Thought # Nothing
  <2>1. Thought.kind = "thinking" /\ Nothing.kind = "nothing"
    BY DEF Thought, Nothing
  <2> QED
    BY <1>1, <2>1 DEF Does
<1> QED
  BY <1>2 DEF SayThought, Comes, Saying, Streaming

LEMMA CallFacts ==
  ASSUME StreamTypes, NEW k \in DOMAIN said.calls, SayCall(k)
  PROVE  /\ said' = [said EXCEPT !.calls[k] = 0]
         /\ \E id \in Nat \X Nat :
               /\ acc' = [acc EXCEPT !.calls = Append(acc.calls, [key |-> k, id |-> id, args |-> 0])]
               /\ id = <<turn, k>> \/ (adapter = "gemini" /\ id = <<0, Len(acc.calls) + 1>>)
         /\ UNCHANGED <<turn, adapter, phase, history, sent, todo, out, alive>>
         /\ phase = "stream" /\ said.why = "none" /\ said.calls[k] < 0 /\ k \in Nat
<1>1. PICK id \in IdsOf(k) : Comes([kind |-> "call", key |-> k, id |-> id])
  BY DEF SayCall
<1> DEFINE e == [kind |-> "call", key |-> k, id |-> id]
           given == IF adapter = "gemini" /\ id = <<0, 0>> THEN <<0, Len(acc.calls) + 1>> ELSE id
<1>2. On(acc, e) = Keeps(AddCall(acc, k, given, 0))
  BY DEF On, ClaudeOn, OpenAIOn, ResponsesOn, GeminiOn, OllamaOn, GeminiId, StreamTypes, Protocols
<1>3. On(acc, e).acc = AddCall(acc, k, given, 0) /\ On(acc, e).chunk = Nothing
  BY <1>2 DEF Keeps, Does
<1>4. k \in Nat /\ Len(acc.calls) \in Nat /\ turn \in Nat
  BY StreamsAssumption DEF StreamTypes, Sayings, Accs, MaxTurns
<1>5. given \in Nat \X Nat /\ (given = <<turn, k>> \/ (adapter = "gemini" /\ given = <<0, Len(acc.calls) + 1>>))
  BY <1>4 DEF IdsOf
<1>6. acc' = [acc EXCEPT !.calls = Append(acc.calls, [key |-> k, id |-> given, args |-> 0])]
  BY <1>1, <1>3 DEF Comes, AddCall
<1> HIDE DEF given
<1> QED
  BY <1>1, <1>3, <1>4, <1>5, <1>6 DEF Comes, SayCall, Saying, Streaming

LEMMA ArgumentsFacts ==
  ASSUME StreamTypes, NEW k \in DOMAIN said.calls, SayArguments(k)
  PROVE  /\ said' = [said EXCEPT !.calls[k] = said.calls[k] + 1]
         /\ acc' = MoreArgs(acc, IF adapter = "claude" THEN acc.calls[Len(acc.calls)].key ELSE k)
         /\ UNCHANGED <<turn, adapter, phase, history, sent, todo, out, alive>>
         /\ phase = "stream" /\ said.why = "none" /\ said.calls[k] >= 0
<1> DEFINE e == [kind |-> "args", key |-> k]
<1>1. On(acc, e) = Keeps(MoreArgs(acc, IF adapter = "claude" THEN acc.calls[Len(acc.calls)].key ELSE k))
  BY DEF On, ClaudeOn, OpenAIOn, ResponsesOn, SayArguments, InPieces
<1>2. /\ On(acc, e).acc = MoreArgs(acc, IF adapter = "claude" THEN acc.calls[Len(acc.calls)].key ELSE k)
      /\ On(acc, e).chunk = Nothing
  BY <1>1 DEF Keeps, Does
<1> QED
  BY <1>2 DEF SayArguments, Comes, Saying, Streaming, Begun

LEMMA FinishFacts ==
  ASSUME StreamTypes, NEW why \in {"end", "cut"}, SayFinish(why)
  PROVE  /\ \E reason \in Reasons, usage, used \in [total : Int] :
               /\ said' = [said EXCEPT !.why = why, !.used = used]
               /\ acc' = [acc EXCEPT !.finish = reason, !.usage = usage]
               /\ usage = used \/ (usage = acc.usage /\ used = said.used)
               /\ why = "end" => NormalizeStopReason(reason, Begun # {})
                                   = IF Begun = {} THEN "end_turn" ELSE "tool_use"
         /\ \A k \in Begun : 1 .. k \subseteq Begun
         /\ UNCHANGED <<turn, adapter, phase, history, sent, todo, out, alive>>
         /\ phase = "stream" /\ said.why = "none"
<1>0. PICK c \in Counts : \E counts \in Reports(c) :
         /\ said' = [said EXCEPT !.why = why,
                        !.used = IF counts = NoUsage THEN @ ELSE [total |-> c.fresh + c.cached + c.out]]
         /\ Comes([kind |-> "finish", reason |-> RawReason(why), counts |-> counts])
  BY DEF SayFinish
<1>1. PICK counts \in Reports(c) :
         /\ said' = [said EXCEPT !.why = why,
                        !.used = IF counts = NoUsage THEN @ ELSE [total |-> c.fresh + c.cached + c.out]]
         /\ Comes([kind |-> "finish", reason |-> RawReason(why), counts |-> counts])
  BY <1>0
<1> DEFINE reason == RawReason(why)
           e == [kind |-> "finish", reason |-> reason, counts |-> counts]
           told == IF adapter = "responses"
                   THEN IF reason = "max_output_tokens" THEN "max_tokens" ELSE ""
                   ELSE reason
           usage == IF counts = NoUsage THEN acc.usage
                    ELSE [total |-> c.fresh + c.cached + c.out]
           used == IF counts = NoUsage THEN said.used
                   ELSE [total |-> c.fresh + c.cached + c.out]
<1>2. c.fresh \in Nat /\ c.cached \in Nat /\ c.out \in Nat
  BY StreamsAssumption
<1>3. counts = Reported(c) \/ (counts = NoUsage /\ adapter \in {"openai", "gemini"})
  BY DEF Reports
<1>4. Reported(c) # NoUsage
  <2>1. DOMAIN Reported(c) = {"input", "cached", "out"} /\ DOMAIN NoUsage = {"total"}
    BY DEF Reported, NoUsage
  <2> QED
    BY <2>1
<1>5. counts = Reported(c) =>
         /\ counts.input + counts.out = IF adapter = "claude" THEN c.fresh + c.out ELSE c.fresh + c.cached + c.out
         /\ adapter = "claude" => counts.input + counts.cached + counts.out = c.fresh + c.cached + c.out
  BY <1>2 DEF Reported
<1>6. On(acc, e) = Keeps([acc EXCEPT !.finish = told, !.usage = usage])
  <2> HIDE DEF reason
  <2>1. CASE adapter = "claude"
    BY <1>3, <1>4, <1>5, <2>1 DEF On, ClaudeOn, ClaudeUsage
  <2>2. CASE adapter = "openai"
    BY <1>3, <1>4, <1>5, <2>2 DEF On, OpenAIOn
  <2>3. CASE adapter = "responses"
    BY <1>3, <1>4, <1>5, <2>3 DEF On, ResponsesOn
  <2>4. CASE adapter = "gemini"
    BY <1>3, <1>4, <1>5, <2>4 DEF On, GeminiOn
  <2>5. CASE adapter = "ollama"
    BY <1>3, <1>4, <1>5, <2>5 DEF On, OllamaOn
  <2> QED
    BY <2>1, <2>2, <2>3, <2>4, <2>5 DEF StreamTypes, Protocols
<1>7. On(acc, e).acc = [acc EXCEPT !.finish = told, !.usage = usage] /\ On(acc, e).chunk = Nothing
  BY <1>6 DEF Keeps, Does
<1>8. usage \in [total : Int] /\ used \in [total : Int]
  BY <1>2 DEF StreamTypes, Sayings, Accs
<1>9. usage = used \/ (usage = acc.usage /\ used = said.used)
  OBVIOUS
<1>10. told \in Reasons
  BY DEF RawReason, StreamTypes, Protocols, Reasons
<1>11. why = "end" => NormalizeStopReason(told, Begun # {}) = IF Begun = {} THEN "end_turn" ELSE "tool_use"
  <2> SUFFICES ASSUME why = "end"
               PROVE  NormalizeStopReason(told, Begun # {}) = IF Begun = {} THEN "end_turn" ELSE "tool_use"
    OBVIOUS
  <2>1. /\ told \in {"tool_use", "end_turn", "tool_calls", "stop", "", "STOP"}
        /\ told \in {"tool_use", "tool_calls"} => Begun # {}
    BY DEF RawReason, StreamTypes, Protocols
  <2> HIDE DEF told
  <2> QED
    BY <2>1 DEF NormalizeStopReason
<1>12. /\ said' = [said EXCEPT !.why = why, !.used = used]
       /\ acc' = [acc EXCEPT !.finish = told, !.usage = usage]
  BY <1>1, <1>7 DEF Comes
<1> HIDE DEF told, usage, used, reason
<1>13. UNCHANGED <<turn, adapter, phase, history, sent, todo, out, alive>>
  BY <1>1, <1>7 DEF Comes, reason
<1>14. (\A k \in Begun : 1 .. k \subseteq Begun) /\ phase = "stream" /\ said.why = "none"
  BY DEF SayFinish, Saying, Streaming
<1> QED
  BY <1>8, <1>9, <1>10, <1>11, <1>12, <1>13, <1>14

-----------------------------------------------------------------------------
(* The order of the events *)

Frame == StreamTypes /\ Order

LEMMA EmitFacts ==
  ASSUME Sequence(out), alive \in BOOLEAN, NEW e, Emit(e)
  PROVE  /\ Sequence(out')
         /\ alive => out' = Append(out, e) /\ out' # <<>>
         /\ ~ alive => out' = out
         /\ \A i \in DOMAIN out' : out'[i].kind = e.kind \/ \E j \in DOMAIN out : out'[i].kind = out[j].kind
         /\ \A kind : Has(kind)' <=> Has(kind) \/ (alive /\ e.kind = kind)
<1>1. CASE alive
  <2>1. /\ DOMAIN out = 1 .. Len(out) /\ DOMAIN out' = 1 .. Len(out) + 1 /\ Len(out) \in Nat
        /\ out'[Len(out) + 1] = e /\ \A i \in DOMAIN out : out'[i] = out[i]
        /\ out' # <<>> /\ Sequence(out') /\ out' = Append(out, e)
    <3>1. out' = Append(out, e)
      BY <1>1 DEF Emit
    <3>2. /\ DOMAIN out = 1 .. Len(out) /\ Len(out) \in Nat
          /\ DOMAIN Append(out, e) = 1 .. Len(out) + 1
          /\ Append(out, e)[Len(out) + 1] = e /\ \A i \in DOMAIN out : Append(out, e)[i] = out[i]
          /\ Append(out, e) # <<>> /\ Sequence(Append(out, e))
      <4>1. /\ Sequence(Append(out, e)) /\ Sequence(<<e>>) /\ Sequence(<<>>)
            /\ Len(out) \in Nat /\ DOMAIN out = 1 .. Len(out)
            /\ DOMAIN Append(out, e) = 1 .. Len(out) + 1
            /\ Append(out, e)[Len(out) + 1] = e
            /\ \A i \in DOMAIN out : Append(out, e)[i] = out[i]
            /\ Append(out, e) # <<>>
        BY Appended, Zenon
      <4> QED
        BY <4>1, Zenon
    <3> QED
      BY <3>1, <3>2
  <2>2. \A i \in DOMAIN out' : i \in DOMAIN out \/ i = Len(out) + 1
    BY <2>1
  <2>3. DOMAIN out \subseteq DOMAIN out' /\ Len(out) + 1 \in DOMAIN out'
    BY <2>1
  <2>4. \A i \in DOMAIN out' : out'[i].kind = e.kind \/ \E j \in DOMAIN out : out'[i].kind = out[j].kind
    BY <2>1, <2>2
  <2>5. \A kind : Has(kind)' <=> Has(kind) \/ e.kind = kind
    BY <2>1, <2>2, <2>3 DEF Has
  <2> QED
    BY <1>1, <2>1, <2>4, <2>5
<1>2. CASE ~ alive
  BY <1>2 DEF Emit, Has
<1> QED
  BY <1>1, <1>2

LEMMA TailFacts ==
  ASSUME NEW s, Sequence(s), s # <<>>
  PROVE  /\ Len(s) \in Nat \ {0} /\ DOMAIN s = 1 .. Len(s)
         /\ Head(s) = s[1]
         /\ Sequence(Tail(s)) /\ Len(Tail(s)) = Len(s) - 1 /\ DOMAIN Tail(s) = 1 .. Len(s) - 1
         /\ \A i \in DOMAIN Tail(s) : Tail(s)[i] = s[i + 1]
         /\ Len(s) = 1 <=> Tail(s) = <<>>
<1> DEFINE E == {s[i] : i \in DOMAIN s}
           t == Tail(s)
<1>1. s \in Seq(E) /\ Len(s) \in Nat /\ Len(s) # 0 /\ DOMAIN s = 1 .. Len(s)
  BY DEF Sequence
<1>2. /\ t \in Seq(E) /\ Len(t) = Len(s) - 1 /\ DOMAIN t = 1 .. Len(s) - 1
      /\ \A i \in DOMAIN t : t[i] = s[i + 1]
  BY <1>1
<1> HIDE DEF t, E
<1>3. t = [i \in 1 .. Len(t) |-> t[i]] /\ t \in Seq({t[i] : i \in DOMAIN t})
  <2>1. t = [i \in 1 .. Len(t) |-> t[i]]
    BY <1>2
  <2>2. t \in [1 .. Len(t) -> {t[i] : i \in DOMAIN t}] /\ Len(t) \in Nat
    BY <1>1, <1>2, <2>1
  <2> QED
    BY <2>1, <2>2
<1>4. Len(s) = 1 <=> t = <<>>
  BY <1>1, <1>2
<1>5. Head(s) = s[1]
  BY <1>1
<1>6. Sequence(t)
  BY <1>3 DEF Sequence
<1> QED
  BY <1>1, <1>2, <1>4, <1>5, <1>6 DEF t

LEMMA SaidTypes ==
  ASSUME StreamTypes, NEW k \in DOMAIN said.calls, NEW n \in Int
  PROVE  [said.calls EXCEPT ![k] = n] \in Seq(Int)
BY DEF StreamTypes, Sayings

LEMMA MoreArgsTypes ==
  ASSUME StreamTypes, NEW key
  PROVE  /\ MoreArgs(acc, key).calls \in Seq(Blocks)
         /\ MoreArgs(acc, key) = [acc EXCEPT !.calls = MoreArgs(acc, key).calls]
         /\ DOMAIN MoreArgs(acc, key).calls = DOMAIN acc.calls
         /\ \A j \in DOMAIN acc.calls :
               MoreArgs(acc, key).calls[j] =
                  IF acc.calls[j].key = key THEN Longer(acc.calls[j])
                  ELSE acc.calls[j]
<1> DEFINE more == [j \in DOMAIN acc.calls |->
                IF acc.calls[j].key = key THEN Longer(acc.calls[j])
                ELSE acc.calls[j]]
<1>1. acc.calls \in Seq(Blocks)
  BY DEF StreamTypes, Accs
<1>2. \A j \in DOMAIN acc.calls : acc.calls[j] \in Blocks
  BY <1>1
<1>3. \A j \in DOMAIN acc.calls : more[j] \in Blocks
  <2>1. \A b \in Blocks : Longer(b) \in Blocks
    BY DEF Blocks, Longer
  <2> QED
    BY <1>2, <2>1
<1>4. DOMAIN acc.calls = 1 .. Len(acc.calls) /\ Len(acc.calls) \in Nat
  BY <1>1
<1>5. more \in Seq(Blocks)
  <2>1. more = [j \in 1 .. Len(acc.calls) |-> more[j]]
    BY <1>4
  <2> HIDE DEF more
  <2> QED
    BY <1>3, <1>4, <2>1
<1>6. MoreArgs(acc, key).calls = more /\ MoreArgs(acc, key) = [acc EXCEPT !.calls = MoreArgs(acc, key).calls]
  BY DEF MoreArgs, StreamTypes, Accs
<1> QED
  BY <1>5, <1>6

\* An event of the provider leaves the order as it is.
LEMMA SayingKeeps ==
  ASSUME Frame, phase = "stream",
         UNCHANGED <<turn, adapter, phase, history, sent, todo, alive>>,
         said' \in Sayings,
         acc' \in Accs,
         out' = out \/ \E e : e.kind \in {"content", "thinking"} /\ Emit(e)
  PROVE  Frame'
<1>1. Sequence(out') /\ \A i \in DOMAIN out' : out'[i].kind \in {"content", "thinking"}
  BY EmitFacts DEF Frame, StreamTypes, Order
<1> QED
  BY <1>1 DEF Frame, StreamTypes, Order

LEMMA SayStep ==
  ASSUME Frame,
         \/ SayText \/ SayThought \/ (\E k \in DOMAIN said.calls : SayCall(k) \/ SayArguments(k))
         \/ \E why \in {"end", "cut"} : SayFinish(why)
  PROVE  Frame'
<1>0. StreamTypes
  BY DEF Frame
<1>1. CASE SayText
  <2>1. Delta(said.text + 1).kind = "content"
    BY DEF Delta
  <2>2. phase = "stream" /\ acc' = acc /\ Emit(Delta(said.text + 1))
        /\ UNCHANGED <<turn, adapter, phase, history, sent, todo, alive>>
        /\ said' = [said EXCEPT !.text = said.text + 1]
    BY <1>0, <1>1, TextFacts
  <2>s. said' \in Sayings
    <3>1. said \in Sayings /\ said.text + 1 \in Nat /\ said' = [said EXCEPT !.text = said.text + 1]
      BY <1>0, <2>2 DEF StreamTypes, Sayings
    <3> QED
      BY <3>1 DEF Sayings
  <2>a. acc' \in Accs
    BY <1>0, <2>1, <2>2 DEF StreamTypes, Accs
  <2>3. \E e : e.kind \in {"content", "thinking"} /\ Emit(e)
    BY <2>1, <2>2
  <2> QED
    BY <2>2, <2>3, <2>s, <2>a, SayingKeeps
<1>2. CASE SayThought
  <2>1. Thought.kind = "thinking" /\ turn \in Nat
    BY <1>0, StreamsAssumption DEF Thought, StreamTypes, MaxTurns
  <2>2. /\ phase = "stream" /\ Emit(Thought)
        /\ acc' = acc \/ acc' = [acc EXCEPT !.thinking = turn]
        /\ UNCHANGED <<turn, adapter, phase, history, sent, todo, alive>>
        /\ said' = [said EXCEPT !.thought = said.thought + 1]
    BY <1>0, <1>2, ThoughtFacts
  <2>s. said' \in Sayings
    BY <1>0, <2>1, <2>2 DEF StreamTypes, Sayings
  <2>a. acc' \in Accs
    BY <1>0, <2>1, <2>2 DEF StreamTypes, Accs
  <2> QED
    BY <2>1, <2>2, <2>s, <2>a, SayingKeeps
<1>3. ASSUME NEW k \in DOMAIN said.calls, SayCall(k)
      PROVE  Frame'
  <2>1. [said.calls EXCEPT ![k] = 0] \in Seq(Int)
    BY <1>0, SaidTypes
  <2>2. PICK id \in Nat \X Nat :
           acc' = [acc EXCEPT !.calls = Append(acc.calls, [key |-> k, id |-> id, args |-> 0])]
    BY <1>0, <1>3, CallFacts
  <2>3. /\ phase = "stream" /\ out' = out /\ k \in Nat
        /\ UNCHANGED <<turn, adapter, phase, history, sent, todo, alive>>
        /\ said' = [said EXCEPT !.calls[k] = 0]
    BY <1>0, <1>3, CallFacts
  <2>4. Append(acc.calls, [key |-> k, id |-> id, args |-> 0]) \in Seq(Blocks)
    BY <1>0, <2>3 DEF StreamTypes, Accs, Blocks
  <2>5. said' = [said EXCEPT !.calls = [said.calls EXCEPT ![k] = 0]]
    BY <1>0, <2>3 DEF StreamTypes, Sayings
  <2>s. said' \in Sayings
    BY <1>0, <2>1, <2>2, <2>3, <2>4, <2>5 DEF StreamTypes, Sayings
  <2>a. acc' \in Accs
    BY <1>0, <2>1, <2>2, <2>3, <2>4, <2>5 DEF StreamTypes, Accs
  <2> QED
    BY <2>1, <2>2, <2>3, <2>4, <2>5, <2>s, <2>a, SayingKeeps
<1>4. ASSUME NEW k \in DOMAIN said.calls, SayArguments(k)
      PROVE  Frame'
  <2>1. /\ phase = "stream" /\ out' = out
        /\ UNCHANGED <<turn, adapter, phase, history, sent, todo, alive>>
        /\ said' = [said EXCEPT !.calls[k] = said.calls[k] + 1]
        /\ acc' = MoreArgs(acc, IF adapter = "claude" THEN acc.calls[Len(acc.calls)].key ELSE k)
    BY <1>0, <1>4, ArgumentsFacts
  <2>2. said.calls[k] + 1 \in Int
    BY <1>0 DEF StreamTypes, Sayings
  <2>3. [said.calls EXCEPT ![k] = said.calls[k] + 1] \in Seq(Int)
    BY <1>0, <2>2, SaidTypes
  <2>4. said' = [said EXCEPT !.calls = [said.calls EXCEPT ![k] = said.calls[k] + 1]]
    BY <1>0, <2>1 DEF StreamTypes, Sayings
  <2>5. PICK key : acc' = MoreArgs(acc, key)
    BY <2>1
  <2>6. acc' = [acc EXCEPT !.calls = acc'.calls] /\ acc'.calls \in Seq(Blocks)
    BY <1>0, <2>5, MoreArgsTypes
  <2>s. said' \in Sayings
    BY <1>0, <2>1, <2>3, <2>4, <2>6 DEF StreamTypes, Sayings
  <2>a. acc' \in Accs
    BY <1>0, <2>1, <2>3, <2>4, <2>6 DEF StreamTypes, Accs
  <2> QED
    BY <2>1, <2>3, <2>4, <2>6, <2>s, <2>a, SayingKeeps
<1>5. ASSUME NEW why \in {"end", "cut"}, SayFinish(why)
      PROVE  Frame'
  <2>1. PICK reason \in Reasons, usage, used \in [total : Int] :
           /\ said' = [said EXCEPT !.why = why, !.used = used]
           /\ acc' = [acc EXCEPT !.finish = reason, !.usage = usage]
    BY <1>0, <1>5, FinishFacts
  <2>2. /\ phase = "stream" /\ out' = out
        /\ UNCHANGED <<turn, adapter, phase, history, sent, todo, alive>>
    BY <1>0, <1>5, FinishFacts
  <2>s. said' \in Sayings
    BY <1>0, <2>1, <2>2 DEF StreamTypes, Sayings
  <2>a. acc' \in Accs
    BY <1>0, <2>1, <2>2 DEF StreamTypes, Accs
  <2> QED
    BY <2>1, <2>2, <2>s, <2>a, SayingKeeps
<1> QED
  BY <1>1, <1>2, <1>3, <1>4, <1>5

\* A turn that fails, before or after its first event.
LEMMA FailKeeps ==
  ASSUME Frame, phase \in {"ask", "stream", "final"}, FailTurn
  PROVE  Frame' /\ ~ Told'
<1>1. Sequence(out') /\ ~ Told'
  <2>1. ~ Told
    BY DEF Frame, Order, Told, Has
  <2>2. CASE out' = out
    BY <2>1, <2>2 DEF Frame, StreamTypes, Told, Has
  <2>3. CASE Emit([kind |-> "error"])
    BY <2>1, <2>3, EmitFacts DEF Frame, StreamTypes, Told
  <2> QED
    BY <2>2, <2>3 DEF FailTurn
<1>2. Sequence(<<>>)
  BY DEF Sequence
<1> QED
  BY <1>1, <1>2 DEF FailTurn, Frame, StreamTypes, Order

LEMMA AskKeeps ==
  ASSUME Frame, Ask
  PROVE  Frame'
<1> DEFINE n == IF turn' < MaxTurns THEN MaxCalls[turn'] ELSE 0
<1>1. turn' = turn + 1 /\ turn \in Nat /\ MaxTurns = Len(Forms) + 1 /\ Len(Forms) \in Nat /\ turn < MaxTurns
  BY StreamsAssumption DEF Ask, Frame, StreamTypes, MaxTurns
<1>2. n \in Nat
  <2>1. CASE turn' < MaxTurns
    <3>1. turn' \in 1 .. Len(Forms)
      BY <1>1, <2>1
    <3> QED
      BY <2>1, <3>1, StreamsAssumption
  <2>2. CASE ~ (turn' < MaxTurns)
    BY <2>2
  <2> QED
    BY <2>1, <2>2
<1>3. [k \in 1 .. n |-> -1] \in Seq(Int)
  BY <1>2
<1>4. /\ said' = [NothingSaid EXCEPT !.calls = [k \in 1 .. n |-> -1]]
      /\ acc' = NothingKept /\ out' = <<>> /\ alive' = TRUE /\ phase' = "ask" /\ todo' = todo
      /\ adapter' \in Adapters /\ phase # "final"
  BY DEF Ask
<1> HIDE DEF n
<1>5. /\ said' \in Sayings
      /\ acc' \in Accs
  <2>1. <<>> \in Seq(Blocks) /\ NoUsage \in [total : Int]
    BY DEF NoUsage
  <2> QED
    BY <1>3, <1>4, <2>1 DEF NothingSaid, NothingKept, Reasons, Sayings, Accs
<1>6. Sequence(out') /\ DOMAIN out' = {} /\ ~ Told'
  BY <1>4 DEF Sequence, Told, Has
<1>7. StreamTypes'
  BY <1>1, <1>4, <1>5, <1>6, StreamsAssumption DEF Frame, StreamTypes
<1> QED
  BY <1>4, <1>6, <1>7 DEF Frame, Order

LEMMA Finals ==
  ASSUME StreamTypes
  PROVE  /\ Sequence(CallEvents) /\ Sequence(FinalEvents)
         /\ Len(acc.calls) \in Nat /\ DOMAIN acc.calls = 1 .. Len(acc.calls)
         /\ DOMAIN CallEvents = 1 .. Len(acc.calls)
         /\ FinalEvents = Append(CallEvents, StopEvent)
         /\ Len(FinalEvents) = Len(acc.calls) + 1
         /\ FinalEvents # <<>>
         /\ \A i \in DOMAIN FinalEvents :
               FinalEvents[i].kind = IF i = Len(FinalEvents) THEN "stop" ELSE "tool_call"
<1> DEFINE n == Len(acc.calls)
           c == CallEvents
<1>1. acc.calls \in Seq(Blocks) /\ n \in Nat /\ DOMAIN acc.calls = 1 .. n
  BY DEF StreamTypes, Accs
<1>2. \A i \in 1 .. n : c[i].kind = "tool_call"
  BY <1>1 DEF CallEvents
<1>3. c = [i \in 1 .. n |-> c[i]]
  BY <1>1 DEF CallEvents
<1> HIDE DEF c
<1>4. Sequence(c) /\ DOMAIN c = 1 .. n /\ Len(c) = n
  BY <1>1, <1>3 DEF Sequence
<1>5. c \o <<StopEvent>> = Append(c, StopEvent)
  BY <1>4 DEF Sequence
<1>6. FinalEvents = Append(c, StopEvent)
  BY <1>5 DEF FinalEvents, c
<1>7. StopEvent.kind = "stop"
  BY DEF StopEvent
<1>8. /\ Sequence(FinalEvents) /\ DOMAIN FinalEvents = 1 .. n + 1 /\ FinalEvents # <<>>
      /\ FinalEvents[n + 1] = StopEvent /\ \A i \in 1 .. n : FinalEvents[i] = c[i]
  <2>1. /\ Sequence(Append(c, StopEvent)) /\ DOMAIN Append(c, StopEvent) = 1 .. n + 1
        /\ Append(c, StopEvent) # <<>>
        /\ Append(c, StopEvent)[n + 1] = StopEvent /\ \A i \in 1 .. n : Append(c, StopEvent)[i] = c[i]
    <3>1. /\ Sequence(Append(c, StopEvent)) /\ DOMAIN Append(c, StopEvent) = 1 .. Len(c) + 1
          /\ Append(c, StopEvent) # <<>>
          /\ Append(c, StopEvent)[Len(c) + 1] = StopEvent
          /\ \A i \in DOMAIN c : Append(c, StopEvent)[i] = c[i]
      <4>1. /\ Sequence(Append(c, StopEvent)) /\ Sequence(<<StopEvent>>) /\ Sequence(<<>>)
            /\ Len(c) \in Nat /\ DOMAIN c = 1 .. Len(c)
            /\ DOMAIN Append(c, StopEvent) = 1 .. Len(c) + 1
            /\ Append(c, StopEvent)[Len(c) + 1] = StopEvent
            /\ \A i \in DOMAIN c : Append(c, StopEvent)[i] = c[i]
            /\ Append(c, StopEvent) # <<>>
        BY <1>4, Appended, Zenon
      <4> QED
        BY <4>1, Zenon
    <3> QED
      BY <1>4, <3>1
  <2> QED
    BY <1>6, <2>1
<1>9. Len(FinalEvents) = n + 1
  BY <1>1, <1>8 DEF Sequence
<1>10. ASSUME NEW i \in DOMAIN FinalEvents
       PROVE  FinalEvents[i].kind = IF i = Len(FinalEvents) THEN "stop" ELSE "tool_call"
  BY <1>1, <1>2, <1>7, <1>8, <1>9
<1> QED
  BY <1>1, <1>4, <1>6, <1>8, <1>9, <1>10 DEF c

LEMMA EndKeeps ==
  ASSUME Frame, StreamEnds
  PROVE  Frame'
<1>1. /\ todo' = FinalEvents /\ phase' = "final" /\ phase = "stream"
      /\ UNCHANGED <<turn, adapter, said, acc, out, alive>>
  BY DEF StreamEnds, Streaming
<1>2. Sequence(todo') /\ todo' # <<>>
      /\ \A i \in DOMAIN todo' : todo'[i].kind = IF i = Len(todo') THEN "stop" ELSE "tool_call"
  BY <1>1, Finals DEF Frame
<1> QED
  BY <1>1, <1>2 DEF Frame, StreamTypes, Order

LEMMA WriteFacts ==
  ASSUME Frame, WriteFinal
  PROVE  /\ Frame'
         /\ Emit(todo[1]) /\ todo' = Tail(todo)
         /\ todo[1].kind = IF Len(todo) = 1 THEN "stop" ELSE "tool_call"
         /\ phase = "final" /\ phase' = IF Len(todo) = 1 THEN "stopped" ELSE "final"
         /\ UNCHANGED <<turn, adapter, history, sent, said, acc, alive>>
<1>1. /\ Sequence(todo) /\ todo # <<>> /\ Sequence(out) /\ alive \in BOOLEAN /\ phase = "final"
      /\ todo' = Tail(todo) /\ Emit(Head(todo))
      /\ phase' = IF Len(todo) = 1 THEN "stopped" ELSE "final"
      /\ UNCHANGED <<turn, adapter, history, sent, said, acc, alive>>
  BY DEF Frame, StreamTypes, WriteFinal
<1>2. /\ Len(todo) \in Nat \ {0} /\ DOMAIN todo = 1 .. Len(todo) /\ Head(todo) = todo[1]
      /\ Sequence(todo') /\ Len(todo') = Len(todo) - 1 /\ DOMAIN todo' = 1 .. Len(todo) - 1
      /\ \A i \in DOMAIN todo' : todo'[i] = todo[i + 1]
      /\ Len(todo) = 1 <=> todo' = <<>>
  BY <1>1, TailFacts
<1>3. \A i \in DOMAIN todo : todo[i].kind = IF i = Len(todo) THEN "stop" ELSE "tool_call"
  BY <1>1 DEF Frame, Order
<1>4. 1 \in DOMAIN todo /\ Emit(todo[1])
  BY <1>1, <1>2
<1>5. todo[1].kind = IF Len(todo) = 1 THEN "stop" ELSE "tool_call"
  BY <1>3, <1>4
<1>6. /\ Sequence(out')
      /\ \A i \in DOMAIN out' : out'[i].kind = todo[1].kind \/ \E j \in DOMAIN out : out'[i].kind = out[j].kind
      /\ Told' <=> Told \/ (alive /\ todo[1].kind = "stop")
  BY <1>1, <1>4, EmitFacts DEF Told
<1>7. StreamTypes'
  BY <1>1, <1>2, <1>6 DEF Frame, StreamTypes
<1>8. ~ Told /\ \A j \in DOMAIN out : out[j].kind \in {"content", "thinking", "tool_call"}
  BY <1>1 DEF Frame, Order, Told, Has
<1>9. CASE Len(todo) = 1
  <2>1. phase' = "stopped" /\ todo' = <<>> /\ (Told' => alive')
    BY <1>1, <1>2, <1>6, <1>8, <1>9
  <2>2. Order'
    BY <2>1 DEF Order
  <2> QED
    BY <1>1, <1>4, <1>5, <1>7, <2>2 DEF Frame
<1>10. CASE Len(todo) # 1
  <2>1. phase' = "final" /\ todo' # <<>> /\ todo[1].kind = "tool_call"
    BY <1>1, <1>2, <1>5, <1>10
  <2>2. \A i \in DOMAIN todo' : todo'[i].kind = IF i = Len(todo') THEN "stop" ELSE "tool_call"
    <3> SUFFICES ASSUME NEW i \in DOMAIN todo'
                 PROVE  todo'[i].kind = IF i = Len(todo') THEN "stop" ELSE "tool_call"
      OBVIOUS
    <3>1. i + 1 \in DOMAIN todo /\ (i = Len(todo') <=> i + 1 = Len(todo)) /\ todo'[i] = todo[i + 1]
      BY <1>2
    <3> QED
      BY <1>3, <3>1
  <2>3. \A i \in DOMAIN out' : out'[i].kind \in {"content", "thinking", "tool_call"}
    BY <1>6, <1>8, <2>1
  <2>4. Order'
    BY <2>1, <2>2, <2>3 DEF Order
  <2> QED
    BY <1>1, <1>4, <1>5, <1>7, <2>4 DEF Frame
<1> QED
  BY <1>9, <1>10

LEMMA FrameInit == StreamInit => Frame
<1> SUFFICES ASSUME StreamInit PROVE Frame
  OBVIOUS
<1>1. said \in Sayings /\ acc \in Accs
  <2>1. <<>> \in Seq(Blocks) /\ <<>> \in Seq(Int) /\ NoUsage \in [total : Int]
    BY DEF NoUsage
  <2> QED
    BY <2>1 DEF StreamInit, NothingSaid, NothingKept, Sayings, Accs, Reasons
<1>2. Sequence(<<>>) /\ DOMAIN <<>> = {}
  BY DEF Sequence
<1>3. MaxTurns \in Nat
  BY StreamsAssumption DEF MaxTurns
<1> QED
  BY <1>1, <1>2, <1>3 DEF StreamInit, Frame, StreamTypes, Order, Protocols, Told, Has

LEMMA FrameStep ==
  ASSUME Frame, [StreamNext]_streamVars
  PROVE  Frame'
<1>1. CASE Connect \/ ClientLeaves
  <2>1. /\ UNCHANGED <<turn, adapter, said, acc, todo, out>> /\ alive' \in BOOLEAN
        /\ (phase = "ask" /\ phase' = "stream") \/ (phase \in {"stream", "final"} /\ phase' = phase)
    BY <1>1 DEF Connect, ClientLeaves, Streaming, Frame, StreamTypes
  <2>2. (Told' <=> Told) /\ (phase = "ask" => DOMAIN out = {})
    BY <2>1 DEF Told, Has, Frame, Order
  <2> QED
    BY <2>1, <2>2 DEF Frame, StreamTypes, Order
<1>2. CASE ConnectFails \/ UpstreamFails \/ ClientMissed
  BY <1>2, FailKeeps DEF ConnectFails, UpstreamFails, ClientMissed, Streaming
<1>3. CASE streamVars' = streamVars
  BY <1>3 DEF streamVars, Frame, StreamTypes, Order, Told, Has
<1> QED
  BY <1>1, <1>2, <1>3, SayStep, AskKeeps, EndKeeps, WriteFacts DEF StreamNext

-----------------------------------------------------------------------------
(* The contract of a turn *)

reading == [k \in DOMAIN out |-> out[k].kind]

LEMMA ReadingGrows ==
  ASSUME Sequence(out), NEW e, out' = Append(out, e)
  PROVE  reading' = Append(reading, e.kind)
<1>1. /\ Len(out) \in Nat /\ DOMAIN out = 1 .. Len(out)
      /\ DOMAIN Append(out, e) = 1 .. Len(out) + 1 /\ Append(out, e)[Len(out) + 1] = e
      /\ \A i \in DOMAIN out : Append(out, e)[i] = out[i]
  BY Appended
<1>2. /\ DOMAIN out' = 1 .. Len(out) + 1 /\ out'[Len(out) + 1] = e
      /\ \A i \in 1 .. Len(out) : out'[i] = out[i]
  BY <1>1
<1>3. reading = [k \in 1 .. Len(out) |-> out[k].kind] /\ Len(reading) = Len(out)
  BY <1>1 DEF reading
<1>4. Append(reading, e.kind) = [k \in 1 .. Len(out) + 1 |-> IF k = Len(out) + 1 THEN e.kind ELSE out[k].kind]
  BY <1>1, <1>3
<1>5. reading' = [k \in 1 .. Len(out) + 1 |-> out'[k].kind]
  BY <1>2 DEF reading
<1> QED
  BY <1>1, <1>2, <1>4, <1>5

LEMMA ContractInit == StreamInit => Contract!Init
BY DEF StreamInit, Contract!Init, Status

\* A write to the client is a step of the contract, or none once he has left.
LEMMA ContractStep ==
  ASSUME Frame, [StreamNext]_streamVars
  PROVE  [Contract!Next]_(Contract!vars)
<1>0. Frame' /\ StreamTypes /\ Order
  BY FrameStep DEF Frame
<1>1. ASSUME reading' = reading, Status' = Status
      PROVE  UNCHANGED Contract!vars
  BY <1>1 DEF Contract!vars, reading
<1>2. CASE Ask
  <2>1. Status \in {"none", "stopped", "failed"} /\ Status' = "open"
    BY <1>2 DEF Ask, Status
  <2>2. reading' = <<>>
    BY <1>2 DEF Ask, reading
  <2> QED
    BY <2>1, <2>2 DEF Contract!Next, Contract!Start, reading
<1>3. CASE Connect
  BY <1>1, <1>3 DEF Connect, Status, reading
<1>4. ASSUME NEW e, e.kind \in {"content", "thinking"}, Emit(e), phase = "stream", phase' = phase
      PROVE  Contract!Delta \/ UNCHANGED Contract!vars
  <2>1. Status = "open" /\ Status' = "open"
    BY <1>4 DEF Status
  <2>2. CASE alive
    <3>1. out' = Append(out, e)
      BY <1>4, <2>2 DEF Emit
    <3>2. reading' = Append(reading, e.kind)
      BY <1>0, <3>1, ReadingGrows DEF StreamTypes
    <3> QED
      BY <1>4, <2>1, <3>2 DEF Contract!Delta, reading
  <2>3. CASE ~ alive
    <3>1. out' = out
      BY <1>4, <2>3 DEF Emit
    <3> QED
      BY <1>1, <2>1, <3>1 DEF reading
  <2> QED
    BY <2>2, <2>3
<1>5. CASE SayText
  <2>1. Delta(said.text + 1).kind = "content"
    BY DEF Delta
  <2>2. Emit(Delta(said.text + 1)) /\ phase = "stream" /\ phase' = phase
    BY <1>0, <1>5, TextFacts
  <2> QED
    BY <1>4, <2>1, <2>2 DEF Contract!Next
<1>6. CASE SayThought
  <2>1. Thought.kind = "thinking"
    BY DEF Thought
  <2>2. Emit(Thought) /\ phase = "stream" /\ phase' = phase
    BY <1>0, <1>6, ThoughtFacts
  <2> QED
    BY <1>4, <2>1, <2>2 DEF Contract!Next
<1>7. ASSUME out' = out, phase' = phase
      PROVE  UNCHANGED Contract!vars
  BY <1>1, <1>7 DEF Status, reading, Has, Told
<1>8. ASSUME NEW k \in DOMAIN said.calls, SayCall(k) \/ SayArguments(k)
      PROVE  UNCHANGED Contract!vars
  BY <1>0, <1>7, <1>8, CallFacts, ArgumentsFacts
<1>9. ASSUME NEW why \in {"end", "cut"}, SayFinish(why)
      PROVE  UNCHANGED Contract!vars
  BY <1>0, <1>7, <1>9, FinishFacts
<1>10. CASE ClientLeaves
  BY <1>7, <1>10 DEF ClientLeaves
<1>11. CASE StreamEnds
  <2>1. out' = out /\ phase = "stream" /\ phase' = "final"
    BY <1>11 DEF StreamEnds, Streaming
  <2>2. ~ Has("tool_call")'
    BY <1>0, <2>1 DEF Order, Has
  <2>3. Status = "open" /\ Status' = "open"
    BY <2>1, <2>2 DEF Status
  <2> QED
    BY <1>1, <2>1, <2>3 DEF reading
<1>12. ASSUME phase \in {"ask", "stream", "final"}, FailTurn
       PROVE  Contract!Fail
  <2>1. Status \in {"open", "calls"}
    BY <1>12 DEF Status
  <2>2. Status' = "failed"
    BY <1>12, FailKeeps DEF FailTurn, Status
  <2>3. CASE out' = out
    BY <2>1, <2>2, <2>3 DEF Contract!Fail, reading
  <2>4. CASE out' = Append(out, [kind |-> "error"])
    <3>1. reading' = Append(reading, "error")
      BY <1>0, <2>4, ReadingGrows DEF StreamTypes
    <3> QED
      BY <2>1, <2>2, <3>1 DEF Contract!Fail, reading
  <2> QED
    BY <1>12, <2>3, <2>4 DEF FailTurn, Emit
<1>13. CASE ConnectFails \/ UpstreamFails \/ ClientMissed
  BY <1>12, <1>13 DEF ConnectFails, UpstreamFails, ClientMissed, Streaming, Contract!Next
<1>14. CASE WriteFinal
  <2>1. /\ Emit(todo[1]) /\ phase = "final" /\ phase' = IF Len(todo) = 1 THEN "stopped" ELSE "final"
        /\ todo[1].kind = IF Len(todo) = 1 THEN "stop" ELSE "tool_call"
        /\ alive' = alive
    BY <1>14, WriteFacts
  <2>2. Status \in {"open", "calls"}
    BY <2>1 DEF Status
  <2>3. ~ Told
    BY <1>0, <2>1 DEF Order, Told, Has
  <2>4. \A kind : Has(kind)' <=> Has(kind) \/ (alive /\ todo[1].kind = kind)
    BY <1>0, <2>1, EmitFacts DEF StreamTypes
  <2>5. CASE ~ alive /\ Len(todo) = 1
    <3>1. out' = out /\ Status' = "failed"
      BY <2>1, <2>3, <2>4, <2>5 DEF Emit, Status, Told
    <3> QED
      BY <2>2, <3>1 DEF Contract!Next, Contract!Fail, reading
  <2>6. CASE ~ alive /\ Len(todo) # 1
    BY <1>7, <2>1, <2>6 DEF Emit
  <2>7. CASE alive
    <3>1. reading' = Append(reading, todo[1].kind)
      BY <1>0, <2>1, <2>7, ReadingGrows DEF Emit, StreamTypes
    <3>2. CASE Len(todo) = 1
      <4>1. Status' = "stopped"
        BY <2>1, <2>4, <2>7, <3>2 DEF Status, Told
      <4> QED
        BY <2>1, <2>2, <3>1, <3>2, <4>1 DEF Contract!Next, Contract!Stop, reading
    <3>3. CASE Len(todo) # 1
      <4>1. Status' = "calls"
        BY <2>1, <2>4, <2>7, <3>3 DEF Status
      <4> QED
        BY <2>1, <2>2, <3>1, <3>3, <4>1 DEF Contract!Next, Contract!Call, reading
    <3> QED
      BY <3>2, <3>3
  <2> QED
    BY <2>5, <2>6, <2>7
<1>15. CASE streamVars' = streamVars
  BY <1>7, <1>15 DEF streamVars
<1> QED
  BY <1>2, <1>3, <1>5, <1>6, <1>8, <1>9, <1>10, <1>11, <1>13, <1>14, <1>15 DEF StreamNext

(* Whatever provider, adapter and answer, handleChat's stream implements   *)
(* the contract TurnStream states: deltas, then the calls, then one stop,  *)
(* or at most one error and nothing after it.  Every step of the stream is *)
(* a step of the contract or leaves what the client has read as it is.     *)
THEOREM StreamsKeepTheContract == StreamSpec => StreamContract
<1>1. Frame /\ [StreamNext]_streamVars => [Contract!Next]_(Contract!vars)
  BY ContractStep
<1> QED
  BY <1>1, ContractInit, FrameInit, FrameStep, PTL DEF StreamSpec, StreamContract, Contract!Spec

-----------------------------------------------------------------------------
(* Calls in order *)

\* A strictly increasing sequence of n numbers of 1 .. n is 1 .. n.
LEMMA Increasing ==
  ASSUME NEW n \in Nat, NEW q \in [1 .. n -> 1 .. n],
         \A i, j \in 1 .. n : i < j => q[i] < q[j]
  PROVE  \A i \in 1 .. n : q[i] = i
<1> DEFINE Above == {i \in Nat : i + 1 <= n => q[i + 1] >= i + 1}
           Below == {d \in Nat : d < n => q[n - d] <= n - d}
<1>1. Nat \subseteq Above
  <2>1. 0 \in Above
    OBVIOUS
  <2>2. ASSUME NEW i \in Nat, i \in Above PROVE i + 1 \in Above
    <3> SUFFICES ASSUME (i + 1) + 1 <= n PROVE q[(i + 1) + 1] >= (i + 1) + 1
      OBVIOUS
    <3>1. i + 1 \in 1 .. n /\ (i + 1) + 1 \in 1 .. n /\ i + 1 < (i + 1) + 1
      OBVIOUS
    <3>2. q[i + 1] >= i + 1
      BY <2>2, <3>1
    <3>3. q[i + 1] < q[(i + 1) + 1]
      BY <3>1
    <3>4. q[i + 1] \in Int /\ q[(i + 1) + 1] \in Int
      BY <3>1
    <3> QED
      BY <3>2, <3>3, <3>4
  <2> HIDE DEF Above
  <2> QED
    BY <2>1, <2>2, NatInduct
<1>2. Nat \subseteq Below
  <2>1. 0 \in Below
    OBVIOUS
  <2>2. ASSUME NEW d \in Nat, d \in Below PROVE d + 1 \in Below
    <3> SUFFICES ASSUME d + 1 < n PROVE q[n - (d + 1)] <= n - (d + 1)
      OBVIOUS
    <3>1. n - d \in 1 .. n /\ n - (d + 1) \in 1 .. n /\ n - (d + 1) < n - d
      OBVIOUS
    <3>2. q[n - d] <= n - d
      BY <2>2
    <3>3. q[n - (d + 1)] < q[n - d]
      BY <3>1
    <3>4. q[n - d] \in Int /\ q[n - (d + 1)] \in Int
      BY <3>1
    <3> QED
      BY <3>2, <3>3, <3>4
  <2> HIDE DEF Below
  <2> QED
    BY <2>1, <2>2, NatInduct
<1>3. ASSUME NEW i \in 1 .. n PROVE q[i] = i
  <2>1. i - 1 \in Nat /\ (i - 1) + 1 = i /\ i <= n /\ n - i \in Nat /\ n - i < n /\ n - (n - i) = i
    OBVIOUS
  <2>2. q[i] >= i
    BY <1>1, <2>1
  <2>3. q[i] <= i
    BY <1>2, <2>1
  <2>4. q[i] \in Int
    OBVIOUS
  <2> QED
    BY <2>2, <2>3, <2>4
<1> QED
  BY <1>3

\* The keys of n calls are 1 .. n.
Keyed(calls, n) ==
    /\ DOMAIN calls = 1 .. n
    /\ \A j \in 1 .. n : calls[j].key \in 1 .. n
    /\ \A k \in 1 .. n : \E j \in 1 .. n : calls[j].key = k

\* Calls whose keys are 1 .. n come out in the order of their keys.
LEMMA SortedByKey ==
  ASSUME NEW n \in Nat, NEW calls, Keyed(calls, n)
  PROVE  /\ DOMAIN ByKey(calls) = 1 .. n
         /\ \A j \in 1 .. n : ByKey(calls)[j].key = j /\ \E i \in 1 .. n : ByKey(calls)[j] = calls[i]
<1> DEFINE Rises(p) == \A i, j \in 1 .. n : i < j => calls[p[i]].key < calls[p[j]].key
           place == [k \in 1 .. n |-> CHOOSE j \in 1 .. n : calls[j].key = k]
           order == CHOOSE p \in [1 .. n -> 1 .. n] : Rises(p)
<1>0. /\ DOMAIN calls = 1 .. n
      /\ \A j \in 1 .. n : calls[j].key \in 1 .. n
      /\ \A k \in 1 .. n : \E j \in 1 .. n : calls[j].key = k
  BY DEF Keyed
<1>1. \A k \in 1 .. n : place[k] \in 1 .. n /\ calls[place[k]].key = k
  BY <1>0
<1>2. place \in [1 .. n -> 1 .. n]
  BY <1>1
<1> HIDE DEF place
<1>3. Rises(place)
  BY <1>1
<1> HIDE DEF Rises
<1>4. order \in [1 .. n -> 1 .. n] /\ Rises(order)
  BY <1>2, <1>3
<1>5. ByKey(calls) = [j \in 1 .. n |-> calls[order[j]]]
  BY <1>0 DEF ByKey, Rises
<1> HIDE DEF order
<1> DEFINE q == [j \in 1 .. n |-> calls[order[j]].key]
<1>6. q \in [1 .. n -> 1 .. n] /\ \A j \in 1 .. n : q[j] = calls[order[j]].key
  BY <1>0, <1>4
<1> HIDE DEF q
<1>7. \A i, j \in 1 .. n : i < j => q[i] < q[j]
  BY <1>4, <1>6 DEF Rises
<1>8. \A j \in 1 .. n : q[j] = j
  BY <1>6, <1>7, Increasing
<1> QED
  BY <1>4, <1>5, <1>6, <1>8

\* m numbers, each given once by key.
Numbering(key, m, B) ==
    /\ B \subseteq Nat \ {0}
    /\ key \in [1 .. m -> B]
    /\ \A k \in B : \E j \in 1 .. m : key[j] = k
    /\ \A i, j \in 1 .. m : key[i] = key[j] => i = j

\* Numbers without gaps are 1 .. m.
LEMMA NoGaps ==
  ASSUME NEW B, NEW m \in Nat, NEW key, Numbering(key, m, B), \A k \in B : 1 .. k \subseteq B
  PROVE  B = 1 .. m
<1>0. B \subseteq Nat \ {0}
  BY DEF Numbering
<1>1. ExistsBijection(1 .. m, B)
  <2>1. key \in Bijection(1 .. m, B)
    BY DEF Numbering, Bijection, Injection, Surjection, IsInjective
  <2> QED
    BY <2>1 DEF ExistsBijection
<1>2. IsFiniteSet(1 .. m) /\ Cardinality(1 .. m) = m
  <2>1. Cardinality(1 .. m) = IF 1 > m THEN 0 ELSE m - 1 + 1
    BY FS_Interval
  <2> QED
    BY <2>1, FS_Interval
<1>3. IsFiniteSet(B) /\ Cardinality(B) = m
  BY <1>1, <1>2, FS_Bijection
<1> DEFINE Free == {i \in Nat : i + 1 \notin B}
<1>4. Free # {}
  <2> SUFFICES ASSUME Free = {} PROVE FALSE
    OBVIOUS
  <2>1. 1 .. m + 1 \subseteq B
    <3> SUFFICES ASSUME NEW i \in 1 .. m + 1 PROVE i \in B
      OBVIOUS
    <3>1. i - 1 \in Nat /\ (i - 1) + 1 = i
      OBVIOUS
    <3> QED
      BY <3>1
  <2>2. Cardinality(1 .. m + 1) <= Cardinality(B)
    BY <1>3, <2>1, FS_Subset
  <2>3. Cardinality(1 .. m + 1) = m + 1
    <3>1. Cardinality(1 .. m + 1) = IF 1 > m + 1 THEN 0 ELSE m + 1 - 1 + 1
      BY FS_Interval
    <3> QED
      BY <3>1
  <2> QED
    BY <1>3, <2>2, <2>3
<1>5. PICK n \in Free : \A i \in Free : ~ (i < n)
  BY <1>4, LeastOf
<1>6. B = 1 .. n
  <2>1. ASSUME NEW i \in 1 .. n PROVE i \in B
    <3>1. i - 1 \in Nat /\ (i - 1) + 1 = i /\ i - 1 < n
      BY <1>5
    <3> QED
      BY <1>5, <3>1
  <2>2. ASSUME NEW k \in B PROVE k \in 1 .. n
    <3>1. k \in Nat \ {0} /\ 1 .. k \subseteq B
      BY <1>0
    <3>2. ~ (n + 1 \in 1 .. k)
      BY <1>5, <3>1
    <3> QED
      BY <1>5, <3>1, <3>2
  <2> QED
    BY <2>1, <2>2
<1>7. Cardinality(1 .. n) = n
  <2>1. Cardinality(1 .. n) = IF 1 > n THEN 0 ELSE n - 1 + 1
    BY <1>5, FS_Interval
  <2> QED
    BY <1>5, <2>1
<1> QED
  BY <1>3, <1>6, <1>7

-----------------------------------------------------------------------------
(* What the adapter keeps *)

LEMMA CollectedInit ==
  ASSUME acc.calls = <<>>, \A k \in DOMAIN said.calls : said.calls[k] = -1
  PROVE  Collected
<1>1. Begun = {} /\ DOMAIN acc.calls = {}
  BY DEF Begun
<1> QED
  BY <1>1 DEF Collected

LEMMA CollectedSame ==
  ASSUME Collected, said'.calls = said.calls, acc'.calls = acc.calls, adapter' = adapter
  PROVE  Collected' /\ Begun' = Begun
BY DEF Collected, Begun, Mixes

LEMMA CollectedCall ==
  ASSUME StreamTypes, Collected, NEW k \in DOMAIN said.calls, SayCall(k)
  PROVE  Collected'
<1> DEFINE n == Len(acc.calls)
<1>1. /\ said' = [said EXCEPT !.calls[k] = 0] /\ said.calls[k] < 0 /\ k \in Nat
      /\ adapter' = adapter
  BY CallFacts
<1>2. PICK id \in Nat \X Nat :
         /\ acc' = [acc EXCEPT !.calls = Append(acc.calls, [key |-> k, id |-> id, args |-> 0])]
         /\ id = <<turn, k>> \/ (adapter = "gemini" /\ id = <<0, n + 1>>)
  BY CallFacts
<1>3. /\ n \in Nat /\ acc.calls \in Seq(Blocks) /\ DOMAIN acc.calls = 1 .. n
      /\ said.calls \in Seq(Int) /\ DOMAIN said.calls = 1 .. Len(said.calls) /\ Len(said.calls) \in Nat
      /\ acc \in Accs /\ said \in Sayings
  BY DEF StreamTypes, Accs, Sayings
<1>4. /\ DOMAIN said'.calls = DOMAIN said.calls /\ said'.calls[k] = 0
      /\ \A i \in DOMAIN said.calls : i # k => said'.calls[i] = said.calls[i]
  BY <1>1, <1>3 DEF Sayings
<1>5. k \notin Begun /\ Begun' = Begun \cup {k} /\ Begun \subseteq DOMAIN said.calls
  <2>1. said.calls[k] \in Int
    BY <1>3
  <2>2. k \notin Begun /\ Begun \subseteq DOMAIN said.calls
    BY <1>1, <2>1 DEF Begun
  <2>3. Begun' = {i \in DOMAIN said.calls : said'.calls[i] >= 0}
    BY <1>4 DEF Begun
  <2>4. \A i \in DOMAIN said.calls : i \in Begun \cup {k} <=> said'.calls[i] >= 0
    BY <1>4 DEF Begun
  <2> QED
    BY <2>2, <2>3, <2>4
<1>6. /\ DOMAIN acc'.calls = 1 .. n + 1
      /\ acc'.calls[n + 1] = [key |-> k, id |-> id, args |-> 0]
      /\ \A j \in 1 .. n : acc'.calls[j] = acc.calls[j]
  <2>1. acc'.calls = Append(acc.calls, [key |-> k, id |-> id, args |-> 0])
    BY <1>2, <1>3 DEF Accs
  <2> QED
    BY <1>3, <2>1
<1>7. ~ Mixes => k = n + 1
  <2> SUFFICES ASSUME ~ Mixes PROVE k = n + 1
    OBVIOUS
  <2>1. \A j \in 1 .. n : acc.calls[j].key = j /\ j \in Begun
    BY <1>3 DEF Collected
  <2>2. ASSUME NEW i \in Begun PROVE i \in 1 .. n
    <3>1. PICK j \in 1 .. n : acc.calls[j].key = i
      BY <1>3 DEF Collected
    <3> QED
      BY <2>1, <3>1
  <2>3. \A i \in 1 .. k - 1 : i \in 1 .. n
    BY <2>2 DEF SayCall
  <2>4. k \notin 1 .. n /\ k \in Nat \ {0}
    BY <1>1, <1>3, <1>5, <2>1
  <2>5. n < k
    BY <1>3, <2>4
  <2>6. CASE k = 1
    BY <1>3, <2>5, <2>6
  <2>7. CASE k # 1
    <3>1. k - 1 \in 1 .. n
      BY <2>3, <2>4, <2>7
    <3> QED
      BY <1>3, <2>4, <2>5, <3>1
  <2> QED
    BY <2>6, <2>7
<1>8. id[2] = k
  <2>1. adapter = "gemini" => ~ Mixes
    BY DEF Mixes
  <2> QED
    BY <1>2, <1>7, <2>1
<1>9. ASSUME NEW j \in 1 .. n
      PROVE  /\ acc.calls[j].key \in Begun /\ acc.calls[j].key # k
             /\ acc.calls[j].args = said'.calls[acc.calls[j].key]
             /\ acc.calls[j].id[2] = acc.calls[j].key
             /\ ~ Mixes => acc.calls[j].key = j
  <2>1. /\ acc.calls[j].key \in Begun
        /\ acc.calls[j].args = said.calls[acc.calls[j].key]
        /\ acc.calls[j].id[2] = acc.calls[j].key
        /\ ~ Mixes => acc.calls[j].key = j
    BY <1>3 DEF Collected
  <2> QED
    BY <1>4, <1>5, <2>1
<1>10. Mixes' <=> Mixes
  BY <1>1 DEF Mixes
<1>11. \A j \in DOMAIN acc'.calls : j \in 1 .. n \/ j = n + 1
  BY <1>3, <1>6
<1>12. ASSUME NEW j \in DOMAIN acc'.calls
       PROVE  /\ acc'.calls[j].key \in Begun'
              /\ acc'.calls[j].args = said'.calls[acc'.calls[j].key]
              /\ acc'.calls[j].id[2] = acc'.calls[j].key
              /\ ~ Mixes' => acc'.calls[j].key = j
  <2>1. CASE j \in 1 .. n
    BY <1>5, <1>6, <1>9, <1>10, <2>1
  <2>2. CASE j = n + 1
    BY <1>4, <1>5, <1>6, <1>7, <1>8, <1>10, <2>2
  <2> QED
    BY <1>11, <2>1, <2>2
<1>13. ASSUME NEW i \in Begun' PROVE \E j \in DOMAIN acc'.calls : acc'.calls[j].key = i
  <2>1. CASE i = k
    <3>1. n + 1 \in DOMAIN acc'.calls
      BY <1>3, <1>6
    <3> QED
      BY <1>6, <2>1, <3>1
  <2>2. CASE i \in Begun
    <3>1. PICK j \in 1 .. n : acc.calls[j].key = i
      BY <1>3, <2>2 DEF Collected
    <3>2. j \in DOMAIN acc'.calls
      BY <1>3, <1>6
    <3> QED
      BY <1>6, <3>1, <3>2
  <2> QED
    BY <1>5, <2>1, <2>2
<1>14. \A i, j \in DOMAIN acc'.calls : acc'.calls[i].key = acc'.calls[j].key => i = j
  <2>1. \A i, j \in 1 .. n : acc.calls[i].key = acc.calls[j].key => i = j
    BY <1>3 DEF Collected
  <2> QED
    BY <1>6, <1>9, <1>11, <2>1
<1> QED
  BY <1>12, <1>13, <1>14 DEF Collected

LEMMA CollectedArguments ==
  ASSUME StreamTypes, Collected, NEW k \in DOMAIN said.calls, SayArguments(k)
  PROVE  Collected'
<1> DEFINE n == Len(acc.calls)
           more == acc'.calls
<1>1. /\ said' = [said EXCEPT !.calls[k] = said.calls[k] + 1] /\ said.calls[k] >= 0
      /\ acc' = MoreArgs(acc, IF adapter = "claude" THEN acc.calls[n].key ELSE k)
      /\ adapter' = adapter
  BY ArgumentsFacts
<1>2. /\ n \in Nat /\ acc.calls \in Seq(Blocks) /\ DOMAIN acc.calls = 1 .. n
      /\ said.calls \in Seq(Int) /\ DOMAIN said.calls = 1 .. Len(said.calls) /\ Len(said.calls) \in Nat
      /\ said \in Sayings
  BY DEF StreamTypes, Accs, Sayings
<1>3. /\ DOMAIN said'.calls = DOMAIN said.calls /\ said'.calls[k] = said.calls[k] + 1
      /\ \A i \in DOMAIN said.calls : i # k => said'.calls[i] = said.calls[i]
  BY <1>1, <1>2 DEF Sayings
<1>4. k \in Begun /\ Begun' = Begun
  <2>1. said.calls[k] \in Int
    BY <1>2
  <2> QED
    BY <1>1, <1>3, <2>1 DEF Begun
<1>5. adapter = "claude" => acc.calls[n].key = k
  <2> SUFFICES ASSUME adapter = "claude" PROVE acc.calls[n].key = k
    OBVIOUS
  <2>1. ~ Mixes /\ k + 1 \notin Begun
    BY DEF Mixes, SayArguments
  <2>2. \A j \in 1 .. n : acc.calls[j].key = j /\ j \in Begun
    BY <1>2, <2>1 DEF Collected
  <2>3. k \in 1 .. n
    BY <1>2, <1>4, <2>2 DEF Collected
  <2>4. k + 1 \notin 1 .. n
    BY <2>1, <2>2
  <2>5. k = n
    BY <1>2, <2>3, <2>4
  <2> QED
    BY <2>2, <2>3, <2>5
<1>6. /\ DOMAIN more = 1 .. n
      /\ \A j \in 1 .. n : more[j] = IF acc.calls[j].key = k THEN Longer(acc.calls[j]) ELSE acc.calls[j]
  <2>1. acc' = MoreArgs(acc, k)
    BY <1>1, <1>5
  <2> QED
    BY <1>2, <2>1, MoreArgsTypes
<1> HIDE DEF more
<1>7. ASSUME NEW j \in 1 .. n
      PROVE  /\ more[j].key = acc.calls[j].key /\ more[j].id = acc.calls[j].id
             /\ more[j].args = said'.calls[acc.calls[j].key]
  <2>1. acc.calls[j] \in Blocks /\ acc.calls[j].key \in DOMAIN said.calls
        /\ acc.calls[j].args = said.calls[acc.calls[j].key]
    BY <1>2 DEF Collected, Begun
  <2>2. \A b \in Blocks : Longer(b).key = b.key /\ Longer(b).id = b.id /\ Longer(b).args = b.args + 1
    BY DEF Longer, Blocks
  <2> QED
    BY <1>3, <1>6, <2>1, <2>2
<1>8. Mixes' <=> Mixes
  BY <1>1 DEF Mixes
<1>9. ASSUME NEW j \in DOMAIN more
      PROVE  /\ more[j].key \in Begun'
             /\ more[j].args = said'.calls[more[j].key]
             /\ more[j].id[2] = more[j].key
             /\ ~ Mixes' => more[j].key = j
  BY <1>2, <1>4, <1>6, <1>7, <1>8 DEF Collected
<1>10. /\ \A i \in Begun' : \E j \in DOMAIN more : more[j].key = i
       /\ \A i, j \in DOMAIN more : more[i].key = more[j].key => i = j
  <2>1. \A i \in Begun : \E j \in 1 .. n : acc.calls[j].key = i
    BY <1>2 DEF Collected
  <2>2. \A i, j \in 1 .. n : acc.calls[i].key = acc.calls[j].key => i = j
    BY <1>2 DEF Collected
  <2>3. \A j \in 1 .. n : more[j].key = acc.calls[j].key
    BY <1>7
  <2>4. \A i \in Begun' : \E j \in 1 .. n : more[j].key = i
    BY <1>4, <2>1, <2>3
  <2> QED
    BY <1>6, <2>2, <2>3, <2>4
<1> QED
  BY <1>9, <1>10 DEF Collected, more

LEMMA AskFacts ==
  ASSUME Ask
  PROVE  /\ acc' = NothingKept /\ out' = <<>> /\ alive' = TRUE /\ phase' = "ask"
         /\ \E calls : /\ said' = [NothingSaid EXCEPT !.calls = calls]
                       /\ \A k \in DOMAIN calls : calls[k] = -1
<1> DEFINE calls == [k \in 1 .. IF turn' < MaxTurns THEN MaxCalls[turn'] ELSE 0 |-> -1]
<1>1. said' = [NothingSaid EXCEPT !.calls = calls]
  BY DEF Ask
<1>2. \A k \in DOMAIN calls : calls[k] = -1
  OBVIOUS
<1> HIDE DEF calls
<1>3. acc' = NothingKept /\ out' = <<>> /\ alive' = TRUE /\ phase' = "ask"
  BY DEF Ask
<1> QED
  BY <1>1, <1>2, <1>3

LEMMA CollectedStep ==
  ASSUME Frame, Collected, [StreamNext]_streamVars
  PROVE  Collected'
<1>0. StreamTypes
  BY DEF Frame
<1>1. CASE Ask
  <2>1. PICK calls : said' = [NothingSaid EXCEPT !.calls = calls] /\ \A k \in DOMAIN calls : calls[k] = -1
    BY <1>1, AskFacts
  <2>2. acc' = NothingKept
    BY <1>1, AskFacts
  <2>3. said'.calls = calls /\ acc'.calls = <<>>
    BY <2>1, <2>2 DEF NothingSaid, NothingKept
  <2>4. DOMAIN acc'.calls = {} /\ Begun' = {}
    BY <2>1, <2>3 DEF Begun
  <2> QED
    BY <2>4 DEF Collected
<1>2. ASSUME UNCHANGED <<adapter, said, acc>>
      PROVE  Collected'
  BY <1>2, CollectedSame
<1>3. CASE \/ Connect \/ ConnectFails \/ StreamEnds \/ UpstreamFails \/ WriteFinal \/ ClientLeaves \/ ClientMissed
           \/ streamVars' = streamVars
  BY <1>2, <1>3 DEF Connect, ConnectFails, StreamEnds, UpstreamFails, WriteFinal, ClientLeaves, ClientMissed,
                    FailTurn, streamVars
<1>4. CASE SayText
  <2>1. said' = [said EXCEPT !.text = said.text + 1] /\ acc' = acc /\ adapter' = adapter
    BY <1>0, <1>4, TextFacts
  <2>2. said'.calls = said.calls
    BY <1>0, <2>1 DEF StreamTypes, Sayings
  <2> QED
    BY <2>1, <2>2, CollectedSame
<1>5. CASE SayThought
  <2>1. /\ said' = [said EXCEPT !.thought = said.thought + 1] /\ adapter' = adapter
        /\ acc' = acc \/ acc' = [acc EXCEPT !.thinking = turn]
    BY <1>0, <1>5, ThoughtFacts
  <2>2. said'.calls = said.calls /\ acc'.calls = acc.calls
    BY <1>0, <2>1 DEF StreamTypes, Sayings, Accs
  <2> QED
    BY <2>1, <2>2, CollectedSame
<1>6. ASSUME NEW why \in {"end", "cut"}, SayFinish(why)
      PROVE  Collected'
  <2>1. PICK reason \in Reasons, usage, used \in [total : Int] :
           /\ said' = [said EXCEPT !.why = why, !.used = used]
           /\ acc' = [acc EXCEPT !.finish = reason, !.usage = usage]
    BY <1>0, <1>6, FinishFacts
  <2>2. said'.calls = said.calls /\ acc'.calls = acc.calls
    BY <1>0, <2>1 DEF StreamTypes, Sayings, Accs
  <2>3. adapter' = adapter
    BY <1>0, <1>6, FinishFacts
  <2> QED
    BY <2>2, <2>3, CollectedSame
<1> QED
  BY <1>0, <1>1, <1>3, <1>4, <1>5, <1>6, CollectedCall, CollectedArguments DEF StreamNext

-----------------------------------------------------------------------------
(* What the client has read *)

LEMMA ConcludedSame ==
  ASSUME Concluded, UNCHANGED <<said, acc>>
  PROVE  Concluded'
BY DEF Concluded, Begun, NormalizeStopReason

LEMMA NoneKept ==
  ASSUME StreamTypes, Collected
  PROVE  acc.calls = <<>> <=> Begun = {}
<1>1. acc.calls \in Seq(Blocks)
  BY DEF StreamTypes, Accs
<1>2. acc.calls = <<>> <=> DOMAIN acc.calls = {}
  <2>1. DOMAIN acc.calls = 1 .. Len(acc.calls) /\ Len(acc.calls) \in Nat
    BY <1>1
  <2>2. acc.calls = <<>> <=> Len(acc.calls) = 0
    BY <1>1
  <2>3. 1 .. Len(acc.calls) = {} <=> Len(acc.calls) = 0
    <3>1. Len(acc.calls) # 0 => 1 \in 1 .. Len(acc.calls)
      BY <2>1
    <3> QED
      BY <2>1, <3>1
  <2> QED
    BY <2>1, <2>2, <2>3
<1> QED
  BY <1>2 DEF Collected

\* The provider still speaks: nothing is concluded.
LEMMA ConcludedSaying ==
  ASSUME Concluded, said.why = "none", said'.why = said.why, said'.used = said.used, acc'.usage = acc.usage
  PROVE  Concluded'
BY DEF Concluded

LEMMA ConcludedStep ==
  ASSUME Frame, Collected, Concluded, [StreamNext]_streamVars
  PROVE  Concluded'
<1>0. StreamTypes
  BY DEF Frame
<1>1. CASE Ask
  <2>1. PICK calls : said' = [NothingSaid EXCEPT !.calls = calls]
    BY <1>1, AskFacts
  <2>2. acc' = NothingKept
    BY <1>1, AskFacts
  <2>3. said'.why = "none" /\ said'.used = NoUsage /\ acc'.usage = NoUsage
    BY <2>1, <2>2 DEF NothingSaid, NothingKept
  <2> QED
    BY <2>3 DEF Concluded
<1>2. CASE \/ Connect \/ ConnectFails \/ StreamEnds \/ UpstreamFails \/ WriteFinal \/ ClientLeaves \/ ClientMissed
           \/ streamVars' = streamVars
  BY <1>2, ConcludedSame DEF Connect, ConnectFails, StreamEnds, UpstreamFails, WriteFinal, ClientLeaves,
                             ClientMissed, FailTurn, streamVars
<1>3. CASE SayText
  <2>1. said' = [said EXCEPT !.text = said.text + 1] /\ acc' = acc /\ said.why = "none"
    BY <1>0, <1>3, TextFacts
  <2>2. said'.why = said.why /\ said'.used = said.used
    BY <1>0, <2>1 DEF StreamTypes, Sayings
  <2> QED
    BY <2>1, <2>2, ConcludedSaying
<1>4. CASE SayThought
  <2>1. /\ said' = [said EXCEPT !.thought = said.thought + 1] /\ said.why = "none"
        /\ acc' = acc \/ acc' = [acc EXCEPT !.thinking = turn]
    BY <1>0, <1>4, ThoughtFacts
  <2>2. said'.why = said.why /\ said'.used = said.used /\ acc'.usage = acc.usage
    BY <1>0, <2>1 DEF StreamTypes, Sayings, Accs
  <2> QED
    BY <2>1, <2>2, ConcludedSaying
<1>5. ASSUME NEW k \in DOMAIN said.calls, SayCall(k)
      PROVE  Concluded'
  <2>1. said' = [said EXCEPT !.calls[k] = 0] /\ said.why = "none"
    BY <1>0, <1>5, CallFacts
  <2>2. PICK id \in Nat \X Nat :
           acc' = [acc EXCEPT !.calls = Append(acc.calls, [key |-> k, id |-> id, args |-> 0])]
    BY <1>0, <1>5, CallFacts
  <2>3. said'.why = said.why /\ said'.used = said.used /\ acc'.usage = acc.usage
    BY <1>0, <2>1, <2>2 DEF StreamTypes, Sayings, Accs
  <2> QED
    BY <2>1, <2>3, ConcludedSaying
<1>6. ASSUME NEW k \in DOMAIN said.calls, SayArguments(k)
      PROVE  Concluded'
  <2>1. /\ said' = [said EXCEPT !.calls[k] = said.calls[k] + 1] /\ said.why = "none"
        /\ acc' = MoreArgs(acc, IF adapter = "claude" THEN acc.calls[Len(acc.calls)].key ELSE k)
    BY <1>0, <1>6, ArgumentsFacts
  <2>2. said'.why = said.why /\ said'.used = said.used
    BY <1>0, <2>1 DEF StreamTypes, Sayings
  <2>3. acc'.usage = acc.usage
    BY <1>0, <2>1 DEF MoreArgs, StreamTypes, Accs
  <2> QED
    BY <2>1, <2>2, <2>3, ConcludedSaying
<1>7. ASSUME NEW why \in {"end", "cut"}, SayFinish(why)
      PROVE  Concluded'
  <2>1. PICK reason \in Reasons, usage, used \in [total : Int] :
           /\ said' = [said EXCEPT !.why = why, !.used = used]
           /\ acc' = [acc EXCEPT !.finish = reason, !.usage = usage]
           /\ usage = used \/ (usage = acc.usage /\ used = said.used)
           /\ why = "end" => NormalizeStopReason(reason, Begun # {})
                               = IF Begun = {} THEN "end_turn" ELSE "tool_use"
    BY <1>0, <1>7, FinishFacts
  <2>2. said.why = "none" /\ \A k \in Begun : 1 .. k \subseteq Begun
    BY <1>0, <1>7, FinishFacts
  <2>3. /\ said'.why = why /\ said'.used = used /\ said'.calls = said.calls
        /\ acc'.usage = usage /\ acc'.finish = reason /\ acc'.calls = acc.calls
    BY <1>0, <2>1 DEF StreamTypes, Sayings, Accs
  <2>4. usage = used
    BY <2>1, <2>2 DEF Concluded
  <2>5. Begun' = Begun
    BY <2>3 DEF Begun
  <2>6. acc.calls = <<>> <=> Begun = {}
    BY <1>0, NoneKept
  <2>7. said'.why = "end" => NormalizeStopReason(acc'.finish, acc'.calls # <<>>)
                              = IF acc'.calls = <<>> THEN "end_turn" ELSE "tool_use"
    <3>1. (acc'.calls # <<>>) = (Begun # {})
      BY <2>3, <2>6
    <3> QED
      BY <2>1, <2>3, <2>6, <3>1
  <2> QED
    BY <2>2, <2>3, <2>4, <2>5, <2>7 DEF Concluded
<1> QED
  BY <1>1, <1>2, <1>3, <1>4, <1>5, <1>6, <1>7 DEF StreamNext

LEMMA FinalsSame ==
  ASSUME UNCHANGED <<turn, adapter, said, acc>>
  PROVE  /\ UNCHANGED <<CallEvents, StopEvent, FinalEvents>>
         /\ UNCHANGED Contents
<1>1. /\ UNCHANGED CallEvents
      /\ UNCHANGED StopEvent
  BY DEF CallEvents, StopEvent, Collect, OpenAICollect, ResponsesCollect, Whole, InPieces, Begun,
         NormalizeStopReason
<1> QED
  BY <1>1 DEF FinalEvents, Contents

\* What the client has read, given an event more.
LEMMA SeenAppended ==
  ASSUME Sequence(out), NEW e, out' = Append(out, e)
  PROVE  \A kind : Seen(kind)' = IF e.kind = kind THEN Append(Seen(kind), e) ELSE Seen(kind)
<1> SUFFICES ASSUME NEW kind
             PROVE  Seen(kind)' = IF e.kind = kind THEN Append(Seen(kind), e) ELSE Seen(kind)
  OBVIOUS
<1>1. Only(Append(out, e), kind) = IF e.kind = kind THEN Append(Only(out, kind), e) ELSE Only(out, kind)
  BY OnlyAppended
<1>2. Seen(kind)' = Only(Append(out, e), kind)
  BY DEF Seen
<1> QED
  BY <1>1, <1>2 DEF Seen

LEMMA SeenNothing ==
  ASSUME out' = <<>>
  PROVE  \A kind : Seen(kind)' = <<>>
<1>1. Sequence(<<>>)
  BY DEF Sequence
<1> SUFFICES ASSUME NEW kind PROVE Seen(kind)' = <<>>
  OBVIOUS
<1>2. Only(<<>>, kind) = <<>>
  BY <1>1, OnlyAppended
<1> QED
  BY <1>2 DEF Seen

LEMMA HeadMoves ==
  ASSUME NEW s, Sequence(s), NEW t, Sequence(t), t # <<>>
  PROVE  /\ Sequence(Append(s, t[1])) /\ Sequence(Tail(t))
         /\ Append(s, t[1]) \o Tail(t) = s \o t
<1> DEFINE E == {s[i] : i \in DOMAIN s} \cup {t[i] : i \in DOMAIN t}
<1>1. s \in Seq(E) /\ t \in Seq(E)
  BY DEF Sequence
<1>2. /\ Len(s) \in Nat /\ Len(t) \in Nat \ {0} /\ t[1] \in E /\ Tail(t) \in Seq(E)
      /\ Append(s, t[1]) \in Seq(E)
  BY <1>1
<1> HIDE DEF E
<1> DEFINE l == Append(s, t[1]) \o Tail(t)
           r == s \o t
<1>3. l \in Seq(E) /\ r \in Seq(E) /\ Len(l) = Len(s) + Len(t) /\ Len(r) = Len(s) + Len(t)
  BY <1>1, <1>2
<1>4. ASSUME NEW i \in 1 .. Len(s) + Len(t) PROVE l[i] = r[i]
  <2>a. /\ Len(Append(s, t[1])) = Len(s) + 1 /\ Len(Tail(t)) = Len(t) - 1
        /\ Append(s, t[1])[Len(s) + 1] = t[1]
        /\ \A j \in 1 .. Len(s) : Append(s, t[1])[j] = s[j]
        /\ \A j \in 1 .. Len(t) - 1 : Tail(t)[j] = t[j + 1]
    BY <1>1, <1>2
  <2>b. /\ \A j \in 1 .. Len(s) + 1 : l[j] = Append(s, t[1])[j]
        /\ \A j \in Len(s) + 2 .. Len(s) + Len(t) : l[j] = Tail(t)[j - (Len(s) + 1)]
    BY <1>2, <2>a
  <2>c. /\ \A j \in 1 .. Len(s) : r[j] = s[j]
        /\ \A j \in Len(s) + 1 .. Len(s) + Len(t) : r[j] = t[j - Len(s)]
    BY <1>1, <1>2
  <2> HIDE DEF l, r
  <2>1. CASE i <= Len(s)
    <3>1. i \in 1 .. Len(s) /\ i \in 1 .. Len(s) + 1
      BY <1>2, <2>1
    <3> QED
      BY <2>a, <2>b, <2>c, <3>1
  <2>2. CASE i = Len(s) + 1
    <3>1. i \in 1 .. Len(s) + 1 /\ i \in Len(s) + 1 .. Len(s) + Len(t) /\ i - Len(s) = 1
      BY <1>2, <2>2
    <3> QED
      BY <2>a, <2>b, <2>c, <2>2, <3>1
  <2>3. CASE i > Len(s) + 1
    <3>1. /\ i \in Len(s) + 2 .. Len(s) + Len(t) /\ i \in Len(s) + 1 .. Len(s) + Len(t)
          /\ i - (Len(s) + 1) \in 1 .. Len(t) - 1 /\ (i - (Len(s) + 1)) + 1 = i - Len(s)
      BY <1>2, <2>3
    <3> QED
      BY <2>a, <2>b, <2>c, <3>1
  <2> QED
    BY <1>2, <2>1, <2>2, <2>3
<1>5. l = r
  <2> HIDE DEF l, r
  <2> QED
    BY <1>3, <1>4
<1>6. Sequence(Append(s, t[1]))
  BY Appended
<1> QED
  BY <1>5, <1>6, TailFacts

LEMMA AppendSame ==
  ASSUME NEW s, Sequence(s), NEW u, Sequence(u), NEW d, NEW e, Append(s, d) = Append(u, e)
  PROVE  s = u /\ d = e
<1> DEFINE E == {s[i] : i \in DOMAIN s} \cup {u[i] : i \in DOMAIN u}
<1>1. s \in Seq(E) /\ u \in Seq(E) /\ Len(s) \in Nat /\ Len(u) \in Nat
  BY DEF Sequence
<1> HIDE DEF E
<1>2. /\ DOMAIN s = 1 .. Len(s) /\ DOMAIN Append(s, d) = 1 .. Len(s) + 1 /\ Append(s, d)[Len(s) + 1] = d
      /\ \A i \in DOMAIN s : Append(s, d)[i] = s[i]
  BY Appended
<1>3. /\ DOMAIN u = 1 .. Len(u) /\ DOMAIN Append(u, e) = 1 .. Len(u) + 1 /\ Append(u, e)[Len(u) + 1] = e
      /\ \A i \in DOMAIN u : Append(u, e)[i] = u[i]
  BY Appended
<1>4. Len(s) = Len(u)
  <2>1. 1 .. Len(s) + 1 = 1 .. Len(u) + 1
    BY <1>2, <1>3
  <2>2. Len(s) + 1 \in 1 .. Len(s) + 1 /\ Len(u) + 1 \in 1 .. Len(u) + 1
    BY <1>1
  <2>3. Len(s) + 1 <= Len(u) + 1 /\ Len(u) + 1 <= Len(s) + 1
    BY <1>1, <2>1, <2>2
  <2> QED
    BY <1>1, <2>3
<1>5. d = e /\ \A i \in 1 .. Len(s) : s[i] = u[i]
  BY <1>2, <1>3, <1>4
<1> QED
  BY <1>1, <1>4, <1>5

LEMMA LastMoves ==
  ASSUME NEW s, Sequence(s), NEW t, Sequence(t), Len(t) = 1, NEW u, Sequence(u), NEW e,
         s \o t = Append(u, e)
  PROVE  s = u /\ t[1] = e
<1> DEFINE E == {s[i] : i \in DOMAIN s} \cup {t[i] : i \in DOMAIN t}
<1>1. s \in Seq(E) /\ t \in Seq(E)
  BY DEF Sequence
<1>2. t[1] \in E
  BY <1>1
<1>3. t = <<t[1]>>
  <2> HIDE DEF E
  <2> QED
    BY <1>1, <1>2
<1>4. s \o <<t[1]>> = Append(s, t[1])
  <2> HIDE DEF E
  <2> QED
    BY <1>1, <1>2
<1>5. s \o t = Append(s, t[1])
  <2>1. s \o t = s \o <<t[1]>>
    BY <1>3
  <2> QED
    BY <2>1, <1>4
<1>6. Append(s, t[1]) = Append(u, e)
  BY <1>5
<1> DEFINE d == t[1]
<1>7. Append(s, d) = Append(u, e)
  BY <1>6
<1> HIDE DEF d
<1>8. s = u /\ d = e
  BY <1>7, AppendSame
<1> QED
  BY <1>8 DEF d

\* An event written while the provider speaks.
LEMMA PassingSaying ==
  ASSUME StreamTypes, Passed, phase = "stream", phase' = phase, alive' = alive,
         \/ out' = out /\ Contents' = Contents
         \/ \E e : /\ Emit(e) /\ e.kind \in {"content", "thinking"}
                   /\ Contents' = IF e.kind = "content" THEN Append(Contents, e) ELSE Contents
  PROVE  Passed'
<1> SUFFICES ASSUME alive
             PROVE  (Seen("content") = Contents /\ Seen("tool_call") = <<>> /\ Seen("stop") = <<>>)'
  BY DEF Passed
<1>1. Seen("content") = Contents /\ Seen("tool_call") = <<>> /\ Seen("stop") = <<>>
  BY DEF Passed
<1>2. CASE out' = out /\ Contents' = Contents
  <2>1. \A kind : Seen(kind)' = Seen(kind)
    BY <1>2 DEF Seen
  <2> QED
    BY <1>1, <1>2, <2>1
<1>3. ASSUME NEW e, Emit(e), e.kind \in {"content", "thinking"},
             Contents' = IF e.kind = "content" THEN Append(Contents, e) ELSE Contents
      PROVE  (Seen("content") = Contents /\ Seen("tool_call") = <<>> /\ Seen("stop") = <<>>)'
  <2>1. out' = Append(out, e) /\ Sequence(out)
    BY <1>3 DEF Emit, StreamTypes
  <2>2. \A kind : Seen(kind)' = IF e.kind = kind THEN Append(Seen(kind), e) ELSE Seen(kind)
    BY <2>1, SeenAppended
  <2> QED
    BY <1>1, <1>3, <2>2
<1> QED
  BY <1>2, <1>3

LEMMA PassingWrite ==
  ASSUME Frame, Passed, WriteFinal
  PROVE  Passed'
<1>1. /\ Emit(todo[1]) /\ todo' = Tail(todo)
      /\ todo[1].kind = IF Len(todo) = 1 THEN "stop" ELSE "tool_call"
      /\ phase = "final" /\ phase' = IF Len(todo) = 1 THEN "stopped" ELSE "final"
      /\ UNCHANGED <<turn, adapter, said, acc, alive>>
  BY WriteFacts
<1>2. /\ Sequence(out) /\ Sequence(todo) /\ todo # <<>> /\ Sequence(CallEvents)
      /\ FinalEvents = Append(CallEvents, StopEvent)
  BY <1>1, Finals DEF Frame, StreamTypes, Order
<1>3. CallEvents' = CallEvents /\ StopEvent' = StopEvent /\ FinalEvents' = FinalEvents /\ Contents' = Contents
  BY <1>1, FinalsSame
<1>4. CASE ~ alive
  <2>1. Frame' /\ (phase' = "stopped" => ~ Told')
    BY <1>1, <1>4, WriteFacts DEF Frame, Order
  <2> QED
    BY <1>1, <1>4, <2>1 DEF Passed
<1>5. CASE alive
  <2> DEFINE e == todo[1]
  <2>1. out' = Append(out, e)
    BY <1>1, <1>5 DEF Emit
  <2>2. \A kind : Seen(kind)' = IF e.kind = kind THEN Append(Seen(kind), e) ELSE Seen(kind)
    BY <1>2, <2>1, SeenAppended
  <2> DEFINE calls == Seen("tool_call")
  <2>3. /\ Seen("content") = Contents /\ Seen("stop") = <<>>
        /\ Sequence(calls) /\ calls \o todo = FinalEvents
    BY <1>1, <1>5 DEF Passed
  <2>4. CASE Len(todo) = 1
    <3>1. calls = CallEvents /\ e = StopEvent
      <4>1. calls \o todo = Append(CallEvents, StopEvent)
        BY <1>2, <2>3
      <4> HIDE DEF calls
      <4> QED
        BY <1>2, <2>3, <2>4, <4>1, LastMoves
    <3>2. e.kind = "stop"
      BY <1>1, <2>4
    <3>3. Seen("content")' = Contents' /\ Seen("tool_call")' = CallEvents' /\ Seen("stop")' = <<StopEvent'>>
      <4>1. Seen("content")' = Seen("content") /\ Seen("tool_call")' = Seen("tool_call")
        BY <2>2, <3>2
      <4>2. Seen("stop")' = Append(<<>>, e)
        BY <2>2, <2>3, <3>2
      <4>3. Append(<<>>, e) = <<e>>
        OBVIOUS
      <4> QED
        BY <1>3, <2>3, <3>1, <4>1, <4>2, <4>3
    <3> QED
      BY <1>1, <2>4, <3>3 DEF Passed
  <2>5. CASE Len(todo) # 1
    <3>1. e.kind = "tool_call"
      BY <1>1, <2>5
    <3>2. Sequence(Append(calls, e)) /\ Append(calls, e) \o Tail(todo) = calls \o todo
      <4> HIDE DEF calls
      <4> QED
        BY <1>2, <2>3, HeadMoves
    <3>3. /\ Seen("content")' = Contents' /\ Seen("stop")' = <<>> /\ Seen("tool_call")' = Append(calls, e)
      BY <1>3, <2>2, <2>3, <3>1
    <3>4. Sequence(Seen("tool_call"))' /\ (Seen("tool_call") \o todo = FinalEvents)'
      BY <1>1, <1>3, <2>3, <3>2, <3>3
    <3> QED
      BY <1>1, <2>5, <3>3, <3>4 DEF Passed
  <2> QED
    BY <2>4, <2>5
<1> QED
  BY <1>4, <1>5 DEF Frame, StreamTypes

LEMMA PassingStep ==
  ASSUME Frame, Passed, [StreamNext]_streamVars
  PROVE  Passed'
<1>0. StreamTypes
  BY DEF Frame
<1>1. CASE Ask
  <2>1. PICK calls : said' = [NothingSaid EXCEPT !.calls = calls]
    BY <1>1, AskFacts
  <2>2. out' = <<>> /\ phase' = "ask"
    BY <1>1, AskFacts
  <2>3. said'.text = 0
    BY <2>1 DEF NothingSaid
  <2>4. Contents' = <<>>
    BY <2>3 DEF Contents
  <2> QED
    BY <2>2, <2>4, SeenNothing DEF Passed
<1>2. CASE Connect \/ streamVars' = streamVars
  <2>1. UNCHANGED <<turn, adapter, said, acc, out, todo, alive>>
        /\ (phase' = phase \/ (phase = "ask" /\ phase' = "stream"))
    BY <1>2 DEF Connect, streamVars
  <2>2. (\A kind : Seen(kind)' = Seen(kind)) /\ Told' = Told
    BY <2>1 DEF Seen, Told, Has
  <2> QED
    BY <2>1, <2>2, FinalsSame DEF Passed
<1>3. CASE ClientLeaves
  BY <1>3 DEF ClientLeaves, Streaming, Passed
<1>4. CASE ConnectFails \/ UpstreamFails \/ ClientMissed
  BY <1>4 DEF ConnectFails, UpstreamFails, ClientMissed, FailTurn, Passed
<1>5. CASE SayText
  <2>1. /\ said' = [said EXCEPT !.text = said.text + 1] /\ Emit(Delta(said.text + 1))
        /\ phase = "stream" /\ phase' = phase /\ alive' = alive
    BY <1>0, <1>5, TextFacts
  <2>2. said.text \in Nat /\ said'.text = said.text + 1
    BY <1>0, <2>1 DEF StreamTypes, Sayings
  <2>3. Delta(said.text + 1).kind = "content"
    BY DEF Delta
  <2>4. Contents' = Append(Contents, Delta(said.text + 1))
    <3> DEFINE n == said.text
    <3>1. Contents' = [i \in 1 .. n + 1 |-> Delta(i)] /\ Contents = [i \in 1 .. n |-> Delta(i)]
      BY <2>2 DEF Contents
    <3>2. \A i \in 1 .. n + 1 : i \in 1 .. n \/ i = n + 1
      BY <2>2
    <3>3. Len(Contents) = n
      BY <2>2, <3>1
    <3>4. Append(Contents, Delta(n + 1)) = [i \in 1 .. n + 1 |-> IF i = n + 1 THEN Delta(n + 1) ELSE Contents[i]]
      BY <2>2, <3>3
    <3> QED
      BY <2>2, <3>1, <3>2, <3>4
  <2> QED
    BY <1>0, <2>1, <2>3, <2>4, PassingSaying
<1>6. CASE SayThought
  <2>1. /\ said' = [said EXCEPT !.thought = said.thought + 1] /\ Emit(Thought)
        /\ phase = "stream" /\ phase' = phase /\ alive' = alive
    BY <1>0, <1>6, ThoughtFacts
  <2>2. said'.text = said.text
    BY <1>0, <2>1 DEF StreamTypes, Sayings
  <2>3. Thought.kind = "thinking" /\ Contents' = Contents
    BY <2>2 DEF Thought, Contents
  <2> QED
    BY <1>0, <2>1, <2>3, PassingSaying
<1>7. ASSUME NEW k \in DOMAIN said.calls, SayCall(k)
      PROVE  Passed'
  <2>1. said' = [said EXCEPT !.calls[k] = 0] /\ out' = out /\ phase = "stream" /\ phase' = phase /\ alive' = alive
    BY <1>0, <1>7, CallFacts
  <2>2. Contents' = Contents
    BY <1>0, <2>1 DEF StreamTypes, Sayings, Contents
  <2> QED
    BY <1>0, <2>1, <2>2, PassingSaying
<1>8. ASSUME NEW k \in DOMAIN said.calls, SayArguments(k)
      PROVE  Passed'
  <2>1. /\ said' = [said EXCEPT !.calls[k] = said.calls[k] + 1] /\ out' = out
        /\ phase = "stream" /\ phase' = phase /\ alive' = alive
    BY <1>0, <1>8, ArgumentsFacts
  <2>2. Contents' = Contents
    BY <1>0, <2>1 DEF StreamTypes, Sayings, Contents
  <2> QED
    BY <1>0, <2>1, <2>2, PassingSaying
<1>9. ASSUME NEW why \in {"end", "cut"}, SayFinish(why)
      PROVE  Passed'
  <2>1. \E used : said' = [said EXCEPT !.why = why, !.used = used]
    BY <1>0, <1>9, FinishFacts
  <2>2. out' = out /\ phase = "stream" /\ phase' = phase /\ alive' = alive
    BY <1>0, <1>9, FinishFacts
  <2>3. Contents' = Contents
    BY <1>0, <2>1 DEF StreamTypes, Sayings, Contents
  <2> QED
    BY <1>0, <2>2, <2>3, PassingSaying
<1>10. CASE StreamEnds
  <2>1. /\ UNCHANGED <<turn, adapter, said, acc, out, alive>> /\ phase = "stream" /\ phase' = "final"
        /\ todo' = FinalEvents
    BY <1>10 DEF StreamEnds, Streaming
  <2>2. \A kind : Seen(kind)' = Seen(kind)
    BY <2>1 DEF Seen
  <2>3. FinalEvents' = FinalEvents /\ Contents' = Contents
    BY <2>1, FinalsSame
  <2>4. Sequence(<<>>) /\ <<>> \o FinalEvents = FinalEvents
    <3>1. Sequence(<<>>) /\ Sequence(FinalEvents)
      BY <1>0, Finals DEF Sequence
    <3> QED
      BY <3>1 DEF Sequence
  <2> QED
    BY <2>1, <2>2, <2>3, <2>4 DEF Passed
<1> QED
  BY <1>1, <1>2, <1>3, <1>4, <1>5, <1>6, <1>7, <1>8, <1>9, <1>10, PassingWrite DEF StreamNext

-----------------------------------------------------------------------------
(* The answer is whole *)

\* What is collected comes out as the calls in the order in which the model made them.
LEMMA CollectedInOrder ==
  ASSUME StreamTypes, Collected, \A k \in Begun : 1 .. k \subseteq Begun
  PROVE  /\ Begun = 1 .. Len(acc.calls) /\ Len(acc.calls) \in Nat /\ DOMAIN acc.calls = 1 .. Len(acc.calls)
         /\ \A j \in 1 .. Len(acc.calls) :
               /\ Collect(acc.calls)[j].key = j
               /\ Collect(acc.calls)[j].args = said.calls[j]
               /\ Collect(acc.calls)[j].id[2] = j
<1> DEFINE n == Len(acc.calls)
           calls == acc.calls
           key == [j \in 1 .. n |-> calls[j].key]
<1>1. n \in Nat /\ DOMAIN calls = 1 .. n /\ said.calls \in Seq(Int)
  BY DEF StreamTypes, Accs, Sayings
<1>2. Begun \subseteq Nat \ {0}
  BY <1>1 DEF Begun
<1>3. /\ key \in [1 .. n -> Begun] /\ \A j \in 1 .. n : key[j] = calls[j].key
      /\ \A k \in Begun : \E j \in 1 .. n : key[j] = k
      /\ \A i, j \in 1 .. n : key[i] = key[j] => i = j
  <2>1. \A j \in 1 .. n : calls[j].key \in Begun
    BY <1>1 DEF Collected
  <2>2. \A k \in Begun : \E j \in 1 .. n : calls[j].key = k
    BY <1>1 DEF Collected
  <2>3. \A i, j \in 1 .. n : calls[i].key = calls[j].key => i = j
    BY <1>1 DEF Collected
  <2> QED
    BY <2>1, <2>2, <2>3
<1> HIDE DEF key, n
<1>4. Begun = 1 .. n
  <2>1. Numbering(key, n, Begun)
    BY <1>2, <1>3 DEF Numbering
  <2>2. n \in Nat
    BY <1>1
  <2> QED
    BY <2>1, <2>2, NoGaps
<1>5. \A i \in 1 .. n : calls[i].args = said.calls[calls[i].key] /\ calls[i].id[2] = calls[i].key
  BY <1>1 DEF Collected
<1>6. CASE Mixes
  <2>1. Collect(calls) = ByKey(calls)
    BY <1>6 DEF Mixes, Collect, OpenAICollect, ResponsesCollect
  <2>2. /\ \A j \in 1 .. n : calls[j].key \in 1 .. n
        /\ \A k \in 1 .. n : \E j \in 1 .. n : calls[j].key = k
    BY <1>3, <1>4
  <2> HIDE DEF calls
  <2>3. \A j \in 1 .. n : ByKey(calls)[j].key = j /\ \E i \in 1 .. n : ByKey(calls)[j] = calls[i]
    <3>1. n \in Nat /\ Keyed(calls, n)
      BY <1>1, <2>2 DEF Keyed
    <3> QED
      BY <3>1, SortedByKey
  <2>4. \A j \in 1 .. n : /\ ByKey(calls)[j].key = j
                          /\ ByKey(calls)[j].args = said.calls[j] /\ ByKey(calls)[j].id[2] = j
    BY <1>5, <2>3
  <2> QED
    BY <1>1, <1>4, <2>1, <2>4 DEF calls
<1>7. CASE ~ Mixes
  <2>1. Collect(calls) = calls
    BY <1>7 DEF Mixes, Collect
  <2>2. \A j \in 1 .. n : calls[j].key = j
    BY <1>1, <1>7 DEF Collected
  <2> QED
    BY <1>1, <1>4, <1>5, <2>1, <2>2
<1> QED
  BY <1>6, <1>7 DEF n

Answering == Frame /\ Collected /\ Concluded /\ Passed

LEMMA AnsweredWhole ==
  ASSUME Answering
  PROVE  AnswerWhole
<1> SUFFICES ASSUME phase = "stopped", Told, said.why # "none"
             PROVE  LET stop == Seen("stop")[1]
                        calls == [k \in DOMAIN Seen("tool_call") |-> Seen("tool_call")[k].call]
                    IN  /\ Seen("content") = [n \in 1 .. said.text |-> [kind |-> "content", piece |-> n]]
                        /\ DOMAIN calls = Begun
                        /\ \A k \in Begun : calls[k].of = <<turn, k>> /\ calls[k].args = said.calls[k]
                        /\ \A j, k \in DOMAIN calls : calls[j].id = calls[k].id => j = k
                        /\ stop.usage = said.used
                        /\ said.why = "end" => (stop.reason = IF calls = <<>> THEN "end_turn" ELSE "tool_use")
                        /\ stop.reason = "max_tokens" => said.why = "cut"
  BY DEF AnswerWhole
<1> DEFINE n == Len(acc.calls)
           calls == [k \in DOMAIN Seen("tool_call") |-> Seen("tool_call")[k].call]
           stop == Seen("stop")[1]
<1>1. Seen("content") = Contents /\ Seen("tool_call") = CallEvents /\ Seen("stop") = <<StopEvent>>
  BY DEF Answering, Passed
<1>2. /\ Begun = 1 .. n /\ n \in Nat /\ DOMAIN acc.calls = 1 .. n
      /\ \A j \in 1 .. n : /\ Collect(acc.calls)[j].key = j
                           /\ Collect(acc.calls)[j].args = said.calls[j]
                           /\ Collect(acc.calls)[j].id[2] = j
  <2>1. StreamTypes /\ Collected /\ \A k \in Begun : 1 .. k \subseteq Begun
    BY DEF Answering, Frame, Concluded
  <2> QED
    BY <2>1, CollectedInOrder
<1>3. Seen("content") = [k \in 1 .. said.text |-> [kind |-> "content", piece |-> k]]
  BY <1>1 DEF Contents, Delta
<1>4. DOMAIN CallEvents = 1 .. n /\
      \A j \in 1 .. n : CallEvents[j].call = Call(<<turn, Collect(acc.calls)[j].key>>, Collect(acc.calls)[j].id,
                                                  Collect(acc.calls)[j].args, Whole(Collect(acc.calls)[j].key))
  BY <1>2 DEF CallEvents
<1>5. DOMAIN calls = 1 .. n /\ \A j \in 1 .. n : calls[j] = CallEvents[j].call
  BY <1>1, <1>4
<1> HIDE DEF calls
<1>6. ASSUME NEW j \in 1 .. n
      PROVE  calls[j].of = <<turn, j>> /\ calls[j].args = said.calls[j] /\ calls[j].id[2] = j
  <2> DEFINE b == Collect(acc.calls)[j]
  <2>1. b.key = j /\ b.args = said.calls[j] /\ b.id[2] = j
    BY <1>2
  <2>2. calls[j] = Call(<<turn, b.key>>, b.id, b.args, Whole(b.key))
    BY <1>4, <1>5
  <2> HIDE DEF b
  <2>3. calls[j].of = <<turn, b.key>> /\ calls[j].args = b.args /\ calls[j].id = b.id
    BY <2>2 DEF Call
  <2> QED
    BY <2>1, <2>3
<1>7. \A j, k \in DOMAIN calls : calls[j].id = calls[k].id => j = k
  BY <1>5, <1>6
<1>8. stop = StopEvent
  BY <1>1
<1> HIDE DEF stop
<1>9. stop.usage = acc.usage /\ stop.reason = NormalizeStopReason(acc.finish, acc.calls # <<>>)
  BY <1>8 DEF StopEvent
<1>10. calls = <<>> <=> acc.calls = <<>>
  BY <1>2, <1>5 DEF calls
<1>11. said.why = "end" => stop.reason = IF calls = <<>> THEN "end_turn" ELSE "tool_use"
  BY <1>9, <1>10 DEF Answering, Concluded
<1>12. said.why \in {"end", "cut"}
  BY DEF Answering, Frame, StreamTypes, Sayings
<1>13. stop.usage = said.used
  BY <1>9 DEF Answering, Concluded
<1> QED
  BY <1>2, <1>3, <1>5, <1>6, <1>7, <1>11, <1>12, <1>13 DEF calls, stop

LEMMA AnsweringInit == StreamInit => Answering
<1> SUFFICES ASSUME StreamInit PROVE Answering
  OBVIOUS
<1>1. Frame
  BY FrameInit
<1>2. Collected
  <2>1. acc.calls = <<>> /\ DOMAIN said.calls = {}
    <3>1. acc.calls = <<>> /\ said.calls = <<>>
      BY DEF StreamInit, NothingKept, NothingSaid
    <3>2. DOMAIN <<>> = {}
      OBVIOUS
    <3> QED
      BY <3>1, <3>2
  <2> QED
    BY <2>1, CollectedInit
<1>3. Concluded
  BY DEF StreamInit, NothingKept, NothingSaid, Concluded
<1>4. Passed
  BY DEF StreamInit, Passed
<1> QED
  BY <1>1, <1>2, <1>3, <1>4 DEF Answering

LEMMA AnsweringStep == Answering /\ [StreamNext]_streamVars => Answering'
BY FrameStep, CollectedStep, ConcludedStep, PassingStep DEF Answering

(* A client that has read the end of an answer has the whole of it: each   *)
(* piece of text once, every call with all its arguments, in the order in  *)
(* which the provider numbered them, and the usage it reported, whichever  *)
(* adapter folded the stream and however the pieces interleaved.           *)
THEOREM AnswersAreWhole == StreamSpec => []AnswerWhole
BY AnsweringInit, AnsweringStep, AnsweredWhole, PTL DEF StreamSpec

-----------------------------------------------------------------------------
(* Calls sorted by their keys *)

\* e lists the members of S in increasing order.
Lists(e, n, S) ==
    /\ e \in [1 .. n -> S]
    /\ \A i, j \in 1 .. n : i < j => e[i] < e[j]
    /\ \A x \in S : \E i \in 1 .. n : e[i] = x

Listed(S) == \E n \in Nat : \E e : Lists(e, n, S)

LEMMA ListOn ==
  ASSUME NEW b \in Nat, NEW S, S \subseteq Nat, \A x \in S : x < b, Listed(S)
  PROVE  Listed(S \cup {b})
<1>1. PICK n \in Nat : \E e : Lists(e, n, S)
  BY DEF Listed
<1>2. PICK e : Lists(e, n, S)
  BY <1>1
<1> DEFINE T == S \cup {b}
           d == [i \in 1 .. n + 1 |-> IF i = n + 1 THEN b ELSE e[i]]
<1>3. \A i \in 1 .. n : i \in 1 .. n + 1 /\ i # n + 1 /\ i < n + 1 /\ d[i] = e[i] /\ e[i] \in S /\ e[i] < b
  <2> SUFFICES ASSUME NEW i \in 1 .. n
               PROVE  i \in 1 .. n + 1 /\ i # n + 1 /\ i < n + 1 /\ d[i] = e[i] /\ e[i] \in S /\ e[i] < b
    OBVIOUS
  <2>1. i \in 1 .. n + 1 /\ i # n + 1 /\ i < n + 1
    OBVIOUS
  <2>2. d[i] = e[i]
    BY <2>1
  <2>3. e[i] \in S
    BY <1>2 DEF Lists
  <2> QED
    BY <2>1, <2>2, <2>3
<1>4. n + 1 \in 1 .. n + 1 /\ d[n + 1] = b /\ n + 1 \in Nat
  OBVIOUS
<1>5. \A i \in 1 .. n + 1 : i \in 1 .. n \/ i = n + 1
  OBVIOUS
<1>6. d \in [1 .. n + 1 -> T]
  <2>1. \A i \in 1 .. n + 1 : d[i] \in T
    BY <1>3, <1>4, <1>5
  <2> QED
    BY <2>1
<1> HIDE DEF d
<1>7. ASSUME NEW i \in 1 .. n + 1, NEW j \in 1 .. n + 1, i < j PROVE d[i] < d[j]
  <2>1. i \in 1 .. n
    BY <1>7
  <2>2. CASE j \in 1 .. n
    BY <1>2, <1>3, <1>7, <2>1, <2>2 DEF Lists
  <2>3. CASE j = n + 1
    BY <1>3, <1>4, <2>1, <2>3
  <2> QED
    BY <1>5, <2>2, <2>3
<1>8. ASSUME NEW x \in T PROVE \E i \in 1 .. n + 1 : d[i] = x
  <2>1. CASE x \in S
    <3>1. PICK i \in 1 .. n : e[i] = x
      BY <1>2, <2>1 DEF Lists
    <3> QED
      BY <1>3, <3>1
  <2>2. CASE x = b
    BY <1>4, <2>2
  <2> QED
    BY <2>1, <2>2
<1>9. Lists(d, n + 1, T)
  BY <1>6, <1>7, <1>8 DEF Lists
<1> QED
  BY <1>4, <1>9 DEF Listed

Below(S, n) == {x \in S : x < n}

LEMMA BoundedListed ==
  ASSUME NEW b \in Nat, NEW S, S \subseteq 0 .. b
  PROVE  Listed(S)
<1> DEFINE N == {n \in Nat : Listed(Below(S, n))}
<1>0. \A x \in S : x \in Nat /\ x <= b /\ x < b + 1 /\ ~ (x < 0)
  <2>1. \A x \in 0 .. b : x \in Nat /\ x <= b /\ x < b + 1 /\ ~ (x < 0)
    OBVIOUS
  <2> QED
    BY <2>1
<1>1. 0 \in N
  <2>1. Below(S, 0) = {}
    BY <1>0 DEF Below
  <2>2. Lists(<<>>, 0, {})
    BY DEF Lists
  <2>3. Listed({})
    BY <2>2 DEF Listed
  <2> QED
    BY <2>1, <2>3
<1>2. ASSUME NEW n \in Nat, n \in N PROVE n + 1 \in N
  <2>0. Listed(Below(S, n)) /\ n + 1 \in Nat
    BY <1>2
  <2>1. Below(S, n) \subseteq Nat /\ (\A x \in Below(S, n) : x < n)
    BY <1>0 DEF Below
  <2>2. \A x \in S : x < n + 1 <=> (x < n \/ x = n)
    <3>1. \A x \in Nat : x < n + 1 <=> (x < n \/ x = n)
      OBVIOUS
    <3> QED
      BY <1>0, <3>1
  <2>3. CASE n \in S
    <3>1. Below(S, n + 1) = Below(S, n) \cup {n}
      BY <2>2, <2>3 DEF Below
    <3>2. Listed(Below(S, n) \cup {n})
      BY <2>0, <2>1, ListOn
    <3> QED
      BY <2>0, <3>1, <3>2
  <2>4. CASE n \notin S
    <3>1. Below(S, n + 1) = Below(S, n)
      BY <2>2, <2>4 DEF Below
    <3> QED
      BY <2>0, <3>1
  <2> QED
    BY <2>3, <2>4
<1>3. b + 1 \in N
  <2>1. Nat \subseteq N
    <3> HIDE DEF N
    <3> QED
      BY <1>1, <1>2, NatInduct
  <2> QED
    BY <2>1
<1>4. Below(S, b + 1) = S
  BY <1>0 DEF Below
<1> QED
  BY <1>3, <1>4

\* The keys of n calls differ.
Keys1(calls, n, b) ==
    /\ DOMAIN calls = 1 .. n
    /\ \A j \in 1 .. n : calls[j].key \in 0 .. b
    /\ \A i, j \in 1 .. n : calls[i].key = calls[j].key => i = j

LEMMA ByKeySorts ==
  ASSUME NEW n \in Nat, NEW b \in Nat, NEW calls, Keys1(calls, n, b)
  PROVE  /\ DOMAIN ByKey(calls) = 1 .. n
         /\ \A j \in 1 .. n : \E i \in 1 .. n : ByKey(calls)[j] = calls[i]
         /\ \A i, j \in 1 .. n : i < j => ByKey(calls)[i].key < ByKey(calls)[j].key
<1> DEFINE Rises(p) == \A i, j \in 1 .. n : i < j => calls[p[i]].key < calls[p[j]].key
           S == {calls[j].key : j \in 1 .. n}
           order == CHOOSE p \in [1 .. n -> 1 .. n] : Rises(p)
<1>1. S \subseteq 0 .. b /\ DOMAIN calls = 1 .. n
  BY DEF Keys1
<1>2. Listed(S)
  <2> HIDE DEF S
  <2> QED
    BY <1>1, BoundedListed
<1>3. PICK m \in Nat : \E e : Lists(e, m, S)
  <2> HIDE DEF S
  <2> QED
    BY <1>2 DEF Listed
<1>4. PICK e : Lists(e, m, S)
  BY <1>3
<1>5. m = n
  <2>1. ExistsBijection(1 .. n, S)
    <3> DEFINE f == [j \in 1 .. n |-> calls[j].key]
    <3>1. f \in Bijection(1 .. n, S)
      BY DEF Keys1, Bijection, Injection, Surjection, IsInjective
    <3> QED
      BY <3>1 DEF ExistsBijection
  <2>2. ExistsBijection(1 .. m, S)
    <3>1. \A i, j \in 1 .. m : e[i] = e[j] => i = j
      <4> SUFFICES ASSUME NEW i \in 1 .. m, NEW j \in 1 .. m, e[i] = e[j] PROVE i = j
        OBVIOUS
      <4>1. e[i] \in Int /\ e[j] \in Int
        BY <1>1, <1>4 DEF Lists
      <4>2. ~ (i < j) /\ ~ (j < i)
        BY <1>4, <4>1 DEF Lists
      <4> QED
        BY <4>2
    <3>2. e \in [1 .. m -> S] /\ \A x \in S : \E i \in 1 .. m : e[i] = x
      BY <1>4 DEF Lists
    <3> HIDE DEF S
    <3>3. e \in Bijection(1 .. m, S)
      BY <3>1, <3>2 DEF Bijection, Injection, Surjection, IsInjective
    <3> QED
      BY <3>3 DEF ExistsBijection
  <2>3. \A k \in Nat : IsFiniteSet(1 .. k) /\ Cardinality(1 .. k) = k
    <3> SUFFICES ASSUME NEW k \in Nat PROVE IsFiniteSet(1 .. k) /\ Cardinality(1 .. k) = k
      OBVIOUS
    <3>1. Cardinality(1 .. k) = IF 1 > k THEN 0 ELSE k - 1 + 1
      BY FS_Interval
    <3> QED
      BY <3>1, FS_Interval
  <2>4. Cardinality(S) = n
    <3> HIDE DEF S
    <3> QED
      BY <2>1, <2>3, FS_Bijection
  <2>5. Cardinality(S) = m
    <3> HIDE DEF S
    <3> QED
      BY <2>2, <2>3, FS_Bijection
  <2> QED
    BY <2>4, <2>5
<1> DEFINE place == [i \in 1 .. n |-> CHOOSE j \in 1 .. n : calls[j].key = e[i]]
<1>6. \A i \in 1 .. n : e[i] \in S /\ \A j \in 1 .. n : i < j => e[i] < e[j]
  BY <1>4, <1>5 DEF Lists
<1>7. \A i \in 1 .. n : place[i] \in 1 .. n /\ calls[place[i]].key = e[i]
  BY <1>6
<1>8. place \in [1 .. n -> 1 .. n]
  BY <1>7
<1> HIDE DEF place
<1>9. Rises(place)
  BY <1>6, <1>7
<1>10. order \in [1 .. n -> 1 .. n] /\ Rises(order)
  <2> HIDE DEF Rises
  <2> QED
    BY <1>8, <1>9
<1>11. ByKey(calls) = [j \in 1 .. n |-> calls[order[j]]]
  BY <1>1 DEF ByKey
<1> HIDE DEF order
<1> QED
  BY <1>10, <1>11

-----------------------------------------------------------------------------
(* Conversations *)

Pairs == Nat \X Nat
Calls == [of : Pairs, id : Pairs, args : Int, whole : BOOLEAN]
Messages == [role : {"system", "user", "assistant", "tool"}, text : Nat, think : Nat,
             calls : Seq(Calls), of : Pairs, id : Pairs, named : BOOLEAN]

\* Message r is the result of call i of message k, and nothing but results of the same turn
\* and system messages stands between the two.
Answers(h, k, i, r) ==
    /\ k < r /\ h[r].role = "tool"
    /\ h[r].of = h[k].calls[i].of /\ h[r].id = h[k].calls[i].id
    /\ \A q \in k + 1 .. r : /\ h[q].role \in {"tool", "system"}
                             /\ h[q].role = "tool" => h[q].of[1] = h[k].calls[i].of[1]

\* The history of a client: calls belong to answers, the calls of a turn to one answer, each
\* call has one result and each result a call; T are the turns that called.
Conversation(h, T) ==
    /\ h \in Seq(Messages)
    /\ \A k \in DOMAIN h : h[k].calls # <<>> => h[k].role = "assistant"
    /\ \A k \in DOMAIN h : \A i, j \in DOMAIN h[k].calls :
          /\ h[k].calls[i].of[1] \in T
          /\ h[k].calls[i].of[1] = h[k].calls[j].of[1]
          /\ h[k].calls[i].id = h[k].calls[j].id => i = j
    /\ \A k, l \in DOMAIN h : \A i \in DOMAIN h[k].calls : \A j \in DOMAIN h[l].calls :
          h[k].calls[i].of[1] = h[l].calls[j].of[1] => k = l
    /\ \A k \in DOMAIN h : \A i \in DOMAIN h[k].calls : \E r \in DOMAIN h : Answers(h, k, i, r)
    /\ \A r \in DOMAIN h : h[r].role = "tool" =>
          \E k \in DOMAIN h : \E i \in DOMAIN h[k].calls : Answers(h, k, i, r)
    /\ \A r, s \in DOMAIN h : (h[r].role = "tool" /\ h[s].role = "tool" /\ h[r].of = h[s].of) => r = s

\* c is h followed by m.
Joins(c, h, m) ==
    /\ Len(h) \in Nat /\ DOMAIN h = 1 .. Len(h) /\ DOMAIN m = 1 .. Len(m) /\ Len(m) \in Nat
    /\ DOMAIN c = 1 .. Len(h) + Len(m)
    /\ \A k \in DOMAIN h : k \in DOMAIN c /\ c[k] = h[k]
    /\ \A k \in DOMAIN m : Len(h) + k \in DOMAIN c /\ c[Len(h) + k] = m[k]
    /\ \A k \in DOMAIN c : k \in DOMAIN h \/ \E l \in DOMAIN m : k = Len(h) + l

LEMMA Joined ==
  ASSUME NEW S, NEW h \in Seq(S), NEW m \in Seq(S)
  PROVE  h \o m \in Seq(S) /\ Joins(h \o m, h, m)
<1> DEFINE c == h \o m
           n == Len(h)
           o == Len(m)
<1>1. n \in Nat /\ o \in Nat /\ DOMAIN h = 1 .. n /\ DOMAIN m = 1 .. o
  OBVIOUS
<1>2. /\ c \in Seq(S) /\ Len(c) = n + o
      /\ \A i \in 1 .. n + o : c[i] = IF i <= n THEN h[i] ELSE m[i - n]
  BY ConcatProperties
<1>3. DOMAIN c = 1 .. n + o
  BY <1>2
<1> HIDE DEF c, n, o
<1>4. \A k \in 1 .. n : k \in 1 .. n + o /\ k <= n
  BY <1>1
<1>5. \A k \in 1 .. o : n + k \in 1 .. n + o /\ ~ (n + k <= n) /\ (n + k) - n = k
  BY <1>1
<1>6. \A k \in 1 .. n + o : k \in 1 .. n \/ \E l \in 1 .. o : k = n + l
  <2> SUFFICES ASSUME NEW k \in 1 .. n + o, k \notin 1 .. n PROVE \E l \in 1 .. o : k = n + l
    OBVIOUS
  <2>1. k - n \in 1 .. o /\ k = n + (k - n)
    BY <1>1
  <2> QED
    BY <2>1
<1> QED
  BY <1>1, <1>2, <1>3, <1>4, <1>5, <1>6 DEF Joins, c, n, o

LEMMA AnswersBefore ==
  ASSUME NEW c, NEW h, NEW m, Joins(c, h, m),
         NEW k \in DOMAIN h, NEW i, NEW r \in DOMAIN h, Answers(h, k, i, r)
  PROVE  Answers(c, k, i, r)
<1>1. \A q \in k + 1 .. r : q \in DOMAIN h
  BY DEF Joins
<1>2. \A q \in DOMAIN h : c[q] = h[q]
  BY DEF Joins
<1> QED
  BY <1>1, <1>2 DEF Answers

LEMMA AnswersAfter ==
  ASSUME NEW c, NEW h, NEW m, Joins(c, h, m),
         NEW k \in DOMAIN m, NEW i, NEW r \in DOMAIN m, Answers(m, k, i, r)
  PROVE  Answers(c, Len(h) + k, i, Len(h) + r)
<1> DEFINE n == Len(h)
<1>1. n \in Nat /\ k \in Int /\ r \in Int /\ \A q \in DOMAIN m : c[n + q] = m[q]
  BY DEF Joins
<1>2. \A q \in n + k + 1 .. n + r : q - n \in k + 1 .. r /\ q = n + (q - n)
  BY <1>1
<1>3. \A q \in k + 1 .. r : q \in DOMAIN m
  BY DEF Joins
<1>4. \A q \in n + k + 1 .. n + r : c[q] = m[q - n] /\ q - n \in k + 1 .. r
  BY <1>1, <1>2, <1>3
<1>5. n + k < n + r
  BY <1>1 DEF Answers
<1>6. c[n + k] = m[k] /\ c[n + r] = m[r]
  BY <1>1
<1> HIDE DEF n
<1> QED
  BY <1>4, <1>5, <1>6 DEF Answers, n

LEMMA Continued ==
  ASSUME NEW T, NEW U, T \cap U = {}, NEW h, NEW m, Conversation(h, T), Conversation(m, U)
  PROVE  Conversation(h \o m, T \cup U)
<1> DEFINE c == h \o m
           n == Len(h)
<1>1. c \in Seq(Messages) /\ Joins(c, h, m)
  BY Joined DEF Conversation
<1> HIDE DEF c
<1>2. \A k \in DOMAIN h : k \in DOMAIN c /\ c[k] = h[k]
  BY <1>1 DEF Joins
<1>3. \A k \in DOMAIN m : n + k \in DOMAIN c /\ c[n + k] = m[k]
  BY <1>1 DEF Joins
<1>4. \A k \in DOMAIN c : k \in DOMAIN h \/ \E l \in DOMAIN m : k = n + l
  BY <1>1 DEF Joins
<1>5. \A k \in DOMAIN c : c[k].calls # <<>> => c[k].role = "assistant"
  BY <1>2, <1>3, <1>4 DEF Conversation
<1>6. ASSUME NEW k \in DOMAIN c, NEW i \in DOMAIN c[k].calls, NEW j \in DOMAIN c[k].calls
      PROVE  /\ c[k].calls[i].of[1] \in T \cup U
             /\ c[k].calls[i].of[1] = c[k].calls[j].of[1]
             /\ c[k].calls[i].id = c[k].calls[j].id => i = j
  <2>1. CASE k \in DOMAIN h
    BY <1>2, <1>6, <2>1 DEF Conversation
  <2>2. CASE \E l \in DOMAIN m : k = n + l
    BY <1>3, <1>6, <2>2 DEF Conversation
  <2> QED
    BY <1>4, <2>1, <2>2
<1>8. ASSUME NEW k \in DOMAIN c, NEW l \in DOMAIN c, NEW i \in DOMAIN c[k].calls, NEW j \in DOMAIN c[l].calls,
             c[k].calls[i].of[1] = c[l].calls[j].of[1]
      PROVE  k = l
  <2> DEFINE t == c[k].calls[i].of[1]
  <2>1. CASE k \in DOMAIN h /\ l \in DOMAIN h
    BY <1>2, <1>8, <2>1 DEF Conversation
  <2>2. CASE \E x, y \in DOMAIN m : k = n + x /\ l = n + y
    <3>1. PICK x \in DOMAIN m, y \in DOMAIN m : k = n + x /\ l = n + y
      BY <2>2
    <3>2. x = y
      BY <1>3, <1>8, <3>1 DEF Conversation
    <3> QED
      BY <3>1, <3>2
  <2>3. ASSUME NEW x \in DOMAIN c, NEW y \in DOMAIN c[x].calls, c[x].calls[y].of[1] = t
        PROVE  \/ x \in DOMAIN h /\ t \in T
               \/ (\E z \in DOMAIN m : x = n + z) /\ t \in U
    <3>1. CASE x \in DOMAIN h
      <4>1. c[x] = h[x]
        BY <1>2, <3>1
      <4>2. h[x].calls[y].of[1] \in T
        BY <2>3, <3>1, <4>1 DEF Conversation
      <4> QED
        BY <2>3, <3>1, <4>1, <4>2
    <3>2. CASE \E z \in DOMAIN m : x = n + z
      <4>1. PICK z \in DOMAIN m : x = n + z
        BY <3>2
      <4>2. c[x] = m[z]
        BY <1>3, <4>1
      <4>3. m[z].calls[y].of[1] \in U
        BY <2>3, <4>1, <4>2 DEF Conversation
      <4> QED
        BY <2>3, <3>2, <4>2, <4>3
    <3> QED
      BY <1>4, <3>1, <3>2
  <2>4. /\ (k \in DOMAIN h /\ t \in T) \/ ((\E y \in DOMAIN m : k = n + y) /\ t \in U)
        /\ (l \in DOMAIN h /\ t \in T) \/ ((\E y \in DOMAIN m : l = n + y) /\ t \in U)
    BY <1>8, <2>3
  <2> HIDE DEF t
  <2> QED
    BY <2>1, <2>2, <2>4
<1>9. ASSUME NEW k \in DOMAIN c, NEW i \in DOMAIN c[k].calls PROVE \E r \in DOMAIN c : Answers(c, k, i, r)
  <2>1. CASE k \in DOMAIN h
    <3>1. PICK r \in DOMAIN h : Answers(h, k, i, r)
      BY <1>2, <1>9, <2>1 DEF Conversation
    <3> QED
      BY <1>1, <1>2, <2>1, <3>1, AnswersBefore
  <2>2. CASE \E l \in DOMAIN m : k = n + l
    <3>1. PICK l \in DOMAIN m : k = n + l
      BY <2>2
    <3>2. PICK r \in DOMAIN m : Answers(m, l, i, r)
      BY <1>3, <1>9, <3>1 DEF Conversation
    <3>3. Answers(c, n + l, i, n + r)
      BY <1>1, <3>1, <3>2, AnswersAfter
    <3> QED
      BY <1>3, <3>1, <3>3
  <2> QED
    BY <1>4, <2>1, <2>2
<1>10. ASSUME NEW r \in DOMAIN c, c[r].role = "tool"
       PROVE  \E k \in DOMAIN c : \E i \in DOMAIN c[k].calls : Answers(c, k, i, r)
  <2>1. CASE r \in DOMAIN h
    <3>1. PICK k \in DOMAIN h : \E i \in DOMAIN h[k].calls : Answers(h, k, i, r)
      BY <1>2, <1>10, <2>1 DEF Conversation
    <3>2. PICK i \in DOMAIN h[k].calls : Answers(h, k, i, r)
      BY <3>1
    <3>3. Answers(c, k, i, r)
      BY <1>1, <2>1, <3>2, AnswersBefore
    <3> QED
      BY <1>2, <3>3
  <2>2. CASE \E l \in DOMAIN m : r = n + l
    <3>1. PICK l \in DOMAIN m : r = n + l
      BY <2>2
    <3>2. PICK k \in DOMAIN m : \E i \in DOMAIN m[k].calls : Answers(m, k, i, l)
      BY <1>3, <1>10, <3>1 DEF Conversation
    <3>3. PICK i \in DOMAIN m[k].calls : Answers(m, k, i, l)
      BY <3>2
    <3>4. Answers(c, n + k, i, n + l)
      BY <1>1, <3>1, <3>3, AnswersAfter
    <3> QED
      BY <1>3, <3>1, <3>4
  <2> QED
    BY <1>4, <2>1, <2>2
<1>11. /\ \A r \in DOMAIN h : h[r].role = "tool" => h[r].of[1] \in T
       /\ \A r \in DOMAIN m : m[r].role = "tool" => m[r].of[1] \in U
  BY DEF Conversation, Answers
<1>12. ASSUME NEW r \in DOMAIN c, NEW s \in DOMAIN c, c[r].role = "tool", c[s].role = "tool", c[r].of = c[s].of
       PROVE  r = s
  <2>1. CASE r \in DOMAIN h /\ s \in DOMAIN h
    BY <1>2, <1>12, <2>1 DEF Conversation
  <2>2. CASE \E x, y \in DOMAIN m : r = n + x /\ s = n + y
    <3>1. PICK x \in DOMAIN m, y \in DOMAIN m : r = n + x /\ s = n + y
      BY <2>2
    <3>2. x = y
      BY <1>3, <1>12, <3>1 DEF Conversation
    <3> QED
      BY <3>1, <3>2
  <2>3. ASSUME NEW x \in DOMAIN c, c[x].role = "tool"
        PROVE  \/ x \in DOMAIN h /\ c[x].of[1] \in T
               \/ (\E y \in DOMAIN m : x = n + y) /\ c[x].of[1] \in U
    BY <1>2, <1>3, <1>4, <1>11, <2>3
  <2> QED
    BY <1>12, <2>1, <2>2, <2>3
<1> QED
  BY <1>1, <1>5, <1>6, <1>8, <1>9, <1>10, <1>12 DEF Conversation, c

-----------------------------------------------------------------------------
(* What the client adds to its history *)

LEMMA Plain ==
  /\ System \in Messages /\ System.role = "system" /\ System.calls = <<>>
  /\ \A n \in Nat : User(n) \in Messages /\ User(n).role = "user" /\ User(n).calls = <<>>
<1>1. <<>> \in Seq(Calls) /\ <<0, 0>> \in Pairs
  BY DEF Pairs
<1>2. \A role \in {"system", "user", "assistant", "tool"} : Msg(role) \in Messages /\ Msg(role).role = role /\ Msg(role).calls = <<>>
  BY <1>1 DEF Msg, Messages
<1> QED
  BY <1>1, <1>2 DEF System, User, Msg, Messages

LEMMA NoCalls ==
  ASSUME NEW h \in Seq(Messages), \A k \in DOMAIN h : h[k].calls = <<>> /\ h[k].role # "tool", NEW T
  PROVE  Conversation(h, T)
<1>1. \A k \in DOMAIN h : \A i : i \notin DOMAIN h[k].calls
  OBVIOUS
<1> QED
  BY <1>1 DEF Conversation

\* R holds one result for every call, and system messages.
Returns(R, calls) ==
    /\ R \in Seq(Messages)
    /\ \A q \in DOMAIN R : R[q].calls = <<>> /\ R[q].role \in {"tool", "system"}
    /\ \A q \in DOMAIN R : R[q].role = "tool" =>
          \E i \in DOMAIN calls : R[q].of = calls[i].of /\ R[q].id = calls[i].id
    /\ \A i \in DOMAIN calls : \E q \in DOMAIN R :
          R[q].role = "tool" /\ R[q].of = calls[i].of /\ R[q].id = calls[i].id
    /\ \A q, r \in DOMAIN R : (R[q].role = "tool" /\ R[r].role = "tool" /\ R[q].of = R[r].of) => q = r

OneByOne(calls) == \A i, j \in DOMAIN calls : calls[i].of = calls[j].of => i = j

LEMMA ResultFacts ==
  ASSUME NEW c \in Calls, NEW named \in BOOLEAN
  PROVE  /\ Result(c, named) \in Messages /\ Result(c, named).role = "tool"
         /\ Result(c, named).calls = <<>>
         /\ Result(c, named).of = c.of /\ Result(c, named).id = c.id
<1>1. c.of \in Pairs /\ c.id \in Pairs /\ <<>> \in Seq(Calls) /\ <<0, 0>> \in Pairs
  BY DEF Calls, Pairs
<1> QED
  BY <1>1 DEF Result, Msg, Messages

LEMMA ReverseReturns ==
  ASSUME NEW calls \in Seq(Calls), OneByOne(calls)
  PROVE  /\ Reverse(calls) \in Seq(Calls) /\ OneByOne(Reverse(calls))
         /\ \A q \in DOMAIN Reverse(calls) : \E i \in DOMAIN calls : Reverse(calls)[q] = calls[i]
         /\ \A i \in DOMAIN calls : \E q \in DOMAIN Reverse(calls) : Reverse(calls)[q] = calls[i]
<1> DEFINE n == Len(calls)
           rev == Reverse(calls)
<1>1. n \in Nat /\ DOMAIN calls = 1 .. n /\ \A i \in 1 .. n : calls[i] \in Calls
  OBVIOUS
<1>2. rev = [i \in 1 .. n |-> calls[(n - i) + 1]]
  BY DEF Reverse
<1> HIDE DEF n, rev
<1>3. \A i \in 1 .. n : (n - i) + 1 \in 1 .. n /\ (n - ((n - i) + 1)) + 1 = i
  BY <1>1
<1>4. DOMAIN rev = 1 .. n /\ \A i \in 1 .. n : rev[i] = calls[(n - i) + 1]
  BY <1>2
<1>5. rev \in [1 .. n -> Calls]
  BY <1>1, <1>2, <1>3
<1>6. rev \in Seq(Calls)
  BY <1>1, <1>5
<1>7. \A i, j \in 1 .. n : (n - i) + 1 = (n - j) + 1 => i = j
  BY <1>1
<1>8. OneByOne(rev)
  BY <1>1, <1>3, <1>4, <1>7 DEF OneByOne
<1>9. \A q \in 1 .. n : \E i \in 1 .. n : rev[q] = calls[i]
  BY <1>3, <1>4
<1>10. ASSUME NEW i \in 1 .. n PROVE \E q \in 1 .. n : rev[q] = calls[i]
  <2>1. (n - i) + 1 \in 1 .. n /\ rev[(n - i) + 1] = calls[i]
    BY <1>3, <1>4
  <2> QED
    BY <2>1
<1> QED
  BY <1>1, <1>4, <1>6, <1>8, <1>9, <1>10 DEF rev

LEMMA InTurn ==
  ASSUME NEW calls \in Seq(Calls), NEW order \in Seq(Calls), OneByOne(order), NEW named \in BOOLEAN,
         \A q \in DOMAIN order : \E i \in DOMAIN calls : order[q] = calls[i],
         \A i \in DOMAIN calls : \E q \in DOMAIN order : order[q] = calls[i]
  PROVE  Returns([k \in DOMAIN order |-> Result(order[k], named)], calls)
<1> DEFINE R == [k \in DOMAIN order |-> Result(order[k], named)]
<1>1. DOMAIN order = 1 .. Len(order) /\ Len(order) \in Nat /\ \A k \in DOMAIN order : order[k] \in Calls
  OBVIOUS
<1>2. \A k \in DOMAIN order : /\ R[k] \in Messages /\ R[k].role = "tool" /\ R[k].calls = <<>>
                              /\ R[k].of = order[k].of /\ R[k].id = order[k].id
  BY <1>1, ResultFacts
<1>3. DOMAIN R = DOMAIN order
  OBVIOUS
<1>4. R \in [1 .. Len(order) -> Messages]
  BY <1>1, <1>2
<1>5. R \in Seq(Messages)
  BY <1>1, <1>4
<1> HIDE DEF R
<1>6. ASSUME NEW q \in DOMAIN R PROVE \E i \in DOMAIN calls : R[q].of = calls[i].of /\ R[q].id = calls[i].id
  <2>1. PICK i \in DOMAIN calls : order[q] = calls[i]
    BY <1>3
  <2>2. R[q].of = calls[i].of /\ R[q].id = calls[i].id
    BY <1>2, <1>3, <2>1
  <2> QED
    BY <2>2
<1>7. \A i \in DOMAIN calls : \E q \in DOMAIN R : R[q].role = "tool" /\ R[q].of = calls[i].of /\ R[q].id = calls[i].id
  BY <1>2, <1>3
<1>8. \A q, r \in DOMAIN R : R[q].of = R[r].of => q = r
  BY <1>2, <1>3 DEF OneByOne
<1> QED
  BY <1>2, <1>3, <1>5, <1>6, <1>7, <1>8 DEF Returns, R

LEMMA WithNote ==
  ASSUME NEW R, NEW calls, Returns(R, calls), R # <<>>
  PROVE  Returns(<<R[1], System>> \o Tail(R), calls)
<1> DEFINE n == Len(R)
           N == <<R[1], System>> \o Tail(R)
<1>1. R \in Seq(Messages) /\ n \in Nat /\ n >= 1 /\ DOMAIN R = 1 .. n /\ \A q \in 1 .. n : R[q] \in Messages
  BY DEF Returns
<1>2. <<R[1], System>> \in Seq(Messages) /\ Len(<<R[1], System>>) = 2
  BY <1>1, Plain
<1>3. Tail(R) \in Seq(Messages) /\ Len(Tail(R)) = n - 1 /\ \A q \in 1 .. n - 1 : Tail(R)[q] = R[q + 1]
  BY <1>1
<1>4. N \in Seq(Messages) /\ Joins(N, <<R[1], System>>, Tail(R))
  BY <1>2, <1>3, Joined
<1>5. DOMAIN N = 1 .. n + 1
  BY <1>1, <1>2, <1>3, <1>4 DEF Joins
<1>6. N[1] = R[1] /\ N[2] = System
  BY <1>4 DEF Joins
<1>7. \A q \in 3 .. n + 1 : N[q] = R[q - 1] /\ q - 1 \in 2 .. n
  <2> SUFFICES ASSUME NEW q \in 3 .. n + 1 PROVE N[q] = R[q - 1] /\ q - 1 \in 2 .. n
    OBVIOUS
  <2>1. q - 2 \in 1 .. n - 1 /\ q = 2 + (q - 2) /\ (q - 2) + 1 = q - 1 /\ q - 1 \in 2 .. n
    BY <1>1
  <2>2. N[2 + (q - 2)] = Tail(R)[q - 2]
    BY <1>2, <1>3, <1>4, <2>1 DEF Joins
  <2> QED
    BY <1>3, <2>1, <2>2
<1> HIDE DEF N, n
<1>8. \A q \in 1 .. n + 1 : q = 1 \/ q = 2 \/ q \in 3 .. n + 1
  BY <1>1
<1> DEFINE from(q) == IF q = 1 THEN 1 ELSE q - 1
<1>9. ASSUME NEW q \in 1 .. n + 1, q # 2 PROVE from(q) \in 1 .. n /\ N[q] = R[from(q)]
  BY <1>1, <1>6, <1>7, <1>8, <1>9
<1>10. \A q, r \in 1 .. n + 1 : q # 2 /\ r # 2 /\ from(q) = from(r) => q = r
  BY <1>1
<1> DEFINE to(q) == IF q = 1 THEN 1 ELSE q + 1
<1>11. \A q \in 1 .. n : to(q) \in 1 .. n + 1 /\ to(q) # 2 /\ from(to(q)) = q
  BY <1>1
<1>12. \A q \in 1 .. n : to(q) \in 1 .. n + 1 /\ N[to(q)] = R[q]
  BY <1>9, <1>11
<1> HIDE DEF from, to
<1>13. \A q \in 1 .. n + 1 : N[q].role = "tool" => q # 2
  BY <1>6, Plain
<1>14. \A q \in DOMAIN N : N[q].calls = <<>> /\ N[q].role \in {"tool", "system"}
  BY <1>1, <1>5, <1>6, <1>9, Plain DEF Returns
<1>15. \A q \in DOMAIN N : N[q].role = "tool" =>
          \E i \in DOMAIN calls : N[q].of = calls[i].of /\ N[q].id = calls[i].id
  BY <1>1, <1>5, <1>9, <1>13 DEF Returns
<1>16. \A i \in DOMAIN calls : \E q \in DOMAIN N :
          N[q].role = "tool" /\ N[q].of = calls[i].of /\ N[q].id = calls[i].id
  BY <1>1, <1>5, <1>12 DEF Returns
<1>17. \A q, r \in DOMAIN N : (N[q].role = "tool" /\ N[r].role = "tool" /\ N[q].of = N[r].of) => q = r
  BY <1>1, <1>5, <1>9, <1>10, <1>13 DEF Returns
<1> QED
  BY <1>4, <1>14, <1>15, <1>16, <1>17 DEF Returns, N

LEMMA ResultsReturn ==
  ASSUME NEW calls \in Seq(Calls), OneByOne(calls), calls # <<>>,
         NEW form \in [reversed : BOOLEAN, named : BOOLEAN, note : BOOLEAN]
  PROVE  Returns(Results(calls, form), calls)
<1> DEFINE order == IF form.reversed THEN Reverse(calls) ELSE calls
           R == [k \in DOMAIN order |-> Result(order[k], form.named)]
<1>1. /\ order \in Seq(Calls) /\ OneByOne(order)
      /\ \A q \in DOMAIN order : \E i \in DOMAIN calls : order[q] = calls[i]
      /\ \A i \in DOMAIN calls : \E q \in DOMAIN order : order[q] = calls[i]
  BY ReverseReturns
<1> HIDE DEF order
<1>2. Returns(R, calls)
  BY <1>1, InTurn
<1>3. R # <<>>
  <2>1. 1 \in DOMAIN calls
    OBVIOUS
  <2>2. DOMAIN R # {}
    BY <1>1, <2>1
  <2> QED
    BY <2>2
<1> HIDE DEF R
<1>4. Returns(<<R[1], System>> \o Tail(R), calls)
  BY <1>2, <1>3, WithNote
<1>5. Results(calls, form) = IF form.note THEN <<R[1], System>> \o Tail(R) ELSE R
  BY DEF Results, R, order
<1> QED
  BY <1>2, <1>4, <1>5

LEMMA AnsweredCalls ==
  ASSUME NEW a \in Messages, a.role = "assistant", NEW t, OneByOne(a.calls),
         \A i \in DOMAIN a.calls : a.calls[i].of[1] = t,
         \A i, j \in DOMAIN a.calls : a.calls[i].id = a.calls[j].id => i = j,
         NEW R, Returns(R, a.calls)
  PROVE  Conversation(<<a>> \o R, {t})
<1> DEFINE c == <<a>> \o R
<1>1. R \in Seq(Messages) /\ <<a>> \in Seq(Messages) /\ Len(<<a>>) = 1 /\ DOMAIN R = 1 .. Len(R) /\ Len(R) \in Nat
  BY DEF Returns
<1>2. c \in Seq(Messages) /\ Joins(c, <<a>>, R)
  BY <1>1, Joined
<1>3. DOMAIN c = 1 .. Len(R) + 1 /\ c[1] = a
  BY <1>1, <1>2 DEF Joins
<1>4. \A q \in DOMAIN R : q + 1 \in DOMAIN c /\ c[q + 1] = R[q]
  <2>1. \A q \in DOMAIN R : 1 + q \in DOMAIN c /\ c[1 + q] = R[q] /\ 1 + q = q + 1
    BY <1>1, <1>2 DEF Joins
  <2> QED
    BY <2>1
<1>5. \A k \in DOMAIN c : k = 1 \/ (k - 1 \in DOMAIN R /\ k = (k - 1) + 1)
  BY <1>1, <1>3
<1> HIDE DEF c
<1>6. \A k \in DOMAIN c : k # 1 => /\ k - 1 \in DOMAIN R /\ c[k] = R[k - 1]
                                   /\ c[k].calls = <<>> /\ c[k].role \in {"tool", "system"}
  BY <1>4, <1>5 DEF Returns
<1>7. \A k \in DOMAIN c : DOMAIN c[k].calls # {} => k = 1
  BY <1>6
<1>8. \A k \in DOMAIN c : c[k].calls # <<>> => k = 1
  BY <1>6
<1>9. \A r \in DOMAIN c : c[r].role = "tool" =>
          r # 1 /\ \E i \in DOMAIN a.calls : c[r].of = a.calls[i].of /\ c[r].id = a.calls[i].id
  BY <1>3, <1>6 DEF Returns
<1>10. ASSUME NEW r \in DOMAIN c, NEW i \in DOMAIN a.calls, r # 1, c[r].role = "tool",
              c[r].of = a.calls[i].of, c[r].id = a.calls[i].id
       PROVE  Answers(c, 1, i, r)
  <2>1. \A q \in 2 .. r : q \in DOMAIN c /\ q # 1
    BY <1>1, <1>3
  <2>2. \A q \in 2 .. r : c[q].role \in {"tool", "system"} /\ (c[q].role = "tool" => c[q].of[1] = t)
    BY <1>6, <1>9, <2>1
  <2>3. 1 < r /\ 1 + 1 = 2
    BY <1>1, <1>3, <1>10
  <2> QED
    BY <1>3, <1>10, <2>2, <2>3 DEF Answers
<1>11. \A i \in DOMAIN c[1].calls : \E r \in DOMAIN c : Answers(c, 1, i, r)
  <2> SUFFICES ASSUME NEW i \in DOMAIN a.calls PROVE \E r \in DOMAIN c : Answers(c, 1, i, r)
    BY <1>3
  <2>1. PICK q \in DOMAIN R : R[q].role = "tool" /\ R[q].of = a.calls[i].of /\ R[q].id = a.calls[i].id
    BY DEF Returns
  <2>2. q + 1 \in DOMAIN c /\ c[q + 1] = R[q] /\ q + 1 # 1
    BY <1>1, <1>4
  <2> QED
    BY <1>10, <2>1, <2>2
<1>12. \A r \in DOMAIN c : c[r].role = "tool" => \E i \in DOMAIN c[1].calls : Answers(c, 1, i, r)
  BY <1>3, <1>9, <1>10
<1>13. \A r, s \in DOMAIN c : (c[r].role = "tool" /\ c[s].role = "tool" /\ c[r].of = c[s].of) => r = s
  <2> SUFFICES ASSUME NEW r \in DOMAIN c, NEW s \in DOMAIN c, c[r].role = "tool", c[s].role = "tool", c[r].of = c[s].of
               PROVE  r = s
    OBVIOUS
  <2>1. r - 1 \in DOMAIN R /\ s - 1 \in DOMAIN R /\ c[r] = R[r - 1] /\ c[s] = R[s - 1]
    BY <1>6, <1>9
  <2>2. r - 1 = s - 1
    BY <2>1 DEF Returns
  <2> QED
    BY <1>3, <1>1, <2>2
<1>14. 1 \in DOMAIN c
  BY <1>1, <1>3
<1>15. \A k \in DOMAIN c : \A i, j \in DOMAIN c[k].calls :
          /\ c[k].calls[i].of[1] \in {t}
          /\ c[k].calls[i].of[1] = c[k].calls[j].of[1]
          /\ c[k].calls[i].id = c[k].calls[j].id => i = j
  BY <1>3, <1>7
<1>16. \A k \in DOMAIN c : c[k].calls # <<>> => c[k].role = "assistant"
  BY <1>3, <1>8
<1>17. \A k, l \in DOMAIN c : \A i \in DOMAIN c[k].calls : \A j \in DOMAIN c[l].calls : k = l
  BY <1>7
<1>18. \A k \in DOMAIN c : \A i \in DOMAIN c[k].calls : \E r \in DOMAIN c : Answers(c, k, i, r)
  BY <1>7, <1>11
<1>19. \A r \in DOMAIN c : c[r].role = "tool" =>
          \E k \in DOMAIN c : \E i \in DOMAIN c[k].calls : Answers(c, k, i, r)
  BY <1>12, <1>14
<1> QED
  BY <1>2, <1>13, <1>15, <1>16, <1>17, <1>18, <1>19 DEF Conversation, c

-----------------------------------------------------------------------------
(* The client's history, in every state *)

\* A request is made of the history as it is.
Conversed ==
    /\ Conversation(history, 0 .. turn - 1)
    /\ sent \in {<<>>, Build(adapter, history)}

LEMMA CollectedCalls ==
  ASSUME Frame, Collected
  PROVE  LET calls == Collect(acc.calls)
         IN  /\ \A j \in DOMAIN acc.calls : \E i \in DOMAIN acc.calls : calls[j] = acc.calls[i]
             /\ \A i, j \in DOMAIN acc.calls : calls[i].key = calls[j].key => i = j
<1> DEFINE n == Len(acc.calls)
           b == Len(said.calls)
           calls == Collect(acc.calls)
<1>1. /\ acc.calls \in Seq(Blocks) /\ n \in Nat /\ DOMAIN acc.calls = 1 .. n
      /\ b \in Nat /\ DOMAIN said.calls = 1 .. b
  BY DEF Frame, StreamTypes, Accs, Sayings
<1>2. CASE adapter \in {"openai", "responses"}
  <2>1. \A j \in 1 .. n : acc.calls[j].key \in 0 .. b
    <3>1. \A k \in Begun : k \in 0 .. b
      BY <1>1 DEF Begun
    <3> QED
      BY <1>1, <3>1 DEF Collected
  <2>2. Keys1(acc.calls, n, b)
    BY <1>1, <2>1 DEF Keys1, Collected
  <2>3. calls = ByKey(acc.calls)
    BY <1>2 DEF Collect, OpenAICollect, ResponsesCollect
  <2> HIDE DEF calls, n, b
  <2>4. /\ \A j \in 1 .. n : \E i \in 1 .. n : calls[j] = acc.calls[i]
        /\ \A i, j \in 1 .. n : i < j => calls[i].key < calls[j].key
    <3>1. n \in Nat /\ b \in Nat
      BY <1>1
    <3>2. /\ \A j \in 1 .. n : \E i \in 1 .. n : ByKey(acc.calls)[j] = acc.calls[i]
          /\ \A i, j \in 1 .. n : i < j => ByKey(acc.calls)[i].key < ByKey(acc.calls)[j].key
      <4> DEFINE kept == acc.calls
      <4>1. Keys1(kept, n, b)
        BY <2>2
      <4> HIDE DEF kept
      <4>2. /\ \A j \in 1 .. n : \E i \in 1 .. n : ByKey(kept)[j] = kept[i]
            /\ \A i, j \in 1 .. n : i < j => ByKey(kept)[i].key < ByKey(kept)[j].key
        BY <3>1, <4>1, ByKeySorts
      <4> QED
        BY <4>2 DEF kept
    <3> QED
      BY <2>3, <3>2
  <2>5. ASSUME NEW j \in 1 .. n PROVE calls[j].key \in Int
    <3>1. PICK i \in 1 .. n : calls[j] = acc.calls[i]
      BY <2>4
    <3>2. acc.calls[i].key \in 0 .. b /\ b \in Nat
      BY <1>1, <2>1
    <3> QED
      BY <3>1, <3>2
  <2>6. ASSUME NEW i \in 1 .. n, NEW j \in 1 .. n, calls[i].key = calls[j].key PROVE i = j
    <3>1. ~ (i < j) /\ ~ (j < i)
      BY <2>4, <2>5, <2>6
    <3> QED
      BY <3>1
  <2> QED
    BY <1>1, <2>4, <2>6 DEF calls
<1>3. CASE adapter \notin {"openai", "responses"}
  <2>1. calls = acc.calls
    BY <1>3 DEF Collect
  <2> QED
    BY <2>1 DEF Collected
<1> QED
  BY <1>2, <1>3

LEMMA AnswerFacts ==
  ASSUME Answering, phase = "stopped", Told
  PROVE  /\ Answer \in Messages /\ Answer.role = "assistant" /\ OneByOne(Answer.calls)
         /\ \A i \in DOMAIN Answer.calls : Answer.calls[i].of[1] = turn
         /\ \A i, j \in DOMAIN Answer.calls : Answer.calls[i].id = Answer.calls[j].id => i = j
<1> DEFINE n == Len(acc.calls)
           b(j) == Collect(acc.calls)[j]
           given == [k \in DOMAIN Seen("tool_call") |-> Seen("tool_call")[k].call]
           text == IF Seen("content") = <<>> THEN 0 ELSE turn
           think == Seen("stop")[1].thinking
<1>1. /\ acc.calls \in Seq(Blocks) /\ n \in Nat /\ DOMAIN acc.calls = 1 .. n
      /\ turn \in Nat /\ acc.thinking \in Nat
  BY StreamsAssumption DEF Answering, Frame, StreamTypes, Accs, MaxTurns
<1>2. Seen("tool_call") = CallEvents /\ Seen("stop") = <<StopEvent>>
  BY DEF Answering, Passed
<1>3. DOMAIN CallEvents = 1 .. n
  BY <1>1 DEF CallEvents
<1>4. \A j \in 1 .. n : CallEvents[j].call = Call(<<turn, b(j).key>>, b(j).id, b(j).args, Whole(b(j).key))
  BY <1>1 DEF CallEvents
<1>5. DOMAIN given = 1 .. n /\ \A j \in 1 .. n : given[j] = CallEvents[j].call
  BY <1>2, <1>3
<1>6. given \in [1 .. n -> {given[j] : j \in 1 .. n}]
  BY <1>5
<1>7. think \in Nat /\ text \in Nat
  BY <1>1, <1>2 DEF StopEvent
<1>8. Answer = [Msg("assistant") EXCEPT !.text = text, !.think = think, !.calls = given]
  BY DEF Answer
<1>9. /\ \A j \in 1 .. n : \E i \in 1 .. n : b(j) = acc.calls[i]
      /\ \A i, j \in 1 .. n : b(i).key = b(j).key => i = j
  BY <1>1, CollectedCalls DEF Answering
<1>10. \A i \in 1 .. n : acc.calls[i] \in Blocks /\ acc.calls[i].id[2] = acc.calls[i].key
  BY <1>1 DEF Answering, Collected
<1> HIDE DEF given, text, think, b, n
<1>11. \A j \in 1 .. n : b(j) \in Blocks /\ b(j).id[2] = b(j).key
  BY <1>9, <1>10
<1>12. \A j \in 1 .. n : b(j).key \in Nat /\ b(j).id \in Nat \X Nat /\ b(j).args \in Int
  BY <1>11 DEF Blocks
<1>13. \A j \in 1 .. n : /\ given[j] = [of |-> <<turn, b(j).key>>, id |-> b(j).id, args |-> b(j).args, whole |-> Whole(b(j).key)]
  BY <1>4, <1>5 DEF Call
<1>14. \A k : Whole(k) \in BOOLEAN
  BY DEF Whole
<1>15. \A j \in 1 .. n : given[j] \in Calls
  <2> SUFFICES ASSUME NEW j \in 1 .. n PROVE given[j] \in Calls
    OBVIOUS
  <2> DEFINE key == b(j).key
             id == b(j).id
             args == b(j).args
             whole == Whole(b(j).key)
  <2>1. given[j] = [of |-> <<turn, key>>, id |-> id, args |-> args, whole |-> whole]
    BY <1>13
  <2>2. turn \in Nat /\ key \in Nat /\ id \in Pairs /\ args \in Int /\ whole \in BOOLEAN
    BY <1>1, <1>12, <1>14 DEF Pairs
  <2> HIDE DEF key, id, args, whole
  <2>3. <<turn, key>> \in Pairs
    BY <2>2 DEF Pairs
  <2> QED
    BY <2>1, <2>2, <2>3 DEF Calls
<1>16. given \in Seq(Calls)
  <2>1. given = [j \in 1 .. n |-> given[j]]
    BY <1>6
  <2>2. given \in [1 .. n -> Calls]
    BY <1>15, <2>1
  <2>3. n \in Nat
    BY <1>1
  <2> QED
    BY <2>2, <2>3
<1>17. Answer \in Messages /\ Answer.role = "assistant" /\ Answer.calls = given
  <2>1. <<0, 0>> \in Pairs
    BY DEF Pairs
  <2> QED
    BY <1>7, <1>8, <1>16, <2>1 DEF Msg, Messages
<1>18. \A i \in 1 .. n : given[i].of = <<turn, b(i).key>> /\ given[i].id = b(i).id
  <2> SUFFICES ASSUME NEW i \in 1 .. n PROVE given[i].of = <<turn, b(i).key>> /\ given[i].id = b(i).id
    OBVIOUS
  <2>1. given[i] = [of |-> <<turn, b(i).key>>, id |-> b(i).id, args |-> b(i).args, whole |-> Whole(b(i).key)]
    BY <1>13
  <2> QED
    BY <2>1
<1>19. OneByOne(given)
  <2>1. \A i, j \in 1 .. n : given[i].of = given[j].of => b(i).key = b(j).key
    BY <1>18
  <2> QED
    BY <1>5, <1>9, <2>1 DEF OneByOne
<1>20. \A i, j \in 1 .. n : given[i].id = given[j].id => i = j
  BY <1>9, <1>11, <1>18
<1> QED
  BY <1>5, <1>17, <1>18, <1>19, <1>20

LEMMA ContinuationFacts ==
  ASSUME Answering, phase \in {"idle", "stopped", "failed"}, turn < MaxTurns, NEW more,
         more \in IF turn = 0 THEN {<<System, User(1)>>} ELSE Continuations
  PROVE  Conversation(more, {turn})
<1>1. turn \in Nat /\ turn + 1 \in Nat /\ 1 \in Nat /\ Forms \in Seq(SUBSET [reversed : BOOLEAN, named : BOOLEAN, note : BOOLEAN])
  BY StreamsAssumption DEF Answering, Frame, StreamTypes, MaxTurns
<1>2. CASE more = <<System, User(1)>>
  <2>1. more \in Seq(Messages) /\ DOMAIN more = 1 .. 2 /\ \A k \in 1 .. 2 : more[k].calls = <<>> /\ more[k].role # "tool"
    BY <1>1, <1>2, Plain
  <2> QED
    BY <2>1, NoCalls
<1>3. CASE more = <<>>
  <2>1. more \in Seq(Messages) /\ DOMAIN more = {}
    BY <1>3
  <2> QED
    BY <2>1, NoCalls
<1>4. CASE Told /\ turn # 0 /\ more \in Continuations
  <2>1. phase = "stopped"
    <3>1. phase = "idle" => ~ Told
      BY DEF Answering, Frame, Order, Told, Has
    <3> QED
      BY <1>4, <3>1 DEF Answering, Frame, Order
  <2>2. /\ Answer \in Messages /\ Answer.role = "assistant" /\ OneByOne(Answer.calls)
        /\ \A i \in DOMAIN Answer.calls : Answer.calls[i].of[1] = turn
        /\ \A i, j \in DOMAIN Answer.calls : Answer.calls[i].id = Answer.calls[j].id => i = j
    BY <1>4, <2>1, AnswerFacts
  <2>3. CASE Answer.calls # <<>>
    <3>1. PICK f \in Forms[turn] : more = <<Answer>> \o Results(Answer.calls, f)
      BY <1>4, <2>3 DEF Continuations
    <3>2. f \in [reversed : BOOLEAN, named : BOOLEAN, note : BOOLEAN]
      <4>1. turn \in 1 .. Len(Forms)
        BY <1>1, <1>4, StreamsAssumption DEF MaxTurns
      <4> QED
        BY <1>1, <3>1, <4>1
    <3>3. Answer.calls \in Seq(Calls)
      BY <2>2 DEF Messages
    <3>4. Returns(Results(Answer.calls, f), Answer.calls)
      BY <2>2, <2>3, <3>2, <3>3, ResultsReturn
    <3> DEFINE a == Answer
               R == Results(Answer.calls, f)
    <3>5. more = <<a>> \o R /\ Returns(R, a.calls)
      BY <3>1, <3>4
    <3>6. /\ a \in Messages /\ a.role = "assistant" /\ OneByOne(a.calls)
          /\ \A i \in DOMAIN a.calls : a.calls[i].of[1] = turn
          /\ \A i, j \in DOMAIN a.calls : a.calls[i].id = a.calls[j].id => i = j
      BY <2>2
    <3> HIDE DEF a, R
    <3> QED
      BY <3>5, <3>6, AnsweredCalls
  <2>4. CASE Answer.calls = <<>>
    <3>1. more \in {<<>> \o <<User(turn + 1)>>, <<Answer>> \o <<User(turn + 1)>>}
      BY <1>4, <2>4 DEF Continuations
    <3>2. <<User(turn + 1)>> \in Seq(Messages) /\ User(turn + 1).role = "user" /\ User(turn + 1).calls = <<>>
      BY <1>1, Plain
    <3> DEFINE u == User(turn + 1)
               a == Answer
    <3>3. a \in Messages /\ a.calls = <<>> /\ a.role # "tool" /\ u \in Messages /\ u.calls = <<>> /\ u.role # "tool"
      BY <2>2, <2>4, <3>2
    <3>4. more \in {<<>> \o <<u>>, <<a>> \o <<u>>}
      BY <3>1
    <3> HIDE DEF u, a
    <3>5. more \in {<<u>>, <<a, u>>}
      BY <3>3, <3>4
    <3>6. more \in Seq(Messages) /\ \A k \in DOMAIN more : more[k].calls = <<>> /\ more[k].role # "tool"
      <4>1. CASE more = <<u>>
        BY <3>3, <4>1
      <4>2. CASE more = <<a, u>>
        BY <3>3, <4>2
      <4> QED
        BY <3>5, <4>1, <4>2
    <3> QED
      BY <3>6, NoCalls
  <2> QED
    BY <2>3, <2>4
<1>5. turn # 0 /\ ~ Told => more = <<>>
  BY DEF Continuations
<1> QED
  BY <1>2, <1>3, <1>4, <1>5

LEMMA ConversedInit == StreamInit => Conversed
<1> SUFFICES ASSUME StreamInit PROVE Conversed
  OBVIOUS
<1>1. history = <<>> /\ sent = <<>> /\ <<>> \in Seq(Messages)
  BY DEF StreamInit
<1>2. Conversation(<<>>, 0 .. turn - 1)
  <2>1. DOMAIN <<>> = {} /\ <<>> \in Seq(Messages)
    OBVIOUS
  <2> QED
    BY <2>1, NoCalls
<1> QED
  BY <1>1, <1>2 DEF Conversed

LEMMA ConversedStep ==
  ASSUME Answering, Conversed, [StreamNext]_streamVars
  PROVE  Conversed'
<1>1. CASE Ask
  <2>1. PICK more \in IF turn = 0 THEN {<<System, User(1)>>} ELSE Continuations : history' = history \o more
    BY <1>1 DEF Ask
  <2>2. Conversation(more, {turn})
    BY <1>1, <2>1, ContinuationFacts DEF Ask
  <2>3. turn \in Nat /\ turn' = turn + 1 /\ sent' = <<>>
    BY <1>1, StreamsAssumption DEF Ask, Answering, Frame, StreamTypes, MaxTurns
  <2>4. (0 .. turn - 1) \cap {turn} = {} /\ 0 .. turn' - 1 = (0 .. turn - 1) \cup {turn}
    BY <2>3
  <2>5. Conversation(history \o more, (0 .. turn - 1) \cup {turn})
    BY <2>2, <2>4, Continued DEF Conversed
  <2> QED
    BY <2>1, <2>3, <2>4, <2>5 DEF Conversed
<1>2. CASE Connect
  BY <1>2 DEF Connect, Conversed
<1>3. CASE ~ Ask /\ ~ Connect
  <2>1. UNCHANGED <<turn, adapter, history, sent>>
    BY <1>3 DEF StreamNext, ConnectFails, SayText, SayThought, SayCall, SayArguments, SayFinish, StreamEnds, UpstreamFails,
                WriteFinal, ClientLeaves, ClientMissed, FailTurn, Comes, streamVars
  <2> QED
    BY <2>1 DEF Conversed
<1> QED
  BY <1>1, <1>2, <1>3

-----------------------------------------------------------------------------
(* Sequences one after the other *)

\* F is the first n sequences of ss one after the other: element q of F is the element col[q]
\* of the sequence line[q].
FlatTo(F, ss, n, line, col) ==
    /\ Len(F) \in Nat /\ DOMAIN F = 1 .. Len(F)
    /\ \A q \in DOMAIN F : line[q] \in 1 .. n /\ col[q] \in DOMAIN ss[line[q]] /\ F[q] = ss[line[q]][col[q]]
    /\ \A p, q \in DOMAIN F : p < q => line[p] < line[q] \/ (line[p] = line[q] /\ col[p] < col[q])
    /\ \A k \in 1 .. n : \A j \in DOMAIN ss[k] : \E q \in DOMAIN F : line[q] = k /\ col[q] = j

FlatUpTo(F, ss, n) == \E line, col : FlatTo(F, ss, n, line, col)

LEMMA FlatMore ==
  ASSUME NEW V, NEW F \in Seq(V), NEW ss, NEW n \in Nat, ss[n + 1] \in Seq(V), FlatUpTo(F, ss, n)
  PROVE  F \o ss[n + 1] \in Seq(V) /\ FlatUpTo(F \o ss[n + 1], ss, n + 1)
<1> DEFINE s == ss[n + 1]
           G == F \o s
           f == Len(F)
<1>1. PICK line, col : FlatTo(F, ss, n, line, col)
  BY DEF FlatUpTo
<1>2. G \in Seq(V) /\ Joins(G, F, s)
  BY Joined
<1> DEFINE r == [q \in DOMAIN G |-> IF q <= f THEN line[q] ELSE n + 1]
           c == [q \in DOMAIN G |-> IF q <= f THEN col[q] ELSE q - f]
<1>3. f \in Nat /\ DOMAIN F = 1 .. f /\ Len(s) \in Nat /\ DOMAIN s = 1 .. Len(s) /\ DOMAIN G = 1 .. f + Len(s)
  BY <1>2 DEF Joins
<1>4. Len(G) \in Nat /\ DOMAIN G = 1 .. Len(G)
  BY <1>2
<1>s. s = ss[n + 1] /\ s \in Seq(V)
  OBVIOUS
<1> HIDE DEF G, s
<1>5. ASSUME NEW q \in DOMAIN F
      PROVE  q \in DOMAIN G /\ G[q] = F[q] /\ r[q] = line[q] /\ c[q] = col[q] /\ q \in 1 .. f
  <2>1. q \in DOMAIN G /\ G[q] = F[q] /\ q <= f
    BY <1>2, <1>3 DEF Joins
  <2> QED
    BY <1>3, <2>1
<1>6. ASSUME NEW q \in DOMAIN s
      PROVE  f + q \in DOMAIN G /\ G[f + q] = s[q] /\ r[f + q] = n + 1 /\ c[f + q] = q /\ f < f + q
  <2>1. f + q \in DOMAIN G /\ G[f + q] = s[q]
    BY <1>2 DEF Joins
  <2>2. ~ (f + q <= f) /\ (f + q) - f = q /\ f < f + q
    BY <1>3
  <2> QED
    BY <2>1, <2>2
<1>7. \A q \in DOMAIN G : q \in DOMAIN F \/ \E j \in DOMAIN s : q = f + j
  BY <1>2 DEF Joins
<1> HIDE DEF r, c, f
<1>8. ASSUME NEW q \in DOMAIN G
      PROVE  r[q] \in 1 .. n + 1 /\ c[q] \in DOMAIN ss[r[q]] /\ G[q] = ss[r[q]][c[q]]
  <2>1. CASE q \in DOMAIN F
    <3>1. line[q] \in 1 .. n /\ col[q] \in DOMAIN ss[line[q]] /\ F[q] = ss[line[q]][col[q]]
      BY <1>1, <2>1 DEF FlatTo
    <3>2. line[q] \in 1 .. n + 1
      BY <3>1
    <3> QED
      BY <1>5, <2>1, <3>1, <3>2
  <2>2. CASE \E j \in DOMAIN s : q = f + j
    <3>1. PICK j \in DOMAIN s : q = f + j
      BY <2>2
    <3>2. n + 1 \in 1 .. n + 1
      OBVIOUS
    <3> QED
      BY <1>6, <1>s, <3>1, <3>2
  <2> QED
    BY <1>7, <2>1, <2>2
<1>9. ASSUME NEW p \in DOMAIN G, NEW q \in DOMAIN G, p < q
      PROVE  r[p] < r[q] \/ (r[p] = r[q] /\ c[p] < c[q])
  <2>1. CASE p \in DOMAIN F /\ q \in DOMAIN F
    BY <1>1, <1>5, <1>9, <2>1 DEF FlatTo
  <2>2. CASE p \in DOMAIN F /\ \E j \in DOMAIN s : q = f + j
    <3>1. line[p] \in 1 .. n
      BY <1>1, <2>2 DEF FlatTo
    <3>2. line[p] < n + 1
      BY <3>1
    <3> QED
      BY <1>5, <1>6, <2>2, <3>2
  <2>3. CASE (\E j \in DOMAIN s : p = f + j) /\ q \in DOMAIN F
    BY <1>3, <1>5, <1>6, <1>9, <2>3
  <2>4. CASE (\E j \in DOMAIN s : p = f + j) /\ \E j \in DOMAIN s : q = f + j
    <3>1. PICK i \in DOMAIN s : p = f + i
      BY <2>4
    <3>2. PICK j \in DOMAIN s : q = f + j
      BY <2>4
    <3>3. i < j
      BY <1>3, <1>9, <3>1, <3>2
    <3> QED
      BY <1>6, <3>1, <3>2, <3>3
  <2> QED
    BY <1>7, <2>1, <2>2, <2>3, <2>4
<1>10. ASSUME NEW k \in 1 .. n + 1, NEW j \in DOMAIN ss[k] PROVE \E q \in DOMAIN G : r[q] = k /\ c[q] = j
  <2>1. CASE k \in 1 .. n
    <3>1. PICK q \in DOMAIN F : line[q] = k /\ col[q] = j
      BY <1>1, <2>1 DEF FlatTo
    <3> QED
      BY <1>5, <3>1
  <2>2. CASE k = n + 1
    BY <1>6, <1>s, <2>2
  <2>3. k \in 1 .. n \/ k = n + 1
    OBVIOUS
  <2> QED
    BY <2>1, <2>2, <2>3
<1>11. FlatTo(G, ss, n + 1, r, c)
  BY <1>4, <1>8, <1>9, <1>10 DEF FlatTo
<1> QED
  BY <1>2, <1>11 DEF FlatUpTo, G, s

LEMMA FlatNone ==
  ASSUME NEW ss
  PROVE  FlatUpTo(<<>>, ss, 0)
<1>1. Len(<<>>) \in Nat /\ DOMAIN <<>> = 1 .. Len(<<>>) /\ DOMAIN <<>> = {} /\ 1 .. 0 = {}
  OBVIOUS
<1>2. FlatTo(<<>>, ss, 0, <<>>, <<>>)
  BY <1>1 DEF FlatTo
<1> QED
  BY <1>2 DEF FlatUpTo

Flat(F, ss, line, col) == FlatTo(F, ss, Len(ss), line, col)

LEMMA FlattenUnfolds ==
  ASSUME NEW V, NEW ss \in Seq(Seq(V)), ss # <<>>
  PROVE  \E f : /\ FlattenSeq(ss) = f[Len(ss)]
                /\ f[1] = ss[1]
                /\ \A i \in 1 .. Len(ss) - 1 : f[i + 1] = f[i] \o ss[i + 1]
<1> DEFINE n == Len(ss)
           W == Seq(V)
           step == [x \in Nat \X W |-> IF x[1] \in 1 .. n THEN x[2] \o ss[x[1]] ELSE x[2]]
           Unfolds(f) == f = [i \in 1 .. n |-> IF i = 1 THEN ss[i] ELSE f[i - 1] \o ss[i]]
           f == CHOOSE g : Unfolds(g)
<1>1. n \in Nat /\ n # 0 /\ \A i \in 1 .. n : ss[i] \in W
  OBVIOUS
<1>2. \A i \in Nat, v \in W : step[i, v] = IF i \in 1 .. n THEN v \o ss[i] ELSE v
  OBVIOUS
<1>3. step \in [Nat \X W -> W]
  <2>1. \A i \in 1 .. n, v \in W : v \o ss[i] \in W
    <3> SUFFICES ASSUME NEW i \in 1 .. n, NEW v \in W PROVE v \o ss[i] \in W
      OBVIOUS
    <3> HIDE DEF n
    <3> QED
      BY <1>1, ConcatProperties
  <2> QED
    BY <2>1
<1>4. <<>> \in W
  OBVIOUS
<1>5. \A w \in W : <<>> \o w = w
  BY ConcatEmptySeq
<1> HIDE DEF W, step
<1>6. PICK g : Recurs(g, W, <<>>, step)
  BY <1>3, <1>4, NatRecursion
<1>7. \A i \in 1 .. n : g[i] = g[i - 1] \o ss[i]
  <2> SUFFICES ASSUME NEW i \in 1 .. n PROVE g[i] = g[i - 1] \o ss[i]
    OBVIOUS
  <2>1. i \in Nat \ {0} /\ i - 1 \in Nat /\ (i - 1) + 1 = i
    OBVIOUS
  <2>2. g[i] = step[i, g[i - 1]] /\ g[i - 1] \in W
    BY <1>6, <2>1 DEF Recurs
  <2> QED
    BY <1>2, <2>1, <2>2
<1>8. g[1] = ss[1]
  <2>1. 1 \in 1 .. n /\ 1 - 1 = 0
    BY <1>1
  <2>2. g[0] = <<>>
    BY <1>6 DEF Recurs
  <2>3. g[1] = g[0] \o ss[1]
    BY <1>7, <2>1
  <2> QED
    BY <1>1, <1>5, <2>1, <2>2, <2>3
<1> DEFINE h == [i \in 1 .. n |-> g[i]]
<1>9. Unfolds(h)
  <2>1. \A i \in 1 .. n : i # 1 => i - 1 \in 1 .. n
    BY <1>1
  <2>2. \A i \in 1 .. n : h[i] = IF i = 1 THEN ss[i] ELSE h[i - 1] \o ss[i]
    BY <1>7, <1>8, <2>1
  <2>3. h = [i \in 1 .. n |-> h[i]]
    OBVIOUS
  <2> HIDE DEF h
  <2> QED
    BY <2>2, <2>3
<1>10. Unfolds(f)
  <2> HIDE DEF Unfolds, h
  <2> QED
    BY <1>9
<1>11. FlattenSeq(ss) = f[n]
  BY <1>1 DEF FlattenSeq
<1> HIDE DEF f
<1>12. \A i \in 1 .. n : f[i] = IF i = 1 THEN ss[i] ELSE f[i - 1] \o ss[i]
  BY <1>10
<1> HIDE DEF n, Unfolds
<1>13. f[1] = ss[1]
  BY <1>1, <1>12
<1>14. \A i \in 1 .. n - 1 : f[i + 1] = f[i] \o ss[i + 1]
  <2> SUFFICES ASSUME NEW i \in 1 .. n - 1 PROVE f[i + 1] = f[i] \o ss[i + 1]
    OBVIOUS
  <2>1. i + 1 \in 1 .. n /\ i + 1 # 1 /\ (i + 1) - 1 = i
    BY <1>1
  <2> QED
    BY <1>12, <2>1
<1> QED
  BY <1>11, <1>13, <1>14 DEF n

LEMMA Flattened ==
  ASSUME NEW V, NEW ss \in Seq(Seq(V))
  PROVE  FlattenSeq(ss) \in Seq(V) /\ \E line, col : Flat(FlattenSeq(ss), ss, line, col)
<1> DEFINE n == Len(ss)
<1>1. n \in Nat /\ \A i \in 1 .. n : ss[i] \in Seq(V)
  OBVIOUS
<1>2. CASE ss = <<>>
  <2>1. FlattenSeq(ss) = <<>> /\ Len(ss) = 0 /\ <<>> \in Seq(V)
    BY <1>2 DEF FlattenSeq
  <2> QED
    BY <2>1, FlatNone DEF Flat, FlatUpTo
<1>3. CASE ss # <<>>
  <2>1. PICK f : /\ FlattenSeq(ss) = f[Len(ss)]
                 /\ f[1] = ss[1]
                 /\ \A i \in 1 .. Len(ss) - 1 : f[i + 1] = f[i] \o ss[i + 1]
    BY <1>3, FlattenUnfolds
  <2>n. n # 0
    BY <1>3
  <2> HIDE DEF n
  <2> DEFINE N == {i \in Nat : i + 1 <= n => f[i + 1] \in Seq(V) /\ FlatUpTo(f[i + 1], ss, i + 1)}
  <2>2. 0 \in N
    <3>1. ss[1] \in Seq(V) /\ <<>> \in Seq(V) /\ 0 + 1 = 1
      BY <1>1, <2>n
    <3>2. <<>> \o ss[0 + 1] = ss[1]
      BY <3>1, ConcatEmptySeq
    <3>3. <<>> \o ss[0 + 1] \in Seq(V) /\ FlatUpTo(<<>> \o ss[0 + 1], ss, 0 + 1)
      BY <3>1, FlatMore, FlatNone
    <3> QED
      BY <2>1, <3>1, <3>2, <3>3
  <2>3. \A i \in Nat : i \in N => i + 1 \in N
    <3> SUFFICES ASSUME NEW i \in Nat, i \in N, (i + 1) + 1 <= n
                 PROVE  f[(i + 1) + 1] \in Seq(V) /\ FlatUpTo(f[(i + 1) + 1], ss, (i + 1) + 1)
      OBVIOUS
    <3>1. i + 1 \in Nat /\ i + 1 <= n /\ i + 1 \in 1 .. n - 1 /\ (i + 1) + 1 \in 1 .. n
      BY <1>1
    <3>2. f[i + 1] \in Seq(V) /\ FlatUpTo(f[i + 1], ss, i + 1)
      BY <3>1
    <3>3. f[(i + 1) + 1] = f[i + 1] \o ss[(i + 1) + 1] /\ ss[(i + 1) + 1] \in Seq(V)
      BY <1>1, <2>1, <3>1 DEF n
    <3> DEFINE m == i + 1
    <3> HIDE DEF m, N
    <3>4. f[m + 1] \in Seq(V) /\ FlatUpTo(f[m + 1], ss, m + 1)
      <4>1. m \in Nat /\ f[m] \in Seq(V) /\ FlatUpTo(f[m], ss, m) /\ ss[m + 1] \in Seq(V) /\ f[m + 1] = f[m] \o ss[m + 1]
        BY <3>1, <3>2, <3>3 DEF m
      <4> QED
        BY <4>1, FlatMore
    <3> QED
      BY <3>4 DEF m
  <2>4. Nat \subseteq N
    <3> HIDE DEF N
    <3> QED
      BY <2>2, <2>3, NatInduct
  <2>5. n - 1 \in N /\ (n - 1) + 1 = n /\ (n - 1) + 1 <= n
    BY <1>1, <2>n, <2>4
  <2>6. f[n] \in Seq(V) /\ FlatUpTo(f[n], ss, n)
    BY <2>5
  <2> QED
    BY <2>1, <2>6 DEF Flat, FlatUpTo, n
<1> QED
  BY <1>2, <1>3

-----------------------------------------------------------------------------
(* A request and the history it is made of *)

PartTypes == [kind : {"text", "think", "call", "result"}, of : Pairs, id : Pairs, args : Int, name : Pairs]
Outs == [role : {"system", "user", "assistant", "model", "tool"}, parts : Seq(PartTypes)]

\* Place j of message m comes before place i of message l.
Before(m, j, l, i) == m < l \/ (m = l /\ j < i)

\* A form that names the functions of results names the one whose call message m answers:
\* Gemini's always, Ollama's if the client did.
NamedFor(p, m) == adapter = "gemini" \/ (adapter = "ollama" /\ m.named) => p.name = m.of

\* The part j of message m of a request s comes from the message src[m][j] of the history h.
Sourced(s, h, src) ==
    \A m \in DOMAIN s : \A j \in DOMAIN s[m].parts :
        LET p == s[m].parts[j]
            k == src[m][j]
        IN  /\ k \in DOMAIN h
            /\ p.kind = "call" => \E i \in DOMAIN h[k].calls : p.of = h[k].calls[i].of /\ p.id = h[k].calls[i].id
            /\ p.kind = "result" <=> h[k].role = "tool"
            /\ p.kind = "result" => p.of = h[k].of /\ p.id = h[k].id /\ NamedFor(p, h[k])
            /\ h[k].role = "system" => s[m].role = "system"

\* The parts are in the order of their messages, and in a message the calls come last.
Ordered(s, src) ==
    \A m, l \in DOMAIN s : \A j \in DOMAIN s[m].parts : \A i \in DOMAIN s[l].parts :
        Before(m, j, l, i) =>
            /\ src[m][j] <= src[l][i]
            /\ src[m][j] = src[l][i] => /\ s[m].parts[j].kind # "result"
                                        /\ s[m].parts[j].kind = "call" => s[l].parts[i].kind = "call"

\* No result is lost.
Complete(s, h, src) ==
    \A k \in DOMAIN h : h[k].role = "tool" => \E m \in DOMAIN s : \E j \in DOMAIN s[m].parts : src[m][j] = k

\* The request s is made of the history h.
Traces(s, h, src) == s \in Seq(Outs) /\ Sourced(s, h, src) /\ Ordered(s, src) /\ Complete(s, h, src)

\* For Anthropic: results follow in the message after their calls, and thinking leads.
Adjacent(s, h, src) ==
    \A m, l \in DOMAIN s : \A j \in DOMAIN s[m].parts : \A i \in DOMAIN s[l].parts :
        /\ s[m].parts[j].kind = "call" /\ s[l].parts[i].kind = "result" /\ src[m][j] < src[l][i]
        /\ \A q \in src[m][j] + 1 .. src[l][i] : h[q].role \in {"tool", "system"}
        => l = m + 1

ThinkingLeads(s, h, src) ==
    \A m \in DOMAIN s : \A j \in DOMAIN s[m].parts :
        (s[m].parts[j].kind = "call" /\ h[src[m][j]].think # 0) => s[m].parts[1].kind = "think"

LEMMA OutTypes ==
  ASSUME NEW s \in Seq(Outs)
  PROVE  /\ Len(s) \in Nat /\ DOMAIN s = 1 .. Len(s)
         /\ \A m \in DOMAIN s : s[m] \in Outs /\ s[m].parts \in Seq(PartTypes)
                              /\ Len(s[m].parts) \in Nat /\ DOMAIN s[m].parts = 1 .. Len(s[m].parts)
<1>1. Len(s) \in Nat /\ DOMAIN s = 1 .. Len(s) /\ \A m \in DOMAIN s : s[m] \in Outs
  OBVIOUS
<1>2. \A x \in Outs : x.parts \in Seq(PartTypes)
  BY DEF Outs
<1>3. \A p \in Seq(PartTypes) : Len(p) \in Nat /\ DOMAIN p = 1 .. Len(p)
  OBVIOUS
<1> QED
  BY <1>1, <1>2, <1>3

LEMMA MessageTypes ==
  ASSUME NEW h \in Seq(Messages)
  PROVE  /\ Len(h) \in Nat /\ DOMAIN h = 1 .. Len(h)
         /\ \A k \in DOMAIN h :
               /\ h[k] \in Messages /\ h[k].calls \in Seq(Calls)
               /\ Len(h[k].calls) \in Nat /\ DOMAIN h[k].calls = 1 .. Len(h[k].calls)
               /\ \A i \in DOMAIN h[k].calls : h[k].calls[i] \in Calls
<1>1. Len(h) \in Nat /\ DOMAIN h = 1 .. Len(h) /\ \A k \in DOMAIN h : h[k] \in Messages
  OBVIOUS
<1>2. \A x \in Messages : x.calls \in Seq(Calls)
  BY DEF Messages
<1>3. \A c \in Seq(Calls) : Len(c) \in Nat /\ DOMAIN c = 1 .. Len(c) /\ \A i \in DOMAIN c : c[i] \in Calls
  OBVIOUS
<1> QED
  BY <1>1, <1>2, <1>3

\* Part q is the part col[q] of message line[q].
Located(line, col) ==
    /\ Len(Parts) \in Nat /\ DOMAIN Parts = 1 .. Len(Parts)
    /\ \A q \in DOMAIN Parts : /\ line[q] \in DOMAIN sent /\ col[q] \in DOMAIN sent[line[q]].parts
                       /\ Parts[q] = [p |-> sent[line[q]].parts[col[q]], msg |-> line[q], role |-> sent[line[q]].role]
    /\ \A p, q \in DOMAIN Parts : p < q => Before(line[p], col[p], line[q], col[q])
    /\ \A m \in DOMAIN sent : \A j \in DOMAIN sent[m].parts : \E q \in DOMAIN Parts : line[q] = m /\ col[q] = j

LEMMA PartsListed ==
  ASSUME sent \in Seq(Outs)
  PROVE  \E line, col : Located(line, col)
<1> DEFINE part(m, j) == [p |-> sent[m].parts[j], msg |-> m, role |-> sent[m].role]
           ss == [m \in DOMAIN sent |-> [j \in DOMAIN sent[m].parts |-> part(m, j)]]
           V == {part(m, j) : m \in DOMAIN sent, j \in Nat}
<1>1. Parts = FlattenSeq(ss)
  BY DEF Parts
<1>2. Len(sent) \in Nat /\ DOMAIN sent = 1 .. Len(sent) /\ \A m \in DOMAIN sent : sent[m].parts \in Seq(PartTypes)
  BY OutTypes
<1>3. \A m \in DOMAIN sent : ss[m] \in Seq(V)
  <2> SUFFICES ASSUME NEW m \in DOMAIN sent PROVE ss[m] \in Seq(V)
    OBVIOUS
  <2> DEFINE n == Len(sent[m].parts)
  <2>1. n \in Nat /\ DOMAIN sent[m].parts = 1 .. n /\ \A j \in 1 .. n : j \in Nat
    BY <1>2
  <2>2. ss[m] = [j \in 1 .. n |-> part(m, j)]
    BY <2>1
  <2>3. \A j \in 1 .. n : part(m, j) \in V
    BY <2>1
  <2> HIDE DEF n, V, part, ss
  <2>4. ss[m] \in [1 .. n -> V]
    BY <2>2, <2>3
  <2> QED
    BY <2>1, <2>4
<1>4. DOMAIN ss = 1 .. Len(sent) /\ ss = [m \in 1 .. Len(sent) |-> ss[m]]
  BY <1>2
<1>5. \A m \in DOMAIN sent : /\ DOMAIN ss[m] = DOMAIN sent[m].parts
                             /\ \A j \in DOMAIN ss[m] : ss[m][j] = part(m, j)
  OBVIOUS
<1> HIDE DEF ss, V
<1>6. ss \in Seq(Seq(V)) /\ Len(ss) = Len(sent)
  <2>1. ss \in [1 .. Len(sent) -> Seq(V)]
    BY <1>2, <1>3, <1>4
  <2> QED
    BY <1>2, <2>1
<1>7. PICK line, col : Flat(FlattenSeq(ss), ss, line, col)
  BY <1>6, Flattened
<1>F. Flat(Parts, ss, line, col)
  BY <1>1, <1>7
<1>8. /\ Len(Parts) \in Nat /\ DOMAIN Parts = 1 .. Len(Parts)
      /\ \A q \in DOMAIN Parts : line[q] \in DOMAIN sent /\ col[q] \in DOMAIN ss[line[q]] /\ Parts[q] = ss[line[q]][col[q]]
      /\ \A p, q \in DOMAIN Parts : p < q => line[p] < line[q] \/ (line[p] = line[q] /\ col[p] < col[q])
      /\ \A k \in DOMAIN sent : \A j \in DOMAIN ss[k] : \E q \in DOMAIN Parts : line[q] = k /\ col[q] = j
  <2>1. FlatTo(Parts, ss, Len(sent), line, col)
    BY <1>6, <1>F DEF Flat
  <2> QED
    BY <1>2, <2>1 DEF FlatTo
<1>9. \A q \in DOMAIN Parts : /\ line[q] \in DOMAIN sent /\ col[q] \in DOMAIN sent[line[q]].parts
                              /\ Parts[q] = part(line[q], col[q])
  <2> SUFFICES ASSUME NEW q \in DOMAIN Parts
               PROVE  /\ line[q] \in DOMAIN sent /\ col[q] \in DOMAIN sent[line[q]].parts
                      /\ Parts[q] = part(line[q], col[q])
    OBVIOUS
  <2>1. line[q] \in DOMAIN sent /\ col[q] \in DOMAIN ss[line[q]] /\ Parts[q] = ss[line[q]][col[q]]
    BY <1>8
  <2> QED
    BY <1>5, <2>1
<1>10. \A m \in DOMAIN sent : \A j \in DOMAIN sent[m].parts : \E q \in DOMAIN Parts : line[q] = m /\ col[q] = j
  BY <1>5, <1>8
<1>11. \A p, q \in DOMAIN Parts : p < q => Before(line[p], col[p], line[q], col[q])
  BY <1>8 DEF Before
<1>12. Located(line, col)
  BY <1>8, <1>9, <1>10, <1>11 DEF Located
<1> QED
  BY <1>12

LEMMA Delivered ==
  ASSUME NEW T, Conversation(history, T), NEW src, Traces(sent, history, src),
         adapter = "claude" => Adjacent(sent, history, src) /\ ThinkingLeads(sent, history, src)
  PROVE  ResultsReachTheirCalls
<1>0. PICK line, col : Located(line, col)
  BY PartsListed DEF Traces
<1>1. /\ Len(Parts) \in Nat /\ DOMAIN Parts = 1 .. Len(Parts)
      /\ \A q \in DOMAIN Parts : /\ line[q] \in DOMAIN sent /\ col[q] \in DOMAIN sent[line[q]].parts
                                 /\ Parts[q] = [p |-> sent[line[q]].parts[col[q]], msg |-> line[q], role |-> sent[line[q]].role]
      /\ \A p, q \in DOMAIN Parts : p < q => Before(line[p], col[p], line[q], col[q])
      /\ \A m \in DOMAIN sent : \A j \in DOMAIN sent[m].parts : \E q \in DOMAIN Parts : line[q] = m /\ col[q] = j
  BY <1>0 DEF Located
<1> DEFINE from == [q \in DOMAIN Parts |-> src[line[q]][col[q]]]
           kind(q) == Parts[q].p.kind
<1>2. \A q \in DOMAIN Parts : Parts[q].p = sent[line[q]].parts[col[q]] /\ Parts[q].msg = line[q] /\ Parts[q].role = sent[line[q]].role
  BY <1>1
<1>3. ASSUME NEW q \in DOMAIN Parts
      PROVE  /\ from[q] \in DOMAIN history
             /\ kind(q) = "call" => \E i \in DOMAIN history[from[q]].calls :
                   Parts[q].p.of = history[from[q]].calls[i].of /\ Parts[q].p.id = history[from[q]].calls[i].id
             /\ kind(q) = "result" <=> history[from[q]].role = "tool"
             /\ kind(q) = "result" => Parts[q].p.of = history[from[q]].of /\ Parts[q].p.id = history[from[q]].id
                                        /\ NamedFor(Parts[q].p, history[from[q]])
             /\ history[from[q]].role = "system" => Parts[q].role = "system"
  <2> DEFINE m == line[q]
             j == col[q]
             p == sent[m].parts[j]
  <2>1. m \in DOMAIN sent /\ j \in DOMAIN sent[m].parts
    BY <1>1
  <2>2. from[q] = src[m][j] /\ Parts[q].p = p /\ Parts[q].role = sent[m].role
    BY <1>2
  <2> HIDE DEF m, j, from
  <2>3. /\ from[q] \in DOMAIN history
        /\ p.kind = "call" => \E i \in DOMAIN history[from[q]].calls :
              p.of = history[from[q]].calls[i].of /\ p.id = history[from[q]].calls[i].id
        /\ p.kind = "result" <=> history[from[q]].role = "tool"
        /\ p.kind = "result" => p.of = history[from[q]].of /\ p.id = history[from[q]].id /\ NamedFor(p, history[from[q]])
        /\ history[from[q]].role = "system" => sent[m].role = "system"
    BY <2>1, <2>2 DEF Traces, Sourced
  <2> HIDE DEF p
  <2> QED
    BY <2>2, <2>3
<1>4. ASSUME NEW p \in DOMAIN Parts, NEW q \in DOMAIN Parts, p < q
      PROVE  /\ from[p] <= from[q]
             /\ from[p] = from[q] => kind(p) # "result" /\ (kind(p) = "call" => kind(q) = "call")
  <2>1. Before(line[p], col[p], line[q], col[q])
    BY <1>1, <1>4
  <2> DEFINE m == line[p]
             j == col[p]
             l == line[q]
             i == col[q]
  <2>2. /\ m \in DOMAIN sent /\ j \in DOMAIN sent[m].parts /\ l \in DOMAIN sent /\ i \in DOMAIN sent[l].parts
        /\ kind(p) = sent[m].parts[j].kind /\ kind(q) = sent[l].parts[i].kind
        /\ from[p] = src[m][j] /\ from[q] = src[l][i]
    BY <1>1, <1>2
  <2>3. Before(m, j, l, i)
    BY <2>1
  <2> HIDE DEF m, j, l, i, from, kind
  <2> QED
    BY <2>2, <2>3 DEF Traces, Ordered
<1>5. ASSUME NEW k \in DOMAIN history, history[k].role = "tool" PROVE \E q \in DOMAIN Parts : from[q] = k
  <2>1. PICK m \in DOMAIN sent : \E j \in DOMAIN sent[m].parts : src[m][j] = k
    BY <1>5 DEF Traces, Complete
  <2>2. PICK j \in DOMAIN sent[m].parts : src[m][j] = k
    BY <2>1
  <2> QED
    BY <1>1, <2>2
<1>h. history \in Seq(Messages) /\ Len(history) \in Nat /\ DOMAIN history = 1 .. Len(history)
  BY DEF Conversation
<1> SUFFICES ASSUME NEW c \in DOMAIN Parts, kind(c) = "call"
             PROVE  \E r \in DOMAIN Parts :
            /\ c < r /\ Parts[r].p.kind = "result"
            /\ Parts[r].p.of = Parts[c].p.of /\ Parts[r].p.id = Parts[c].p.id
            /\ adapter = "gemini" \/ (adapter = "ollama" /\ Given(Parts[c].p.of)) =>
                  Parts[r].p.name = Parts[c].p.of
            /\ \A q \in DOMAIN Parts \ {r} : Parts[q].p.kind = "result" => Parts[q].p.of # Parts[c].p.of
            /\ \A q \in c .. r : Parts[q].role = "system" \/ Parts[q].p.of[1] = Parts[c].p.of[1]
            /\ adapter = "claude" =>
                  /\ Parts[r].msg = Parts[c].msg + 1
                  /\ LET first == sent[Parts[c].msg].parts[1]
                     IN  \A k \in DOMAIN history :
                           (history[k].calls # <<>> /\ history[k].calls[1].of[1] = Parts[c].p.of[1]
                              /\ history[k].think # 0) => first.kind = "think"
  BY DEF ResultsReachTheirCalls
<1> DEFINE k == from[c]
<1>6. PICK i \in DOMAIN history[k].calls : Parts[c].p.of = history[k].calls[i].of /\ Parts[c].p.id = history[k].calls[i].id
  BY <1>3
<1>7. k \in DOMAIN history
  BY <1>3
<1> HIDE DEF from
<1>8. PICK a \in DOMAIN history : Answers(history, k, i, a)
  BY <1>6, <1>7 DEF Conversation
<1>9. PICK r \in DOMAIN Parts : from[r] = a
  BY <1>5, <1>8 DEF Answers
<1>10. kind(r) = "result" /\ Parts[r].p.of = history[a].of /\ Parts[r].p.id = history[a].id /\ NamedFor(Parts[r].p, history[a])
  BY <1>3, <1>8, <1>9 DEF Answers
<1>11. history[a].of = Parts[c].p.of /\ history[a].id = Parts[c].p.id /\ k < a /\ history[a].role = "tool"
  BY <1>6, <1>8 DEF Answers
<1>12. c \in Int /\ r \in Int /\ \A q \in DOMAIN Parts : q \in Int /\ from[q] \in Int
  BY <1>1, <1>3, <1>h
<1>13. c < r
  <2>1. c # r
    BY <1>9, <1>11, <1>12
  <2>2. ~ (r < c)
    <3> SUFFICES ASSUME r < c PROVE FALSE
      OBVIOUS
    <3>1. from[r] <= from[c]
      BY <1>4
    <3> QED
      BY <1>9, <1>11, <1>12, <3>1
  <2> QED
    BY <1>12, <2>1, <2>2
<1>14. ASSUME NEW q \in DOMAIN Parts \ {r}, kind(q) = "result" PROVE Parts[q].p.of # Parts[c].p.of
  <2> SUFFICES ASSUME Parts[q].p.of = Parts[c].p.of PROVE FALSE
    OBVIOUS
  <2>1. history[from[q]].of = history[a].of /\ history[from[q]].role = "tool" /\ from[q] \in DOMAIN history
    BY <1>3, <1>11, <1>14
  <2>2. from[q] = a
    BY <1>11, <2>1 DEF Conversation
  <2>3. q < r \/ r < q
    BY <1>12, <1>14
  <2> QED
    BY <1>4, <1>9, <1>10, <1>14, <2>2, <2>3
<1>15. ASSUME NEW q \in c .. r PROVE Parts[q].role = "system" \/ Parts[q].p.of[1] = Parts[c].p.of[1]
  <2>1. q \in DOMAIN Parts /\ (q = c \/ c < q) /\ (q = r \/ q < r)
    BY <1>1, <1>12
  <2>2. k <= from[q] /\ from[q] <= a
    BY <1>4, <1>9, <1>12, <2>1
  <2>3. CASE from[q] = k
    <3>1. kind(q) = "call"
      BY <1>4, <2>1, <2>3
    <3>2. PICK j \in DOMAIN history[k].calls : Parts[q].p.of = history[k].calls[j].of
      BY <1>3, <2>1, <2>3, <3>1
    <3> QED
      BY <1>6, <1>7, <3>2 DEF Conversation
  <2>4. CASE from[q] # k
    <3>1. from[q] \in k + 1 .. a /\ from[q] \in DOMAIN history
      BY <1>3, <1>9, <1>12, <2>1, <2>2, <2>4
    <3>2. /\ history[from[q]].role \in {"tool", "system"}
          /\ history[from[q]].role = "tool" => history[from[q]].of[1] = history[k].calls[i].of[1]
      BY <1>8, <3>1 DEF Answers
    <3>3. CASE history[from[q]].role = "tool"
      BY <1>3, <1>6, <2>1, <3>2, <3>3
    <3>4. CASE history[from[q]].role = "system"
      BY <1>3, <2>1, <3>4
    <3> QED
      BY <3>2, <3>3, <3>4
  <2> QED
    BY <2>3, <2>4
<1>16. ASSUME adapter = "claude"
       PROVE  /\ Parts[r].msg = Parts[c].msg + 1
              /\ \A l \in DOMAIN history :
                    (history[l].calls # <<>> /\ history[l].calls[1].of[1] = Parts[c].p.of[1]
                       /\ history[l].think # 0) => sent[Parts[c].msg].parts[1].kind = "think"
  <2> DEFINE mc == line[c]
             jc == col[c]
             mr == line[r]
             jr == col[r]
  <2>1. /\ mc \in DOMAIN sent /\ jc \in DOMAIN sent[mc].parts /\ mr \in DOMAIN sent /\ jr \in DOMAIN sent[mr].parts
        /\ sent[mc].parts[jc].kind = "call" /\ sent[mr].parts[jr].kind = "result"
        /\ src[mc][jc] = k /\ src[mr][jr] = a /\ Parts[c].msg = mc /\ Parts[r].msg = mr
    BY <1>1, <1>2, <1>9, <1>10 DEF from
  <2> HIDE DEF mc, jc, mr, jr
  <2>2. \A q \in k + 1 .. a : history[q].role \in {"tool", "system"}
    BY <1>8 DEF Answers
  <2>3. mr = mc + 1
    BY <1>11, <1>16, <2>1, <2>2 DEF Adjacent
  <2>4. ASSUME NEW l \in DOMAIN history, history[l].calls # <<>>, history[l].calls[1].of[1] = Parts[c].p.of[1], history[l].think # 0
        PROVE  sent[mc].parts[1].kind = "think"
    <3>1. 1 \in DOMAIN history[l].calls
      <4>1. history[l].calls \in Seq(Calls)
        BY <1>h, MessageTypes
      <4> QED
        BY <2>4, <4>1
    <3>2. l = k
      BY <1>6, <1>7, <2>4, <3>1 DEF Conversation
    <3> QED
      BY <1>16, <2>1, <2>4, <3>2 DEF ThinkingLeads
  <2> QED
    BY <2>1, <2>3, <2>4
<1>17. ASSUME adapter = "gemini" \/ (adapter = "ollama" /\ Given(Parts[c].p.of))
       PROVE  Parts[r].p.name = Parts[c].p.of
  <2>1. adapter = "ollama" => history[a].named
    <3> SUFFICES ASSUME adapter = "ollama" PROVE history[a].named
      OBVIOUS
    <3>1. Given(Parts[c].p.of)
      BY <1>17
    <3>2. PICK q \in DOMAIN history : history[q].role = "tool" /\ history[q].of = Parts[c].p.of /\ history[q].named
      BY <3>1 DEF Given
    <3>3. q = a
      BY <1>11, <3>2 DEF Conversation
    <3> QED
      BY <3>2, <3>3
  <2> QED
    BY <1>10, <1>11, <1>17, <2>1 DEF NamedFor
<1> HIDE DEF k
<1> QED
  BY <1>10, <1>11, <1>13, <1>14, <1>15, <1>16, <1>17

-----------------------------------------------------------------------------
(* Requests made message by message: OpenAI, Ollama, OpenAI's responses, Gemini *)

IsResultOf(p, m) == p.kind = "result" /\ p.of = m.of /\ p.id = m.id /\ NamedFor(p, m)
IsCallOf(p, m) == \E i \in DOMAIN m.calls : p.of = m.calls[i].of /\ p.id = m.calls[i].id

\* parts are texts and then the calls of message m.
Speaks(parts, m) ==
    /\ parts \in Seq(PartTypes)
    /\ \A j \in DOMAIN parts : parts[j].kind # "result" /\ (parts[j].kind = "call" => IsCallOf(parts[j], m))
    /\ \A i, j \in DOMAIN parts : i < j /\ parts[i].kind = "call" => parts[j].kind = "call"

\* outs are what one message m of the history becomes.
Renders(outs, m) ==
    /\ outs \in Seq(Outs)
    /\ m.role = "tool" => Len(outs) = 1 /\ Len(outs[1].parts) = 1 /\ IsResultOf(outs[1].parts[1], m)
    /\ m.role # "tool" =>
          /\ \A a \in DOMAIN outs : Speaks(outs[a].parts, m)
          /\ \A a, b \in DOMAIN outs : \A i \in DOMAIN outs[a].parts : \A j \in DOMAIN outs[b].parts :
                a < b /\ outs[a].parts[i].kind = "call" => outs[b].parts[j].kind = "call"
    /\ m.role = "system" => \A a \in DOMAIN outs : outs[a].role = "system"

LEMMA ToolRenders ==
  ASSUME NEW outs, NEW m, Renders(outs, m), m.role = "tool"
  PROVE  /\ Len(outs) = 1 /\ DOMAIN outs = 1 .. Len(outs)
         /\ Len(outs[1].parts) = 1 /\ IsResultOf(outs[1].parts[1], m)
<1>1. outs \in Seq(Outs)
  BY DEF Renders
<1>2. DOMAIN outs = 1 .. Len(outs)
  BY <1>1
<1> QED
  BY <1>2 DEF Renders

LEMMA Rendered ==
  ASSUME NEW h \in Seq(Messages), NEW s \in Seq(Outs), NEW ss, Len(ss) = Len(h),
         NEW line, NEW col, Flat(s, ss, line, col),
         \A k \in DOMAIN h : Renders(ss[k], h[k])
  PROVE  Traces(s, h, [m \in DOMAIN s |-> [j \in DOMAIN s[m].parts |-> line[m]]])
<1> DEFINE src == [m \in DOMAIN s |-> [j \in DOMAIN s[m].parts |-> line[m]]]
<1>1. /\ DOMAIN h = 1 .. Len(h) /\ Len(h) \in Nat /\ Len(s) \in Nat /\ DOMAIN s = 1 .. Len(s)
      /\ \A m \in DOMAIN s : s[m].parts \in Seq(PartTypes) /\ DOMAIN s[m].parts = 1 .. Len(s[m].parts)
  BY OutTypes
<1>2. \A m \in DOMAIN s : \A j \in DOMAIN s[m].parts : src[m][j] = line[m]
  OBVIOUS
<1> HIDE DEF src
<1>3. /\ \A m \in DOMAIN s : line[m] \in DOMAIN h /\ col[m] \in DOMAIN ss[line[m]] /\ s[m] = ss[line[m]][col[m]]
      /\ \A m, l \in DOMAIN s : m < l => line[m] < line[l] \/ (line[m] = line[l] /\ col[m] < col[l])
      /\ \A k \in DOMAIN h : \A j \in DOMAIN ss[k] : \E m \in DOMAIN s : line[m] = k /\ col[m] = j
  BY <1>1 DEF Flat, FlatTo
<1>4. ASSUME NEW m \in DOMAIN s, NEW j \in DOMAIN s[m].parts
      PROVE  LET p == s[m].parts[j]
                 k == src[m][j]
             IN  /\ k \in DOMAIN h
                 /\ p.kind = "call" => \E i \in DOMAIN h[k].calls : p.of = h[k].calls[i].of /\ p.id = h[k].calls[i].id
                 /\ p.kind = "result" <=> h[k].role = "tool"
                 /\ p.kind = "result" => p.of = h[k].of /\ p.id = h[k].id /\ NamedFor(p, h[k])
                 /\ h[k].role = "system" => s[m].role = "system"
  <2> DEFINE k == line[m]
             a == col[m]
             outs == ss[k]
             p == s[m].parts[j]
  <2>1. src[m][j] = k /\ k \in DOMAIN h /\ a \in DOMAIN outs /\ s[m] = outs[a] /\ Renders(outs, h[k])
    BY <1>2, <1>3
  <2> HIDE DEF k, a, outs
  <2>2. CASE h[k].role = "tool"
    <3>1. a = 1 /\ j = 1
      <4>1. Len(outs) = 1 /\ Len(outs[1].parts) = 1 /\ DOMAIN outs = 1 .. Len(outs)
        BY <2>1, <2>2, ToolRenders
      <4>2. a = 1
        BY <2>1, <4>1
      <4>3. j \in 1 .. 1
        BY <1>1, <2>1, <4>1, <4>2
      <4> QED
        BY <4>2, <4>3
    <3>2. IsResultOf(p, h[k])
      BY <2>1, <2>2, <3>1 DEF Renders
    <3>3. h[k].role # "system"
      BY <2>2
    <3> QED
      BY <2>1, <2>2, <3>2, <3>3 DEF IsResultOf
  <2>3. CASE h[k].role # "tool"
    <3>1. Speaks(s[m].parts, h[k])
      BY <2>1, <2>3 DEF Renders
    <3>2. p.kind # "result" /\ (p.kind = "call" => IsCallOf(p, h[k]))
      BY <3>1 DEF Speaks
    <3>3. h[k].role = "system" => s[m].role = "system"
      BY <2>1 DEF Renders
    <3> QED
      BY <2>1, <2>3, <3>2, <3>3 DEF IsCallOf
  <2> QED
    BY <2>2, <2>3
<1>5. Sourced(s, h, src)
  BY <1>4 DEF Sourced
<1>6. ASSUME NEW m \in DOMAIN s, NEW l \in DOMAIN s, NEW j \in DOMAIN s[m].parts, NEW i \in DOMAIN s[l].parts,
             Before(m, j, l, i)
      PROVE  /\ src[m][j] <= src[l][i]
             /\ src[m][j] = src[l][i] => /\ s[m].parts[j].kind # "result"
                                         /\ s[m].parts[j].kind = "call" => s[l].parts[i].kind = "call"
  <2> DEFINE k == line[m]
             a == col[m]
             b == col[l]
             outs == ss[k]
  <2>1. src[m][j] = line[m] /\ src[l][i] = line[l] /\ line[m] \in Int /\ line[l] \in Int
    BY <1>1, <1>2, <1>3
  <2>2. line[m] <= line[l]
    <3>1. m < l \/ m = l
      BY <1>6 DEF Before
    <3>2. m < l => line[m] < line[l] \/ line[m] = line[l]
      BY <1>3
    <3> QED
      BY <2>1, <3>1, <3>2
  <2>3. ASSUME line[m] = line[l]
        PROVE  s[m].parts[j].kind # "result" /\ (s[m].parts[j].kind = "call" => s[l].parts[i].kind = "call")
    <3>1. k \in DOMAIN h /\ a \in DOMAIN outs /\ b \in DOMAIN outs /\ s[m] = outs[a] /\ s[l] = outs[b] /\ Renders(outs, h[k])
      BY <1>3, <2>3
    <3>2. (m = l /\ j < i) \/ a < b
      BY <1>3, <1>6, <2>1, <2>3 DEF Before
    <3> HIDE DEF k, a, b, outs
    <3>3. h[k].role # "tool"
      <4> SUFFICES ASSUME h[k].role = "tool" PROVE FALSE
        OBVIOUS
      <4>1. Len(outs) = 1 /\ Len(outs[1].parts) = 1 /\ DOMAIN outs = 1 .. Len(outs)
        BY <3>1, ToolRenders
      <4>2. a = 1 /\ b = 1
        BY <3>1, <4>1
      <4>3. DOMAIN s[m].parts = 1 .. 1 /\ DOMAIN s[l].parts = 1 .. 1
        BY <1>1, <3>1, <4>1, <4>2
      <4>4. j = 1 /\ i = 1
        BY <4>3
      <4> QED
        BY <3>2, <4>2, <4>4
    <3>4. Speaks(s[m].parts, h[k]) /\ Speaks(s[l].parts, h[k])
      BY <3>1, <3>3 DEF Renders
    <3>5. s[m].parts[j].kind # "result"
      BY <3>4 DEF Speaks
    <3>6. CASE a < b
      BY <3>1, <3>3, <3>5, <3>6 DEF Renders
    <3>7. CASE m = l /\ j < i
      BY <3>4, <3>5, <3>7 DEF Speaks
    <3> QED
      BY <3>2, <3>6, <3>7
  <2> QED
    BY <2>1, <2>2, <2>3
<1>7. Ordered(s, src)
  BY <1>6 DEF Ordered
<1>8. ASSUME NEW k \in DOMAIN h, h[k].role = "tool"
      PROVE  \E m \in DOMAIN s : \E j \in DOMAIN s[m].parts : src[m][j] = k
  <2> DEFINE outs == ss[k]
  <2>1. Renders(outs, h[k]) /\ \A j \in DOMAIN outs : \E m \in DOMAIN s : line[m] = k /\ col[m] = j
    BY <1>3
  <2>o. outs = ss[k]
    OBVIOUS
  <2> HIDE DEF outs
  <2>2. Len(outs) = 1 /\ Len(outs[1].parts) = 1 /\ DOMAIN outs = 1 .. Len(outs)
    BY <1>8, <2>1, ToolRenders
  <2>3. 1 \in DOMAIN outs
    BY <2>2
  <2>4. PICK m \in DOMAIN s : line[m] = k /\ col[m] = 1
    BY <2>1, <2>3
  <2>5. s[m] = outs[1]
    BY <1>3, <2>4, <2>o
  <2>6. 1 \in DOMAIN s[m].parts
    BY <1>1, <2>2, <2>5
  <2>7. src[m][1] = k
    BY <1>2, <2>4, <2>6
  <2> QED
    BY <2>6, <2>7
<1>9. Complete(s, h, src)
  BY <1>8 DEF Complete
<1> QED
  BY <1>5, <1>7, <1>9 DEF Traces, src

-----------------------------------------------------------------------------
(* What a message becomes *)

LEMMA PartFacts ==
  ASSUME NEW kind \in {"text", "think", "call", "result"}, NEW of \in Pairs, NEW id \in Pairs, NEW args \in Int
  PROVE  /\ Part(kind, of, id, args) \in PartTypes /\ Part(kind, of, id, args).kind = kind
         /\ Part(kind, of, id, args).of = of /\ Part(kind, of, id, args).id = id
<1>1. Nameless \in Pairs
  BY DEF Nameless, Pairs
<1> QED
  BY <1>1 DEF Part, PartTypes

LEMMA ResultOfFacts ==
  ASSUME NEW m \in Messages
  PROVE  /\ ResultOf(m) \in PartTypes /\ ResultOf(m).kind = "result"
         /\ ResultOf(m).of = m.of /\ ResultOf(m).id = m.id
         /\ adapter \notin {"gemini", "ollama"} => IsResultOf(ResultOf(m), m)
<1>1. m.of \in Pairs /\ m.id \in Pairs /\ 0 \in Int
  BY DEF Messages
<1>2. /\ ResultOf(m) \in PartTypes /\ ResultOf(m).kind = "result"
      /\ ResultOf(m).of = m.of /\ ResultOf(m).id = m.id
  BY <1>1, PartFacts DEF ResultOf
<1> QED
  BY <1>2 DEF IsResultOf, NamedFor

LEMMA NamedResultFacts ==
  ASSUME NEW m \in Messages, NEW name \in Pairs,
         adapter = "gemini" \/ (adapter = "ollama" /\ m.named) => name = m.of
  PROVE  NamedResult(m, name) \in PartTypes /\ IsResultOf(NamedResult(m, name), m)
<1> DEFINE r == ResultOf(m)
<1>1. r \in PartTypes /\ r.kind = "result" /\ r.of = m.of /\ r.id = m.id
  BY ResultOfFacts
<1>2. NamedResult(m, name) = [r EXCEPT !.name = name]
  BY DEF NamedResult
<1> HIDE DEF r
<1>3. [r EXCEPT !.name = name] \in PartTypes
  BY <1>1 DEF PartTypes
<1>4. LET q == [r EXCEPT !.name = name]
      IN  q.kind = "result" /\ q.of = m.of /\ q.id = m.id /\ q.name = name
  BY <1>1 DEF PartTypes
<1> QED
  BY <1>2, <1>3, <1>4 DEF IsResultOf, NamedFor

LEMMA TextOfFacts ==
  ASSUME NEW m \in Messages
  PROVE  TextOf(m) \in Seq(PartTypes) /\ \A j \in DOMAIN TextOf(m) : TextOf(m)[j].kind = "text"
<1> DEFINE p == Part("text", <<m.text, 0>>, <<0, 0>>, 0)
<1>1. <<m.text, 0>> \in Pairs /\ <<0, 0>> \in Pairs /\ 0 \in Int
  BY DEF Messages, Pairs
<1>2. p \in PartTypes /\ p.kind = "text"
  BY <1>1, PartFacts
<1>3. TextOf(m) \in {<<>>, <<p>>}
  BY DEF TextOf
<1> HIDE DEF p
<1>4. CASE TextOf(m) = <<>>
  BY <1>4
<1>5. CASE TextOf(m) = <<p>>
  BY <1>2, <1>5
<1> QED
  BY <1>3, <1>4, <1>5

\* Of the parts for calls only the arguments depend on the adapter.
AreCallsOf(parts, m) ==
    /\ parts \in Seq(PartTypes) /\ DOMAIN parts = DOMAIN m.calls
    /\ \A j \in DOMAIN parts : parts[j].kind = "call" /\ IsCallOf(parts[j], m)

LEMMA CallPartsFacts ==
  ASSUME NEW m \in Messages
  PROVE  AreCallsOf(CallParts(m, Decoded), m) /\ AreCallsOf(CallParts(m, RawArgs), m)
<1> DEFINE n == Len(m.calls)
<1>1. n \in Nat /\ DOMAIN m.calls = 1 .. n /\ \A k \in 1 .. n : m.calls[k] \in Calls
  <2>1. m.calls \in Seq(Calls)
    BY DEF Messages
  <2> QED
    BY <2>1
<1> HIDE DEF n
<1>2. ASSUME NEW f \in [1 .. n -> Int]
      PROVE  AreCallsOf([k \in DOMAIN m.calls |-> Part("call", m.calls[k].of, m.calls[k].id, f[k])], m)
  <2> DEFINE parts == [k \in DOMAIN m.calls |-> Part("call", m.calls[k].of, m.calls[k].id, f[k])]
  <2>1. \A k \in 1 .. n : m.calls[k].of \in Pairs /\ m.calls[k].id \in Pairs /\ f[k] \in Int
    BY <1>1 DEF Calls
  <2>2. \A k \in 1 .. n : /\ parts[k] \in PartTypes /\ parts[k].kind = "call"
                          /\ parts[k].of = m.calls[k].of /\ parts[k].id = m.calls[k].id
    BY <1>1, <2>1, PartFacts
  <2>3. parts = [k \in 1 .. n |-> parts[k]] /\ DOMAIN parts = 1 .. n
    BY <1>1
  <2> HIDE DEF parts
  <2>4. parts \in [1 .. n -> PartTypes]
    BY <2>2, <2>3
  <2>5. parts \in Seq(PartTypes)
    BY <1>1, <2>4
  <2>6. AreCallsOf(parts, m)
    BY <1>1, <2>2, <2>3, <2>5 DEF AreCallsOf, IsCallOf
  <2> QED
    BY <2>6 DEF parts
<1> DEFINE raw == [k \in 1 .. n |-> m.calls[k].args]
           dec == [k \in 1 .. n |-> Decoded(m.calls[k])]
<1>3. raw \in [1 .. n -> Int] /\ dec \in [1 .. n -> Int]
  BY <1>1 DEF Calls, Decoded
<1>4. /\ CallParts(m, RawArgs) = [k \in DOMAIN m.calls |-> Part("call", m.calls[k].of, m.calls[k].id, raw[k])]
      /\ CallParts(m, Decoded) = [k \in DOMAIN m.calls |-> Part("call", m.calls[k].of, m.calls[k].id, dec[k])]
  BY <1>1 DEF CallParts, RawArgs
<1> HIDE DEF raw, dec
<1> QED
  BY <1>2, <1>3, <1>4

LEMMA Speaking ==
  ASSUME NEW m, NEW some \in Seq(PartTypes), \A j \in DOMAIN some : some[j].kind \in {"text", "think"},
         NEW calls, AreCallsOf(calls, m)
  PROVE  Speaks(some \o calls, m) /\ Joins(some \o calls, some, calls)
<1> DEFINE parts == some \o calls
           n == Len(some)
<1>1. parts \in Seq(PartTypes) /\ Joins(parts, some, calls)
  BY Joined DEF AreCallsOf
<1> HIDE DEF parts
<1>2. \A j \in DOMAIN some : j \in DOMAIN parts /\ parts[j].kind \in {"text", "think"} /\ j <= n
  BY <1>1 DEF Joins
<1>3. \A j \in DOMAIN calls : n + j \in DOMAIN parts /\ parts[n + j] = calls[j] /\ n + j > n
  BY <1>1 DEF Joins
<1>4. \A j \in DOMAIN parts : j \in DOMAIN some \/ \E i \in DOMAIN calls : j = n + i
  BY <1>1 DEF Joins
<1>5. \A j \in DOMAIN calls : calls[j].kind = "call" /\ IsCallOf(calls[j], m)
  BY DEF AreCallsOf
<1>6. \A j \in DOMAIN parts : parts[j].kind # "result" /\ (parts[j].kind = "call" => IsCallOf(parts[j], m))
  BY <1>2, <1>3, <1>4, <1>5
<1>7. ASSUME NEW i \in DOMAIN parts, NEW j \in DOMAIN parts, i < j, parts[i].kind = "call"
      PROVE  parts[j].kind = "call"
  <2>1. \E k \in DOMAIN calls : i = n + k
    BY <1>2, <1>4, <1>7
  <2>2. n < i /\ n \in Nat /\ i \in Int /\ j \in Int
    BY <1>1, <1>3, <2>1 DEF Joins
  <2>3. j \notin DOMAIN some
    BY <1>2, <1>7, <2>2
  <2> QED
    BY <1>3, <1>4, <1>5, <2>3
<1> QED
  BY <1>1, <1>6, <1>7 DEF Speaks, parts

LEMMA OutFacts ==
  ASSUME NEW role \in {"system", "user", "assistant", "model", "tool"}, NEW parts \in Seq(PartTypes)
  PROVE  Out(role, parts) \in Outs /\ Out(role, parts).role = role /\ Out(role, parts).parts = parts
BY DEF Out, Outs

LEMMA Spoken ==
  ASSUME NEW m \in Messages
  PROVE  /\ Speaks(TextOf(m) \o CallParts(m, RawArgs), m)
         /\ Speaks(TextOf(m) \o CallParts(m, Decoded), m)
         /\ Speaks(TextOf(m), m)
<1>1. /\ TextOf(m) \in Seq(PartTypes) /\ \A j \in DOMAIN TextOf(m) : TextOf(m)[j].kind = "text"
      /\ AreCallsOf(CallParts(m, Decoded), m) /\ AreCallsOf(CallParts(m, RawArgs), m)
  BY TextOfFacts, CallPartsFacts
<1>2. Speaks(TextOf(m), m)
  BY <1>1 DEF Speaks
<1> QED
  BY <1>1, <1>2, Speaking

\* One message for each of the history, with these parts.
LEMMA Outgoing ==
  ASSUME NEW h \in Seq(Messages), NEW parts, \A k \in DOMAIN h : parts[k] \in Seq(PartTypes)
  PROVE  LET s == [k \in DOMAIN h |-> Out(h[k].role, parts[k])]
         IN  /\ s \in Seq(Outs) /\ DOMAIN s = DOMAIN h
             /\ \A k \in DOMAIN h : s[k].role = h[k].role /\ s[k].parts = parts[k]
<1> DEFINE s == [k \in DOMAIN h |-> Out(h[k].role, parts[k])]
<1>1. s = [k \in DOMAIN h |-> Out(h[k].role, parts[k])]
  OBVIOUS
<1>2. DOMAIN h = 1 .. Len(h) /\ Len(h) \in Nat /\ \A k \in DOMAIN h : h[k] \in Messages
  OBVIOUS
<1> HIDE DEF s
<1>3. \A k \in DOMAIN h : h[k].role \in {"system", "user", "assistant", "model", "tool"}
  BY <1>2 DEF Messages
<1>4. ASSUME NEW k \in DOMAIN h
      PROVE  s[k] \in Outs /\ s[k].role = h[k].role /\ s[k].parts = parts[k]
  <2> DEFINE role == h[k].role
             some == parts[k]
  <2>1. s[k] = Out(role, some) /\ some \in Seq(PartTypes) /\ role \in {"system", "user", "assistant", "model", "tool"}
    BY <1>1, <1>3
  <2> HIDE DEF role, some
  <2>2. s[k] \in Outs /\ s[k].role = role /\ s[k].parts = some
    BY <2>1, OutFacts
  <2> QED
    BY <2>2 DEF role, some
<1>5. s \in [1 .. Len(h) -> Outs]
  BY <1>1, <1>2, <1>4
<1>6. s \in Seq(Outs) /\ DOMAIN s = DOMAIN h
  BY <1>2, <1>5
<1> QED
  BY <1>4, <1>6 DEF s

LEMMA OpenAIMessages ==
  ASSUME NEW h \in Seq(Messages)
  PROVE  /\ DOMAIN OpenAIBuild(h) = DOMAIN h
         /\ OpenAIBuild(h) \in Seq(Outs)
         /\ \A k \in DOMAIN h :
               /\ OpenAIBuild(h)[k].role = h[k].role
               /\ h[k].role = "tool" => OpenAIBuild(h)[k].parts = <<ResultOf(h[k])>>
               /\ h[k].role # "tool" => Speaks(OpenAIBuild(h)[k].parts, h[k])
<1> DEFINE parts == [k \in DOMAIN h |-> IF h[k].role = "tool" THEN <<ResultOf(h[k])>>
                                        ELSE TextOf(h[k]) \o CallParts(h[k], RawArgs)]
           s == [k \in DOMAIN h |-> Out(h[k].role, parts[k])]
<1>1. OpenAIBuild(h) = s
  BY DEF OpenAIBuild
<1>2. ASSUME NEW k \in DOMAIN h
      PROVE  /\ parts[k] \in Seq(PartTypes)
             /\ h[k].role = "tool" => parts[k] = <<ResultOf(h[k])>>
             /\ h[k].role # "tool" => Speaks(parts[k], h[k])
  <2>1. h[k] \in Messages
    OBVIOUS
  <2>2. CASE h[k].role = "tool"
    BY <2>1, <2>2, ResultOfFacts
  <2>3. CASE h[k].role # "tool"
    <3>1. Speaks(parts[k], h[k])
      BY <2>1, <2>3, Spoken
    <3> QED
      BY <2>3, <3>1 DEF Speaks
  <2> QED
    BY <2>2, <2>3
<1> HIDE DEF parts
<1>3. /\ s \in Seq(Outs) /\ DOMAIN s = DOMAIN h
      /\ \A k \in DOMAIN h : s[k].role = h[k].role /\ s[k].parts = parts[k]
  BY <1>2, Outgoing
<1> HIDE DEF s
<1> QED
  BY <1>1, <1>2, <1>3

LEMMA OllamaMessages ==
  ASSUME NEW h \in Seq(Messages), adapter = "ollama"
  PROVE  /\ DOMAIN OllamaBuild(h) = DOMAIN h
         /\ OllamaBuild(h) \in Seq(Outs)
         /\ \A k \in DOMAIN h :
               /\ OllamaBuild(h)[k].role = h[k].role
               /\ h[k].role = "tool" => /\ Len(OllamaBuild(h)[k].parts) = 1
                                        /\ IsResultOf(OllamaBuild(h)[k].parts[1], h[k])
               /\ h[k].role # "tool" => Speaks(OllamaBuild(h)[k].parts, h[k])
<1> DEFINE parts == [k \in DOMAIN h |-> IF h[k].role = "tool" THEN <<NamedResult(h[k], GivenName(h[k]))>>
                                        ELSE TextOf(h[k]) \o CallParts(h[k], Decoded)]
           s == [k \in DOMAIN h |-> Out(h[k].role, parts[k])]
<1>1. OllamaBuild(h) = s
  BY DEF OllamaBuild
<1>2. ASSUME NEW k \in DOMAIN h
      PROVE  /\ parts[k] \in Seq(PartTypes)
             /\ h[k].role = "tool" => Len(parts[k]) = 1 /\ IsResultOf(parts[k][1], h[k])
             /\ h[k].role # "tool" => Speaks(parts[k], h[k])
  <2>1. h[k] \in Messages
    OBVIOUS
  <2>2. CASE h[k].role = "tool"
    <3> DEFINE m == h[k]
               r == NamedResult(m, GivenName(m))
    <3>1. parts[k] = <<r>>
      BY <2>2
    <3>2. m \in Messages
      BY <2>1
    <3> HIDE DEF m, parts
    <3>3. GivenName(m) \in Pairs /\ (m.named => GivenName(m) = m.of)
      <4>1. m.of \in Pairs /\ Nameless \in Pairs
        BY <3>2 DEF Messages, Nameless, Pairs
      <4> QED
        BY <4>1 DEF GivenName
    <3>4. r \in PartTypes /\ IsResultOf(r, m)
      BY <3>2, <3>3, NamedResultFacts
    <3> HIDE DEF r
    <3>5. <<r>> \in Seq(PartTypes) /\ Len(<<r>>) = 1 /\ <<r>>[1] = r
      BY <3>4
    <3> QED
      BY <2>2, <3>1, <3>4, <3>5 DEF m
  <2>3. CASE h[k].role # "tool"
    <3>1. Speaks(parts[k], h[k])
      BY <2>1, <2>3, Spoken
    <3> QED
      BY <2>3, <3>1 DEF Speaks
  <2> QED
    BY <2>2, <2>3
<1> HIDE DEF parts
<1>3. /\ s \in Seq(Outs) /\ DOMAIN s = DOMAIN h
      /\ \A k \in DOMAIN h : s[k].role = h[k].role /\ s[k].parts = parts[k]
  BY <1>2, Outgoing
<1> HIDE DEF s
<1> QED
  BY <1>1, <1>2, <1>3

LEMMA OneOut ==
  ASSUME NEW m \in Messages, NEW o \in Outs, m.role = "system" => o.role = "system",
         m.role = "tool" => Len(o.parts) = 1 /\ IsResultOf(o.parts[1], m),
         m.role # "tool" => Speaks(o.parts, m)
  PROVE  Renders(<<o>>, m)
<1>1. <<o>> \in Seq(Outs) /\ Len(<<o>>) = 1 /\ DOMAIN <<o>> = {1} /\ <<o>>[1] = o
  OBVIOUS
<1>2. \A a, b \in {1} : ~ (a < b)
  OBVIOUS
<1> QED
  BY <1>1, <1>2 DEF Renders

\* A request of one message for each of the history.
LEMMA OneEach ==
  ASSUME NEW h \in Seq(Messages), NEW s \in Seq(Outs), DOMAIN s = DOMAIN h,
         \A k \in DOMAIN h :
            /\ s[k].role = h[k].role
            /\ h[k].role = "tool" => Len(s[k].parts) = 1 /\ IsResultOf(s[k].parts[1], h[k])
            /\ h[k].role # "tool" => Speaks(s[k].parts, h[k])
  PROVE  \E src : Traces(s, h, src)
<1> DEFINE ss == [k \in DOMAIN h |-> <<s[k]>>]
           line == [k \in DOMAIN h |-> k]
           col == [k \in DOMAIN h |-> 1]
<1>2. DOMAIN h = 1 .. Len(h) /\ Len(h) \in Nat /\ \A k \in DOMAIN h : h[k] \in Messages
  OBVIOUS
<1>3. Len(s) = Len(h) /\ \A k \in DOMAIN h : s[k] \in Outs
  BY <1>2
<1>4. Len(ss) = Len(h)
  BY <1>2
<1>5. \A k \in DOMAIN h : ss[k] = <<s[k]>> /\ DOMAIN ss[k] = {1} /\ ss[k][1] = s[k] /\ line[k] = k /\ col[k] = 1
  OBVIOUS
<1> HIDE DEF ss, line, col
<1>6. Flat(s, ss, line, col)
  <2>1. Len(s) \in Nat /\ DOMAIN s = 1 .. Len(s) /\ 1 .. Len(ss) = DOMAIN h
    BY <1>2, <1>3, <1>4
  <2>2. \A q \in DOMAIN s : line[q] \in 1 .. Len(ss) /\ col[q] \in DOMAIN ss[line[q]] /\ s[q] = ss[line[q]][col[q]]
    BY <1>5, <2>1
  <2>3. \A k \in 1 .. Len(ss) : \A j \in DOMAIN ss[k] : \E q \in DOMAIN s : line[q] = k /\ col[q] = j
    BY <1>5, <2>1
  <2>4. \A p, q \in DOMAIN s : p < q => line[p] < line[q] \/ (line[p] = line[q] /\ col[p] < col[q])
    BY <1>5
  <2> QED
    BY <2>1, <2>2, <2>3, <2>4 DEF Flat, FlatTo
<1>7. ASSUME NEW k \in DOMAIN h PROVE Renders(ss[k], h[k])
  <2>1. h[k] \in Messages /\ s[k] \in Outs /\ ss[k] = <<s[k]>>
    BY <1>2, <1>3, <1>5
  <2> QED
    BY <2>1, OneOut
<1> QED
  BY <1>4, <1>6, <1>7, Rendered

LEMMA OpenAITraces ==
  ASSUME NEW h \in Seq(Messages), adapter \notin {"gemini", "ollama"}
  PROVE  \E src : Traces(OpenAIBuild(h), h, src)
<1> DEFINE s == OpenAIBuild(h)
<1>1. /\ DOMAIN s = DOMAIN h /\ s \in Seq(Outs)
      /\ \A k \in DOMAIN h :
            /\ s[k].role = h[k].role
            /\ h[k].role = "tool" => s[k].parts = <<ResultOf(h[k])>>
            /\ h[k].role # "tool" => Speaks(s[k].parts, h[k])
  BY OpenAIMessages
<1> HIDE DEF s
<1>2. ASSUME NEW k \in DOMAIN h, h[k].role = "tool"
      PROVE  Len(s[k].parts) = 1 /\ IsResultOf(s[k].parts[1], h[k])
  <2> DEFINE r == ResultOf(h[k])
  <2>1. IsResultOf(r, h[k])
    BY ResultOfFacts
  <2>2. s[k].parts = <<r>>
    BY <1>1, <1>2
  <2> HIDE DEF r
  <2>3. Len(<<r>>) = 1 /\ <<r>>[1] = r
    OBVIOUS
  <2> QED
    BY <2>1, <2>2, <2>3
<1>3. \E src : Traces(s, h, src)
  BY <1>1, <1>2, OneEach
<1> QED
  BY <1>3 DEF s

LEMMA OllamaTraces ==
  ASSUME NEW h \in Seq(Messages), adapter = "ollama"
  PROVE  \E src : Traces(OllamaBuild(h), h, src)
<1> DEFINE s == OllamaBuild(h)
<1>1. /\ DOMAIN s = DOMAIN h /\ s \in Seq(Outs)
      /\ \A k \in DOMAIN h :
            /\ s[k].role = h[k].role
            /\ h[k].role = "tool" => Len(s[k].parts) = 1 /\ IsResultOf(s[k].parts[1], h[k])
            /\ h[k].role # "tool" => Speaks(s[k].parts, h[k])
  BY OllamaMessages
<1> HIDE DEF s
<1>2. \E src : Traces(s, h, src)
  BY <1>1, OneEach
<1> QED
  BY <1>2 DEF s

LEMMA ItemsRender ==
  ASSUME NEW m \in Messages, NEW parts \in Seq(PartTypes),
         m.role = "tool" => parts = <<ResultOf(m)>>,
         m.role # "tool" => Speaks(parts, m),
         adapter \notin {"gemini", "ollama"}
  PROVE  Renders([j \in DOMAIN parts |-> Out(m.role, <<parts[j]>>)], m)
<1> DEFINE outs == [j \in DOMAIN parts |-> Out(m.role, <<parts[j]>>)]
<1>1. m.role \in {"system", "user", "assistant", "model", "tool"}
  BY DEF Messages
<1>2. DOMAIN parts = 1 .. Len(parts) /\ Len(parts) \in Nat /\ \A j \in DOMAIN parts : parts[j] \in PartTypes
  OBVIOUS
<1>3. \A j \in DOMAIN parts : <<parts[j]>> \in Seq(PartTypes)
  BY <1>2
<1>4. \A j \in DOMAIN parts : outs[j] \in Outs /\ outs[j].role = m.role /\ outs[j].parts = <<parts[j]>>
  <2> SUFFICES ASSUME NEW j \in DOMAIN parts
               PROVE  outs[j] \in Outs /\ outs[j].role = m.role /\ outs[j].parts = <<parts[j]>>
    OBVIOUS
  <2> DEFINE role == m.role
             some == <<parts[j]>>
  <2>1. outs[j] = Out(role, some) /\ some \in Seq(PartTypes) /\ role \in {"system", "user", "assistant", "model", "tool"}
    BY <1>1, <1>3
  <2> HIDE DEF role, some, outs
  <2>2. outs[j] \in Outs /\ outs[j].role = role /\ outs[j].parts = some
    BY <2>1, OutFacts
  <2> QED
    BY <2>2 DEF role, some
<1>5. outs = [j \in 1 .. Len(parts) |-> outs[j]] /\ DOMAIN outs = DOMAIN parts
  BY <1>2
<1> HIDE DEF outs
<1>6. outs \in [1 .. Len(parts) -> Outs]
  BY <1>2, <1>4, <1>5
<1>7. outs \in Seq(Outs) /\ Len(outs) = Len(parts)
  BY <1>2, <1>6
<1>8. ASSUME m.role = "tool"
      PROVE  Len(outs) = 1 /\ Len(outs[1].parts) = 1 /\ IsResultOf(outs[1].parts[1], m)
  <2>1. parts = <<ResultOf(m)>> /\ IsResultOf(ResultOf(m), m)
    BY <1>8, ResultOfFacts
  <2>2. Len(parts) = 1 /\ 1 \in DOMAIN parts /\ parts[1] = ResultOf(m)
    BY <2>1
  <2> QED
    BY <1>4, <1>7, <2>1, <2>2
<1>9. \A j \in DOMAIN outs : /\ DOMAIN outs[j].parts = {1} /\ outs[j].parts[1] = parts[j] /\ outs[j].parts \in Seq(PartTypes)
  <2> SUFFICES ASSUME NEW j \in DOMAIN outs
               PROVE  DOMAIN outs[j].parts = {1} /\ outs[j].parts[1] = parts[j] /\ outs[j].parts \in Seq(PartTypes)
    OBVIOUS
  <2>1. outs[j].parts = <<parts[j]>> /\ <<parts[j]>> \in Seq(PartTypes)
    BY <1>3, <1>4, <1>5
  <2>2. DOMAIN <<parts[j]>> = {1} /\ <<parts[j]>>[1] = parts[j]
    OBVIOUS
  <2> QED
    BY <2>1, <2>2
<1>10. ASSUME m.role # "tool"
       PROVE  /\ \A a \in DOMAIN outs : Speaks(outs[a].parts, m)
              /\ \A a, b \in DOMAIN outs : \A i \in DOMAIN outs[a].parts : \A j \in DOMAIN outs[b].parts :
                    a < b /\ outs[a].parts[i].kind = "call" => outs[b].parts[j].kind = "call"
  <2>1. Speaks(parts, m)
    BY <1>10
  <2>2. \A i, j \in {1} : ~ (i < j)
    OBVIOUS
  <2>3. \A a \in DOMAIN outs : Speaks(outs[a].parts, m)
    BY <1>5, <1>9, <2>1, <2>2 DEF Speaks
  <2>4. \A a, b \in DOMAIN outs : a < b /\ parts[a].kind = "call" => parts[b].kind = "call"
    BY <1>5, <2>1 DEF Speaks
  <2> QED
    BY <1>9, <2>3, <2>4
<1> QED
  BY <1>4, <1>5, <1>7, <1>8, <1>10 DEF Renders, outs

LEMMA ResponsesTraces ==
  ASSUME NEW h \in Seq(Messages), adapter = "responses"
  PROVE  \E src : Traces(ResponsesBuild(h), h, src)
<1> DEFINE o == OpenAIBuild(h)
           ss == [k \in DOMAIN h |-> [j \in DOMAIN o[k].parts |-> Out(h[k].role, <<o[k].parts[j]>>)]]
<1>1. /\ DOMAIN o = DOMAIN h /\ o \in Seq(Outs)
      /\ \A k \in DOMAIN h :
            /\ h[k].role = "tool" => o[k].parts = <<ResultOf(h[k])>>
            /\ h[k].role # "tool" => Speaks(o[k].parts, h[k])
  BY OpenAIMessages
<1>2. ResponsesBuild(h) = FlattenSeq(ss)
  BY DEF ResponsesBuild
<1> HIDE DEF o
<1>3. DOMAIN h = 1 .. Len(h) /\ Len(h) \in Nat /\ \A k \in DOMAIN h : h[k] \in Messages
  OBVIOUS
<1>4. \A k \in DOMAIN h : ss[k] = [j \in DOMAIN o[k].parts |-> Out(h[k].role, <<o[k].parts[j]>>)]
  OBVIOUS
<1>5. ASSUME NEW k \in DOMAIN h PROVE Renders(ss[k], h[k])
  <2>1. h[k] \in Messages /\ o[k].parts \in Seq(PartTypes)
    BY <1>1, <1>3, OutTypes
  <2> QED
    BY <1>1, <1>4, <2>1, ItemsRender
<1>6. ss = [k \in 1 .. Len(h) |-> ss[k]]
  BY <1>3
<1> HIDE DEF ss
<1>7. ss \in Seq(Seq(Outs)) /\ Len(ss) = Len(h)
  <2>1. \A k \in 1 .. Len(h) : ss[k] \in Seq(Outs)
    BY <1>3, <1>5 DEF Renders
  <2>2. ss \in [1 .. Len(h) -> Seq(Outs)]
    BY <1>6, <2>1
  <2> QED
    BY <1>3, <2>2
<1>8. FlattenSeq(ss) \in Seq(Outs) /\ \E line, col : Flat(FlattenSeq(ss), ss, line, col)
  BY <1>7, Flattened
<1>9. PICK line, col : Flat(FlattenSeq(ss), ss, line, col)
  BY <1>8
<1> DEFINE s == FlattenSeq(ss)
<1>10. s \in Seq(Outs) /\ Flat(s, ss, line, col)
  BY <1>8, <1>9
<1> HIDE DEF s
<1>11. \E src : Traces(s, h, src)
  BY <1>5, <1>7, <1>10, Rendered
<1> QED
  BY <1>2, <1>11 DEF s

-----------------------------------------------------------------------------
(* Gemini: the name of a result's function is found by its id. *)

LEMMA GreatestOf ==
  ASSUME NEW n \in Nat, NEW S, S \subseteq 1 .. n, S # {}
  PROVE  \E x \in S : \A y \in S : y <= x
<1> DEFINE D == {n - x : x \in S}
<1>1. \A x \in S : x \in 1 .. n /\ n - x \in Nat /\ n - x \in D
  BY SMT
<1>2. D \in SUBSET Nat /\ D # {}
  BY <1>1
<1>3. PICK d \in D : \A e \in D : ~ (e < d)
  <2> HIDE DEF D
  <2> QED
    BY <1>2, LeastOf
<1>4. PICK x \in S : d = n - x
  BY <1>3
<1>5. \A y \in S : ~ (n - y < n - x)
  BY <1>1, <1>3, <1>4
<1>6. \A y \in S : y <= x
  BY <1>1, <1>5
<1> QED
  BY <1>6

LEMMA NamesFound ==
  ASSUME NEW h, NEW T, Conversation(h, T), NEW k \in DOMAIN h, h[k].role = "tool"
  PROVE  NameFor(h, k) = h[k].of
<1> DEFINE ss == [j \in 1 .. k - 1 |-> h[j].calls]
           asked == FlattenSeq(ss)
           same == {j \in DOMAIN asked : asked[j].id = h[k].id}
<1>1. /\ h \in Seq(Messages) /\ DOMAIN h = 1 .. Len(h) /\ Len(h) \in Nat
      /\ \A j \in DOMAIN h : h[j].calls \in Seq(Calls)
  BY MessageTypes DEF Conversation
<1>2. k - 1 \in Nat /\ k \in Nat /\ \A j \in 1 .. k - 1 : j \in DOMAIN h
  BY <1>1
<1>3. ss \in Seq(Seq(Calls)) /\ Len(ss) = k - 1 /\ \A j \in 1 .. k - 1 : ss[j] = h[j].calls
  <2>1. ss \in [1 .. k - 1 -> Seq(Calls)]
    BY <1>1, <1>2
  <2> DEFINE n == k - 1
  <2> HIDE DEF n
  <2>2. ss \in [1 .. n -> Seq(Calls)] /\ n \in Nat
    BY <1>2, <2>1 DEF n
  <2> HIDE DEF ss
  <2>3. ss \in Seq(Seq(Calls)) /\ Len(ss) = n
    BY <2>2
  <2> QED
    BY <2>3 DEF n, ss
<1> HIDE DEF ss
<1>4. asked \in Seq(Calls) /\ \E line, col : Flat(asked, ss, line, col)
  BY <1>3, Flattened
<1>5. PICK line, col : Flat(asked, ss, line, col)
  BY <1>4
<1>6. NameFor(h, k) = IF h[k].named THEN h[k].of
                      ELSE IF same = {} THEN Nameless
                      ELSE asked[CHOOSE j \in same : \A i \in same : i <= j].of
  BY DEF NameFor, ss
<1> HIDE DEF asked
<1>7. /\ Len(asked) \in Nat /\ DOMAIN asked = 1 .. Len(asked)
      /\ \A q \in DOMAIN asked : /\ line[q] \in 1 .. k - 1 /\ col[q] \in DOMAIN h[line[q]].calls
                                 /\ asked[q] = h[line[q]].calls[col[q]]
      /\ \A p, q \in DOMAIN asked : p < q => line[p] < line[q] \/ (line[p] = line[q] /\ col[p] < col[q])
      /\ \A a \in 1 .. k - 1 : \A i \in DOMAIN h[a].calls : \E q \in DOMAIN asked : line[q] = a /\ col[q] = i
  <2>1. Flat(asked, ss, line, col) /\ Len(ss) = k - 1 /\ \A j \in 1 .. k - 1 : ss[j] = h[j].calls
    BY <1>3, <1>5
  <2>2. /\ Len(asked) \in Nat /\ DOMAIN asked = 1 .. Len(asked)
        /\ \A p, q \in DOMAIN asked : p < q => line[p] < line[q] \/ (line[p] = line[q] /\ col[p] < col[q])
    BY <2>1 DEF Flat, FlatTo
  <2>3. \A q \in DOMAIN asked : /\ line[q] \in 1 .. k - 1 /\ col[q] \in DOMAIN ss[line[q]]
                                /\ asked[q] = ss[line[q]][col[q]]
    BY <2>1 DEF Flat, FlatTo
  <2>4. \A a \in 1 .. k - 1 : \A i \in DOMAIN ss[a] : \E q \in DOMAIN asked : line[q] = a /\ col[q] = i
    BY <2>1 DEF Flat, FlatTo
  <2>5. \A a \in 1 .. k - 1 : \A i \in DOMAIN h[a].calls : \E q \in DOMAIN asked : line[q] = a /\ col[q] = i
    BY <2>1, <2>4
  <2>6. \A q \in DOMAIN asked : /\ line[q] \in 1 .. k - 1 /\ col[q] \in DOMAIN h[line[q]].calls
                                /\ asked[q] = h[line[q]].calls[col[q]]
    BY <2>1, <2>3
  <2> QED
    BY <2>2, <2>5, <2>6
<1>8. PICK a \in DOMAIN h : \E i \in DOMAIN h[a].calls : Answers(h, a, i, k)
  BY DEF Conversation
<1>9. PICK i \in DOMAIN h[a].calls : Answers(h, a, i, k)
  BY <1>8
<1>10. /\ a < k /\ h[k].of = h[a].calls[i].of /\ h[k].id = h[a].calls[i].id
       /\ \A q \in a + 1 .. k : h[q].role \in {"tool", "system"}
  BY <1>9 DEF Answers
<1>11. a \in 1 .. k - 1
  BY <1>1, <1>10
<1>12. PICK q0 \in DOMAIN asked : line[q0] = a /\ col[q0] = i
  BY <1>7, <1>11
<1>13. q0 \in same
  BY <1>7, <1>10, <1>12
<1>14. same \subseteq 1 .. Len(asked) /\ same # {} /\ Len(asked) \in Nat
  BY <1>7, <1>13
<1> DEFINE g == CHOOSE j \in same : \A x \in same : x <= j
<1>15. g \in same /\ \A x \in same : x <= g
  <2> HIDE DEF same
  <2> QED
    BY <1>14, GreatestOf
<1>16. g \in DOMAIN asked /\ asked[g].id = h[k].id /\ q0 <= g
  BY <1>13, <1>15
<1>17. NameFor(h, k) = IF h[k].named THEN h[k].of ELSE asked[g].of
  BY <1>6, <1>13
<1> HIDE DEF g, same
<1>18. line[g] = a
  <2>1. line[g] \in 1 .. k - 1 /\ col[g] \in DOMAIN h[line[g]].calls
    BY <1>7, <1>16
  <2>2. a <= line[g]
    <3>1. q0 = g \/ q0 < g
      BY <1>7, <1>16
    <3> QED
      BY <1>7, <1>11, <1>12, <1>16, <2>1, <3>1
  <2>3. ~ (a < line[g])
    <3> SUFFICES ASSUME a < line[g] PROVE FALSE
      OBVIOUS
    <3>1. line[g] \in a + 1 .. k /\ line[g] \in DOMAIN h
      BY <1>1, <1>2, <1>11, <2>1
    <3>2. h[line[g]].role = "assistant"
      BY <2>1, <3>1 DEF Conversation
    <3> QED
      BY <1>10, <3>1, <3>2
  <2> QED
    BY <1>11, <2>1, <2>2, <2>3
<1>19. asked[g] = h[a].calls[col[g]] /\ col[g] \in DOMAIN h[a].calls
  BY <1>7, <1>16, <1>18
<1>20. col[g] = i
  BY <1>10, <1>16, <1>19 DEF Conversation
<1> QED
  BY <1>10, <1>17, <1>19, <1>20

LEMMA GeminiRenders ==
  ASSUME NEW h, NEW T, Conversation(h, T), NEW k \in DOMAIN h
  PROVE  Renders(GeminiMsg(h, k), h[k])
<1> DEFINE m == h[k]
<1>1. m \in Messages /\ m.role \in {"system", "user", "assistant", "tool"}
  <2>1. m \in Messages
    BY MessageTypes DEF Conversation
  <2> QED
    BY <2>1 DEF Messages
<1>e. Renders(<<>>, m) \/ m.role = "tool"
  BY DEF Renders
<1>2. CASE m.role = "tool"
  <2> DEFINE r == NamedResult(m, NameFor(h, k))
             o == Out("user", <<r>>)
  <2>1. NameFor(h, k) = m.of /\ m.of \in Pairs
    <3>1. m.of \in Pairs
      BY <1>1 DEF Messages
    <3> QED
      BY <1>2, <3>1, NamesFound
  <2>2. GeminiMsg(h, k) = <<o>>
    BY <1>2 DEF GeminiMsg
  <2>3. r \in PartTypes /\ IsResultOf(r, m)
    BY <1>1, <2>1, NamedResultFacts
  <2> HIDE DEF r
  <2>4. <<r>> \in Seq(PartTypes) /\ Len(<<r>>) = 1 /\ <<r>>[1] = r
    BY <2>3
  <2>5. o \in Outs /\ o.parts = <<r>>
    BY <2>4, OutFacts
  <2> HIDE DEF o
  <2>6. Renders(<<o>>, m)
    BY <1>1, <1>2, <2>3, <2>4, <2>5, OneOut
  <2> QED
    BY <2>2, <2>6
<1>3. CASE m.role = "system"
  <2>1. GeminiMsg(h, k) = <<>>
    BY <1>3 DEF GeminiMsg
  <2> QED
    BY <1>3, <1>e, <2>1
<1>4. CASE m.role = "assistant"
  <2> DEFINE parts == TextOf(m) \o CallParts(m, Decoded)
             o == Out("model", parts)
  <2>1. GeminiMsg(h, k) = IF parts = <<>> THEN <<>> ELSE <<o>>
    BY <1>4 DEF GeminiMsg
  <2>2. Speaks(parts, m)
    BY <1>1, Spoken
  <2> HIDE DEF parts
  <2>3. o \in Outs /\ o.parts = parts
    BY <2>2, OutFacts DEF Speaks
  <2> HIDE DEF o
  <2>4. Renders(<<o>>, m)
    BY <1>1, <1>4, <2>2, <2>3, OneOut
  <2> QED
    BY <1>4, <1>e, <2>1, <2>4
<1>5. CASE m.role = "user"
  <2> DEFINE parts == TextOf(m)
             o == Out("user", parts)
  <2>1. GeminiMsg(h, k) = <<o>>
    BY <1>5 DEF GeminiMsg
  <2>2. Speaks(parts, m)
    BY <1>1, Spoken
  <2> HIDE DEF parts
  <2>3. o \in Outs /\ o.parts = parts
    BY <2>2, OutFacts DEF Speaks
  <2> HIDE DEF o
  <2>4. Renders(<<o>>, m)
    BY <1>1, <1>5, <2>2, <2>3, OneOut
  <2> QED
    BY <2>1, <2>4
<1> QED
  BY <1>1, <1>2, <1>3, <1>4, <1>5

LEMMA GeminiTraces ==
  ASSUME NEW h, NEW T, Conversation(h, T)
  PROVE  \E src : Traces(GeminiBuild(h), h, src)
<1> DEFINE ss == [k \in DOMAIN h |-> GeminiMsg(h, k)]
<1>1. GeminiBuild(h) = FlattenSeq(ss)
  BY DEF GeminiBuild
<1>2. h \in Seq(Messages)
  BY DEF Conversation
<1>3. DOMAIN h = 1 .. Len(h) /\ Len(h) \in Nat
  BY <1>2
<1>4. ASSUME NEW k \in DOMAIN h PROVE Renders(ss[k], h[k])
  BY GeminiRenders
<1>5. ss = [k \in 1 .. Len(h) |-> ss[k]]
  BY <1>3
<1> HIDE DEF ss
<1>6. ss \in Seq(Seq(Outs)) /\ Len(ss) = Len(h)
  <2>1. \A k \in 1 .. Len(h) : ss[k] \in Seq(Outs)
    BY <1>3, <1>4 DEF Renders
  <2>2. ss \in [1 .. Len(h) -> Seq(Outs)]
    BY <1>5, <2>1
  <2> QED
    BY <1>3, <2>2
<1>7. FlattenSeq(ss) \in Seq(Outs) /\ \E line, col : Flat(FlattenSeq(ss), ss, line, col)
  BY <1>6, Flattened
<1>8. PICK line, col : Flat(FlattenSeq(ss), ss, line, col)
  BY <1>7
<1> DEFINE s == FlattenSeq(ss)
<1>9. s \in Seq(Outs) /\ Flat(s, ss, line, col)
  BY <1>7, <1>8
<1> HIDE DEF s
<1>10. \E src : Traces(s, h, src)
  BY <1>2, <1>4, <1>6, <1>9, Rendered
<1> QED
  BY <1>1, <1>10 DEF s

-----------------------------------------------------------------------------
(* Anthropic: results are collected into one message. *)

\* s has a part at place j of message m.
PartAt(s, m, j) == m \in DOMAIN s /\ j \in DOMAIN s[m].parts

\* The request t is s and, behind all its parts, what message x becomes.
Adds(s, t, x) ==
    /\ t \in Seq(Outs)
    /\ x.role # "system"
    /\ \A m, j : PartAt(s, m, j) => PartAt(t, m, j) /\ t[m].parts[j] = s[m].parts[j] /\ t[m].role = s[m].role
    /\ \A m, j, l, i : PartAt(s, m, j) /\ PartAt(t, l, i) /\ ~ PartAt(s, l, i) => Before(m, j, l, i)
    /\ \A l, i : PartAt(t, l, i) /\ ~ PartAt(s, l, i) =>
          LET p == t[l].parts[i]
          IN  IF x.role = "tool" THEN p.kind = "result" /\ IsResultOf(p, x)
              ELSE p.kind # "result" /\ (p.kind = "call" => IsCallOf(p, x))
    /\ \A m, j, l, i : PartAt(t, m, j) /\ ~ PartAt(s, m, j) /\ PartAt(t, l, i) /\ ~ PartAt(s, l, i) /\ Before(m, j, l, i) =>
          /\ t[m].parts[j].kind # "result"
          /\ t[m].parts[j].kind = "call" => t[l].parts[i].kind = "call"
    /\ x.role = "tool" => \E l, i : PartAt(t, l, i) /\ ~ PartAt(s, l, i)

\* As Traces, for a request made of the first n messages of h.
TracesTo(s, h, n, src) ==
    /\ s \in Seq(Outs)
    /\ \A m, j : PartAt(s, m, j) =>
          LET p == s[m].parts[j]
              k == src[m][j]
          IN  /\ k \in 1 .. n
              /\ p.kind = "call" => IsCallOf(p, h[k])
              /\ p.kind = "result" <=> h[k].role = "tool"
              /\ p.kind = "result" => IsResultOf(p, h[k])
              /\ h[k].role # "system"
    /\ \A m, j, l, i : PartAt(s, m, j) /\ PartAt(s, l, i) /\ Before(m, j, l, i) =>
          /\ src[m][j] <= src[l][i]
          /\ src[m][j] = src[l][i] => /\ s[m].parts[j].kind # "result"
                                      /\ s[m].parts[j].kind = "call" => s[l].parts[i].kind = "call"
    /\ \A k \in 1 .. n : h[k].role = "tool" => \E m, j : PartAt(s, m, j) /\ src[m][j] = k

\* Where the parts of t come from, if those it has more than s come from message k.
Source(s, t, src, k) ==
    [m \in DOMAIN t |-> [j \in DOMAIN t[m].parts |-> IF PartAt(s, m, j) THEN src[m][j] ELSE k]]

LEMMA SourceAt ==
  ASSUME NEW s, NEW t, NEW src, NEW k, NEW m, NEW j, PartAt(t, m, j)
  PROVE  Source(s, t, src, k)[m][j] = IF PartAt(s, m, j) THEN src[m][j] ELSE k
BY DEF Source, PartAt

LEMMA TracesAll ==
  ASSUME NEW h \in Seq(Messages), NEW s, NEW src, TracesTo(s, h, Len(h), src)
  PROVE  Traces(s, h, src)
<1>1. DOMAIN h = 1 .. Len(h)
  OBVIOUS
<1>2. s \in Seq(Outs)
  BY DEF TracesTo
<1>3. ASSUME NEW m \in DOMAIN s, NEW j \in DOMAIN s[m].parts
      PROVE  LET p == s[m].parts[j]
                 k == src[m][j]
             IN  /\ k \in DOMAIN h
                 /\ p.kind = "call" => \E i \in DOMAIN h[k].calls : p.of = h[k].calls[i].of /\ p.id = h[k].calls[i].id
                 /\ p.kind = "result" <=> h[k].role = "tool"
                 /\ p.kind = "result" => p.of = h[k].of /\ p.id = h[k].id /\ NamedFor(p, h[k])
                 /\ h[k].role = "system" => s[m].role = "system"
  <2> DEFINE p == s[m].parts[j]
             k == src[m][j]
  <2>1. PartAt(s, m, j)
    BY DEF PartAt
  <2>2. /\ k \in 1 .. Len(h)
        /\ p.kind = "call" => IsCallOf(p, h[k])
        /\ p.kind = "result" <=> h[k].role = "tool"
        /\ p.kind = "result" => IsResultOf(p, h[k])
        /\ h[k].role # "system"
    BY <2>1 DEF TracesTo
  <2> HIDE DEF p, k
  <2>3. /\ k \in DOMAIN h
        /\ p.kind = "call" => \E i \in DOMAIN h[k].calls : p.of = h[k].calls[i].of /\ p.id = h[k].calls[i].id
        /\ p.kind = "result" => p.of = h[k].of /\ p.id = h[k].id /\ NamedFor(p, h[k])
    BY <1>1, <2>2 DEF IsCallOf, IsResultOf
  <2> QED
    BY <2>2, <2>3 DEF p, k
<1>4. Sourced(s, h, src)
  BY <1>3 DEF Sourced
<1>5. Ordered(s, src)
  BY DEF TracesTo, Ordered, PartAt
<1>6. Complete(s, h, src)
  <2> SUFFICES ASSUME NEW k \in 1 .. Len(h), h[k].role = "tool"
               PROVE  \E m \in DOMAIN s : \E j \in DOMAIN s[m].parts : src[m][j] = k
    BY <1>1 DEF Complete
  <2>1. PICK m, j : PartAt(s, m, j) /\ src[m][j] = k
    BY DEF TracesTo
  <2> QED
    BY <2>1 DEF PartAt
<1> QED
  BY <1>2, <1>4, <1>5, <1>6 DEF Traces

LEMMA AddedTraces ==
  ASSUME NEW n \in Nat, NEW h, NEW s, NEW t, NEW src, TracesTo(s, h, n, src), Adds(s, t, h[n + 1])
  PROVE  TracesTo(t, h, n + 1, Source(s, t, src, n + 1))
<1> DEFINE x == h[n + 1]
           new == Source(s, t, src, n + 1)
<1>1. \A m, j : PartAt(t, m, j) => new[m][j] = IF PartAt(s, m, j) THEN src[m][j] ELSE n + 1
  BY SourceAt
<1> HIDE DEF new
<1>2. \A k \in 1 .. n : k \in 1 .. n + 1 /\ k < n + 1
  OBVIOUS
<1>3. ASSUME NEW m, NEW j, PartAt(t, m, j)
      PROVE  LET p == t[m].parts[j]
                 k == new[m][j]
             IN  /\ k \in 1 .. n + 1
                 /\ p.kind = "call" => IsCallOf(p, h[k])
                 /\ p.kind = "result" <=> h[k].role = "tool"
                 /\ p.kind = "result" => IsResultOf(p, h[k])
                 /\ h[k].role # "system"
  <2>1. CASE PartAt(s, m, j)
    <3> DEFINE k == src[m][j]
               p == s[m].parts[j]
    <3>1. new[m][j] = k /\ t[m].parts[j] = p
      BY <1>1, <1>3, <2>1 DEF Adds
    <3>2. /\ k \in 1 .. n
          /\ p.kind = "call" => IsCallOf(p, h[k])
          /\ p.kind = "result" <=> h[k].role = "tool"
          /\ p.kind = "result" => IsResultOf(p, h[k])
          /\ h[k].role # "system"
      BY <2>1 DEF TracesTo
    <3> HIDE DEF k, p
    <3> QED
      BY <1>2, <3>1, <3>2
  <2>2. CASE ~ PartAt(s, m, j)
    <3> DEFINE p == t[m].parts[j]
    <3>1. new[m][j] = n + 1 /\ n + 1 \in 1 .. n + 1
      BY <1>1, <1>3, <2>2
    <3>2. /\ IF x.role = "tool" THEN p.kind = "result" /\ IsResultOf(p, x)
             ELSE p.kind # "result" /\ (p.kind = "call" => IsCallOf(p, x))
          /\ x.role # "system"
      BY <1>3, <2>2 DEF Adds
    <3> HIDE DEF p
    <3>3. /\ p.kind = "call" => IsCallOf(p, x)
          /\ p.kind = "result" <=> x.role = "tool"
          /\ p.kind = "result" => IsResultOf(p, x)
      BY <3>2
    <3> QED
      BY <3>1, <3>2, <3>3 DEF p
  <2> QED
    BY <2>1, <2>2
<1>4. ASSUME NEW m, NEW j, NEW l, NEW i, PartAt(t, m, j), PartAt(t, l, i), Before(m, j, l, i)
      PROVE  /\ new[m][j] <= new[l][i]
             /\ new[m][j] = new[l][i] => /\ t[m].parts[j].kind # "result"
                                         /\ t[m].parts[j].kind = "call" => t[l].parts[i].kind = "call"
  <2>1. CASE PartAt(s, m, j) /\ PartAt(s, l, i)
    <3>1. new[m][j] = src[m][j] /\ new[l][i] = src[l][i] /\ t[m].parts[j] = s[m].parts[j] /\ t[l].parts[i] = s[l].parts[i]
      BY <1>1, <1>4, <2>1 DEF Adds
    <3>2. /\ src[m][j] <= src[l][i]
          /\ src[m][j] = src[l][i] => /\ s[m].parts[j].kind # "result"
                                      /\ s[m].parts[j].kind = "call" => s[l].parts[i].kind = "call"
      BY <1>4, <2>1 DEF TracesTo
    <3> QED
      BY <3>1, <3>2
  <2>2. CASE PartAt(s, m, j) /\ ~ PartAt(s, l, i)
    <3>1. new[m][j] = src[m][j] /\ src[m][j] \in 1 .. n /\ new[l][i] = n + 1
      BY <1>1, <1>4, <2>2 DEF TracesTo
    <3> QED
      BY <3>1
  <2>3. CASE ~ PartAt(s, m, j) /\ PartAt(s, l, i)
    <3>1. Before(l, i, m, j)
      BY <1>4, <2>3 DEF Adds
    <3>2. t \in Seq(Outs)
      BY DEF Adds
    <3>3. m \in Int /\ l \in Int
      <4>1. DOMAIN t = 1 .. Len(t) /\ Len(t) \in Nat
        BY <3>2
      <4> QED
        BY <1>4, <4>1 DEF PartAt
    <3>4. m = l => j \in Int /\ i \in Int
      <4>1. \A a \in DOMAIN t : DOMAIN t[a].parts = 1 .. Len(t[a].parts) /\ Len(t[a].parts) \in Nat
        BY <3>2, OutTypes
      <4> QED
        BY <1>4, <4>1 DEF PartAt
    <3> QED
      BY <1>4, <3>1, <3>3, <3>4 DEF Before
  <2>4. CASE ~ PartAt(s, m, j) /\ ~ PartAt(s, l, i)
    <3>1. new[m][j] = n + 1 /\ new[l][i] = n + 1
      BY <1>1, <1>4, <2>4
    <3>2. t[m].parts[j].kind # "result" /\ (t[m].parts[j].kind = "call" => t[l].parts[i].kind = "call")
      BY <1>4, <2>4 DEF Adds
    <3> QED
      BY <3>1, <3>2
  <2> QED
    BY <2>1, <2>2, <2>3, <2>4
<1>5. ASSUME NEW k \in 1 .. n + 1, h[k].role = "tool"
      PROVE  \E m, j : PartAt(t, m, j) /\ new[m][j] = k
  <2>1. CASE k \in 1 .. n
    <3>1. PICK m, j : PartAt(s, m, j) /\ src[m][j] = k
      BY <1>5, <2>1 DEF TracesTo
    <3>2. PartAt(t, m, j) /\ new[m][j] = k
      BY <1>1, <3>1 DEF Adds
    <3> QED
      BY <3>2
  <2>2. CASE k = n + 1
    <3>1. PICK l, i : PartAt(t, l, i) /\ ~ PartAt(s, l, i)
      BY <1>5, <2>2 DEF Adds
    <3>2. new[l][i] = k
      BY <1>1, <2>2, <3>1
    <3> QED
      BY <3>1, <3>2
  <2> QED
    BY <2>1, <2>2
<1>6. TracesTo(t, h, n + 1, new)
  <2>1. t \in Seq(Outs)
    BY DEF Adds
  <2> QED
    BY <1>3, <1>4, <1>5, <2>1 DEF TracesTo
<1> QED
  BY <1>6 DEF new

\* A system message adds nothing.
LEMMA SkippedTraces ==
  ASSUME NEW n \in Nat, NEW h, NEW s, NEW src, TracesTo(s, h, n, src), h[n + 1].role = "system"
  PROVE  TracesTo(s, h, n + 1, src)
<1>1. \A k \in 1 .. n : k \in 1 .. n + 1
  OBVIOUS
<1>2. \A k \in 1 .. n + 1 : h[k].role = "tool" => k \in 1 .. n
  OBVIOUS
<1> QED
  BY <1>1, <1>2 DEF TracesTo

LEMMA MessageAdds ==
  ASSUME NEW s \in Seq(Outs), NEW o \in Outs, NEW x, x.role \notin {"tool", "system"}, Speaks(o.parts, x)
  PROVE  Adds(s, Append(s, o), x)
<1> DEFINE t == Append(s, o)
<1>1. /\ Len(s) \in Nat /\ DOMAIN s = 1 .. Len(s) /\ t \in Seq(Outs) /\ DOMAIN t = 1 .. Len(s) + 1
      /\ t[Len(s) + 1] = o /\ \A m \in DOMAIN s : t[m] = s[m]
  OBVIOUS
<1> HIDE DEF t
<1>2. \A m, j : PartAt(s, m, j) => PartAt(t, m, j) /\ t[m].parts[j] = s[m].parts[j] /\ t[m].role = s[m].role
  BY <1>1 DEF PartAt
<1>3. \A l, i : PartAt(t, l, i) /\ ~ PartAt(s, l, i) => l = Len(s) + 1 /\ t[l] = o /\ i \in DOMAIN o.parts
  BY <1>1 DEF PartAt
<1>4. \A m, j, l, i : PartAt(s, m, j) /\ PartAt(t, l, i) /\ ~ PartAt(s, l, i) => Before(m, j, l, i)
  <2>1. \A m, j : PartAt(s, m, j) => m < Len(s) + 1
    BY <1>1 DEF PartAt
  <2> QED
    BY <1>3, <2>1 DEF Before
<1>5. \A l, i : PartAt(t, l, i) /\ ~ PartAt(s, l, i) =>
          LET p == t[l].parts[i]
          IN  p.kind # "result" /\ (p.kind = "call" => IsCallOf(p, x))
  BY <1>3 DEF Speaks
<1>6. ASSUME NEW m, NEW j, NEW l, NEW i, PartAt(t, m, j), ~ PartAt(s, m, j), PartAt(t, l, i), ~ PartAt(s, l, i), Before(m, j, l, i)
      PROVE  t[m].parts[j].kind # "result" /\ (t[m].parts[j].kind = "call" => t[l].parts[i].kind = "call")
  <2>1. m = l /\ t[m] = o /\ t[l] = o /\ j \in DOMAIN o.parts /\ i \in DOMAIN o.parts /\ m \in Int
    BY <1>1, <1>3, <1>6
  <2>2. j < i
    BY <1>6, <2>1 DEF Before
  <2> QED
    BY <2>1, <2>2 DEF Speaks
<1>7. Adds(s, t, x)
  BY <1>1, <1>2, <1>4, <1>5, <1>6 DEF Adds
<1> QED
  BY <1>7 DEF t

\* The adapter's locals: what is in the request and the results to come into its next message.
States == [out : Seq(Outs), pending : Seq(PartTypes)]

\* The request is the messages that are out and, if there are pending results, one with them.
Holds(s, out_, pending) ==
    /\ s \in Seq(Outs)
    /\ \A m \in DOMAIN out_ : m \in DOMAIN s /\ s[m] = out_[m]
    /\ \A m \in DOMAIN s : m \in DOMAIN out_ \/ (m = Len(out_) + 1 /\ s[m] = Out("user", pending) /\ pending # <<>>)
    /\ pending # <<>> => Len(out_) + 1 \in DOMAIN s

LEMMA FlushedHolds ==
  ASSUME NEW st \in States
  PROVE  Holds(Flushed(st), st.out, st.pending)
<1> DEFINE some == st.out
           rest == st.pending
           o == Out("user", rest)
<1>1. some \in Seq(Outs) /\ rest \in Seq(PartTypes)
  BY DEF States
<1>2. o \in Outs
  BY <1>1, OutFacts
<1>3. Flushed(st) = IF rest = <<>> THEN some ELSE Append(some, o)
  BY DEF Flushed
<1> HIDE DEF some, rest
<1>4. CASE rest = <<>>
  BY <1>1, <1>3, <1>4 DEF Holds, some, rest
<1>5. CASE rest # <<>>
  <2> DEFINE s == Append(some, o)
  <2>1. /\ Len(some) \in Nat /\ DOMAIN some = 1 .. Len(some) /\ s \in Seq(Outs) /\ DOMAIN s = 1 .. Len(some) + 1
        /\ s[Len(some) + 1] = o /\ \A m \in DOMAIN some : s[m] = some[m]
    <3> HIDE DEF o
    <3> QED
      BY <1>1, <1>2
  <2>2. Flushed(st) = s
    BY <1>3, <1>5
  <2> HIDE DEF s
  <2>3. Holds(s, some, rest)
    BY <1>5, <2>1 DEF Holds
  <2> QED
    BY <2>2, <2>3 DEF some, rest
<1> QED
  BY <1>4, <1>5

LEMMA ResultAdds ==
  ASSUME NEW st \in States, NEW x, x.role = "tool", NEW r \in PartTypes, IsResultOf(r, x)
  PROVE  LET later == [st EXCEPT !.pending = Append(@, r)]
         IN  later \in States /\ later.out = st.out /\ Adds(Flushed(st), Flushed(later), x)
<1> DEFINE some == st.out
           rest == st.pending
           more == Append(rest, r)
           later == [st EXCEPT !.pending = Append(@, r)]
           s == Flushed(st)
           t == Flushed(later)
           n == Len(some) + 1
           k == Len(rest) + 1
<1>1. some \in Seq(Outs) /\ rest \in Seq(PartTypes)
  BY DEF States
<1>2. /\ Len(some) \in Nat /\ DOMAIN some = 1 .. Len(some)
      /\ Len(rest) \in Nat /\ DOMAIN rest = 1 .. Len(rest)
      /\ more \in Seq(PartTypes) /\ DOMAIN more = 1 .. k /\ more[k] = r /\ more # <<>>
      /\ \A j \in DOMAIN rest : j \in DOMAIN more /\ more[j] = rest[j]
  <2> HIDE DEF some, rest
  <2> QED
    BY <1>1
<1>3. later = [out |-> some, pending |-> more]
  <2>1. later = [st EXCEPT !.pending = more]
    OBVIOUS
  <2> HIDE DEF later, more
  <2> QED
    BY <2>1 DEF States
<1>4. later \in States /\ later.out = some /\ later.pending = more
  BY <1>1, <1>2, <1>3 DEF States
<1>5. Holds(s, some, rest)
  BY FlushedHolds
<1>6. Holds(t, some, more)
  BY <1>4, FlushedHolds
<1> HIDE DEF s, t, some, rest, more
<1>7. Out("user", rest).parts = rest /\ Out("user", more).parts = more /\ Out("user", rest).role = Out("user", more).role
  <2>1. rest \in Seq(PartTypes) /\ more \in Seq(PartTypes)
    BY <1>1, <1>2
  <2> QED
    BY <2>1, OutFacts
<1>8. n \in DOMAIN t /\ t[n] = Out("user", more) /\ n \notin DOMAIN some
  BY <1>2, <1>6 DEF Holds
<1>9. n \in DOMAIN s => s[n] = Out("user", rest)
  BY <1>5, <1>8 DEF Holds
<1>10. \A m, j : PartAt(s, m, j) => (m \in DOMAIN some /\ s[m] = some[m] /\ t[m] = some[m]) \/ (m = n /\ j \in DOMAIN rest)
  BY <1>5, <1>6, <1>7, <1>9 DEF Holds, PartAt
<1>11. \A m, j : PartAt(s, m, j) => PartAt(t, m, j) /\ t[m].parts[j] = s[m].parts[j] /\ t[m].role = s[m].role
  <2> SUFFICES ASSUME NEW m, NEW j, PartAt(s, m, j)
               PROVE  PartAt(t, m, j) /\ t[m].parts[j] = s[m].parts[j] /\ t[m].role = s[m].role
    OBVIOUS
  <2>1. CASE m \in DOMAIN some
    BY <1>5, <1>6, <2>1 DEF Holds, PartAt
  <2>2. CASE m = n /\ j \in DOMAIN rest
    <3>1. s[m] = Out("user", rest) /\ t[m] = Out("user", more) /\ m \in DOMAIN t
      BY <1>8, <1>9, <2>2 DEF PartAt
    <3> QED
      BY <1>2, <1>7, <2>2, <3>1 DEF PartAt
  <2> QED
    BY <1>10, <2>1, <2>2
<1>12. \A m, j : PartAt(t, m, j) /\ ~ PartAt(s, m, j) => m = n /\ j = k
  <2> SUFFICES ASSUME NEW m, NEW j, PartAt(t, m, j), ~ PartAt(s, m, j) PROVE m = n /\ j = k
    OBVIOUS
  <2>1. m \notin DOMAIN some
    BY <1>5, <1>6 DEF Holds, PartAt
  <2>2. m = n /\ j \in DOMAIN more
    BY <1>6, <1>7, <2>1 DEF Holds, PartAt
  <2>3. j \notin DOMAIN rest
    <3> SUFFICES ASSUME j \in DOMAIN rest PROVE FALSE
      OBVIOUS
    <3>1. rest # <<>>
      BY <1>2
    <3>2. m \in DOMAIN s /\ s[m] = Out("user", rest)
      BY <1>5, <1>9, <2>2, <3>1 DEF Holds
    <3> QED
      BY <1>7, <3>2 DEF PartAt
  <2> QED
    BY <1>2, <2>2, <2>3
<1>13. PartAt(t, n, k) /\ ~ PartAt(s, n, k) /\ t[n].parts[k] = r
  <2>1. k \in DOMAIN more /\ k \notin DOMAIN rest
    BY <1>2
  <2>2. ~ PartAt(s, n, k)
    BY <1>7, <1>9, <2>1 DEF PartAt
  <2> QED
    BY <1>2, <1>7, <1>8, <2>1, <2>2 DEF PartAt
<1>14. ASSUME NEW m, NEW j, PartAt(s, m, j) PROVE Before(m, j, n, k)
  <2>1. CASE m \in DOMAIN some
    BY <1>2, <2>1 DEF Before
  <2>2. CASE m = n /\ j \in DOMAIN rest
    BY <1>2, <2>2 DEF Before
  <2> QED
    BY <1>10, <1>14, <2>1, <2>2
<1>15. ~ Before(n, k, n, k)
  BY <1>2 DEF Before
<1>16. Adds(s, t, x)
  <2>1. t \in Seq(Outs)
    BY <1>6 DEF Holds
  <2>2. r.kind = "result"
    BY DEF IsResultOf
  <2>3. x.role # "system"
    OBVIOUS
  <2>4. \A m, j, l, i : PartAt(s, m, j) /\ PartAt(t, l, i) /\ ~ PartAt(s, l, i) => Before(m, j, l, i)
    BY <1>12, <1>14
  <2>5. \A l, i : PartAt(t, l, i) /\ ~ PartAt(s, l, i) => t[l].parts[i].kind = "result" /\ IsResultOf(t[l].parts[i], x)
    BY <1>12, <1>13, <2>2
  <2>6. \A m, j, l, i : PartAt(t, m, j) /\ ~ PartAt(s, m, j) /\ PartAt(t, l, i) /\ ~ PartAt(s, l, i) => ~ Before(m, j, l, i)
    BY <1>12, <1>15
  <2>7. \E l, i : PartAt(t, l, i) /\ ~ PartAt(s, l, i)
    BY <1>13
  <2> QED
    BY <1>11, <2>1, <2>3, <2>4, <2>5, <2>6, <2>7 DEF Adds
<1> QED
  BY <1>4, <1>16 DEF s, t, some

Unbuilt == [out |-> <<>>, pending |-> <<>>]

\* f[n] is what claudeBuildMessages holds after n messages.
Builds(f, h) == f[0] = Unbuilt /\ \A n \in 1 .. Len(h) : f[n] = ClaudeStep(f[n - 1], h[n])

LEMMA ClaudeUnfolds ==
  ASSUME NEW h \in Seq(Messages)
  PROVE  \E f : ClaudeBuild(h) = Flushed(f[Len(h)]) /\ Builds(f, h)
<1> DEFINE P == {ResultOf(h[i]) : i \in Nat}
           O == {ClaudeAssistant(h[i]) : i \in Nat} \cup {Out("user", TextOf(h[i])) : i \in Nat}
                  \cup {Out("user", p) : p \in Seq(P)}
           V == [out : Seq(O), pending : Seq(P)]
           step == [x \in Nat \X V |-> ClaudeStep(x[2], h[x[1]])]
           Unfolds(f) == f = [n \in Nat |-> IF n = 0 THEN Unbuilt ELSE ClaudeStep(f[n - 1], h[n])]
           f == CHOOSE g : Unfolds(g)
<1>1. \A n \in Nat, v \in V : step[n, v] = ClaudeStep(v, h[n])
  OBVIOUS
<1>2. ASSUME NEW n \in Nat, NEW v \in V PROVE ClaudeStep(v, h[n]) \in V
  <2> DEFINE m == h[n]
             r == ResultOf(m)
             a == ClaudeAssistant(m)
             u == Out("user", TextOf(m))
  <2>1. r \in P /\ a \in O /\ u \in O
    OBVIOUS
  <2>2. v.out \in Seq(O) /\ v.pending \in Seq(P)
    OBVIOUS
  <2>3. \A p \in Seq(P) : Out("user", p) \in O
    OBVIOUS
  <2> HIDE DEF m, r, a, u, P, O
  <2>4. Flushed(v) \in Seq(O)
    BY <2>2, <2>3 DEF Flushed
  <2> HIDE DEF V
  <2>5. Append(v.pending, r) \in Seq(P) /\ Append(Flushed(v), a) \in Seq(O) /\ Append(Flushed(v), u) \in Seq(O) /\ <<>> \in Seq(P)
    BY <2>1, <2>2, <2>4
  <2>6. [v EXCEPT !.pending = Append(@, r)] \in V
    BY <2>5 DEF V
  <2>7. [out |-> Append(Flushed(v), a), pending |-> <<>>] \in V /\ [out |-> Append(Flushed(v), u), pending |-> <<>>] \in V
    BY <2>5 DEF V
  <2>8. \/ ClaudeStep(v, m) = [v EXCEPT !.pending = Append(@, r)]
        \/ ClaudeStep(v, m) = [out |-> Append(Flushed(v), a), pending |-> <<>>]
        \/ ClaudeStep(v, m) = [out |-> Append(Flushed(v), u), pending |-> <<>>]
        \/ ClaudeStep(v, m) = v
    <3>1. CASE m.role = "tool"
      BY <3>1 DEF ClaudeStep, r
    <3>2. CASE m.role = "assistant"
      BY <3>2 DEF ClaudeStep, a
    <3>3. CASE m.role = "user"
      BY <3>3 DEF ClaudeStep, u
    <3>4. CASE m.role \notin {"tool", "assistant", "user"}
      BY <3>4 DEF ClaudeStep
    <3> QED
      BY <3>1, <3>2, <3>3, <3>4
  <2>9. ClaudeStep(v, m) \in V
    BY <2>6, <2>7, <2>8
  <2> QED
    BY <2>9 DEF m
<1>3. Unbuilt \in V
  <2>1. <<>> \in Seq(O) /\ <<>> \in Seq(P)
    OBVIOUS
  <2> HIDE DEF O, P
  <2> QED
    BY <2>1 DEF Unbuilt
<1>4. step \in [Nat \X V -> V]
  <2> HIDE DEF V
  <2> QED
    BY <1>2
<1> HIDE DEF V, step
<1>5. PICK g : Recurs(g, V, Unbuilt, step)
  BY <1>3, <1>4, NatRecursion
<1>6. \A n \in Nat \ {0} : g[n] = ClaudeStep(g[n - 1], h[n])
  <2> SUFFICES ASSUME NEW n \in Nat \ {0} PROVE g[n] = ClaudeStep(g[n - 1], h[n])
    OBVIOUS
  <2>1. n - 1 \in Nat
    OBVIOUS
  <2>2. g[n] = step[n, g[n - 1]] /\ g[n - 1] \in V
    BY <1>5, <2>1 DEF Recurs
  <2> QED
    BY <1>1, <2>2
<1>7. Unfolds(g)
  <2>1. g = [n \in Nat |-> g[n]] /\ g[0] = Unbuilt
    BY <1>5 DEF Recurs
  <2>2. \A n \in Nat : g[n] = IF n = 0 THEN Unbuilt ELSE ClaudeStep(g[n - 1], h[n])
    BY <1>6, <2>1
  <2> QED
    BY <2>1, <2>2
<1>8. Unfolds(f)
  <2> HIDE DEF Unfolds
  <2> QED
    BY <1>7
<1>9. ClaudeBuild(h) = Flushed(f[Len(h)])
  BY DEF ClaudeBuild, Unbuilt
<1> HIDE DEF f
<1>10. \A n \in 1 .. Len(h) : n \in Nat /\ n # 0
  OBVIOUS
<1>11. f[0] = Unbuilt /\ \A n \in Nat : n # 0 => f[n] = ClaudeStep(f[n - 1], h[n])
  BY <1>8
<1>12. Builds(f, h)
  BY <1>10, <1>11 DEF Builds
<1> QED
  BY <1>9, <1>12

\* Between message k of h and message n there are only results and system messages.
Quiet(h, k, n) == \A q \in k + 1 .. n : h[q].role \in {"tool", "system"}

\* The calls that results may still be about are those of the last message.
LastCalls(s, h, n, src) ==
    \A m, j : (PartAt(s, m, j) /\ s[m].parts[j].kind = "call" /\ Quiet(h, src[m][j], n)) => m = Len(s)

\* As Adjacent and ThinkingLeads.
NextTo(s, h, src) ==
    \A m, j, l, i : (/\ PartAt(s, m, j) /\ PartAt(s, l, i) /\ s[m].parts[j].kind = "call" /\ s[l].parts[i].kind = "result"
                     /\ src[m][j] < src[l][i] /\ Quiet(h, src[m][j], src[l][i]))
                    => l = m + 1

Leads(s, h, src) ==
    \A m, j : (PartAt(s, m, j) /\ s[m].parts[j].kind = "call" /\ h[src[m][j]].think # 0) => s[m].parts[1].kind = "think"

\* What claudeBuildMessages holds after n messages of h.
Claude(st, h, n, src) ==
    /\ st \in States
    /\ \A j \in DOMAIN st.pending : st.pending[j].kind = "result"
    /\ TracesTo(Flushed(st), h, n, src)
    /\ LastCalls(st.out, h, n, src)
    /\ NextTo(Flushed(st), h, src)
    /\ Leads(Flushed(st), h, src)

LEMMA ClaudeBegins ==
  ASSUME NEW h
  PROVE  Claude(Unbuilt, h, 0, <<>>)
<1>1. <<>> \in Seq(Outs) /\ <<>> \in Seq(PartTypes) /\ DOMAIN <<>> = {} /\ \A k \in 1 .. 0 : FALSE
  OBVIOUS
<1>2. Flushed(Unbuilt) = <<>> /\ Unbuilt.out = <<>> /\ Unbuilt.pending = <<>> /\ Unbuilt \in States
  BY <1>1 DEF Flushed, Unbuilt, States
<1>3. \A m, j : ~ PartAt(<<>>, m, j)
  BY <1>1 DEF PartAt
<1>4. TracesTo(<<>>, h, 0, <<>>)
  BY <1>1, <1>3 DEF TracesTo
<1> QED
  BY <1>1, <1>2, <1>3, <1>4 DEF Claude, LastCalls, NextTo, Leads

LEMMA ClaudeHears ==
  ASSUME NEW n \in Nat, NEW h, NEW st, NEW src, Claude(st, h, n, src), h[n + 1].role = "system"
  PROVE  ClaudeStep(st, h[n + 1]) = st /\ Claude(st, h, n + 1, src)
<1>1. ClaudeStep(st, h[n + 1]) = st
  BY DEF ClaudeStep
<1>2. TracesTo(Flushed(st), h, n + 1, src)
  BY SkippedTraces DEF Claude
<1>3. LastCalls(st.out, h, n + 1, src)
  <2> SUFFICES ASSUME NEW m, NEW j, PartAt(st.out, m, j), st.out[m].parts[j].kind = "call", Quiet(h, src[m][j], n + 1)
               PROVE  m = Len(st.out)
    BY DEF LastCalls
  <2>1. Quiet(h, src[m][j], n)
    <3>1. src[m][j] \in Int
      <4>1. PartAt(Flushed(st), m, j)
        BY FlushedHolds DEF Claude, Holds, PartAt
      <4> QED
        BY <4>1 DEF Claude, TracesTo
    <3> QED
      BY <3>1 DEF Quiet
  <2> QED
    BY <2>1 DEF Claude, LastCalls
<1> QED
  BY <1>1, <1>2, <1>3 DEF Claude

LEMMA ClaudeCollects ==
  ASSUME NEW n \in Nat, NEW h, NEW st, NEW src, Claude(st, h, n, src), h[n + 1] \in Messages, h[n + 1].role = "tool",
         adapter = "claude"
  PROVE  \E new : Claude(ClaudeStep(st, h[n + 1]), h, n + 1, new)
<1> DEFINE x == h[n + 1]
           r == ResultOf(x)
           later == [st EXCEPT !.pending = Append(@, r)]
           s == Flushed(st)
           t == Flushed(later)
           new == Source(s, t, src, n + 1)
<1>1. st \in States /\ TracesTo(s, h, n, src)
  BY DEF Claude
<1>2. ClaudeStep(st, x) = later
  BY DEF ClaudeStep
<1>3. r \in PartTypes /\ IsResultOf(r, x)
  BY ResultOfFacts
<1>4. later \in States /\ later.out = st.out /\ Adds(s, t, x)
  <2> HIDE DEF r
  <2> QED
    BY <1>1, <1>3, ResultAdds
<1>5. \A j \in DOMAIN later.pending : later.pending[j].kind = "result"
  <2>1. later.pending = Append(st.pending, r) /\ st.pending \in Seq(PartTypes)
    BY <1>1 DEF States
  <2>2. r.kind = "result"
    BY <1>3 DEF IsResultOf
  <2>3. \A j \in DOMAIN st.pending : st.pending[j].kind = "result"
    BY DEF Claude
  <2> DEFINE rest == st.pending
  <2>4. rest \in Seq(PartTypes) /\ \A j \in DOMAIN rest : rest[j].kind = "result"
    BY <2>1, <2>3
  <2> HIDE DEF rest, r
  <2>5. \A j \in DOMAIN Append(rest, r) : (j \in DOMAIN rest /\ Append(rest, r)[j] = rest[j]) \/ Append(rest, r)[j] = r
    BY <2>4
  <2> QED
    BY <2>1, <2>2, <2>4, <2>5 DEF rest
<1>6. Holds(s, st.out, st.pending) /\ Holds(t, st.out, later.pending)
  BY <1>1, <1>4, FlushedHolds
<1> HIDE DEF later, s, t, new
<1>7. TracesTo(t, h, n + 1, new)
  BY <1>1, <1>4, AddedTraces DEF new
<1>8. \A m, j : PartAt(s, m, j) => new[m][j] = src[m][j] /\ src[m][j] \in 1 .. n /\ PartAt(t, m, j) /\ t[m].parts[j] = s[m].parts[j]
  <2>1. \A m, j : PartAt(s, m, j) => PartAt(t, m, j) /\ t[m].parts[j] = s[m].parts[j]
    BY <1>4 DEF Adds
  <2> QED
    BY <1>1, <2>1, SourceAt DEF TracesTo, new
<1>9. \A m, j : PartAt(st.out, m, j) => PartAt(s, m, j) /\ s[m] = st.out[m]
  BY <1>6 DEF Holds, PartAt
<1>10. \A m, j : PartAt(t, m, j) /\ t[m].parts[j].kind = "call" => PartAt(st.out, m, j) /\ t[m] = st.out[m]
  <2> SUFFICES ASSUME NEW m, NEW j, PartAt(t, m, j), t[m].parts[j].kind = "call" PROVE m \in DOMAIN st.out
    BY <1>6 DEF Holds, PartAt
  <2>1. CASE t[m] = Out("user", later.pending)
    <3>1. t[m].parts = later.pending
      BY <2>1 DEF Out
    <3> QED
      BY <1>5, <3>1 DEF PartAt
  <2> QED
    BY <1>6, <2>1 DEF Holds, PartAt
<1>11. \A k \in 1 .. n : Quiet(h, k, n + 1) => Quiet(h, k, n)
  BY DEF Quiet
<1>12. LastCalls(st.out, h, n + 1, new)
  <2> SUFFICES ASSUME NEW m, NEW j, PartAt(st.out, m, j), st.out[m].parts[j].kind = "call", Quiet(h, new[m][j], n + 1)
               PROVE  m = Len(st.out)
    BY DEF LastCalls
  <2>1. PartAt(s, m, j) /\ new[m][j] = src[m][j] /\ src[m][j] \in 1 .. n
    BY <1>8, <1>9
  <2>2. Quiet(h, src[m][j], n)
    BY <1>11, <2>1
  <2> QED
    BY <2>2 DEF Claude, LastCalls
<1>13. NextTo(t, h, new)
  <2> SUFFICES ASSUME NEW m, NEW j, NEW l, NEW i, PartAt(t, m, j), PartAt(t, l, i), t[m].parts[j].kind = "call",
                      t[l].parts[i].kind = "result", new[m][j] < new[l][i], Quiet(h, new[m][j], new[l][i])
               PROVE  l = m + 1
    BY DEF NextTo
  <2>1. PartAt(st.out, m, j) /\ PartAt(s, m, j) /\ t[m] = st.out[m] /\ s[m] = st.out[m]
    BY <1>9, <1>10
  <2>2. new[m][j] = src[m][j] /\ src[m][j] \in 1 .. n
    BY <1>8, <2>1
  <2>3. CASE PartAt(s, l, i)
    <3>1. new[l][i] = src[l][i] /\ s[l].parts[i].kind = "result"
      BY <1>8, <2>3
    <3> QED
      BY <2>1, <2>2, <2>3, <3>1 DEF Claude, NextTo, s
  <2>4. CASE ~ PartAt(s, l, i)
    <3>1. new[l][i] = n + 1
      BY <2>4, SourceAt DEF new
    <3>2. Quiet(h, src[m][j], n)
      BY <1>11, <2>2, <3>1
    <3>3. m = Len(st.out)
      BY <2>1, <3>2 DEF Claude, LastCalls
    <3>4. l \notin DOMAIN st.out
      BY <1>6, <2>4 DEF Holds, PartAt
    <3> QED
      BY <1>6, <3>3, <3>4 DEF Holds, PartAt
  <2> QED
    BY <2>3, <2>4
<1>14. Leads(t, h, new)
  <2> SUFFICES ASSUME NEW m, NEW j, PartAt(t, m, j), t[m].parts[j].kind = "call", h[new[m][j]].think # 0
               PROVE  t[m].parts[1].kind = "think"
    BY DEF Leads
  <2>1. PartAt(s, m, j) /\ t[m] = s[m] /\ new[m][j] = src[m][j]
    BY <1>8, <1>9, <1>10
  <2> QED
    BY <2>1 DEF Claude, Leads, s
<1>15. Claude(later, h, n + 1, new)
  BY <1>4, <1>5, <1>7, <1>12, <1>13, <1>14 DEF Claude, t
<1> QED
  BY <1>2, <1>15

\* A message of the user or the model puts what was pending before itself.
LEMMA ClaudeSpeaks ==
  ASSUME NEW n \in Nat, NEW h, NEW st, NEW src, Claude(st, h, n, src), h[n + 1].role \in {"user", "assistant"},
         NEW o \in Outs, Speaks(o.parts, h[n + 1]),
         \A j \in DOMAIN o.parts : o.parts[j].kind = "call" /\ h[n + 1].think # 0 => o.parts[1].kind = "think",
         ClaudeStep(st, h[n + 1]) = [out |-> Append(Flushed(st), o), pending |-> <<>>]
  PROVE  \E new : Claude(ClaudeStep(st, h[n + 1]), h, n + 1, new)
<1> DEFINE x == h[n + 1]
           s == Flushed(st)
           t == Append(s, o)
           later == [out |-> t, pending |-> <<>>]
           new == Source(s, t, src, n + 1)
<1>1. TracesTo(s, h, n, src) /\ s \in Seq(Outs)
  BY DEF Claude, TracesTo
<1> HIDE DEF s
<1>2. Adds(s, t, x)
  BY <1>1, MessageAdds
<1>3. /\ Len(s) \in Nat /\ DOMAIN s = 1 .. Len(s) /\ t \in Seq(Outs) /\ DOMAIN t = 1 .. Len(s) + 1 /\ Len(t) = Len(s) + 1
      /\ t[Len(s) + 1] = o /\ \A m \in DOMAIN s : t[m] = s[m]
  BY <1>1
<1> HIDE DEF t
<1>4. later \in States /\ later.out = t /\ later.pending = <<>> /\ Flushed(later) = t
  <2>1. <<>> \in Seq(PartTypes)
    OBVIOUS
  <2> QED
    BY <1>3, <2>1 DEF States, Flushed
<1> HIDE DEF later, new
<1>5. TracesTo(t, h, n + 1, new)
  BY <1>1, <1>2, AddedTraces DEF new
<1>6. \A m, j : PartAt(s, m, j) => new[m][j] = src[m][j] /\ src[m][j] \in 1 .. n /\ t[m] = s[m]
  <2>1. \A m, j : PartAt(s, m, j) => PartAt(t, m, j)
    BY <1>2 DEF Adds
  <2>2. \A m, j : PartAt(s, m, j) => t[m] = s[m]
    BY <1>3 DEF PartAt
  <2> QED
    BY <1>1, <2>1, <2>2, SourceAt DEF TracesTo, new
<1>7. \A m, j : PartAt(t, m, j) /\ ~ PartAt(s, m, j) => new[m][j] = n + 1 /\ m = Len(t) /\ t[m] = o
  <2>1. \A m, j : PartAt(t, m, j) /\ ~ PartAt(s, m, j) => new[m][j] = n + 1
    BY SourceAt DEF new
  <2> QED
    BY <1>3, <2>1 DEF PartAt
<1>8. \A k \in 1 .. n : ~ Quiet(h, k, n + 1)
  BY DEF Quiet
<1>9. LastCalls(t, h, n + 1, new)
  BY <1>6, <1>7, <1>8 DEF LastCalls
<1>10. NextTo(t, h, new)
  <2> SUFFICES ASSUME NEW m, NEW j, NEW l, NEW i, PartAt(t, m, j), PartAt(t, l, i), t[m].parts[j].kind = "call",
                      t[l].parts[i].kind = "result", new[m][j] < new[l][i], Quiet(h, new[m][j], new[l][i])
               PROVE  l = m + 1
    BY DEF NextTo
  <2>1. PartAt(s, l, i)
    BY <1>7 DEF Speaks, PartAt
  <2>2. new[l][i] \in 1 .. n
    BY <1>6, <2>1
  <2>3. PartAt(s, m, j)
    BY <1>7, <2>2
  <2>4. new[m][j] = src[m][j] /\ new[l][i] = src[l][i] /\ t[m] = s[m] /\ t[l] = s[l]
    BY <1>6, <2>1, <2>3
  <2>5. NextTo(s, h, src)
    BY DEF Claude, s
  <2> QED
    BY <2>1, <2>3, <2>4, <2>5 DEF NextTo
<1>11. Leads(t, h, new)
  <2> SUFFICES ASSUME NEW m, NEW j, PartAt(t, m, j), t[m].parts[j].kind = "call", h[new[m][j]].think # 0
               PROVE  t[m].parts[1].kind = "think"
    BY DEF Leads
  <2>1. CASE PartAt(s, m, j)
    BY <1>6, <2>1 DEF Claude, Leads, s
  <2>2. CASE ~ PartAt(s, m, j)
    <3>1. t[m] = o /\ new[m][j] = n + 1 /\ j \in DOMAIN o.parts
      BY <1>7, <2>2 DEF PartAt
    <3> QED
      BY <3>1
  <2> QED
    BY <2>1, <2>2
<1>12. DOMAIN <<>> = {}
  OBVIOUS
<1>13. Claude(later, h, n + 1, new)
  BY <1>4, <1>5, <1>9, <1>10, <1>11, <1>12 DEF Claude
<1> QED
  BY <1>13 DEF later, t, s

LEMMA AssistantFacts ==
  ASSUME NEW m \in Messages
  PROVE  LET o == ClaudeAssistant(m)
         IN  /\ o \in Outs
             /\ Speaks(o.parts, m)
             /\ \A j \in DOMAIN o.parts : o.parts[j].kind = "call" /\ m.think # 0 => o.parts[1].kind = "think"
<1> DEFINE p == Part("think", <<m.think, 0>>, <<0, 0>>, 0)
           think == IF m.calls # <<>> /\ m.think # 0 THEN <<p>> ELSE <<>>
           text == TextOf(m)
           some == think \o text
           calls == CallParts(m, Decoded)
           parts == some \o calls
           o == Out("assistant", parts)
<1>1. <<m.think, 0>> \in Pairs /\ <<0, 0>> \in Pairs /\ 0 \in Int /\ m.think \in Nat
  BY DEF Messages, Pairs
<1>2. p \in PartTypes /\ p.kind = "think"
  BY <1>1, PartFacts
<1>3. text \in Seq(PartTypes) /\ \A j \in DOMAIN text : text[j].kind = "text"
  BY TextOfFacts
<1>4. AreCallsOf(calls, m)
  BY CallPartsFacts
<1>5. ClaudeAssistant(m) = o
  BY DEF ClaudeAssistant
<1> HIDE DEF p, text, calls
<1>6. think \in Seq(PartTypes) /\ (m.calls # <<>> /\ m.think # 0 => Len(think) = 1 /\ think[1] = p)
  BY <1>2
<1>7. \A j \in DOMAIN think : think[j].kind = "think"
  BY <1>2
<1> HIDE DEF think
<1>8. some \in Seq(PartTypes) /\ Joins(some, think, text)
  BY <1>3, <1>6, Joined
<1> HIDE DEF some
<1>9. \A j \in DOMAIN some : some[j].kind \in {"text", "think"}
  BY <1>3, <1>7, <1>8 DEF Joins
<1>10. Speaks(parts, m) /\ Joins(parts, some, calls)
  BY <1>4, <1>8, <1>9, Speaking
<1> HIDE DEF parts
<1>11. o \in Outs /\ o.parts = parts
  BY <1>10, OutFacts DEF Speaks
<1> HIDE DEF o
<1>12. ASSUME NEW j \in DOMAIN parts, parts[j].kind = "call", m.think # 0 PROVE parts[1].kind = "think"
  <2>1. PICK i \in DOMAIN m.calls : TRUE
    BY <1>10, <1>12 DEF Speaks, IsCallOf
  <2>2. m.calls # <<>>
    <3>1. DOMAIN <<>> = {}
      OBVIOUS
    <3> QED
      BY <2>1, <3>1
  <2>3. 1 \in DOMAIN think /\ think[1].kind = "think"
    BY <1>2, <1>6, <1>12, <2>2
  <2>4. 1 \in DOMAIN some /\ some[1] = think[1]
    BY <1>8, <2>3 DEF Joins
  <2>5. parts[1] = some[1]
    BY <1>10, <2>4 DEF Joins
  <2> QED
    BY <2>3, <2>4, <2>5
<1> QED
  BY <1>5, <1>10, <1>11, <1>12

LEMMA ClaudeSteps ==
  ASSUME NEW h \in Seq(Messages), NEW n \in Nat, n + 1 \in 1 .. Len(h), NEW st, NEW src, Claude(st, h, n, src),
         adapter = "claude"
  PROVE  \E new : Claude(ClaudeStep(st, h[n + 1]), h, n + 1, new)
<1> DEFINE x == h[n + 1]
<1>1. x \in Messages /\ x.role \in {"system", "user", "assistant", "tool"}
  <2>1. x \in Messages
    OBVIOUS
  <2> QED
    BY <2>1 DEF Messages
<1>2. CASE x.role = "system"
  BY <1>2, ClaudeHears
<1>3. CASE x.role = "tool"
  BY <1>1, <1>3, ClaudeCollects
<1>4. CASE x.role = "assistant"
  <2> DEFINE o == ClaudeAssistant(x)
  <2>1. ClaudeStep(st, x) = [out |-> Append(Flushed(st), o), pending |-> <<>>]
    BY <1>4 DEF ClaudeStep
  <2>2. /\ o \in Outs /\ Speaks(o.parts, x)
        /\ \A j \in DOMAIN o.parts : o.parts[j].kind = "call" /\ x.think # 0 => o.parts[1].kind = "think"
    BY <1>1, AssistantFacts
  <2> HIDE DEF o
  <2> QED
    BY <1>4, <2>1, <2>2, ClaudeSpeaks
<1>5. CASE x.role = "user"
  <2> DEFINE text == TextOf(x)
             o == Out("user", text)
  <2>1. ClaudeStep(st, x) = [out |-> Append(Flushed(st), o), pending |-> <<>>]
    BY <1>5 DEF ClaudeStep
  <2>2. text \in Seq(PartTypes) /\ Speaks(text, x) /\ \A j \in DOMAIN text : text[j].kind = "text"
    BY <1>1, TextOfFacts, Spoken
  <2> HIDE DEF text
  <2>3. o \in Outs /\ o.parts = text
    BY <2>2, OutFacts
  <2> HIDE DEF o
  <2>4. \A j \in DOMAIN o.parts : o.parts[j].kind # "call"
    BY <2>2, <2>3
  <2> QED
    BY <1>5, <2>1, <2>2, <2>3, <2>4, ClaudeSpeaks
<1> QED
  BY <1>1, <1>2, <1>3, <1>4, <1>5

LEMMA ClaudeTraces ==
  ASSUME NEW h \in Seq(Messages),
         adapter = "claude"
  PROVE  \E src : /\ Traces(ClaudeBuild(h), h, src)
                  /\ Adjacent(ClaudeBuild(h), h, src) /\ ThinkingLeads(ClaudeBuild(h), h, src)
<1>1. PICK f : ClaudeBuild(h) = Flushed(f[Len(h)]) /\ Builds(f, h)
  BY ClaudeUnfolds
<1> DEFINE Built(n) == \E src : Claude(f[n], h, n, src)
           N == {n \in Nat : n <= Len(h) => Built(n)}
<1>2. 0 \in N
  BY <1>1, ClaudeBegins DEF Builds
<1>3. ASSUME NEW n \in Nat, n <= Len(h) => Built(n), n + 1 <= Len(h)
      PROVE  Built(n + 1)
  <2>1. Len(h) \in Nat /\ n <= Len(h) /\ n + 1 \in 1 .. Len(h) /\ (n + 1) - 1 = n
    <3>1. Len(h) \in Nat
      OBVIOUS
    <3> QED
      BY <1>3, <3>1
  <2>2. PICK src : Claude(f[n], h, n, src)
    BY <1>3, <2>1
  <2>3. f[n + 1] = ClaudeStep(f[n], h[n + 1])
    BY <1>1, <2>1 DEF Builds
  <2> DEFINE st == f[n]
  <2>4. Claude(st, h, n, src)
    BY <2>2
  <2> HIDE DEF st
  <2>5. \E new : Claude(ClaudeStep(st, h[n + 1]), h, n + 1, new)
    BY <2>1, <2>4, ClaudeSteps
  <2> QED
    BY <2>3, <2>5 DEF st
<1>4. Nat \subseteq N
  <2> HIDE DEF Built
  <2>1. \A n \in Nat : n \in N => n + 1 \in N
    BY <1>3
  <2> HIDE DEF N
  <2> QED
    BY <1>2, <2>1, NatInduct
<1>5. Len(h) \in Nat
  OBVIOUS
<1>6. PICK src : Claude(f[Len(h)], h, Len(h), src)
  BY <1>4, <1>5
<1> DEFINE s == ClaudeBuild(h)
<1>7. TracesTo(s, h, Len(h), src) /\ NextTo(s, h, src) /\ Leads(s, h, src)
  BY <1>1, <1>6 DEF Claude
<1> HIDE DEF s
<1>8. Traces(s, h, src)
  BY <1>7, TracesAll
<1>9. Adjacent(s, h, src)
  BY <1>7 DEF NextTo, Adjacent, Quiet, PartAt
<1>10. ThinkingLeads(s, h, src)
  BY <1>7 DEF Leads, ThinkingLeads, PartAt
<1> QED
  BY <1>8, <1>9, <1>10 DEF s

-----------------------------------------------------------------------------
(* All of them *)

LEMMA NothingSent ==
  ASSUME sent = <<>>
  PROVE  ResultsReachTheirCalls
<1>1. sent \in Seq(Outs) /\ DOMAIN sent = {}
  OBVIOUS
<1>2. PICK line, col : Located(line, col)
  BY <1>1, PartsListed
<1>3. DOMAIN Parts = {}
  BY <1>1, <1>2 DEF Located
<1> QED
  BY <1>3 DEF ResultsReachTheirCalls

LEMMA RequestFinds ==
  ASSUME Conversed
  PROVE  ResultsReachTheirCalls
<1>1. Conversation(history, 0 .. turn - 1) /\ history \in Seq(Messages)
  BY DEF Conversed, Conversation
<1>2. CASE sent = <<>>
  BY <1>2, NothingSent
<1>3. CASE sent = Build(adapter, history)
  <2>1. \E src : /\ Traces(sent, history, src)
                 /\ adapter = "claude" => Adjacent(sent, history, src) /\ ThinkingLeads(sent, history, src)
    <3>1. CASE adapter = "claude"
      BY <1>1, <1>3, <3>1, ClaudeTraces DEF Build
    <3>2. CASE adapter = "responses"
      BY <1>1, <1>3, <3>2, ResponsesTraces DEF Build
    <3>3. CASE adapter = "gemini"
      BY <1>1, <1>3, <3>3, GeminiTraces DEF Build
    <3>4. CASE adapter = "ollama"
      BY <1>1, <1>3, <3>4, OllamaTraces DEF Build
    <3>5. CASE adapter \notin {"claude", "responses", "gemini", "ollama"}
      BY <1>1, <1>3, <3>5, OpenAITraces DEF Build
    <3> QED
      BY <3>1, <3>2, <3>3, <3>4, <3>5
  <2> QED
    BY <1>1, <2>1, Delivered
<1> QED
  BY <1>2, <1>3 DEF Conversed

LEMMA ConversedAlways == StreamSpec => []Conversed
BY AnsweringInit, AnsweringStep, ConversedInit, ConversedStep, PTL DEF StreamSpec

(* Whatever turns failed, were repeated or went to another adapter, what a *)
(* client sends is a conversation: the ids of an answer's calls differ,    *)
(* each call has exactly one result, and only results of the same turn and *)
(* system messages stand between the two.                                  *)
THEOREM HistoriesAreConversations == StreamSpec => []Conversation(history, 0 .. turn - 1)
<1>1. Conversed => Conversation(history, 0 .. turn - 1)
  BY DEF Conversed
<1> QED
  BY <1>1, ConversedAlways, PTL

(* In every request each call is followed by its one result, under the     *)
(* call's id, with nothing of another turn in between; for Anthropic in    *)
(* the very next message, thinking first; in Gemini's form with the name   *)
(* of the call's function, in Ollama's if the client gave it.  Of any      *)
(* length of conversation, in any of the adapters' forms.                  *)
THEOREM ResultsFollowTheirCalls == StreamSpec => []ResultsReachTheirCalls
BY ConversedAlways, RequestFinds, PTL

=============================================================================
