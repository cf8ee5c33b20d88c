--------------------------- MODULE AccountsProofs ---------------------------
(***************************************************************************)
(* Who may call, for any number of members, accounts, agents, clients and  *)
(* instances.  MemberAccounts: a target that was below its actor when it   *)
(* was read is not a super admin when it is written, because nothing turns *)
(* a stored row into a super admin's.  Access: the registry sends no agent *)
(* away for an id that it still stores, and instances that did not start   *)
(* together sign with one key.                                             *)
(***************************************************************************)
EXTENDS MemberAccounts, Access, FiniteSetTheorems, TLAPS

-----------------------------------------------------------------------------
(* MemberAccounts *)

CreatePCs == {"create_find", "create_save"}
TargetPCs == {"role_target", "active_target", "delete_target"}
WritePCs == {"role_write", "active_write", "delete_write"}

\* What the handler p has established by the time it is where it is.
Authorised(p) ==
    LET q == req[p]
    IN  /\ q.pc \in CreatePCs \cup TargetPCs \cup WritePCs =>
              /\ q.actor \in MemberIds
              /\ q.level # User
              /\ q.level = SuperAdmin => row[q.actor].level = SuperAdmin
        /\ q.pc \in CreatePCs \cup {"role_write"} => q.to < q.level
        /\ q.pc \in CreatePCs => q.name \in Usernames
        /\ q.pc \in TargetPCs \cup WritePCs => q.target \in MemberIds \ fresh
        /\ q.pc \in WritePCs =>
              /\ q.copy \in Row
              /\ q.copy.level < q.level
              /\ row[q.target].level # SuperAdmin
              /\ row[q.target] # NoMember => row[q.target].name = q.copy.name

FreshUnused == \A m \in fresh : row[m] = NoMember

SuperAdminsSeeded == \A m \in SuperAdmins : row[m].name = SeedName

\* The table on its own.
RowsOK ==
    /\ fresh \subseteq MemberIds
    /\ row \in [MemberIds -> Row \cup {NoMember}]
    /\ FreshUnused
    /\ SuperAdminsSeeded
    /\ UsernamesUnique

\* The inductive invariant: a write is safe because of what its handler read.
IInv ==
    /\ RowsOK
    /\ req \in [Procs -> Handling]
    /\ \A p \in Procs : Authorised(p)

\* What a step may do to the table: super admins keep their rows, and a row that
\* was not just inserted keeps its name, does not come back and is not promoted
\* to super admin.
Evolves ==
    /\ fresh' \subseteq fresh
    /\ \A m \in MemberIds :
        /\ row[m].level = SuperAdmin => row'[m] = row[m]
        /\ m \notin fresh =>
              /\ row'[m].level = SuperAdmin => row[m].level = SuperAdmin
              /\ row'[m] # NoMember => row[m] # NoMember /\ row'[m].name = row[m].name

LEMMA NoMemberFacts == NoMember \notin Row /\ NoMember.level = User /\ User # SuperAdmin
  BY MemberAssumption DEF NoMember, Row, User, SuperAdmin

-----------------------------------------------------------------------------
(* The table under each statement *)

LEMMA SameRows ==
  ASSUME RowsOK, UNCHANGED <<fresh, row>>
  PROVE  RowsOK' /\ Evolves
  BY DEF RowsOK, Evolves, FreshUnused, SuperAdminsSeeded, SuperAdmins, UsernamesUnique, Registered

LEMMA InsertRows ==
  ASSUME RowsOK, NEW n \in Usernames, NEW l \in Levels,
         l = SuperAdmin => n = SeedName,
         Insert(n, l)
  PROVE  RowsOK' /\ Evolves
<1>1. PICK m \in fresh :
        /\ ~ NameTaken(n)
        /\ fresh' = fresh \ {m}
        /\ row' = [row EXCEPT ![m] = [name |-> n, level |-> l, active |-> TRUE]]
  BY DEF Insert
<1> DEFINE r == [name |-> n, level |-> l, active |-> TRUE]
<1>2. r \in Row /\ r.name = n /\ r.level = l
  BY DEF Row
<1>3. row'[m] = r /\ \A k \in MemberIds \ {m} : row'[k] = row[k]
  BY <1>1 DEF RowsOK
<1>4. row[m] = NoMember
  BY DEF RowsOK, FreshUnused
<1>5. FreshUnused' /\ fresh' \subseteq MemberIds /\ row' \in [MemberIds -> Row \cup {NoMember}]
  BY <1>1, <1>2, <1>3 DEF RowsOK, FreshUnused
<1>6. SuperAdminsSeeded'
  BY <1>2, <1>3 DEF RowsOK, SuperAdminsSeeded, SuperAdmins
<1>7. UsernamesUnique'
  BY <1>1, <1>2, <1>3 DEF RowsOK, UsernamesUnique, NameTaken, Registered
<1>8. Evolves
  BY <1>1, <1>3, <1>4, NoMemberFacts DEF RowsOK, Evolves
<1> QED
  BY <1>5, <1>6, <1>7, <1>8 DEF RowsOK

LEMMA UpdateRows ==
  ASSUME RowsOK, NEW m \in MemberIds \ fresh, NEW r \in Row,
         r.level # SuperAdmin, row[m].level # SuperAdmin,
         row[m] # NoMember => row[m].name = r.name,
         UpdateRow(m, r), UNCHANGED fresh
  PROVE  RowsOK' /\ Evolves
<1>1. CASE row[m] = NoMember
  BY <1>1, SameRows DEF UpdateRow, Registered
<1>2. CASE row[m] # NoMember
  <2>1. row'[m] = r /\ \A k \in MemberIds \ {m} : row'[k] = row[k]
    BY <1>2 DEF UpdateRow, Registered, RowsOK
  <2>2. row' \in [MemberIds -> Row \cup {NoMember}]
    BY <1>2 DEF UpdateRow, Registered, RowsOK
  <2>3. FreshUnused' /\ SuperAdminsSeeded'
    BY <2>1 DEF RowsOK, FreshUnused, SuperAdminsSeeded, SuperAdmins
  <2>4. UsernamesUnique'
    BY <1>2, <2>1 DEF RowsOK, UsernamesUnique, Registered
  <2>5. Evolves
    BY <1>2, <2>1 DEF RowsOK, Evolves
  <2> QED
    BY <2>2, <2>3, <2>4, <2>5 DEF RowsOK
<1> QED
  BY <1>1, <1>2

LEMMA DeleteRows ==
  ASSUME RowsOK, NEW m \in MemberIds \ fresh, row[m].level # SuperAdmin,
         row' = [row EXCEPT ![m] = NoMember], UNCHANGED fresh
  PROVE  RowsOK' /\ Evolves
<1>1. row'[m] = NoMember /\ \A k \in MemberIds \ {m} : row'[k] = row[k]
  BY DEF RowsOK
<1>2. row' \in [MemberIds -> Row \cup {NoMember}]
  BY DEF RowsOK
<1>3. FreshUnused' /\ SuperAdminsSeeded' /\ UsernamesUnique'
  BY <1>1, NoMemberFacts
  DEF RowsOK, FreshUnused, SuperAdminsSeeded, SuperAdmins, UsernamesUnique, Registered
<1>4. Evolves
  BY <1>1, NoMemberFacts DEF RowsOK, Evolves
<1> QED
  BY <1>2, <1>3, <1>4 DEF RowsOK

-----------------------------------------------------------------------------
(* The requests *)

LEMMA IdleRequest == Idle \in Handling /\ Idle.pc = "idle"
  BY DEF Idle, Handling, PCs, Levels, User

\* A request keeps what it has established while others take steps.
LEMMA AuthorisedStable ==
  ASSUME IInv, Evolves, NEW q \in Procs, req'[q] = req[q]
  PROVE  Authorised(q)'
  BY DEF IInv, RowsOK, Evolves, Authorised

LEMMA RequestStep ==
  ASSUME IInv, RowsOK', Evolves, NEW p \in Procs, NEW q \in Handling,
         req' = [req EXCEPT ![p] = q], Authorised(p)'
  PROVE  IInv'
<1>1. req' \in [Procs -> Handling]
  BY DEF IInv
<1>2. \A k \in Procs \ {p} : req'[k] = req[k]
  BY DEF IInv
<1>3. \A k \in Procs \ {p} : Authorised(k)'
  BY <1>2, AuthorisedStable
<1> QED
  BY <1>1, <1>3 DEF IInv

LEMMA ReturnStep ==
  ASSUME IInv, RowsOK', Evolves, NEW p \in Procs, Return(p)
  PROVE  IInv'
<1>1. req'[p] = Idle
  BY DEF IInv, Return
<1>2. Authorised(p)'
  BY <1>1, IdleRequest DEF Authorised, CreatePCs, TargetPCs, WritePCs
<1> QED
  BY <1>2, IdleRequest, RequestStep DEF Return

LEMMA RefuseStep ==
  ASSUME IInv, NEW p \in Procs, Refuse(p)
  PROVE  IInv'
  BY SameRows, ReturnStep DEF Refuse, IInv

LEMMA InitEstablishes == MemberInit => IInv
  BY IdleRequest, NoMemberFacts
  DEF MemberInit, IInv, RowsOK, FreshUnused, SuperAdminsSeeded, SuperAdmins, UsernamesUnique, Registered,
      Authorised, CreatePCs, TargetPCs, WritePCs

\* Steps that only read: the table is as it was.
LEMMA ReadStep ==
  ASSUME IInv, UNCHANGED <<fresh, row>>, NEW p \in Procs, NEW q \in Handling,
         req' = [req EXCEPT ![p] = q], Authorised(p)'
  PROVE  IInv'
  BY SameRows, RequestStep DEF IInv

LEMMA CreateCheckStep ==
  ASSUME IInv, NEW p \in Procs, NEW a \in MemberIds, NEW n \in Usernames, NEW l \in Levels,
         CreateCheck(p, a, n, l)
  PROVE  IInv'
<1> DEFINE q == [Idle EXCEPT !.pc = "create_find", !.actor = a,
                             !.level = row[a].level, !.name = n, !.to = l]
<1>1. row[a].level \in Levels /\ row[a].level # User
  BY DEF CreateCheck, ActsAsAdmin, Registered, IInv, RowsOK, Row, Levels, User, Admin, SuperAdmin
<1>2. q \in Handling
  BY <1>1 DEF Idle, Handling, PCs
<1>3. req'[p] = q /\ UNCHANGED <<fresh, row>>
  BY DEF CreateCheck, IInv
<1>4. l < row[a].level
  BY <1>1 DEF CreateCheck, CanControl, Levels, User, Admin, SuperAdmin
<1>5. q.pc = "create_find" /\ q.actor = a /\ q.level = row[a].level /\ q.to = l /\ q.name = n
  BY DEF Idle
<1>6. Authorised(p)'
  BY <1>1, <1>3, <1>4, <1>5 DEF Authorised, CreatePCs, TargetPCs, WritePCs
<1> QED
  BY <1>2, <1>3, <1>6, ReadStep DEF CreateCheck

LEMMA ControlActorStep ==
  ASSUME IInv, NEW p \in Procs, NEW pc \in TargetPCs, NEW a \in MemberIds, NEW m \in MemberIds,
         NEW l \in Levels, NEW on \in BOOLEAN, ControlActor(p, pc, a, m, l, on)
  PROVE  IInv'
<1> DEFINE q == [Idle EXCEPT !.pc = pc, !.actor = a, !.level = row[a].level,
                             !.target = m, !.to = l, !.on = on]
<1>1. row[a].level \in Levels /\ row[a].level # User
  BY DEF ControlActor, ActsAsAdmin, Registered, IInv, RowsOK, Row, Levels, User, Admin, SuperAdmin
<1>2. q \in Handling
  BY <1>1 DEF Idle, Handling, PCs, TargetPCs
<1>3. req'[p] = q /\ UNCHANGED <<fresh, row>> /\ m \notin fresh
  BY DEF ControlActor, IInv
<1>4. Authorised(p)'
  BY <1>1, <1>3 DEF Authorised, CreatePCs, TargetPCs, WritePCs, Idle
<1> QED
  BY <1>2, <1>3, <1>4, ReadStep DEF ControlActor

\* The target was below the actor's level, so it is not a super admin.
LEMMA ControlTargetStep ==
  ASSUME IInv, NEW p \in Procs, NEW pc \in TargetPCs, NEW next \in WritePCs,
         ControlTarget(p, pc, next),
         next = "role_write" => CanControl(req[p].level, req[p].to)
  PROVE  IInv'
<1> DEFINE r == row[req[p].target]
<1>1. CASE r # NoMember /\ CanControl(req[p].level, r.level)
  <2> DEFINE q == [req[p] EXCEPT !.pc = next, !.copy = r]
  <2>1. req[p] \in Handling /\ req[p].pc \in TargetPCs /\ Authorised(p)
    BY DEF IInv, ControlTarget, Doing
  <2>2. req[p].target \in MemberIds \ fresh /\ r \in Row
    BY <1>1, <2>1 DEF Authorised, IInv, RowsOK
  <2>3. q \in Handling
    BY <2>1, <2>2 DEF Handling, PCs, WritePCs
  <2>4. req' = [req EXCEPT ![p] = q] /\ UNCHANGED <<fresh, row>>
    BY <1>1 DEF ControlTarget, IInv
  <2>5. req'[p] = q
    BY <2>4 DEF IInv
  <2>6. r.level < req[p].level /\ r.level # SuperAdmin
    BY <1>1, <2>1, <2>2 DEF CanControl, Row, Handling, Levels, User, Admin, SuperAdmin
  <2>7. next = "role_write" => req[p].to < req[p].level
    BY <2>1 DEF CanControl, Handling, Levels, User, Admin, SuperAdmin
  <2>8. /\ q.pc = next /\ q.copy = r /\ q.target = req[p].target /\ q.actor = req[p].actor
        /\ q.level = req[p].level /\ q.to = req[p].to
    BY <2>1 DEF Handling
  <2>9. Authorised(p)'
    BY <2>1, <2>2, <2>4, <2>5, <2>6, <2>7, <2>8 DEF Authorised, CreatePCs, TargetPCs, WritePCs
  <2> QED
    BY <2>3, <2>4, <2>9, ReadStep
<1>2. CASE ~ (r # NoMember /\ CanControl(req[p].level, r.level))
  BY <1>2, RefuseStep DEF ControlTarget, Refuse
<1> QED
  BY <1>1, <1>2

LEMMA CreateFindStep ==
  ASSUME IInv, NEW p \in Procs, CreateFind(p)
  PROVE  IInv'
<1>1. CASE NameTaken(req[p].name) /\ Return(p)
  BY <1>1, RefuseStep DEF CreateFind, Refuse
<1>2. CASE req' = [req EXCEPT ![p].pc = "create_save"]
  <2> DEFINE q == [req[p] EXCEPT !.pc = "create_save"]
  <2>1. req[p] \in Handling /\ req[p].pc = "create_find" /\ Authorised(p)
    BY DEF IInv, CreateFind, Doing
  <2>2. q \in Handling
    BY <2>1 DEF Handling, PCs
  <2>3. req' = [req EXCEPT ![p] = q] /\ UNCHANGED <<fresh, row>>
    BY <1>2 DEF CreateFind, IInv
  <2>4. req'[p] = q
    BY <2>3 DEF IInv
  <2>5. /\ q.pc = "create_save" /\ q.actor = req[p].actor
        /\ q.level = req[p].level /\ q.to = req[p].to /\ q.name = req[p].name
    BY <2>1 DEF Handling
  <2>6. Authorised(p)'
    BY <2>1, <2>3, <2>4, <2>5 DEF Authorised, CreatePCs, TargetPCs, WritePCs
  <2> QED
    BY <2>2, <2>3, <2>6, ReadStep
<1> QED
  BY <1>1, <1>2 DEF CreateFind

-----------------------------------------------------------------------------
(* The writes: the rows each of them may produce, then the handler returns. *)

LEMMA WriteFacts ==
  ASSUME IInv, NEW p \in Procs, req[p].pc \in WritePCs
  PROVE  /\ req[p] \in Handling
         /\ req[p].target \in MemberIds \ fresh
         /\ req[p].copy \in Row
         /\ req[p].copy.level # SuperAdmin
         /\ row[req[p].target].level # SuperAdmin
         /\ row[req[p].target] # NoMember => row[req[p].target].name = req[p].copy.name
  BY DEF IInv, Authorised, Handling, Row, Levels, User, Admin, SuperAdmin

\* A level given away is below the giver's.
LEMMA GivenLevel ==
  ASSUME IInv, NEW p \in Procs, req[p].pc \in {"create_save", "role_write"}
  PROVE  req[p].to \in Levels /\ req[p].to # SuperAdmin
  BY DEF IInv, Authorised, CreatePCs, Handling, Levels, User, Admin, SuperAdmin

LEMMA RoleWriteRows ==
  ASSUME IInv, NEW p \in Procs, RoleWrite(p)
  PROVE  RowsOK' /\ Evolves
<1> DEFINE r == [req[p].copy EXCEPT !.level = req[p].to]
<1>1. req[p].pc = "role_write"
  BY DEF RoleWrite, Doing
<1>2. r \in Row /\ r.level # SuperAdmin /\ r.name = req[p].copy.name
  BY <1>1, WriteFacts, GivenLevel DEF Row, WritePCs
<1>3. UpdateRow(req[p].target, r) /\ UNCHANGED fresh
  BY DEF RoleWrite
<1> HIDE DEF r
<1> QED
  BY <1>1, <1>2, <1>3, WriteFacts, UpdateRows DEF IInv, WritePCs

LEMMA ActiveWriteRows ==
  ASSUME IInv, NEW p \in Procs, ActiveWrite(p)
  PROVE  RowsOK' /\ Evolves
<1> DEFINE r == [req[p].copy EXCEPT !.active = req[p].on]
<1>1. req[p].pc = "active_write"
  BY DEF ActiveWrite, Doing
<1>2. r \in Row /\ r.level # SuperAdmin /\ r.name = req[p].copy.name
  BY <1>1, WriteFacts DEF Row, WritePCs, Handling
<1>3. UpdateRow(req[p].target, r) /\ UNCHANGED fresh
  BY DEF ActiveWrite
<1> HIDE DEF r
<1> QED
  BY <1>1, <1>2, <1>3, WriteFacts, UpdateRows DEF IInv, WritePCs

LEMMA DeleteWriteRows ==
  ASSUME IInv, NEW p \in Procs, DeleteWrite(p)
  PROVE  RowsOK' /\ Evolves
  BY WriteFacts, DeleteRows DEF DeleteWrite, Doing, IInv, WritePCs

LEMMA CreateSaveRows ==
  ASSUME IInv, NEW p \in Procs, CreateSave(p)
  PROVE  RowsOK' /\ Evolves
<1>1. req[p].pc = "create_save" /\ req[p].name \in Usernames
  BY DEF CreateSave, Doing, IInv, Authorised, CreatePCs
<1>2. req[p].to \in Levels /\ req[p].to # SuperAdmin
  BY <1>1, GivenLevel
<1> QED
  BY <1>1, <1>2, InsertRows DEF CreateSave, IInv

LEMMA BootSaveRows ==
  ASSUME IInv, NEW p \in Procs, BootSave(p)
  PROVE  RowsOK' /\ Evolves
  BY InsertRows, MemberAssumption DEF BootSave, IInv, Levels

\* Every step keeps the invariant and evolves the table.
LEMMA StepKeeps ==
  ASSUME IInv, MemberNext
  PROVE  IInv' /\ Evolves
<1> PICK p \in Procs :
        \/ \E a \in MemberIds, n \in Usernames, l \in Levels : CreateCheck(p, a, n, l)
        \/ \E a, m \in MemberIds, l \in Levels : ChangeRole(p, a, m, l)
        \/ \E a, m \in MemberIds, on \in BOOLEAN : SetActive(p, a, m, on)
        \/ \E a, m \in MemberIds : DeleteMember(p, a, m)
        \/ CreateFind(p) \/ CreateSave(p)
        \/ RoleTarget(p) \/ RoleWrite(p)
        \/ ActiveTarget(p) \/ ActiveWrite(p)
        \/ DeleteTarget(p) \/ DeleteWrite(p)
        \/ BootList(p) \/ BootSave(p)
        \/ Fail(p)
  BY DEF MemberNext
<1>1. CASE UNCHANGED <<fresh, row>> /\ IInv'
  BY <1>1, SameRows DEF IInv
<1>2. ASSUME NEW a \in MemberIds, NEW n \in Usernames, NEW l \in Levels, CreateCheck(p, a, n, l)
      PROVE  IInv' /\ Evolves
  BY <1>2, <1>1, CreateCheckStep DEF CreateCheck
<1>3. ASSUME NEW pc \in TargetPCs, NEW a \in MemberIds, NEW m \in MemberIds, NEW l \in Levels,
             NEW on \in BOOLEAN, ControlActor(p, pc, a, m, l, on)
      PROVE  IInv' /\ Evolves
  BY <1>3, <1>1, ControlActorStep DEF ControlActor
<1>4. ASSUME NEW pc \in TargetPCs, NEW next \in WritePCs, ControlTarget(p, pc, next),
             next = "role_write" => CanControl(req[p].level, req[p].to)
      PROVE  IInv' /\ Evolves
  BY <1>4, <1>1, ControlTargetStep DEF ControlTarget
<1>5. ASSUME Refuse(p) PROVE IInv' /\ Evolves
  BY <1>5, <1>1, RefuseStep DEF Refuse
<1>6. ASSUME Return(p), RowsOK', Evolves PROVE IInv' /\ Evolves
  BY <1>6, ReturnStep
<1>7. CASE \/ \E a, m \in MemberIds, l \in Levels : ChangeRole(p, a, m, l)
           \/ \E a, m \in MemberIds, on \in BOOLEAN : SetActive(p, a, m, on)
           \/ \E a, m \in MemberIds : DeleteMember(p, a, m)
  BY <1>7, <1>3 DEF ChangeRole, SetActive, DeleteMember, TargetPCs, Levels
<1>8. CASE RoleTarget(p) \/ ActiveTarget(p) \/ DeleteTarget(p)
  BY <1>8, <1>4, <1>5 DEF RoleTarget, ActiveTarget, DeleteTarget, TargetPCs, WritePCs
<1>9. CASE CreateFind(p)
  BY <1>9, <1>1, CreateFindStep DEF CreateFind
<1>10. CASE RoleWrite(p) \/ ActiveWrite(p) \/ DeleteWrite(p) \/ CreateSave(p) \/ BootSave(p)
  BY <1>10, <1>6, RoleWriteRows, ActiveWriteRows, DeleteWriteRows, CreateSaveRows, BootSaveRows
  DEF RoleWrite, ActiveWrite, DeleteWrite, CreateSave, BootSave
<1>11. CASE BootList(p)
  <2> DEFINE q == [Idle EXCEPT !.pc = "boot_save"]
  <2>1. q \in Handling /\ q.pc = "boot_save"
    BY IdleRequest DEF Handling, PCs
  <2>2. req'[p] = q /\ UNCHANGED <<fresh, row>> /\ req' = [req EXCEPT ![p] = q]
    BY <1>11 DEF BootList, IInv
  <2>3. Authorised(p)'
    BY <2>1, <2>2 DEF Authorised, CreatePCs, TargetPCs, WritePCs
  <2> QED
    BY <2>1, <2>2, <2>3, <1>1, ReadStep
<1>12. CASE Fail(p)
  BY <1>12, <1>5 DEF Fail
<1> QED
  BY <1>2, <1>7, <1>8, <1>9, <1>10, <1>11, <1>12

LEMMA StutterKeeps ==
  ASSUME IInv, UNCHANGED memberVars
  PROVE  IInv'
  BY DEF memberVars, IInv, RowsOK, FreshUnused, SuperAdminsSeeded, SuperAdmins, UsernamesUnique, Registered,
         Authorised

-----------------------------------------------------------------------------

\* The inductive invariant holds in every reachable state.
THEOREM Invariance == MemberSpec => []IInv
<1>1. IInv /\ [MemberNext]_memberVars => IInv'
  BY StepKeeps, StutterKeeps
<1> QED
  BY <1>1, InitEstablishes, PTL DEF MemberSpec

\* The rows and the locals keep the shapes the Go types give them.
THEOREM MemberTypesHold == MemberSpec => []MemberTypeOK
<1>1. IInv => MemberTypeOK
  BY DEF IInv, RowsOK, MemberTypeOK
<1> QED
  BY <1>1, Invariance, PTL

\* Two accounts never share a username (usecase.go:146 and the UNIQUE column).
THEOREM UniqueNames == MemberSpec => []UsernamesUnique
<1>1. IInv => UsernamesUnique
  BY DEF IInv, RowsOK
<1> QED
  BY <1>1, Invariance, PTL

\* However many instances start at once, there is one super admin at most.
THEOREM OneSuperAdmin == MemberSpec => []AtMostOneSuperAdmin
<1>1. IInv => AtMostOneSuperAdmin
  BY NoMemberFacts
  DEF IInv, RowsOK, AtMostOneSuperAdmin, SuperAdminsSeeded, UsernamesUnique, SuperAdmins, Registered
<1> QED
  BY <1>1, Invariance, PTL

\* No interleaving of management requests changes, disables or deletes the super
\* admin: CanControl is strict, and a row read below super admin never becomes one.
THEOREM SuperAdminsSafe == MemberSpec => SuperAdminsUntouched
<1>1. IInv /\ [MemberNext]_memberVars => [\A m \in SuperAdmins : row'[m] = row[m]]_row
  <2>1. IInv /\ MemberNext => \A m \in SuperAdmins : row'[m] = row[m]
    BY StepKeeps DEF Evolves, SuperAdmins
  <2> QED
    BY <2>1 DEF memberVars
<1> QED
  BY <1>1, Invariance, PTL DEF MemberSpec, SuperAdminsUntouched

\* A deleted account stays deleted: UPDATE finds no row, and ids are not reused.
THEOREM DeletedForGood == MemberSpec => DeletedStayDeleted
<1>1. IInv /\ [MemberNext]_memberVars =>
        [\A m \in MemberIds \ fresh : ~ Registered(m) => row'[m] = NoMember]_memberVars
  BY StepKeeps DEF Evolves, Registered
<1> QED
  BY <1>1, Invariance, PTL DEF MemberSpec, DeletedStayDeleted

\* Whoever gives the admin level away was read as a super admin, and still is one.
LEMMA GiverIsSuper ==
  ASSUME IInv, NEW p \in Procs,
         \/ req[p].pc \in {"create_save", "role_write"} /\ req[p].to = Admin
         \/ req[p].pc = "active_write" /\ req[p].copy.level = Admin
  PROVE  req[p].actor \in SuperAdmins
<1>1. req[p].pc \in CreatePCs \cup WritePCs /\ Authorised(p) /\ req[p].level \in Levels
  BY DEF CreatePCs, WritePCs, IInv, Handling
<1>2. Admin < req[p].level
  BY <1>1 DEF Authorised, CreatePCs, WritePCs
<1>3. req[p].level = SuperAdmin
  BY <1>1, <1>2 DEF Levels, User, Admin, SuperAdmin
<1> QED
  BY <1>1, <1>3 DEF Authorised, SuperAdmins

\* A step that changes rows ends the request of the goroutine that takes it.
LEMMA WritersReturn ==
  ASSUME IInv, NEW p \in Procs, ~ Doing(p, "idle"), Return(p)
  PROVE  req'[p] # req[p]
  BY IdleRequest DEF IInv, Doing, Return

\* The statements that write a level, and whose level it is.
LEMMA RaisedBy ==
  ASSUME IInv, MemberNext, NEW m \in MemberIds, row'[m].level = Admin, row[m].level # Admin
  PROVE  \E p \in Procs :
            /\ \/ req[p].pc \in {"create_save", "role_write"} /\ req[p].to = Admin
               \/ req[p].pc = "active_write" /\ req[p].copy.level = Admin
            /\ req'[p] # req[p]
<1>1. UNCHANGED row => FALSE
  OBVIOUS
<1>2. PICK p \in Procs :
        CreateSave(p) \/ RoleWrite(p) \/ ActiveWrite(p) \/ DeleteWrite(p) \/ BootSave(p)
  BY <1>1 DEF MemberNext, CreateCheck, ChangeRole, SetActive, DeleteMember, ControlActor, CreateFind,
              RoleTarget, ActiveTarget, DeleteTarget, ControlTarget, BootList, Fail, Refuse
<1>3. ~ Doing(p, "idle") /\ Return(p)
  BY <1>2 DEF CreateSave, RoleWrite, ActiveWrite, DeleteWrite, BootSave, Doing
<1>4. CASE CreateSave(p)
  <2>1. req[p].pc = "create_save" /\ Insert(req[p].name, req[p].to)
    BY <1>4 DEF CreateSave, Doing
  <2>2. row'[m].level = req[p].to
    BY <2>1 DEF Insert, IInv, RowsOK
  <2> QED
    BY <2>1, <2>2, <1>3, WritersReturn
<1>5. CASE BootSave(p)
  <2>1. row'[m].level = SuperAdmin
    BY <1>5 DEF BootSave, Insert, IInv, RowsOK
  <2> QED
    BY <2>1 DEF Admin, SuperAdmin
<1>6. CASE RoleWrite(p)
  <2>1. req[p].pc = "role_write" /\ req[p].copy \in Row
    BY <1>6, WriteFacts DEF RoleWrite, Doing, WritePCs
  <2>2. row'[m].level = req[p].to
    BY <1>6, <2>1, WriteFacts DEF RoleWrite, UpdateRow, Row, IInv, RowsOK, WritePCs
  <2> QED
    BY <2>1, <2>2, <1>3, WritersReturn
<1>7. CASE ActiveWrite(p)
  <2>1. req[p].pc = "active_write" /\ req[p].copy \in Row
    BY <1>7, WriteFacts DEF ActiveWrite, Doing, WritePCs
  <2>2. row'[m].level = req[p].copy.level
    BY <1>7, <2>1, WriteFacts DEF ActiveWrite, UpdateRow, Row, IInv, RowsOK, WritePCs
  <2> QED
    BY <2>1, <2>2, <1>3, WritersReturn
<1>8. CASE DeleteWrite(p)
  BY <1>8, NoMemberFacts DEF DeleteWrite, IInv, RowsOK, User, Admin
<1> QED
  BY <1>2, <1>4, <1>5, <1>6, <1>7, <1>8

\* An account becomes an administrator only by the hand of the super admin.
THEOREM RaisedBySuperAdmin == MemberSpec => OnlySuperAdminsRaise
<1>1. IInv /\ [MemberNext]_memberVars =>
        [\A m \in MemberIds :
           row'[m].level = Admin /\ row[m].level # Admin =>
              \E p \in Procs : req[p].actor \in SuperAdmins /\ req'[p] # req[p]]_memberVars
  BY RaisedBy, GiverIsSuper
<1> QED
  BY <1>1, Invariance, PTL DEF MemberSpec, OnlySuperAdminsRaise

-----------------------------------------------------------------------------
(* Access *)

RegistryNext ==
    \/ \E c \in Clients : Enter(c) \/ Request(c)
    \/ \E s \in Slots : DeleteByID(s)
    \/ Tick \/ Cut \/ DeleteHeartbeatBefore \/ SweepFails

BrokerNext ==
    \/ \E i \in Instances : LoadKey(i) \/ GenerateKey(i) \/ SaveKid(i) \/ Stop(i)
    \/ NextSecond

LEMMA NextKinds ==
  ASSUME [Next]_vars
  PROVE  /\ registryVars' = registryVars \/ RegistryNext
         /\ brokerVars' = brokerVars \/ BrokerNext
<1>1. CASE Ask \/ EndAsk \/ RunOut
  BY <1>1 DEF Ask, EndAsk, RunOut
<1>2. CASE RemoveAgent
  BY <1>2 DEF RemoveAgent, RegistryNext
<1>3. ASSUME NEW c \in Clients, Call(c) \/ Serve(c)
      PROVE  RegistryNext /\ brokerVars' = brokerVars
  BY <1>3 DEF Call, Serve, RegistryNext
<1>4. CASE Clock \/ StartSweep \/ Sweep \/ MissSweep
  BY <1>4 DEF Clock, StartSweep, Sweep, MissSweep, RegistryNext
<1>5. ASSUME NEW i \in Instances, Start(i) \/ Run(i)
      PROVE  BrokerNext /\ registryVars' = registryVars
  BY <1>5 DEF Start, Run, BrokerNext
<1>6. CASE Wait
  BY <1>6 DEF Wait, BrokerNext
<1>7. CASE vars' = vars
  BY <1>7 DEF vars
<1> QED
  BY <1>1, <1>2, <1>3, <1>4, <1>5, <1>6, <1>7 DEF Next

-----------------------------------------------------------------------------
(* The registry *)

ClientRec == [slot : Slots, held : Nat, step : {"idle", "in", "reload", "verify", "classify"}]
AgentRow == [id : Nat, age : Nat]

\* An id is given once; an agent holds ids of its own owner only; and one it is about to be
\* told to forget is stored no longer.
RegistryInv ==
    /\ agents \in [Slots -> AgentRow]
    /\ nextId \in Nat \ {0}
    /\ client \in [Clients -> ClientRec]
    /\ missed \subseteq Nat
    /\ \A s \in Stored : agents[s].id \in 1 .. nextId - 1
    /\ \A s, t \in Stored : agents[s].id = agents[t].id => s = t
    /\ \A c \in Clients :
        /\ client[c].held < nextId
        /\ \A s \in Stored : agents[s].id = client[c].held => s[1] = Owner(c)
        /\ At(c, "classify") => \A s \in Stored : agents[s].id # client[c].held
    /\ HeartbeatMissesOnlyRemoved

\* Rows go or are touched, and one agent gets an answer or goes on.
LEMMA RegistryKept ==
  ASSUME RegistryInv, nextId' = nextId, agents' \in [Slots -> AgentRow],
         \A s \in Stored' : s \in Stored /\ agents'[s].id = agents[s].id,
         NEW c \in Clients, NEW k \in ClientRec, client' = [client EXCEPT ![c] = k],
         k.slot = client[c].slot, k.held < nextId,
         \A s \in Stored' : agents[s].id = k.held => s[1] = k.slot[1],
         k.step = "classify" => \A s \in Stored' : agents[s].id # k.held,
         \A id \in missed' \ missed :
             id \in Nat /\ id < nextId /\ \A s \in Stored' : agents[s].id # id
  PROVE  RegistryInv'
<1> USE DEF RegistryInv
<1>1. client' \in [Clients -> ClientRec]
  OBVIOUS
<1>2. \A d \in Clients : client'[d] = IF d = c THEN k ELSE client[d]
  OBVIOUS
<1>3. missed' \subseteq Nat
  OBVIOUS
<1>4. HeartbeatMissesOnlyRemoved'
  BY DEF HeartbeatMissesOnlyRemoved
<1>5. \A d \in Clients :
        /\ client'[d].held < nextId'
        /\ \A s \in Stored' : agents'[s].id = client'[d].held => s[1] = Owner(d)'
        /\ At(d, "classify")' => \A s \in Stored' : agents'[s].id # client'[d].held
  BY <1>2 DEF Owner, At
<1>6. \A s \in Stored' : agents'[s].id \in 1 .. nextId' - 1
  OBVIOUS
<1>7. \A s, t \in Stored' : agents'[s].id = agents'[t].id => s = t
  OBVIOUS
<1> QED
  BY <1>1, <1>3, <1>4, <1>5, <1>6, <1>7

\* The same when no agent is concerned.
LEMMA RegistryKeptAlone ==
  ASSUME RegistryInv, nextId' = nextId, agents' \in [Slots -> AgentRow],
         \A s \in Stored' : s \in Stored /\ agents'[s].id = agents[s].id,
         client' = client, missed' = missed
  PROVE  RegistryInv'
  BY DEF RegistryInv, HeartbeatMissesOnlyRemoved, Owner, At

LEMMA Answering ==
  ASSUME RegistryInv, NEW c \in Clients, NEW held \in Nat, Reply(c, held)
  PROVE  \E k \in ClientRec : /\ client' = [client EXCEPT ![c] = k]
                              /\ k.slot = client[c].slot /\ k.held = held /\ k.step = "idle"
                              /\ missed' = missed
<1> DEFINE k == [client[c] EXCEPT !.step = "idle", !.held = held]
<1>1. client[c] \in ClientRec
  BY DEF RegistryInv
<1>2. k \in ClientRec /\ k.slot = client[c].slot /\ k.held = held /\ k.step = "idle"
  BY <1>1 DEF ClientRec
<1>3. client' = [client EXCEPT ![c] = k] /\ missed' = missed
  BY DEF Reply
<1> HIDE DEF k
<1> QED
  BY <1>2, <1>3

LEMMA GoingOn ==
  ASSUME RegistryInv, NEW c \in Clients, NEW step \in {"in", "reload", "verify", "classify"}, Goto(c, step)
  PROVE  \E k \in ClientRec : /\ client' = [client EXCEPT ![c] = k]
                              /\ k.slot = client[c].slot /\ k.held = client[c].held /\ k.step = step
                              /\ missed' = missed
<1> DEFINE k == [client[c] EXCEPT !.step = step]
<1>1. client[c] \in ClientRec
  BY DEF RegistryInv
<1>2. k \in ClientRec /\ k.slot = client[c].slot /\ k.held = client[c].held /\ k.step = step
  BY <1>1 DEF ClientRec
<1>3. client' = [client EXCEPT ![c] = k] /\ missed' = missed
  BY DEF Goto
<1> HIDE DEF k
<1> QED
  BY <1>2, <1>3

LEMMA Removing ==
  ASSUME RegistryInv, NEW S, agents' = Without(S)
  PROVE  /\ agents' \in [Slots -> AgentRow]
         /\ \A s \in Stored' : s \in Stored \ S /\ agents'[s].id = agents[s].id
<1>1. NoRow \in AgentRow
  BY DEF NoRow, AgentRow
<1> QED
  BY <1>1 DEF RegistryInv, Without, Stored

\* Rows of a set are given an age.
LEMMA Aging ==
  ASSUME RegistryInv, NEW S \in SUBSET Stored, NEW age, \A s \in S : age[s] \in Nat,
         agents' = [s \in Slots |-> IF s \in S THEN [agents[s] EXCEPT !.age = age[s]] ELSE agents[s]]
  PROVE  /\ agents' \in [Slots -> AgentRow]
         /\ \A s \in Stored' : s \in Stored /\ agents'[s].id = agents[s].id
<1> SUFFICES ASSUME NEW s \in Slots
             PROVE  agents'[s] \in AgentRow /\ agents'[s].id = agents[s].id /\ (s \in Stored' => s \in Stored)
  BY DEF Stored
<1>1. agents[s] \in AgentRow
  BY DEF RegistryInv
<1>2. CASE s \in S
  <2>1. agents'[s] = [agents[s] EXCEPT !.age = age[s]]
    BY <1>2
  <2>2. agents'[s] \in AgentRow /\ agents'[s].id = agents[s].id
    BY <1>1, <1>2, <2>1 DEF AgentRow
  <2> QED
    BY <1>2, <2>2
<1>3. CASE s \notin S
  BY <1>1, <1>3 DEF Stored
<1> QED
  BY <1>2, <1>3

LEMMA Ids ==
  ASSUME RegistryInv, NEW c \in Clients
  PROVE  /\ client[c].slot \in Slots /\ client[c].held \in Nat /\ client[c].held < nextId
         /\ Owner(c) = client[c].slot[1]
         /\ \A s \in Stored : agents[s].id = client[c].held => s[1] = client[c].slot[1]
         /\ Matching(c) = {s \in Stored : agents[s].id = client[c].held}
<1>1. client[c] \in ClientRec
  BY DEF RegistryInv
<1>2. \A s \in Stored : agents[s].id = client[c].held => s[1] = Owner(c)
  BY DEF RegistryInv
<1>3. Matching(c) = {s \in Stored : agents[s].id = client[c].held}
  BY <1>2 DEF Matching
<1> QED
  BY <1>1, <1>2, <1>3 DEF ClientRec, RegistryInv, Owner

LEMMA GoingOnKeeps ==
  ASSUME RegistryInv, NEW c \in Clients,
         NEW step \in {"in", "reload", "verify", "classify"}, Goto(c, step),
         nextId' = nextId, agents' \in [Slots -> AgentRow],
         \A s \in Stored' : s \in Stored /\ agents'[s].id = agents[s].id,
         step = "classify" => Matching(c) = {}
  PROVE  RegistryInv'
<1>1. PICK k \in ClientRec : /\ client' = [client EXCEPT ![c] = k]
                             /\ k.slot = client[c].slot /\ k.held = client[c].held /\ k.step = step
                             /\ missed' = missed
  BY GoingOn
<1>2. k.held < nextId /\ \A s \in Stored' : agents[s].id = k.held => s[1] = k.slot[1]
  BY <1>1, Ids
<1>3. k.step = "classify" => \A s \in Stored' : agents[s].id # k.held
  BY <1>1, Ids
<1>4. \A id \in missed' \ missed :
          id \in Nat /\ id < nextId /\ \A s \in Stored' : agents[s].id # id
  BY <1>1
<1> QED
  BY <1>1, <1>2, <1>3, <1>4, RegistryKept

LEMMA RegistryStep ==
  ASSUME RegistryInv, RegistryNext
  PROVE  RegistryInv'
<1>0. agents \in [Slots -> AgentRow] /\ nextId \in Nat \ {0}
  BY DEF RegistryInv
<1>1. ASSUME agents' = agents
      PROVE  /\ agents' \in [Slots -> AgentRow] /\ Stored' = Stored
             /\ \A s \in Stored' : s \in Stored /\ agents'[s].id = agents[s].id
  BY <1>0, <1>1 DEF Stored
<1>2. ASSUME NEW c \in Clients, Enter(c)
      PROVE  RegistryInv'
  BY <1>1, <1>2, GoingOnKeeps DEF Enter
<1>3. ASSUME NEW c \in Clients, Upsert(c)
      PROVE  RegistryInv'
  <2> DEFINE s == client[c].slot
  <2>1. PICK k \in ClientRec : /\ client' = [client EXCEPT ![c] = k]
                               /\ k.slot = client[c].slot /\ k.held = client[c].held /\ k.step = "reload"
                               /\ missed' = missed
    BY <1>3, GoingOn DEF Upsert
  <2>2. CASE s \in Stored
    <3>1. agents' = [agents EXCEPT ![s].age = 0] /\ nextId' = nextId
      BY <1>3, <2>2 DEF Upsert
    <3> DEFINE age == [t \in {s} |-> 0]
    <3>2. agents' = [t \in Slots |-> IF t \in {s} THEN [agents[t] EXCEPT !.age = age[t]] ELSE agents[t]]
      BY <1>0, <3>1
    <3>3. {s} \in SUBSET Stored /\ \A t \in {s} : age[t] \in Nat
      BY <2>2
    <3> HIDE DEF age
    <3>4. /\ agents' \in [Slots -> AgentRow]
          /\ \A t \in Stored' : t \in Stored /\ agents'[t].id = agents[t].id
      BY <3>2, <3>3, Aging
    <3>5. Goto(c, "reload")
      BY <1>3 DEF Upsert
    <3> QED
      BY <3>1, <3>4, <3>5, GoingOnKeeps
  <2>3. CASE s \notin Stored
    <3>1. agents' = [agents EXCEPT ![s] = [id |-> nextId, age |-> 0]] /\ nextId' = nextId + 1
      BY <1>3, <2>3 DEF Upsert
    <3>2. s \in Slots
      BY Ids
    <3>3. \A t \in Slots : agents'[t] = IF t = s THEN [id |-> nextId, age |-> 0] ELSE agents[t]
      BY <1>0, <3>1
    <3>4. agents' \in [Slots -> AgentRow]
      BY <1>0, <3>1, <3>2 DEF AgentRow
    <3>5. \A t \in Stored' : \/ t = s /\ agents'[t].id = nextId
                             \/ t # s /\ t \in Stored /\ agents'[t].id = agents[t].id
      BY <3>3 DEF Stored
    <3>6. \A d \in Clients : /\ client'[d] = IF d = c THEN k ELSE client[d]
                             /\ client'[d].slot = client[d].slot /\ client'[d].held = client[d].held
      BY <2>1 DEF RegistryInv
    <3>7. client' \in [Clients -> ClientRec]
      BY <2>1 DEF RegistryInv
    <3>8. HeartbeatMissesOnlyRemoved'
      BY <1>0, <2>1, <3>1, <3>5 DEF HeartbeatMissesOnlyRemoved, RegistryInv
    <3>9. \A t \in Stored' : agents'[t].id \in 1 .. nextId' - 1
      BY <1>0, <3>1, <3>5 DEF RegistryInv
    <3>10. ASSUME NEW d \in Clients
           PROVE  /\ client'[d].held < nextId'
                  /\ \A t \in Stored' : agents'[t].id = client'[d].held => t[1] = Owner(d)'
                  /\ At(d, "classify")' => \A t \in Stored' : agents'[t].id # client'[d].held
      <4>1. client[d].held < nextId /\ client[d].held \in Nat
        BY Ids
      <4>2. \A t \in Stored' : agents'[t].id = client[d].held => t \in Stored /\ agents[t].id = client[d].held
        BY <1>0, <3>5, <4>1
      <4>3. At(d, "classify")' => At(d, "classify")
        BY <2>1, <3>6 DEF At
      <4>4. client'[d].held = client[d].held /\ Owner(d)' = Owner(d)
        BY <3>6 DEF Owner
      <4> QED
        BY <1>0, <3>1, <4>1, <4>2, <4>3, <4>4 DEF RegistryInv
    <3>11. nextId' \in Nat \ {0} /\ missed' \subseteq Nat
      BY <1>0, <2>1, <3>1 DEF RegistryInv
    <3>12. \A t, u \in Stored' : agents'[t].id = agents'[u].id => t = u
      BY <1>0, <3>5 DEF RegistryInv
    <3> QED
      BY <3>4, <3>7, <3>8, <3>9, <3>10, <3>11, <3>12 DEF RegistryInv
  <2> QED
    BY <2>2, <2>3
<1>4. ASSUME NEW c \in Clients, NEW held \in Nat, Reply(c, held), held < nextId, nextId' = nextId,
             agents' \in [Slots -> AgentRow],
             \A s \in Stored' : s \in Stored /\ agents'[s].id = agents[s].id,
             \A s \in Stored' : agents[s].id = held => s[1] = client[c].slot[1]
      PROVE  RegistryInv'
  <2>1. PICK k \in ClientRec : /\ client' = [client EXCEPT ![c] = k]
                               /\ k.slot = client[c].slot /\ k.held = held /\ k.step = "idle"
                               /\ missed' = missed
    BY <1>4, Answering
  <2> QED
    BY <1>4, <2>1, RegistryKept
<1>5. ASSUME NEW c \in Clients, Reload(c)
      PROVE  RegistryInv'
  <2> DEFINE s == client[c].slot
  <2>1. CASE s \in Stored
    <3>1. Reply(c, agents[s].id) /\ agents' = agents /\ nextId' = nextId
      BY <1>5, <2>1 DEF Reload
    <3>2. agents[s].id \in Nat /\ agents[s].id < nextId
      BY <1>0, <2>1 DEF RegistryInv
    <3>3. ASSUME NEW t \in Stored, agents[t].id = agents[s].id
          PROVE  t = s
      BY <2>1, <3>3 DEF RegistryInv
    <3> QED
      BY <1>1, <1>4, <3>1, <3>2, <3>3
  <2>2. CASE s \notin Stored
    BY <1>1, <1>4, <1>5, <2>2, Ids DEF Reload
  <2> QED
    BY <2>1, <2>2
<1>6. ASSUME NEW c \in Clients, Touch(c)
      PROVE  RegistryInv'
  <2> DEFINE age == [s \in Matching(c) |-> 0]
  <2>1. agents' = [s \in Slots |-> IF s \in Matching(c) THEN [agents[s] EXCEPT !.age = age[s]] ELSE agents[s]]
    BY <1>6 DEF Touch
  <2>2. Matching(c) \in SUBSET Stored /\ \A s \in Matching(c) : age[s] \in Nat
    BY DEF Matching
  <2> HIDE DEF age
  <2>3. /\ agents' \in [Slots -> AgentRow]
        /\ \A s \in Stored' : s \in Stored /\ agents'[s].id = agents[s].id
    BY <2>1, <2>2, Aging
  <2>4. nextId' = nextId /\ (Reply(c, client[c].held) \/ Goto(c, "verify"))
    BY <1>6 DEF Touch
  <2> QED
    BY <1>4, <2>3, <2>4, Ids, GoingOnKeeps
<1>7. ASSUME NEW c \in Clients, Verify(c)
      PROVE  RegistryInv'
  <2>1. agents' = agents /\ nextId' = nextId
    BY <1>7 DEF Verify
  <2>2. Reply(c, client[c].held) \/ (Matching(c) = {} /\ Goto(c, "classify"))
    BY <1>7 DEF Verify
  <2> QED
    BY <1>1, <1>4, <2>1, <2>2, Ids, GoingOnKeeps
<1>8. ASSUME NEW c \in Clients, Delete(c)
      PROVE  RegistryInv'
  <2>1. agents' = Without(Matching(c)) /\ nextId' = nextId
    BY <1>8 DEF Delete
  <2>2. /\ agents' \in [Slots -> AgentRow]
        /\ \A s \in Stored' : s \in Stored /\ agents'[s].id = agents[s].id
    BY <2>1, Removing
  <2>3. CASE Matching(c) # {}
    <3>1. Reply(c, 0)
      BY <1>8, <2>3 DEF Delete, NoId
    <3>2. \A s \in Stored' : agents[s].id # 0
      BY <2>2 DEF RegistryInv
    <3> QED
      BY <1>0, <1>4, <2>1, <2>2, <3>1, <3>2
  <2>4. CASE Matching(c) = {}
    BY <1>8, <2>1, <2>2, <2>4, GoingOnKeeps DEF Delete
  <2> QED
    BY <2>3, <2>4
<1>9. ASSUME NEW c \in Clients, Classify(c)
       PROVE  RegistryInv'
  <2> DEFINE k == [client[c] EXCEPT !.step = "idle", !.held = NoId]
  <2>1. /\ client' = [client EXCEPT ![c] = k] /\ missed' = missed \cup {client[c].held}
        /\ agents' = agents /\ nextId' = nextId
    BY <1>9 DEF Classify
  <2>2. client[c] \in ClientRec
    BY DEF RegistryInv
  <2>3. k \in ClientRec /\ k.slot = client[c].slot /\ k.held = 0 /\ k.step = "idle"
    BY <2>2 DEF ClientRec, NoId
  <2>4. \A s \in Stored : agents[s].id # client[c].held
    BY <1>9 DEF Classify, RegistryInv
  <2>5. \A s \in Stored : agents[s].id # 0
    BY DEF RegistryInv
  <2> HIDE DEF k
  <2>6. \A id \in missed' \ missed : id \in Nat /\ id < nextId /\ \A s \in Stored' : agents[s].id # id
    BY <1>1, <2>1, <2>4, Ids
  <2>7. k.held < nextId /\ k.step # "classify" /\ \A s \in Stored' : agents[s].id # k.held
    BY <1>0, <1>1, <2>1, <2>3, <2>5
  <2> QED
    BY <1>1, <2>1, <2>3, <2>6, <2>7, RegistryKept
<1>10. ASSUME NEW c \in Clients, RequestFails(c)
       PROVE  RegistryInv'
  BY <1>1, <1>4, <1>10, Ids DEF RequestFails
<1>11. ASSUME NEW S, agents' = Without(S), nextId' = nextId, client' = client, missed' = missed
       PROVE  RegistryInv'
  BY <1>11, Removing, RegistryKeptAlone
<1>12. ASSUME NEW s \in Slots, DeleteByID(s)
       PROVE  RegistryInv'
  BY <1>11, <1>12 DEF DeleteByID
<1>13. CASE Tick
  <2> DEFINE age == [s \in Stored |-> Older(agents[s].age)]
  <2>1. agents' = [s \in Slots |-> IF s \in Stored THEN [agents[s] EXCEPT !.age = Older(@)] ELSE NoRow]
    BY <1>13 DEF Tick
  <2>2. \A s \in Slots \ Stored : agents[s] = NoRow
    BY DEF Stored
  <2>3. agents' = [s \in Slots |-> IF s \in Stored THEN [agents[s] EXCEPT !.age = age[s]] ELSE agents[s]]
    BY <2>1, <2>2
  <2>4. \A s \in Stored : age[s] \in Nat
    BY <1>0 DEF Older, Stored, AgentRow
  <2> HIDE DEF age
  <2>5. /\ agents' \in [Slots -> AgentRow]
        /\ \A s \in Stored' : s \in Stored /\ agents'[s].id = agents[s].id
    BY <2>3, <2>4, Aging
  <2> QED
    BY <1>13, <2>5, RegistryKeptAlone DEF Tick
<1>14. CASE Cut \/ SweepFails
  BY <1>1, <1>14, RegistryKeptAlone DEF Cut, SweepFails
<1>15. CASE DeleteHeartbeatBefore
  BY <1>11, <1>15 DEF DeleteHeartbeatBefore
<1> QED
  BY <1>2, <1>3, <1>5, <1>6, <1>7, <1>8, <1>9, <1>10, <1>12, <1>13, <1>14, <1>15
     DEF RegistryNext, Request

LEMMA RegistrySpec ==
  /\ Init => RegistryInv
  /\ RegistryInv /\ [Next]_vars => RegistryInv'
<1>1. ASSUME Init
      PROVE  RegistryInv
  <2>1. PICK who \in [Clients -> Slots] : RegistryInit(who)
    BY <1>1, AccessAssumption DEF Init, PlanType
  <2>2. Stored = {}
    BY <2>1 DEF RegistryInit, Stored
  <2>3. agents \in [Slots -> AgentRow] /\ client \in [Clients -> ClientRec]
    BY <2>1 DEF RegistryInit, NoRow, NoId, AgentRow, ClientRec
  <2>4. \A c \in Clients : client[c].held = 0 /\ client[c].step = "idle"
    BY <2>1 DEF RegistryInit, NoId
  <2>5. nextId = 1 /\ missed = {}
    BY <2>1 DEF RegistryInit
  <2> QED
    BY <2>2, <2>3, <2>4, <2>5 DEF RegistryInv, HeartbeatMissesOnlyRemoved, At
<1>2. ASSUME RegistryInv, registryVars' = registryVars
      PROVE  RegistryInv'
  BY <1>2 DEF registryVars, RegistryInv, HeartbeatMissesOnlyRemoved, Stored, Owner, At
<1> QED
  BY <1>1, <1>2, RegistryStep, NextKinds

\* An agent is told that its id is gone only once it is gone.
THEOREM MissesOnlyRemoved == Spec => []HeartbeatMissesOnlyRemoved
<1>1. RegistryInv => HeartbeatMissesOnlyRemoved
  BY DEF RegistryInv
<1> QED
  BY <1>1, RegistrySpec, PTL DEF Spec

-----------------------------------------------------------------------------
(* The broker's key *)

\* An instance that is up has a stored key, one of the latest it could see; and but for
\* crossed starts there is one key, made by one instance.
BrokerInv ==
    /\ BrokerTypeOK
    /\ IsFiniteSet(a2aKeys)
    /\ \A i \in Up :
        /\ \E k \in a2aKeys : k.kid = instance[i].kid
        /\ \E k \in instance[i].seen :
              k.kid = instance[i].kid /\ \A l \in instance[i].seen : l.at <= k.at
    /\ ~ crossed =>
        /\ \A k, l \in a2aKeys : k = l
        /\ \A i, j \in Instances :
              instance[i].step = "save" => a2aKeys = {} /\ (instance[j].step = "save" => i = j)

LEMMA BrokerStep ==
  ASSUME BrokerInv, BrokerNext
  PROVE  BrokerInv'
<1> DEFINE Key == [kid : Nat, at : Nat]
           Inst == [step : {"down", "save", "up"}, kid : Nat, at : Nat, seen : SUBSET Key]
<1>1. instance \in [Instances -> Inst] /\ a2aKeys \subseteq Key /\ kids \in Nat /\ second \in Nat
  BY DEF BrokerInv, BrokerTypeOK
<1>2. ASSUME NEW i \in Instances, NEW v, Is(i, v)
      PROVE  \A j \in Instances : instance'[j] = IF j = i THEN v ELSE instance[j]
  BY <1>1, <1>2 DEF Is
<1>3. Down \in Inst /\ Down.step = "down"
  BY DEF Down, NoKid
<1>4. ASSUME NEW i \in Instances, LoadKey(i)
      PROVE  BrokerInv'
  <2>1. PICK k \in Latest : Is(i, [step |-> "up", kid |-> k.kid, at |-> k.at, seen |-> a2aKeys])
    BY <1>4 DEF LoadKey
  <2> DEFINE v == [step |-> "up", kid |-> k.kid, at |-> k.at, seen |-> a2aKeys]
  <2>2. k \in a2aKeys /\ k \in Key /\ \A l \in a2aKeys : l.at <= k.at
    BY <1>1, <2>1 DEF Latest
  <2>3. v \in Inst /\ v.step = "up" /\ v.kid = k.kid /\ v.seen = a2aKeys
    BY <1>1, <2>2
  <2>4. a2aKeys' = a2aKeys /\ kids' = kids /\ second' = second /\ crossed' = crossed
    BY <1>4 DEF LoadKey
  <2> HIDE DEF v
  <2>5. \A j \in Instances : instance'[j] = IF j = i THEN v ELSE instance[j]
    BY <1>2, <2>1 DEF v
  <2>6. BrokerTypeOK'
    BY <1>1, <2>1, <2>3, <2>4 DEF BrokerInv, BrokerTypeOK, Is, v
  <2>7. \A j \in Up' : j = i \/ (j \in Up /\ instance'[j] = instance[j])
    BY <2>5 DEF Up
  <2>8. \A j \in Instances : instance'[j].step = "save" => instance[j].step = "save"
    BY <2>3, <2>5
  <2>9. \A j \in Up' :
          /\ \E l \in a2aKeys : l.kid = instance'[j].kid
          /\ \E l \in instance'[j].seen :
                l.kid = instance'[j].kid /\ \A m \in instance'[j].seen : m.at <= l.at
    BY <2>2, <2>3, <2>5, <2>7 DEF BrokerInv
  <2> QED
    BY <2>4, <2>6, <2>8, <2>9 DEF BrokerInv
<1>5. ASSUME NEW i \in Instances, GenerateKey(i)
      PROVE  BrokerInv'
  <2> DEFINE v == [step |-> "save", kid |-> kids + 1, at |-> second, seen |-> {}]
  <2>1. /\ Is(i, v) /\ a2aKeys' = a2aKeys /\ a2aKeys = {} /\ second' = second /\ kids' = kids + 1
        /\ crossed' = (crossed \/ \E j \in Instances : instance[j].step = "save")
    BY <1>5 DEF GenerateKey
  <2>2. v \in Inst /\ v.step = "save"
    BY <1>1
  <2>3. \A j \in Instances : instance'[j] = IF j = i THEN v ELSE instance[j]
    BY <1>2, <2>1
  <2>4. BrokerTypeOK'
    BY <1>1, <2>1, <2>2 DEF BrokerInv, BrokerTypeOK, Is
  <2> HIDE DEF v
  <2>5. \A j \in Up' : j \in Up /\ instance'[j] = instance[j]
    BY <2>2, <2>3 DEF Up
  <2>6. \A j \in Instances : instance'[j].step = "save" => j = i \/ instance[j].step = "save"
    BY <2>3
  <2> QED
    BY <2>1, <2>4, <2>5, <2>6 DEF BrokerInv
<1>6. ASSUME NEW i \in Instances, SaveKid(i)
      PROVE  BrokerInv'
  <2> DEFINE k == [kid |-> instance[i].kid, at |-> instance[i].at]
             v == [instance[i] EXCEPT !.step = "up", !.seen = {k}]
  <2>1. /\ Is(i, v) /\ a2aKeys' = a2aKeys \cup {k} /\ kids' = kids /\ second' = second
        /\ crossed' = crossed /\ instance[i].step = "save"
    BY <1>6 DEF SaveKid
  <2>2. instance[i] \in Inst
    BY <1>1
  <2>3. k \in Key /\ k.kid = instance[i].kid /\ k.at \in Nat
    BY <2>2
  <2> HIDE DEF k
  <2>4. v \in Inst /\ v.step = "up" /\ v.kid = k.kid /\ v.seen = {k}
    BY <2>2, <2>3
  <2>5. \A j \in Instances : instance'[j] = IF j = i THEN v ELSE instance[j]
    BY <1>2, <2>1
  <2>6. BrokerTypeOK'
    BY <1>1, <2>1, <2>3, <2>4 DEF BrokerInv, BrokerTypeOK, Is
  <2> HIDE DEF v
  <2>7. IsFiniteSet(a2aKeys')
    BY <2>1, FS_AddElement DEF BrokerInv
  <2>8. \A j \in Up' : j = i \/ (j \in Up /\ instance'[j] = instance[j])
    BY <2>5 DEF Up
  <2>9. \A j \in Up' :
          /\ \E l \in a2aKeys' : l.kid = instance'[j].kid
          /\ \E l \in instance'[j].seen :
                l.kid = instance'[j].kid /\ \A m \in instance'[j].seen : m.at <= l.at
    <3>1. ASSUME NEW j \in Up', j # i
          PROVE  /\ \E l \in a2aKeys' : l.kid = instance'[j].kid
                 /\ \E l \in instance'[j].seen :
                      l.kid = instance'[j].kid /\ \A m \in instance'[j].seen : m.at <= l.at
      BY <2>1, <2>8, <3>1 DEF BrokerInv
    <3>2. /\ \E l \in a2aKeys' : l.kid = instance'[i].kid
          /\ \E l \in instance'[i].seen :
               l.kid = instance'[i].kid /\ \A m \in instance'[i].seen : m.at <= l.at
      BY <2>1, <2>3, <2>4, <2>5
    <3> QED
      BY <3>1, <3>2
  <2>10. ASSUME ~ crossed
         PROVE  /\ a2aKeys' = {k}
                /\ \A j \in Instances : instance'[j].step # "save"
    BY <2>1, <2>4, <2>5, <2>10 DEF BrokerInv
  <2> QED
    BY <2>1, <2>6, <2>7, <2>9, <2>10 DEF BrokerInv
<1>7. ASSUME NEW i \in Instances, Stop(i)
      PROVE  BrokerInv'
  <2>1. /\ Is(i, Down) /\ a2aKeys' = a2aKeys /\ kids' = kids /\ second' = second /\ crossed' = crossed
    BY <1>7 DEF Stop
  <2>2. \A j \in Instances : instance'[j] = IF j = i THEN Down ELSE instance[j]
    BY <1>2, <2>1
  <2>3. BrokerTypeOK'
    BY <1>1, <1>3, <2>1 DEF BrokerInv, BrokerTypeOK, Is
  <2>4. \A j \in Instances : instance'[j].step # "down" => instance'[j] = instance[j]
    BY <1>3, <2>2
  <2>5. \A j \in Up' : j \in Up /\ instance'[j] = instance[j]
    BY <2>4 DEF Up
  <2> QED
    BY <2>1, <2>3, <2>4, <2>5 DEF BrokerInv
<1>8. CASE NextSecond
  <2>1. a2aKeys' = a2aKeys /\ instance' = instance /\ crossed' = crossed /\ kids' = kids /\ second' \in Nat
    BY <1>1, <1>8 DEF NextSecond
  <2> QED
    BY <2>1 DEF BrokerInv, BrokerTypeOK, Up
<1> QED
  BY <1>4, <1>5, <1>6, <1>7, <1>8 DEF BrokerNext

LEMMA BrokerSpec ==
  /\ Init => BrokerInv
  /\ BrokerInv /\ [Next]_vars => BrokerInv'
<1>1. ASSUME Init
      PROVE  BrokerInv
  <2>1. /\ a2aKeys = {} /\ instance = [i \in Instances |-> Down]
        /\ kids = 0 /\ second = 0 /\ crossed = FALSE
    BY <1>1 DEF Init, BrokerInit
  <2>2. \A i \in Instances : instance[i] = Down /\ instance[i].step = "down"
    BY <2>1 DEF Down
  <2>3. BrokerTypeOK
    BY <2>1 DEF BrokerTypeOK, Down, NoKid
  <2>4. Up = {} /\ IsFiniteSet({})
    BY <2>2, FS_EmptySet DEF Up
  <2> QED
    BY <2>1, <2>2, <2>3, <2>4 DEF BrokerInv
<1>2. ASSUME BrokerInv, brokerVars' = brokerVars
      PROVE  BrokerInv'
  BY <1>2 DEF brokerVars, BrokerInv, BrokerTypeOK, Up
<1> QED
  BY <1>1, <1>2, BrokerStep, NextKinds

\* Instances sign with one key, unless two first starts crossed; and then those that have
\* seen every key do, unless the latest were made in one second.
THEOREM KeysShared == Spec => []SharedKeyUnlessCrossed
<1>1. ASSUME BrokerInv
      PROVE  SharedKeyUnlessCrossed
  <2>1. ASSUME ~ crossed, NEW i \in Up, NEW j \in Up
        PROVE  instance[i].kid = instance[j].kid
    BY <1>1, <2>1 DEF BrokerInv
  <2>2. ASSUME NEW i \in Up, NEW j \in Up, instance[i].seen = a2aKeys, instance[j].seen = a2aKeys, ~ Tied
        PROVE  instance[i].kid = instance[j].kid
    <3>1. PICK k \in a2aKeys : k.kid = instance[i].kid /\ \A m \in a2aKeys : m.at <= k.at
      BY <1>1, <2>2 DEF BrokerInv
    <3>2. PICK l \in a2aKeys : l.kid = instance[j].kid /\ \A m \in a2aKeys : m.at <= l.at
      BY <1>1, <2>2 DEF BrokerInv
    <3>3. {k, l} \in SUBSET Latest /\ IsFiniteSet(Latest)
      BY <1>1, <3>1, <3>2, FS_Subset DEF Latest, BrokerInv
    <3>4. ASSUME k # l
          PROVE  FALSE
      <4>1. IsFiniteSet({k}) /\ Cardinality({k}) = 1
        BY FS_Singleton
      <4>2. Cardinality({k} \cup {l}) = 2
        <5>1. l \notin {k}
          BY <3>4
        <5>2. Cardinality({k} \cup {l}) = Cardinality({k}) + 1
          BY <4>1, <5>1, FS_AddElement
        <5> QED
          BY <4>1, <5>2
      <4>3. Cardinality({k, l}) = 2
        <5>1. {k, l} = {k} \cup {l}
          OBVIOUS
        <5> QED
          BY <4>2, <5>1
      <4>4. Cardinality(Latest) \in Nat /\ Cardinality({k, l}) <= Cardinality(Latest)
        BY <3>3, FS_Subset, FS_CardinalityType
      <4> QED
        BY <2>2, <4>3, <4>4 DEF Tied
    <3> QED
      BY <3>1, <3>2, <3>4
  <2> QED
    BY <2>1, <2>2 DEF SharedKeyUnlessCrossed
<1> QED
  BY <1>1, BrokerSpec, PTL DEF Spec
-----------------------------------------------------------------------------
(* Types *)

AccountsNext ==
    \/ \E a \in Accounts : CreateAccount(a)
    \/ \E d \in Admins, a \in Accounts : RevokeAccount(d, a) \/ FindAccount(d, a)
    \/ \E k \in Keys : RevokeKey(k) \/ Expire(k)
    \/ \E d \in Admins :
          \/ RevokeKeysByAccount(d) \/ JobFails(d)
          \/ \E e \in {"never", "later"} : SaveKey(d, e)

LEMMA AccountsStep ==
  ASSUME AccountsTypeOK, AccountsNext
  PROVE  AccountsTypeOK'
<1> DEFINE Jobs == [step : {"revoke", "issue"}, of : Accounts]
<1>0. /\ \A k \in Issued : key[k] \in KeyRows
      /\ \A d \in Admins : job[d].step \in {"revoke", "issue"} => job[d] \in Jobs
  BY DEF AccountsTypeOK, Issued, NoJob
<1>1. ASSUME NEW a \in Accounts, CreateAccount(a)
      PROVE  AccountsTypeOK'
  BY <1>1 DEF CreateAccount, AccountsTypeOK
<1>2. ASSUME NEW d \in Admins, NEW a \in Accounts, RevokeAccount(d, a) \/ FindAccount(d, a)
      PROVE  AccountsTypeOK'
  <2>1. [step |-> "revoke", of |-> a] \in Jobs /\ [step |-> "issue", of |-> a] \in Jobs
    OBVIOUS
  <2> HIDE DEF Jobs
  <2> QED
    BY <1>2, <2>1 DEF RevokeAccount, FindAccount, AccountsTypeOK, Jobs
<1>3. ASSUME NEW k \in Keys, RevokeKey(k) \/ Expire(k)
      PROVE  AccountsTypeOK'
  <2>1. key[k] \in KeyRows
    BY <1>0, <1>3 DEF RevokeKey, Expire
  <2>2. [key[k] EXCEPT !.revoked = TRUE] \in KeyRows /\ [key[k] EXCEPT !.expires = "past"] \in KeyRows
    BY <2>1 DEF KeyRows
  <2> QED
    BY <1>3, <2>2 DEF RevokeKey, Expire, AccountsTypeOK
<1>4. ASSUME NEW d \in Admins, RevokeKeysByAccount(d)
      PROVE  AccountsTypeOK'
  <2>1. \A k \in Issued : [key[k] EXCEPT !.revoked = TRUE] \in KeyRows
    BY <1>0 DEF KeyRows
  <2> QED
    BY <1>4, <2>1 DEF RevokeKeysByAccount, AccountsTypeOK, KeysOf
<1>5. ASSUME NEW d \in Admins, NEW e \in {"never", "later"}, SaveKey(d, e)
      PROVE  AccountsTypeOK'
  <2>1. job[d].of \in Accounts
    BY <1>0, <1>5 DEF SaveKey
  <2>2. [of |-> job[d].of, revoked |-> FALSE, expires |-> e] \in KeyRows
    BY <2>1 DEF KeyRows
  <2> QED
    BY <1>5, <2>2 DEF SaveKey, AccountsTypeOK
<1>6. ASSUME NEW d \in Admins, JobFails(d)
      PROVE  AccountsTypeOK'
  BY <1>6 DEF JobFails, AccountsTypeOK
<1> QED
  BY <1>1, <1>2, <1>3, <1>4, <1>5, <1>6 DEF AccountsNext

\* An agent keeps who it is.
LEMMA ClientTypes ==
  ASSUME RegistryTypeOK, NEW c \in Clients, NEW held \in Nat,
         NEW step \in {"idle", "in", "reload", "verify", "classify"},
         \/ client' = [client EXCEPT ![c].step = step]
         \/ client' = [client EXCEPT ![c].step = step, ![c].held = held]
  PROVE  client' \in [Clients -> [slot : Slots, held : Nat,
                                  step : {"idle", "in", "reload", "verify", "classify"}]]
<1> DEFINE Rec == [slot : Slots, held : Nat, step : {"idle", "in", "reload", "verify", "classify"}]
<1>1. client[c] \in Rec
  BY DEF RegistryTypeOK
<1>2. [client[c] EXCEPT !.step = step] \in Rec /\ [client[c] EXCEPT !.step = step, !.held = held] \in Rec
  BY <1>1
<1>3. client \in [Clients -> Rec]
  BY DEF RegistryTypeOK
<1>4. \E r \in Rec : client' = [client EXCEPT ![c] = r]
  <2> HIDE DEF Rec
  <2>1. CASE client' = [client EXCEPT ![c].step = step]
    BY <1>2, <2>1
  <2>2. CASE client' = [client EXCEPT ![c].step = step, ![c].held = held]
    <3>1. client' = [client EXCEPT ![c] = [client[c] EXCEPT !.step = step, !.held = held]]
      BY <1>3, <2>2
    <3> QED
      BY <1>2, <3>1
  <2> QED
    BY <2>1, <2>2
<1> HIDE DEF Rec
<1>5. client' \in [Clients -> Rec]
  BY <1>3, <1>4
<1> QED
  BY <1>5 DEF Rec

LEMMA RegistryTypeStep ==
  ASSUME RegistryTypeOK, RegistryNext
  PROVE  RegistryTypeOK'
<1> DEFINE AgedRow == [id : Nat, age : 0 .. MaxAge]
<1>0. /\ 0 \in 0 .. MaxAge /\ MaxAge \in Nat /\ Retention \in Nat /\ SweepDelay \in Nat
      /\ NoRow \in AgedRow
  BY RegistryAssumption DEF MaxAge, NoRow
<1>1. \A s \in Slots : agents[s] \in AgedRow /\ [agents[s] EXCEPT !.age = 0] \in AgedRow
  BY <1>0 DEF RegistryTypeOK
<1>2. \A S : Without(S) \in [Slots -> AgedRow]
  BY <1>0, <1>1 DEF Without
<1>3. \A c \in Clients : client[c].held \in Nat /\ client[c].slot \in Slots
  BY DEF RegistryTypeOK
<1>4. NoId \in Nat
  BY DEF NoId
<1>5. ASSUME NEW c \in Clients, Enter(c)
      PROVE  RegistryTypeOK'
  <2>1. client' = [client EXCEPT ![c].step = "in"]
    BY <1>5 DEF Enter, Goto
  <2> QED
    BY <1>3, <1>5, <2>1, ClientTypes DEF Enter, Goto, RegistryTypeOK
<1>6. ASSUME NEW c \in Clients, Upsert(c)
      PROVE  RegistryTypeOK'
  <2>1. agents' \in [Slots -> AgedRow] /\ nextId' \in Nat \ {0}
    <3>1. CASE client[c].slot \in Stored
      BY <1>1, <1>3, <1>6, <3>1 DEF Upsert, RegistryTypeOK
    <3>2. CASE client[c].slot \notin Stored
      <4>1. [id |-> nextId, age |-> 0] \in AgedRow
        BY <1>0 DEF RegistryTypeOK
      <4>2. agents' = [agents EXCEPT ![client[c].slot] = [id |-> nextId, age |-> 0]] /\ nextId' = nextId + 1
        BY <1>6, <3>2 DEF Upsert
      <4>3. agents \in [Slots -> AgedRow] /\ nextId \in Nat
        BY DEF RegistryTypeOK
      <4>4. nextId' \in Nat \ {0}
        BY <4>2, <4>3
      <4> HIDE DEF AgedRow
      <4> QED
        BY <4>1, <4>2, <4>3, <4>4
    <3> QED
      BY <3>1, <3>2
  <2>2. client' = [client EXCEPT ![c].step = "reload"] /\ missed' = missed /\ sweep' = sweep
    BY <1>6 DEF Upsert, Goto
  <2> QED
    BY <1>3, <2>1, <2>2, ClientTypes DEF RegistryTypeOK
<1>7. ASSUME NEW c \in Clients, Reload(c) \/ RequestFails(c) \/ Verify(c)
      PROVE  RegistryTypeOK'
  <2>1. \/ \E held \in Nat : Reply(c, held)
        \/ Goto(c, "classify")
    BY <1>1, <1>3, <1>7 DEF Reload, RequestFails, Verify
  <2>2. client' \in [Clients -> [slot : Slots, held : Nat,
                                  step : {"idle", "in", "reload", "verify", "classify"}]]
    BY <1>3, <2>1, ClientTypes DEF Reply, Goto
  <2>3. UNCHANGED <<agents, nextId, sweep, missed>>
    BY <1>7, <2>1 DEF Reload, RequestFails, Verify, Reply, Goto
  <2> QED
    BY <2>2, <2>3 DEF RegistryTypeOK
<1>8. ASSUME NEW c \in Clients, Touch(c) \/ Delete(c)
      PROVE  RegistryTypeOK'
  <2>1. agents' \in [Slots -> AgedRow] /\ UNCHANGED <<nextId, sweep>>
    BY <1>1, <1>2, <1>8 DEF Touch, Delete
  <2>2. \/ \E held \in Nat : Reply(c, held)
        \/ \E step \in {"verify", "classify"} : Goto(c, step)
    BY <1>3, <1>4, <1>8 DEF Touch, Delete
  <2>3. /\ missed' = missed
        /\ client' \in [Clients -> [slot : Slots, held : Nat,
                                     step : {"idle", "in", "reload", "verify", "classify"}]]
    BY <1>3, <2>2, ClientTypes DEF Reply, Goto
  <2> QED
    BY <2>1, <2>3 DEF RegistryTypeOK
<1>9. ASSUME NEW c \in Clients, Classify(c)
      PROVE  RegistryTypeOK'
  <2>1. client' \in [Clients -> [slot : Slots, held : Nat,
                                  step : {"idle", "in", "reload", "verify", "classify"}]]
    BY <1>4, <1>9, ClientTypes DEF Classify
  <2> QED
    BY <1>3, <1>9, <2>1 DEF Classify, RegistryTypeOK
<1>10. ASSUME NEW s \in Slots, DeleteByID(s)
       PROVE  RegistryTypeOK'
  BY <1>2, <1>10 DEF DeleteByID, RegistryTypeOK
<1>11. CASE Tick
  <2>1. \A s \in Slots : Older(agents[s].age) \in 0 .. MaxAge
    <3> SUFFICES ASSUME NEW s \in Slots
                 PROVE  Older(agents[s].age) \in 0 .. MaxAge
      OBVIOUS
    <3>1. agents[s].age \in 0 .. MaxAge
      BY <1>1
    <3> QED
      BY <1>0, <3>1 DEF Older
  <2>2. \A s \in Slots : [agents[s] EXCEPT !.age = Older(agents[s].age)] \in AgedRow
    BY <1>1, <2>1
  <2>3. agents' \in [Slots -> AgedRow]
    BY <1>0, <1>11, <2>2 DEF Tick
  <2>4. sweep' \in [on : BOOLEAN, since : 0 .. SweepDelay]
    BY <1>0, <1>11 DEF Tick, RegistryTypeOK
  <2> QED
    BY <1>11, <2>3, <2>4 DEF Tick, RegistryTypeOK
<1>12. CASE Cut \/ DeleteHeartbeatBefore \/ SweepFails
  <2>1. sweep' \in [on : BOOLEAN, since : 0 .. SweepDelay]
    <3>1. 0 \in 0 .. SweepDelay
      BY <1>0
    <3>2. \E on \in BOOLEAN : sweep' = [on |-> on, since |-> 0]
      BY <1>12 DEF Cut, DeleteHeartbeatBefore, SweepFails, Resting
    <3> QED
      BY <3>1, <3>2
  <2>2. agents' \in [Slots -> AgedRow] /\ UNCHANGED <<nextId, client, missed>>
    BY <1>2, <1>12 DEF Cut, DeleteHeartbeatBefore, SweepFails, RegistryTypeOK
  <2> QED
    BY <2>1, <2>2 DEF RegistryTypeOK
<1> QED
  BY <1>5, <1>6, <1>7, <1>8, <1>9, <1>10, <1>11, <1>12 DEF RegistryNext, Request

LEMMA AccountsKinds ==
  ASSUME [Next]_vars
  PROVE  accountVars' = accountVars \/ AccountsNext
<1>1. CASE Ask
  BY <1>1 DEF Ask, AccountsNext
<1>2. CASE EndAsk \/ RunOut
  BY <1>2 DEF EndAsk, RunOut, AccountsNext
<1>3. CASE RemoveAgent \/ Clock \/ StartSweep \/ Sweep \/ MissSweep \/ Wait
  BY <1>3 DEF RemoveAgent, Clock, StartSweep, Sweep, MissSweep, Wait
<1>4. CASE \E c \in Clients : Call(c) \/ Serve(c)
  BY <1>4 DEF Call, Serve
<1>5. CASE \E i \in Instances : Start(i) \/ Run(i)
  BY <1>5 DEF Start, Run
<1>6. CASE vars' = vars
  BY <1>6 DEF vars
<1> QED
  BY <1>1, <1>2, <1>3, <1>4, <1>5, <1>6 DEF Next

\* Accounts, keys, rows of agents and the broker's keys keep their types.
THEOREM TypeCorrect == Spec => []TypeOK
<1>1. Init => AccountsTypeOK /\ RegistryTypeOK
  <2> SUFFICES ASSUME Init
               PROVE  AccountsTypeOK /\ RegistryTypeOK
    OBVIOUS
  <2>1. AccountsTypeOK
    BY DEF Init, AccountsInit, AccountsTypeOK
  <2>2. PICK who \in [Clients -> Slots] : RegistryInit(who)
    BY AccessAssumption DEF Init, PlanType
  <2>3. 0 \in 0 .. MaxAge /\ 0 \in 0 .. SweepDelay
    BY RegistryAssumption DEF MaxAge
  <2>4. RegistryTypeOK
    BY <2>2, <2>3 DEF RegistryInit, RegistryTypeOK, NoRow, NoId, Resting
  <2> QED
    BY <2>1, <2>4
<1>2. AccountsTypeOK /\ [Next]_vars => AccountsTypeOK'
  <2>1. AccountsTypeOK /\ accountVars' = accountVars => AccountsTypeOK'
    BY DEF accountVars, AccountsTypeOK
  <2> QED
    BY <2>1, AccountsStep, AccountsKinds
<1>3. RegistryTypeOK /\ [Next]_vars => RegistryTypeOK'
  <2>1. RegistryTypeOK /\ registryVars' = registryVars => RegistryTypeOK'
    BY DEF registryVars, RegistryTypeOK
  <2> QED
    BY <2>1, RegistryTypeStep, NextKinds
<1>4. AccountsTypeOK /\ RegistryTypeOK /\ BrokerInv => TypeOK
  BY DEF TypeOK, BrokerInv
<1> QED
  BY <1>1, <1>2, <1>3, <1>4, BrokerSpec, PTL DEF Spec

=============================================================================
