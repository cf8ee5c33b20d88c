--------------------------- MODULE MemberAccounts ---------------------------
(***************************************************************************)
(* Accounts and the role hierarchy: application/auth/usecase.go over the   *)
(* table members, and the seeding of the super admin in cmd/api/main.go.   *)
(*                                                                         *)
(* A management request reads its actor, then its target, then writes: one *)
(* statement each, with no transaction around them, so that requests of    *)
(* two administrators (and of two instances) interleave.  Update writes    *)
(* role_id and active together, from the row that was read.  A token names *)
(* its member and nothing else the use cases trust: any account may be the *)
(* actor of a request at any time.  Passwords and profiles are left out:   *)
(* their statements touch neither role_id nor active.                      *)
(***************************************************************************)
EXTENDS Naturals, FiniteSets

CONSTANTS
    MemberIds,  \* the UUIDs that will ever be drawn (bounds the accounts created)
    Usernames,
    SeedName,   \* cfg.Auth.SeedAdminUsername, the same on every instance
    Procs,      \* request goroutines and starting instances that may run at once
    NoMemberId,       \* "": no account
    NoName      \* "": no username

ASSUME MemberAssumption ==
    /\ SeedName \in Usernames
    /\ NoMemberId \notin MemberIds
    /\ NoName \notin Usernames

VARIABLES
    fresh,      \* UUIDs not drawn yet
    row,        \* members: the row of every id, or NoMember
    req         \* per goroutine: where its handler is, and the handler's locals

memberVars == <<fresh, row, req>>

User == 0
Admin == 1
SuperAdmin == 2
Levels == {User, Admin, SuperAdmin}

Row == [name : Usernames, level : Levels, active : BOOLEAN]
NoMember == [name |-> NoName, level |-> User, active |-> FALSE]

PCs == {"idle", "create_find", "create_save",
        "role_target", "role_write", "active_target", "active_write",
        "delete_target", "delete_write", "boot_save"}

\* level: the actor's, as read; target and copy: the row the handler read;
\* name, to, on: the command's arguments.
Handling == [pc : PCs, actor : MemberIds \cup {NoMemberId}, level : Levels,
            target : MemberIds \cup {NoMemberId}, copy : Row \cup {NoMember},
            name : Usernames \cup {NoName}, to : Levels, on : BOOLEAN]

Idle == [pc |-> "idle", actor |-> NoMemberId, level |-> User, target |-> NoMemberId, copy |-> NoMember,
         name |-> NoName, to |-> User, on |-> FALSE]

MemberInit ==
    /\ fresh = MemberIds
    /\ row = [m \in MemberIds |-> NoMember]
    /\ req = [p \in Procs |-> Idle]

-----------------------------------------------------------------------------

Doing(p, pc) == req[p].pc = pc
Return(p) == req' = [req EXCEPT ![p] = Idle]
Refuse(p) == Return(p) /\ UNCHANGED <<fresh, row>>
Registered(m) == row[m] # NoMember
NameTaken(n) == \E m \in MemberIds : Registered(m) /\ row[m].name = n

\* Bug: a level controls its own.
CanControlPeers(level, target) == level >= target

\* RoleLevel.CanControl: only a higher level controls.
CanControl(level, target) == level > target

\* RequireActiveMember, and the level RequireAdmin and requireControl ask for.
ActsAsAdmin(a) == Registered(a) /\ row[a].active /\ row[a].level >= Admin

\* Bug: username is not UNIQUE.
InsertAnyName(n, l) ==
    \E m \in fresh :
        /\ fresh' = fresh \ {m}
        /\ row' = [row EXCEPT ![m] = [name |-> n, level |-> l, active |-> TRUE]]

\* INSERT of a new row: the primary key is new and username is UNIQUE.
Insert(n, l) ==
    \E m \in fresh :
        /\ ~ NameTaken(n)
        /\ fresh' = fresh \ {m}
        /\ row' = [row EXCEPT ![m] = [name |-> n, level |-> l, active |-> TRUE]]

\* Bug: the row is written whether or not it still exists.
UpsertRow(m, r) == row' = [row EXCEPT ![m] = r]

\* UPDATE ... SET role_id, active WHERE id: no effect on a row that is gone.
UpdateRow(m, r) == row' = IF Registered(m) THEN [row EXCEPT ![m] = r] ELSE row

-----------------------------------------------------------------------------
(* CreateMember *)

CreateCheck(p, a, n, l) ==
    /\ Doing(p, "idle")
    /\ ActsAsAdmin(a)
    /\ CanControl(row[a].level, l)
    /\ req' = [req EXCEPT ![p] = [Idle EXCEPT !.pc = "create_find", !.actor = a,
                                              !.level = row[a].level, !.name = n, !.to = l]]
    /\ UNCHANGED <<fresh, row>>

\* A lookup that fails counts as a name that is not taken.
CreateFind(p) ==
    /\ Doing(p, "create_find")
    /\ \/ NameTaken(req[p].name) /\ Return(p)
       \/ req' = [req EXCEPT ![p].pc = "create_save"]
    /\ UNCHANGED <<fresh, row>>

CreateSave(p) ==
    /\ Doing(p, "create_save")
    /\ Insert(req[p].name, req[p].to)
    /\ Return(p)

-----------------------------------------------------------------------------
(* ChangeRole, SetActive, DeleteMember *)

\* requireControl's first statement: the actor.
ControlActor(p, pc, a, m, l, on) ==
    /\ Doing(p, "idle")
    /\ ActsAsAdmin(a)
    /\ m \notin fresh
    /\ req' = [req EXCEPT ![p] = [Idle EXCEPT !.pc = pc, !.actor = a, !.level = row[a].level,
                                              !.target = m, !.to = l, !.on = on]]
    /\ UNCHANGED <<fresh, row>>

\* Its second: the target.
ControlTarget(p, pc, next) ==
    /\ Doing(p, pc)
    /\ LET r == row[req[p].target]
       IN  IF r # NoMember /\ CanControl(req[p].level, r.level)
           THEN req' = [req EXCEPT ![p].pc = next, ![p].copy = r]
           ELSE Return(p)
    /\ UNCHANGED <<fresh, row>>

ChangeRole(p, a, m, l) == ControlActor(p, "role_target", a, m, l, FALSE)

\* Bug: the new role is not compared with the actor's.
RoleTargetAnyRole(p) == ControlTarget(p, "role_target", "role_write")

\* The new role must be the actor's to give as well.
RoleTarget(p) ==
    \/ /\ CanControl(req[p].level, req[p].to)
       /\ ControlTarget(p, "role_target", "role_write")
    \/ /\ Doing(p, "role_target")
       /\ ~ CanControl(req[p].level, req[p].to)
       /\ Refuse(p)

RoleWrite(p) ==
    /\ Doing(p, "role_write")
    /\ UpdateRow(req[p].target, [req[p].copy EXCEPT !.level = req[p].to])
    /\ Return(p)
    /\ UNCHANGED fresh

SetActive(p, a, m, on) == ControlActor(p, "active_target", a, m, User, on)
ActiveTarget(p) == ControlTarget(p, "active_target", "active_write")

ActiveWrite(p) ==
    /\ Doing(p, "active_write")
    /\ UpdateRow(req[p].target, [req[p].copy EXCEPT !.active = req[p].on])
    /\ Return(p)
    /\ UNCHANGED fresh

DeleteMember(p, a, m) == ControlActor(p, "delete_target", a, m, User, FALSE)
DeleteTarget(p) == ControlTarget(p, "delete_target", "delete_write")

DeleteWrite(p) ==
    /\ Doing(p, "delete_write")
    /\ row' = [row EXCEPT ![req[p].target] = NoMember]
    /\ Return(p)
    /\ UNCHANGED fresh

-----------------------------------------------------------------------------
(* Starting an instance *)

SuperAdmins == {m \in MemberIds : row[m].level = SuperAdmin}

\* ensureSuperAdmin lists the super admins and does nothing if there is one.
BootList(p) ==
    /\ Doing(p, "idle")
    /\ SuperAdmins = {}
    /\ req' = [req EXCEPT ![p] = [Idle EXCEPT !.pc = "boot_save"]]
    /\ UNCHANGED <<fresh, row>>

\* Bug: no default for an unset SeedAdminUsername.
BootSaveUnnamed(p) ==
    /\ Doing(p, "boot_save")
    /\ Insert(NoName, SuperAdmin)
    /\ Return(p)

BootSave(p) ==
    /\ Doing(p, "boot_save")
    /\ Insert(SeedName, SuperAdmin)
    /\ Return(p)

\* A statement fails (an insert of a taken username among them) or the process
\* dies: the handler returns the error, the seeding logs it, nothing was written.
Fail(p) == ~ Doing(p, "idle") /\ Refuse(p)

-----------------------------------------------------------------------------

MemberNext ==
    \E p \in Procs :
        \/ \E a \in MemberIds, n \in Usernames, l \in Levels : CreateCheck(p, a, n, l)
        \/ \E a, m \in MemberIds, l \in Levels : ChangeRole(p, a, m, l)
        \/ \E a, m \in MemberIds, on \in BOOLEAN : SetActive(p, a, m, on)
        \/ \E a, m \in MemberIds : DeleteMember(p, a, m)
        \/ CreateFind(p) \/ CreateSave(p)
        \/ RoleTarget(p) \/ RoleWrite(p)
        \/ ActiveTarget(p) \/ ActiveWrite(p)
        \/ DeleteTarget(p) \/ DeleteWrite(p)
        \/ BootList(p) \/ BootSave(p)
        \/ Fail(p)

MemberSpec == MemberInit /\ [][MemberNext]_memberVars

-----------------------------------------------------------------------------
(* Properties *)

\* Rows and locals have the shapes the Go types give them.
MemberTypeOK ==
    /\ fresh \subseteq MemberIds
    /\ row \in [MemberIds -> Row \cup {NoMember}]
    /\ req \in [Procs -> Handling]

\* usecase.go:146: two accounts never share a username, whichever requests race.
UsernamesUnique ==
    \A m, n \in MemberIds : Registered(m) /\ Registered(n) /\ row[m].name = row[n].name => m = n

\* Instances that start together on an empty database seed one super admin, and
\* no request makes a second.
AtMostOneSuperAdmin == \A m, n \in SuperAdmins : m = n

\* model.go:36: nobody controls a super admin.  His row is never changed, switched
\* off or deleted, not even by a write that was authorised on an older row.
SuperAdminsUntouched ==
    [][\A m \in SuperAdmins : row'[m] = row[m]]_row

\* An account becomes an administrator only by a write of the super admin.
OnlySuperAdminsRaise ==
    [][\A m \in MemberIds :
         row'[m].level = Admin /\ row[m].level # Admin =>
            \E p \in Procs : req[p].actor \in SuperAdmins /\ req'[p] # req[p]]_memberVars

\* An account that was deleted does not come back by a write prepared before.
DeletedStayDeleted ==
    [][\A m \in MemberIds \ fresh : ~ Registered(m) => row'[m] = NoMember]_memberVars

=============================================================================
