------------------------------ MODULE Accounts ------------------------------
(***************************************************************************)
(* User accounts, roles, who holds which role and what a role grants, as   *)
(* administrators edit them (backend/app/modules/auth/service.py; the rows *)
(* of casbin_rule are written by core/authorization/service.py), and the   *)
(* closure of a role's codes over the page graph (core/permissions.py).    *)
(*                                                                         *)
(* A request is one READ COMMITTED transaction; its steps are its unlocked *)
(* reads, its waits for the row of a role or of a user, and its COMMIT.    *)
(***************************************************************************)
EXTENDS Integers, FiniteSets

CONSTANTS
    Admins,     \* concurrent requests (bound)
    Users,      \* accounts
    BuiltIn,    \* the account with PROTECTED_SYSTEM_ADMIN_IDENTITY
    Roles,      \* role codes
    SuperAdmin, \* SUPER_ADMIN_ROLE
    Codes,      \* permission codes
    Pages,      \* PAGE_PERMISSION_CODES
    Grants,     \* PAGE_PERMISSION_GRANTS: what a code declares
    Order,      \* the position of a page in PAGE_PERMISSION_GRANTS
    Offers,     \* the sets of codes a screen submits (bound)
    MaxAdmin,   \* requests that ever start (bound)
    NoAdmin     \* the holder of a lock nobody holds

ASSUME AccountsAssumption ==
    /\ BuiltIn \in Users /\ SuperAdmin \in Roles
    /\ Pages \subseteq Codes /\ Offers \subseteq SUBSET Codes
    /\ Grants \in [Codes -> SUBSET Codes]
    /\ Order \in [Pages -> Nat] /\ \A p, q \in Pages : Order[p] = Order[q] => p = q
    /\ NoAdmin \notin Admins
    /\ MaxAdmin \in Nat

VARIABLES
    users,     \* status of the row of users
    roles,     \* status of the row of roles
    holds,     \* rows "g" of casbin_rule: who holds which role
    grants,    \* rows "p" of casbin_rule: what a role other than SuperAdmin grants
    userLock,  \* the request holding the row of each user
    roleLock,  \* the request holding the row of each role
    admin,     \* where each request is
    seen,      \* what it was asked and has read
    commanded  \* how many requests have started

directory == <<users, roles, holds, grants>>
directoryLocks == <<userLock, roleLock>>
accountVars == <<directory, directoryLocks, admin, seen, commanded>>

(* The number of a deleted account is not given again, the code of a       *)
(* deleted role may be.                                                    *)
RowStatus == {"ABSENT", "ACTIVE", "INACTIVE", "DELETED"}
Gone == {"ABSENT", "DELETED"}
AdminSteps == {"idle", "edit", "status", "erase", "drop", "create", "assign", "assigned",
               "locked", "deactivate", "delete"}
(* by: the account that asks; user, role, codes, set: what it asks for;    *)
(* current: what the role granted; rows: the rows it will delete.          *)
Seen == [by : Users, user : Users, role : Roles, new : SUBSET Roles,
         op : {"replace", "grant", "revoke"}, codes : SUBSET Codes,
         current : SUBSET Codes, rows : SUBSET (Users \X Roles)]
NotSeen == [by |-> BuiltIn, user |-> BuiltIn, role |-> SuperAdmin, new |-> {}, op |-> "replace",
            codes |-> {}, current |-> {}, rows |-> {}]

RolesOf(u) == {r \in Roles : <<u, r>> \in holds}
HoldersOf(r) == {u \in Users : <<u, r>> \in holds}
IsAdmin(u) == SuperAdmin \in RolesOf(u)
(* Mutant: the built-in account is like any other.                         *)
UnprotectedAll(u) == FALSE
Protected(u) == u = BuiltIn
RoleFree(a, r) == roleLock[r] \in {a, NoAdmin}
UserFree(a, u) == userLock[u] \in {a, NoAdmin}

Command(a, step, read) ==
    /\ admin[a] = "idle" /\ commanded < MaxAdmin
    /\ users[read.by] = "ACTIVE"
    /\ commanded' = commanded + 1
    /\ admin' = [admin EXCEPT ![a] = step]
    /\ seen' = [seen EXCEPT ![a] = read]
AdminGoes(a, step, read) ==
    /\ admin' = [admin EXCEPT ![a] = step]
    /\ seen' = [seen EXCEPT ![a] = read]
    /\ UNCHANGED commanded
AdminEnds(a) ==
    /\ AdminGoes(a, "idle", NotSeen)
    /\ userLock' = [u \in Users |-> IF userLock[u] = a THEN NoAdmin ELSE userLock[u]]
    /\ roleLock' = [r \in Roles |-> IF roleLock[r] = a THEN NoAdmin ELSE roleLock[r]]
-----------------------------------------------------------------------------
(* compile_role_permissions: what the codes declare, what the pages among  *)
(* those declare, and for each capability the first page that grants       *)
(* nothing that is not granted already.                                    *)
DeclaredBy(codes) == UNION {Grants[c] : c \in codes}
(* Mutant: a page is implied by any capability it grants.                  *)
ImpliedByAny(c, covered) == {p \in Pages : c \in Grants[p]}
ImpliedBy(c, covered) == {p \in Pages : c \in Grants[p] /\ Grants[p] \subseteq covered}
Compile(codes) ==
    LET declared == DeclaredBy(codes)
        covered == codes \cup declared \cup DeclaredBy(declared \cap Pages)
    IN covered \cup {p \in Pages : \E c \in covered \ Pages :
           /\ p \in ImpliedBy(c, covered)
           /\ \A q \in ImpliedBy(c, covered) : Order[p] <= Order[q]}
(* resolve_role_codes: a code a chosen page grants is derived again.       *)
Resolve(codes) ==
    LET pages == codes \cap Pages
    IN Compile(pages \cup (codes \ DeclaredBy(pages)))
(* What is stored for a role that granted "current".                       *)
Outcome(op, current, codes) ==
    CASE op = "replace" -> Resolve(codes)
      [] op = "grant" -> Resolve(current \cup codes)
      [] op = "revoke" -> Resolve(current \ UNION {{c} \cup Compile({c}) : c \in codes})
-----------------------------------------------------------------------------
(* Mutant: the role is read without the lock.                              *)
LockRoleUnlocked(a) == \E by \in Users, r \in Roles \ {SuperAdmin}, codes \in Offers :
    /\ roles[r] # "ABSENT"
    /\ \E op \in {"replace", "grant", "revoke"} :
          Command(a, "edit", [NotSeen EXCEPT !.by = by, !.role = r, !.op = op, !.codes = codes,
                                             !.current = grants[r]])
    /\ UNCHANGED <<directory, directoryLocks>>
(* update_role with permissions, replace_, grant_ and revoke_role_         *)
(* permissions: _locked_role, then the codes stored now are read.          *)
LockRole(a) == \E by \in Users, r \in Roles \ {SuperAdmin}, codes \in Offers :
    /\ roles[r] # "ABSENT" /\ RoleFree(a, r)
    /\ \E op \in {"replace", "grant", "revoke"} :
          Command(a, "edit", [NotSeen EXCEPT !.by = by, !.role = r, !.op = op, !.codes = codes,
                                             !.current = grants[r]])
    /\ roleLock' = [roleLock EXCEPT ![r] = a]
    /\ UNCHANGED <<directory, userLock>>
(* sync_role_permissions and the COMMIT.                                   *)
CommitGrants(a) ==
    /\ admin[a] = "edit"
    /\ grants' = [grants EXCEPT ![seen[a].role] =
                     Outcome(seen[a].op, seen[a].current, seen[a].codes)]
    /\ AdminEnds(a)
    /\ UNCHANGED <<users, roles, holds>>
(* update_role with a status: a role that active users hold stays active,  *)
(* as far as the rows read say so.                                         *)
LockRoleStatus(a) == \E by \in Users, r \in Roles \ {SuperAdmin} :
    /\ roles[r] # "ABSENT" /\ RoleFree(a, r)
    /\ roles[r] = "ACTIVE" => \A u \in HoldersOf(r) : users[u] # "ACTIVE"
    /\ Command(a, "status", [NotSeen EXCEPT !.by = by, !.role = r])
    /\ roleLock' = [roleLock EXCEPT ![r] = a]
    /\ UNCHANGED <<directory, userLock>>
CommitRoleStatus(a) ==
    /\ admin[a] = "status"
    /\ roles' = [roles EXCEPT ![seen[a].role] = IF @ = "ACTIVE" THEN "INACTIVE" ELSE "ACTIVE"]
    /\ AdminEnds(a)
    /\ UNCHANGED <<users, holds, grants>>
(* duplicate_role offers the codes of another role.                        *)
Duplicates == {grants[o] : o \in Roles}
(* create_role.                                                            *)
CreateRole(a) == \E by \in Users, r \in Roles, codes \in Offers \cup Duplicates :
    /\ roles[r] = "ABSENT" /\ RoleFree(a, r)
    /\ admin[a] = "idle" /\ commanded < MaxAdmin /\ users[by] = "ACTIVE"
    /\ commanded' = commanded + 1
    /\ roles' = [roles EXCEPT ![r] = "ACTIVE"]
    /\ grants' = [grants EXCEPT ![r] = Resolve(codes)]
    /\ UNCHANGED <<users, holds, directoryLocks, admin, seen>>
(* delete_roles: inactive, held by nobody, as far as unlocked reads say so.*)
ReadRoleDeletion(a) == \E by \in Users, r \in Roles \ {SuperAdmin} :
    /\ roles[r] = "INACTIVE" /\ HoldersOf(r) = {}
    /\ Command(a, "erase", [NotSeen EXCEPT !.by = by, !.role = r])
    /\ UNCHANGED <<directory, directoryLocks>>
(* delete_role_policies: what these statements find, they delete.          *)
EraseRole(a) ==
    LET r == seen[a].role
    IN /\ admin[a] = "erase" /\ RoleFree(a, r)
       /\ AdminGoes(a, "drop", [seen[a] EXCEPT !.current = grants[r],
                                               !.rows = HoldersOf(r) \X {r}])
       /\ UNCHANGED <<directory, directoryLocks>>
DropRole(a) ==
    LET r == seen[a].role
    IN /\ admin[a] = "drop" /\ RoleFree(a, r)
       /\ roles' = [roles EXCEPT ![r] = "ABSENT"]
       /\ grants' = [grants EXCEPT ![r] = @ \ seen[a].current]
       /\ holds' = holds \ seen[a].rows
       /\ AdminEnds(a)
       /\ UNCHANGED users
-----------------------------------------------------------------------------
(* A role is given by those who may: SuperAdmin only by one of its kind.   *)
MayTouch(by, touched) == SuperAdmin \in touched => IsAdmin(by)
(* The role asked for is there and active when it is read (_load_roles).   *)
Requestable(r) == roles[r] = "ACTIVE"
(* create_user.                                                            *)
ReadNewUser(a) == \E by, u \in Users, r \in Roles :
    /\ users[u] = "ABSENT" /\ Requestable(r) /\ MayTouch(by, {r})
    /\ Command(a, "create", [NotSeen EXCEPT !.by = by, !.user = u, !.new = {r}])
    /\ UNCHANGED <<directory, directoryLocks>>
InsertUser(a) ==
    LET u == seen[a].user
    IN /\ admin[a] = "create" /\ users[u] = "ABSENT"
       /\ users' = [users EXCEPT ![u] = "ACTIVE"]
       /\ holds' = holds \cup ({u} \X seen[a].new)
       /\ AdminEnds(a)
       /\ UNCHANGED <<roles, grants>>
(* update_user with a role, assign_role, and remove_role, which leaves     *)
(* none: the built-in account keeps its role, nobody changes their own.    *)
ReadAssignment(a) == \E by, u \in Users, new \in {{}} \cup {{r} : r \in Roles} :
    /\ users[u] \notin Gone /\ by # u /\ ~Protected(u)
    /\ \A r \in new : Requestable(r)
    /\ new # RolesOf(u) /\ MayTouch(by, new \cup RolesOf(u))
    /\ Command(a, "assign", [NotSeen EXCEPT !.by = by, !.user = u, !.new = new])
    /\ UNCHANGED <<directory, directoryLocks>>
(* _assert_super_admin_remains: under the lock of the row of SuperAdmin.   *)
OthersAdminister(u) == \E o \in HoldersOf(SuperAdmin) \ {u} : users[o] = "ACTIVE"
AdminRemains(u) == SuperAdmin \in RolesOf(u) => OthersAdminister(u)
CheckAssignment(a) ==
    /\ admin[a] = "assign"
    /\ IF SuperAdmin \in seen[a].new THEN UNCHANGED roleLock
       ELSE /\ RoleFree(a, SuperAdmin) /\ AdminRemains(seen[a].user)
            /\ roleLock' = [roleLock EXCEPT ![SuperAdmin] = a]
    /\ AdminGoes(a, "assigned", seen[a])
    /\ UNCHANGED <<directory, userLock>>
(* Mutant: the row of the user is not locked.                              *)
LockUserUnlocked(a) ==
    LET u == seen[a].user
    IN /\ admin[a] = "assigned"
       /\ AdminGoes(a, "locked", [seen[a] EXCEPT !.rows = {u} \X RolesOf(u)])
       /\ UNCHANGED <<directory, directoryLocks>>
(* _apply_user_roles locks the row of the user, then deletes its rows.     *)
LockUser(a) ==
    LET u == seen[a].user
    IN /\ admin[a] = "assigned" /\ UserFree(a, u)
       /\ userLock' = [userLock EXCEPT ![u] = a]
       /\ AdminGoes(a, "locked", [seen[a] EXCEPT !.rows = {u} \X RolesOf(u)])
       /\ UNCHANGED <<directory, roleLock>>
CommitAssignment(a) ==
    /\ admin[a] = "locked"
    /\ holds' = (holds \ seen[a].rows) \cup ({seen[a].user} \X seen[a].new)
    /\ AdminEnds(a)
    /\ UNCHANGED <<users, roles, grants>>
(* update_user with a status.                                              *)
ReadDeactivation(a) == \E by, u \in Users :
    /\ users[u] = "ACTIVE" /\ by # u /\ ~Protected(u) /\ MayTouch(by, RolesOf(u))
    /\ RoleFree(a, SuperAdmin) /\ AdminRemains(u)
    /\ Command(a, "deactivate", [NotSeen EXCEPT !.by = by, !.user = u])
    /\ roleLock' = [roleLock EXCEPT ![SuperAdmin] = a]
    /\ UNCHANGED <<directory, userLock>>
CommitDeactivation(a) ==
    LET u == seen[a].user
    IN /\ admin[a] = "deactivate" /\ UserFree(a, u)
       /\ users' = [users EXCEPT ![u] = IF @ \in Gone THEN @ ELSE "INACTIVE"]
       /\ AdminEnds(a)
       /\ UNCHANGED <<roles, holds, grants>>
ReactivateUser(a) == \E by, u \in Users :
    /\ users[u] = "INACTIVE" /\ UserFree(a, u)
    /\ admin[a] = "idle" /\ commanded < MaxAdmin /\ users[by] = "ACTIVE"
    /\ commanded' = commanded + 1
    /\ users' = [users EXCEPT ![u] = "ACTIVE"]
    /\ UNCHANGED <<roles, holds, grants, directoryLocks, admin, seen>>
(* delete_users: inactive accounts, neither built in nor one's own.        *)
ReadUserDeletion(a) == \E by, u \in Users :
    /\ users[u] = "INACTIVE" /\ by # u /\ ~Protected(u) /\ AdminRemains(u)
    /\ Command(a, "delete", [NotSeen EXCEPT !.by = by, !.user = u, !.rows = {u} \X RolesOf(u)])
    /\ UNCHANGED <<directory, directoryLocks>>
DeleteUser(a) ==
    LET u == seen[a].user
    IN /\ admin[a] = "delete" /\ UserFree(a, u)
       /\ \E o \in Users \ {u} : users[o] \notin Gone
       /\ users' = [users EXCEPT ![u] = "DELETED"]
       /\ holds' = holds \ seen[a].rows
       /\ AdminEnds(a)
       /\ UNCHANGED <<roles, grants>>
-----------------------------------------------------------------------------
(* A later check fails or the connection breaks: ROLLBACK.                 *)
AbandonCommand(a) == admin[a] # "idle" /\ AdminEnds(a) /\ UNCHANGED directory

(* A seeded directory: the built-in account and another administrator.     *)
AccountsInit ==
    /\ users \in {f \in [Users -> RowStatus \ {"DELETED"}] : f[BuiltIn] = "ACTIVE"}
    /\ roles = [r \in Roles |-> "ACTIVE"]
    /\ \E rest \in SUBSET {u \in Users \ {BuiltIn} : users[u] # "ABSENT"} :
          holds = ({BuiltIn} \cup rest) \X {SuperAdmin}
    /\ grants = [r \in Roles |-> {}]
    /\ userLock = [u \in Users |-> NoAdmin]
    /\ roleLock = [r \in Roles |-> NoAdmin]
    /\ admin = [a \in Admins |-> "idle"]
    /\ seen = [a \in Admins |-> NotSeen]
    /\ commanded = 0
Administer(a) ==
    \/ LockRole(a) \/ CommitGrants(a) \/ LockRoleStatus(a) \/ CommitRoleStatus(a)
    \/ CreateRole(a) \/ ReadRoleDeletion(a) \/ EraseRole(a) \/ DropRole(a)
    \/ ReadNewUser(a) \/ InsertUser(a)
    \/ ReadAssignment(a) \/ CheckAssignment(a) \/ LockUser(a) \/ CommitAssignment(a)
    \/ ReadDeactivation(a) \/ CommitDeactivation(a) \/ ReactivateUser(a)
    \/ ReadUserDeletion(a) \/ DeleteUser(a)
    \/ AbandonCommand(a)
AccountsNext == \E a \in Admins : Administer(a)
AccountsSpec == AccountsInit /\ [][AccountsNext]_accountVars
-----------------------------------------------------------------------------
(* Every variable holds what its table or its process may hold.            *)
AccountsTypeOK ==
    /\ users \in [Users -> RowStatus] /\ roles \in [Roles -> RowStatus]
    /\ holds \subseteq Users \X Roles
    /\ grants \in [Roles -> SUBSET Codes]
    /\ userLock \in [Users -> Admins \cup {NoAdmin}]
    /\ roleLock \in [Roles -> Admins \cup {NoAdmin}]
    /\ admin \in [Admins -> AdminSteps] /\ seen \in [Admins -> Seen]
    /\ commanded \in 0 .. MaxAdmin

(* "A user holds exactly one role": two administrators who give a user a   *)
(* role at once never leave it both (_apply_user_roles).                   *)
OneRoleEach == \A u \in Users : Cardinality(RolesOf(u)) <= 1

(* "At least one Super Administrator must remain": whatever commands       *)
(* overlap, an active account holds the role.                              *)
SuperAdminRemains == \E u \in HoldersOf(SuperAdmin) : users[u] = "ACTIVE"

(* What a role grants changes by one command at a time, applied to what is *)
(* stored at its COMMIT: no concurrent grant or revocation is lost.        *)
GrantsAreSerial ==
    [][\A r \in Roles : grants'[r] # grants[r] =>
          \/ "ABSENT" \in {roles[r], roles'[r]}
          \/ \E a \in Admins : /\ seen[a].role = r
                               /\ grants'[r] = Outcome(seen[a].op, grants[r], seen[a].codes)]_accountVars

(* "Saving the same selection twice produces the same policy set": what a  *)
(* role stores is what storing it again would store.                       *)
SavingAgainChangesNothing ==
    \A r \in Roles : roles[r] # "ABSENT" => Resolve(grants[r]) = grants[r]
=============================================================================
