----------------------------- MODULE Bootstrap -----------------------------
(***************************************************************************)
(* How an instance comes up: the ability cache is filled while onModuleInit *)
(* seeds the roles, their permissions, the account of admin.email and the  *)
(* templates, each only where it finds none; then requests are served, and *)
(* the guard answers from the cache.  Several instances share one database *)
(* and may start, crash and start again at any time.                       *)
(***************************************************************************)
EXTENDS Naturals, Sequences

CONSTANTS
    Instance,
    MaxRoles,     \* bound: rows of user_role
    User,         \* rows of user; Account is the one with admin.email
    Account,
    Templates,    \* things seeded one by one: the notification templates (1), then each mail template
    MaxStarts,    \* bound: starts of instances
    MaxEvents,    \* bound: changes made through the API and rejected calls of starts, together
    NoUser

Type == {"admin", "moderator", "user", "public"}
SeedType == {"admin", "moderator", "user"}    \* rolesConfig: one role of each, named after it
RoleName == SeedType \cup {"custom"}
RoleRow == [name : RoleName, type : Type, deleted : BOOLEAN]
UserRow == [role : 1..MaxRoles, deleted : BOOLEAN]
Template == 1..Templates

ASSUME BootstrapAssumption ==
    /\ Templates \in Nat \ {0} /\ MaxStarts \in Nat /\ MaxEvents \in Nat
    /\ MaxRoles \in Nat /\ Account \in User /\ NoUser \notin UserRow

\* rolePermissionsConfig, as far as the operations below ask for it.
Granted ==
    [admin |-> {"userCreate", "userUpdate", "userDelete", "userRoles"},
     moderator |-> {"userUpdate"}, user |-> {}, public |-> {}]

VARIABLES
    role,         \* the rows of user_role, in the order of their ids
    user,         \* the rows of user, NoUser where there is none
    grants,       \* copies of rolePermissionsConfig in role_permission
    stored,       \* templates in the database
    absent,       \* reads that found nothing, as the query cache remembers them
    pc,           \* how far each instance has come
    at,           \* which template it is at
    moderator,    \* the role it has found for the account, or 0
    filling,      \* fillAbilities is under way
    ability,      \* its ability cache: abilities of the seeded permissions, of none, or no entry
    starts, edits, rejected,
    collided,     \* history: two instances have seeded the same thing, or a stale read was believed
    hit,          \* history: instances whose present start had a call rejected that it could not ignore
    reseeded,     \* history: a failed count was taken for "no permissions" while there were some
    promoted      \* history: the account was made an admin while nobody was seeding it

vars == <<role, user, grants, stored, absent, pc, at, moderator, filling, ability,
          starts, edits, rejected, collided, hit, reseeded, promoted>>
rows == <<role, user, grants, stored>>
bounds == <<starts, edits>>
faults == <<rejected, hit, reseeded>>

Stage == {"down", "roles", "seedRoles", "permissions", "wipe", "grant", "admin", "moderator",
          "upsert", "find", "save", "serve", "failed"}
Roles == 1..Len(role)
LiveRoles == {i \in Roles : ~role[i].deleted}
LiveUsers == {u \in User : user[u] # NoUser /\ ~user[u].deleted}
TypeOf(u) == role[user[u].role].type
\* createForRolePermissions, over the rows a type has.
AbilityOf(t) == IF grants > 0 /\ t \in SeedType THEN "full" ELSE "empty"

Go(p, s) == pc' = [pc EXCEPT ![p] = s]
Elsewhere(p, S) == \E q \in Instance \ {p} : pc[q] \in S
-----------------------------------------------------------------------------
Init ==
    /\ role = <<>> /\ user = [u \in User |-> NoUser]
    /\ grants = 0 /\ stored = {} /\ absent = {}
    /\ pc = [p \in Instance |-> "down"]
    /\ at = [p \in Instance |-> 1]
    /\ moderator = [p \in Instance |-> 0]
    /\ filling = [p \in Instance |-> FALSE]
    /\ ability = [p \in Instance |-> [t \in Type |-> "none"]]
    /\ starts = 0 /\ edits = 0 /\ rejected = 0
    /\ hit = {} /\ reseeded = FALSE /\ collided = FALSE /\ promoted = FALSE

\* The constructor of PoliciesService calls fillAbilities and does not wait.
Start(p) ==
    /\ pc[p] \in {"down", "failed"} /\ starts < MaxStarts
    /\ starts' = starts + 1
    /\ Go(p, "roles")
    /\ filling' = [filling EXCEPT ![p] = TRUE]
    /\ hit' = hit \ {p}
    /\ UNCHANGED <<rows, absent, at, moderator, ability, edits, rejected, reseeded, collided, promoted>>

Crash(p) ==
    /\ pc[p] \notin {"down", "failed"}
    /\ Go(p, "down")
    /\ at' = [at EXCEPT ![p] = 1]
    /\ moderator' = [moderator EXCEPT ![p] = 0]
    /\ filling' = [filling EXCEPT ![p] = FALSE]
    /\ ability' = [ability EXCEPT ![p] = [t \in Type |-> "none"]]
    /\ hit' = hit \ {p}
    /\ UNCHANGED <<rows, absent, bounds, rejected, reseeded, collided, promoted>>

\* An error in onModuleInit ends the process.
Fails(p) ==
    /\ Go(p, "failed")
    /\ at' = [at EXCEPT ![p] = 1]
    /\ moderator' = [moderator EXCEPT ![p] = 0]
    /\ filling' = [filling EXCEPT ![p] = FALSE]
    /\ ability' = [ability EXCEPT ![p] = [t \in Type |-> "none"]]

Reject == edits + rejected < MaxEvents /\ rejected' = rejected + 1

\* Any call that onModuleInit awaits may be rejected, the two counts below
\* excepted; one that took effect and lost its answer is rejected in the next stage.
Rejected(p) ==
    /\ pc[p] \notin {"down", "serve", "failed"}
    /\ Reject /\ Fails(p)
    /\ hit' = hit \cup {p}
    /\ UNCHANGED <<rows, absent, bounds, reseeded, collided, promoted>>

(***************************************************************************)
(* PoliciesService                                                         *)
(***************************************************************************)
\* Mutant of FillAbilities: an entry for every type.
FillAllAbilities(p) ==
    /\ filling[p]
    /\ filling' = [filling EXCEPT ![p] = FALSE]
    /\ ability' = [ability EXCEPT ![p] = [t \in Type |-> AbilityOf(t)]]
    /\ UNCHANGED <<rows, absent, pc, at, moderator, bounds, faults, collided, promoted>>

\* fillAbilities makes entries for the types that have permissions only, and
\* none at all when its read fails.
FillAbilities(p) ==
    /\ filling[p]
    /\ filling' = [filling EXCEPT ![p] = FALSE]
    /\ \/ ability' = [ability EXCEPT ![p] =
                          [t \in Type |-> IF AbilityOf(t) = "full" THEN "full" ELSE @[t]]]
       \/ UNCHANGED ability
    /\ UNCHANGED <<rows, absent, pc, at, moderator, bounds, faults, collided, promoted>>

\* getAbilityForRole: a type without entry is read once, and what it had then
\* is its ability from then on.  (Tokens are taken to name the present role.)
RefreshAbility(p, t) ==
    /\ pc[p] = "serve" /\ ability[p][t] = "none"
    /\ \E u \in LiveUsers : t = TypeOf(u)
    /\ ability' = [ability EXCEPT ![p][t] = AbilityOf(t)]
    /\ UNCHANGED <<rows, absent, pc, at, moderator, filling, bounds, faults, collided, promoted>>

\* PoliciesGuard: a user may do what the entry of the token's role type says.
Allows(p, u, what) ==
    /\ pc[p] = "serve" /\ u \in LiveUsers
    /\ ability[p][TypeOf(u)] = "full" /\ what \in Granted[TypeOf(u)]

(***************************************************************************)
(* The query cache: the answers "there is none" are kept for a second.     *)
(***************************************************************************)
Forget(x) ==
    /\ x \in absent /\ absent' = absent \ {x}
    /\ UNCHANGED <<rows, pc, at, moderator, filling, ability, bounds, faults, collided, promoted>>

(***************************************************************************)
(* Seeding                                                                 *)
(***************************************************************************)
\* shouldRoleSeedRoles counts the roles that are not deleted.
CountRoles(p) ==
    LET none == 0 \in absent \/ LiveRoles = {}
    IN  /\ pc[p] = "roles"
        /\ Go(p, IF none THEN "seedRoles" ELSE "permissions")
        /\ absent' = IF none THEN absent \cup {0} ELSE absent
        /\ collided' = (collided \/ (none /\ (LiveRoles # {} \/ Elsewhere(p, {"seedRoles"}))))
        /\ UNCHANGED <<rows, at, moderator, filling, ability, bounds, faults, promoted>>

\* The count fails: roles are seeded all the same.
CountRolesFails(p) ==
    /\ pc[p] = "roles" /\ Reject
    /\ Go(p, "seedRoles")
    /\ hit' = IF LiveRoles = {} THEN hit ELSE hit \cup {p}
    /\ collided' = (collided \/ Elsewhere(p, {"seedRoles"}))
    /\ UNCHANGED <<rows, absent, at, moderator, filling, ability, bounds, reseeded, promoted>>

\* Mutant of SeedRoles: each role in a transaction of its own.
SeedRolesOneByOne(p) ==
    LET Missing(t) == \A i \in Roles : role[i].name # t
    IN  /\ pc[p] = "seedRoles" /\ Len(role) < MaxRoles
        /\ \E t \in SeedType :
              /\ Missing(t)
              /\ role' = Append(role, [name |-> t, type |-> t, deleted |-> FALSE])
              /\ IF \E s \in SeedType \ {t} : Missing(s) THEN UNCHANGED pc ELSE Go(p, "permissions")
        /\ UNCHANGED <<user, grants, stored, absent, at, moderator, filling, ability, bounds, faults, collided, promoted>>

\* seedRoles saves them in one transaction; names are unique, deleted or not.
Seeded(t) == [name |-> t, type |-> t, deleted |-> FALSE]
SeedRoles(p) ==
    /\ pc[p] = "seedRoles"
    /\ IF \E i \in Roles : role[i].name \in SeedType
       THEN Fails(p) /\ UNCHANGED role
       ELSE /\ Len(role) + 3 <= MaxRoles
            /\ role' = role \o <<Seeded("admin"), Seeded("moderator"), Seeded("user")>>
            /\ Go(p, "permissions")
            /\ UNCHANGED <<at, moderator, filling, ability>>
    /\ UNCHANGED <<user, grants, stored, absent, bounds, faults, collided, promoted>>

\* shouldRolePermissionsSeed, over Drizzle: not cached.
CountPermissions(p) ==
    /\ pc[p] = "permissions"
    /\ Go(p, IF grants = 0 THEN "wipe" ELSE "admin")
    /\ collided' = (collided \/ (grants = 0 /\ Elsewhere(p, {"wipe", "grant"})))
    /\ UNCHANGED <<rows, absent, at, moderator, filling, ability, bounds, faults, promoted>>

\* The count fails: what is there is deleted and created anew.
CountPermissionsFails(p) ==
    /\ pc[p] = "permissions" /\ Reject
    /\ Go(p, "wipe")
    /\ reseeded' = (reseeded \/ grants > 0)
    /\ collided' = (collided \/ (grants = 0 /\ Elsewhere(p, {"wipe", "grant"})))
    /\ UNCHANGED <<rows, absent, at, moderator, filling, ability, bounds, hit, promoted>>

\* deleteAll and createMany are two statements.
WipePermissions(p) ==
    /\ pc[p] = "wipe" /\ Go(p, "grant")
    /\ grants' = 0
    /\ UNCHANGED <<role, user, stored, absent, at, moderator, filling, ability, bounds, faults, collided, promoted>>

CreatePermissions(p) ==
    /\ pc[p] = "grant" /\ Go(p, "admin")
    /\ grants' = grants + 1
    /\ UNCHANGED <<role, user, stored, absent, at, moderator, filling, ability, bounds, faults, collided, promoted>>

\* Mutant of FindAdmin: a deleted role does not count.
FindAdminOfLiveRole(p) ==
    /\ pc[p] = "admin"
    /\ Go(p, IF \E u \in LiveUsers : TypeOf(u) = "admin" /\ user[u].role \in LiveRoles
             THEN "find" ELSE "moderator")
    /\ UNCHANGED <<rows, absent, at, moderator, filling, ability, bounds, faults, collided, promoted>>

\* findIdWithRoleType(ADMIN): a deleted role counts, a deleted user does not.
FindAdmin(p) ==
    /\ pc[p] = "admin"
    /\ Go(p, IF \E u \in LiveUsers : TypeOf(u) = "admin" THEN "find" ELSE "moderator")
    /\ UNCHANGED <<rows, absent, at, moderator, filling, ability, bounds, faults, collided, promoted>>

\* findByType(MODERATOR): a live role of that type, the oldest.
FindModerator(p) ==
    LET found == {i \in LiveRoles : role[i].type = "moderator"}
    IN  /\ pc[p] = "moderator"
        /\ IF found = {}
           THEN Fails(p)
           ELSE /\ \E i \in found : moderator' = [moderator EXCEPT ![p] = i]
                /\ Go(p, "upsert") /\ UNCHANGED <<at, filling, ability>>
        /\ UNCHANGED <<rows, absent, bounds, faults, collided, promoted>>

\* The upsert on the unique email: a deleted account stays deleted.
UpsertAccount(p) ==
    /\ pc[p] = "upsert" /\ Go(p, "find")
    /\ user' = [user EXCEPT ![Account] =
                    [role |-> moderator[p], deleted |-> IF @ = NoUser THEN FALSE ELSE @.deleted]]
    /\ moderator' = [moderator EXCEPT ![p] = 0]
    /\ UNCHANGED <<role, grants, stored, absent, at, filling, ability, bounds, faults, collided, promoted>>

\* The templates, each looked up and saved if it is not there: the notification
\* templates in one transaction, the mail templates each in its own.
FindTemplate(p) ==
    LET none == at[p] \in absent \/ at[p] \notin stored
    IN  /\ pc[p] = "find"
        /\ IF none
           THEN Go(p, "save") /\ absent' = absent \cup {at[p]} /\ UNCHANGED at
           ELSE /\ IF at[p] = Templates
                   THEN Go(p, "serve") /\ UNCHANGED at
                   ELSE at' = [at EXCEPT ![p] = @ + 1] /\ UNCHANGED pc
                /\ UNCHANGED absent
        /\ collided' = (collided \/ (none /\ (at[p] \in stored
                                     \/ \E q \in Instance \ {p} : pc[q] = "save" /\ at[q] = at[p])))
        /\ UNCHANGED <<rows, moderator, filling, ability, bounds, faults, promoted>>

SaveTemplate(p) ==
    /\ pc[p] = "save"
    /\ IF at[p] \in stored
       THEN Fails(p) /\ UNCHANGED stored
       ELSE /\ stored' = stored \cup {at[p]}
            /\ IF at[p] = Templates
               THEN Go(p, "serve") /\ UNCHANGED at
               ELSE Go(p, "find") /\ at' = [at EXCEPT ![p] = @ + 1]
            /\ UNCHANGED <<moderator, filling, ability>>
    /\ UNCHANGED <<role, user, grants, absent, bounds, faults, collided, promoted>>

(***************************************************************************)
(* Roles and users, changed through the API                                *)
(***************************************************************************)
Edit == edits + rejected < MaxEvents /\ edits' = edits + 1
Seeding(p) == pc[p] \in {"moderator", "upsert"}

CreateUser(p, u, v, i) ==
    /\ Allows(p, u, "userCreate") /\ Edit
    /\ user[v] = NoUser
    /\ user' = [user EXCEPT ![v] = [role |-> i, deleted |-> FALSE]]
    /\ UNCHANGED <<role, grants, stored, absent, pc, at, moderator, filling, ability, starts, faults, collided, promoted>>

\* update has no condition on deletedAt, and the foreign key none on deleted roles.
UpdateUser(p, u, v, i) ==
    /\ Allows(p, u, "userUpdate") /\ Edit
    /\ user[v] # NoUser
    /\ user' = [user EXCEPT ![v].role = i]
    /\ promoted' = IF v = Account
                   THEN v \in LiveUsers /\ role[i].type = "admin" /\ \A q \in Instance : ~Seeding(q)
                   ELSE promoted
    /\ UNCHANGED <<role, grants, stored, absent, pc, at, moderator, filling, ability, starts, faults, collided>>

DeleteUser(p, u, v) ==
    /\ Allows(p, u, "userDelete") /\ Edit
    /\ v \in LiveUsers
    /\ user' = [user EXCEPT ![v].deleted = TRUE]
    /\ promoted' = (promoted /\ v # Account)
    /\ UNCHANGED <<role, grants, stored, absent, pc, at, moderator, filling, ability, starts, faults, collided>>

NameFree(n) == \A i \in Roles : role[i].name # n

CreateRole(p, u, n, t) ==
    /\ Allows(p, u, "userRoles") /\ Edit
    /\ Len(role) < MaxRoles /\ NameFree(n)
    /\ role' = Append(role, [name |-> n, type |-> t, deleted |-> FALSE])
    /\ UNCHANGED <<user, grants, stored, absent, pc, at, moderator, filling, ability, starts, faults, collided, promoted>>

UpdateRole(p, u, i, n, t) ==
    /\ Allows(p, u, "userRoles") /\ Edit
    /\ i \in LiveRoles /\ (n = role[i].name \/ NameFree(n))
    /\ role' = [role EXCEPT ![i].name = n, ![i].type = t]
    /\ promoted' = (promoted /\ ~(user[Account] # NoUser /\ user[Account].role = i))
    /\ UNCHANGED <<user, grants, stored, absent, pc, at, moderator, filling, ability, starts, faults, collided>>

DeleteRole(p, u, i) ==
    /\ Allows(p, u, "userRoles") /\ Edit
    /\ i \in LiveRoles
    /\ role' = [role EXCEPT ![i].deleted = TRUE]
    /\ UNCHANGED <<user, grants, stored, absent, pc, at, moderator, filling, ability, starts, faults, collided, promoted>>
-----------------------------------------------------------------------------
Boot(p) ==
    \/ CountRoles(p) \/ CountRolesFails(p) \/ SeedRoles(p)
    \/ CountPermissions(p) \/ CountPermissionsFails(p) \/ WipePermissions(p) \/ CreatePermissions(p)
    \/ FindAdmin(p) \/ FindModerator(p) \/ UpsertAccount(p) \/ FindTemplate(p) \/ SaveTemplate(p)

Administer(p, u) ==
    \/ \E v \in User : DeleteUser(p, u, v) \/ \E i \in Roles : CreateUser(p, u, v, i) \/ UpdateUser(p, u, v, i)
    \/ \E i \in Roles : DeleteRole(p, u, i) \/ \E n \in RoleName, t \in Type : UpdateRole(p, u, i, n, t)
    \/ \E n \in RoleName, t \in Type : CreateRole(p, u, n, t)

Next ==
    \/ \E p \in Instance : \/ Start(p) \/ Crash(p) \/ Rejected(p) \/ Boot(p) \/ FillAbilities(p)
                           \/ \E t \in Type : RefreshAbility(p, t)
                           \/ \E u \in User : Administer(p, u)
    \/ \E x \in absent : Forget(x)

Spec == Init /\ [][Next]_vars

(***************************************************************************)
(* Properties                                                              *)
(***************************************************************************)
TypeOK ==
    /\ role \in Seq(RoleRow) /\ Len(role) <= MaxRoles /\ user \in [User -> UserRow \cup {NoUser}]
    /\ grants \in Nat
    /\ stored \subseteq Template /\ absent \subseteq 0..Templates
    /\ pc \in [Instance -> Stage] /\ at \in [Instance -> Template]
    /\ moderator \in [Instance -> 0..MaxRoles]
    /\ filling \in [Instance -> BOOLEAN]
    /\ ability \in [Instance -> [Type -> {"none", "empty", "full"}]]
    /\ starts \in 0..MaxStarts /\ edits \in 0..MaxEvents
    /\ rejected \in 0..MaxEvents /\ hit \subseteq Instance
    /\ reseeded \in BOOLEAN /\ collided \in BOOLEAN /\ promoted \in BOOLEAN

\* No instance has cached that a seeded role type may do nothing, unless two
\* instances seeded the permissions at once or a failed count had the present ones
\* deleted; crashes and rejected calls between deleteAll and createMany do no harm.
NobodyLockedOut ==
    \A p \in Instance, t \in SeedType : ability[p][t] = "empty" => collided \/ reseeded

\* While nobody has changed a role, an instance comes up unless it collides with
\* another or a call of its own start was rejected; and once one serves, the roles,
\* the account of admin.email with a live role, the permissions and the templates
\* are there, the permissions unless a failed count had them deleted.
ComesUpSeeded ==
    edits = 0 =>
        /\ \A p \in Instance : pc[p] = "failed" => collided \/ p \in hit
        /\ \A p \in Instance : pc[p] = "serve" =>
              /\ {role[i].type : i \in LiveRoles} = SeedType
              /\ Account \in LiveUsers /\ user[Account].role \in LiveRoles
              /\ stored = Template
              /\ collided \/ reseeded \/ grants > 0

\* The account that was made an admin stays one, however often instances start.
PromotionLasts ==
    promoted => Account \in LiveUsers /\ TypeOf(Account) = "admin"
=============================================================================
