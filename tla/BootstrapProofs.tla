-------------------------- MODULE BootstrapProofs --------------------------
(***************************************************************************)
(* What instances that come up together, crash and are administered leave  *)
(* of the seeds, for any number of instances, users, templates and starts. *)
(* Each theorem has its own inductive invariant; all rest on the types.    *)
(***************************************************************************)
EXTENDS Bootstrap, TLAPS

\* The stages after the permissions, and those between their two statements.
Later == {"admin", "moderator", "upsert", "find", "save", "serve"}
Granting == {"wipe", "grant"}

\* What is found for the account is a role that exists.
FoundOK == \A p \in Instance : pc[p] = "upsert" => moderator[p] \in Roles
Typed == TypeOK /\ FoundOK

\* Without a collision or a failed count one instance at a time is between the two statements,
\* and nobody is past them meanwhile.
Excused == collided \/ reseeded
GrantsOK ==
    \/ Excused
    \/ /\ \A p \in Instance : pc[p] \in Later => grants > 0
       /\ \A p \in Instance : pc[p] \in Granting => grants = 0 /\ ~Elsewhere(p, Granting)
       /\ \A p \in Instance, t \in SeedType : ability[p][t] # "empty"

\* No instance is about to make the promoted account a moderator again.
PromotionOK ==
    promoted =>
        /\ user[Account] # NoUser /\ ~user[Account].deleted
        /\ user[Account].role \in Roles /\ role[user[Account].role].type = "admin"
        /\ \A p \in Instance : ~Seeding(p)

\* What the seeds leave while nobody edits: the rows, where an instance is with
\* them, and what it does alone.
Three == <<Seeded("admin"), Seeded("moderator"), Seeded("user")>>
RowOfAccount == [role |-> 2, deleted |-> FALSE]
Filing == {"find", "save", "serve"}

RowsOK ==
    /\ role \in {<<>>, Three}
    /\ \A u \in User \ {Account} : user[u] = NoUser
    /\ user[Account] \in {NoUser, RowOfAccount}

StageOK(p) ==
    /\ pc[p] \in Later \cup Granting \cup {"permissions"} => role = Three
    /\ pc[p] = "upsert" => moderator[p] = 2
    /\ pc[p] \in Filing => user[Account] = RowOfAccount
    /\ pc[p] \notin Filing => at[p] = 1
    /\ pc[p] \in {"find", "save"} => 1..(at[p] - 1) \subseteq stored
    /\ pc[p] = "serve" => stored = Template

AloneOK(p) ==
    /\ pc[p] = "seedRoles" /\ p \notin hit => role = <<>> /\ ~Elsewhere(p, {"seedRoles"})
    /\ pc[p] = "save" => /\ at[p] \notin stored
                         /\ \A q \in Instance \ {p} : pc[q] = "save" => at[q] # at[p]
    /\ pc[p] = "failed" => p \in hit

SeedsOK ==
    edits = 0 =>
        /\ RowsOK
        /\ \A p \in Instance : StageOK(p)
        /\ collided \/ \A p \in Instance : AloneOK(p)

----------------------------------------------------------------------------
(* Types                                                                   *)

\* The part of the types about rejected calls.
FaultsTyped == rejected \in 0..MaxEvents /\ hit \subseteq Instance /\ reseeded \in BOOLEAN

LEMMA RejectTyped == Typed /\ Reject => rejected' \in 0..MaxEvents
BY BootstrapAssumption DEF Typed, TypeOK, Reject

LEMMA SeededRow == ASSUME NEW t \in SeedType PROVE Seeded(t) \in RoleRow
BY DEF SeedType, Seeded, RoleRow, RoleName, Type

LEMMA Unchanging == Typed /\ UNCHANGED vars => Typed'
BY DEF Typed, FoundOK, TypeOK, vars, Roles

\* An instance that fails forgets what it had found.
LEMMA FailsTyped ==
    ASSUME Typed, NEW p \in Instance, Fails(p), UNCHANGED <<rows, bounds, promoted>>,
           absent' \subseteq 0..Templates, collided' \in BOOLEAN, FaultsTyped'
    PROVE  Typed'
<1>0. 1 \in Template /\ 0 \in 0..MaxRoles
    BY BootstrapAssumption DEF Template
<1>1. TypeOK'
    BY <1>0 DEF Fails, Go, Typed, TypeOK, FaultsTyped, faults, rows, bounds, Stage
<1>2. FoundOK'
    BY DEF Fails, Go, Typed, FoundOK, TypeOK, rows, Roles
<1>3. QED
    BY <1>1, <1>2 DEF Typed

\* The steps of an instance that leave the database alone.
LEMMA QuietSteps ==
    ASSUME Typed, NEW p \in Instance, Start(p) \/ Crash(p) \/ FillAbilities(p) \/ Rejected(p)
    PROVE  Typed'
<1>0. 1 \in Template /\ 0 \in 0..MaxRoles
    BY BootstrapAssumption DEF Template
<1>1. CASE Start(p)
    <2>1. TypeOK'
        BY <1>1, BootstrapAssumption DEF Start, Go, Typed, TypeOK, rows, Stage
    <2>2. FoundOK'
        BY <1>1 DEF Start, Go, Typed, FoundOK, TypeOK, rows, Roles
    <2>3. QED
        BY <2>1, <2>2 DEF Typed
<1>2. CASE Crash(p)
    <2>1. TypeOK'
        BY <1>0, <1>2 DEF Crash, Go, Typed, TypeOK, FaultsTyped, faults, rows, bounds, Stage
    <2>2. FoundOK'
        BY <1>2 DEF Crash, Go, Typed, FoundOK, TypeOK, rows, Roles
    <2>3. QED
        BY <2>1, <2>2 DEF Typed
<1>3. CASE FillAbilities(p)
    <2>1. ability' \in [Instance -> [Type -> {"none", "empty", "full"}]]
        <3>1. ability[p] \in [Type -> {"none", "empty", "full"}]
            BY DEF Typed, TypeOK
        <3>2. [t \in Type |-> IF AbilityOf(t) = "full" THEN "full" ELSE ability[p][t]]
                  \in [Type -> {"none", "empty", "full"}]
            BY <3>1
        <3>3. QED
            BY <1>3, <3>2 DEF FillAbilities, Typed, TypeOK
    <2>2. QED
        BY <1>3, <2>1 DEF FillAbilities, Typed, FoundOK, TypeOK, rows, bounds, faults, Roles
<1>4. CASE Rejected(p)
    <2>1. FaultsTyped' /\ absent' \subseteq 0..Templates /\ collided' \in BOOLEAN
        BY <1>4, RejectTyped DEF Rejected, Typed, TypeOK, FaultsTyped
    <2>2. QED
        BY <1>4, <2>1, FailsTyped DEF Rejected
<1>5. QED
    BY <1>1, <1>2, <1>3, <1>4

LEMMA RefreshTyped ==
    ASSUME Typed, NEW p \in Instance, NEW t \in Type, RefreshAbility(p, t)
    PROVE  Typed'
BY DEF RefreshAbility, AbilityOf, Typed, FoundOK, TypeOK, rows, bounds, faults, Roles

\* An instance that goes on, to a stage other than "upsert".
LEMMA GoTyped ==
    ASSUME Typed, NEW p \in Instance, NEW s \in Stage \ {"upsert"}, Go(p, s) \/ UNCHANGED pc,
           role' \in Seq(RoleRow), Len(role') \in Len(role)..MaxRoles, user' \in [User -> UserRow \cup {NoUser}],
           grants' \in Nat, stored' \subseteq Template, absent' \subseteq 0..Templates,
           at' \in [Instance -> Template], collided' \in BOOLEAN, FaultsTyped',
           UNCHANGED <<moderator, filling, ability, bounds, promoted>>
    PROVE  Typed'
<1>1. TypeOK'
    <2>1. pc' \in [Instance -> Stage]
        BY DEF Go, Typed, TypeOK
    <2>2. Len(role') <= MaxRoles
        BY BootstrapAssumption DEF Typed, TypeOK
    <2>3. QED
        BY <2>1, <2>2 DEF Typed, TypeOK, FaultsTyped, bounds
<1>2. FoundOK'
    <2> SUFFICES ASSUME NEW q \in Instance, pc'[q] = "upsert" PROVE moderator'[q] \in Roles'
        BY DEF FoundOK
    <2>1. pc[q] = "upsert"
        BY DEF Go, Typed, TypeOK
    <2>2. moderator[q] \in 1..Len(role)
        BY <2>1 DEF Typed, FoundOK, Roles
    <2>3. QED
        BY <2>2 DEF Typed, TypeOK, Roles
<1>3. QED
    BY <1>1, <1>2 DEF Typed

LEMMA BootTyped ==
    ASSUME Typed, NEW p \in Instance, Boot(p)
    PROVE  Typed'
<1>0. /\ role \in Seq(RoleRow) /\ Len(role) \in Len(role)..MaxRoles /\ user \in [User -> UserRow \cup {NoUser}]
      /\ grants \in Nat /\ stored \subseteq Template /\ absent \subseteq 0..Templates
      /\ at \in [Instance -> Template] /\ collided \in BOOLEAN
    BY BootstrapAssumption DEF Typed, TypeOK
<1>f. UNCHANGED faults => FaultsTyped'
    BY DEF faults, FaultsTyped, Typed, TypeOK
<1>s. {"permissions", "seedRoles", "wipe", "grant", "admin", "find", "moderator", "save", "serve"} \subseteq Stage \ {"upsert"}
    BY DEF Stage
<1>1. CASE CountRoles(p)
    <2>1. absent' \subseteq 0..Templates /\ collided' \in BOOLEAN
        BY <1>0, <1>1, BootstrapAssumption DEF CountRoles
    <2>2. PICK s \in {"seedRoles", "permissions"} : Go(p, s)
        BY <1>1 DEF CountRoles
    <2>3. QED
        BY <1>0, <1>f, <1>s, <1>1, <2>1, <2>2, GoTyped DEF CountRoles, rows
<1>2. CASE SeedRoles(p)
    <2>1. CASE Fails(p) /\ UNCHANGED role
        BY <1>0, <1>f, <1>2, <2>1, FailsTyped DEF SeedRoles, rows
    <2>2. CASE ~(Fails(p) /\ UNCHANGED role)
        <3>1. <<Seeded("admin"), Seeded("moderator"), Seeded("user")>> \in Seq(RoleRow)
            BY SeededRow DEF SeedType
        <3>2. /\ role' = role \o <<Seeded("admin"), Seeded("moderator"), Seeded("user")>> /\ Len(role) + 3 <= MaxRoles
              /\ Go(p, "permissions") /\ UNCHANGED <<user, grants, stored, absent, at, moderator, filling, ability, bounds, faults, collided, promoted>>
            BY <1>2, <2>2 DEF SeedRoles
        <3>3. role' \in Seq(RoleRow) /\ Len(role') = Len(role) + 3
            BY <1>0, <3>1, <3>2
        <3>4. Len(role') \in Len(role)..MaxRoles
            BY <1>0, <3>2, <3>3, BootstrapAssumption
        <3>5. QED
            BY <1>0, <1>f, <1>s, <3>2, <3>3, <3>4, GoTyped
    <2>3. QED
        BY <2>1, <2>2
<1>3. CASE CountPermissions(p)
    <2>1. collided' \in BOOLEAN
        BY <1>0, <1>3 DEF CountPermissions
    <2>2. PICK s \in {"wipe", "admin"} : Go(p, s)
        BY <1>3 DEF CountPermissions
    <2>3. QED
        BY <1>0, <1>f, <1>s, <1>3, <2>1, <2>2, GoTyped DEF CountPermissions, rows
<1>4. CASE WipePermissions(p)
    BY <1>0, <1>f, <1>s, <1>4, GoTyped DEF WipePermissions
<1>5. CASE CreatePermissions(p)
    BY <1>0, <1>f, <1>s, <1>5, GoTyped DEF CreatePermissions
<1>6. CASE FindAdmin(p)
    <2>1. PICK s \in {"find", "moderator"} : Go(p, s)
        BY <1>6 DEF FindAdmin
    <2>2. QED
        BY <1>0, <1>f, <1>s, <1>6, <2>1, GoTyped DEF FindAdmin, rows
<1>7. CASE FindModerator(p)
    <2>1. CASE Fails(p)
        BY <1>0, <1>f, <1>7, <2>1, FailsTyped DEF FindModerator
    <2>2. CASE ~Fails(p)
        <3>1. PICK i \in LiveRoles : moderator' = [moderator EXCEPT ![p] = i]
            BY <1>7, <2>2 DEF FindModerator
        <3>2. i \in Roles /\ i \in 0..MaxRoles
            BY <1>0, <3>1, BootstrapAssumption DEF LiveRoles, Roles
        <3>3. Go(p, "upsert") /\ UNCHANGED <<at, filling, ability, rows, absent, bounds, faults, collided, promoted>>
            BY <1>7, <2>2 DEF FindModerator
        <3>4. TypeOK'
            BY <3>1, <3>2, <3>3 DEF Go, Typed, TypeOK, FaultsTyped, faults, rows, bounds, Stage
        <3>5. FoundOK'
            BY <3>1, <3>2, <3>3 DEF Go, Typed, FoundOK, TypeOK, rows, Roles
        <3>6. QED
            BY <3>4, <3>5 DEF Typed
    <2>3. QED
        BY <2>1, <2>2
<1>8. CASE UpsertAccount(p)
    <2>1. moderator[p] \in 1..MaxRoles
        BY <1>0, <1>8, BootstrapAssumption DEF UpsertAccount, Typed, FoundOK, Roles
    <2>2. [role |-> moderator[p], deleted |-> IF user[Account] = NoUser THEN FALSE ELSE user[Account].deleted] \in UserRow
        BY <1>0, <2>1, BootstrapAssumption DEF UserRow
    <2>3. user' \in [User -> UserRow \cup {NoUser}]
        BY <1>0, <1>8, <2>2 DEF UpsertAccount
    <2>4. 0 \in 0..MaxRoles
        BY BootstrapAssumption
    <2>5. TypeOK'
        BY <1>8, <2>3, <2>4 DEF UpsertAccount, Go, Typed, TypeOK, bounds, faults, Stage
    <2>6. FoundOK'
        BY <1>8 DEF UpsertAccount, Go, Typed, FoundOK, TypeOK, Roles
    <2>7. QED
        BY <2>5, <2>6 DEF Typed
<1>9. CASE FindTemplate(p)
    <2>1. absent' \subseteq 0..Templates /\ collided' \in BOOLEAN
        <3>1. at[p] \in 0..Templates
            BY <1>0, BootstrapAssumption DEF Template
        <3>2. QED
            BY <1>0, <1>9, <3>1 DEF FindTemplate
    <2>2. at' \in [Instance -> Template]
        BY <1>0, <1>9, BootstrapAssumption DEF FindTemplate, Template
    <2>3. PICK s \in {"save", "serve"} : Go(p, s) \/ UNCHANGED pc
        BY <1>9 DEF FindTemplate
    <2>4. QED
        BY <1>0, <1>f, <1>s, <1>9, <2>1, <2>2, <2>3, GoTyped DEF FindTemplate, rows
<1>10. CASE SaveTemplate(p)
    <2>1. CASE Fails(p) /\ UNCHANGED stored
        BY <1>0, <1>f, <1>10, <2>1, FailsTyped DEF SaveTemplate, rows
    <2>2. CASE ~(Fails(p) /\ UNCHANGED stored)
        <3>1. at' \in [Instance -> Template]
            BY <1>0, <1>10, <2>2, BootstrapAssumption DEF SaveTemplate, Template
        <3>2. stored' \subseteq Template
            BY <1>0, <1>10, <2>2 DEF SaveTemplate
        <3>3. PICK s \in {"find", "serve"} : Go(p, s)
            BY <1>10, <2>2 DEF SaveTemplate
        <3>4. QED
            BY <1>0, <1>f, <1>s, <1>10, <2>2, <3>1, <3>2, <3>3, GoTyped DEF SaveTemplate
    <2>3. QED
        BY <2>1, <2>2
<1>11. CASE CountRolesFails(p)
    <2>1. FaultsTyped' /\ collided' \in BOOLEAN
        BY <1>0, <1>11, RejectTyped DEF CountRolesFails, FaultsTyped, Typed, TypeOK
    <2>2. QED
        BY <1>0, <1>s, <1>11, <2>1, GoTyped DEF CountRolesFails, rows
<1>12. CASE CountPermissionsFails(p)
    <2>1. FaultsTyped' /\ collided' \in BOOLEAN
        BY <1>0, <1>12, RejectTyped DEF CountPermissionsFails, FaultsTyped, Typed, TypeOK
    <2>2. QED
        BY <1>0, <1>s, <1>12, <2>1, GoTyped DEF CountPermissionsFails, rows
<1>13. QED
    BY <1>1, <1>2, <1>3, <1>4, <1>5, <1>6, <1>7, <1>8, <1>9, <1>10, <1>11, <1>12 DEF Boot

\* A change of the rows that keeps their types.
LEMMA EditTyped ==
    ASSUME Typed, Edit, role' \in Seq(RoleRow), Len(role') \in Len(role)..MaxRoles,
           user' \in [User -> UserRow \cup {NoUser}], promoted' \in BOOLEAN,
           UNCHANGED <<grants, stored, absent, pc, at, moderator, filling, ability, starts, faults, collided>>
    PROVE  Typed'
BY BootstrapAssumption DEF Edit, Typed, FoundOK, TypeOK, faults, Roles

LEMMA AdministerTyped ==
    ASSUME Typed, NEW p \in Instance, NEW u \in User, Administer(p, u)
    PROVE  Typed'
<1>0. /\ role \in Seq(RoleRow) /\ Len(role) \in Len(role)..MaxRoles /\ promoted \in BOOLEAN
      /\ user \in [User -> UserRow \cup {NoUser}]
    BY BootstrapAssumption DEF Typed, TypeOK
<1>1. ASSUME NEW v \in User, NEW i \in Roles, CreateUser(p, u, v, i) PROVE Typed'
    <2>1. [role |-> i, deleted |-> FALSE] \in UserRow
        BY BootstrapAssumption DEF UserRow, Roles, Typed, TypeOK
    <2>2. user' \in [User -> UserRow \cup {NoUser}]
        BY <1>0, <1>1, <2>1 DEF CreateUser
    <2>3. QED
        BY <1>0, <1>1, <2>2, EditTyped DEF CreateUser
<1>2. ASSUME NEW v \in User, NEW i \in Roles, UpdateUser(p, u, v, i) PROVE Typed'
    <2>1. user[v] \in UserRow
        BY <1>0, <1>2 DEF UpdateUser
    <2>2. [user[v] EXCEPT !.role = i] \in UserRow
        BY <1>0, <2>1, BootstrapAssumption DEF UserRow, Roles
    <2>3. user' = [user EXCEPT ![v] = [user[v] EXCEPT !.role = i]]
        BY <1>2 DEF UpdateUser
    <2>4. user' \in [User -> UserRow \cup {NoUser}]
        BY <1>0, <2>2, <2>3
    <2>5. promoted' \in BOOLEAN
        BY <1>0, <1>2 DEF UpdateUser
    <2>6. QED
        BY <1>0, <1>2, <2>4, <2>5, EditTyped DEF UpdateUser
<1>3. ASSUME NEW v \in User, DeleteUser(p, u, v) PROVE Typed'
    <2>1. user[v] \in UserRow
        BY <1>0, <1>3 DEF DeleteUser, LiveUsers
    <2>2. [user[v] EXCEPT !.deleted = TRUE] \in UserRow
        BY <2>1 DEF UserRow
    <2>3. user' = [user EXCEPT ![v] = [user[v] EXCEPT !.deleted = TRUE]]
        BY <1>3 DEF DeleteUser
    <2>4. user' \in [User -> UserRow \cup {NoUser}]
        BY <1>0, <2>2, <2>3
    <2>5. promoted' \in BOOLEAN
        BY <1>0, <1>3 DEF DeleteUser
    <2>6. QED
        BY <1>0, <1>3, <2>4, <2>5, EditTyped DEF DeleteUser
<1>4. ASSUME NEW n \in RoleName, NEW t \in Type, CreateRole(p, u, n, t) PROVE Typed'
    <2>1. [name |-> n, type |-> t, deleted |-> FALSE] \in RoleRow
        BY DEF RoleRow
    <2>2. role' \in Seq(RoleRow) /\ Len(role') \in Len(role)..MaxRoles
        BY <1>0, <1>4, <2>1, BootstrapAssumption DEF CreateRole
    <2>3. QED
        BY <1>0, <1>4, <2>2, EditTyped DEF CreateRole
<1>5. ASSUME NEW i \in Roles, NEW n \in RoleName, NEW t \in Type, UpdateRole(p, u, i, n, t) PROVE Typed'
    <2>1. role[i] \in RoleRow
        BY <1>0 DEF Roles
    <2>2. [role[i] EXCEPT !.name = n, !.type = t] \in RoleRow
        BY <2>1 DEF RoleRow
    <2>3. role' = [role EXCEPT ![i] = [role[i] EXCEPT !.name = n, !.type = t]]
        BY <1>5 DEF UpdateRole
    <2>4. role' \in Seq(RoleRow) /\ Len(role') \in Len(role)..MaxRoles
        BY <1>0, <2>2, <2>3 DEF Roles
    <2>5. promoted' \in BOOLEAN
        BY <1>0, <1>5 DEF UpdateRole
    <2>6. QED
        BY <1>0, <1>5, <2>4, <2>5, EditTyped DEF UpdateRole
<1>6. ASSUME NEW i \in Roles, DeleteRole(p, u, i) PROVE Typed'
    <2>1. role[i] \in RoleRow
        BY <1>0 DEF Roles
    <2>2. [role[i] EXCEPT !.deleted = TRUE] \in RoleRow
        BY <2>1 DEF RoleRow
    <2>3. role' = [role EXCEPT ![i] = [role[i] EXCEPT !.deleted = TRUE]]
        BY <1>6 DEF DeleteRole
    <2>4. role' \in Seq(RoleRow) /\ Len(role') \in Len(role)..MaxRoles
        BY <1>0, <2>2, <2>3 DEF Roles
    <2>5. QED
        BY <1>0, <1>6, <2>4, EditTyped DEF DeleteRole
<1>7. QED
    BY <1>1, <1>2, <1>3, <1>4, <1>5, <1>6 DEF Administer

LEMMA ForgetTyped ==
    ASSUME Typed, NEW x \in absent, Forget(x)
    PROVE  Typed'
BY DEF Forget, Typed, FoundOK, TypeOK, rows, bounds, faults, Roles

\* The rows, the caches and the stages of instances stay of their types.
THEOREM TypeCorrect == Spec => []Typed
<1>1. Init => Typed
    <2> SUFFICES ASSUME Init PROVE Typed
        OBVIOUS
    <2>1. 1 \in Template /\ 0 \in 0..MaxRoles /\ 0 \in 0..MaxStarts /\ 0 \in 0..MaxEvents
        BY BootstrapAssumption DEF Template
    <2>2. TypeOK
        <3>1. role \in Seq(RoleRow) /\ Len(role) <= MaxRoles /\ grants \in Nat
            BY BootstrapAssumption DEF Init
        <3>2. pc \in [Instance -> Stage]
            BY DEF Init, Stage
        <3>3. QED
            BY <2>1, <3>1, <3>2 DEF Init, TypeOK
    <2>3. FoundOK
        BY DEF Init, FoundOK
    <2>4. QED
        BY <2>2, <2>3 DEF Typed
<1>2. Typed /\ [Next]_vars => Typed'
    BY Unchanging, QuietSteps, RefreshTyped, BootTyped, AdministerTyped, ForgetTyped DEF Next
<1>3. QED
    BY <1>1, <1>2, PTL DEF Spec

----------------------------------------------------------------------------
(* The permissions                                                         *)

LEMMA LaterStages ==
    ASSUME GrantsOK, pc \in [Instance -> Stage], NEW p \in Instance, NEW s \in Stage \ Granting, Go(p, s),
           s \in Later => pc[p] \in Later \/ grants > 0, grants' = grants, ability' = ability, Excused => Excused'
    PROVE  GrantsOK'
BY DEF GrantsOK, Go, Elsewhere, Later, Granting

\* An ability that is emptied or filled, where no permissions are missing.
LEMMA GrantsKept ==
    ASSUME GrantsOK, grants' = grants, UNCHANGED pc, Excused => Excused',
           Excused \/ \A p \in Instance, t \in SeedType : ability'[p][t] # "empty"
    PROVE  GrantsOK'
BY DEF GrantsOK, Elsewhere

LEMMA SeedTypesAreTypes == SeedType \subseteq Type
BY DEF SeedType, Type

LEMMA FailsKeepsGrants ==
    ASSUME Typed, GrantsOK, NEW p \in Instance, Fails(p), grants' = grants, Excused => Excused'
    PROVE  GrantsOK'
<1>1. pc \in [Instance -> Stage] /\ ability \in [Instance -> [Type -> {"none", "empty", "full"}]]
    BY DEF Typed, TypeOK
<1>2. \A q \in Instance : pc'[q] = IF q = p THEN "failed" ELSE pc[q]
    BY <1>1 DEF Fails, Go
<1>3. \A q \in Instance, t \in SeedType : ability'[q][t] = IF q = p THEN "none" ELSE ability[q][t]
    BY <1>1, SeedTypesAreTypes DEF Fails
<1>4. QED
    BY <1>2, <1>3 DEF GrantsOK, Elsewhere, Later, Granting

LEMMA GrantsStay == Typed /\ GrantsOK /\ [Next]_vars => GrantsOK'
<1> SUFFICES ASSUME Typed, GrantsOK, [Next]_vars PROVE GrantsOK'
    OBVIOUS
<1>0. /\ pc \in [Instance -> Stage] /\ ability \in [Instance -> [Type -> {"none", "empty", "full"}]]
      /\ grants \in Nat /\ SeedType \subseteq Type
    BY SeedTypesAreTypes DEF Typed, TypeOK
<1>e. UNCHANGED <<collided, reseeded>> => Excused' = Excused
    BY DEF Excused
<1>1. CASE UNCHANGED vars
    BY <1>1, <1>e DEF vars, GrantsOK, Elsewhere
<1>2. ASSUME NEW p \in Instance, Start(p) PROVE GrantsOK'
    BY <1>0, <1>e, <1>2, LaterStages DEF Start, rows, Stage, Granting, Later
<1>3. ASSUME NEW p \in Instance, Crash(p) PROVE GrantsOK'
    <2>1. \A q \in Instance : pc'[q] = IF q = p THEN "down" ELSE pc[q]
        BY <1>0, <1>3 DEF Crash, Go
    <2>2. \A q \in Instance, t \in SeedType : ability'[q][t] = IF q = p THEN "none" ELSE ability[q][t]
        BY <1>0, <1>3 DEF Crash
    <2>3. QED
        BY <1>e, <1>3, <2>1, <2>2 DEF Crash, rows, GrantsOK, Elsewhere, Later, Granting
<1>4. ASSUME NEW p \in Instance, Boot(p) PROVE GrantsOK'
    <2>1. CASE CountRoles(p)
        <3>1. PICK s \in {"seedRoles", "permissions"} : Go(p, s)
            BY <2>1 DEF CountRoles
        <3>2. s \in Stage \ Granting /\ s \notin Later
            BY <3>1 DEF Stage, Granting, Later
        <3>3. QED
            BY <1>0, <1>e, <2>1, <3>1, <3>2, LaterStages DEF CountRoles, rows, faults, Excused
    <2>2. CASE SeedRoles(p)
        <3>1. CASE Fails(p)
            BY <2>2, <1>e, <3>1, FailsKeepsGrants DEF SeedRoles, faults
        <3>2. CASE ~Fails(p)
            <4>1. "permissions" \in Stage \ Granting /\ "permissions" \notin Later
                BY DEF Stage, Granting, Later
            <4>2. QED
                BY <1>0, <1>e, <2>2, <3>2, <4>1, LaterStages DEF SeedRoles, faults
        <3>3. QED
            BY <3>1, <3>2
    <2>3. CASE CountPermissions(p)
        <3>1. \A q \in Instance : pc'[q] = IF q = p THEN (IF grants = 0 THEN "wipe" ELSE "admin") ELSE pc[q]
            BY <1>0, <2>3 DEF CountPermissions, Go
        <3>2. (Excused => Excused') /\ (grants = 0 /\ Elsewhere(p, Granting) => Excused')
            BY <2>3, Zenon DEF CountPermissions, Granting, faults, Excused
        <3>3. UNCHANGED <<grants, ability>>
            BY <2>3 DEF CountPermissions, rows
        <3>4. CASE grants = 0
            BY <1>0, <3>1, <3>2, <3>3, <3>4 DEF GrantsOK, Elsewhere, Later, Granting
        <3>5. CASE grants # 0
            <4>1. grants > 0 /\ \A q \in Instance : pc'[q] = IF q = p THEN "admin" ELSE pc[q]
                BY <1>0, <3>1, <3>5
            <4>2. Excused => Excused'
                BY <3>2
            <4>3. QED
                BY <3>3, <4>1, <4>2 DEF GrantsOK, Elsewhere, Later, Granting
        <3>6. QED
            BY <3>4, <3>5
    <2>4. CASE WipePermissions(p)
        <3>1. \A q \in Instance : pc'[q] = IF q = p THEN "grant" ELSE pc[q]
            BY <1>0, <2>4 DEF WipePermissions, Go
        <3>2. pc[p] = "wipe" /\ grants' = 0 /\ UNCHANGED <<ability, Excused>>
            BY <1>e, <2>4 DEF WipePermissions, faults
        <3>3. QED
            BY <3>1, <3>2 DEF GrantsOK, Elsewhere, Later, Granting
    <2>5. CASE CreatePermissions(p)
        <3>1. \A q \in Instance : pc'[q] = IF q = p THEN "admin" ELSE pc[q]
            BY <1>0, <2>5 DEF CreatePermissions, Go
        <3>2. pc[p] = "grant" /\ grants' > 0 /\ UNCHANGED <<ability, Excused>>
            BY <1>0, <1>e, <2>5 DEF CreatePermissions, faults
        <3>3. QED
            BY <3>1, <3>2 DEF GrantsOK, Elsewhere, Later, Granting
    <2>6. CASE FindAdmin(p)
        <3>1. PICK s \in {"find", "moderator"} : Go(p, s)
            BY <2>6 DEF FindAdmin
        <3>2. s \in Stage \ Granting /\ pc[p] \in Later
            BY <2>6, <3>1 DEF FindAdmin, Stage, Granting, Later
        <3>3. QED
            BY <1>0, <1>e, <2>6, <3>1, <3>2, LaterStages DEF FindAdmin, rows, faults
    <2>7. CASE FindModerator(p)
        <3>1. CASE Fails(p)
            BY <2>7, <1>e, <3>1, FailsKeepsGrants DEF FindModerator, rows, faults
        <3>2. CASE ~Fails(p)
            <4>1. "upsert" \in Stage \ Granting /\ pc[p] \in Later /\ Go(p, "upsert")
                BY <2>7, <3>2 DEF FindModerator, Stage, Granting, Later
            <4>2. QED
                BY <1>0, <1>e, <2>7, <3>2, <4>1, LaterStages DEF FindModerator, rows, faults
        <3>3. QED
            BY <3>1, <3>2
    <2>8. CASE UpsertAccount(p)
        <3>1. "find" \in Stage \ Granting /\ pc[p] \in Later /\ Go(p, "find")
            BY <2>8 DEF UpsertAccount, Stage, Granting, Later
        <3>2. QED
            BY <1>0, <1>e, <2>8, <3>1, LaterStages DEF UpsertAccount, faults
    <2>9. CASE FindTemplate(p)
        <3>1. PICK s \in {"find", "save", "serve"} : Go(p, s)
            BY <1>0, <2>9 DEF FindTemplate, Go
        <3>2. s \in Stage \ Granting /\ pc[p] \in Later
            BY <2>9, <3>1 DEF FindTemplate, Stage, Granting, Later
        <3>3. QED
            BY <1>0, <2>9, <3>1, <3>2, LaterStages DEF FindTemplate, rows, faults, Excused
    <2>10. CASE SaveTemplate(p)
        <3>1. CASE Fails(p)
            BY <2>10, <1>e, <3>1, FailsKeepsGrants DEF SaveTemplate, faults
        <3>2. CASE ~Fails(p)
            <4>1. PICK s \in {"find", "serve"} : Go(p, s)
                BY <2>10, <3>2 DEF SaveTemplate
            <4>2. s \in Stage \ Granting /\ pc[p] \in Later
                BY <2>10, <4>1 DEF SaveTemplate, Stage, Granting, Later
            <4>3. QED
                BY <1>0, <1>e, <2>10, <3>2, <4>1, <4>2, LaterStages DEF SaveTemplate, faults
        <3>3. QED
            BY <3>1, <3>2
    <2>11. CASE CountRolesFails(p)
        <3>1. "seedRoles" \in Stage \ Granting /\ "seedRoles" \notin Later /\ Go(p, "seedRoles")
            BY <2>11 DEF CountRolesFails, Stage, Granting, Later
        <3>2. QED
            BY <1>0, <2>11, <3>1, LaterStages DEF CountRolesFails, rows, Excused
    <2>12. CASE CountPermissionsFails(p)
        <3>1. \A q \in Instance : pc'[q] = IF q = p THEN "wipe" ELSE pc[q]
            BY <1>0, <2>12 DEF CountPermissionsFails, Go
        <3>2. (Excused => Excused') /\ (grants > 0 \/ Elsewhere(p, Granting) => Excused')
            <4>1. /\ reseeded' = (reseeded \/ grants > 0)
                  /\ collided' = (collided \/ (grants = 0 /\ Elsewhere(p, Granting)))
                BY <2>12, Zenon DEF CountPermissionsFails, Granting
            <4>2. ~(grants > 0) => grants = 0
                BY <1>0
            <4>3. QED
                BY <4>1, <4>2, Zenon DEF Excused
        <3>3. UNCHANGED <<grants, ability>>
            BY <2>12 DEF CountPermissionsFails, rows
        <3>4. ~(grants > 0) => grants = 0
            BY <1>0
        <3>5. QED
            BY <3>1, <3>2, <3>3, <3>4 DEF GrantsOK, Elsewhere, Later, Granting
    <2>13. QED
        BY <1>4, <2>1, <2>2, <2>3, <2>4, <2>5, <2>6, <2>7, <2>8, <2>9, <2>10, <2>11, <2>12 DEF Boot
<1>5. ASSUME NEW p \in Instance, FillAbilities(p) PROVE GrantsOK'
    <2>1. \A q \in Instance, t \in SeedType : ability'[q][t] \in {"full", ability[q][t]}
        <3>1. CASE UNCHANGED ability
            BY <3>1
        <3>2. CASE ~(UNCHANGED ability)
            BY <1>0, <1>5, <3>2 DEF FillAbilities
        <3>3. QED
            BY <3>1, <3>2
    <2>2. Excused \/ \A q \in Instance, t \in SeedType : ability'[q][t] # "empty"
        BY <2>1 DEF GrantsOK
    <2>3. QED
        BY <1>e, <1>5, <2>2, GrantsKept DEF FillAbilities, rows, faults
<1>6. ASSUME NEW p \in Instance, NEW t \in Type, RefreshAbility(p, t) PROVE GrantsOK'
    <2>1. Excused \/ AbilityOf(t) = "full" \/ t \notin SeedType
        BY <1>6 DEF RefreshAbility, AbilityOf, GrantsOK, Later
    <2>2. \A q \in Instance, s \in SeedType :
              ability'[q][s] = IF q = p /\ s = t THEN AbilityOf(t) ELSE ability[q][s]
        BY <1>0, <1>6 DEF RefreshAbility
    <2>3. Excused \/ \A q \in Instance, s \in SeedType : ability'[q][s] # "empty"
        BY <2>1, <2>2 DEF GrantsOK
    <2>4. QED
        BY <1>e, <1>6, <2>3, GrantsKept DEF RefreshAbility, rows, faults
<1>7. ASSUME NEW p \in Instance, NEW u \in User, Administer(p, u) PROVE GrantsOK'
    <2>1. UNCHANGED <<grants, pc, ability, Excused>>
        BY <1>e, <1>7 DEF Administer, faults, CreateUser, UpdateUser, DeleteUser, CreateRole, UpdateRole, DeleteRole
    <2>2. QED
        BY <2>1 DEF GrantsOK, Elsewhere
<1>8. ASSUME NEW x \in absent, Forget(x) PROVE GrantsOK'
    BY <1>e, <1>8 DEF Forget, rows, faults, GrantsOK, Elsewhere
<1>9. ASSUME NEW p \in Instance, Rejected(p) PROVE GrantsOK'
    BY <1>e, <1>9, FailsKeepsGrants DEF Rejected, rows
<1>10. QED
    BY <1>1, <1>2, <1>3, <1>4, <1>5, <1>6, <1>7, <1>8, <1>9 DEF Next

\* However often instances crash or have calls rejected between deleteAll and
\* createMany, none has cached that a seeded role type may do nothing: only two
\* that seed at once, or a failed count of permissions that are there, lock users out.
THEOREM OnlyCollisionsLockOut == Spec => []NobodyLockedOut
<1>1. Init => GrantsOK
    <2> SUFFICES ASSUME Init PROVE GrantsOK
        OBVIOUS
    <2>1. \A p \in Instance, t \in SeedType : pc[p] = "down" /\ ability[p][t] = "none"
        BY SeedTypesAreTypes DEF Init
    <2>2. \A p \in Instance : pc[p] = "down"
        BY Zenon DEF Init
    <2>3. QED
        BY <2>1, <2>2 DEF GrantsOK, Later, Granting
<1>2. GrantsOK => NobodyLockedOut
    BY DEF GrantsOK, Excused, NobodyLockedOut
<1>3. QED
    BY <1>1, <1>2, GrantsStay, TypeCorrect, PTL DEF Spec

----------------------------------------------------------------------------
(* The account of admin.email                                              *)

\* Nothing that leaves the rows and the history alone makes an instance that is
\* not yet seeding the account seed it, except FindAdmin.
LEMMA PromotionKept ==
    ASSUME PromotionOK, UNCHANGED <<role, user, promoted>>,
           \A p \in Instance : Seeding(p)' => Seeding(p)
    PROVE  PromotionOK'
BY DEF PromotionOK, Roles

\* Roles that are added after those there are.
LEMMA PromotionGrown ==
    ASSUME PromotionOK, role \in Seq(RoleRow), NEW more \in Seq(RoleRow), role' = role \o more,
           UNCHANGED <<user, promoted>>, \A p \in Instance : Seeding(p)' => Seeding(p)
    PROVE  PromotionOK'
<1>1. \A i \in Roles : i \in Roles' /\ role'[i] = role[i]
    BY DEF Roles
<1>2. QED
    BY <1>1 DEF PromotionOK

LEMMA AppendIsConcat ==
    ASSUME NEW s \in Seq(RoleRow), NEW r \in RoleRow PROVE Append(s, r) = s \o <<r>>
OBVIOUS

LEMMA PromotionStays == Typed /\ PromotionOK /\ [Next]_vars => PromotionOK'
<1> SUFFICES ASSUME Typed, PromotionOK, [Next]_vars PROVE PromotionOK'
    OBVIOUS
<1>0. /\ pc \in [Instance -> Stage] /\ role \in Seq(RoleRow) /\ user \in [User -> UserRow \cup {NoUser}]
      /\ promoted \in BOOLEAN /\ Account \in User
    BY BootstrapAssumption DEF Typed, TypeOK
<1>1. CASE UNCHANGED vars
    BY <1>1, PromotionKept DEF vars, Seeding
<1>2. ASSUME NEW p \in Instance, Start(p) \/ Crash(p) \/ FillAbilities(p) \/ Rejected(p) PROVE PromotionOK'
    <2>1. \A q \in Instance : Seeding(q)' => Seeding(q)
        BY <1>0, <1>2 DEF Start, Crash, FillAbilities, Rejected, Fails, Go, Seeding
    <2>2. QED
        BY <1>2, <2>1, PromotionKept DEF Start, Crash, FillAbilities, Rejected, rows
<1>3. ASSUME NEW p \in Instance, Boot(p) PROVE PromotionOK'
    <2>1. CASE CountRoles(p) \/ CountRolesFails(p) \/ CountPermissions(p) \/ CountPermissionsFails(p) \/ WipePermissions(p) \/ CreatePermissions(p)
               \/ FindTemplate(p) \/ SaveTemplate(p)
        <3>1. \A q \in Instance : Seeding(q)' => Seeding(q)
            BY <1>0, <2>1 DEF CountRoles, CountRolesFails, CountPermissions, CountPermissionsFails, WipePermissions,
               CreatePermissions, FindTemplate, SaveTemplate, Fails, Go, Seeding
        <3>2. QED
            BY <2>1, <3>1, PromotionKept DEF CountRoles, CountRolesFails, CountPermissions, CountPermissionsFails,
               WipePermissions, CreatePermissions, FindTemplate, SaveTemplate, rows
    <2>2. CASE SeedRoles(p)
        <3>1. \A q \in Instance : Seeding(q)' => Seeding(q)
            BY <1>0, <2>2 DEF SeedRoles, Fails, Go, Seeding
        <3>2. CASE UNCHANGED role
            BY <2>2, <3>1, <3>2, PromotionKept DEF SeedRoles
        <3>3. CASE role' # role
            <4>1. <<Seeded("admin"), Seeded("moderator"), Seeded("user")>> \in Seq(RoleRow)
                BY SeededRow DEF SeedType
            <4>2. role' = role \o <<Seeded("admin"), Seeded("moderator"), Seeded("user")>>
                BY <2>2, <3>3 DEF SeedRoles
            <4>3. QED
                BY <1>0, <2>2, <3>1, <4>1, <4>2, PromotionGrown DEF SeedRoles
        <3>4. QED
            BY <3>2, <3>3
    <2>3. CASE FindAdmin(p)
        <3>1. promoted => Account \in LiveUsers /\ TypeOf(Account) = "admin"
            BY <1>0 DEF PromotionOK, LiveUsers, TypeOf
        <3>2. promoted => Go(p, "find")
            BY <2>3, <3>1 DEF FindAdmin
        <3>3. promoted => \A q \in Instance : Seeding(q)' => Seeding(q)
            BY <1>0, <3>2 DEF Go, Seeding
        <3>4. UNCHANGED <<role, user, promoted>>
            BY <2>3 DEF FindAdmin, rows
        <3>5. QED
            BY <3>3, <3>4, PromotionKept DEF PromotionOK
    <2>4. CASE FindModerator(p) \/ UpsertAccount(p)
        <3>1. Seeding(p) /\ promoted' = promoted
            BY <2>4 DEF FindModerator, UpsertAccount, Seeding
        <3>2. QED
            BY <3>1 DEF PromotionOK
    <2>5. QED
        BY <1>3, <2>1, <2>2, <2>3, <2>4 DEF Boot
<1>4. ASSUME NEW p \in Instance, NEW t \in Type, RefreshAbility(p, t) PROVE PromotionOK'
    BY <1>4, PromotionKept DEF RefreshAbility, rows, Seeding
<1>5. ASSUME NEW x \in absent, Forget(x) PROVE PromotionOK'
    BY <1>5, PromotionKept DEF Forget, rows, Seeding
<1>6. ASSUME NEW p \in Instance, NEW u \in User, Administer(p, u) PROVE PromotionOK'
    <2>1. \A q \in Instance : Seeding(q)' <=> Seeding(q)
        BY <1>6 DEF Administer, CreateUser, UpdateUser, DeleteUser, CreateRole, UpdateRole, DeleteRole, Seeding
    <2>2. ASSUME NEW v \in User, NEW i \in Roles, CreateUser(p, u, v, i) PROVE PromotionOK'
        <3>1. promoted => user'[Account] = user[Account]
            BY <1>0, <2>2 DEF CreateUser, PromotionOK
        <3>2. QED
            BY <2>1, <2>2, <3>1 DEF CreateUser, PromotionOK, Roles
    <2>3. ASSUME NEW v \in User, NEW i \in Roles, UpdateUser(p, u, v, i) PROVE PromotionOK'
        <3>1. role' = role /\ user' = [user EXCEPT ![v].role = i]
            BY <2>3 DEF UpdateUser
        <3>2. CASE v = Account
            <4>1. promoted' => user[Account] # NoUser /\ ~user[Account].deleted /\ role[i].type = "admin"
                               /\ \A q \in Instance : ~Seeding(q)
                BY <2>3, <3>2 DEF UpdateUser, LiveUsers
            <4>2. user[Account] \in UserRow
                BY <1>0, <2>3, <3>2 DEF UpdateUser
            <4>3. user'[Account] = [user[Account] EXCEPT !.role = i]
                BY <1>0, <3>1, <3>2
            <4>4. user'[Account] \in UserRow /\ user'[Account].role = i /\ user'[Account].deleted = user[Account].deleted
                <5>1. i \in 1..MaxRoles
                    BY BootstrapAssumption DEF Typed, TypeOK, Roles
                <5>2. QED
                    BY <4>2, <4>3, <5>1 DEF UserRow
            <4>5. user'[Account] # NoUser
                BY <4>4, BootstrapAssumption
            <4>6. QED
                BY <2>1, <3>1, <4>1, <4>4, <4>5 DEF PromotionOK, Roles
        <3>3. CASE v # Account
            <4>1. user'[Account] = user[Account] /\ promoted' = promoted
                BY <1>0, <2>3, <3>1, <3>3 DEF UpdateUser
            <4>2. QED
                BY <2>1, <3>1, <4>1 DEF PromotionOK, Roles
        <3>4. QED
            BY <3>2, <3>3
    <2>4. ASSUME NEW v \in User, DeleteUser(p, u, v) PROVE PromotionOK'
        <3>1. promoted' => promoted /\ user'[Account] = user[Account]
            BY <1>0, <2>4 DEF DeleteUser
        <3>2. QED
            BY <2>1, <2>4, <3>1 DEF DeleteUser, PromotionOK, Roles
    <2>5. ASSUME NEW n \in RoleName, NEW t \in Type, CreateRole(p, u, n, t) PROVE PromotionOK'
        <3>1. <<[name |-> n, type |-> t, deleted |-> FALSE]>> \in Seq(RoleRow)
            BY DEF RoleRow
        <3>2. role' = role \o <<[name |-> n, type |-> t, deleted |-> FALSE]>>
            <4>1. [name |-> n, type |-> t, deleted |-> FALSE] \in RoleRow
                BY DEF RoleRow
            <4>2. role' = Append(role, [name |-> n, type |-> t, deleted |-> FALSE])
                BY <2>5 DEF CreateRole
            <4>3. QED
                BY <1>0, <4>1, <4>2, AppendIsConcat
        <3>3. QED
            BY <1>0, <2>1, <2>5, <3>1, <3>2, PromotionGrown DEF CreateRole
    <2>6. ASSUME NEW i \in Roles, NEW n \in RoleName, NEW t \in Type, UpdateRole(p, u, i, n, t) PROVE PromotionOK'
        <3>1. UNCHANGED user /\ (promoted' => promoted /\ user[Account].role # i)
            BY <2>6 DEF UpdateRole, PromotionOK
        <3>2. Roles' = Roles /\ \A j \in Roles \ {i} : role'[j] = role[j]
            BY <1>0, <2>6 DEF UpdateRole, Roles
        <3>3. QED
            BY <2>1, <3>1, <3>2 DEF PromotionOK
    <2>7. ASSUME NEW i \in Roles, DeleteRole(p, u, i) PROVE PromotionOK'
        <3>1. Roles' = Roles /\ UNCHANGED <<user, promoted>>
            BY <1>0, <2>7 DEF DeleteRole, Roles
        <3>2. \A j \in Roles : role'[j].type = role[j].type
            BY <1>0, <2>7 DEF DeleteRole, Roles, RoleRow
        <3>3. QED
            BY <2>1, <3>1, <3>2 DEF PromotionOK
    <2>8. QED
        BY <1>6, <2>2, <2>3, <2>4, <2>5, <2>6, <2>7 DEF Administer
<1>7. QED
    BY <1>1, <1>2, <1>3, <1>4, <1>5, <1>6 DEF Next

\* The seed looks for an ADMIN and upserts a MODERATOR, but never demotes the
\* account once it is an ADMIN and no seed is half way, whatever restarts.
THEOREM PromotionsLast == Spec => []PromotionLasts
<1>1. Init => PromotionOK
    BY DEF Init, PromotionOK
<1>2. PromotionOK => PromotionLasts
    BY BootstrapAssumption DEF PromotionOK, PromotionLasts, LiveUsers, TypeOf
<1>3. QED
    BY <1>1, <1>2, PromotionStays, TypeCorrect, PTL DEF Spec

----------------------------------------------------------------------------
(* The seeds                                                               *)

LEMMA ThreeRoles ==
    /\ Three # <<>> /\ <<>> \o Three = Three
    /\ role = Three => /\ Roles = 1..3 /\ LiveRoles = 1..3
                       /\ \A i \in 1..3 : role[i].name \in SeedType
                       /\ role[1].type = "admin" /\ role[2].type = "moderator" /\ role[3].type = "user"
    /\ role = <<>> => Roles = {} /\ LiveRoles = {}
<1>1. Len(Three) = 3 /\ Three[1] = Seeded("admin") /\ Three[2] = Seeded("moderator") /\ Three[3] = Seeded("user")
    BY DEF Three
<1>2. Three # <<>> /\ <<>> \o Three = Three
    <2>1. Three \in Seq(RoleRow)
        BY SeededRow DEF Three, SeedType
    <2>2. QED
        BY <1>1, <2>1
<1>3. ASSUME role = Three
      PROVE  /\ Roles = 1..3 /\ LiveRoles = 1..3
             /\ \A i \in 1..3 : role[i].name \in SeedType
             /\ role[1].type = "admin" /\ role[2].type = "moderator" /\ role[3].type = "user"
    <2>1. Roles = 1..3
        BY <1>1, <1>3 DEF Roles
    <2>2. \A i \in 1..3 : role[i] \in {Seeded("admin"), Seeded("moderator"), Seeded("user")}
        BY <1>1, <1>3
    <2>3. \A i \in 1..3 : role[i].name \in SeedType /\ ~role[i].deleted
        BY <2>2 DEF Seeded, SeedType
    <2>4. LiveRoles = 1..3
        BY <2>1, <2>3 DEF LiveRoles
    <2>5. role[1].type = "admin" /\ role[2].type = "moderator" /\ role[3].type = "user"
        BY <1>1, <1>3 DEF Seeded
    <2>6. QED
        BY <2>1, <2>3, <2>4, <2>5
<1>4. ASSUME role = <<>> PROVE Roles = {} /\ LiveRoles = {}
    BY <1>4 DEF Roles, LiveRoles
<1>5. QED
    BY <1>2, <1>3, <1>4

\* What the other instances have done stays done when rows are only added.
LEMMA OthersStay ==
    ASSUME \A q \in Instance : StageOK(q), NEW p \in Instance, StageOK(p)',
           role = Three => role' = Three, user[Account] = RowOfAccount => user'[Account] = RowOfAccount,
           stored \subseteq stored', stored' \subseteq Template,
           \A q \in Instance \ {p} : pc'[q] = pc[q] /\ at'[q] = at[q] /\ moderator'[q] = moderator[q]
    PROVE  \A q \in Instance : StageOK(q)'
<1> SUFFICES ASSUME NEW q \in Instance \ {p} PROVE StageOK(q)'
    OBVIOUS
<1>1. StageOK(q) /\ pc'[q] = pc[q] /\ at'[q] = at[q] /\ moderator'[q] = moderator[q]
    OBVIOUS
<1>2. QED
    BY <1>1 DEF StageOK

LEMMA AloneStays ==
    ASSUME collided \/ \A q \in Instance : AloneOK(q), collided => collided', NEW p \in Instance,
           UNCHANGED <<role, stored>>, pc'[p] \notin {"seedRoles", "save"}, pc'[p] = "failed" => p \in hit',
           \A q \in Instance \ {p} : pc'[q] = pc[q] /\ at'[q] = at[q] /\ (q \in hit => q \in hit')
    PROVE  collided' \/ \A q \in Instance : AloneOK(q)'
<1>1. ASSUME NEW q \in Instance, AloneOK(q) PROVE AloneOK(q)'
    <2>1. CASE q = p
        BY <2>1 DEF AloneOK
    <2>2. CASE q # p
        BY <1>1, <2>2 DEF AloneOK, Elsewhere
    <2>3. QED
        BY <2>1, <2>2
<1>2. QED
    BY <1>1

LEMMA SeedsBoot ==
    ASSUME Typed, edits = 0, SeedsOK, Typed', NEW p \in Instance, Boot(p)
    PROVE  SeedsOK'
<1>0. /\ pc \in [Instance -> Stage] /\ at \in [Instance -> Template] /\ moderator \in [Instance -> 0..MaxRoles]
      /\ user \in [User -> UserRow \cup {NoUser}] /\ stored \subseteq Template /\ stored' \subseteq Template
      /\ Account \in User
    BY BootstrapAssumption DEF Typed, TypeOK
<1>1. RowsOK /\ (\A q \in Instance : StageOK(q)) /\ (collided \/ \A q \in Instance : AloneOK(q))
    BY DEF SeedsOK
<1>2. StageOK(p)
    BY <1>1
<1>4. CASE CountRoles(p)
    <2> DEFINE none == 0 \in absent \/ LiveRoles = {}
    <2>1. /\ \A q \in Instance : pc'[q] = IF q = p THEN IF none THEN "seedRoles" ELSE "permissions" ELSE pc[q]
          /\ pc[p] = "roles" /\ UNCHANGED <<role, user, stored, at, moderator>>
          /\ (collided => collided') /\ hit' = hit
          /\ none /\ (LiveRoles # {} \/ Elsewhere(p, {"seedRoles"})) => collided'
        BY <1>0, <1>4 DEF CountRoles, Go, rows, faults
    <2>2. RowsOK' /\ (~none => role = Three)
        BY <1>1, <2>1, ThreeRoles DEF RowsOK
    <2>3. StageOK(p)'
        BY <1>2, <2>1, <2>2 DEF StageOK, Later, Granting, Filing
    <2>4. \A q \in Instance : StageOK(q)'
        BY <1>0, <1>1, <2>1, <2>3, OthersStay
    <2>5. collided' \/ \A q \in Instance : AloneOK(q)'
        <3>1. CASE none
            <4>1. CASE LiveRoles # {} \/ Elsewhere(p, {"seedRoles"})
                BY <2>1, <3>1, <4>1
            <4>2. CASE LiveRoles = {} /\ ~Elsewhere(p, {"seedRoles"})
                <5>1. role = <<>>
                    BY <1>1, <4>2, ThreeRoles DEF RowsOK
                <5>2. ASSUME NEW q \in Instance, AloneOK(q) PROVE AloneOK(q)'
                    BY <2>1, <3>1, <4>2, <5>1, <5>2 DEF AloneOK, Elsewhere
                <5>3. QED
                    BY <1>1, <2>1, <5>2
            <4>3. QED
                BY <4>1, <4>2
        <3>2. CASE ~none
            BY <1>1, <2>1, <3>2, AloneStays
        <3>3. QED
            BY <3>1, <3>2
    <2>6. QED
        BY <2>2, <2>4, <2>5 DEF SeedsOK
<1>5. CASE SeedRoles(p)
    <2>1. pc[p] = "seedRoles" /\ UNCHANGED <<user, stored, collided, hit>>
        BY <1>5 DEF SeedRoles, faults
    <2>2. CASE role = Three
        <3>1. Fails(p) /\ UNCHANGED role
            BY <1>5, <2>2, ThreeRoles DEF SeedRoles
        <3>2. \A q \in Instance : /\ pc'[q] = IF q = p THEN "failed" ELSE pc[q]
                                  /\ at'[q] = IF q = p THEN 1 ELSE at[q]
                                  /\ moderator'[q] = IF q = p THEN 0 ELSE moderator[q]
            BY <1>0, <3>1 DEF Fails, Go
        <3>3. RowsOK' /\ StageOK(p)'
            BY <1>1, <2>1, <3>1, <3>2 DEF RowsOK, StageOK, Later, Granting, Filing
        <3>4. \A q \in Instance : StageOK(q)'
            BY <1>0, <1>1, <2>1, <3>1, <3>2, <3>3, OthersStay
        <3>5. ASSUME NEW q \in Instance, AloneOK(p), AloneOK(q) PROVE AloneOK(q)'
            <4>1. p \in hit
                BY <2>1, <2>2, <3>5, ThreeRoles DEF AloneOK
            <4>2. QED
                BY <2>1, <3>1, <3>2, <3>5, <4>1 DEF AloneOK, Elsewhere
        <3>6. QED
            BY <1>1, <2>1, <3>3, <3>4, <3>5 DEF SeedsOK
    <2>3. CASE role = <<>>
        <3>1. role' = Three /\ Go(p, "permissions") /\ UNCHANGED <<at, moderator>>
            BY <1>5, <2>3, ThreeRoles DEF SeedRoles, Three
        <3>2. \A q \in Instance : pc'[q] = IF q = p THEN "permissions" ELSE pc[q]
            BY <1>0, <3>1 DEF Go
        <3>3. RowsOK' /\ StageOK(p)'
            BY <1>1, <1>2, <2>1, <3>1, <3>2 DEF RowsOK, StageOK, Later, Granting, Filing
        <3>4. \A q \in Instance : StageOK(q)'
            BY <1>0, <1>1, <2>1, <3>1, <3>2, <3>3, OthersStay
        <3>5. ASSUME NEW q \in Instance, AloneOK(p), AloneOK(q) PROVE AloneOK(q)'
            BY <2>1, <3>1, <3>2, <3>5 DEF AloneOK, Elsewhere
        <3>6. QED
            BY <1>1, <2>1, <3>3, <3>4, <3>5 DEF SeedsOK
    <2>4. QED
        BY <1>1, <2>2, <2>3 DEF RowsOK
<1>6. CASE CountPermissions(p) \/ CountPermissionsFails(p) \/ WipePermissions(p) \/ CreatePermissions(p) \/ FindAdmin(p)
    <2>1. PICK s \in Granting \cup {"admin", "moderator", "find"} : Go(p, s)
        BY <1>6 DEF CountPermissions, CountPermissionsFails, WipePermissions, CreatePermissions, FindAdmin, Granting
    <2>2. /\ \A q \in Instance : pc'[q] = IF q = p THEN s ELSE pc[q]
          /\ UNCHANGED <<role, user, stored, at, moderator, hit>> /\ (collided => collided')
          /\ pc[p] \in Granting \cup {"permissions", "admin"}
        <3>1. \A q \in Instance : pc'[q] = IF q = p THEN s ELSE pc[q]
            BY <1>0, <2>1 DEF Go
        <3>2. UNCHANGED <<role, user, stored, at, moderator, hit>>
            BY <1>6 DEF CountPermissions, CountPermissionsFails, WipePermissions, CreatePermissions, FindAdmin, rows,
               faults
        <3>3. pc[p] \in Granting \cup {"permissions", "admin"}
            BY <1>6 DEF CountPermissions, CountPermissionsFails, WipePermissions, CreatePermissions, FindAdmin, Granting
        <3>4. collided => collided'
            BY <1>6 DEF CountPermissions, CountPermissionsFails, WipePermissions, CreatePermissions, FindAdmin
        <3>5. QED
            BY <3>1, <3>2, <3>3, <3>4
    <2>3. s = "find" => user[Account] = RowOfAccount
        <3>1. SUFFICES ASSUME s = "find" PROVE user[Account] = RowOfAccount
            OBVIOUS
        <3>2. FindAdmin(p)
            BY <1>0, <1>6, <2>1, <3>1 DEF CountPermissions, CountPermissionsFails, WipePermissions, CreatePermissions, Go
        <3>3. LiveUsers # {}
            BY <1>0, <2>1, <3>1, <3>2 DEF FindAdmin, Go
        <3>4. QED
            BY <1>1, <3>3 DEF LiveUsers, RowsOK
    <2>4. at[p] = 1 /\ role = Three
        BY <1>2, <2>2 DEF StageOK, Granting, Filing, Later
    <2>5. RowsOK' /\ StageOK(p)'
        BY <1>1, <2>2, <2>3, <2>4 DEF RowsOK, StageOK, Granting, Filing, Later
    <2>6. \A q \in Instance : StageOK(q)'
        BY <1>0, <1>1, <2>2, <2>5, OthersStay
    <2>7. s \notin {"seedRoles", "save", "failed"}
        BY DEF Granting
    <2>8. collided' \/ \A q \in Instance : AloneOK(q)'
        BY <1>1, <2>2, <2>7, AloneStays
    <2>9. QED
        BY <2>5, <2>6, <2>8 DEF SeedsOK
<1>7. CASE FindModerator(p)
    <2>1. role = Three /\ at[p] = 1
        BY <1>2, <1>7 DEF FindModerator, StageOK, Later, Filing
    <2>2. {i \in LiveRoles : role[i].type = "moderator"} = {2}
        BY <2>1, ThreeRoles
    <2>3. moderator' = [moderator EXCEPT ![p] = 2] /\ Go(p, "upsert") /\ UNCHANGED <<role, user, stored, at, collided, hit>>
        BY <1>7, <2>2 DEF FindModerator, rows, faults
    <2>4. \A q \in Instance : /\ pc'[q] = IF q = p THEN "upsert" ELSE pc[q]
                              /\ moderator'[q] = IF q = p THEN 2 ELSE moderator[q]
        BY <1>0, <2>3 DEF Go
    <2>5. RowsOK' /\ StageOK(p)'
        BY <1>1, <2>1, <2>3, <2>4 DEF RowsOK, StageOK, Filing
    <2>6. \A q \in Instance : StageOK(q)'
        BY <1>0, <1>1, <2>3, <2>4, <2>5, OthersStay
    <2>7. collided' \/ \A q \in Instance : AloneOK(q)'
        BY <1>1, <2>3, <2>4, AloneStays
    <2>8. QED
        BY <2>5, <2>6, <2>7 DEF SeedsOK
<1>8. CASE UpsertAccount(p)
    <2>1. role = Three /\ at[p] = 1 /\ moderator[p] = 2
        BY <1>2, <1>8 DEF UpsertAccount, StageOK, Later, Filing
    <2>2. UNCHANGED <<role, stored, at, collided, hit>> /\ Go(p, "find") /\ moderator' = [moderator EXCEPT ![p] = 0]
        BY <1>8 DEF UpsertAccount, faults
    <2>3. \A q \in Instance : pc'[q] = IF q = p THEN "find" ELSE pc[q]
        BY <1>0, <2>2 DEF Go
    <2>4. user' = [user EXCEPT ![Account] = [role |-> 2, deleted |-> IF user[Account] = NoUser THEN FALSE ELSE user[Account].deleted]]
        BY <1>8, <2>1 DEF UpsertAccount
    <2>5. (IF user[Account] = NoUser THEN FALSE ELSE user[Account].deleted) = FALSE
        BY <1>1 DEF RowsOK, RowOfAccount
    <2>6. user'[Account] = RowOfAccount /\ \A u \in User \ {Account} : user'[u] = user[u]
        BY <1>0, <2>4, <2>5 DEF RowOfAccount
    <2>7. RowsOK' /\ StageOK(p)'
        BY <1>1, <2>1, <2>2, <2>3, <2>6 DEF RowsOK, StageOK, Filing
    <2>8. \A q \in Instance : StageOK(q)'
        BY <1>0, <1>1, <2>2, <2>3, <2>6, <2>7, OthersStay
    <2>9. collided' \/ \A q \in Instance : AloneOK(q)'
        BY <1>1, <2>2, <2>3, AloneStays
    <2>10. QED
        BY <2>7, <2>8, <2>9 DEF SeedsOK
<1>9. CASE FindTemplate(p)
    <2> DEFINE none == at[p] \in absent \/ at[p] \notin stored
    <2>1. /\ pc[p] = "find" /\ UNCHANGED <<role, user, stored, moderator, hit>>
          /\ collided => collided'
          /\ none /\ (at[p] \in stored \/ \E q \in Instance \ {p} : pc[q] = "save" /\ at[q] = at[p]) => collided'
        BY <1>9 DEF FindTemplate, rows, faults
    <2>2. /\ role = Three /\ user[Account] = RowOfAccount /\ 1..(at[p] - 1) \subseteq stored
          /\ at[p] \in 1..Templates /\ Templates \in Nat
        BY <1>0, <1>2, <2>1, BootstrapAssumption DEF StageOK, Later, Filing, Template
    <2>3. RowsOK'
        BY <1>1, <2>1 DEF RowsOK
    <2>4. CASE none
        <3>1. at' = at /\ \A q \in Instance : pc'[q] = IF q = p THEN "save" ELSE pc[q]
            BY <1>0, <1>9, <2>4 DEF FindTemplate, Go
        <3>2. StageOK(p)'
            BY <2>1, <2>2, <3>1 DEF StageOK, Filing
        <3>3. \A q \in Instance : StageOK(q)'
            BY <1>0, <1>1, <2>1, <3>1, <3>2, OthersStay
        <3>4. ASSUME NEW q \in Instance, AloneOK(q), ~collided' PROVE AloneOK(q)'
            BY <2>1, <2>4, <3>1, <3>4 DEF AloneOK, Elsewhere
        <3>5. QED
            BY <1>1, <2>1, <2>3, <3>3, <3>4 DEF SeedsOK
    <2>5. CASE ~none
        <3>1. at[p] \in stored
            BY <2>5
        <3>2. 1..at[p] \subseteq stored
            BY <2>2, <3>1
        <3>3. CASE at[p] = Templates
            <4>1. at' = at /\ \A q \in Instance : pc'[q] = IF q = p THEN "serve" ELSE pc[q]
                BY <1>0, <1>9, <2>5, <3>3 DEF FindTemplate, Go
            <4>2. StageOK(p)'
                BY <1>0, <2>1, <2>2, <3>2, <3>3, <4>1 DEF StageOK, Filing, Template
            <4>3. \A q \in Instance : StageOK(q)'
                BY <1>0, <1>1, <2>1, <4>1, <4>2, OthersStay
            <4>4. collided' \/ \A q \in Instance : AloneOK(q)'
                BY <1>1, <2>1, <4>1, AloneStays
            <4>5. QED
                BY <2>3, <4>3, <4>4 DEF SeedsOK
        <3>4. CASE at[p] # Templates
            <4>1. pc' = pc /\ \A q \in Instance : at'[q] = IF q = p THEN at[p] + 1 ELSE at[q]
                BY <1>0, <1>9, <2>5, <3>4 DEF FindTemplate
            <4>2. 1..(at'[p] - 1) \subseteq stored
                BY <2>2, <3>2, <4>1
            <4>3. StageOK(p)'
                BY <2>1, <2>2, <4>1, <4>2 DEF StageOK, Filing
            <4>4. \A q \in Instance : StageOK(q)'
                BY <1>0, <1>1, <2>1, <4>1, <4>3, OthersStay
            <4>5. collided' \/ \A q \in Instance : AloneOK(q)'
                BY <1>1, <2>1, <4>1, AloneStays
            <4>6. QED
                BY <2>3, <4>4, <4>5 DEF SeedsOK
        <3>5. QED
            BY <3>3, <3>4
    <2>6. QED
        BY <2>4, <2>5
<1>10. CASE SaveTemplate(p)
    <2>1. pc[p] = "save" /\ UNCHANGED <<role, user, collided, hit>>
        BY <1>10 DEF SaveTemplate, faults
    <2>2. /\ role = Three /\ user[Account] = RowOfAccount /\ 1..(at[p] - 1) \subseteq stored
          /\ at[p] \in 1..Templates /\ Templates \in Nat
        BY <1>0, <1>2, <2>1, BootstrapAssumption DEF StageOK, Later, Filing, Template
    <2>3. RowsOK'
        BY <1>1, <2>1 DEF RowsOK
    <2>4. CASE at[p] \in stored
        <3>1. Fails(p) /\ UNCHANGED stored
            BY <1>10, <2>4 DEF SaveTemplate
        <3>2. \A q \in Instance : /\ pc'[q] = IF q = p THEN "failed" ELSE pc[q]
                                  /\ at'[q] = IF q = p THEN 1 ELSE at[q]
                                  /\ moderator'[q] = IF q = p THEN 0 ELSE moderator[q]
            BY <1>0, <3>1 DEF Fails, Go
        <3>3. StageOK(p)'
            BY <3>2 DEF StageOK, Later, Granting, Filing
        <3>4. \A q \in Instance : StageOK(q)'
            BY <1>0, <1>1, <2>1, <3>1, <3>2, <3>3, OthersStay
        <3>5. collided'
            BY <1>1, <2>1, <2>4 DEF AloneOK
        <3>6. QED
            BY <2>3, <3>4, <3>5 DEF SeedsOK
    <2>5. CASE at[p] \notin stored
        <3>1. stored' = stored \cup {at[p]} /\ moderator' = moderator
            BY <1>10, <2>5 DEF SaveTemplate
        <3>2. 1..at[p] \subseteq stored'
            BY <2>2, <3>1
        <3>3. StageOK(p)'
            <4>1. CASE at[p] = Templates
                <5>1. at' = at /\ pc'[p] = "serve"
                    BY <1>0, <1>10, <2>5, <4>1 DEF SaveTemplate, Go
                <5>2. QED
                    BY <1>0, <2>1, <2>2, <3>2, <4>1, <5>1 DEF StageOK, Filing, Template
            <4>2. CASE at[p] # Templates
                <5>1. at'[p] = at[p] + 1 /\ pc'[p] = "find"
                    BY <1>0, <1>10, <2>5, <4>2 DEF SaveTemplate, Go
                <5>2. 1..(at'[p] - 1) \subseteq stored'
                    BY <2>2, <3>2, <5>1
                <5>3. QED
                    BY <2>1, <2>2, <5>1, <5>2 DEF StageOK, Filing
            <4>3. QED
                BY <4>1, <4>2
        <3>4. /\ pc'[p] \in {"find", "serve"}
              /\ \A q \in Instance \ {p} : pc'[q] = pc[q] /\ at'[q] = at[q]
            BY <1>0, <1>10, <2>5 DEF SaveTemplate, Go
        <3>5. \A q \in Instance : StageOK(q)'
            BY <1>0, <1>1, <2>1, <3>1, <3>3, <3>4, OthersStay
        <3>6. ASSUME NEW q \in Instance, AloneOK(p), AloneOK(q) PROVE AloneOK(q)'
            <4>1. CASE q = p
                BY <3>4, <4>1 DEF AloneOK
            <4>2. CASE q # p
                BY <2>1, <3>1, <3>4, <3>6, <4>2 DEF AloneOK, Elsewhere
            <4>3. QED
                BY <4>1, <4>2
        <3>7. QED
            BY <1>1, <2>1, <2>3, <3>5, <3>6 DEF SeedsOK
    <2>6. QED
        BY <2>4, <2>5
<1>11. CASE CountRolesFails(p)
    <2>1. /\ \A q \in Instance : pc'[q] = IF q = p THEN "seedRoles" ELSE pc[q]
          /\ pc[p] = "roles" /\ UNCHANGED <<role, user, stored, at, moderator>>
          /\ (collided => collided') /\ (Elsewhere(p, {"seedRoles"}) => collided')
          /\ hit' = IF LiveRoles = {} THEN hit ELSE hit \cup {p}
        BY <1>0, <1>11 DEF CountRolesFails, Go, rows
    <2>2. RowsOK' /\ StageOK(p)'
        BY <1>1, <1>2, <2>1 DEF RowsOK, StageOK, Later, Granting, Filing
    <2>3. \A q \in Instance : StageOK(q)'
        BY <1>0, <1>1, <2>1, <2>2, OthersStay
    <2>4. ASSUME NEW q \in Instance, AloneOK(q), ~Elsewhere(p, {"seedRoles"}) PROVE AloneOK(q)'
        <3>1. LiveRoles = {} => role = <<>>
            BY <1>1, ThreeRoles DEF RowsOK
        <3>2. LiveRoles # {} => role = Three
            BY <1>1, ThreeRoles DEF RowsOK
        <3>3. QED
            BY <2>1, <2>4, <3>1, <3>2 DEF AloneOK, Elsewhere
    <2>5. QED
        BY <1>1, <2>1, <2>2, <2>3, <2>4 DEF SeedsOK
<1>12. QED
    BY <1>4, <1>5, <1>6, <1>7, <1>8, <1>9, <1>10, <1>11 DEF Boot

LEMMA SeedsStay == Typed /\ Typed' /\ SeedsOK /\ [Next]_vars => SeedsOK'
<1> SUFFICES ASSUME Typed, Typed', SeedsOK, [Next]_vars, edits' = 0 PROVE SeedsOK'
    BY DEF SeedsOK
<1>0. /\ pc \in [Instance -> Stage] /\ at \in [Instance -> Template] /\ moderator \in [Instance -> 0..MaxRoles]
      /\ edits \in Nat /\ stored \subseteq Template
    BY BootstrapAssumption DEF Typed, TypeOK
<1>1. ASSUME UNCHANGED <<role, user, stored, pc, at, moderator, edits, collided, hit>> PROVE SeedsOK'
    BY <1>1 DEF SeedsOK, RowsOK, StageOK, AloneOK, Elsewhere
<1>2. ASSUME NEW p \in Instance, Start(p) \/ Crash(p) \/ Rejected(p) PROVE SeedsOK'
    <2>1. edits = 0
        BY <1>2 DEF Start, Crash, Rejected, Fails, bounds
    <2>2. RowsOK /\ (\A q \in Instance : StageOK(q)) /\ (collided \/ \A q \in Instance : AloneOK(q))
        BY <2>1 DEF SeedsOK
    <2>3. PICK s \in {"roles", "down", "failed"} : \A q \in Instance : pc'[q] = IF q = p THEN s ELSE pc[q]
        BY <1>0, <1>2 DEF Start, Crash, Rejected, Fails, Go
    <2>4. UNCHANGED <<role, user, stored, collided>>
        BY <1>2 DEF Start, Crash, Rejected, Fails, rows
    <2>5. at'[p] = 1
        BY <1>0, <1>2, <2>2 DEF Start, Crash, Rejected, Fails, StageOK, Filing
    <2>6. \A q \in Instance \ {p} : pc'[q] = pc[q] /\ at'[q] = at[q] /\ moderator'[q] = moderator[q]
        BY <1>0, <1>2, <2>3 DEF Start, Crash, Rejected, Fails
    <2>7. RowsOK' /\ StageOK(p)'
        BY <2>2, <2>3, <2>4, <2>5 DEF RowsOK, StageOK, Later, Granting, Filing
    <2>8. \A q \in Instance : StageOK(q)'
        BY <1>0, <2>2, <2>4, <2>6, <2>7, OthersStay
    <2>h. /\ \A q \in Instance \ {p} : q \in hit => q \in hit'
          /\ pc'[p] = "failed" => p \in hit'
        BY <1>0, <1>2 DEF Start, Crash, Rejected, Go
    <2>9. collided' \/ \A q \in Instance : AloneOK(q)'
        BY <2>2, <2>3, <2>4, <2>6, <2>h, AloneStays
    <2>10. QED
        BY <2>7, <2>8, <2>9 DEF SeedsOK
<1>3. ASSUME NEW p \in Instance, Boot(p) PROVE SeedsOK'
    <2>1. edits = 0
        BY <1>3 DEF Boot, CountRoles, CountRolesFails, SeedRoles, CountPermissions, CountPermissionsFails, WipePermissions, CreatePermissions, FindAdmin,
           FindModerator, UpsertAccount, FindTemplate, SaveTemplate, bounds
    <2>2. QED
        BY <1>3, <2>1, SeedsBoot
<1>4. ASSUME NEW p \in Instance, NEW t \in Type, RefreshAbility(p, t) PROVE SeedsOK'
    BY <1>1, <1>4 DEF RefreshAbility, rows, bounds, faults
<1>5. ASSUME NEW x \in absent, Forget(x) PROVE SeedsOK'
    BY <1>1, <1>5 DEF Forget, rows, bounds, faults
<1>6. ASSUME NEW p \in Instance, NEW u \in User, Administer(p, u) PROVE SeedsOK'
    <2>1. edits' = edits + 1
        BY <1>6 DEF Administer, CreateUser, UpdateUser, DeleteUser, CreateRole, UpdateRole, DeleteRole, Edit
    <2>2. QED
        BY <1>0, <2>1
<1>7. ASSUME NEW p \in Instance, FillAbilities(p) PROVE SeedsOK'
    BY <1>1, <1>7 DEF FillAbilities, rows, bounds, faults
<1>8. CASE UNCHANGED vars
    BY <1>1, <1>8 DEF vars
<1>9. QED
    BY <1>2, <1>3, <1>4, <1>5, <1>6, <1>7, <1>8 DEF Next

\* Whatever the order in which instances start, crash and seed, the first
\* requests are served over the three roles, the permissions, the account with a
\* live role and every template; only a collision or a call of its own that is
\* rejected makes an instance fail, and only a collision or a failed count of
\* permissions that are there can leave it without permissions.
THEOREM FirstStartSeeds == Spec => []ComesUpSeeded
<1>1. Init => SeedsOK
    <2> SUFFICES ASSUME Init PROVE RowsOK /\ \A p \in Instance : StageOK(p) /\ AloneOK(p)
        BY DEF SeedsOK
    <2>1. RowsOK
        BY BootstrapAssumption DEF Init, RowsOK
    <2>2. ASSUME NEW p \in Instance PROVE StageOK(p) /\ AloneOK(p)
        <3>1. pc[p] = "down" /\ at[p] = 1
            BY DEF Init
        <3>2. QED
            BY <3>1 DEF StageOK, AloneOK, Later, Granting, Filing
    <2>3. QED
        BY <2>1, <2>2
<1>2. Init => GrantsOK
    BY DEF Init, GrantsOK, Later, Granting, SeedType, Type
<1>3. Typed /\ SeedsOK /\ GrantsOK => ComesUpSeeded
    <2> SUFFICES ASSUME Typed, SeedsOK, GrantsOK, edits = 0, NEW p \in Instance
                 PROVE  /\ pc[p] = "failed" => collided \/ p \in hit
                        /\ pc[p] = "serve" =>
                              /\ {role[i].type : i \in LiveRoles} = SeedType
                              /\ Account \in LiveUsers /\ user[Account].role \in LiveRoles
                              /\ stored = Template
                              /\ collided \/ reseeded \/ grants > 0
        BY DEF ComesUpSeeded
    <2>1. pc[p] = "failed" => collided \/ p \in hit
        BY DEF SeedsOK, AloneOK
    <2>2. ASSUME pc[p] = "serve"
          PROVE  /\ {role[i].type : i \in LiveRoles} = SeedType
                 /\ Account \in LiveUsers /\ user[Account].role \in LiveRoles
                 /\ stored = Template
                 /\ collided \/ reseeded \/ grants > 0
        <3>1. role = Three /\ user[Account] = RowOfAccount /\ stored = Template
            BY <2>2 DEF SeedsOK, StageOK, Later, Filing
        <3>2. user[Account] # NoUser
            <4>1. 2 \in 1..MaxRoles
                <5>1. Roles = 1..3 /\ Len(role) \in Nat /\ Len(role) <= MaxRoles
                    BY <3>1, ThreeRoles DEF Typed, TypeOK
                <5>2. QED
                    BY <5>1, BootstrapAssumption DEF Roles
            <4>2. RowOfAccount \in UserRow
                BY <4>1 DEF RowOfAccount, UserRow
            <4>3. QED
                BY <3>1, <4>2, BootstrapAssumption
        <3>3. Account \in LiveUsers /\ user[Account].role \in LiveRoles
            BY <3>1, <3>2, ThreeRoles, BootstrapAssumption DEF LiveUsers, RowOfAccount
        <3>4. {role[i].type : i \in LiveRoles} = SeedType
            <4>1. LiveRoles = {1, 2, 3}
                BY <3>1, ThreeRoles
            <4>2. QED
                BY <3>1, <4>1, ThreeRoles DEF SeedType
        <3>5. collided \/ reseeded \/ grants > 0
            BY <2>2 DEF GrantsOK, Excused, Later
        <3>6. QED
            BY <3>1, <3>3, <3>4, <3>5
    <2>3. QED
        BY <2>1, <2>2
<1>4. QED
    BY <1>1, <1>2, <1>3, GrantsStay, SeedsStay, TypeCorrect, PTL DEF Spec
=============================================================================
