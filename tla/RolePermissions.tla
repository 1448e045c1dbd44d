---------------------------- MODULE RolePermissions ----------------------------
(***************************************************************************)
(* Roles, their permissions and the overrides of single users               *)
(* (app/api/rbac.py, app/core/dependencies.py), for one company.             *)
(*                                                                         *)
(* A company makes a role its own by a row of the role; the permissions      *)
(* granted to that row are the company's, those granted to the name alone    *)
(* are the super admin's.  A request reads a snapshot and commits at its end; *)
(* its deletions reach the rows that are there by then.                      *)
(***************************************************************************)
EXTENDS Integers, FiniteSets

CONSTANTS
    Code,            \* permissions of one action, "module.action"
    ModuleOf,        \* the permission for all of a module, "module.*", of each code
    Anything,        \* the permission "*"
    BuiltIn, Custom, \* names of roles: ROLES but for Admin, and others
    Person,          \* users of the company
    RoleOf,          \* their roles
    Payload,         \* the sets of permissions a request may name
    Ruling,          \* slots of requests
    MaxRules         \* bound: requests that write

ASSUME RoleAssumption ==
    /\ \A c \in Code : ModuleOf[c] \notin Code \cup {Anything}
    /\ Anything \notin Code
    /\ UNION Payload \subseteq Code \cup {ModuleOf[c] : c \in Code} \cup {Anything}
    /\ BuiltIn \cap Custom = {} /\ "Admin" \notin BuiltIn \cup Custom
    /\ \A p \in Person : RoleOf[p] \in BuiltIn \cup Custom \cup {"Admin"}
    /\ MaxRules \in Nat

VARIABLES
    catalogue,       \* the permissions there are
    companyRole,     \* the id of the company's row of each role, 0 for none
    systemRoles,     \* roles that are the super admin's
    own, shared,     \* permissions of the company's row, and of the name, of each role
    overrides,       \* permissions granted to, and revoked from, each user
    logged,          \* the permissions last logged for each role of the company
    ruling,          \* the request in each slot
    rules,           \* requests that wrote, so far
    collided         \* history: roles that requests changed out of order, or that were reset

roleVars == <<catalogue, companyRole, systemRoles, own, shared, overrides, logged, ruling, rules, collided>>

Admin == "Admin"
RoleName == BuiltIn \cup Custom \cup {Admin}
Modules == {ModuleOf[c] : c \in Code}
Permission == Code \cup Modules \cup {Anything}
Nobody == [phase |-> "none"]

RolesInit ==
    /\ catalogue \in {{}, Permission}
    /\ companyRole = [r \in RoleName |-> IF r \in Custom /\ \E p \in Person : RoleOf[p] = r THEN 1 ELSE 0]
    /\ systemRoles = {}
    /\ own = [r \in RoleName |-> {}] /\ shared = [r \in RoleName |-> {}]
    /\ overrides = [p \in Person |-> [granted |-> {}, revoked |-> {}]]
    /\ logged = [r \in RoleName |-> {}]
    /\ ruling = [s \in Ruling |-> Nobody]
    /\ rules = 0 /\ collided = {}

-----------------------------------------------------------------------------
\* _fetch_role_permissions_list
Listed(r, row, mine, all, codes) ==
    IF r = Admin THEN codes \ {Anything}
    ELSE IF row # 0 THEN mine
    ELSE IF r \in BuiltIn THEN {} ELSE all
ListedNow(r) == Listed(r, companyRole[r], own[r], shared[r], catalogue)

\* get_effective_user_permissions: what the role gives.
RoleGives(r) ==
    IF r = Admin THEN catalogue \ {Anything}
    ELSE (IF companyRole[r] # 0 THEN own[r] ELSE {}) \cup (IF r \in Custom THEN shared[r] ELSE {})
\* Mutant: the permission for all of a module is dropped and not spelled out.
ExpandedNot(held, revoked, codes) ==
    (held \ {ModuleOf[c] : c \in revoked \cap Code}) \cup
    (IF Anything \in held /\ revoked # {} THEN codes \cap Code ELSE {})
\* What covers a revoked code is spelled out in single codes.
Expanded(held, revoked, codes) ==
    LET touched == {ModuleOf[c] : c \in revoked \cap Code}
        all == IF Anything \in held THEN codes \cap Code ELSE {} IN
    IF revoked = {} THEN held
    ELSE ((held \cup all \cup {c \in codes \cap Code : ModuleOf[c] \in touched \cap held})
             \ ({Anything} \cup touched)) \ revoked
Effective(p) ==
    LET o == overrides[p]
        role == RoleGives(RoleOf[p]) IN
    IF RoleOf[p] = Admin THEN (role \ o.revoked) \ {ModuleOf[c] : c \in o.revoked \cap Code}
    ELSE Expanded((role \cup o.granted) \ o.revoked, o.revoked, catalogue)
HasPermission(held, c) == Anything \in held \/ c \in held \/ ModuleOf[c] \in held

-----------------------------------------------------------------------------
OpenRule(s) ==
    /\ ruling[s].phase = "none"
    /\ ruling' = [ruling EXCEPT ![s] =
           [phase |-> "open", row |-> companyRole, mine |-> own, at |-> rules]]
    /\ UNCHANGED <<catalogue, companyRole, systemRoles, own, shared, overrides, logged, rules, collided>>
\* The request commits, and record_rbac_audit is in its transaction.
RequestEnds(s) ==
    /\ ruling[s].phase = "open" /\ rules < MaxRules /\ rules' = rules + 1
    /\ ruling' = [ruling EXCEPT ![s] = Nobody]
Ruled(s, roles) ==
    /\ RequestEnds(s)
    /\ collided' = IF ruling[s].at = rules THEN collided ELSE collided \cup roles
RowOf(s, r) == ruling[s].row[r]

\* create_role, for the company and, as a role of the system, for everybody
CreateRole(s, r) ==
    /\ Ruled(s, {r}) /\ r \in Custom
    /\ RowOf(s, r) = 0 /\ companyRole[r] = 0
    /\ companyRole' = [companyRole EXCEPT ![r] = rules + 2]
    /\ logged' = [logged EXCEPT ![r] = {}]
    /\ UNCHANGED <<catalogue, systemRoles, own, shared, overrides>>
CreateSystemRole(s, r) ==
    /\ Ruled(s, {}) /\ r \notin systemRoles
    /\ systemRoles' = systemRoles \cup {r}
    /\ UNCHANGED <<catalogue, companyRole, own, shared, overrides, logged>>
\* Mutant: the users who have the role are not counted.
AssignedNever(r) == FALSE
Assigned(r) == \E p \in Person : RoleOf[p] = r
\* The row goes, and its grants with it; another that took its place stays.
RowGone(s, r) ==
    LET there == companyRole[r] = RowOf(s, r) IN
    /\ companyRole' = IF there THEN [companyRole EXCEPT ![r] = 0] ELSE companyRole
    /\ own' = IF there THEN [own EXCEPT ![r] = {}] ELSE own
DeleteCustomRole(s, r) ==
    /\ Ruled(s, {r}) /\ r \in Custom
    /\ RowOf(s, r) # 0 /\ ~Assigned(r)
    /\ RowGone(s, r)
    /\ UNCHANGED <<catalogue, systemRoles, shared, overrides, logged>>
\* reset_role_defaults: whoever has the role.
ResetRoleDefaults(s, r) ==
    /\ RequestEnds(s)
    /\ r \in Custom => RowOf(s, r) # 0 \/ r \in systemRoles
    /\ IF RowOf(s, r) # 0 THEN RowGone(s, r) ELSE UNCHANGED <<companyRole, own>>
    /\ collided' = collided \cup {r}
    /\ UNCHANGED <<catalogue, systemRoles, shared, overrides, logged>>

\* _get_or_create_company_role: a row the snapshot has, if it is still there, or a
\* new one, if no other request made it.
CompanyRole(s, r, needed) ==
    /\ r \in Custom => RowOf(s, r) # 0 \/ r \in systemRoles
    /\ IF RowOf(s, r) # 0 THEN (needed => companyRole[r] = RowOf(s, r)) /\ UNCHANGED companyRole
       ELSE companyRole[r] = 0 /\ companyRole' = [companyRole EXCEPT ![r] = rules + 2]
Mine(s, r) == IF RowOf(s, r) # 0 THEN ruling[s].mine[r] ELSE {}
Same(s, r) == RowOf(s, r) \in {0, companyRole[r]}
LogListed(r, mine) == logged' = [logged EXCEPT ![r] = Listed(r, 1, mine, {}, catalogue)]
\* add_role_permissions: those the snapshot does not show.
AddRolePermissions(s, r, codes) ==
    LET new == codes \ Mine(s, r) IN
    /\ Ruled(s, {r}) /\ codes \subseteq catalogue
    /\ CompanyRole(s, r, new # {})
    /\ own' = [own EXCEPT ![r] = @ \cup new]
    /\ LogListed(r, Mine(s, r) \cup codes)
    /\ UNCHANGED <<catalogue, systemRoles, shared, overrides>>
\* Mutant: the rows there were stay.
ReplacedOnto(old, new) == old \cup new
Replaced(old, new) == new
UpdateRolePermissions(s, r, codes) ==
    /\ Ruled(s, {r}) /\ codes \subseteq catalogue
    /\ CompanyRole(s, r, codes # {})
    /\ own' = IF Same(s, r) THEN [own EXCEPT ![r] = Replaced(@, codes)] ELSE own
    /\ LogListed(r, codes)
    /\ UNCHANGED <<catalogue, systemRoles, shared, overrides>>
\* delete_single_role_permission, delete_bulk_role_permissions
DeleteRolePermissions(s, r, codes) ==
    /\ Ruled(s, {r}) /\ codes \subseteq catalogue
    /\ CompanyRole(s, r, FALSE)
    /\ own' = IF Same(s, r) THEN [own EXCEPT ![r] = @ \ codes] ELSE own
    /\ LogListed(r, Mine(s, r) \ codes)
    /\ UNCHANGED <<catalogue, systemRoles, shared, overrides>>
\* The same three routes for the super admin, who has no company: the name's rows.
ShareRolePermissions(s, r, codes) ==
    /\ Ruled(s, {}) /\ codes \subseteq catalogue
    /\ r \in Custom => r \in systemRoles
    /\ shared' \in {[shared EXCEPT ![r] = @ \cup codes], [shared EXCEPT ![r] = codes],
                    [shared EXCEPT ![r] = @ \ codes]}
    /\ UNCHANGED <<catalogue, companyRole, systemRoles, own, overrides, logged>>
\* seed_permissions, and assign_default_role_permissions: Admin gets the catalogue,
\* the names of other roles nothing.
SeedPermissions(s) ==
    /\ Ruled(s, {})
    /\ catalogue' = Permission
    /\ UNCHANGED <<companyRole, systemRoles, own, shared, overrides, logged>>
AssignDefaultRolePermissions(s) ==
    /\ Ruled(s, {})
    /\ shared' = [r \in RoleName |-> IF r = Admin THEN catalogue ELSE {}]
    /\ UNCHANGED <<catalogue, companyRole, systemRoles, own, overrides, logged>>
\* update_user_permission_overrides: all of them; unknown codes are passed over.
UpdateUserPermissionOverrides(s, p, granted, revoked) ==
    /\ Ruled(s, {}) /\ granted \cap revoked = {}
    /\ overrides' = [overrides EXCEPT ![p] =
           [granted |-> granted \cap catalogue, revoked |-> revoked \cap catalogue]]
    /\ UNCHANGED <<catalogue, companyRole, systemRoles, own, shared, logged>>

RolesNext ==
    \E s \in Ruling :
        \/ OpenRule(s) \/ SeedPermissions(s) \/ AssignDefaultRolePermissions(s)
        \/ \E r \in Custom : CreateRole(s, r) \/ CreateSystemRole(s, r) \/ DeleteCustomRole(s, r)
        \/ \E r \in RoleName : ResetRoleDefaults(s, r)
        \/ \E r \in RoleName, codes \in Payload :
            \/ AddRolePermissions(s, r, codes) \/ UpdateRolePermissions(s, r, codes)
            \/ DeleteRolePermissions(s, r, codes) \/ ShareRolePermissions(s, r, codes)
        \/ \E p \in Person, granted, revoked \in Payload :
            UpdateUserPermissionOverrides(s, p, granted, revoked)
RolesSpec == RolesInit /\ [][RolesNext]_roleVars

RolesTypeOK ==
    /\ catalogue \subseteq Permission /\ systemRoles \subseteq Custom
    /\ companyRole \in [RoleName -> 0..(MaxRules + 1)]
    /\ own \in [RoleName -> SUBSET Permission] /\ shared \in [RoleName -> SUBSET Permission]
    /\ overrides \in [Person -> [granted : SUBSET Permission, revoked : SUBSET Permission]]
    /\ logged \in [RoleName -> SUBSET Permission]
    /\ rules \in 0..MaxRules /\ collided \subseteq RoleName

-----------------------------------------------------------------------------
Covered(held, c) == Anything \in held \/ c \in held \/ ModuleOf[c] \in held
\* What a user may do, after the permissions that cover much are spelled out and
\* those that are revoked are taken away, is what the role and the grants cover
\* and is not revoked.
EffectiveIsCoverage ==
    \A p \in Person : \A c \in catalogue \cap Code :
        LET o == overrides[p]
            given == RoleGives(RoleOf[p]) \cup (IF RoleOf[p] = Admin THEN {} ELSE o.granted) IN
        HasPermission(Effective(p), c) <=> c \notin o.revoked /\ Covered(given \ o.revoked, c)
\* The list of a role shows what its users get, and for a custom role no more.
ListedIsEffective ==
    \A p \in Person :
        LET r == RoleOf[p] IN
        overrides[p].granted \cup overrides[p].revoked = {} =>
            /\ ListedNow(r) \subseteq Effective(p)
            /\ r \notin Custom \/ companyRole[r] = 0 \/ shared[r] = {} => ListedNow(r) = Effective(p)
\* The log's last list of a role is the role's, and a role somebody has is there,
\* unless requests changed it out of order, or it was reset.
LogShowsRole ==
    \A r \in RoleName \ collided :
        /\ companyRole[r] # 0 /\ r # Admin => logged[r] = ListedNow(r)
        /\ r \in Custom /\ (\E p \in Person : RoleOf[p] = r) => companyRole[r] # 0
RolesStand == EffectiveIsCoverage /\ ListedIsEffective /\ LogShowsRole
=============================================================================
