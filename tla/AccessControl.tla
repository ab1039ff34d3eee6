--------------------------- MODULE AccessControl ---------------------------
(***************************************************************************)
(* Accounts, roles and tokens: app/domains/auth, app/domains/rbac,         *)
(* app/core/security.py and dependencies.py, the access control views of   *)
(* app/admin.py and the seeding of the role tables.                        *)
(*                                                                         *)
(* A token carries the roles and the permissions that two queries found    *)
(* when it was issued, and a request acts with what its token carries, so  *)
(* what a user may do lags behind the tables.  The tables change at the    *)
(* same time through the API, through the panel and through the scripts.   *)
(*                                                                         *)
(* Time is counted in ticks that are long compared to a handler: a tick    *)
(* falls between requests.                                                 *)
(***************************************************************************)
EXTENDS BessPermissions, FiniteSets, Naturals

CONSTANTS
    User,             \* the ids the users table may hand out
    Address,          \* e-mail addresses, whatever their case
    Typed,            \* bound: the e-mails that are typed into forms
    Role,             \* the names a role may have
    Demo,             \* [some seeded roles -> the address of their demo account]
    ChangeRole,       \* bound: the roles that are changed, granted and taken
    ChangePermission, \* bound: the permissions that are
    AccessLife,       \* ticks an access token lives
    RefreshLife,      \* ticks a refresh token lives
    Request,          \* the API requests in flight at a time
    MaxPairs,         \* bound: token pairs in clients' hands at a time
    MaxChanges        \* bound: transactions that change the tables

ASSUME AccessAssumption ==
    /\ Typed \subseteq Address \X {"lower", "mixed"}
    /\ SEEDED_ROLES \subseteq Role
    /\ User \cap Role = {}
    /\ DOMAIN Demo \subseteq SEEDED_ROLES
    /\ Demo \in [DOMAIN Demo -> Address]
    /\ ChangeRole \subseteq Role
    /\ ChangePermission \subseteq PERMISSIONS
    /\ AccessLife \in Nat
    /\ RefreshLife \in Nat
    /\ AccessLife <= RefreshLife
    /\ IsFiniteSet(Request)
    /\ MaxChanges \in Nat

VARIABLES
    email,            \* [User -> users.email, or what is there instead of a row]
    active,           \* the users with is_active
    signup,           \* [User -> whether the account was registered, and kept its e-mail]
    roles,            \* the names in the roles table
    permissions,      \* those in the permissions table
    role_permissions, \* <<role, permission>>
    user_roles,       \* <<user, role>>
    pairs,            \* the pairs of an access and a refresh token that were issued
    sessions,         \* the users whose browser has an admin panel session
    req,              \* [Request -> the state of the handler it runs]
    lost,             \* what user_roles and role_permissions lost, and how many ticks ago
    changes           \* the transactions that changed the tables

tables == <<email, active, signup, roles, permissions, role_permissions, user_roles>>
vars == <<tables, pairs, sessions, req, lost, changes>>

----------------------------------------------------------------------------

\* An e-mail is an address as it was typed.
Email == Address \X {"lower", "mixed"}
Lower(e) == <<e[1], "lower">>

NoRow == <<"none", "unused">>
Deleted == <<"none", "deleted">>

Exists(u) == email[u] \notin {NoRow, Deleted}
Free(e) == \A u \in User : email[u] # e

Pair == [user : User, roles : SUBSET Role, permissions : SUBSET PERMISSIONS,
         age : 0..RefreshLife]

Idle == [pc |-> "idle"]

\* wants: a pair of tokens, or to be let in.
RequestState ==
    {Idle}
    \cup [pc : {"registering"}, email : Email]
    \cup [pc : {"reading"}, user : User, wants : {"tokens", "entry"}]
    \cup [pc : {"roles_read"}, user : User, wants : {"tokens", "entry"},
          roles : SUBSET Role]
    \cup [pc : {"admitted"}, user : User, roles : SUBSET Role,
          permissions : SUBSET PERMISSIONS]
    \cup [pc : {"creating"}, user : User, role : Role, permissions : SUBSET PERMISSIONS]

Become(r, state) == req' = [req EXCEPT ![r] = state]

\* get_role_permissions.
PermissionsOf(rs) == {p \in PERMISSIONS : \E ro \in rs : <<ro, p>> \in role_permissions}

\* require_permission and require_role, on an AuthContext.
Passes(context, guard) ==
    \/ guard \in PERMISSIONS \cap context.permissions
    \/ guard \in SEEDED_ROLES \cap context.roles
    \/ guard \in {"login", "public"}

Opens(context) == {route[1] : route \in {x \in Routes : Passes(context, x[2])}}

Init ==
    /\ email = [u \in User |-> NoRow]
    /\ active = {}
    /\ signup = [u \in User |-> "no"]
    /\ roles = {}
    /\ permissions = {}
    /\ role_permissions = {}
    /\ user_roles = {}
    /\ pairs = {}
    /\ sessions = {}
    /\ req = [r \in Request |-> Idle]
    /\ lost = {}
    /\ changes = 0

----------------------------------------------------------------------------
(* Accounts and tokens.                                                    *)

\* register_user looks for the e-mail as it was typed ...
RegisterLook(r, e) ==
    /\ req[r] = Idle
    /\ Free(e)
    /\ Become(r, [pc |-> "registering", email |-> e])
    /\ UNCHANGED <<tables, pairs, sessions>>

RegisterCommitTyped(r) ==
    /\ req[r].pc = "registering"
    /\ Free(req[r].email)
    /\ \E u \in User :
        /\ email[u] = NoRow
        /\ email' = [email EXCEPT ![u] = req[r].email]
        /\ active' = active \cup {u}
        /\ signup' = [signup EXCEPT ![u] = "yes"]
        /\ user_roles' = user_roles \cup ({u} \X (roles \cap {"CUSTOMER"}))
        /\ Become(r, [pc |-> "reading", user |-> u, wants |-> "tokens"])
    /\ UNCHANGED <<roles, permissions, role_permissions, pairs, sessions>>

\* ... and stores it in lower case: the unique constraint decides.
RegisterCommit(r) ==
    /\ req[r].pc = "registering"
    /\ Free(Lower(req[r].email))
    /\ \E u \in User :
        /\ email[u] = NoRow
        /\ email' = [email EXCEPT ![u] = Lower(req[r].email)]
        /\ active' = active \cup {u}
        /\ signup' = [signup EXCEPT ![u] = "yes"]
        /\ user_roles' = user_roles \cup ({u} \X (roles \cap {"CUSTOMER"}))
        /\ Become(r, [pc |-> "reading", user |-> u, wants |-> "tokens"])
    /\ UNCHANGED <<roles, permissions, role_permissions, pairs, sessions>>

\* authenticate, with the right password.
Login(r, e) ==
    /\ req[r] = Idle
    /\ \E u \in active :
        /\ email[u] = Lower(e)
        /\ Become(r, [pc |-> "reading", user |-> u, wants |-> "tokens"])
    /\ UNCHANGED <<tables, pairs, sessions>>

RefreshWhoever(r, pair) ==
    /\ req[r] = Idle
    /\ Become(r, [pc |-> "reading", user |-> pair.user, wants |-> "tokens"])
    /\ UNCHANGED <<tables, pairs, sessions>>

\* refresh_tokens uses nothing of the old pair but its user.
Refresh(r, pair) ==
    /\ req[r] = Idle
    /\ pair.user \in active
    /\ Become(r, [pc |-> "reading", user |-> pair.user, wants |-> "tokens"])
    /\ UNCHANGED <<tables, pairs, sessions>>

\* get_user_roles_permissions: first the roles, then their permissions.
ReadRoles(r) ==
    /\ req[r].pc = "reading"
    /\ Become(r, [pc |-> "roles_read", user |-> req[r].user, wants |-> req[r].wants,
                  roles |-> {ro \in roles : <<req[r].user, ro>> \in user_roles}])
    /\ UNCHANGED <<tables, pairs, sessions>>

\* issue_tokens and issue_login_response.
IssueTokens(r) ==
    /\ req[r].pc = "roles_read"
    /\ req[r].wants = "tokens"
    /\ Cardinality(pairs) < MaxPairs
    /\ pairs' = pairs \cup {[user |-> req[r].user, roles |-> req[r].roles,
                             permissions |-> PermissionsOf(req[r].roles), age |-> 0]}
    /\ Become(r, Idle)
    /\ UNCHANGED <<tables, sessions>>

----------------------------------------------------------------------------
(* A request with a bearer token.                                          *)

AnyAlive(pair) == pair.age <= RefreshLife

AccessAlive(pair) == pair.age <= AccessLife

\* get_auth_context: the user must be active now, the roles and permissions
\* are the token's unless one of them is empty.
GetAuthContext(r, pair) ==
    /\ req[r] = Idle
    /\ AccessAlive(pair)
    /\ pair.user \in active
    /\ Become(r, IF pair.roles = {} \/ pair.permissions = {}
                 THEN [pc |-> "reading", user |-> pair.user, wants |-> "entry"]
                 ELSE [pc |-> "admitted", user |-> pair.user, roles |-> pair.roles,
                       permissions |-> pair.permissions])
    /\ UNCHANGED <<tables, pairs, sessions>>

FallBackToTables(r) ==
    /\ req[r].pc = "roles_read"
    /\ req[r].wants = "entry"
    /\ Become(r, [pc |-> "admitted", user |-> req[r].user, roles |-> req[r].roles,
                  permissions |-> PermissionsOf(req[r].roles)])
    /\ UNCHANGED <<tables, pairs, sessions>>

Enters(r, endpoint) == req[r].pc = "admitted" /\ endpoint \in Opens(req[r])

CreateRoleLook(r, ro, ps) ==
    /\ Enters(r, "create_role_endpoint")
    /\ ro \notin roles
    /\ Become(r, [pc |-> "creating", user |-> req[r].user, role |-> ro, permissions |-> ps])
    /\ UNCHANGED <<tables, pairs, sessions>>

\* The constraints: the name is new, the permissions exist.
CreateRoleCommit(r) ==
    /\ req[r].pc = "creating"
    /\ req[r].role \notin roles
    /\ req[r].permissions \subseteq permissions
    /\ roles' = roles \cup {req[r].role}
    /\ role_permissions' = role_permissions \cup ({req[r].role} \X req[r].permissions)
    /\ Become(r, Idle)
    /\ UNCHANGED <<email, active, signup, permissions, user_roles, pairs, sessions>>

\* assign_role_to_user only looks for the user, the constraints for the rest.
AssignRole(r, u, ro) ==
    /\ Enters(r, "assign_role_endpoint")
    /\ Exists(u)
    /\ ro \in roles
    /\ <<u, ro>> \notin user_roles
    /\ user_roles' = user_roles \cup {<<u, ro>>}
    /\ Become(r, Idle)
    /\ UNCHANGED <<email, active, signup, roles, permissions, role_permissions,
                   pairs, sessions>>

RemoveRole(r, u, ro) ==
    /\ Enters(r, "remove_role_endpoint")
    /\ <<u, ro>> \in user_roles
    /\ user_roles' = user_roles \ {<<u, ro>>}
    /\ Become(r, Idle)
    /\ UNCHANGED <<email, active, signup, roles, permissions, role_permissions,
                   pairs, sessions>>

\* The handler ends: another endpoint was served, something was refused, or an
\* error rolled the transaction back.
End(r) ==
    /\ req[r] # Idle
    /\ Become(r, Idle)
    /\ UNCHANGED <<tables, pairs, sessions>>

----------------------------------------------------------------------------
(* The admin panel.  It asks for SUPER_ADMIN at the login only: from then  *)
(* on the cookie is enough, until a logout or until it expires.            *)

PanelLogin(u) ==
    /\ u \in active \ sessions
    /\ <<u, "SUPER_ADMIN">> \in user_roles
    /\ sessions' = sessions \cup {u}
    /\ UNCHANGED <<tables, pairs, req>>

PanelLogout(u) ==
    /\ u \in sessions
    /\ sessions' = sessions \ {u}
    /\ UNCHANGED <<tables, pairs, req>>

\* UserAdmin stores the e-mail as it was typed.
PanelCreateUser(u, e) ==
    /\ email[u] = NoRow
    /\ Free(e)
    /\ email' = [email EXCEPT ![u] = e]
    /\ active' = active \cup {u}
    /\ UNCHANGED <<signup, roles, permissions, role_permissions, user_roles>>

PanelEditUser(u, e, is_active) ==
    /\ Exists(u)
    /\ e = email[u] \/ Free(e)
    /\ email' = [email EXCEPT ![u] = e]
    /\ active' = IF is_active THEN active \cup {u} ELSE active \ {u}
    /\ signup' = IF e # email[u] /\ signup[u] = "yes"
                 THEN [signup EXCEPT ![u] = "edited"] ELSE signup
    /\ UNCHANGED <<roles, permissions, role_permissions, user_roles>>

\* The audit row of a registration forbids to delete the account.
PanelDeleteUser(u) ==
    /\ Exists(u)
    /\ signup[u] = "no"
    /\ email' = [email EXCEPT ![u] = Deleted]
    /\ active' = active \ {u}
    /\ user_roles' = {x \in user_roles : x[1] # u}
    /\ UNCHANGED <<signup, roles, permissions, role_permissions>>

PanelRenameRole(a, b) ==
    /\ a \in roles
    /\ b \notin roles
    /\ roles' = (roles \ {a}) \cup {b}
    /\ role_permissions' = {x \in role_permissions : x[1] # a}
            \cup {<<b, x[2]>> : x \in {y \in role_permissions : y[1] = a}}
    /\ user_roles' = {x \in user_roles : x[2] # a}
            \cup {<<x[1], b>> : x \in {y \in user_roles : y[2] = a}}
    /\ UNCHANGED <<email, active, signup, permissions>>

PanelDeleteRoleRow(ro) ==
    /\ ro \in roles
    /\ roles' = roles \ {ro}
    /\ UNCHANGED <<email, active, signup, permissions, role_permissions, user_roles>>

PanelDeleteRole(ro) ==
    /\ ro \in roles
    /\ roles' = roles \ {ro}
    /\ role_permissions' = {x \in role_permissions : x[1] # ro}
    /\ user_roles' = {x \in user_roles : x[2] # ro}
    /\ UNCHANGED <<email, active, signup, permissions>>

PanelDeletePermission(p) ==
    /\ p \in permissions
    /\ permissions' = permissions \ {p}
    /\ role_permissions' = {x \in role_permissions : x[2] # p}
    /\ UNCHANGED <<email, active, signup, roles, user_roles>>

PanelUserRole(u, ro) ==
    /\ Exists(u)
    /\ ro \in roles
    /\ user_roles' = IF <<u, ro>> \in user_roles THEN user_roles \ {<<u, ro>>}
                                                 ELSE user_roles \cup {<<u, ro>>}
    /\ UNCHANGED <<email, active, signup, roles, permissions, role_permissions>>

PanelRolePermission(ro, p) ==
    /\ ro \in roles
    /\ p \in permissions
    /\ role_permissions' =
            IF <<ro, p>> \in role_permissions THEN role_permissions \ {<<ro, p>>}
                                              ELSE role_permissions \cup {<<ro, p>>}
    /\ UNCHANGED <<email, active, signup, roles, permissions, user_roles>>

PanelEdit ==
    /\ sessions # {}
    /\ \/ \E u \in User, e \in Typed :
            \/ PanelCreateUser(u, e)
            \/ \E is_active \in BOOLEAN : PanelEditUser(u, e, is_active)
       \/ \E u \in User : PanelDeleteUser(u)
       \/ \E a, b \in ChangeRole : PanelRenameRole(a, b)
       \/ \E ro \in ChangeRole : PanelDeleteRole(ro)
       \/ \E p \in ChangePermission : PanelDeletePermission(p)
       \/ \E u \in User, ro \in ChangeRole : PanelUserRole(u, ro)
       \/ \E ro \in ChangeRole, p \in ChangePermission : PanelRolePermission(ro, p)
    /\ UNCHANGED <<pairs, sessions, req>>

----------------------------------------------------------------------------
(* The scripts, and time.                                                  *)

\* Who has, or is given, the demo account of each role.
DemoOwners ==
    {owner \in [DOMAIN Demo -> User] :
        /\ \A ro \in DOMAIN Demo :
            \/ email[owner[ro]] = <<Demo[ro], "lower">>
            \/ email[owner[ro]] = NoRow /\ Free(<<Demo[ro], "lower">>)
        /\ \A a, b \in DOMAIN Demo : owner[a] = owner[b] <=> Demo[a] = Demo[b]}

\* seed_rbac_flow, and seed for the same tables: whatever is missing is put
\* in, in one transaction.
Seed ==
    \E owner \in DemoOwners :
        LET new(u) == \E ro \in DOMAIN Demo : owner[ro] = u /\ email[u] = NoRow
        IN  /\ email' = [u \in User |->
                            IF new(u)
                            THEN <<Demo[CHOOSE ro \in DOMAIN Demo : owner[ro] = u], "lower">>
                            ELSE email[u]]
            /\ active' = active \cup {u \in User : new(u)}
            /\ roles' = roles \cup SEEDED_ROLES
            /\ permissions' = permissions \cup PERMISSIONS
            /\ role_permissions' = role_permissions \cup ROLE_PERMISSIONS
            /\ user_roles' = user_roles \cup {<<owner[ro], ro>> : ro \in DOMAIN Demo}
            /\ UNCHANGED <<signup, pairs, sessions, req>>

\* What the tables lose in a step is remembered for as long as an access token
\* may still carry it.
Remember ==
    /\ lost' = lost \cup {<<x, 0>> : x \in user_roles \ user_roles'}
                    \cup {<<x, 0>> : x \in role_permissions \ role_permissions'}
    /\ changes' = IF tables' = tables THEN changes ELSE changes + 1
    /\ changes' <= MaxChanges

\* A pair is forgotten when its refresh token has expired.
Tick ==
    /\ \A r \in Request : req[r] = Idle
    /\ pairs' = {[pair EXCEPT !.age = @ + 1] :
                    pair \in {x \in pairs : x.age < RefreshLife}}
    /\ lost' = {<<x[1], x[2] + 1>> : x \in {y \in lost : y[2] < AccessLife}}
    /\ UNCHANGED <<tables, sessions, req, changes>>

----------------------------------------------------------------------------

RequestNext(r) ==
    \/ \E e \in Typed : RegisterLook(r, e) \/ Login(r, e)
    \/ \E pair \in pairs : Refresh(r, pair) \/ GetAuthContext(r, pair)
    \/ RegisterCommit(r)
    \/ ReadRoles(r)
    \/ IssueTokens(r)
    \/ FallBackToTables(r)
    \/ \E ro \in ChangeRole, ps \in SUBSET ChangePermission : CreateRoleLook(r, ro, ps)
    \/ CreateRoleCommit(r)
    \/ \E u \in User, ro \in ChangeRole : AssignRole(r, u, ro) \/ RemoveRole(r, u, ro)
    \/ End(r)

Next ==
    \/ /\ \/ \E r \in Request : RequestNext(r)
          \/ \E u \in User : PanelLogin(u) \/ PanelLogout(u)
          \/ PanelEdit
          \/ Seed
       /\ Remember
    \/ Tick

Spec == Init /\ [][Next]_vars

----------------------------------------------------------------------------
(* Safety.                                                                 *)

TypeOK ==
    /\ email \in [User -> Email \cup {NoRow, Deleted}]
    /\ active \subseteq {u \in User : Exists(u)}
    /\ signup \in [User -> {"no", "yes", "edited"}]
    /\ roles \subseteq Role
    /\ permissions \subseteq PERMISSIONS
    /\ role_permissions \subseteq roles \X permissions
    /\ user_roles \subseteq {u \in User : Exists(u)} \X roles
    /\ pairs \subseteq Pair
    /\ sessions \subseteq User
    /\ req \in [Request -> RequestState]
    /\ lost \subseteq ((User \X Role) \cup (Role \X PERMISSIONS)) \X (0..AccessLife)
    /\ changes \in 0..MaxChanges

\* Taking a role from a user, or a permission from a role, takes effect: a
\* request that is let in acts with roles the user has, or had no longer than
\* an access token's life ago, and with permissions that such a role gave no
\* longer ago.  The roles and the permissions of a token are read by two
\* queries, so they need not have held at one moment.
RevocationTakesEffect ==
    \A r \in Request :
        req[r].pc = "admitted" =>
            /\ \A ro \in req[r].roles :
                \/ <<req[r].user, ro>> \in user_roles
                \/ \E age \in 0..AccessLife : <<<<req[r].user, ro>>, age>> \in lost
            /\ \A p \in req[r].permissions : \E ro \in req[r].roles :
                \/ <<ro, p>> \in role_permissions
                \/ \E age \in 0..AccessLife : <<<<ro, p>>, age>> \in lost

\* Two people who register, at the same time and in whatever spelling, get
\* accounts of different addresses, as long as the panel leaves their e-mails
\* alone.
OneAccountPerAddress ==
    \A u, v \in User :
        signup[u] = "yes" /\ signup[v] = "yes" /\ u # v => email[u][1] # email[v][1]

\* The roles of RBAC_FLOW_GUIDE.md: while a role has the permissions it was
\* seeded with, it opens exactly those of the documented endpoints that the
\* seed script lists for it.
RolesOpenTheirEndpoints ==
    \A ro \in roles \cap SEEDED_ROLES :
        PermissionsOf({ro}) = {p \in PERMISSIONS : <<ro, p>> \in ROLE_PERMISSIONS} =>
            Opens([roles |-> {ro}, permissions |-> PermissionsOf({ro})])
                \cap UNION {build_role_endpoint_map[other] : other \in SEEDED_ROLES}
            = build_role_endpoint_map[ro]

\* The requests of a user that are past the check of is_active.
InFlight(u) == {r \in Request : req[r].pc \notin {"idle", "registering"} /\ req[r].user = u}

\* A user who was made inactive comes to rest, whatever tokens there are: no
\* request of the user is let in, and a new pair of tokens takes one that was
\* already under way.
InactiveUsersDrain ==
    [][\A u \in User \ (active \cup active') :
           /\ InFlight(u)' \subseteq InFlight(u)
           /\ Cardinality({pair \in pairs : pair.user = u})' + Cardinality(InFlight(u)')
                <= Cardinality({pair \in pairs : pair.user = u}) + Cardinality(InFlight(u))]_vars
=============================================================================
