------------------------ MODULE AccessControlProofs ------------------------
(***************************************************************************)
(* Proofs about AccessControl for every set of accounts, roles, demo       *)
(* accounts and requests, and every life of a token.                       *)
(***************************************************************************)
EXTENDS AccessControl, FiniteSetTheorems, TLAPS

----------------------------------------------------------------------------
(* Facts about the records and the vocabulary.                             *)

\* An e-mail is not what stands for a missing row, in lower case neither.
LEMMA EmailFacts ==
    /\ \A e \in Email : e \notin {NoRow, Deleted}
    /\ \A e \in Email : Lower(e) \in Email /\ Lower(e)[1] = e[1] /\ Lower(e)[2] = "lower"
    /\ Typed \subseteq Email
  BY AccessAssumption DEF Email, NoRow, Deleted, Lower

\* The seeded roles and permissions are in the vocabulary.
LEMMA SeedFacts ==
    /\ ROLE_PERMISSIONS \subseteq SEEDED_ROLES \X PERMISSIONS
    /\ SEEDED_ROLES \subseteq Role
    /\ DOMAIN Demo \subseteq SEEDED_ROLES
    /\ \A ro \in DOMAIN Demo : <<Demo[ro], "lower">> \in Email
  <1>1. ROLE_PERMISSIONS \subseteq SEEDED_ROLES \X PERMISSIONS
    BY DEF ROLE_PERMISSIONS, SEEDED_ROLES, PERMISSIONS
  <1> QED
    BY <1>1, AccessAssumption DEF Email

\* pc tells what the record of a request holds.
LEMMA RequestByPc ==
    ASSUME NEW x \in RequestState
    PROVE  /\ x.pc = "registering" => x.email \in Email
           /\ x.pc \in {"reading", "roles_read", "admitted", "creating"} => x.user \in User
           /\ x.pc \in {"reading", "roles_read"} => x.wants \in {"tokens", "entry"}
           /\ x.pc \in {"roles_read", "admitted"} => x.roles \subseteq Role
           /\ x.pc \in {"admitted", "creating"} => x.permissions \subseteq PERMISSIONS
           /\ x.pc = "creating" => x.role \in Role
           /\ x.pc = "idle" => x = Idle
           /\ x.pc \in {"idle", "registering", "reading", "roles_read", "admitted", "creating"}
  BY DEF RequestState, Idle

\* The records the handlers set.
LEMMA States ==
    /\ Idle \in RequestState
    /\ \A e \in Email : [pc |-> "registering", email |-> e] \in RequestState
    /\ \A u \in User, w \in {"tokens", "entry"} :
           [pc |-> "reading", user |-> u, wants |-> w] \in RequestState
    /\ \A u \in User, w \in {"tokens", "entry"}, rs \in SUBSET Role :
           [pc |-> "roles_read", user |-> u, wants |-> w, roles |-> rs] \in RequestState
    /\ \A u \in User, rs \in SUBSET Role, ps \in SUBSET PERMISSIONS :
           [pc |-> "admitted", user |-> u, roles |-> rs, permissions |-> ps] \in RequestState
    /\ \A u \in User, ro \in Role, ps \in SUBSET PERMISSIONS :
           [pc |-> "creating", user |-> u, role |-> ro, permissions |-> ps] \in RequestState
  BY DEF RequestState

LEMMA BecomeType ==
    ASSUME TypeOK, NEW r \in Request, NEW state \in RequestState, Become(r, state)
    PROVE  req' \in [Request -> RequestState]
  BY DEF TypeOK, Become

----------------------------------------------------------------------------
(* Types.                                                                  *)

\* The part of the type that Remember does not write.
TypeBut ==
    /\ email \in [User -> Email \cup {NoRow, Deleted}]
    /\ active \subseteq {u \in User : Exists(u)}
    /\ signup \in [User -> {"no", "yes", "edited"}]
    /\ roles \subseteq Role
    /\ permissions \subseteq PERMISSIONS
    /\ role_permissions \subseteq roles \X permissions
    /\ user_roles \subseteq {u \in User : Exists(u)} \X roles
    /\ pairs \subseteq Pair
    /\ sessions \subseteq User
    /\ req \in [Request -> RequestState]

LEMMA TypeRemember ==
    ASSUME TypeOK, TypeBut', Remember
    PROVE  TypeOK'
  <1>1. /\ user_roles \subseteq User \X Role
        /\ role_permissions \subseteq Role \X PERMISSIONS
    BY DEF TypeOK
  <1>2. lost' \subseteq ((User \X Role) \cup (Role \X PERMISSIONS)) \X (0..AccessLife)
    BY <1>1, AccessAssumption DEF TypeOK, Remember
  <1>3. changes' \in 0..MaxChanges
    BY AccessAssumption DEF TypeOK, Remember
  <1> QED
    BY <1>2, <1>3 DEF TypeBut, TypeOK

\* A step that only changes the record of its request.
LEMMA TypeReq ==
    ASSUME TypeOK, UNCHANGED <<tables, pairs, sessions>>,
           NEW r \in Request, NEW state \in RequestState, Become(r, state)
    PROVE  TypeBut'
  BY BecomeType DEF TypeOK, TypeBut, tables, Exists

LEMMA TypeRequest ==
    ASSUME TypeOK, NEW r \in Request, RequestNext(r)
    PROVE  TypeBut'
  <1> USE DEF TypeOK
  <1>1. ASSUME NEW e \in Typed, RegisterLook(r, e) PROVE TypeBut'
    BY <1>1, EmailFacts, States, TypeReq DEF RegisterLook
  <1>2. ASSUME NEW e \in Typed, Login(r, e) PROVE TypeBut'
    <2>1. PICK u \in active : Become(r, [pc |-> "reading", user |-> u, wants |-> "tokens"])
      BY <1>2 DEF Login
    <2> QED
      BY <1>2, <2>1, States, TypeReq DEF Login
  <1>3. ASSUME NEW pair \in pairs, Refresh(r, pair) PROVE TypeBut'
    BY <1>3, States, TypeReq DEF Refresh
  <1>4. ASSUME NEW pair \in pairs, GetAuthContext(r, pair) PROVE TypeBut'
    <2>1. pair.user \in User /\ pair.roles \in SUBSET Role
          /\ pair.permissions \in SUBSET PERMISSIONS
      BY DEF Pair
    <2> QED
      BY <1>4, <2>1, States, TypeReq DEF GetAuthContext
  <1>5. CASE RegisterCommit(r)
    <2>1. req[r].email \in Email
      BY <1>5, RequestByPc DEF RegisterCommit
    <2>2. PICK u \in User :
            /\ email[u] = NoRow
            /\ email' = [email EXCEPT ![u] = Lower(req[r].email)]
            /\ active' = active \cup {u}
            /\ signup' = [signup EXCEPT ![u] = "yes"]
            /\ user_roles' = user_roles \cup ({u} \X (roles \cap {"CUSTOMER"}))
            /\ Become(r, [pc |-> "reading", user |-> u, wants |-> "tokens"])
      BY <1>5 DEF RegisterCommit
    <2>3. email' \in [User -> Email \cup {NoRow, Deleted}]
      BY <2>1, <2>2, EmailFacts
    <2>4. \A v \in User : Exists(v) \/ v = u => Exists(v)'
      BY <2>1, <2>2, EmailFacts DEF Exists
    <2>5. active' \subseteq {v \in User : Exists(v)'}
      BY <2>2, <2>4
    <2>6. user_roles' \subseteq {v \in User : Exists(v)'} \X roles
      BY <2>2, <2>4
    <2>7. req' \in [Request -> RequestState]
      BY <2>2, States, BecomeType
    <2>8. signup' \in [User -> {"no", "yes", "edited"}]
      BY <2>2
    <2> QED
      BY <1>5, <2>3, <2>5, <2>6, <2>7, <2>8 DEF RegisterCommit, TypeBut
  <1>6. CASE ReadRoles(r)
    <2>1. req[r].user \in User /\ req[r].wants \in {"tokens", "entry"}
      BY <1>6, RequestByPc DEF ReadRoles
    <2>2. {ro \in roles : <<req[r].user, ro>> \in user_roles} \in SUBSET Role
      OBVIOUS
    <2> QED
      BY <1>6, <2>1, <2>2, States, TypeReq DEF ReadRoles
  <1>7. CASE IssueTokens(r)
    <2>1. req[r].user \in User /\ req[r].roles \subseteq Role
      BY <1>7, RequestByPc DEF IssueTokens
    <2>2. PermissionsOf(req[r].roles) \subseteq PERMISSIONS
      BY DEF PermissionsOf
    <2>3. [user |-> req[r].user, roles |-> req[r].roles,
           permissions |-> PermissionsOf(req[r].roles), age |-> 0] \in Pair
      BY <2>1, <2>2, AccessAssumption DEF Pair
    <2>4. req' \in [Request -> RequestState]
      BY <1>7, States, BecomeType DEF IssueTokens
    <2> QED
      BY <1>7, <2>3, <2>4 DEF IssueTokens, TypeBut, tables, Exists
  <1>8. CASE FallBackToTables(r)
    <2>1. req[r].user \in User /\ req[r].roles \in SUBSET Role
      BY <1>8, RequestByPc DEF FallBackToTables
    <2>2. PermissionsOf(req[r].roles) \in SUBSET PERMISSIONS
      BY DEF PermissionsOf
    <2> QED
      BY <1>8, <2>1, <2>2, States, TypeReq DEF FallBackToTables
  <1>9. ASSUME NEW ro \in ChangeRole, NEW ps \in SUBSET ChangePermission,
               CreateRoleLook(r, ro, ps)
        PROVE  TypeBut'
    <2>1. req[r].user \in User
      BY <1>9, RequestByPc DEF CreateRoleLook, Enters
    <2>2. ro \in Role /\ ps \in SUBSET PERMISSIONS
      BY AccessAssumption
    <2> QED
      BY <1>9, <2>1, <2>2, States, TypeReq DEF CreateRoleLook
  <1>10. CASE CreateRoleCommit(r)
    <2>1. req[r].role \in Role
      BY <1>10, RequestByPc DEF CreateRoleCommit
    <2>2. req' \in [Request -> RequestState]
      BY <1>10, States, BecomeType DEF CreateRoleCommit
    <2>3. role_permissions' \subseteq roles' \X permissions
      BY <1>10 DEF CreateRoleCommit
    <2>4. user_roles \subseteq {u \in User : Exists(u)} \X roles'
      BY <1>10 DEF CreateRoleCommit
    <2> QED
      BY <1>10, <2>1, <2>2, <2>3, <2>4 DEF CreateRoleCommit, TypeBut, Exists
  <1>11. ASSUME NEW u \in User, NEW ro \in ChangeRole, AssignRole(r, u, ro) PROVE TypeBut'
    <2>1. req' \in [Request -> RequestState]
      BY <1>11, States, BecomeType DEF AssignRole
    <2> QED
      BY <1>11, <2>1 DEF AssignRole, TypeBut, Exists
  <1>12. ASSUME NEW u \in User, NEW ro \in ChangeRole, RemoveRole(r, u, ro) PROVE TypeBut'
    <2>1. req' \in [Request -> RequestState]
      BY <1>12, States, BecomeType DEF RemoveRole
    <2> QED
      BY <1>12, <2>1 DEF RemoveRole, TypeBut, Exists
  <1>13. CASE End(r)
    BY <1>13, States, TypeReq DEF End
  <1> QED
    BY <1>1, <1>2, <1>3, <1>4, <1>5, <1>6, <1>7, <1>8, <1>9, <1>10, <1>11, <1>12, <1>13
       DEF RequestNext

LEMMA TypePanel ==
    ASSUME TypeOK, PanelEdit
    PROVE  TypeBut'
  <1> USE DEF TypeOK
  <1>1. UNCHANGED <<pairs, sessions, req>>
    BY DEF PanelEdit
  <1>2. ASSUME NEW u \in User, NEW e \in Typed, PanelCreateUser(u, e) PROVE TypeBut'
    <2>1. \A v \in User : Exists(v) \/ v = u => Exists(v)'
      BY <1>2, EmailFacts DEF PanelCreateUser, Exists
    <2>2. active' \subseteq {v \in User : Exists(v)'}
          /\ user_roles' \subseteq {v \in User : Exists(v)'} \X roles
      BY <1>2, <2>1 DEF PanelCreateUser
    <2>3. email' \in [User -> Email \cup {NoRow, Deleted}]
      BY <1>2, EmailFacts DEF PanelCreateUser
    <2> QED
      BY <1>1, <1>2, <2>2, <2>3 DEF PanelCreateUser, TypeBut
  <1>3. ASSUME NEW u \in User, NEW e \in Typed, NEW is_active \in BOOLEAN,
               PanelEditUser(u, e, is_active)
        PROVE  TypeBut'
    <2>1. \A v \in User : Exists(v) => Exists(v)'
      BY <1>3, EmailFacts DEF PanelEditUser, Exists
    <2>2. active' \subseteq active \cup {u}
      BY <1>3 DEF PanelEditUser
    <2>3. active' \subseteq {v \in User : Exists(v)'}
      BY <1>3, <2>1, <2>2 DEF PanelEditUser
    <2>4. user_roles' \subseteq {v \in User : Exists(v)'} \X roles
      BY <1>3, <2>1 DEF PanelEditUser
    <2>5. email' \in [User -> Email \cup {NoRow, Deleted}]
      BY <1>3, EmailFacts DEF PanelEditUser
    <2>6. signup' \in [User -> {"no", "yes", "edited"}]
      BY <1>3 DEF PanelEditUser
    <2> QED
      BY <1>1, <1>3, <2>3, <2>4, <2>5, <2>6 DEF PanelEditUser, TypeBut
  <1>4. ASSUME NEW u \in User, PanelDeleteUser(u) PROVE TypeBut'
    <2>1. \A v \in User \ {u} : Exists(v) => Exists(v)'
      BY <1>4 DEF PanelDeleteUser, Exists
    <2>2. active' \subseteq {v \in User : Exists(v)'}
      BY <1>4, <2>1 DEF PanelDeleteUser
    <2>3. user_roles' \subseteq {v \in User : Exists(v)'} \X roles
      BY <1>4, <2>1 DEF PanelDeleteUser
    <2> QED
      BY <1>1, <1>4, <2>2, <2>3 DEF PanelDeleteUser, TypeBut
  <1>5. ASSUME NEW a \in ChangeRole, NEW b \in ChangeRole, PanelRenameRole(a, b)
        PROVE  TypeBut'
    <2>1. a \in Role /\ b \in Role
      BY AccessAssumption
    <2>2. role_permissions' \subseteq roles' \X permissions
      BY <1>5 DEF PanelRenameRole
    <2>3. user_roles' \subseteq {u \in User : Exists(u)} \X roles'
      BY <1>5 DEF PanelRenameRole
    <2> QED
      BY <1>1, <1>5, <2>1, <2>2, <2>3 DEF PanelRenameRole, TypeBut, Exists
  <1>6. ASSUME NEW ro \in ChangeRole, PanelDeleteRole(ro) PROVE TypeBut'
    <2>1. role_permissions' \subseteq roles' \X permissions
      BY <1>6 DEF PanelDeleteRole
    <2>2. user_roles' \subseteq {u \in User : Exists(u)} \X roles'
      BY <1>6 DEF PanelDeleteRole
    <2> QED
      BY <1>1, <1>6, <2>1, <2>2 DEF PanelDeleteRole, TypeBut, Exists
  <1>7. ASSUME NEW p \in ChangePermission, PanelDeletePermission(p) PROVE TypeBut'
    BY <1>1, <1>7 DEF PanelDeletePermission, TypeBut, Exists
  <1>8. ASSUME NEW u \in User, NEW ro \in ChangeRole, PanelUserRole(u, ro) PROVE TypeBut'
    BY <1>1, <1>8 DEF PanelUserRole, TypeBut, Exists
  <1>9. ASSUME NEW ro \in ChangeRole, NEW p \in ChangePermission, PanelRolePermission(ro, p)
        PROVE  TypeBut'
    BY <1>1, <1>9 DEF PanelRolePermission, TypeBut, Exists
  <1> QED
    BY <1>2, <1>3, <1>4, <1>5, <1>6, <1>7, <1>8, <1>9 DEF PanelEdit

LEMMA TypeSeed ==
    ASSUME TypeOK, Seed
    PROVE  TypeBut'
  <1> USE DEF TypeOK
  <1> DEFINE new(owner, u) == \E ro \in DOMAIN Demo : owner[ro] = u /\ email[u] = NoRow
             mail(owner, u) == <<Demo[CHOOSE ro \in DOMAIN Demo : owner[ro] = u], "lower">>
  <1>1. PICK owner \in DemoOwners :
            /\ email' = [u \in User |->
                            IF new(owner, u) THEN mail(owner, u) ELSE email[u]]
            /\ active' = active \cup {u \in User : new(owner, u)}
            /\ user_roles' = user_roles \cup {<<owner[ro], ro>> : ro \in DOMAIN Demo}
    BY DEF Seed
  <1>2. /\ roles' = roles \cup SEEDED_ROLES
        /\ permissions' = permissions \cup PERMISSIONS
        /\ role_permissions' = role_permissions \cup ROLE_PERMISSIONS
        /\ UNCHANGED <<signup, pairs, sessions, req>>
    BY DEF Seed
  <1>3. owner \in [DOMAIN Demo -> User]
        /\ \A ro \in DOMAIN Demo : \/ email[owner[ro]] = <<Demo[ro], "lower">>
                                   \/ email[owner[ro]] = NoRow
    BY DEF DemoOwners
  <1>4. \A u \in User : new(owner, u) => mail(owner, u) \in Email
    BY SeedFacts
  <1>5. email' \in [User -> Email \cup {NoRow, Deleted}]
    BY <1>1, <1>4
  <1>6. \A u \in User : Exists(u) \/ new(owner, u) => Exists(u)'
    BY <1>1, <1>4, EmailFacts DEF Exists
  <1>7. \A ro \in DOMAIN Demo : Exists(owner[ro])'
    <2>1. ASSUME NEW ro \in DOMAIN Demo PROVE Exists(owner[ro]) \/ new(owner, owner[ro])
      BY <1>3, EmailFacts, SeedFacts DEF Exists
    <2> QED
      BY <1>3, <1>6, <2>1
  <1>8. active' \subseteq {u \in User : Exists(u)'}
    BY <1>1, <1>6
  <1>9. user_roles' \subseteq {u \in User : Exists(u)'} \X roles'
    BY <1>1, <1>2, <1>3, <1>6, <1>7, SeedFacts
  <1>10. role_permissions' \subseteq roles' \X permissions'
    BY <1>2, SeedFacts
  <1> QED
    BY <1>2, <1>5, <1>8, <1>9, <1>10, SeedFacts DEF TypeBut

LEMMA TypeTick ==
    ASSUME TypeOK, Tick
    PROVE  TypeOK'
  <1> USE DEF TypeOK
  <1>1. pairs' \subseteq Pair
    BY AccessAssumption DEF Tick, Pair
  <1>2. lost' \subseteq ((User \X Role) \cup (Role \X PERMISSIONS)) \X (0..AccessLife)
    BY AccessAssumption DEF Tick
  <1> QED
    BY <1>1, <1>2 DEF Tick, tables, Exists

LEMMA TypeNext == TypeOK /\ [Next]_vars => TypeOK'
  <1> SUFFICES ASSUME TypeOK, [Next]_vars PROVE TypeOK'
    OBVIOUS
  <1>1. CASE UNCHANGED vars
    BY <1>1 DEF vars, tables, TypeOK, Exists
  <1>2. ASSUME NEW u \in User, PanelLogin(u) \/ PanelLogout(u) PROVE TypeBut'
    BY <1>2 DEF PanelLogin, PanelLogout, TypeOK, TypeBut, tables, Exists
  <1> QED
    BY <1>1, <1>2, TypeRequest, TypePanel, TypeSeed, TypeTick, TypeRemember DEF Next

LEMMA TypeInit == Init => TypeOK
  BY AccessAssumption, States DEF Init, TypeOK

\* Accounts, roles and tokens stay in their types: nothing refers to an account,
\* a role or a permission that is gone.
THEOREM AccessTypes == Spec => []TypeOK
  BY TypeInit, TypeNext, PTL DEF Spec

----------------------------------------------------------------------------
(* Revocation.                                                             *)

\* What the tables hold, or lost at most a ticks ago.
HadRole(u, ro, a) ==
    <<u, ro>> \in user_roles \/ \E k \in 0..a : <<<<u, ro>>, k>> \in lost
HadPermission(ro, p, a) ==
    <<ro, p>> \in role_permissions \/ \E k \in 0..a : <<<<ro, p>>, k>> \in lost

Carried(u, rs, ps, a) ==
    /\ \A ro \in rs : HadRole(u, ro, a)
    /\ \A p \in ps : \E ro \in rs : HadPermission(ro, p, a)

\* A token is no older than what it carries, and no tick falls between the two
\* queries that fill it.
RequestBacked(r) ==
    /\ req[r].pc = "roles_read" =>
           \A ro \in req[r].roles : HadRole(req[r].user, ro, 0)
    /\ req[r].pc = "admitted" =>
           Carried(req[r].user, req[r].roles, req[r].permissions, AccessLife)

PairBacked(pair) ==
    pair.age <= AccessLife => Carried(pair.user, pair.roles, pair.permissions, pair.age)

Backed ==
    /\ \A r \in Request : RequestBacked(r)
    /\ \A pair \in pairs : PairBacked(pair)

\* What the tables had they still have, or it was just lost.
LEMMA HadKept ==
    ASSUME Remember, NEW a \in Nat, NEW x, NEW y
    PROVE  /\ HadRole(x, y, a) => HadRole(x, y, a)'
           /\ HadPermission(x, y, a) => HadPermission(x, y, a)'
  <1>1. 0 \in 0..a
    OBVIOUS
  <1> QED
    BY <1>1 DEF Remember, HadRole, HadPermission

LEMMA CarriedKept ==
    ASSUME Remember, NEW a \in Nat, NEW u, NEW rs, NEW ps, Carried(u, rs, ps, a)
    PROVE  Carried(u, rs, ps, a)'
  BY HadKept DEF Carried

\* Older than needed is good enough.
LEMMA CarriedLonger ==
    ASSUME NEW a \in Nat, NEW b \in Nat, a <= b, NEW u, NEW rs, NEW ps, Carried(u, rs, ps, a)
    PROVE  Carried(u, rs, ps, b)
  <1>1. 0..a \subseteq 0..b
    OBVIOUS
  <1> QED
    BY <1>1 DEF Carried, HadRole, HadPermission

\* The second query finds what the roles give now.
LEMMA QueriesCarry ==
    ASSUME NEW a \in Nat, NEW u, NEW rs, \A ro \in rs : HadRole(u, ro, 0)
    PROVE  Carried(u, rs, PermissionsOf(rs), a)
  <1>1. Carried(u, rs, PermissionsOf(rs), 0)
    BY DEF Carried, PermissionsOf, HadPermission
  <1> QED
    BY <1>1, CarriedLonger

LEMMA RequestBackedKept ==
    ASSUME TypeOK, Remember, NEW r \in Request, RequestBacked(r), req'[r] = req[r]
    PROVE  RequestBacked(r)'
  BY HadKept, CarriedKept, AccessAssumption DEF RequestBacked

LEMMA PairBackedKept ==
    ASSUME TypeOK, Remember, NEW pair \in pairs, PairBacked(pair)
    PROVE  PairBacked(pair)'
  <1>1. pair.age \in Nat
    BY AccessAssumption DEF TypeOK, Pair
  <1> QED
    BY <1>1, CarriedKept DEF PairBacked

\* The request that steps, and the pair it issues.
LEMMA BackedStep ==
    ASSUME TypeOK, Backed, NEW r \in Request, RequestNext(r), Remember
    PROVE  /\ RequestBacked(r)'
           /\ \A pair \in pairs' : PairBacked(pair)'
  <1>1. RequestBacked(r)
    BY DEF Backed
  <1>2. CASE ReadRoles(r)
    <2>1. req'[r] = [pc |-> "roles_read", user |-> req[r].user, wants |-> req[r].wants,
                     roles |-> {ro \in roles : <<req[r].user, ro>> \in user_roles}]
          /\ UNCHANGED <<user_roles, pairs>>
      BY <1>2 DEF ReadRoles, Become, TypeOK, tables
    <2>2. RequestBacked(r)'
      BY <2>1 DEF RequestBacked, HadRole
    <2> QED
      BY <2>1, <2>2, PairBackedKept DEF Backed
  <1>3. CASE IssueTokens(r)
    <2> DEFINE pair == [user |-> req[r].user, roles |-> req[r].roles,
                        permissions |-> PermissionsOf(req[r].roles), age |-> 0]
    <2>1. Carried(req[r].user, req[r].roles, PermissionsOf(req[r].roles), 0)
      BY <1>1, <1>3, QueriesCarry DEF RequestBacked, IssueTokens
    <2>2. pairs' = pairs \cup {pair} /\ req'[r] = Idle
      BY <1>3 DEF IssueTokens, Become, TypeOK
    <2>3. ASSUME NEW new, new = pair PROVE PairBacked(new)'
      <3>1. new.user = req[r].user /\ new.roles = req[r].roles
            /\ new.permissions = PermissionsOf(req[r].roles) /\ new.age = 0
        BY <2>3
      <3>2. Carried(new.user, new.roles, new.permissions, new.age)
        BY <2>1, <3>1
      <3>3. Carried(new.user, new.roles, new.permissions, new.age)'
        BY <3>1, <3>2, CarriedKept
      <3> QED
        BY <3>3 DEF PairBacked
    <2> QED
      BY <2>2, <2>3, PairBackedKept DEF Backed, RequestBacked, Idle
  <1>4. CASE FallBackToTables(r)
    <2>1. PICK u \in User, rs \in SUBSET Role, ps \in SUBSET PERMISSIONS :
              u = req[r].user /\ rs = req[r].roles /\ ps = PermissionsOf(req[r].roles)
      <3>1. PermissionsOf(req[r].roles) \subseteq PERMISSIONS
        BY DEF PermissionsOf
      <3> QED
        BY <1>4, <3>1, RequestByPc DEF FallBackToTables, TypeOK
    <2>2. Carried(u, rs, ps, AccessLife)
      BY <1>1, <1>4, <2>1, QueriesCarry, AccessAssumption DEF RequestBacked, FallBackToTables
    <2>3. Carried(u, rs, ps, AccessLife)'
      BY <2>2, CarriedKept, AccessAssumption
    <2>4. req'[r] = [pc |-> "admitted", user |-> u, roles |-> rs, permissions |-> ps]
          /\ pairs' = pairs
      BY <1>4, <2>1 DEF FallBackToTables, Become, TypeOK
    <2>5. RequestBacked(r)'
      BY <2>3, <2>4 DEF RequestBacked
    <2> QED
      BY <2>4, <2>5, PairBackedKept DEF Backed
  <1>5. ASSUME NEW pair \in pairs, GetAuthContext(r, pair)
        PROVE  RequestBacked(r)' /\ \A x \in pairs' : PairBacked(x)'
    <2>1. pair.age \in Nat /\ pair.age <= AccessLife
      BY <1>5, AccessAssumption DEF GetAuthContext, AccessAlive, TypeOK, Pair
    <2>2. PICK u \in User, rs \in SUBSET Role, ps \in SUBSET PERMISSIONS :
              u = pair.user /\ rs = pair.roles /\ ps = pair.permissions
      BY DEF TypeOK, Pair
    <2>3. Carried(u, rs, ps, pair.age)
      BY <2>1, <2>2 DEF Backed, PairBacked
    <2>4. Carried(u, rs, ps, AccessLife)
      BY <2>1, <2>3, CarriedLonger, AccessAssumption
    <2>5. Carried(u, rs, ps, AccessLife)'
      BY <2>4, CarriedKept, AccessAssumption
    <2>6. \/ req'[r].pc = "reading"
          \/ req'[r] = [pc |-> "admitted", user |-> u, roles |-> rs, permissions |-> ps]
      BY <1>5, <2>2 DEF GetAuthContext, Become, TypeOK
    <2>7. RequestBacked(r)'
      BY <2>5, <2>6 DEF RequestBacked
    <2> QED
      BY <1>5, <2>7, PairBackedKept DEF Backed, GetAuthContext
  <1>6. CASE pairs' = pairs /\ req'[r].pc \notin {"roles_read", "admitted"}
    BY <1>6, PairBackedKept DEF Backed, RequestBacked
  <1>7. CASE \/ \E e \in Typed : RegisterLook(r, e) \/ Login(r, e)
             \/ \E pair \in pairs : Refresh(r, pair)
             \/ RegisterCommit(r)
             \/ \E ro \in ChangeRole, ps \in SUBSET ChangePermission : CreateRoleLook(r, ro, ps)
             \/ CreateRoleCommit(r)
             \/ \E u \in User, ro \in ChangeRole : AssignRole(r, u, ro) \/ RemoveRole(r, u, ro)
             \/ End(r)
    <2>1. pairs' = pairs
      BY <1>7 DEF RegisterLook, Login, Refresh, RegisterCommit, CreateRoleLook,
                  CreateRoleCommit, AssignRole, RemoveRole, End
    <2>2. req'[r].pc \notin {"roles_read", "admitted"}
      <3>1. CASE CreateRoleCommit(r) \/ End(r)
        BY <3>1 DEF CreateRoleCommit, End, Become, TypeOK, Idle
      <3>5. CASE \E u \in User, ro \in ChangeRole : AssignRole(r, u, ro) \/ RemoveRole(r, u, ro)
        BY <3>5 DEF AssignRole, RemoveRole, Become, TypeOK, Idle
      <3>6. CASE RegisterCommit(r)
        <4>1. PICK u \in User : Become(r, [pc |-> "reading", user |-> u, wants |-> "tokens"])
          BY <3>6 DEF RegisterCommit
        <4> QED
          BY <4>1 DEF Become, TypeOK
      <3>2. CASE \E e \in Typed : RegisterLook(r, e) \/ Login(r, e)
        BY <3>2 DEF RegisterLook, Login, Become, TypeOK
      <3>3. CASE \E pair \in pairs : Refresh(r, pair)
        BY <3>3 DEF Refresh, Become, TypeOK
      <3>4. CASE \E ro \in ChangeRole, ps \in SUBSET ChangePermission :
                     CreateRoleLook(r, ro, ps)
        BY <3>4 DEF CreateRoleLook, Become, TypeOK
      <3> QED
        BY <1>7, <3>1, <3>2, <3>3, <3>4, <3>5, <3>6
    <2> QED
      BY <1>6, <2>1, <2>2
  <1> QED
    BY <1>2, <1>3, <1>4, <1>5, <1>7 DEF RequestNext

\* Time makes a token and what was lost older together.
LEMMA BackedTick ==
    ASSUME TypeOK, Backed, Tick
    PROVE  Backed'
  <1>1. \A r \in Request : RequestBacked(r)'
    BY DEF Tick, RequestBacked, Idle
  <1>2. ASSUME NEW x \in pairs', x.age <= AccessLife
        PROVE  Carried(x.user, x.roles, x.permissions, x.age)'
    <2>1. PICK pair \in pairs : pair.age < RefreshLife /\ x = [pair EXCEPT !.age = @ + 1]
      BY DEF Tick
    <2>2. pair \in Pair
      BY DEF TypeOK
    <2>3. /\ x.user = pair.user /\ x.roles = pair.roles
          /\ x.permissions = pair.permissions /\ x.age = pair.age + 1
          /\ pair.age \in Nat
      BY <2>1, <2>2, AccessAssumption DEF Pair
    <2>4. PICK u \in User, rs \in SUBSET Role, ps \in SUBSET PERMISSIONS, a \in Nat :
              u = pair.user /\ rs = pair.roles /\ ps = pair.permissions /\ a = pair.age
      BY <2>2, <2>3 DEF Pair
    <2>5. Carried(u, rs, ps, a) /\ a < AccessLife
      BY <1>2, <2>3, <2>4, AccessAssumption DEF Backed, PairBacked
    <2>6. ASSUME NEW y, NEW k \in 0..a, <<y, k>> \in lost
          PROVE  k + 1 \in 0..a + 1 /\ <<y, k + 1>> \in lost'
      <3>1. <<y, k>>[1] = y /\ <<y, k>>[2] = k /\ k < AccessLife
        BY <2>5, AccessAssumption
      <3> QED
        BY <2>6, <3>1 DEF Tick
    <2>7. Carried(u, rs, ps, a + 1)'
      <3>1. UNCHANGED <<user_roles, role_permissions>>
        BY DEF Tick, tables
      <3>2. ASSUME NEW ro, HadRole(u, ro, a) PROVE HadRole(u, ro, a + 1)'
        BY <2>6, <3>1, <3>2 DEF HadRole
      <3>3. ASSUME NEW ro, NEW p, HadPermission(ro, p, a) PROVE HadPermission(ro, p, a + 1)'
        BY <2>6, <3>1, <3>3 DEF HadPermission
      <3> QED
        BY <2>5, <3>2, <3>3 DEF Carried
    <2> QED
      BY <2>3, <2>4, <2>7
  <1> QED
    BY <1>1, <1>2 DEF Backed, PairBacked

\* A request only sets its own record.
LEMMA OthersKeep ==
    ASSUME TypeOK, NEW r \in Request, RequestNext(r)
    PROVE  \A q \in Request \ {r} : req'[q] = req[q]
  BY DEF TypeOK, RequestNext, RegisterLook, Login, Refresh, GetAuthContext, RegisterCommit,
         ReadRoles, IssueTokens, FallBackToTables, CreateRoleLook, CreateRoleCommit,
         AssignRole, RemoveRole, End, Become

LEMMA BackedNext == TypeOK /\ Backed /\ [Next]_vars => Backed'
  <1> SUFFICES ASSUME TypeOK, Backed, [Next]_vars PROVE Backed'
    OBVIOUS
  <1>1. CASE UNCHANGED vars
    BY <1>1 DEF vars, tables, Backed, RequestBacked, PairBacked, Carried, HadRole,
                HadPermission
  <1>2. ASSUME NEW r \in Request, RequestNext(r), Remember PROVE Backed'
    BY <1>2, BackedStep, RequestBackedKept, OthersKeep DEF Backed
  <1>3. CASE UNCHANGED <<pairs, req>> /\ Remember
    BY <1>3, RequestBackedKept, PairBackedKept DEF Backed
  <1> QED
    BY <1>1, <1>2, <1>3, BackedTick
       DEF Next, PanelLogin, PanelLogout, PanelEdit, Seed

\* Taking a role or a permission away takes effect within the life of an access
\* token, whatever the token carries and whoever changes the tables.
THEOREM RevocationIsTimely == Spec => []RevocationTakesEffect
  <1>1. Init => Backed
    BY DEF Init, Backed, RequestBacked, Idle
  <1>2. Backed => RevocationTakesEffect
    BY DEF Backed, RequestBacked, Carried, HadRole, HadPermission, RevocationTakesEffect
  <1> QED
    BY <1>1, <1>2, BackedNext, AccessTypes, PTL DEF Spec

----------------------------------------------------------------------------
(* Accounts.                                                               *)

\* Two accounts have two e-mails, and the e-mail of a registration is in lower
\* case until the panel edits it.
EmailsDistinct ==
    /\ \A u, v \in User : Exists(u) /\ Exists(v) /\ u # v => email[u] # email[v]
    /\ \A u \in User : signup[u] = "yes" => Exists(u) /\ email[u][2] = "lower"

\* One account that gets an e-mail nobody has.
LEMMA DistinctOne ==
    ASSUME TypeOK, EmailsDistinct, NEW u \in User, NEW e \in Email,
           e = email[u] \/ Free(e),
           email' = [email EXCEPT ![u] = e],
           signup' \in [User -> {"no", "yes", "edited"}],
           \A v \in User \ {u} : signup'[v] = signup[v],
           signup'[u] = "yes" => e[2] = "lower"
    PROVE  EmailsDistinct'
  <1>1. /\ email'[u] = e /\ e \notin {NoRow, Deleted}
        /\ \A v \in User \ {u} : email'[v] = email[v]
    BY EmailFacts DEF TypeOK
  <1>2. ASSUME NEW v \in User, NEW w \in User, Exists(v)', Exists(w)', v # w
        PROVE  email'[v] # email'[w]
    BY <1>1, <1>2 DEF EmailsDistinct, Exists, Free
  <1>3. ASSUME NEW v \in User, signup'[v] = "yes"
        PROVE  Exists(v)' /\ email'[v][2] = "lower"
    BY <1>1, <1>3 DEF EmailsDistinct, Exists
  <1> QED
    BY <1>2, <1>3 DEF EmailsDistinct

LEMMA DistinctSeed ==
    ASSUME TypeOK, EmailsDistinct, Seed
    PROVE  EmailsDistinct'
  <1> DEFINE new(owner, u) == \E ro \in DOMAIN Demo : owner[ro] = u /\ email[u] = NoRow
             mail(owner, u) == <<Demo[CHOOSE ro \in DOMAIN Demo : owner[ro] = u], "lower">>
  <1>1. PICK owner \in DemoOwners :
            email' = [u \in User |-> IF new(owner, u) THEN mail(owner, u) ELSE email[u]]
    BY DEF Seed
  <1>2. /\ \A ro \in DOMAIN Demo :
            \/ email[owner[ro]] = <<Demo[ro], "lower">>
            \/ email[owner[ro]] = NoRow /\ Free(<<Demo[ro], "lower">>)
        /\ \A a, b \in DOMAIN Demo : owner[a] = owner[b] <=> Demo[a] = Demo[b]
    BY DEF DemoOwners
  <1>3. ASSUME NEW u \in User, new(owner, u)
        PROVE  \E ro \in DOMAIN Demo : /\ owner[ro] = u
                                       /\ email'[u] = <<Demo[ro], "lower">>
                                       /\ Free(<<Demo[ro], "lower">>)
    <2>1. PICK ro \in DOMAIN Demo :
              ro = (CHOOSE x \in DOMAIN Demo : owner[x] = u) /\ owner[ro] = u
      BY <1>3
    <2>2. email'[u] = <<Demo[ro], "lower">>
      BY <1>1, <1>3, <2>1
    <2>3. email[u] = NoRow /\ NoRow # <<Demo[ro], "lower">>
      BY <1>3 DEF NoRow
    <2> QED
      BY <1>2, <2>1, <2>2, <2>3
  <1>4. \A u \in User : ~new(owner, u) => email'[u] = email[u]
    BY <1>1
  <1>5. ASSUME NEW u \in User, NEW v \in User, Exists(u)', Exists(v)', u # v,
               email'[u] = email'[v]
        PROVE  FALSE
    <2>1. CASE new(owner, u) /\ new(owner, v)
      <3>1. PICK a \in DOMAIN Demo : owner[a] = u /\ email'[u] = <<Demo[a], "lower">>
        BY <1>3, <2>1
      <3>2. PICK b \in DOMAIN Demo : owner[b] = v /\ email'[v] = <<Demo[b], "lower">>
        BY <1>3, <2>1
      <3>3. Demo[a] = Demo[b]
        <4>1. <<Demo[a], "lower">>[1] = <<Demo[b], "lower">>[1]
          BY <1>5, <3>1, <3>2
        <4> QED
          BY <4>1
      <3> QED
        BY <1>2, <1>5, <3>1, <3>2, <3>3
    <2>2. CASE new(owner, u) /\ ~new(owner, v)
      BY <1>3, <1>4, <1>5, <2>2 DEF Free
    <2>3. CASE ~new(owner, u) /\ new(owner, v)
      BY <1>3, <1>4, <1>5, <2>3 DEF Free
    <2>4. CASE ~new(owner, u) /\ ~new(owner, v)
      BY <1>4, <1>5, <2>4 DEF EmailsDistinct, Exists
    <2> QED
      BY <2>1, <2>2, <2>3, <2>4
  <1>6. ASSUME NEW u \in User, signup'[u] = "yes"
        PROVE  Exists(u)' /\ email'[u][2] = "lower"
    <2>1. signup[u] = "yes" /\ Exists(u)
      BY <1>6 DEF Seed, EmailsDistinct
    <2>2. ~new(owner, u)
      BY <2>1 DEF Exists
    <2> QED
      BY <1>4, <2>1, <2>2 DEF EmailsDistinct, Exists
  <1> QED
    BY <1>5, <1>6 DEF EmailsDistinct

LEMMA DistinctNext == TypeOK /\ EmailsDistinct /\ [Next]_vars => EmailsDistinct'
  <1> SUFFICES ASSUME TypeOK, EmailsDistinct, [Next]_vars PROVE EmailsDistinct'
    OBVIOUS
  <1>1. CASE UNCHANGED <<email, signup>>
    BY <1>1 DEF EmailsDistinct, Exists
  <1>2. ASSUME NEW r \in Request, RegisterCommit(r) PROVE EmailsDistinct'
    <2>1. PICK u \in User : /\ email[u] = NoRow
                            /\ email' = [email EXCEPT ![u] = Lower(req[r].email)]
                            /\ signup' = [signup EXCEPT ![u] = "yes"]
      BY <1>2 DEF RegisterCommit
    <2>2. Lower(req[r].email) \in Email /\ Lower(req[r].email)[2] = "lower"
          /\ Free(Lower(req[r].email))
      BY <1>2, RequestByPc, EmailFacts DEF RegisterCommit, TypeOK
    <2>3. signup' \in [User -> {"no", "yes", "edited"}]
          /\ \A v \in User \ {u} : signup'[v] = signup[v]
      BY <2>1 DEF TypeOK
    <2> QED
      BY <2>1, <2>2, <2>3, DistinctOne
  <1>3. ASSUME NEW u \in User, NEW e \in Typed, PanelCreateUser(u, e) PROVE EmailsDistinct'
    <2>1. signup[u] # "yes"
      BY <1>3 DEF PanelCreateUser, EmailsDistinct, Exists
    <2> QED
      BY <1>3, <2>1, DistinctOne, EmailFacts DEF PanelCreateUser, TypeOK
  <1>4. ASSUME NEW u \in User, NEW e \in Typed, NEW is_active \in BOOLEAN,
               PanelEditUser(u, e, is_active)
        PROVE  EmailsDistinct'
    <2>1. signup' \in [User -> {"no", "yes", "edited"}]
          /\ \A v \in User \ {u} : signup'[v] = signup[v]
      BY <1>4 DEF PanelEditUser, TypeOK
    <2>2. signup'[u] = "yes" => e = email[u] /\ signup[u] = "yes"
      BY <1>4 DEF PanelEditUser, TypeOK
    <2>3. signup'[u] = "yes" => e[2] = "lower"
      BY <2>2 DEF EmailsDistinct
    <2> QED
      BY <1>4, <2>1, <2>3, DistinctOne, EmailFacts DEF PanelEditUser
  <1>5. ASSUME NEW u \in User, PanelDeleteUser(u) PROVE EmailsDistinct'
    BY <1>5 DEF PanelDeleteUser, EmailsDistinct, Exists, TypeOK
  <1>6. CASE PanelEdit
    <2>1. CASE \/ \E a, b \in ChangeRole : PanelRenameRole(a, b)
               \/ \E ro \in ChangeRole : PanelDeleteRole(ro)
               \/ \E p \in ChangePermission : PanelDeletePermission(p)
               \/ \E u \in User, ro \in ChangeRole : PanelUserRole(u, ro)
               \/ \E ro \in ChangeRole, p \in ChangePermission : PanelRolePermission(ro, p)
      BY <1>1, <2>1 DEF PanelRenameRole, PanelDeleteRole, PanelDeletePermission,
                        PanelUserRole, PanelRolePermission
    <2> QED
      BY <1>3, <1>4, <1>5, <1>6, <2>1 DEF PanelEdit
  <1>7. ASSUME NEW r \in Request, RequestNext(r) PROVE EmailsDistinct'
    <2>1. RegisterCommit(r) \/ UNCHANGED <<email, signup>>
      BY <1>7 DEF RequestNext, RegisterLook, Login, Refresh, GetAuthContext, ReadRoles,
                  IssueTokens, FallBackToTables, CreateRoleLook, CreateRoleCommit,
                  AssignRole, RemoveRole, End, tables
    <2> QED
      BY <1>1, <1>2, <2>1
  <1>8. CASE UNCHANGED vars \/ Tick \/ \E u \in User : PanelLogin(u) \/ PanelLogout(u)
    BY <1>1, <1>8 DEF vars, tables, Tick, PanelLogin, PanelLogout
  <1> QED
    BY <1>6, <1>7, <1>8, DistinctSeed DEF Next

\* No interleaving of registrations, the panel and the seeding gives two people
\* who registered one address.
THEOREM AddressesAreDistinct == Spec => []OneAccountPerAddress
  <1>1. Init => EmailsDistinct
    BY DEF Init, EmailsDistinct, Exists
  <1>2. TypeOK /\ EmailsDistinct => OneAccountPerAddress
    <2> SUFFICES ASSUME TypeOK, EmailsDistinct, NEW u \in User, NEW v \in User,
                        signup[u] = "yes", signup[v] = "yes", u # v,
                        email[u][1] = email[v][1]
                 PROVE  FALSE
      BY DEF OneAccountPerAddress
    <2>1. email[u] \in Email /\ email[v] \in Email
      BY DEF TypeOK, EmailsDistinct, Exists
    <2>2. email[u] = <<email[u][1], email[u][2]>> /\ email[v] = <<email[v][1], email[v][2]>>
      BY <2>1 DEF Email
    <2> QED
      BY <2>2 DEF EmailsDistinct
  <1> QED
    BY <1>1, <1>2, DistinctNext, AccessTypes, PTL DEF Spec

----------------------------------------------------------------------------
(* Inactive users.                                                         *)

PairsOf(u) == {pair \in pairs : pair.user = u}

\* Who is let in, or logs in, is active.
LEMMA NobodyComesIn ==
    ASSUME TypeOK, NEW r \in Request, RequestNext(r), NEW u \in User,
           u \notin active, u \notin active',
           req'[r].pc \notin {"idle", "registering"}, req'[r].user = u
    PROVE  /\ req[r].pc \notin {"idle", "registering"} /\ req[r].user = u
           /\ ~IssueTokens(r)
  <1>1. CASE \E e \in Typed : RegisterLook(r, e) \/ Login(r, e)
    BY <1>1 DEF RegisterLook, Login, Become, TypeOK
  <1>2. ASSUME NEW pair \in pairs, Refresh(r, pair) PROVE FALSE
    BY <1>2 DEF Refresh, Become, TypeOK
  <1>3. ASSUME NEW pair \in pairs, GetAuthContext(r, pair) PROVE FALSE
    BY <1>3 DEF GetAuthContext, Become, TypeOK
  <1>4. CASE RegisterCommit(r)
    <2>1. PICK v \in User : /\ active' = active \cup {v}
                            /\ Become(r, [pc |-> "reading", user |-> v, wants |-> "tokens"])
      BY <1>4 DEF RegisterCommit
    <2>2. req'[r].user = v
      BY <2>1 DEF Become, TypeOK
    <2> QED
      BY <2>1, <2>2
  <1>5. CASE ReadRoles(r)
    BY <1>5 DEF ReadRoles, IssueTokens, Become, TypeOK
  <1>6. CASE FallBackToTables(r)
    <2>1. req'[r].user = req[r].user
      BY <1>6 DEF FallBackToTables, Become, TypeOK
    <2> QED
      BY <1>6, <2>1 DEF FallBackToTables, IssueTokens
  <1>7. CASE \E ro \in ChangeRole, ps \in SUBSET ChangePermission : CreateRoleLook(r, ro, ps)
    BY <1>7 DEF CreateRoleLook, Enters, IssueTokens, Become, TypeOK
  <1>8. CASE req'[r] = Idle
    BY <1>8 DEF Idle
  <1>9. CASE \/ IssueTokens(r) \/ CreateRoleCommit(r) \/ End(r)
             \/ \E v \in User, ro \in ChangeRole : AssignRole(r, v, ro) \/ RemoveRole(r, v, ro)
    BY <1>8, <1>9 DEF IssueTokens, CreateRoleCommit, AssignRole, RemoveRole, End, Become, TypeOK
  <1> QED
    BY <1>1, <1>2, <1>3, <1>4, <1>5, <1>6, <1>7, <1>9 DEF RequestNext

\* Only IssueTokens makes pairs, and a tick makes no more of them.
LEMMA PairsChange ==
    ASSUME TypeOK, [Next]_vars
    PROVE  \/ pairs' = pairs
           \/ \E r \in Request : IssueTokens(r)
           \/ Tick
  BY DEF Next, RequestNext, RegisterLook, Login, Refresh, GetAuthContext, RegisterCommit,
         ReadRoles, FallBackToTables, CreateRoleLook, CreateRoleCommit, AssignRole,
         RemoveRole, End, PanelLogin, PanelLogout, PanelEdit, Seed, vars

LEMMA TickPairs ==
    ASSUME TypeOK, Tick, NEW T, T \subseteq pairs, IsFiniteSet(T), NEW T2,
           T2 = {[pair EXCEPT !.age = @ + 1] : pair \in {x \in T : x.age < RefreshLife}}
    PROVE  IsFiniteSet(T2) /\ Cardinality(T2) <= Cardinality(T)
  <1> DEFINE S == {x \in T : x.age < RefreshLife}
             f == [x \in S |-> [x EXCEPT !.age = @ + 1]]
  <1>1. IsFiniteSet(S) /\ Cardinality(S) <= Cardinality(T)
    BY FS_Subset
  <1>2. f \in Surjection(S, T2)
    BY DEF Surjection
  <1>3. IsFiniteSet(T2) /\ Cardinality(T2) <= Cardinality(S)
    BY <1>1, <1>2, FS_Surjection
  <1> QED
    BY <1>1, <1>3, FS_CardinalityType

LEMMA FinitePairs ==
    ASSUME TypeOK, IsFiniteSet(pairs), [Next]_vars
    PROVE  IsFiniteSet(pairs')
  <1>1. CASE \E r \in Request : IssueTokens(r)
    BY <1>1, FS_AddElement DEF IssueTokens
  <1>2. CASE Tick
    BY <1>2, TickPairs DEF Tick
  <1> QED
    BY <1>1, <1>2, PairsChange

LEMMA DrainStep ==
    ASSUME TypeOK, IsFiniteSet(pairs), [Next]_vars, NEW u \in User,
           u \notin active, u \notin active'
    PROVE  /\ InFlight(u)' \subseteq InFlight(u)
           /\ Cardinality(PairsOf(u)') + Cardinality(InFlight(u)')
                <= Cardinality(PairsOf(u)) + Cardinality(InFlight(u))
  <1>1. InFlight(u)' \subseteq InFlight(u)
    <2>1. CASE UNCHANGED req
      BY <2>1 DEF InFlight
    <2>2. ASSUME NEW r \in Request, RequestNext(r) PROVE InFlight(u)' \subseteq InFlight(u)
      BY <2>2, NobodyComesIn, OthersKeep DEF InFlight
    <2> QED
      BY <2>1, <2>2 DEF Next, PanelLogin, PanelLogout, PanelEdit, Seed, Tick, vars
  <1>2. /\ IsFiniteSet(InFlight(u)) /\ Cardinality(InFlight(u)) \in Nat
        /\ IsFiniteSet(PairsOf(u)) /\ Cardinality(PairsOf(u)) \in Nat
    <2>1. InFlight(u) \subseteq Request /\ PairsOf(u) \subseteq pairs
      BY DEF InFlight, PairsOf
    <2> QED
      BY <2>1, FS_Subset, FS_CardinalityType, AccessAssumption
  <1>3. /\ Cardinality(InFlight(u)') <= Cardinality(InFlight(u))
        /\ Cardinality(InFlight(u)') \in Nat
    BY <1>1, <1>2, FS_Subset, FS_CardinalityType
  <1>4. CASE pairs' = pairs
    <2>1. PairsOf(u)' = PairsOf(u)
      BY <1>4 DEF PairsOf
    <2> QED
      BY <1>1, <1>2, <1>3, <2>1
  <1>5. CASE Tick
    <2>1. PairsOf(u)' = {[pair EXCEPT !.age = @ + 1] :
                            pair \in {x \in PairsOf(u) : x.age < RefreshLife}}
      BY <1>5 DEF Tick, PairsOf, TypeOK, Pair
    <2>2. /\ IsFiniteSet(PairsOf(u)') /\ Cardinality(PairsOf(u)') <= Cardinality(PairsOf(u))
      BY <1>2, <1>5, <2>1, TickPairs DEF PairsOf
    <2> QED
      BY <1>1, <1>2, <1>3, <2>2, FS_CardinalityType
  <1>6. ASSUME NEW r \in Request, IssueTokens(r)
        PROVE  Cardinality(PairsOf(u)') + Cardinality(InFlight(u)')
                  <= Cardinality(PairsOf(u)) + Cardinality(InFlight(u))
    <2> DEFINE new == [user |-> req[r].user, roles |-> req[r].roles,
                       permissions |-> PermissionsOf(req[r].roles), age |-> 0]
    <2>1. pairs' = pairs \cup {new} /\ new.user = req[r].user
      BY <1>6 DEF IssueTokens
    <2>2. CASE req[r].user # u
      <3>1. PairsOf(u)' = PairsOf(u)
        BY <2>1, <2>2 DEF PairsOf
      <3> QED
        BY <1>2, <1>3, <3>1
    <2>3. CASE req[r].user = u
      <3>1. PICK x : x = new /\ PairsOf(u)' = PairsOf(u) \cup {x}
        BY <2>1, <2>3 DEF PairsOf
      <3>2. /\ Cardinality(PairsOf(u)') <= Cardinality(PairsOf(u)) + 1
            /\ Cardinality(PairsOf(u)') \in Nat
        <4>1. /\ IsFiniteSet(PairsOf(u) \cup {x})
              /\ Cardinality(PairsOf(u) \cup {x}) <= Cardinality(PairsOf(u)) + 1
          BY <1>2, FS_AddElement
        <4>2. Cardinality(PairsOf(u) \cup {x}) \in Nat
          BY <4>1, FS_CardinalityType
        <4> QED
          BY <3>1, <4>1, <4>2
      <3>3. InFlight(u)' = InFlight(u) \ {r} /\ r \in InFlight(u)
        BY <1>6, <2>3 DEF InFlight, IssueTokens, Become, TypeOK, Idle
      <3>4. Cardinality(InFlight(u)') = Cardinality(InFlight(u)) - 1
        BY <1>2, <3>3, FS_RemoveElement
      <3> QED
        BY <1>2, <3>2, <3>4
    <2> QED
      BY <2>2, <2>3
  <1> QED
    BY <1>1, <1>4, <1>5, <1>6, PairsChange

\* A user who was made inactive comes to rest: no request of the user is let
\* in, and a new pair of tokens takes a request that was already under way.
THEOREM InactiveComeToRest == Spec => InactiveUsersDrain
  <1>1. Init => IsFiniteSet(pairs)
    BY FS_EmptySet DEF Init
  <1>2. TypeOK /\ IsFiniteSet(pairs) /\ [Next]_vars => IsFiniteSet(pairs)'
    BY FinitePairs
  <1>3. TypeOK /\ IsFiniteSet(pairs) /\ [Next]_vars =>
            [\A u \in User \ (active \cup active') :
                /\ InFlight(u)' \subseteq InFlight(u)
                /\ Cardinality({pair \in pairs : pair.user = u})' + Cardinality(InFlight(u)')
                    <= Cardinality({pair \in pairs : pair.user = u})
                        + Cardinality(InFlight(u))]_vars
    BY DrainStep DEF PairsOf
  <1> QED
    BY <1>1, <1>2, <1>3, AccessTypes, PTL DEF Spec, InactiveUsersDrain

----------------------------------------------------------------------------
(* The documented endpoints: what the seed script lists, and the guards    *)
(* the routers carry.                                                      *)

Documented == PERMISSION_TO_ENDPOINTS \cup ROLE_ONLY_ENDPOINTS

\* Among these routes, an endpoint the seed script documents is guarded only by
\* what the script documents for it.
NoOtherGuard(routes) ==
    \A x \in routes, d \in Documented : x[1] = d[2] => <<x[2], x[1]>> \in Documented

LEMMA GuardsDocumented == NoOtherGuard(Routes)
  <1> USE DEF NoOtherGuard, Documented, PERMISSION_TO_ENDPOINTS, ROLE_ONLY_ENDPOINTS
  <1>1. NoOtherGuard(AuthRoutes)
    BY DEF AuthRoutes
  <1>2. NoOtherGuard(RbacRoutes)
    BY DEF RbacRoutes
  <1>3. NoOtherGuard(MasterRoutes)
    BY DEF MasterRoutes
  <1>4. NoOtherGuard(RegistrationRoutes)
    BY DEF RegistrationRoutes
  <1>5. NoOtherGuard(UnitRoutes)
    BY DEF UnitRoutes
  <1>6. NoOtherGuard(ChecklistRoutes)
    BY DEF ChecklistRoutes
  <1>7. NoOtherGuard(ShipmentRoutes)
    BY DEF ShipmentRoutes
  <1>8. NoOtherGuard(EngineerRoutes)
    BY DEF EngineerRoutes
  <1>9. NoOtherGuard(CommissioningRoutes \cup ReportRoutes \cup UploadRoutes)
    BY DEF CommissioningRoutes, ReportRoutes, UploadRoutes
  <1> HIDE DEF Documented
  <1> QED
    BY <1>1, <1>2, <1>3, <1>4, <1>5, <1>6, <1>7, <1>8, <1>9 DEF Routes

\* Every documented endpoint is served, with the documented guard.
LEMMA DocumentedServed == \A d \in Documented : <<d[2], d[1]>> \in Routes
  BY DEF Documented, PERMISSION_TO_ENDPOINTS, ROLE_ONLY_ENDPOINTS, Routes, AuthRoutes,
         RbacRoutes, MasterRoutes, RegistrationRoutes, UnitRoutes, ChecklistRoutes,
         ShipmentRoutes, CommissioningRoutes, EngineerRoutes, ReportRoutes, UploadRoutes

\* A documented guard is a permission, or the role of the super administrator,
\* and no name is both.
LEMMA DocumentedGuards ==
    /\ \A d \in PERMISSION_TO_ENDPOINTS : d = <<d[1], d[2]>> /\ d[1] \in PERMISSIONS
    /\ \A d \in ROLE_ONLY_ENDPOINTS : d = <<d[1], d[2]>> /\ d[1] \in SEEDED_ROLES
    /\ PERMISSIONS \cap SEEDED_ROLES = {}
    /\ (PERMISSIONS \cup SEEDED_ROLES) \cap {"login", "public"} = {}
  <1>1. \A d \in PERMISSION_TO_ENDPOINTS : d = <<d[1], d[2]>> /\ d[1] \in PERMISSIONS
    BY DEF PERMISSION_TO_ENDPOINTS, PERMISSIONS
  <1>2. \A d \in ROLE_ONLY_ENDPOINTS : d = <<d[1], d[2]>> /\ d[1] \in SEEDED_ROLES
    BY DEF ROLE_ONLY_ENDPOINTS, SEEDED_ROLES
  <1>3. /\ PERMISSIONS \cap SEEDED_ROLES = {}
        /\ (PERMISSIONS \cup SEEDED_ROLES) \cap {"login", "public"} = {}
    BY DEF PERMISSIONS, SEEDED_ROLES
  <1> QED
    BY <1>1, <1>2, <1>3

\* What the map lists for a role: the endpoints whose documented guard is a
\* permission the role is seeded with, or the role itself.
LEMMA MapLists ==
    ASSUME NEW ro \in SEEDED_ROLES
    PROVE  build_role_endpoint_map[ro] =
              {d[2] : d \in {x \in Documented : \/ <<ro, x[1]>> \in ROLE_PERMISSIONS
                                              \/ x[1] = ro}}
  <1>1. \A x \in ROLE_ONLY_ENDPOINTS : <<ro, x[1]>> \notin ROLE_PERMISSIONS
    BY SeedFacts, DocumentedGuards
  <1>2. \A x \in PERMISSION_TO_ENDPOINTS : x[1] # ro
    BY DocumentedGuards
  <1> QED
    BY <1>1, <1>2 DEF build_role_endpoint_map, Documented

\* The roles of RBAC_FLOW_GUIDE.md: with the permissions of the seed, each role
\* opens those of the documented endpoints that the script lists for it.
LEMMA RolesOpen == RolesOpenTheirEndpoints
  <1> SUFFICES ASSUME NEW ro \in roles \cap SEEDED_ROLES,
                      PermissionsOf({ro}) = {p \in PERMISSIONS : <<ro, p>> \in ROLE_PERMISSIONS}
               PROVE  Opens([roles |-> {ro}, permissions |-> PermissionsOf({ro})])
                        \cap UNION {build_role_endpoint_map[other] : other \in SEEDED_ROLES}
                      = build_role_endpoint_map[ro]
    BY DEF RolesOpenTheirEndpoints
  <1> DEFINE context == [roles |-> {ro}, permissions |-> PermissionsOf({ro})]
             mine(g) == <<ro, g>> \in ROLE_PERMISSIONS \/ g = ro
             all == UNION {build_role_endpoint_map[other] : other \in SEEDED_ROLES}
  <1>1. \A d \in Documented : Passes(context, d[1]) <=> mine(d[1])
    <2> SUFFICES ASSUME NEW d \in Documented
                 PROVE  Passes(context, d[1]) <=> mine(d[1])
      OBVIOUS
    <2>1. d[1] \in PERMISSIONS \cup SEEDED_ROLES
      BY DocumentedGuards DEF Documented
    <2>2. Passes(context, d[1]) <=> \/ d[1] \in PERMISSIONS \cap PermissionsOf({ro})
                                   \/ d[1] \in SEEDED_ROLES \cap {ro}
      BY <2>1, DocumentedGuards DEF Passes
    <2> QED
      BY <2>1, <2>2, SeedFacts
  <1>2. \A d \in Documented : d[2] \in Opens(context) <=>
                               \E x \in Documented : x[2] = d[2] /\ mine(x[1])
    <2> SUFFICES ASSUME NEW d \in Documented
                 PROVE  d[2] \in Opens(context) <=>
                            \E x \in Documented : x[2] = d[2] /\ mine(x[1])
      OBVIOUS
    <2>1. ASSUME NEW route \in Routes, route[1] = d[2], Passes(context, route[2])
          PROVE  \E x \in Documented : x[2] = d[2] /\ mine(x[1])
      <3>1. <<route[2], route[1]>> \in Documented
        BY <2>1, GuardsDocumented DEF NoOtherGuard
      <3> QED
        BY <2>1, <3>1, <1>1
    <2>2. ASSUME NEW x \in Documented, x[2] = d[2], mine(x[1])
          PROVE  d[2] \in Opens(context)
      <3>1. <<x[2], x[1]>> \in Routes /\ Passes(context, x[1])
        BY <2>2, <1>1, DocumentedServed
      <3>2. <<x[2], x[1]>>[1] \in Opens(context)
        BY <3>1 DEF Opens
      <3> QED
        BY <2>2, <3>2
    <2> QED
      BY <2>1, <2>2 DEF Opens
  <1>3. build_role_endpoint_map[ro] = {d[2] : d \in {x \in Documented : mine(x[1])}}
    BY MapLists
  <1>4. \A e \in all : \E d \in Documented : d[2] = e
    <2> TAKE e \in all
    <2>1. PICK other \in SEEDED_ROLES : e \in build_role_endpoint_map[other]
      OBVIOUS
    <2>2. e \in {d[2] : d \in {x \in Documented : \/ <<other, x[1]>> \in ROLE_PERMISSIONS
                                                \/ x[1] = other}}
      BY <2>1, MapLists
    <2> QED
      BY <2>2
  <1>5. build_role_endpoint_map[ro] \subseteq all
    OBVIOUS
  <1>6. \A e : e \in build_role_endpoint_map[ro] <=>
                   \E x \in Documented : x[2] = e /\ mine(x[1])
    BY <1>3
  <1>7. \A e : e \in all => (e \in Opens(context) <=> e \in build_role_endpoint_map[ro])
    <2> TAKE e
    <2> HAVE e \in all
    <2>1. PICK d \in Documented : d[2] = e
      BY <1>4
    <2>2. e \in Opens(context) <=> \E x \in Documented : x[2] = e /\ mine(x[1])
      BY <1>2, <2>1
    <2> HIDE DEF context, mine
    <2> QED
      BY <1>6, <2>2
  <1> HIDE DEF all
  <1>8. Opens(context) \cap all = build_role_endpoint_map[ro]
    BY <1>5, <1>7
  <1> QED
    BY <1>8 DEF all

\* Whatever the API, the panel and the scripts do to the tables, a role that has
\* the permissions of the seed opens the endpoints documented for it, no more
\* and no fewer.
THEOREM RolesOpenAlways == Spec => []RolesOpenTheirEndpoints
  BY RolesOpen, PTL
=============================================================================
