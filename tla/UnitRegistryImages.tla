------------------------- MODULE UnitRegistryImages -------------------------
(***************************************************************************)
(* Proofs about the unique columns of UnitRegistry and the QR images.  Both*)
(* rest on what requests have not committed: it is claimed like a row is.  *)
(***************************************************************************)
EXTENDS UnitRegistryProofs

----------------------------------------------------------------------------
(* What the unique columns hold, rows that are not committed included.     *)

\* What r is to commit under i.
OwnClaim(r, i, x) ==
    /\ Registering(req[r])
    /\ \/ req[r].naming = x /\ x # NoModel /\ req[r].unit.model = i
       \/ req[r].pc = "inserted" /\ req[r].unit = x /\ req[r].id = i

\* x is, or is to be, committed under i.
Claimed(i, x) ==
    \/ rows[i] = x /\ IsRow(x)
    \/ \E r \in Request : OwnClaim(r, i, x)

UniqueKeys ==
    \A i, j \in Id : \A x, y \in Row :
        Claimed(i, x) /\ Claimed(j, y) /\ i # j => ~Same(x, y)

LEMMA SameFacts ==
    /\ \A x, y : Same(x, y) => Same(y, x)
    /\ \A x, y, z : x.kind = "unit" /\ y.kind = "unit" /\ x.serial = y.serial
                        /\ Same(x, z) => Same(y, z)
    /\ \A x, y : Same(x, y) => x.kind = y.kind
  BY DEF Same, SameKey

\* A step adds at most one claim, of what no other claim is the same as, and
\* keeps the serial number of a unit.
LEMMA ClaimsStep ==
    ASSUME UniqueKeys, NEW k \in Id \cup {None}, NEW n,
           \A i \in Id : \A x \in Row : Claimed(i, x)' =>
                \/ Claimed(i, x)
                \/ \E z \in Row : /\ Claimed(i, z)
                                  /\ x.kind = "unit" /\ z.kind = "unit"
                                  /\ x.serial = z.serial
                \/ i = k /\ x = n,
           \A j \in Id \ {k} : \A y \in Row : Claimed(j, y) => ~Same(n, y)
    PROVE  UniqueKeys'
  <1> SUFFICES ASSUME NEW i \in Id, NEW j \in Id, NEW x \in Row, NEW y \in Row,
                      Claimed(i, x)', Claimed(j, y)', i # j
               PROVE  ~Same(x, y)
    <2>1. \A i, j \in Id : \A x, y \in Row :
            Claimed(i, x)' /\ Claimed(j, y)' /\ i # j => ~Same(x, y)
      BY DEF UniqueKeys
    <2> QED
      BY <2>1 DEF UniqueKeys, Same, SameKey
  <1>1. ASSUME NEW l \in Id, NEW u \in Row, Claimed(l, u)', ~(l = k /\ u = n)
        PROVE  \E z \in Row : Claimed(l, z) /\ \A w : Same(u, w) => Same(z, w)
    BY <1>1, SameFacts
  <1>2. CASE i = k /\ x = n
    <2>1. PICK z \in Row : Claimed(j, z) /\ \A w : Same(y, w) => Same(z, w)
      BY <1>1, <1>2
    <2> QED
      BY <1>2, <2>1, SameFacts
  <1>3. CASE j = k /\ y = n
    <2>1. PICK z \in Row : Claimed(i, z) /\ \A w : Same(x, w) => Same(z, w)
      BY <1>1, <1>3
    <2> QED
      BY <1>3, <2>1, SameFacts
  <1>4. CASE ~(i = k /\ x = n) /\ ~(j = k /\ y = n)
    <2>1. PICK z \in Row : Claimed(i, z) /\ \A w : Same(x, w) => Same(z, w)
      BY <1>1, <1>4
    <2>2. PICK v \in Row : Claimed(j, v) /\ \A w : Same(y, w) => Same(v, w)
      BY <1>1, <1>4
    <2>3. ~Same(z, v)
      BY <2>1, <2>2 DEF UniqueKeys
    <2> QED
      BY <2>1, <2>2, <2>3, SameFacts
  <1> QED
    BY <1>2, <1>3, <1>4

LEMMA ClaimSources ==
    ASSUME NEW r \in Request, \A q \in Request \ {r} : req'[q] = req[q],
           NEW i \in Id, NEW x \in Row, Claimed(i, x)'
    PROVE  Claimed(i, x) \/ (rows'[i] = x /\ IsRow(x)) \/ OwnClaim(r, i, x)'
  <1>1. \A q \in Request \ {r} : OwnClaim(q, i, x)' => OwnClaim(q, i, x)
    BY DEF OwnClaim
  <1> QED
    BY <1>1 DEF Claimed

\* What the constraints rule out, whoever holds it.
LEMMA NotTaken ==
    ASSUME NEW r \in Request, NEW n, NEW k, ~Taken(n, k, r),
           \A y \in Uncommitted(r) : ~Same(n, y)
    PROVE  \A j \in Id \ {k} : \A y \in Row : Claimed(j, y) => ~Same(n, y)
  <1> SUFFICES ASSUME NEW j \in Id \ {k}, NEW y \in Row, Claimed(j, y)
               PROVE  ~Same(n, y)
    OBVIOUS
  <1>1. CASE rows[j] = y /\ IsRow(y)
    BY <1>1 DEF Taken
  <1>2. ASSUME NEW q \in Request, OwnClaim(q, j, y)
        PROVE  ~Same(n, y)
    <2>1. y \in Uncommitted(q)
      BY <1>2 DEF OwnClaim, Uncommitted
    <2> QED
      BY <2>1 DEF Taken
  <1> QED
    BY <1>1, <1>2 DEF Claimed

\* A step that claims nothing new.
LEMMA ClaimsKept ==
    ASSUME UniqueKeys, \A i \in Id : \A x \in Row : Claimed(i, x)' => Claimed(i, x)
    PROVE  UniqueKeys'
  <1>1. \A j \in Id \ {None} : \A y \in Row : Claimed(j, y) => ~Same(Unused, y)
    BY RowByKind DEF Same, SameKey, Unused
  <1>2. PICK k \in {None}, n \in {Unused} : k = None /\ n = Unused
    OBVIOUS
  <1>3. \A j \in Id \ {k} : \A y \in Row : Claimed(j, y) => ~Same(n, y)
    BY <1>1, <1>2
  <1> QED
    BY <1>3, ClaimsStep

LEMMA KeysPlain ==
    ASSUME HInv, UniqueKeys, NEW r \in Request, UNCHANGED rows,
           \A q \in Request \ {r} : req'[q] = req[q],
           \A i \in Id : \A x \in Row : OwnClaim(r, i, x)' => Claimed(i, x)
    PROVE  UniqueKeys'
  <1>1. \A i \in Id : \A x \in Row : Claimed(i, x)' => Claimed(i, x)
    BY ClaimSources DEF Claimed
  <1> QED
    BY <1>1, ClaimsKept

LEMMA KeysIdle ==
    ASSUME NEW r \in Request, ~Registering(req'[r])
    PROVE  \A i \in Id : \A x \in Row : ~OwnClaim(r, i, x)'
  BY DEF OwnClaim

LEMMA KeysCreate ==
    ASSUME HInv, UniqueKeys, NEW r \in Request, CreateInsert(r)
    PROVE  UniqueKeys'
  <1>1. req'[r] = Idle /\ \A q \in Request \ {r} : req'[q] = req[q]
    BY BecomeFacts DEF CreateInsert, HInv, TInv
  <1>2. PICK n : n = req[r].row
    OBVIOUS
  <1>3. PICK k \in Id : NextId(k) /\ rows' = [rows EXCEPT ![k] = n]
    BY <1>2 DEF CreateInsert
  <1>4. Uncommitted(r) = {}
    BY DEF Uncommitted, CreateInsert, Registering
  <1>5. \A j \in Id \ {None} : \A y \in Row : Claimed(j, y) => ~Same(n, y)
    BY <1>2, <1>4, NotTaken DEF CreateInsert
  <1>6. \A j \in Id : j # k => rows'[j] = rows[j]
    BY <1>3 DEF HInv, TInv, TypeOK
  <1>7. rows'[k] = n
    BY <1>3 DEF HInv, TInv, TypeOK
  <1>8. \A i \in Id : \A x \in Row : Claimed(i, x)' => Claimed(i, x) \/ (i = k /\ x = n)
    BY <1>1, <1>6, <1>7, ClaimSources, KeysIdle, PlainStates DEF Claimed
  <1> QED
    BY <1>5, <1>8, ClaimsStep, IdFacts

LEMMA KeysResolved ==
    ASSUME HInv, UniqueKeys, NEW r \in Request,
           \/ \E regenerate \in BOOLEAN, unit \in UnitForms(Rows("model")) :
                   ResolveGiven(r, unit, regenerate)
           \/ \E regenerate \in BOOLEAN, unit \in UnitForms(Rows("model")),
                 family \in Family : ResolveNamed(r, unit, regenerate, family)
    PROVE  UniqueKeys'
  <1>1. ASSUME NEW regenerate \in BOOLEAN, NEW unit \in UnitForms(Rows("model")),
               ResolveGiven(r, unit, regenerate)
        PROVE  UniqueKeys'
    <2>1. /\ \A q \in Request \ {r} : req'[q] = req[q]
          /\ req'[r].naming = NoModel /\ req'[r].pc = "resolved"
      BY <1>1, BecomeFacts DEF ResolveGiven, HInv, TInv
    <2> QED
      BY <1>1, <2>1, KeysPlain DEF ResolveGiven, OwnClaim
  <1>2. ASSUME NEW regenerate \in BOOLEAN, NEW unit \in UnitForms(Rows("model")),
               NEW family \in Family, ResolveNamed(r, unit, regenerate, family)
        PROVE  UniqueKeys'
    <2>1. PICK n : n = Normalized(rows[unit.model])
      OBVIOUS
    <2>2. PICK naming : naming = IF n # rows[unit.model] THEN n ELSE NoModel
      OBVIOUS
    <2>3. /\ \A q \in Request \ {r} : req'[q] = req[q]
          /\ req'[r].naming = naming
          /\ req'[r].pc = "resolved" /\ req'[r].unit = unit
      BY <1>2, <2>1, <2>2, BecomeFacts DEF ResolveNamed, HInv, TInv
    <2>4. CASE naming = NoModel
      BY <1>2, <2>3, <2>4, KeysPlain DEF ResolveNamed, OwnClaim
    <2>5. CASE naming # NoModel
      <3>1. naming = n /\ ~Taken(n, unit.model, r) /\ UNCHANGED rows /\ req[r] = Idle
        BY <1>2, <2>1, <2>2, <2>5 DEF ResolveNamed, Begins
      <3>2. Uncommitted(r) = {}
        BY <3>1 DEF Uncommitted, Registering, Idle
      <3>3. PICK k \in Id : k = unit.model
        BY DEF UnitForms, Rows
      <3>4. \A j \in Id \ {k} : \A y \in Row : Claimed(j, y) => ~Same(n, y)
        BY <3>1, <3>2, <3>3, NotTaken
      <3>5. \A i \in Id : \A x \in Row :
                Claimed(i, x)' => Claimed(i, x) \/ (i = k /\ x = n)
        BY <2>3, <3>1, <3>3, ClaimSources DEF Claimed, OwnClaim
      <3> QED
        BY <3>4, <3>5, ClaimsStep
    <2> QED
      BY <2>4, <2>5
  <1> QED
    BY <1>1, <1>2

LEMMA KeysMissing ==
    ASSUME HInv, UniqueKeys, NEW r \in Request, NEW regenerate \in BOOLEAN, NEW k \in Id,
           NEW family \in Family, NEW unit \in UnitForms({k}),
           ResolveMissing(r, unit, regenerate, family)
    PROVE  UniqueKeys'
  <1>1. PICK n : n = [kind |-> "model", family |-> family, spelling |-> "UESS"]
    OBVIOUS
  <1>2. unit.model = k
    BY DEF UnitForms
  <1>3. /\ \A q \in Request \ {r} : req'[q] = req[q]
        /\ req'[r].naming = n /\ req'[r].pc = "resolved" /\ req'[r].unit = unit
        /\ req[r] = Idle
        /\ ~Taken(n, None, r) /\ NextId(k) /\ rows' = [rows EXCEPT ![k] = Pending]
    BY <1>1, <1>2, BecomeFacts DEF ResolveMissing, Begins, HInv, TInv
  <1>4. Uncommitted(r) = {}
    BY <1>3 DEF Uncommitted, Registering, Idle
  <1>5. \A j \in Id \ {None} : \A y \in Row : Claimed(j, y) => ~Same(n, y)
    BY <1>3, <1>4, NotTaken
  <1>6. rows'[k] = Pending /\ \A j \in Id : j # k => rows'[j] = rows[j]
    BY <1>3 DEF HInv, TInv, TypeOK
  <1>7. \A i \in Id : \A x \in Row : Claimed(i, x)' => Claimed(i, x) \/ (i = k /\ x = n)
    BY <1>2, <1>3, <1>6, NotRows, ClaimSources DEF Claimed, OwnClaim
  <1> QED
    BY <1>5, <1>7, ClaimsStep, IdFacts

LEMMA KeysCheck ==
    ASSUME HInv, UniqueKeys, NEW r \in Request, RegisterCheck(r)
    PROVE  UniqueKeys'
  <1>1. req[r] \in [pc : {"resolved", "checked"}, unit : BESSUnit, fresh : BOOLEAN,
                    naming : ProductModel \cup {NoModel}, regenerate : BOOLEAN]
    BY RequestByPc DEF RegisterCheck, HInv, TInv, TypeOK
  <1>2. /\ \A q \in Request \ {r} : req'[q] = req[q]
        /\ req'[r].pc = "checked" /\ req'[r].unit = req[r].unit
        /\ req'[r].naming = req[r].naming /\ req[r].pc = "resolved"
    BY <1>1, BecomeFacts DEF RegisterCheck, HInv, TInv
  <1>3. \A i \in Id : \A x \in Row : OwnClaim(r, i, x)' => Claimed(i, x)
    BY <1>2 DEF OwnClaim, Claimed, Registering
  <1> QED
    BY <1>2, <1>3, KeysPlain DEF RegisterCheck

LEMMA KeysInsert ==
    ASSUME HInv, UniqueKeys, NEW r \in Request, RegisterInsert(r)
    PROVE  UniqueKeys'
  <1>1. PICK n, naming : n = req[r].unit /\ naming = req[r].naming
    OBVIOUS
  <1>2. PICK k \in Id :
            /\ NextId(k) /\ rows' = [rows EXCEPT ![k] = Pending]
            /\ Become(r, [pc |-> "inserted", unit |-> n, fresh |-> req[r].fresh,
                          naming |-> naming, regenerate |-> req[r].regenerate, id |-> k])
    BY <1>1 DEF RegisterInsert
  <1>3. /\ \A q \in Request \ {r} : req'[q] = req[q]
        /\ req'[r].pc = "inserted" /\ req'[r].unit = n /\ req'[r].naming = naming
        /\ req'[r].id = k
    BY <1>2, BecomeFacts DEF HInv, TInv
  <1>4. req[r].pc = "checked" /\ ~Taken(n, None, r)
    BY <1>1 DEF RegisterInsert
  <1>5. n \in BESSUnit /\ naming \in ProductModel \cup {NoModel}
    BY <1>1, <1>4, RegisteringType DEF HInv, TInv, TypeOK, Registering
  <1>6. \A y \in Uncommitted(r) : ~Same(n, y)
    BY <1>1, <1>4, <1>5, UnitFacts, ModelFacts DEF Uncommitted, Same
  <1>7. \A j \in Id \ {None} : \A y \in Row : Claimed(j, y) => ~Same(n, y)
    BY <1>4, <1>6, NotTaken
  <1>8. rows'[k] = Pending /\ \A j \in Id : j # k => rows'[j] = rows[j]
    BY <1>2 DEF HInv, TInv, TypeOK
  <1>9. \A i \in Id : \A x \in Row : Claimed(i, x)' => Claimed(i, x) \/ (i = k /\ x = n)
    <2>1. \A i \in Id : \A x \in Row :
            OwnClaim(r, i, x)' => Claimed(i, x) \/ (i = k /\ x = n)
      BY <1>1, <1>3, <1>4 DEF OwnClaim, Claimed, Registering
    <2> QED
      BY <1>3, <1>8, <2>1, NotRows, ClaimSources DEF Claimed
  <1> QED
    BY <1>7, <1>9, ClaimsStep, IdFacts

LEMMA KeysCommit ==
    ASSUME HInv, UniqueKeys, NEW r \in Request, RegisterCommit(r)
    PROVE  UniqueKeys'
  <1>1. req'[r] = Idle /\ \A q \in Request \ {r} : req'[q] = req[q]
    BY BecomeFacts DEF RegisterCommit, HInv, TInv
  <1>2. /\ rows'[req[r].id] = req[r].unit
        /\ req[r].naming # NoModel => rows'[req[r].unit.model] = req[r].naming
        /\ \A i \in Id : \/ i = req[r].id
                         \/ i = req[r].unit.model /\ req[r].naming # NoModel
                         \/ rows'[i] = rows[i]
        /\ Registering(req[r]) /\ req[r].pc = "inserted"
    BY CommitRows DEF HInv, RegisterCommit
  <1>3. \A i \in Id : \A x \in Row : rows'[i] = x /\ IsRow(x) => Claimed(i, x)
    BY <1>2 DEF Claimed, OwnClaim
  <1>4. \A i \in Id : \A x \in Row : Claimed(i, x)' => Claimed(i, x)
    BY <1>1, <1>3, ClaimSources, KeysIdle, PlainStates
  <1> QED
    BY <1>4, ClaimsKept

LEMMA KeysUnit ==
    ASSUME HInv, UniqueKeys, NEW r \in Request, \A q \in Request \ {r} : req'[q] = req[q],
           req'[r] = req[r] \/ ~Registering(req'[r]),
           NEW k \in Id, rows[k].kind = "unit", NEW new \in BESSUnit,
           rows' = [rows EXCEPT ![k] = new], new.serial = rows[k].serial
    PROVE  UniqueKeys'
  <1>1. PICK old \in Row : old = rows[k] /\ IsRow(old) /\ old.kind = "unit"
    BY UnitRow, UnitFacts DEF HInv, TInv
  <1>2. rows'[k] = new /\ \A j \in Id : j # k => rows'[j] = rows[j]
    BY DEF HInv, TInv, TypeOK
  <1>3. \A i \in Id : \A x \in Row : OwnClaim(r, i, x)' => Claimed(i, x)
    BY DEF OwnClaim, Claimed
  <1>4. PICK l \in {None}, n \in {Unused} : n = Unused
    OBVIOUS
  <1>5. \A i \in Id : \A x \in Row : Claimed(i, x)' =>
            \/ Claimed(i, x)
            \/ \E z \in Row : /\ Claimed(i, z)
                              /\ x.kind = "unit" /\ z.kind = "unit"
                              /\ x.serial = z.serial
            \/ i = l /\ x = n
    BY <1>1, <1>2, <1>3, ClaimSources, UnitFacts DEF Claimed
  <1>6. \A j \in Id \ {l} : \A y \in Row : Claimed(j, y) => ~Same(n, y)
    BY <1>4, RowByKind DEF Same, SameKey, Unused
  <1> QED
    BY <1>5, <1>6, ClaimsStep

\* assign_shipment_site leaves the serial numbers as they are.
LEMMA KeysSited ==
    ASSUME HInv, UniqueKeys, NEW r \in Request, AssignSiteCommit(r)
    PROVE  UniqueKeys'
  <1>1. /\ \A i \in Id : \/ rows'[i] = rows[i]
                         \/ /\ rows[i] \in BESSUnit /\ rows'[i] \in BESSUnit
                            /\ rows'[i]["serial"] = rows[i]["serial"]
        /\ req'[r] = Idle /\ \A q \in Request \ {r} : req'[q] = req[q]
    BY SitedRows DEF HInv, TInv
  <1>2. ASSUME NEW i \in Id, NEW x \in Row, Claimed(i, x)'
        PROVE  \/ Claimed(i, x)
               \/ \E z \in Row : /\ Claimed(i, z)
                                 /\ x.kind = "unit" /\ z.kind = "unit"
                                 /\ x.serial = z.serial
    <2>1. CASE rows'[i] = x /\ IsRow(x) /\ rows'[i] # rows[i]
      <3>1. PICK z \in Row : z = rows[i] /\ z.kind = "unit" /\ x.kind = "unit"
                            /\ x.serial = z.serial
        BY <1>1, <2>1, UnitFacts
      <3> QED
        BY <3>1, RowByKind DEF Claimed
    <2>2. CASE rows'[i] = x /\ IsRow(x) /\ rows'[i] = rows[i]
      BY <2>2 DEF Claimed
    <2> QED
      BY <1>1, <1>2, <2>1, <2>2, ClaimSources, KeysIdle, PlainStates
  <1>3. PICK k \in {None}, n \in {Unused} : k = None /\ n = Unused
    OBVIOUS
  <1>4. \A j \in Id \ {k} : \A y \in Row : Claimed(j, y) => ~Same(n, y)
    BY <1>3, RowByKind DEF Same, SameKey, Unused
  <1> QED
    BY <1>2, <1>4, ClaimsStep

LEMMA KeysFail ==
    ASSUME HInv, UniqueKeys, NEW r \in Request, Fail(r)
    PROVE  UniqueKeys'
  <1>1. req'[r] = Idle /\ \A q \in Request \ {r} : req'[q] = req[q]
    BY BecomeFacts DEF Fail, HInv, TInv
  <1>2. \A i \in Id : rows'[i] = IF i \in Inserted(r) THEN Gone ELSE rows[i]
    BY DEF Fail
  <1>3. \A i \in Id : \A x \in Row : Claimed(i, x)' => Claimed(i, x)
    BY <1>1, <1>2, NotRows, ClaimSources, KeysIdle, PlainStates DEF Claimed
  <1> QED
    BY <1>3, ClaimsKept

LEMMA KeysSave ==
    ASSUME HInv, UniqueKeys, NEW k \in Id, NEW n, PanelSave(k, n)
    PROVE  UniqueKeys'
  <1>1. /\ rows' = [rows EXCEPT ![k] = n] /\ UNCHANGED req
        /\ \A j \in Id \ {k} : IsRow(rows[j]) => ~Same(n, rows[j])
        /\ \A r \in Request : \A y \in Uncommitted(r) : ~Same(n, y)
    BY DEF PanelSave
  <1>2. rows'[k] = n /\ \A j \in Id : j # k => rows'[j] = rows[j]
    BY <1>1 DEF HInv, TInv, TypeOK
  <1>3. \A i \in Id : \A x \in Row : Claimed(i, x)' => Claimed(i, x) \/ (i = k /\ x = n)
    BY <1>1, <1>2 DEF Claimed, OwnClaim
  <1>4. \A j \in Id \ {k} : \A y \in Row : Claimed(j, y) => ~Same(n, y)
    <2> SUFFICES ASSUME NEW j \in Id \ {k}, NEW y \in Row, Claimed(j, y) PROVE ~Same(n, y)
      OBVIOUS
    <2>1. \A r \in Request : OwnClaim(r, j, y) => y \in Uncommitted(r)
      BY DEF OwnClaim, Uncommitted
    <2> QED
      BY <1>1, <2>1 DEF Claimed
  <1> QED
    BY <1>3, <1>4, ClaimsStep

LEMMA KeysDelete ==
    ASSUME HInv, UniqueKeys, NEW k \in Id, PanelDelete(k)
    PROVE  UniqueKeys'
  <1>1. rows'[k] = Gone /\ UNCHANGED req /\ \A j \in Id : j # k => rows'[j] = rows[j]
    BY DEF PanelDelete, HInv, TInv, TypeOK
  <1>2. \A i \in Id : \A x \in Row : Claimed(i, x)' => Claimed(i, x)
    BY <1>1, NotRows DEF Claimed, OwnClaim
  <1> QED
    BY <1>2, ClaimsKept

LEMMA KeysInit == Init => UniqueKeys
  <1> SUFFICES ASSUME Init PROVE UniqueKeys
    OBVIOUS
  <1>1. \A i \in Id : \A x \in Row : Claimed(i, x) => rows[i] = x /\ IsRow(x)
    BY PlainStates DEF Init, Claimed, OwnClaim
  <1> QED
    BY <1>1, SeedFacts DEF UniqueKeys

LEMMA KeysStep ==
    ASSUME HInv, UniqueKeys, [Next]_vars
    PROVE  UniqueKeys'
  <1>1. ASSUME NEW r \in Request, NEW x \in MasterForms, CreateLook(r, x)
        PROVE  UniqueKeys'
    <2>1. /\ req'[r] = [pc |-> "creating", row |-> Normalized(x)] /\ UNCHANGED rows
          /\ \A q \in Request \ {r} : req'[q] = req[q]
      BY <1>1, BecomeFacts DEF CreateLook, HInv, TInv
    <2> QED
      BY <2>1, KeysPlain, KeysIdle DEF Registering
  <1>2. ASSUME NEW r \in Request, NEW i \in Id, DeleteUnit(r, i)
        PROVE  UniqueKeys'
    <2>1. rows[i].kind = "unit" /\ UNCHANGED req
      BY <1>2 DEF DeleteUnit
    <2>2. PICK new \in BESSUnit :
              rows' = [rows EXCEPT ![i] = new] /\ new.serial = rows[i].serial
      BY <1>2, DeletedUnit DEF DeleteUnit, HInv, TInv
    <2> QED
      BY <2>1, <2>2, KeysUnit
  <1>3. ASSUME NEW r \in Request, NEW i \in Id, NEW new \in BESSUnit,
               UpdateLoad(r, i, new)
        PROVE  UniqueKeys'
    <2>1. /\ \A q \in Request \ {r} : req'[q] = req[q]
          /\ req'[r].pc = "loaded" /\ UNCHANGED rows
      BY <1>3, BecomeFacts DEF UpdateLoad, HInv, TInv
    <2> QED
      BY <2>1, KeysPlain, KeysIdle DEF Registering
  <1>4. ASSUME NEW r \in Request, UpdateWrite(r)
        PROVE  UniqueKeys'
    <2>1. req[r] \in [pc : {"loaded", "written"}, id : Id, was : BESSUnit, unit : BESSUnit]
      BY <1>4, RequestByPc DEF UpdateWrite, HInv, TInv, TypeOK
    <2>2. /\ \A q \in Request \ {r} : req'[q] = req[q]
          /\ req'[r].pc = "written" /\ UNCHANGED rows
      BY <1>4, <2>1, BecomeFacts DEF UpdateWrite, HInv, TInv
    <2> QED
      BY <2>2, KeysPlain, KeysIdle DEF Registering
  <1>5. ASSUME NEW r \in Request, UpdateCommit(r)
        PROVE  UniqueKeys'
    <2>1. req'[r] = Idle /\ \A q \in Request \ {r} : req'[q] = req[q]
      BY <1>5, BecomeFacts DEF UpdateCommit, HInv, TInv
    <2>2. PICK i \in Id, now \in BESSUnit, new \in BESSUnit :
              rows[i] = now /\ rows' = [rows EXCEPT ![i] = new] /\ new.serial = now.serial
      BY <1>5, UpdateRow DEF HInv
    <2>3. rows[i].kind = "unit" /\ new.serial = rows[i].serial
      BY <2>2, UnitFacts
    <2> QED
      BY <2>1, <2>2, <2>3, KeysUnit, PlainStates
  <1>6. ASSUME UNCHANGED vars
        PROVE  UniqueKeys'
    <2>1. \A i \in Id : \A x \in Row : Claimed(i, x)' => Claimed(i, x)
      BY <1>6 DEF vars, Claimed, OwnClaim
    <2> QED
      BY <2>1, ClaimsKept
  <1>7. ASSUME NEW r \in Request,
               \E s \in Id, linked \in SUBSET Rows("unit") : AssignSiteLoad(r, s, linked)
        PROVE  UniqueKeys'
    <2>1. /\ \A q \in Request \ {r} : req'[q] = req[q]
          /\ req'[r].pc = "siting" /\ UNCHANGED rows
      BY <1>7, BecomeFacts DEF AssignSiteLoad, HInv, TInv
    <2> QED
      BY <2>1, KeysPlain, KeysIdle DEF Registering
  <1> QED
    BY <1>1, <1>2, <1>3, <1>4, <1>5, <1>6, <1>7, Steps, KeysCreate, KeysResolved,
       KeysMissing, KeysCheck, KeysInsert, KeysCommit, KeysSited, KeysFail, KeysSave,
       KeysDelete DEF HInv, TInv

LEMMA KeysHold == Spec => [](HInv /\ RowsSound /\ UniqueKeys)
  <1>1. Init => HInv /\ RowsSound /\ UniqueKeys
    BY HInvInit, RowsSoundInit, KeysInit
  <1>2. HInv /\ RowsSound /\ UniqueKeys /\ [Next]_vars => (HInv /\ RowsSound /\ UniqueKeys)'
    BY HInvStep, RowsSoundStep, KeysStep
  <1> QED
    BY <1>1, <1>2, PTL DEF Spec

\* However a product model is named when it is created, and whoever else names
\* it meanwhile, the API makes one row of it (create_product_model,
\* _resolve_product_model).
THEOREM FamiliesHaveOneRow == Spec => []OneRowPerFamily
  <1>1. HInv /\ RowsSound /\ UniqueKeys => OneRowPerFamily
    <2> SUFFICES ASSUME HInv, RowsSound, UniqueKeys,
                        NEW i \in Id \ touched, NEW j \in Id \ touched,
                        rows[i].kind = "model", rows[j].kind = "model",
                        rows[i].family = rows[j].family, i # j
                 PROVE  FALSE
      BY DEF OneRowPerFamily
    <2>1. rows[i].spelling = "UESS" /\ rows[j].spelling = "UESS"
      BY DEF RowsSound, SoundRow, Spelled
    <2>2. rows[i] \in Row /\ rows[j] \in Row /\ IsRow(rows[i]) /\ IsRow(rows[j])
      BY NotRows DEF HInv, TInv, TypeOK, IsRow
    <2>3. Same(rows[i], rows[j])
      BY <2>1 DEF Same, SameKey
    <2> QED
      BY <2>2, <2>3 DEF UniqueKeys, Claimed
  <1> QED
    BY <1>1, KeysHold, PTL

----------------------------------------------------------------------------
(* The QR images.                                                          *)

\* The unit that an image names is there, or is being inserted.
HasSerial(i, s) == rows[i].kind = "unit" /\ rows[i].serial = s

InsertsUnit(r, i, s) ==
    /\ req[r].pc = "inserted"
    /\ req[r].regenerate
    /\ req[r].id = i
    /\ req[r].unit.serial = s

BackedFile(s) ==
    files[s] # NoFile /\ ~files[s].void /\ files[s].unit \notin touched =>
        \/ HasSerial(files[s].unit, s)
        \/ \E r \in Request : InsertsUnit(r, files[s].unit, s)

LoadedUnit(r) ==
    req[r].pc \in {"loaded", "written"} =>
        req[r].id \in touched \/ HasSerial(req[r].id, req[r].unit.serial)

FilesBacked ==
    /\ \A s \in Serial : BackedFile(s)
    /\ \A r \in Request : LoadedUnit(r)

LEMMA SerialKept ==
    ASSUME History, NEW i \in Id \ touched', NEW s, HasSerial(i, s)
    PROVE  HasSerial(i, s)'
  BY DEF History, KeepsSerials, HasSerial

\* An image that a step leaves alone, or whose history it notes.
LEMMA FileKept ==
    ASSUME HInv, History, NEW s \in Serial, BackedFile(s),
           files'[s] # NoFile => files[s] # NoFile,
           files'[s].unit = files[s].unit, files'[s].void = files[s].void,
           \A r \in Request : \A i \in Id :
                InsertsUnit(r, i, s) => InsertsUnit(r, i, s)' \/ HasSerial(i, s)'
    PROVE  BackedFile(s)'
  <1> SUFFICES ASSUME files'[s] # NoFile, ~files'[s].void, files'[s].unit \notin touched'
               PROVE  \/ HasSerial(files[s].unit, s)'
                      \/ \E r \in Request : InsertsUnit(r, files[s].unit, s)'
    BY DEF BackedFile
  <1>1. PICK i \in Id \ touched' : i = files[s].unit
    BY DEF HInv, TInv, TypeOK, QrFile
  <1>2. HasSerial(i, s) \/ \E r \in Request : InsertsUnit(r, i, s)
    BY <1>1 DEF BackedFile, History
  <1>3. HasSerial(i, s)' \/ \E r \in Request : InsertsUnit(r, i, s)'
    BY <1>2, SerialKept
  <1> QED
    BY <1>1, <1>3 DEF HasSerial, InsertsUnit

LEMMA LoadedUnitKept ==
    ASSUME HInv, History, NEW r \in Request, LoadedUnit(r), req[r].pc \in {"loaded", "written"},
           req'[r].id = req[r].id, req'[r].unit = req[r].unit
    PROVE  LoadedUnit(r)'
  <1>1. PICK i \in Id, s \in {req[r].unit.serial} : i = req[r].id /\ s = req[r].unit.serial
    BY RequestByPc DEF HInv, TInv, TypeOK
  <1>2. i \in touched' \/ HasSerial(i, s)'
    BY <1>1, SerialKept DEF LoadedUnit, History
  <1> QED
    BY <1>1, <1>2 DEF LoadedUnit, HasSerial

\* A step that writes no image, and of a request that commits what it inserted.
LEMMA BackedPlain ==
    ASSUME HInv, History, FilesBacked, UNCHANGED files, NEW r \in Request,
           \A q \in Request \ {r} : req'[q] = req[q],
           \A s \in Serial, i \in Id : InsertsUnit(r, i, s) => HasSerial(i, s)',
           LoadedUnit(r)'
    PROVE  FilesBacked'
  <1>1. ASSUME NEW s \in Serial PROVE BackedFile(s)'
    <2>1. \A q \in Request \ {r} : \A i \in Id : InsertsUnit(q, i, s) => InsertsUnit(q, i, s)'
      BY DEF InsertsUnit
    <2> QED
      BY <2>1, FileKept DEF FilesBacked
  <1>2. ASSUME NEW q \in Request \ {r} PROVE LoadedUnit(q)'
    <2>1. req'[q] = req[q]
      OBVIOUS
    <2>2. CASE req[q].pc \in {"loaded", "written"}
      BY <2>1, <2>2, LoadedUnitKept DEF FilesBacked
    <2>3. CASE req[q].pc \notin {"loaded", "written"}
      BY <2>1, <2>3 DEF LoadedUnit
    <2> QED
      BY <2>2, <2>3
  <1> QED
    BY <1>1, <1>2 DEF FilesBacked

LEMMA BackedRows ==
    ASSUME HInv, History, FilesBacked, UNCHANGED <<files, req>>
    PROVE  FilesBacked'
  <1>1. ASSUME NEW s \in Serial PROVE BackedFile(s)'
    BY FileKept DEF FilesBacked, InsertsUnit
  <1>2. ASSUME NEW q \in Request PROVE LoadedUnit(q)'
    <2>1. CASE req[q].pc \in {"loaded", "written"}
      BY <2>1, LoadedUnitKept DEF FilesBacked
    <2>2. CASE req[q].pc \notin {"loaded", "written"}
      BY <2>2 DEF LoadedUnit
    <2> QED
      BY <2>1, <2>2
  <1> QED
    BY <1>1, <1>2 DEF FilesBacked

\* A step that writes the image of one serial number.
LEMMA BackedWrite ==
    ASSUME HInv, History, FilesBacked, NEW r \in Request, NEW s \in Serial,
           \A t \in Serial \ {s} : files'[t] = files[t],
           \A q \in Request \ {r} : req'[q] = req[q],
           BackedFile(s)', LoadedUnit(r)',
           \A t \in Serial \ {s}, i \in Id : ~InsertsUnit(r, i, t)
    PROVE  FilesBacked'
  <1>1. ASSUME NEW t \in Serial \ {s} PROVE BackedFile(t)'
    <2>1. \A q \in Request \ {r} : \A i \in Id : InsertsUnit(q, i, t) => InsertsUnit(q, i, t)'
      BY DEF InsertsUnit
    <2> QED
      BY <2>1, FileKept DEF FilesBacked
  <1>2. ASSUME NEW q \in Request \ {r} PROVE LoadedUnit(q)'
    <2>1. req'[q] = req[q]
      OBVIOUS
    <2>2. CASE req[q].pc \in {"loaded", "written"}
      BY <2>1, <2>2, LoadedUnitKept DEF FilesBacked
    <2>3. CASE req[q].pc \notin {"loaded", "written"}
      BY <2>1, <2>3 DEF LoadedUnit
    <2> QED
      BY <2>2, <2>3
  <1> QED
    BY <1>1, <1>2 DEF FilesBacked

LEMMA NotLoaded ==
    ASSUME NEW r \in Request, req'[r].pc \notin {"loaded", "written"}
    PROVE  LoadedUnit(r)'
  BY DEF LoadedUnit

LEMMA NotInserting ==
    ASSUME NEW r \in Request, req[r].pc # "inserted"
    PROVE  \A i, s : ~InsertsUnit(r, i, s)
  BY DEF InsertsUnit

LEMMA BackedInsert ==
    ASSUME HInv, History, FilesBacked, NEW r \in Request, RegisterInsert(r)
    PROVE  FilesBacked'
  <1>1. PICK unit \in BESSUnit : unit = req[r].unit
    BY RegisteringType DEF RegisterInsert, Registering, HInv, TInv, TypeOK
  <1>2. req[r].regenerate \in BOOLEAN
    BY RequestByPc DEF RegisterInsert, HInv, TInv, TypeOK
  <1>3. PICK k \in Id :
            /\ IF req[r].regenerate THEN WriteFile(unit, k) ELSE UNCHANGED files
            /\ Become(r, [pc |-> "inserted", unit |-> unit, fresh |-> req[r].fresh,
                          naming |-> req[r].naming, regenerate |-> req[r].regenerate,
                          id |-> k])
    BY <1>1 DEF RegisterInsert
  <1>4. /\ \A q \in Request \ {r} : req'[q] = req[q]
        /\ req'[r].pc = "inserted" /\ req'[r].unit = unit /\ req'[r].id = k
        /\ req'[r].regenerate = req[r].regenerate
    BY <1>3, BecomeFacts DEF HInv, TInv
  <1>5. req[r].pc = "checked"
    BY DEF RegisterInsert
  <1>6. LoadedUnit(r)' /\ \A i, s : ~InsertsUnit(r, i, s)
    BY <1>4, <1>5, NotLoaded, NotInserting
  <1>7. CASE ~req[r].regenerate
    BY <1>3, <1>4, <1>6, <1>7, BackedPlain
  <1>8. CASE req[r].regenerate
    <2>1. PICK s \in Serial : s = unit.serial
      BY UnitFacts
    <2>2. /\ files'[s].unit = k
          /\ \A t \in Serial \ {s} : files'[t] = files[t]
      BY <1>3, <1>8, <2>1, WriteFileFacts DEF HInv, TInv
    <2>3. InsertsUnit(r, files[s].unit, s)'
      BY <1>4, <1>8, <2>1, <2>2 DEF InsertsUnit
    <2>4. BackedFile(s)'
      BY <2>3 DEF BackedFile
    <2> QED
      BY <1>4, <1>6, <2>2, <2>4, BackedWrite
  <1> QED
    BY <1>2, <1>7, <1>8

LEMMA BackedUpdate ==
    ASSUME HInv, History, FilesBacked, NEW r \in Request, UpdateWrite(r)
    PROVE  FilesBacked'
  <1>1. /\ req[r] \in [pc : {"loaded", "written"}, id : Id, was : BESSUnit, unit : BESSUnit]
        /\ req[r].pc = "loaded"
    BY RequestByPc DEF UpdateWrite, HInv, TInv, TypeOK
  <1>2. PICK i \in Id, unit \in BESSUnit, s \in Serial :
            i = req[r].id /\ unit = req[r].unit /\ s = unit.serial
    BY <1>1, UnitFacts
  <1>3. /\ \A q \in Request \ {r} : req'[q] = req[q]
        /\ req'[r].pc = "written" /\ req'[r].unit = unit /\ req'[r].id = i
    BY <1>1, <1>2, BecomeFacts DEF UpdateWrite, HInv, TInv
  <1>4. /\ files'[s].unit = i
        /\ \A t \in Serial \ {s} : files'[t] = files[t]
    BY <1>2, WriteFileFacts DEF UpdateWrite, HInv, TInv
  <1>5. i \in touched' \/ HasSerial(i, s)'
    BY <1>1, <1>2, SerialKept DEF FilesBacked, LoadedUnit, History
  <1>6. BackedFile(s)'
    BY <1>4, <1>5 DEF BackedFile, HasSerial
  <1>7. LoadedUnit(r)' /\ \A j, t : ~InsertsUnit(r, j, t)
    BY <1>1, <1>2, <1>3, <1>5, NotInserting DEF LoadedUnit, HasSerial
  <1> QED
    BY <1>3, <1>4, <1>6, <1>7, BackedWrite

LEMMA BackedSited ==
    ASSUME HInv, History, FilesBacked, NEW r \in Request, AssignSiteCommit(r)
    PROVE  FilesBacked'
  <1>1. /\ req'[r] = Idle /\ req[r].pc = "siting"
        /\ \A q \in Request \ {r} : req'[q] = req[q]
    BY SitedRows DEF HInv, TInv
  <1>2. ASSUME NEW s \in Serial PROVE BackedFile(s)'
    <2>1. \A q \in Request, i \in Id : InsertsUnit(q, i, s) => InsertsUnit(q, i, s)'
      BY <1>1 DEF InsertsUnit
    <2>2. /\ files'[s] # NoFile => files[s] # NoFile
          /\ files'[s].unit = files[s].unit /\ files'[s].void = files[s].void
      BY SitedImages DEF HInv, TInv
    <2> QED
      BY <2>1, <2>2, FileKept DEF FilesBacked
  <1>3. ASSUME NEW q \in Request PROVE LoadedUnit(q)'
    <2>1. CASE q = r
      BY <1>1, <2>1, NotLoaded DEF Idle
    <2>2. CASE q # r /\ req[q].pc \in {"loaded", "written"}
      BY <1>1, <2>2, LoadedUnitKept DEF FilesBacked
    <2>3. CASE q # r /\ req[q].pc \notin {"loaded", "written"}
      BY <1>1, <2>3 DEF LoadedUnit
    <2> QED
      BY <2>1, <2>2, <2>3
  <1> QED
    BY <1>2, <1>3 DEF FilesBacked

LEMMA BackedFail ==
    ASSUME HInv, History, FilesBacked, NEW r \in Request, Fail(r)
    PROVE  FilesBacked'
  <1>1. req'[r] = Idle /\ \A q \in Request \ {r} : req'[q] = req[q]
    BY BecomeFacts DEF Fail, HInv, TInv
  <1>2. LoadedUnit(r)'
    BY <1>1, NotLoaded DEF Idle
  <1>3. CASE Wrote(r)
    <2>1. req[r].unit \in BESSUnit
      BY <1>3, RequestByPc DEF Wrote, HInv, TInv, TypeOK
    <2>2. PICK s \in Serial : s = req[r].unit.serial
      BY <2>1, UnitFacts
    <2>3. files[s] \in QrFile
      BY <1>3, <2>2 DEF HInv, TInv, TypeOK, ImagesWritten
    <2>4. files' = [files EXCEPT ![s] = [files[s] EXCEPT !.void = TRUE]]
      BY <1>3, <2>2 DEF Fail, Wrote
    <2>5. \A t \in Serial \ {s} : files'[t] = files[t]
      BY <2>4 DEF HInv, TInv, TypeOK
    <2>6. files'[s].void
      BY <2>3, <2>4 DEF HInv, TInv, TypeOK, QrFile
    <2>7. BackedFile(s)'
      BY <2>6 DEF BackedFile
    <2>8. \A t \in Serial \ {s}, i \in Id : ~InsertsUnit(r, i, t)
      BY <2>2 DEF InsertsUnit
    <2> QED
      BY <1>1, <1>2, <2>5, <2>7, <2>8, BackedWrite
  <1>4. CASE ~Wrote(r)
    <2>1. UNCHANGED files /\ \A i, s : ~InsertsUnit(r, i, s)
      BY <1>4 DEF Fail, Wrote, InsertsUnit
    <2> QED
      BY <1>1, <1>2, <2>1, BackedPlain
  <1> QED
    BY <1>3, <1>4

LEMMA BackedStep ==
    ASSUME HInv, History, FilesBacked, [Next]_vars
    PROVE  FilesBacked'
  <1> USE DEF HInv, TInv
  <1>1. ASSUME NEW r \in Request, NEW x \in MasterForms, CreateLook(r, x)
        PROVE  FilesBacked'
    <2>1. /\ req'[r].pc = "creating" /\ req[r] = Idle /\ UNCHANGED files
          /\ \A q \in Request \ {r} : req'[q] = req[q]
      BY <1>1, BecomeFacts DEF CreateLook, Begins
    <2> QED
      BY <2>1, BackedPlain, NotLoaded, NotInserting DEF Idle
  <1>2. ASSUME NEW r \in Request, CreateInsert(r)
        PROVE  FilesBacked'
    <2>1. /\ req'[r] = Idle /\ req[r].pc = "creating" /\ UNCHANGED files
          /\ \A q \in Request \ {r} : req'[q] = req[q]
      BY <1>2, BecomeFacts DEF CreateInsert
    <2> QED
      BY <2>1, BackedPlain, NotLoaded, NotInserting DEF Idle
  <1>3. ASSUME NEW r \in Request, NEW regenerate \in BOOLEAN,
               NEW unit \in UnitForms(Rows("model")), ResolveGiven(r, unit, regenerate)
        PROVE  FilesBacked'
    <2>1. /\ req'[r].pc = "resolved" /\ req[r] = Idle /\ UNCHANGED files
          /\ \A q \in Request \ {r} : req'[q] = req[q]
      BY <1>3, BecomeFacts DEF ResolveGiven, Begins
    <2> QED
      BY <2>1, BackedPlain, NotLoaded, NotInserting DEF Idle
  <1>4. ASSUME NEW r \in Request, NEW regenerate \in BOOLEAN, NEW family \in Family,
               NEW unit \in UnitForms(Rows("model")),
               ResolveNamed(r, unit, regenerate, family)
        PROVE  FilesBacked'
    <2>1. /\ req'[r].pc = "resolved" /\ req[r] = Idle /\ UNCHANGED files
          /\ \A q \in Request \ {r} : req'[q] = req[q]
      BY <1>4, BecomeFacts DEF ResolveNamed, Begins
    <2> QED
      BY <2>1, BackedPlain, NotLoaded, NotInserting DEF Idle
  <1>5. ASSUME NEW r \in Request, NEW regenerate \in BOOLEAN, NEW i \in Id,
               NEW family \in Family, NEW unit \in UnitForms({i}),
               ResolveMissing(r, unit, regenerate, family)
        PROVE  FilesBacked'
    <2>1. /\ req'[r].pc = "resolved" /\ req[r] = Idle /\ UNCHANGED files
          /\ \A q \in Request \ {r} : req'[q] = req[q]
      BY <1>5, BecomeFacts DEF ResolveMissing, Begins
    <2> QED
      BY <2>1, BackedPlain, NotLoaded, NotInserting DEF Idle
  <1>6. ASSUME NEW r \in Request, RegisterCheck(r)
        PROVE  FilesBacked'
    <2>1. req[r] \in [pc : {"resolved", "checked"}, unit : BESSUnit, fresh : BOOLEAN,
                      naming : ProductModel \cup {NoModel}, regenerate : BOOLEAN]
      BY <1>6, RequestByPc DEF RegisterCheck, TypeOK
    <2>2. /\ req'[r].pc = "checked" /\ req[r].pc = "resolved" /\ UNCHANGED files
          /\ \A q \in Request \ {r} : req'[q] = req[q]
      BY <1>6, <2>1, BecomeFacts DEF RegisterCheck
    <2> QED
      BY <2>2, BackedPlain, NotLoaded, NotInserting
  <1>7. ASSUME NEW r \in Request, RegisterCommit(r)
        PROVE  FilesBacked'
    <2>1. /\ req'[r] = Idle /\ UNCHANGED files
          /\ \A q \in Request \ {r} : req'[q] = req[q]
      BY <1>7, BecomeFacts DEF RegisterCommit
    <2>2. rows'[req[r].id] = req[r].unit /\ req[r].unit.kind = "unit"
      BY <1>7, CommitRows, UnitFacts
    <2>3. \A s \in Serial, i \in Id : InsertsUnit(r, i, s) => HasSerial(i, s)'
      BY <2>2 DEF InsertsUnit, HasSerial
    <2> QED
      BY <2>1, <2>3, BackedPlain, NotLoaded DEF Idle
  <1>8. ASSUME NEW r \in Request, NEW i \in Id, NEW new \in BESSUnit,
               UpdateLoad(r, i, new)
        PROVE  FilesBacked'
    <2>1. rows[i] \in BESSUnit
      BY <1>8, UnitRow DEF UpdateLoad
    <2>2. new.serial = rows[i].serial /\ rows[i].kind = "unit"
      BY <1>8, <2>1 DEF UpdateLoad, BESSUnit
    <2>3. /\ req'[r] = [pc |-> "loaded", id |-> i, was |-> rows[i], unit |-> new]
          /\ req[r] = Idle /\ UNCHANGED <<files, rows>>
          /\ \A q \in Request \ {r} : req'[q] = req[q]
      BY <1>8, BecomeFacts DEF UpdateLoad, Begins
    <2>4. LoadedUnit(r)'
      BY <2>2, <2>3 DEF LoadedUnit, HasSerial
    <2> QED
      BY <2>3, <2>4, BackedPlain, NotInserting DEF Idle
  <1>9. ASSUME NEW r \in Request, UpdateCommit(r)
        PROVE  FilesBacked'
    <2>1. /\ req'[r] = Idle /\ req[r].pc = "written" /\ UNCHANGED files
          /\ \A q \in Request \ {r} : req'[q] = req[q]
      BY <1>9, BecomeFacts DEF UpdateCommit
    <2> QED
      BY <2>1, BackedPlain, NotLoaded, NotInserting DEF Idle
  <1>10. ASSUME NEW r \in Request, NEW i \in Id, DeleteUnit(r, i)
         PROVE  FilesBacked'
    BY <1>10, BackedRows DEF DeleteUnit
  <1>11. ASSUME NEW i \in Id,
                \/ PanelDelete(i)
                \/ \E x \in MasterForms \cup UnitForms(Rows("model")) : PanelSave(i, x)
         PROVE  FilesBacked'
    BY <1>11, BackedRows DEF PanelDelete, PanelSave
  <1>12. ASSUME UNCHANGED vars
         PROVE  FilesBacked'
    BY <1>12, BackedRows DEF vars
  <1>13. ASSUME NEW r \in Request,
                \E s \in Id, linked \in SUBSET Rows("unit") : AssignSiteLoad(r, s, linked)
         PROVE  FilesBacked'
    <2>1. /\ req'[r].pc = "siting" /\ req[r] = Idle /\ UNCHANGED files
          /\ \A q \in Request \ {r} : req'[q] = req[q]
      BY <1>13, BecomeFacts DEF AssignSiteLoad, Begins
    <2> QED
      BY <2>1, BackedPlain, NotLoaded, NotInserting DEF Idle
  <1> QED
    BY <1>1, <1>2, <1>3, <1>4, <1>5, <1>6, <1>7, <1>8, <1>9, <1>10, <1>11, <1>12, <1>13,
       Steps, BackedInsert, BackedUpdate, BackedSited, BackedFail

LEMMA BackedInit == Init => FilesBacked
  BY DEF Init, FilesBacked, BackedFile, LoadedUnit, Idle

RegistryInv == HInv /\ RowsSound /\ UniqueKeys /\ FilesBacked

LEMMA RegistryInvHolds == Spec => []RegistryInv
  <1>1. Init => RegistryInv
    BY HInvInit, RowsSoundInit, KeysInit, BackedInit DEF RegistryInv
  <1>2. RegistryInv /\ [Next]_vars => RegistryInv'
    BY HInvStep, RowsSoundStep, KeysStep, BackedStep DEF RegistryInv
  <1> QED
    BY <1>1, <1>2, PTL DEF Spec

\* A QR image names the unit that has its serial number, unless the panel
\* touched one of them or the handler that wrote it failed (create_bess_unit,
\* update_bess_unit and generate_qr_code).
THEOREM ImagesNameTheirUnit == Spec => []QrNamesItsUnit
  <1>1. RegistryInv => QrNamesItsUnit
    <2> SUFFICES ASSUME RegistryInv, NEW i \in Id, rows[i].kind = "unit",
                        NEW s, s = rows[i].serial,
                        files[s] # NoFile, ~files[s].void,
                        {i, files[s].unit} \cap touched = {}
                 PROVE  files[s].unit = i
      BY DEF QrNamesItsUnit
    <2> USE DEF RegistryInv, HInv, TInv
    <2>1. rows[i] \in BESSUnit /\ IsRow(rows[i]) /\ s \in Serial
      BY UnitRow, UnitFacts
    <2>2. PICK k \in Id : k = files[s].unit
      BY <2>1 DEF TypeOK, QrFile
    <2>3. Claimed(i, rows[i]) /\ rows[i] \in Row
      BY <2>1, UnitFacts DEF Claimed
    <2>4. \E y \in Row : Claimed(k, y) /\ y.kind = "unit" /\ y.serial = s
      <3>1. CASE HasSerial(k, s)
        BY <3>1, UnitRow, UnitFacts DEF HasSerial, Claimed
      <3>2. CASE \E r \in Request : InsertsUnit(r, k, s)
        <4>1. PICK r \in Request : InsertsUnit(r, k, s)
          BY <3>2
        <4>2. req[r].unit \in BESSUnit
          BY <4>1, RequestByPc DEF InsertsUnit, TypeOK
        <4>3. OwnClaim(r, k, req[r].unit)
          BY <4>1 DEF InsertsUnit, OwnClaim, Registering
        <4> QED
          BY <4>1, <4>2, <4>3, UnitFacts DEF InsertsUnit, Claimed
      <3> QED
        BY <2>1, <2>2, <3>1, <3>2 DEF FilesBacked, BackedFile
    <2>5. PICK y \in Row : Claimed(k, y) /\ y.kind = "unit" /\ y.serial = s
      BY <2>4
    <2>6. Same(rows[i], y)
      BY <2>5 DEF Same, SameKey
    <2> QED
      BY <2>2, <2>3, <2>5, <2>6 DEF UniqueKeys
  <1> QED
    BY <1>1, RegistryInvHolds, PTL

----------------------------------------------------------------------------
(* What the QR images lead to, one handler at a time.                      *)

\* No two handlers run at once.
Single == ~Overlap => \A q, r \in Request : req[q] # Idle /\ req[r] # Idle => q = r

Updating(i) == \E r \in Request : req[r].pc = "written" /\ req[r].id = i

\* What an image leads to, of a unit that a shipment may have brought elsewhere.
Shows(file, unit) ==
    IF file.sited THEN file.public => unit.customer
    ELSE file.public = ProfileComplete(unit)

\* The image of unit i shows its profile, or that of the update under way.
ShowsProfile(i) ==
    rows[i].kind = "unit" =>
        LET file == files[rows[i].serial]
        IN  file.unit = i /\ ~file.void => Shows(file, rows[i]) \/ Updating(i)

\* What a handler wrote is still there.
HandlerSound(r) ==
    /\ Wrote(r) => /\ files[req[r].unit.serial].unit = req[r].id
                   /\ ~files[req[r].unit.serial].void
                   /\ ~files[req[r].unit.serial].sited
                   /\ files[req[r].unit.serial].public = ProfileComplete(req[r].unit)
    /\ req[r].pc \in {"loaded", "written"} =>
            req[r].id \in touched \/ rows[req[r].id] = req[r].was

ProfilesShown ==
    ~Overlap =>
        /\ \A i \in Id \ touched : ShowsProfile(i)
        /\ \A r \in Request : HandlerSound(r)

LEMMA ModeKept ==
    ASSUME [Next]_vars PROVE mode' = mode
  <1>1. ASSUME NEW r, NEW i, NEW x, CreateLook(r, x) \/ DeleteUnit(r, i) \/ UpdateLoad(r, i, x)
        PROVE  mode' = mode
    BY <1>1 DEF CreateLook, DeleteUnit, UpdateLoad
  <1>2. ASSUME NEW r, CreateInsert(r) \/ RegisterCheck(r) \/ RegisterInsert(r)
                      \/ RegisterCommit(r) \/ UpdateWrite(r) \/ UpdateCommit(r) \/ Fail(r)
        PROVE  mode' = mode
    BY <1>2 DEF CreateInsert, RegisterCheck, RegisterInsert, RegisterCommit, UpdateWrite,
                UpdateCommit, Fail
  <1>3. ASSUME NEW r, NEW unit, NEW regenerate, ResolveGiven(r, unit, regenerate)
        PROVE  mode' = mode
    BY <1>3 DEF ResolveGiven
  <1>4. ASSUME NEW r, NEW unit, NEW regenerate, NEW family,
               ResolveNamed(r, unit, regenerate, family)
        PROVE  mode' = mode
    BY <1>4 DEF ResolveNamed
  <1>5. ASSUME NEW r, NEW unit, NEW regenerate, NEW family,
               ResolveMissing(r, unit, regenerate, family)
        PROVE  mode' = mode
    BY <1>5 DEF ResolveMissing
  <1>6. ASSUME NEW r, Register(r) PROVE mode' = mode
    BY <1>3, <1>4, <1>5, <1>6 DEF Register
  <1>7. ASSUME NEW r, NEW s, NEW linked, AssignSiteLoad(r, s, linked) \/ AssignSiteCommit(r)
        PROVE  mode' = mode
    BY <1>7 DEF AssignSiteLoad, AssignSiteCommit
  <1>8. ASSUME NEW r, RequestNext(r) PROVE mode' = mode
    BY <1>1, <1>2, <1>6, <1>7, <1>8 DEF RequestNext, TransitionLoad
  <1>9. ASSUME PanelNext PROVE mode' = mode
    BY <1>9 DEF PanelNext, PanelSave, PanelDelete
  <1> QED
    BY <1>8, <1>9 DEF Next, vars

\* A step changes the state of one request, that had begun or begins.
Acts(r) ==
    /\ \A q \in Request \ {r} : req'[q] = req[q]
    /\ req[r] # Idle \/ Begins(r)

LEMMA SomeoneActs ==
    ASSUME TInv, Next
    PROVE  UNCHANGED req \/ \E r \in Request : Acts(r)
  <1>1. ASSUME NEW r \in Request, NEW state, Become(r, state), req[r] # Idle \/ Begins(r)
        PROVE  Acts(r)
    BY <1>1, BecomeFacts DEF Acts, TInv
  <1>2. ASSUME NEW r \in Request,
               \/ CreateInsert(r) \/ RegisterCheck(r) \/ RegisterInsert(r)
               \/ RegisterCommit(r) \/ UpdateWrite(r) \/ UpdateCommit(r) \/ Fail(r)
        PROVE  Acts(r)
    <2>1. req[r] # Idle
      BY <1>2 DEF CreateInsert, RegisterCheck, RegisterInsert, RegisterCommit, UpdateWrite,
                  UpdateCommit, Fail, Idle
    <2>2. \A q \in Request \ {r} : req'[q] = req[q]
      BY <1>2 DEF CreateInsert, RegisterCheck, RegisterInsert, RegisterCommit, UpdateWrite,
                  UpdateCommit, Fail, Become, TInv, TypeOK
    <2> QED
      BY <2>1, <2>2 DEF Acts
  <1>3. ASSUME NEW r \in Request, NEW x \in MasterForms, CreateLook(r, x) PROVE Acts(r)
    BY <1>1, <1>3 DEF CreateLook
  <1>4. ASSUME NEW r \in Request, NEW unit, NEW regenerate, ResolveGiven(r, unit, regenerate)
        PROVE  Acts(r)
    BY <1>1, <1>4 DEF ResolveGiven
  <1>5. ASSUME NEW r \in Request, NEW unit, NEW regenerate, NEW family,
               ResolveNamed(r, unit, regenerate, family)
        PROVE  Acts(r)
    <2>1. PICK state : Become(r, state)
      BY <1>5 DEF ResolveNamed
    <2>2. Begins(r)
      BY <1>5 DEF ResolveNamed
    <2> QED
      BY <1>1, <2>1, <2>2
  <1>6. ASSUME NEW r \in Request, NEW unit, NEW regenerate, NEW family,
               ResolveMissing(r, unit, regenerate, family)
        PROVE  Acts(r)
    <2>1. PICK state : Become(r, state)
      BY <1>6 DEF ResolveMissing
    <2>2. Begins(r)
      BY <1>6 DEF ResolveMissing
    <2> QED
      BY <1>1, <2>1, <2>2
  <1>7. ASSUME NEW r \in Request, NEW i, NEW new, UpdateLoad(r, i, new) PROVE Acts(r)
    BY <1>1, <1>7 DEF UpdateLoad
  <1>8. ASSUME NEW r \in Request, NEW i, DeleteUnit(r, i) PROVE UNCHANGED req
    BY <1>8 DEF DeleteUnit
  <1>9. ASSUME NEW i, \/ PanelDelete(i) \/ \E x : PanelSave(i, x) PROVE UNCHANGED req
    BY <1>9 DEF PanelDelete, PanelSave
  <1>10. ASSUME NEW r \in Request, NEW s, NEW linked, AssignSiteLoad(r, s, linked)
         PROVE  Acts(r)
    BY <1>1, <1>10 DEF AssignSiteLoad
  <1>11. ASSUME NEW r \in Request, AssignSiteCommit(r) PROVE Acts(r)
    BY <1>11, SitedRows DEF Acts, TInv, Idle
  <1> QED
    BY <1>2, <1>3, <1>4, <1>5, <1>6, <1>7, <1>8, <1>9, <1>10, <1>11, Steps DEF TInv

LEMMA SingleStep ==
    ASSUME TInv, Single, [Next]_vars
    PROVE  Single'
  <1>1. Overlap' = Overlap
    BY ModeKept DEF Overlap
  <1>2. CASE UNCHANGED req
    BY <1>1, <1>2 DEF Single
  <1>3. CASE \E r \in Request : Acts(r)
    <2>1. PICK r \in Request : Acts(r)
      BY <1>3
    <2>2. ~Overlap => \A q \in Request \ {r} : req[q] = Idle
      BY <2>1 DEF Acts, Begins, Single
    <2> QED
      BY <1>1, <2>1, <2>2 DEF Single, Acts
  <1> QED
    BY <1>2, <1>3, SomeoneActs DEF vars

\* The others are idle.
LEMMA OthersIdle ==
    ASSUME Single, ~Overlap, NEW r \in Request, req[r] # Idle \/ Begins(r)
    PROVE  \A q \in Request \ {r} : req[q] = Idle
  BY DEF Single, Begins

LEMMA IdleSound ==
    ASSUME NEW q \in Request, req'[q] = Idle
    PROVE  HandlerSound(q)'
  BY DEF HandlerSound, Wrote, Idle

\* A step that writes no image and changes no unit, of one handler that has
\* written none.
LEMMA ProfilesPlain ==
    ASSUME TInv, Single, ProfilesShown, ~Overlap, Overlap' = Overlap, NEW r \in Request,
           Acts(r), UNCHANGED files, touched \subseteq touched',
           req[r].pc # "written",
           \A i \in Id \ touched' :
                rows'[i] = rows[i] \/ (rows[i].kind # "unit" /\ rows'[i].kind # "unit"),
           HandlerSound(r)'
    PROVE  ProfilesShown'
  <1>1. \A q \in Request \ {r} : req[q] = Idle /\ req'[q] = Idle
    BY OthersIdle DEF Acts
  <1>2. \A q \in Request \ {r} : HandlerSound(q)'
    BY <1>1, IdleSound
  <1>3. \A i : ~Updating(i)
    BY <1>1 DEF Updating, Idle
  <1>4. ASSUME NEW i \in Id \ touched' PROVE ShowsProfile(i)'
    <2>1. CASE rows'[i] = rows[i]
      BY <1>3, <2>1 DEF ProfilesShown, ShowsProfile, Shows, ProfileComplete
    <2>2. CASE rows[i].kind # "unit" /\ rows'[i].kind # "unit"
      BY <2>2 DEF ShowsProfile
    <2> QED
      BY <2>1, <2>2
  <1> QED
    BY <1>2, <1>4 DEF ProfilesShown

\* One that has nothing to show afterwards.
LEMMA NothingWritten ==
    ASSUME NEW r \in Request,
           req'[r].pc \in {"idle", "creating", "resolved", "checked", "siting"}
    PROVE  HandlerSound(r)'
  BY DEF HandlerSound, Wrote

LEMMA ProfilesInsert ==
    ASSUME TInv, Single, ProfilesShown, ~Overlap, Overlap' = Overlap, NEW r \in Request,
           RegisterInsert(r)
    PROVE  ProfilesShown'
  <1>1. req[r].pc = "checked" /\ UNCHANGED touched
    BY DEF RegisterInsert
  <1>2. PICK unit \in BESSUnit : unit = req[r].unit
    BY <1>1, RegisteringType DEF Registering, TInv, TypeOK
  <1>3. req[r].regenerate \in BOOLEAN
    BY <1>1, RequestByPc DEF TInv, TypeOK
  <1>4. PICK k \in Id :
            /\ NextId(k) /\ rows' = [rows EXCEPT ![k] = Pending]
            /\ IF req[r].regenerate THEN WriteFile(unit, k) ELSE UNCHANGED files
            /\ Become(r, [pc |-> "inserted", unit |-> unit, fresh |-> req[r].fresh,
                          naming |-> req[r].naming, regenerate |-> req[r].regenerate,
                          id |-> k])
    BY <1>2 DEF RegisterInsert
  <1>5. /\ \A q \in Request \ {r} : req'[q] = req[q]
        /\ req'[r].pc = "inserted" /\ req'[r].unit = unit /\ req'[r].id = k
        /\ req'[r].regenerate = req[r].regenerate
    BY <1>4, BecomeFacts DEF TInv
  <1>6. Acts(r)
    BY <1>1, <1>5 DEF Acts, Idle
  <1>7. rows'[k] = Pending /\ rows[k] = Unused /\ \A i \in Id : i # k => rows'[i] = rows[i]
    BY <1>4 DEF TInv, TypeOK, NextId
  <1>8. CASE ~req[r].regenerate
    <2>1. HandlerSound(r)'
      BY <1>5, <1>8 DEF HandlerSound, Wrote
    <2>2. \A i \in Id \ touched' :
            rows'[i] = rows[i] \/ (rows[i].kind # "unit" /\ rows'[i].kind # "unit")
      BY <1>7, NotRows
    <2> QED
      BY <1>1, <1>4, <1>6, <1>8, <2>1, <2>2, ProfilesPlain
  <1>9. CASE req[r].regenerate
    <2>1. PICK s \in Serial : s = unit.serial
      BY UnitFacts
    <2>2. /\ files'[s].unit = k /\ ~files'[s].void
          /\ files'[s].public = ProfileComplete(unit) /\ ~files'[s].sited
          /\ \A t \in Serial \ {s} : files'[t] = files[t]
      BY <1>4, <1>9, <2>1, WriteFileFacts DEF TInv
    <2>3. HandlerSound(r)'
      BY <1>5, <2>1, <2>2 DEF HandlerSound, Wrote, ProfileComplete
    <2>4. \A q \in Request \ {r} : HandlerSound(q)'
      BY <1>5, <1>6, OthersIdle, IdleSound DEF Acts
    <2>5. \A i : ~Updating(i)
      BY <1>1, <1>6, OthersIdle DEF Updating, Acts, Idle
    <2>6. ASSUME NEW i \in Id \ touched', rows'[i].kind = "unit"
          PROVE  ShowsProfile(i)'
      <3>1. i # k /\ rows'[i] = rows[i]
        BY <1>7, <2>6, NotRows
      <3>2. CASE rows[i].serial = s
        BY <2>2, <3>1, <3>2 DEF ShowsProfile
      <3>3. CASE rows[i].serial # s
        <4>1. rows[i].serial \in Serial
          BY <2>6, <3>1, UnitRow, UnitFacts DEF TInv
        <4>2. files'[rows'[i].serial] = files[rows[i].serial]
          BY <2>2, <3>1, <3>3, <4>1
        <4> QED
          BY <1>1, <2>5, <3>1, <4>2 DEF ProfilesShown, ShowsProfile, Shows, ProfileComplete
      <3> QED
        BY <3>2, <3>3
    <2>7. \A i \in Id \ touched' : ShowsProfile(i)'
      BY <2>6 DEF ShowsProfile
    <2> QED
      BY <2>3, <2>4, <2>7 DEF ProfilesShown
  <1> QED
    BY <1>3, <1>8, <1>9

LEMMA ProfilesCommit ==
    ASSUME TInv, FilesBacked, Single, ProfilesShown, ~Overlap, Overlap' = Overlap,
           NEW r \in Request, RegisterCommit(r)
    PROVE  ProfilesShown'
  <1>1. /\ req'[r] = Idle /\ \A q \in Request \ {r} : req'[q] = req[q]
        /\ UNCHANGED <<files, touched>> /\ req[r].pc = "inserted"
    BY BecomeFacts DEF RegisterCommit, TInv
  <1>2. \A q \in Request \ {r} : req[q] = Idle
    BY <1>1, OthersIdle DEF Idle
  <1>3. \A q \in Request : HandlerSound(q)'
    BY <1>1, <1>2, IdleSound
  <1>4. PICK unit \in BESSUnit, k \in Id : unit = req[r].unit /\ k = req[r].id
    BY CommitRows
  <1>5. /\ rows[k] = Pending /\ rows'[k] = unit
        /\ \A i \in Id : \/ i = k
                         \/ rows'[i] = rows[i]
                         \/ rows'[i].kind = "model"
    BY <1>4, CommitRows
  <1>6. \A i : ~Updating(i)
    BY <1>1, <1>2 DEF Updating, Idle
  <1>7. ShowsProfile(k)' \/ k \in touched
    <2>1. CASE req[r].regenerate
      <3>1. Wrote(r) /\ HandlerSound(r)
        BY <1>1, <2>1 DEF Wrote, ProfilesShown
      <3>2. files'[unit.serial].public = ProfileComplete(unit) /\ ~files'[unit.serial].sited
        BY <1>1, <1>4, <3>1 DEF HandlerSound
      <3> QED
        BY <1>5, <3>2 DEF ShowsProfile, Shows, ProfileComplete
    <2>2. CASE ~req[r].regenerate /\ k \notin touched
      <3>1. PICK s \in Serial : s = unit.serial
        BY UnitFacts
      <3>2. ~HasSerial(k, s)
        BY <1>5, NotRows DEF HasSerial
      <3>3. \A q \in Request : ~InsertsUnit(q, k, s)
        BY <1>2, <2>2 DEF InsertsUnit, Idle
      <3>4. files[s].unit # k \/ files[s].void
        BY <2>2, <3>2, <3>3, IdFacts DEF FilesBacked, BackedFile, NoFile
      <3> QED
        BY <1>1, <1>5, <3>1, <3>4 DEF ShowsProfile
    <2> QED
      BY <2>1, <2>2
  <1>8. ASSUME NEW i \in Id \ touched', i # k
        PROVE  ShowsProfile(i)'
    <2>1. CASE rows'[i] = rows[i]
      BY <1>1, <1>6, <2>1 DEF ProfilesShown, ShowsProfile, Shows, ProfileComplete
    <2>2. CASE rows'[i].kind = "model"
      BY <2>2 DEF ShowsProfile
    <2> QED
      BY <1>5, <1>8, <2>1, <2>2
  <1> QED
    BY <1>1, <1>3, <1>7, <1>8 DEF ProfilesShown

LEMMA ProfilesWrite ==
    ASSUME TInv, Single, ProfilesShown, ~Overlap, Overlap' = Overlap, NEW r \in Request,
           UpdateWrite(r)
    PROVE  ProfilesShown'
  <1>1. /\ req[r] \in [pc : {"loaded", "written"}, id : Id, was : BESSUnit, unit : BESSUnit]
        /\ req[r].pc = "loaded"
    BY RequestByPc DEF UpdateWrite, TInv, TypeOK
  <1>2. PICK k \in Id, unit \in BESSUnit, s \in Serial :
            k = req[r].id /\ unit = req[r].unit /\ s = unit.serial
    BY <1>1, UnitFacts
  <1>3. /\ \A q \in Request \ {r} : req'[q] = req[q]
        /\ req'[r].pc = "written" /\ req'[r].unit = unit /\ req'[r].id = k
        /\ req'[r].was = req[r].was
    BY <1>1, <1>2, BecomeFacts DEF UpdateWrite, TInv
  <1>4. /\ files'[s].unit = k /\ ~files'[s].void
        /\ files'[s].public = ProfileComplete(unit) /\ ~files'[s].sited
        /\ \A t \in Serial \ {s} : files'[t] = files[t]
    BY <1>2, WriteFileFacts DEF UpdateWrite, TInv
  <1>5. \A q \in Request \ {r} : req[q] = Idle
    BY <1>1, OthersIdle DEF Idle
  <1>6. UNCHANGED <<rows, touched>>
    BY DEF UpdateWrite
  <1>7. HandlerSound(r)'
    BY <1>1, <1>2, <1>3, <1>4, <1>6 DEF ProfilesShown, HandlerSound, ProfileComplete
  <1>8. \A q \in Request : HandlerSound(q)'
    BY <1>3, <1>5, <1>7, IdleSound
  <1>9. \A i : ~Updating(i)
    BY <1>1, <1>5 DEF Updating, Idle
  <1>10. ASSUME NEW i \in Id \ touched', rows[i].kind = "unit" PROVE ShowsProfile(i)'
    <2>1. CASE i = k
      BY <1>3, <2>1 DEF ShowsProfile, Updating
    <2>2. CASE i # k /\ rows[i].serial = s
      BY <1>4, <1>6, <2>2 DEF ShowsProfile
    <2>3. CASE rows[i].serial # s
      <3>1. rows[i].serial \in Serial
        BY <1>10, UnitRow, UnitFacts DEF TInv
      <3>2. files'[rows'[i].serial] = files[rows[i].serial] /\ rows'[i] = rows[i]
        BY <1>4, <1>6, <2>3, <3>1
      <3> QED
        BY <1>6, <1>9, <3>2 DEF ProfilesShown, ShowsProfile, Shows, ProfileComplete
    <2> QED
      BY <2>1, <2>2, <2>3
  <1>11. \A i \in Id \ touched' : ShowsProfile(i)'
    BY <1>6, <1>10 DEF ShowsProfile
  <1> QED
    BY <1>8, <1>11 DEF ProfilesShown

LEMMA ProfilesUpdate ==
    ASSUME HInv, FilesBacked, Single, ProfilesShown, ~Overlap, Overlap' = Overlap,
           NEW r \in Request, UpdateCommit(r)
    PROVE  ProfilesShown'
  <1>1. /\ req[r] \in [pc : {"loaded", "written"}, id : Id, was : BESSUnit, unit : BESSUnit]
        /\ req[r].pc = "written" /\ UNCHANGED <<files, touched>>
    BY RequestByPc DEF UpdateCommit, HInv, TInv, TypeOK
  <1>2. req'[r] = Idle /\ \A q \in Request \ {r} : req'[q] = req[q]
    BY BecomeFacts DEF UpdateCommit, HInv, TInv
  <1>3. \A q \in Request \ {r} : req[q] = Idle
    BY <1>1, OthersIdle DEF Idle
  <1>4. \A q \in Request : HandlerSound(q)'
    BY <1>2, <1>3, IdleSound
  <1>5. PICK k \in Id, now \in BESSUnit, new \in BESSUnit :
            /\ k = req[r].id /\ rows[k] = now
            /\ rows' = [rows EXCEPT ![k] = new]
            /\ new.serial = now.serial
            /\ new.located = IF req[r].unit.located # req[r].was.located
                             THEN req[r].unit.located ELSE now.located
            /\ new.customer = IF req[r].unit.customer # req[r].was.customer
                              THEN req[r].unit.customer ELSE now.customer
    BY UpdateRow DEF HInv
  <1>6. rows'[k] = new /\ \A i \in Id : i # k => rows'[i] = rows[i]
    BY <1>5 DEF HInv, TInv, TypeOK
  <1>7. ASSUME k \notin touched PROVE ShowsProfile(k)'
    <2>1. HandlerSound(r) /\ Wrote(r)
      BY <1>1 DEF ProfilesShown, Wrote
    <2>2. now = req[r].was
      BY <1>1, <1>5, <1>7, <2>1 DEF HandlerSound
    <2>3. new.located = req[r].unit.located /\ new.customer = req[r].unit.customer
      BY <1>5, <2>2
    <2>4. new.serial = req[r].unit.serial
      BY <1>1, <1>5, <2>2 DEF HInv, LoadedSound
    <2>5. /\ files[req[r].unit.serial].public = ProfileComplete(req[r].unit)
          /\ ~files[req[r].unit.serial].sited
      BY <2>1 DEF HandlerSound
    <2>6. files'[new.serial].public = ProfileComplete(new) /\ ~files'[new.serial].sited
      BY <1>1, <2>3, <2>4, <2>5 DEF ProfileComplete
    <2> QED
      BY <1>6, <2>6 DEF ShowsProfile, Shows, ProfileComplete
  <1>8. ASSUME NEW i \in Id \ touched', i # k PROVE ShowsProfile(i)'
    <2>1. ~Updating(i)
      BY <1>3, <1>5, <1>8 DEF Updating, Idle
    <2> QED
      BY <1>1, <1>6, <1>8, <2>1 DEF ProfilesShown, ShowsProfile, Shows, ProfileComplete
  <1> QED
    BY <1>1, <1>4, <1>7, <1>8 DEF ProfilesShown

LEMMA ProfilesFail ==
    ASSUME TInv, FilesBacked, Single, ProfilesShown, ~Overlap, Overlap' = Overlap,
           NEW r \in Request, Fail(r)
    PROVE  ProfilesShown'
  <1>1. /\ req'[r] = Idle /\ \A q \in Request \ {r} : req'[q] = req[q]
        /\ UNCHANGED touched /\ req[r] # Idle
    BY BecomeFacts DEF Fail, TInv
  <1>2. \A q \in Request \ {r} : req[q] = Idle
    BY <1>1, OthersIdle
  <1>3. \A q \in Request : HandlerSound(q)'
    BY <1>1, <1>2, IdleSound
  <1>4. \A i \in Id : rows'[i] = rows[i] \/ rows'[i].kind # "unit"
    BY NotRows DEF Fail
  <1>5. ASSUME NEW i \in Id \ touched', rows'[i].kind = "unit"
        PROVE  ShowsProfile(i)'
    <2>1. rows'[i] = rows[i] /\ rows[i].kind = "unit"
      BY <1>4, <1>5
    <2>2. PICK s \in Serial : s = rows[i].serial
      BY <2>1, UnitRow, UnitFacts DEF TInv
    <2>3. CASE Wrote(r)
      <3>1. req[r].unit \in BESSUnit
        BY <2>3, RequestByPc DEF Wrote, TInv, TypeOK
      <3>2. PICK t \in Serial : t = req[r].unit.serial
        BY <3>1, UnitFacts
      <3>3. files[t] \in QrFile
        BY <2>3, <3>2 DEF TInv, TypeOK, ImagesWritten
      <3>4. files' = [files EXCEPT ![t] = [files[t] EXCEPT !.void = TRUE]]
        BY <2>3, <3>2 DEF Fail, Wrote
      <3>5. CASE s = t
        <4>1. files'[s].void
          BY <3>3, <3>4, <3>5 DEF TInv, TypeOK, QrFile
        <4> QED
          BY <2>1, <2>2, <4>1 DEF ShowsProfile
      <3>6. CASE s # t
        <4>1. files'[s] = files[s]
          BY <3>4, <3>6 DEF TInv, TypeOK
        <4>2. ~Updating(i)
          <5> SUFFICES ASSUME Updating(i) PROVE FALSE
            OBVIOUS
          <5>1. req[r].pc = "written" /\ req[r].id = i
            BY <1>2 DEF Updating, Idle
          <5>2. rows[i].serial = t
            BY <1>1, <1>5, <3>2, <5>1 DEF FilesBacked, LoadedUnit, HasSerial
          <5> QED
            BY <2>2, <3>6, <5>2
        <4> QED
          BY <1>1, <2>1, <2>2, <4>1, <4>2 DEF ProfilesShown, ShowsProfile, Shows, ProfileComplete
      <3> QED
        BY <3>5, <3>6
    <2>4. CASE ~Wrote(r)
      <3>1. UNCHANGED files
        BY <2>4 DEF Fail, Wrote
      <3>2. ~Updating(i)
        BY <1>2, <2>4 DEF Updating, Wrote, Idle
      <3> QED
        BY <1>1, <2>1, <3>1, <3>2 DEF ProfilesShown, ShowsProfile, Shows, ProfileComplete
    <2> QED
      BY <2>3, <2>4
  <1>6. \A i \in Id \ touched' : ShowsProfile(i)'
    BY <1>5 DEF ShowsProfile
  <1> QED
    BY <1>3, <1>6 DEF ProfilesShown

\* A step of the panel, while no handler runs, or of delete_bess_unit.
LEMMA ProfilesRows ==
    ASSUME Single, ProfilesShown, ~Overlap, Overlap' = Overlap,
           \A r \in Request : req[r] = Idle, UNCHANGED <<files, req>>,
           touched \subseteq touched',
           \A i \in Id \ touched' :
                \/ rows'[i] = rows[i]
                \/ /\ rows[i].kind = "unit" /\ rows'[i].kind = "unit"
                   /\ rows'[i].serial = rows[i].serial
                   /\ rows'[i].located = rows[i].located
                   /\ rows'[i].customer = rows[i].customer
    PROVE  ProfilesShown'
  <1>1. \A q \in Request : HandlerSound(q)'
    BY IdleSound
  <1>2. \A i : ~Updating(i)
    BY DEF Updating, Idle
  <1>3. \A i \in Id \ touched' : ShowsProfile(i)'
    BY <1>2 DEF ProfilesShown, ShowsProfile, Shows, ProfileComplete
  <1> QED
    BY <1>1, <1>3 DEF ProfilesShown

\* A site assigned to the shipment of units: nobody makes their images again.
LEMMA ProfilesSited ==
    ASSUME TInv, Single, ProfilesShown, ~Overlap, Overlap' = Overlap, NEW r \in Request,
           AssignSiteCommit(r)
    PROVE  ProfilesShown'
  <1>1. /\ req'[r] = Idle /\ req[r].pc = "siting" /\ UNCHANGED touched
        /\ \A q \in Request \ {r} : req'[q] = req[q]
    BY SitedRows DEF TInv, AssignSiteCommit
  <1>2. \A q \in Request \ {r} : req[q] = Idle
    BY <1>1, OthersIdle DEF Idle
  <1>3. \A q \in Request : HandlerSound(q)'
    BY <1>1, <1>2, IdleSound
  <1>4. \A i : ~Updating(i)
    BY <1>1, <1>2 DEF Updating, Idle
  <1>5. ASSUME NEW i \in Id \ touched', rows'[i].kind = "unit"
        PROVE  ShowsProfile(i)'
    <2>1. /\ rows[i].kind = "unit" /\ rows'[i].serial = rows[i].serial
          /\ rows'[i].customer = rows[i].customer
      BY <1>5, SitedRows, UnitFacts DEF TInv
    <2>2. PICK s \in Serial : s = rows[i].serial
      BY <2>1, UnitRow, UnitFacts DEF TInv
    <2>3. /\ files'[s] = NoFile <=> files[s] = NoFile
          /\ files'[s].unit = files[s].unit /\ files'[s].void = files[s].void
          /\ files'[s].public = files[s].public
          /\ files'[s] = files[s] \/ files'[s].sited
          /\ files[s] # NoFile => files'[s].sited \/ rows'[i].located = rows[i].located
      BY <2>1, <2>2, SitedImages DEF TInv
    <2>4. files[s].unit = i /\ ~files[s].void => Shows(files[s], rows[i])
      BY <1>1, <1>4, <2>1, <2>2 DEF ProfilesShown, ShowsProfile
    <2>5. files[s].unit = i => files[s] # NoFile
      BY IdFacts DEF NoFile
    <2>6. files'[s].unit = i /\ ~files'[s].void => Shows(files'[s], rows'[i])
      BY <2>1, <2>3, <2>4, <2>5 DEF Shows, ProfileComplete
    <2> QED
      BY <2>1, <2>2, <2>6 DEF ShowsProfile, Shows, ProfileComplete
  <1>6. \A i \in Id \ touched' : ShowsProfile(i)'
    BY <1>5 DEF ShowsProfile
  <1> QED
    BY <1>3, <1>6 DEF ProfilesShown

LEMMA ProfilesStep ==
    ASSUME HInv, FilesBacked, Single, ProfilesShown, [Next]_vars
    PROVE  ProfilesShown'
  <1> USE DEF HInv, TInv
  <1> SUFFICES ASSUME ~Overlap, Overlap' = Overlap PROVE ProfilesShown'
    <2>1. Overlap' = Overlap
      BY ModeKept DEF Overlap
    <2> QED
      BY <2>1 DEF ProfilesShown
  <1>1. ASSUME NEW r \in Request, NEW x \in MasterForms, CreateLook(r, x)
        PROVE  ProfilesShown'
    <2>1. /\ req'[r].pc = "creating" /\ req[r] = Idle /\ Begins(r)
          /\ UNCHANGED <<files, rows, touched>>
          /\ \A q \in Request \ {r} : req'[q] = req[q]
      BY <1>1, BecomeFacts DEF CreateLook, Begins
    <2> QED
      BY <2>1, ProfilesPlain, NothingWritten DEF Acts, Idle
  <1>2. ASSUME NEW r \in Request, CreateInsert(r)
        PROVE  ProfilesShown'
    <2>1. /\ req'[r] = Idle /\ req[r].pc = "creating" /\ UNCHANGED <<files, touched>>
          /\ \A q \in Request \ {r} : req'[q] = req[q]
      BY <1>2, BecomeFacts DEF CreateInsert
    <2>2. PICK i \in Id : NextId(i) /\ rows' = [rows EXCEPT ![i] = req[r].row]
      BY <1>2 DEF CreateInsert
    <2>3. req[r].row.kind # "unit"
      <3>1. req[r].row \in MasterRow
        BY <2>1, RequestByPc DEF TypeOK
      <3> QED
        BY <3>1 DEF MasterRow, Country, State, City, Warehouse, Site, ProductModel
    <2>4. /\ \A j \in Id : j # i => rows'[j] = rows[j]
          /\ rows'[i].kind # "unit" /\ rows[i].kind # "unit"
      BY <2>2, <2>3, NotRows DEF TypeOK, NextId
    <2> QED
      BY <2>1, <2>4, ProfilesPlain, NothingWritten DEF Acts, Idle
  <1>3. ASSUME NEW r \in Request, NEW regenerate \in BOOLEAN,
               NEW unit \in UnitForms(Rows("model")), ResolveGiven(r, unit, regenerate)
        PROVE  ProfilesShown'
    <2>1. /\ req'[r].pc = "resolved" /\ req[r] = Idle /\ Begins(r)
          /\ UNCHANGED <<files, rows, touched>>
          /\ \A q \in Request \ {r} : req'[q] = req[q]
      BY <1>3, BecomeFacts DEF ResolveGiven, Begins
    <2> QED
      BY <2>1, ProfilesPlain, NothingWritten DEF Acts, Idle
  <1>4. ASSUME NEW r \in Request, NEW regenerate \in BOOLEAN, NEW family \in Family,
               NEW unit \in UnitForms(Rows("model")),
               ResolveNamed(r, unit, regenerate, family)
        PROVE  ProfilesShown'
    <2>1. /\ req'[r].pc = "resolved" /\ req[r] = Idle /\ Begins(r)
          /\ UNCHANGED <<files, rows, touched>>
          /\ \A q \in Request \ {r} : req'[q] = req[q]
      BY <1>4, BecomeFacts DEF ResolveNamed, Begins
    <2> QED
      BY <2>1, ProfilesPlain, NothingWritten DEF Acts, Idle
  <1>5. ASSUME NEW r \in Request, NEW regenerate \in BOOLEAN, NEW i \in Id,
               NEW family \in Family, NEW unit \in UnitForms({i}),
               ResolveMissing(r, unit, regenerate, family)
        PROVE  ProfilesShown'
    <2>1. /\ req'[r].pc = "resolved" /\ req[r] = Idle /\ Begins(r)
          /\ UNCHANGED <<files, touched>>
          /\ \A q \in Request \ {r} : req'[q] = req[q]
      BY <1>5, BecomeFacts DEF ResolveMissing, Begins
    <2>2. NextId(i) /\ rows' = [rows EXCEPT ![i] = Pending]
      BY <1>5 DEF ResolveMissing, UnitForms
    <2>3. /\ \A j \in Id : j # i => rows'[j] = rows[j]
          /\ rows'[i].kind # "unit" /\ rows[i].kind # "unit"
      BY <2>2, NotRows DEF TypeOK, NextId
    <2> QED
      BY <2>1, <2>3, ProfilesPlain, NothingWritten DEF Acts, Idle
  <1>6. ASSUME NEW r \in Request, RegisterCheck(r)
        PROVE  ProfilesShown'
    <2>1. req[r] \in [pc : {"resolved", "checked"}, unit : BESSUnit, fresh : BOOLEAN,
                      naming : ProductModel \cup {NoModel}, regenerate : BOOLEAN]
      BY <1>6, RequestByPc DEF RegisterCheck, TypeOK
    <2>2. /\ req'[r].pc = "checked" /\ req[r].pc = "resolved"
          /\ UNCHANGED <<files, rows, touched>>
          /\ \A q \in Request \ {r} : req'[q] = req[q]
      BY <1>6, <2>1, BecomeFacts DEF RegisterCheck
    <2> QED
      BY <2>2, ProfilesPlain, NothingWritten DEF Acts, Idle
  <1>7. ASSUME NEW r \in Request, NEW i \in Id, NEW new \in BESSUnit,
               UpdateLoad(r, i, new)
        PROVE  ProfilesShown'
    <2>1. /\ req'[r] = [pc |-> "loaded", id |-> i, was |-> rows[i], unit |-> new]
          /\ req[r] = Idle /\ Begins(r) /\ UNCHANGED <<files, rows, touched>>
          /\ \A q \in Request \ {r} : req'[q] = req[q]
      BY <1>7, BecomeFacts DEF UpdateLoad, Begins
    <2>2. HandlerSound(r)'
      BY <2>1 DEF HandlerSound, Wrote
    <2> QED
      BY <2>1, <2>2, ProfilesPlain DEF Acts, Idle
  <1>8. ASSUME NEW r \in Request, NEW i \in Id, DeleteUnit(r, i)
        PROVE  ProfilesShown'
    <2>1. /\ rows[i].kind = "unit" /\ UNCHANGED <<files, req, touched>> /\ Begins(r)
          /\ req[r] = Idle
      BY <1>8 DEF DeleteUnit, Begins
    <2>2. rows[i] \in BESSUnit
      BY <2>1, UnitRow
    <2>3. PICK new \in BESSUnit :
              /\ rows' = [rows EXCEPT ![i] = new] /\ new.serial = rows[i].serial
              /\ \A c \in (DOMAIN rows[i]) \ {"deleted"} : new[c] = rows[i][c]
      BY <1>8, DeletedUnit DEF DeleteUnit
    <2>4. {"located", "customer"} \subseteq (DOMAIN rows[i]) \ {"deleted"}
      BY <2>2 DEF BESSUnit
    <2>5. new["located"] = rows[i]["located"] /\ new["customer"] = rows[i]["customer"]
      BY <2>3, <2>4
    <2>6. rows'[i] = new /\ \A j \in Id : j # i => rows'[j] = rows[j]
      BY <2>3 DEF TypeOK
    <2>7. \A j \in Id \ touched' :
            \/ rows'[j] = rows[j]
            \/ /\ rows[j].kind = "unit" /\ rows'[j].kind = "unit"
               /\ rows'[j].serial = rows[j].serial
               /\ rows'[j].located = rows[j].located
               /\ rows'[j].customer = rows[j].customer
      BY <2>1, <2>3, <2>5, <2>6, UnitFacts
    <2> QED
      BY <2>1, <2>7, OthersIdle, ProfilesRows
  <1>9. ASSUME NEW i \in Id,
               \/ PanelDelete(i)
               \/ \E x \in MasterForms \cup UnitForms(Rows("model")) : PanelSave(i, x)
        PROVE  ProfilesShown'
    <2>1. /\ UNCHANGED <<files, req>> /\ touched' = touched \cup {i}
          /\ \A r \in Request : req[r] = Idle
          /\ \A j \in Id : j # i => rows'[j] = rows[j]
      BY <1>9 DEF PanelDelete, PanelSave, Edits, TypeOK
    <2> QED
      BY <2>1, ProfilesRows
  <1>10. ASSUME UNCHANGED vars
         PROVE  ProfilesShown'
    <2>1. \A i : ShowsProfile(i)' <=> ShowsProfile(i)
      BY <1>10 DEF vars, ShowsProfile, Shows, Updating, ProfileComplete
    <2>2. \A r : HandlerSound(r)' <=> HandlerSound(r)
      BY <1>10 DEF vars, HandlerSound, Wrote, ProfileComplete
    <2> QED
      BY <1>10, <2>1, <2>2 DEF ProfilesShown, vars
  <1>11. ASSUME NEW r \in Request,
                \E s \in Id, linked \in SUBSET Rows("unit") : AssignSiteLoad(r, s, linked)
         PROVE  ProfilesShown'
    <2>1. /\ req'[r].pc = "siting" /\ req[r] = Idle /\ Begins(r)
          /\ UNCHANGED <<files, rows, touched>>
          /\ \A q \in Request \ {r} : req'[q] = req[q]
      BY <1>11, BecomeFacts DEF AssignSiteLoad, Begins
    <2> QED
      BY <2>1, ProfilesPlain, NothingWritten DEF Acts, Idle
  <1> QED
    BY <1>1, <1>2, <1>3, <1>4, <1>5, <1>6, <1>7, <1>8, <1>9, <1>10, <1>11, Steps,
       ProfilesInsert, ProfilesCommit, ProfilesWrite, ProfilesUpdate, ProfilesSited,
       ProfilesFail

\* With one handler at a time, the image of a unit leads to the public page if
\* and only if the unit's profile is complete (create_bess_unit,
\* update_bess_unit, transition_stage), unless a site assigned to its shipment
\* has changed where it is since (assign_shipment_site): then it leads there for a
\* unit with a customer only.
THEOREM ImagesShowProfiles == Spec => []QrShowsProfile
  <1>1. Init => RegistryInv /\ Single /\ ProfilesShown
    <2> SUFFICES ASSUME Init PROVE RegistryInv /\ Single /\ ProfilesShown
      OBVIOUS
    <2>1. RegistryInv
      BY HInvInit, RowsSoundInit, KeysInit, BackedInit DEF RegistryInv
    <2>2. Single
      BY DEF Init, Single
    <2>3. \A i \in Id : rows[i].kind # "unit"
      BY SeedFacts DEF IsRow
    <2>4. \A i \in Id : ShowsProfile(i)
      BY <2>3 DEF ShowsProfile
    <2>5. \A r \in Request : HandlerSound(r)
      BY DEF Init, HandlerSound, Wrote, Idle
    <2> QED
      BY <2>1, <2>2, <2>4, <2>5 DEF ProfilesShown
  <1>2. RegistryInv /\ Single /\ ProfilesShown /\ [Next]_vars
            => (RegistryInv /\ Single /\ ProfilesShown)'
    BY HInvStep, RowsSoundStep, KeysStep, BackedStep, SingleStep, ProfilesStep
       DEF RegistryInv, HInv
  <1>3. ProfilesShown => QrShowsProfile
    BY DEF ProfilesShown, ShowsProfile, Shows, Updating, QrShowsProfile, Idle
  <1> QED
    BY <1>1, <1>2, <1>3, PTL DEF Spec
=============================================================================
