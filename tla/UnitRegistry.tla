---------------------------- MODULE UnitRegistry ----------------------------
(***************************************************************************)
(* The master data and the registration of units: app/domains/master, the  *)
(* three registrations, update_bess_unit and the QR image of               *)
(* transition_stage in app/domains/bess_unit, assign_shipment_site of      *)
(* app/domains/shipment, the forms of app/admin.py for these tables and    *)
(* the QR images on disk.                                                  *)
(*                                                                         *)
(* A handler looks for what it is about to insert and inserts it later, so *)
(* two of them meet at the constraints, where there are any.  A            *)
(* registration may insert or rename a product model in the transaction    *)
(* that inserts its unit, and it writes the unit's QR image before that    *)
(* transaction commits.                                                    *)
(*                                                                         *)
(* Left out: the rows of the audit log, a unit's stage and the shipments   *)
(* (see BessLifecycle), its warehouse, its dates and its photo.            *)
(***************************************************************************)
EXTENDS FiniteSets, Naturals

CONSTANTS
    MaxId,      \* bound: the rows that are ever inserted, uncommitted ones too
    Name,       \* names of places; a site's name and address
    Code,       \* country codes
    Family,     \* product models, whether spelled HESS or UESS
    Serial,     \* serial numbers
    Seeded,     \* the rows at the start: what scripts/seed.py leaves, and older models
    Request,    \* the API requests in flight at a time
    Modes,      \* how a behaviour may go: see mode
    MaxEdits    \* bound: changes made in the panel

\* All tables take their ids from one sequence here; 0 is the missing reference.
Id == 1..MaxId
None == 0

Spelling == {"HESS", "UESS"}

\* located: it has an address with coordinates.  customer: it has one.
Country == [kind : {"country"}, name : Name, code : Code]
State == [kind : {"state"}, name : Name, country : Id]
City == [kind : {"city"}, name : Name, country : Id, state : Id \cup {None}]
Warehouse == [kind : {"warehouse"}, name : Name, city : Id]
Site == [kind : {"site"}, name : Name, country : Id, city : Id, located : BOOLEAN]
ProductModel == [kind : {"model"}, family : Family, spelling : Spelling]

BESSUnit ==
    [kind : {"unit"}, serial : Serial, model : Id, country : Id,
     state : Id \cup {None}, city : Id, located : BOOLEAN, customer : BOOLEAN,
     deleted : BOOLEAN]

\* create_product_model normalises the name it is given.
MasterRow ==
    Country \cup State \cup City \cup Warehouse \cup Site \cup ProductModel

Row == MasterRow \cup BESSUnit

\* Instead of a row: an id not handed out, one whose row is not committed, and
\* one whose row was rolled back or deleted.
Unused == [kind |-> "unused"]
Pending == [kind |-> "pending"]
Gone == [kind |-> "gone"]

IsRow(x) == x.kind \notin {"unused", "pending", "gone"}

Kind == {"country", "state", "city", "warehouse", "site", "model", "unit"}
Profile == [located : BOOLEAN, customer : BOOLEAN]

ASSUME RegistryAssumption ==
    /\ MaxId \in Nat
    /\ Seeded \in [Id -> MasterRow \cup {Unused}]
    /\ \A i \in Id : Seeded[i] = Unused => \A j \in Id : i <= j => Seeded[j] = Unused
    /\ Modes \subseteq [overlap : BOOLEAN, kinds : SUBSET Kind, names : SUBSET Name,
                        profiles : SUBSET Profile]
    /\ IsFiniteSet(Request)
    /\ MaxEdits \in Nat

VARIABLES
    rows,       \* [Id -> the row, or what is there instead]
    files,      \* [Serial -> the QR image of that name, or NoFile]
    req,        \* [Request -> the state of the handler it runs]
    touched,    \* the ids whose row was saved or deleted in the panel, or is a
                \* product model that had the old spelling at the start
    edits,      \* how often the panel did
    mode        \* whether handlers run at the same time in this behaviour, and,
                \* as bounds, what they create, its names and the units' profiles

vars == <<rows, files, req, touched, edits, mode>>

Overlap == mode.overlap

----------------------------------------------------------------------------

\* unit: the id in the image.  public: whether it leads to the public page.
\* void: the transaction that wrote it was rolled back.  sited: since it was made,
\* a site assigned to the shipment has changed whether the unit is located.
NoFile == [unit |-> None, public |-> FALSE, void |-> FALSE, sited |-> FALSE]
QrFile == [unit : Id, public : BOOLEAN, void : BOOLEAN, sited : BOOLEAN]

\* _is_bess_profile_complete.
ProfileComplete(unit) == unit.located /\ unit.customer

WriteFile(unit, i) ==
    files' = [files EXCEPT ![unit.serial] =
                 [unit |-> i, public |-> ProfileComplete(unit), void |-> FALSE,
                  sited |-> FALSE]]

Idle == [pc |-> "idle"]
NoModel == [kind |-> "no model"]

\* naming: the product model as this transaction inserted or renamed it.  id:
\* the unit's, once it is inserted.  was: the unit as it was loaded, or every unit
\* of a shipment, and Unused instead of what is none of them.
RequestState ==
    {Idle}
    \cup [pc : {"creating"}, row : MasterRow]
    \cup [pc : {"resolved", "checked"}, unit : BESSUnit, fresh : BOOLEAN,
          naming : ProductModel \cup {NoModel}, regenerate : BOOLEAN]
    \cup [pc : {"inserted"}, unit : BESSUnit, fresh : BOOLEAN,
          naming : ProductModel \cup {NoModel}, regenerate : BOOLEAN, id : Id]
    \cup [pc : {"loaded", "written"}, id : Id, was : BESSUnit, unit : BESSUnit]
    \cup [pc : {"siting"}, site : Site, was : [Id -> BESSUnit \cup {Unused}]]

Become(r, state) == req' = [req EXCEPT ![r] = state]

Begins(r) == req[r] = Idle /\ (Overlap \/ \A q \in Request : req[q] = Idle)

Registering(state) == state.pc \in {"resolved", "checked", "inserted"}

\* What a request has written and not committed.
Uncommitted(r) ==
    (IF Registering(req[r]) THEN {req[r].naming} \ {NoModel} ELSE {})
    \cup (IF req[r].pc = "inserted" THEN {req[r].unit} ELSE {})

\* The unique columns: countries.name and code, uq_state_country,
\* uq_city_country, model_number, serial_number.
SameKey(x, y) ==
    \/ x.kind = "country" /\ (x.name = y.name \/ x.code = y.code)
    \/ x.kind \in {"state", "city"} /\ x.name = y.name /\ x.country = y.country
    \/ x.kind = "model" /\ x.family = y.family /\ x.spelling = y.spelling
    \/ x.kind = "unit" /\ x.serial = y.serial

SameLive(x, y) == x.kind = y.kind /\ SameKey(x, y) /\ (x.kind = "unit" => ~y.deleted)

\* Deleted units count.
Same(x, y) == x.kind = y.kind /\ SameKey(x, y)

SameSite(x, y) ==
    /\ x.kind = "site"
    /\ y.kind = "site"
    /\ x.name = y.name
    /\ x.city = y.city

\* Whether a constraint keeps request r from writing x under id i: another row
\* forbids it, or the outcome of another request has to be awaited.
Taken(x, i, r) ==
    \/ \E j \in Id \ {i} : IsRow(rows[j]) /\ Same(x, rows[j])
    \/ \E q \in Request \ {r} : \E y \in Uncommitted(q) : Same(x, y)

Columns(x) == DOMAIN x \cap {"country", "state", "city", "model"}

\* At the start there is no state, no site and no unit.
ASSUME SeedAssumption ==
    \A i \in Id : IsRow(Seeded[i]) =>
        /\ Seeded[i].kind \in {"country", "city", "warehouse", "model"}
        /\ Seeded[i].kind = "city" => Seeded[i].state = None
        /\ \A c \in Columns(Seeded[i]) \ {"state"} : Seeded[Seeded[i][c]].kind = c
        /\ \A j \in Id \ {i} : IsRow(Seeded[j]) => ~Same(Seeded[i], Seeded[j])

\* The foreign keys: what x refers to exists, own being what its transaction
\* inserted besides.
RefersToRows(x, own) ==
    \A c \in Columns(x) :
        \/ x[c] # None /\ rows[x[c]].kind = c
        \/ c = "state" /\ x[c] = None
        \/ c = "model" /\ x[c] \in own

RefersToNothing(x, i) == FALSE

RefersTo(x, i) == \E c \in Columns(x) : x[c] = i

\* A row that an uncommitted transaction refers to, or has renamed, is locked.
Locked(i) ==
    \E r \in Request :
        /\ Registering(req[r])
        /\ \/ req[r].naming # NoModel /\ req[r].unit.model = i
           \/ (req[r].pc = "inserted" /\ RefersTo(req[r].unit, i))

NextId(i) == rows[i] = Unused /\ \A j \in Id : j < i => rows[j] # Unused

AnywhereNested(x) == TRUE

\* create_city and create_site compare what they were given; create_bess_unit
\* compares the state, and leaves the city as it is.
Nested(x) ==
    /\ x.kind \in {"city", "unit"} /\ x.state # None => rows[x.state].country = x.country
    /\ x.kind = "site" => rows[x.city].country = x.country

----------------------------------------------------------------------------

Init ==
    /\ rows \in {[i \in Id |-> Unused], Seeded}
    /\ files = [s \in Serial |-> NoFile]
    /\ req = [r \in Request |-> Idle]
    /\ touched = {i \in Id : rows[i].kind = "model" /\ rows[i].spelling = "HESS"}
    /\ edits = 0
    /\ mode \in Modes

----------------------------------------------------------------------------
(* create_country, create_state, create_city, create_warehouse,            *)
(* create_site and create_product_model.                                   *)

AsTyped(x) == x

\* normalize_hess_to_uess.
Normalized(x) == IF x.kind = "model" THEN [x EXCEPT !.spelling = "UESS"] ELSE x

FoundByKey(x) == \E i \in Id : IsRow(rows[i]) /\ Same(Normalized(x), rows[i])

\* Whether a handler finds what it is about to create.  Nobody looks for a
\* warehouse.
Found(x) ==
    \E i \in Id : IsRow(rows[i]) /\ (Same(Normalized(x), rows[i]) \/ SameSite(x, rows[i]))

CreateLook(r, x) ==
    /\ Begins(r)
    /\ RefersToRows(x, {})
    /\ Nested(x)
    /\ ~Found(x)
    /\ Become(r, [pc |-> "creating", row |-> Normalized(x)])
    /\ UNCHANGED <<rows, files, touched, edits, mode>>

CreateInsert(r) ==
    /\ req[r].pc = "creating"
    /\ RefersToRows(req[r].row, {})
    /\ ~Taken(req[r].row, None, r)
    /\ \E i \in Id :
        /\ NextId(i)
        /\ rows' = [rows EXCEPT ![i] = req[r].row]
    /\ Become(r, Idle)
    /\ UNCHANGED <<files, touched, edits, mode>>

----------------------------------------------------------------------------
(* create_bess_unit, register_bess_from_qr and register_bess_from_photo.   *)

\* The product model by its id, by create_bess_unit or whoever names it.
ResolveGiven(r, unit, regenerate) ==
    /\ Begins(r)
    /\ rows[unit.model].kind = "model"
    /\ Become(r, [pc |-> "resolved", unit |-> unit, fresh |-> FALSE, naming |-> NoModel,
                  regenerate |-> regenerate])
    /\ UNCHANGED <<rows, files, touched, edits, mode>>

\* By the name in the QR code or on the photo: any row of either spelling, which
\* is renamed when it has the old one.
ResolveNamed(r, unit, regenerate, family) ==
    /\ Begins(r)
    /\ rows[unit.model].kind = "model"
    /\ rows[unit.model].family = family
    /\ LET new == Normalized(rows[unit.model])
           renames == new # rows[unit.model]
       IN  /\ renames => ~Taken(new, unit.model, r) /\ ~Locked(unit.model)
           /\ Become(r, [pc |-> "resolved", unit |-> unit, fresh |-> FALSE,
                         naming |-> IF renames THEN new ELSE NoModel,
                         regenerate |-> regenerate])
    /\ UNCHANGED <<rows, files, touched, edits, mode>>

ResolveMissingAtOnce(r, unit, regenerate, family) ==
    LET new == [kind |-> "model", family |-> family, spelling |-> "UESS"]
    IN  /\ Begins(r)
        /\ \A i \in Id : rows[i].kind = "model" => rows[i].family # family
        /\ ~Taken(new, None, r)
        /\ NextId(unit.model)
        /\ rows' = [rows EXCEPT ![unit.model] = new]
        /\ Become(r, [pc |-> "resolved", unit |-> unit, fresh |-> FALSE,
                      naming |-> NoModel, regenerate |-> regenerate])
        /\ UNCHANGED <<files, touched, edits, mode>>

\* Without such a row the model is inserted, when the capacity can be read.
ResolveMissing(r, unit, regenerate, family) ==
    LET new == [kind |-> "model", family |-> family, spelling |-> "UESS"]
    IN  /\ Begins(r)
        /\ \A i \in Id : rows[i].kind = "model" => rows[i].family # family
        /\ ~Taken(new, None, r)
        /\ NextId(unit.model)
        /\ rows' = [rows EXCEPT ![unit.model] = Pending]
        /\ Become(r, [pc |-> "resolved", unit |-> unit, fresh |-> TRUE, naming |-> new,
                      regenerate |-> regenerate])
        /\ UNCHANGED <<files, touched, edits, mode>>

Own(r) == IF req[r].fresh THEN {req[r].unit.model} ELSE {}

\* get_by_serial looks among the units that are not deleted.
RegisterCheck(r) ==
    /\ req[r].pc = "resolved"
    /\ RefersToRows(req[r].unit, Own(r))
    /\ Nested(req[r].unit)
    /\ \A i \in Id :
        rows[i].kind = "unit" /\ ~rows[i].deleted => rows[i].serial # req[r].unit.serial
    /\ Become(r, [req[r] EXCEPT !.pc = "checked"])
    /\ UNCHANGED <<rows, files, touched, edits, mode>>

\* The INSERT gives the id that the QR image names.
RegisterInsert(r) ==
    /\ req[r].pc = "checked"
    /\ RefersToRows(req[r].unit, Own(r))
    /\ ~Taken(req[r].unit, None, r)
    /\ \E i \in Id :
        /\ NextId(i)
        /\ rows' = [rows EXCEPT ![i] = Pending]
        /\ IF req[r].regenerate THEN WriteFile(req[r].unit, i) ELSE UNCHANGED files
        /\ Become(r, [pc |-> "inserted", unit |-> req[r].unit, fresh |-> req[r].fresh,
                      naming |-> req[r].naming, regenerate |-> req[r].regenerate,
                      id |-> i])
    /\ UNCHANGED <<touched, edits, mode>>

RegisterCommit(r) ==
    /\ req[r].pc = "inserted"
    /\ rows' = [i \in Id |->
                   IF i = req[r].id THEN req[r].unit
                   ELSE IF i = req[r].unit.model /\ req[r].naming # NoModel
                        THEN req[r].naming
                        ELSE rows[i]]
    /\ Become(r, Idle)
    /\ UNCHANGED <<files, touched, edits, mode>>

----------------------------------------------------------------------------
(* update_bess_unit, transition_stage and delete_bess_unit.                *)

\* No rule binds the new place, but the foreign keys.
UpdateLoad(r, i, new) ==
    /\ Begins(r)
    /\ rows[i].kind = "unit"
    /\ ~rows[i].deleted
    /\ new = [rows[i] EXCEPT !.country = new.country, !.state = new.state,
                             !.city = new.city, !.located = new.located,
                             !.customer = new.customer]
    /\ Become(r, [pc |-> "loaded", id |-> i, was |-> rows[i], unit |-> new])
    /\ UNCHANGED <<rows, files, touched, edits, mode>>

\* transition_stage makes the image from the unit it loaded, and changes nothing
\* else that is modelled here.
TransitionLoad(r, i) == UpdateLoad(r, i, rows[i])

UpdateWriteAsWas(r) ==
    /\ req[r].pc = "loaded"
    /\ WriteFile(req[r].was, req[r].id)
    /\ Become(r, [req[r] EXCEPT !.pc = "written"])
    /\ UNCHANGED <<rows, touched, edits, mode>>

\* The image is made from the handler's own copy.
UpdateWrite(r) ==
    /\ req[r].pc = "loaded"
    /\ WriteFile(req[r].unit, req[r].id)
    /\ Become(r, [req[r] EXCEPT !.pc = "written"])
    /\ UNCHANGED <<rows, touched, edits, mode>>

\* The row after an UPDATE, which sends the columns that differ from what was
\* loaded.
Updated(now, was, unit) ==
    [c \in DOMAIN now |-> IF unit[c] # was[c] THEN unit[c] ELSE now[c]]

UpdateCommit(r) ==
    /\ req[r].pc = "written"
    /\ rows[req[r].id].kind = "unit"
    /\ LET new == Updated(rows[req[r].id], req[r].was, req[r].unit)
       IN  /\ RefersToRows(new, {})
           /\ rows' = [rows EXCEPT ![req[r].id] = new]
    /\ Become(r, Idle)
    /\ UNCHANGED <<files, touched, edits, mode>>

DeleteUnit(r, i) ==
    /\ Begins(r)
    /\ rows[i].kind = "unit"
    /\ ~rows[i].deleted
    /\ rows' = [rows EXCEPT ![i].deleted = TRUE]
    /\ UNCHANGED <<files, req, touched, edits, mode>>

----------------------------------------------------------------------------
(* assign_shipment_site, of a shipment that units are linked to.           *)

\* The site, the items and with them their units are loaded; linked units that
\* are deleted stay as they are.
AssignSiteLoad(r, s, linked) ==
    /\ Begins(r)
    /\ rows[s].kind = "site"
    /\ Become(r, [pc |-> "siting", site |-> rows[s],
                  was |-> [i \in Id |-> IF i \in linked /\ ~rows[i].deleted
                                        THEN rows[i] ELSE Unused]])
    /\ UNCHANGED <<rows, files, touched, edits, mode>>

Sited(i, r) ==
    LET was == req[r].was[i]
        unit == [was EXCEPT !.country = req[r].site.country, !.city = req[r].site.city,
                            !.located = req[r].site.located]
    IN  IF IsRow(was) THEN Updated(rows[i], was, unit) ELSE rows[i]

\* Every unit gets the country, the city and the address of the site.  Nobody
\* writes the QR images.
AssignSiteCommit(r) ==
    /\ req[r].pc = "siting"
    /\ \A i \in Id : IsRow(req[r].was[i]) =>
        rows[i].kind = "unit" /\ RefersToRows(Sited(i, r), {})
    /\ rows' = [i \in Id |-> Sited(i, r)]
    /\ LET moved == {i \in Id : IsRow(req[r].was[i])
                                  /\ Sited(i, r).located # rows[i].located}
       IN  files' = [s \in Serial |->
                        IF files[s] # NoFile /\ \E i \in moved : rows[i].serial = s
                        THEN [files[s] EXCEPT !.sited = TRUE] ELSE files[s]]
    /\ Become(r, Idle)
    /\ UNCHANGED <<touched, edits, mode>>

----------------------------------------------------------------------------

\* The rows that only request r sees.
Inserted(r) ==
    IF Registering(req[r])
    THEN Own(r) \cup (IF req[r].pc = "inserted" THEN {req[r].id} ELSE {})
    ELSE {}

\* The handler refuses, or fails: what it wrote in the database is rolled back,
\* the QR image stays.
Fail(r) ==
    /\ req[r] # Idle
    /\ rows' = [i \in Id |-> IF i \in Inserted(r) THEN Gone ELSE rows[i]]
    /\ IF req[r].pc = "written" \/ (req[r].pc = "inserted" /\ req[r].regenerate)
       THEN files' = [files EXCEPT ![req[r].unit.serial].void = TRUE]
       ELSE UNCHANGED files
    /\ Become(r, Idle)
    /\ UNCHANGED <<touched, edits, mode>>

----------------------------------------------------------------------------
(* The forms of the panel, which has nothing but the constraints.          *)

Edits == (Overlap \/ \A r \in Request : req[r] = Idle) /\ edits < MaxEdits

PanelSave(i, x) ==
    /\ Edits
    /\ NextId(i) \/ rows[i].kind = x.kind
    /\ RefersToRows(x, {})
    /\ \A j \in Id \ {i} : IsRow(rows[j]) => ~Same(x, rows[j])
    /\ \A r \in Request : \A y \in Uncommitted(r) : ~Same(x, y)
    /\ ~Locked(i)
    /\ rows' = [rows EXCEPT ![i] = x]
    /\ touched' = touched \cup {i}
    /\ edits' = edits + 1
    /\ UNCHANGED <<files, req, mode>>

PanelDelete(i) ==
    /\ Edits
    /\ IsRow(rows[i])
    /\ \A j \in Id : IsRow(rows[j]) => ~RefersTo(rows[j], i)
    /\ ~Locked(i)
    /\ rows' = [rows EXCEPT ![i] = Gone]
    /\ touched' = touched \cup {i}
    /\ edits' = edits + 1
    /\ UNCHANGED <<files, req, mode>>

----------------------------------------------------------------------------

\* The forms and payloads: an id that is sent is one that was listed before.
Rows(kind) == {i \in Id : rows[i].kind = kind}

MasterForms ==
    {x \in Country
        \cup [kind : {"state"}, name : mode.names, country : Rows("country")]
        \cup [kind : {"city"}, name : mode.names, country : Rows("country"),
              state : Rows("state") \cup {None}]
        \cup [kind : {"warehouse"}, name : mode.names, city : Rows("city")]
        \cup [kind : {"site"}, name : mode.names, country : Rows("country"), city : Rows("city"),
              located : {profile.located : profile \in mode.profiles}]
        \cup ProductModel : x.kind \in mode.kinds}

UnitForms(models) ==
    {x \in [kind : {"unit"}, serial : Serial, model : models, country : Rows("country"),
            state : Rows("state") \cup {None}, city : Rows("city"), located : BOOLEAN,
            customer : BOOLEAN, deleted : {FALSE}] :
        /\ x.kind \in mode.kinds
        /\ [located |-> x.located, customer |-> x.customer] \in mode.profiles}

Register(r) ==
    \E regenerate \in BOOLEAN :
        \/ \E unit \in UnitForms(Rows("model")) :
            \/ ResolveGiven(r, unit, regenerate)
            \/ \E family \in Family : ResolveNamed(r, unit, regenerate, family)
        \/ \E i \in Id, family \in Family :
            /\ NextId(i)
            /\ \E unit \in UnitForms({i}) : ResolveMissing(r, unit, regenerate, family)

RequestNext(r) ==
    \/ \E x \in MasterForms : CreateLook(r, x)
    \/ CreateInsert(r)
    \/ Register(r)
    \/ RegisterCheck(r)
    \/ RegisterInsert(r)
    \/ RegisterCommit(r)
    \/ \E i \in Rows("unit") :
        \/ DeleteUnit(r, i)
        \/ TransitionLoad(r, i)
        \/ \E new \in UnitForms({rows[i].model}) : UpdateLoad(r, i, new)
    \/ UpdateWrite(r)
    \/ UpdateCommit(r)
    \/ \E s \in Id, linked \in SUBSET Rows("unit") : AssignSiteLoad(r, s, linked)
    \/ AssignSiteCommit(r)
    \/ Fail(r)

PanelNext ==
    \E i \in Id :
        \/ PanelDelete(i)
        \/ \E x \in MasterForms \cup UnitForms(Rows("model")) : PanelSave(i, x)

Next ==
    \/ \E r \in Request : RequestNext(r)
    \/ PanelNext

Spec == Init /\ [][Next]_vars

----------------------------------------------------------------------------
(* Safety.                                                                 *)

\* No row refers to one that is not there, whatever is deleted between the
\* look at it and the insertion.
TypeOK ==
    /\ rows \in [Id -> Row \cup {Unused, Pending, Gone}]
    /\ \A i \in Id : IsRow(rows[i]) => RefersToRows(rows[i], {})
    /\ files \in [Serial -> QrFile \cup {NoFile}]
    /\ req \in [Request -> RequestState]
    /\ touched \subseteq Id
    /\ edits \in 0..MaxEdits
    /\ mode \in Modes

\* A city is in the country of its state, and a site in that of its city, as
\* long as the panel leaves both rows alone.
PlacesNest ==
    \A i \in Id \ touched :
        /\ rows[i].kind = "city" /\ rows[i].state \notin touched \cup {None} =>
                rows[rows[i].state].country = rows[i].country
        /\ rows[i].kind = "site" /\ rows[i].city \notin touched =>
                rows[rows[i].city].country = rows[i].country

\* Nothing in the database forbids to insert a site twice, and two requests may
\* do so, but no more: there are never more equal sites than requests that can
\* be in flight at once, the panel's aside.
SitesBounded ==
    \A i \in Id : rows[i].kind = "site" =>
        Cardinality({j \in Id \ touched : SameSite(rows[i], rows[j])}) <= Cardinality(Request)

\* However a product model is named when it is created, and whoever else names
\* it meanwhile, the API makes one row of it: two rows of one family take the
\* panel, or one in the old spelling from the start, which create_product_model
\* does not look for.
OneRowPerFamily ==
    \A i, j \in Id \ touched :
        rows[i].kind = "model" /\ rows[j].kind = "model" /\ rows[i].family = rows[j].family
            => i = j

Committed == [i \in Id |-> IF IsRow(rows[i]) THEN rows[i] ELSE Unused]

\* A registration leaves its unit and the product model it inserted or renamed
\* for it, or neither.
RegistrationIsAtomic ==
    [][\A r \in Request :
           /\ req'[r] # req[r]
           /\ Registering(req[r]) \/ Registering(req'[r])
           => \/ Committed' = Committed
              \/ \E i \in Id : rows[i] = Pending /\ rows'[i] = req[r].unit]_vars

\* A QR image names the unit that has its serial number: a serial number is
\* never that of another unit.  Only a registration that fails after it wrote
\* the image, or the panel, makes one that does not.
QrNamesItsUnit ==
    \A i \in Id : rows[i].kind = "unit" =>
        LET file == files[rows[i].serial]
        IN  \/ file = NoFile
            \/ file.void
            \/ file.unit = i
            \/ {i, file.unit} \cap touched # {}

\* With one handler at a time, the image leads to the public page if and only if
\* the profile of the unit is complete, unless it is a site assigned to the
\* shipment that last changed whether the unit is located: then the image stays as
\* it was, and as public as the unit's customer allows, until the next update or
\* transition of the unit makes a new one.
QrShowsProfile ==
    ~Overlap /\ (\A r \in Request : req[r] = Idle) =>
        \A i \in Id \ touched :
            rows[i].kind = "unit" =>
                LET file == files[rows[i].serial]
                IN  file.unit = i /\ ~file.void =>
                        IF file.sited THEN file.public => rows[i].customer
                        ELSE file.public = ProfileComplete(rows[i])
=============================================================================
