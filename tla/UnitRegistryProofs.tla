------------------------- MODULE UnitRegistryProofs -------------------------
(***************************************************************************)
(* Proofs about UnitRegistry for every number of rows, of requests and of  *)
(* panel edits.                                                            *)
(***************************************************************************)
EXTENDS UnitRegistry, FiniteSetTheorems, TLAPS

----------------------------------------------------------------------------
(* Facts about the rows and the records of the requests.                   *)

LEMMA IdFacts == None \notin Id /\ Id \ {None} = Id
  BY RegistryAssumption DEF Id, None

\* The kind tells what a row holds.
LEMMA RowByKind ==
    ASSUME NEW x \in Row
    PROVE  /\ IsRow(x)
           /\ x.kind \in Kind
           /\ x.kind = "unit" => x \in BESSUnit
           /\ x.kind = "model" => x \in ProductModel
           /\ x.kind = "site" => x \in Site
           /\ x.kind = "city" => x \in City
           /\ x.kind = "state" => x \in State
           /\ x.kind # "unit" => x \in MasterRow
  BY DEF Row, MasterRow, Country, State, City, Warehouse, Site, ProductModel, BESSUnit,
         IsRow, Kind

LEMMA NotRows ==
    /\ ~IsRow(Unused) /\ ~IsRow(Pending) /\ ~IsRow(Gone)
    /\ Unused # Pending /\ Unused # Gone /\ Pending # Gone
    /\ Unused.kind = "unused" /\ Pending.kind = "pending" /\ Gone.kind = "gone"
  BY DEF IsRow, Unused, Pending, Gone

\* A reference is an id or missing, and the columns are these.
LEMMA ColumnFacts ==
    ASSUME NEW x \in Row, NEW c \in Columns(x)
    PROVE  /\ x[c] \in Id \cup {None}
           /\ c \in {"country", "state", "city", "model"}
           /\ x[c] = None => c = "state"
  <1>1. c \in {"country", "state", "city", "model"} /\ c \in DOMAIN x
    BY DEF Columns
  <1>2. CASE c = "country"
    <2>1. x["country"] \in Id
      BY <1>1, <1>2 DEF Row, MasterRow, Country, State, City, Warehouse, Site,
                        ProductModel, BESSUnit
    <2> QED
      BY <1>1, <1>2, <2>1, IdFacts
  <1>3. CASE c = "state"
    <2>1. x["state"] \in Id \cup {None}
      BY <1>1, <1>3 DEF Row, MasterRow, Country, State, City, Warehouse, Site,
                        ProductModel, BESSUnit
    <2> QED
      BY <1>1, <1>3, <2>1
  <1>4. CASE c = "city"
    <2>1. x["city"] \in Id
      BY <1>1, <1>4 DEF Row, MasterRow, Country, State, City, Warehouse, Site,
                        ProductModel, BESSUnit
    <2> QED
      BY <1>1, <1>4, <2>1, IdFacts
  <1>5. CASE c = "model"
    <2>1. x["model"] \in Id
      BY <1>1, <1>5 DEF Row, MasterRow, Country, State, City, Warehouse, Site,
                        ProductModel, BESSUnit
    <2> QED
      BY <1>1, <1>5, <2>1, IdFacts
  <1> QED
    BY <1>1, <1>2, <1>3, <1>4, <1>5

LEMMA ModelFacts ==
    /\ \A x \in ProductModel : /\ x.kind = "model" /\ Columns(x) = {} /\ x # NoModel
                               /\ x \in Row
                               /\ Normalized(x) \in ProductModel
                               /\ Normalized(x).spelling = "UESS"
    /\ \A f \in Family : [kind |-> "model", family |-> f, spelling |-> "UESS"] \in ProductModel
  <1>1. ASSUME NEW x \in ProductModel
        PROVE  /\ x.kind = "model" /\ x # NoModel /\ x \in Row
               /\ Columns(x) = {}
    <2>1. DOMAIN x = {"kind", "family", "spelling"}
      BY DEF ProductModel
    <2>2. x.kind = "model" /\ x \in Row
      BY DEF ProductModel, Row, MasterRow
    <2>3. NoModel.kind = "no model"
      BY DEF NoModel
    <2>4. {"kind", "family", "spelling"} \cap {"country", "state", "city", "model"} = {}
      OBVIOUS
    <2>5. Columns(x) = {}
      BY <2>1, <2>4 DEF Columns
    <2> QED
      BY <2>2, <2>3, <2>5
  <1>2. ASSUME NEW x \in ProductModel
        PROVE  Normalized(x) \in ProductModel /\ Normalized(x).spelling = "UESS"
    BY DEF ProductModel, Normalized, Spelling
  <1>3. \A f \in Family :
            [kind |-> "model", family |-> f, spelling |-> "UESS"] \in ProductModel
    BY DEF ProductModel, Spelling
  <1> QED
    BY <1>1, <1>2, <1>3

LEMMA UnitFacts ==
    \A x \in BESSUnit : /\ x.kind = "unit" /\ x \in Row
                        /\ x.model \in Id /\ x.country \in Id /\ x.serial \in Serial
                        /\ Columns(x) = {"country", "state", "city", "model"}
                        /\ x.located \in BOOLEAN /\ x.customer \in BOOLEAN
  BY DEF BESSUnit, Row, Columns

\* pc tells what the record of a request holds.
LEMMA RequestByPc ==
    ASSUME NEW x \in RequestState
    PROVE  /\ x.pc = "creating" => x.row \in MasterRow
           /\ x.pc \in {"resolved", "checked"} =>
                x \in [pc : {"resolved", "checked"}, unit : BESSUnit, fresh : BOOLEAN,
                       naming : ProductModel \cup {NoModel}, regenerate : BOOLEAN]
           /\ x.pc = "inserted" =>
                x \in [pc : {"inserted"}, unit : BESSUnit, fresh : BOOLEAN,
                       naming : ProductModel \cup {NoModel}, regenerate : BOOLEAN, id : Id]
           /\ x.pc \in {"loaded", "written"} =>
                x \in [pc : {"loaded", "written"}, id : Id, was : BESSUnit, unit : BESSUnit]
           /\ x.pc = "siting" =>
                x \in [pc : {"siting"}, site : Site, was : [Id -> BESSUnit \cup {Unused}]]
           /\ x.pc = "idle" => x = Idle
           /\ x.pc \in {"idle", "creating", "resolved", "checked", "inserted", "loaded",
                        "written", "siting"}
  BY DEF RequestState, Idle

LEMMA RegisteringType ==
    ASSUME NEW x \in RequestState, Registering(x)
    PROVE  /\ x.unit \in BESSUnit /\ x.unit.model \in Id
           /\ x.naming \in ProductModel \cup {NoModel}
           /\ x.fresh \in BOOLEAN
  BY RequestByPc, UnitFacts DEF Registering

\* What Become does.
LEMMA BecomeFacts ==
    ASSUME TypeOK, NEW r \in Request, NEW state, Become(r, state)
    PROVE  /\ req'[r] = state
           /\ \A q \in Request \ {r} : req'[q] = req[q]
           /\ state \in RequestState => req' \in [Request -> RequestState]
  BY DEF TypeOK, Become

----------------------------------------------------------------------------
(* The rows that only one request sees, and what it may rely on.           *)

\* A registration has its own uncommitted rows, and what its unit refers to is
\* locked once it is inserted.
RegistrationSound(r) ==
    Registering(req[r]) =>
        /\ req[r].fresh => rows[req[r].unit.model] = Pending /\ req[r].naming # NoModel
        /\ ~req[r].fresh /\ req[r].naming # NoModel => rows[req[r].unit.model].kind = "model"
        /\ req[r].naming # NoModel => req[r].naming.spelling = "UESS"
        /\ req[r].pc = "inserted" =>
                /\ rows[req[r].id] = Pending
                /\ req[r].id # req[r].unit.model
                /\ RefersToRows(req[r].unit, Own(r))

Disjoint == \A q, r \in Request : q # r => Inserted(q) \cap Inserted(r) = {}

RegistrationsSound == Disjoint /\ \A r \in Request : RegistrationSound(r)

\* An id keeps its kind.
KindsStay == \A i \in Id : IsRow(rows[i]) => rows'[i].kind = rows[i].kind

LEMMA InsertedFacts ==
    ASSUME TypeOK, RegistrationsSound, NEW r \in Request
    PROVE  \A i \in Inserted(r) : i \in Id /\ rows[i] = Pending
  <1>1. CASE Registering(req[r])
    <2>1. req[r].unit.model \in Id /\ (req[r].pc = "inserted" => req[r].id \in Id)
      BY <1>1, RegisteringType, RequestByPc DEF TypeOK
    <2> QED
      BY <1>1, <2>1 DEF Inserted, Own, RegistrationsSound, RegistrationSound
  <1>2. CASE ~Registering(req[r])
    BY <1>2 DEF Inserted
  <1> QED
    BY <1>1, <1>2

LEMMA RefersKept ==
    ASSUME TypeOK, KindsStay, NEW x \in Row, NEW own, RefersToRows(x, own)
    PROVE  RefersToRows(x, own)'
  <1> SUFFICES ASSUME NEW c \in Columns(x)
               PROVE  \/ x[c] # None /\ rows'[x[c]].kind = c
                      \/ c = "state" /\ x[c] = None
                      \/ c = "model" /\ x[c] \in own
    BY DEF RefersToRows
  <1>1. \/ x[c] # None /\ rows[x[c]].kind = c
        \/ c = "state" /\ x[c] = None
        \/ c = "model" /\ x[c] \in own
    BY DEF RefersToRows
  <1>2. CASE x[c] # None /\ rows[x[c]].kind = c
    <2>1. x[c] \in Id /\ c \in {"country", "state", "city", "model"}
      BY <1>2, ColumnFacts
    <2>2. IsRow(rows[x[c]])
      BY <1>2, <2>1 DEF IsRow
    <2> QED
      BY <1>2, <2>1, <2>2 DEF KindsStay
  <1> QED
    BY <1>1, <1>2

\* Requests that a step does not concern.
LEMMA SoundKept ==
    ASSUME TypeOK, KindsStay, NEW r \in Request, RegistrationSound(r), req'[r] = req[r],
           \A i \in Inserted(r) : rows'[i] = Pending
    PROVE  RegistrationSound(r)'
  <1> SUFFICES ASSUME Registering(req[r]) PROVE RegistrationSound(r)'
    BY DEF RegistrationSound
  <1>1. /\ req[r].unit \in BESSUnit /\ req[r].unit \in Row /\ req[r].unit.model \in Id
        /\ req[r].pc = "inserted" => req[r].id \in Id
    BY RegisteringType, RequestByPc, UnitFacts DEF TypeOK
  <1>2. req[r].pc = "inserted" => RefersToRows(req[r].unit, Own(r))'
    <2> SUFFICES ASSUME req[r].pc = "inserted" PROVE RefersToRows(req[r].unit, Own(r))'
      OBVIOUS
    <2>1. PICK x \in Row, own \in {Own(r)} : x = req[r].unit /\ own = Own(r)
      BY <1>1
    <2>2. RefersToRows(x, own)
      BY <2>1 DEF RegistrationSound
    <2>3. RefersToRows(x, own)'
      BY <2>2, RefersKept
    <2> QED
      BY <2>1, <2>3 DEF RefersToRows, Own
  <1>3. rows[req[r].unit.model].kind = "model" => rows'[req[r].unit.model].kind = "model"
    BY <1>1 DEF KindsStay, IsRow
  <1>4. /\ req[r].fresh => rows'[req[r].unit.model] = Pending
        /\ req[r].pc = "inserted" => rows'[req[r].id] = Pending
    BY DEF Inserted, Own
  <1> QED
    BY <1>2, <1>3, <1>4 DEF RegistrationSound

\* A step of one request, or of none.
LEMMA SoundStep ==
    ASSUME TypeOK, RegistrationsSound, KindsStay, NEW r \in Request,
           \A q \in Request \ {r} : req'[q] = req[q],
           \A i \in Id : rows[i] = Pending /\ i \notin Inserted(r) => rows'[i] = Pending,
           RegistrationSound(r)',
           \A i \in Inserted(r)' : i \in Inserted(r) \/ rows[i] # Pending
    PROVE  RegistrationsSound'
  <1>1. ASSUME NEW q \in Request, q # r
        PROVE  Inserted(q)' = Inserted(q) /\ RegistrationSound(q)'
    <2>1. req'[q] = req[q] /\ Inserted(q) \cap Inserted(r) = {} /\ RegistrationSound(q)
      BY <1>1 DEF RegistrationsSound, Disjoint
    <2>2. \A i \in Inserted(q) : rows'[i] = Pending
      BY <2>1, InsertedFacts
    <2>3. Inserted(q)' = Inserted(q)
      BY <2>1 DEF Inserted, Own
    <2> QED
      BY <2>1, <2>2, <2>3, SoundKept
  <1>2. \A q \in Request \ {r} : Inserted(q)' \cap Inserted(r)' = {}
    BY <1>1, InsertedFacts DEF RegistrationsSound, Disjoint
  <1>3. Disjoint'
    BY <1>1, <1>2 DEF RegistrationsSound, Disjoint
  <1> QED
    BY <1>1, <1>3 DEF RegistrationsSound

LEMMA SoundRows ==
    ASSUME TypeOK, RegistrationsSound, KindsStay, UNCHANGED req,
           \A i \in Id : rows[i] = Pending => rows'[i] = Pending
    PROVE  RegistrationsSound'
  <1>1. ASSUME NEW q \in Request
        PROVE  Inserted(q)' = Inserted(q) /\ RegistrationSound(q)'
    <2>1. \A i \in Inserted(q) : rows'[i] = Pending
      BY InsertedFacts
    <2> QED
      BY <2>1, SoundKept DEF RegistrationsSound, Inserted, Own
  <1> QED
    BY <1>1 DEF RegistrationsSound, Disjoint

\* What a step has to show of the rows it writes.
RowsOK ==
    /\ rows \in [Id -> Row \cup {Unused, Pending, Gone}]
    /\ \A i \in Id : IsRow(rows[i]) => RefersToRows(rows[i], {})

LEMMA RowsStep ==
    ASSUME TypeOK, KindsStay, rows' \in [Id -> Row \cup {Unused, Pending, Gone}],
           \A i \in Id : \/ rows'[i] = rows[i]
                         \/ IsRow(rows'[i]) => RefersToRows(rows[i], {})'
    PROVE  RowsOK'
  <1>1. ASSUME NEW i \in Id, rows'[i] = rows[i], IsRow(rows[i])
        PROVE  RefersToRows(rows[i], {})'
    <2>1. PICK x \in Row : x = rows[i]
      BY <1>1, NotRows DEF TypeOK
    <2>2. RefersToRows(x, {})'
      BY <1>1, <2>1, RefersKept DEF TypeOK
    <2> QED
      BY <1>1, <2>1, <2>2 DEF RefersToRows
  <1>2. \A i \in Id : IsRow(rows'[i]) => RefersToRows(rows[i], {})'
    BY <1>1
  <1> QED
    BY <1>2 DEF RowsOK

\* A QR image once written is not removed, so that a handler that fails finds
\* the one it wrote, or another of that name.
Wrote(r) == req[r].pc = "written" \/ (req[r].pc = "inserted" /\ req[r].regenerate)

ImagesWritten == \A r \in Request : Wrote(r) => files[req[r].unit.serial] # NoFile

LEMMA ImagesStep ==
    ASSUME TypeOK, ImagesWritten, NEW r \in Request,
           \A q \in Request \ {r} : req'[q] = req[q],
           \A s \in Serial : files[s] # NoFile => files'[s] # NoFile,
           Wrote(r)' => files'[req'[r].unit.serial] # NoFile
    PROVE  ImagesWritten'
  <1> SUFFICES ASSUME NEW q \in Request, Wrote(q)'
               PROVE  files'[req'[q].unit.serial] # NoFile
    BY DEF ImagesWritten
  <1>1. CASE q = r
    BY <1>1
  <1>2. CASE q # r
    <2>1. req'[q] = req[q] /\ Wrote(q)
      BY <1>2 DEF Wrote
    <2>2. req[q].unit \in BESSUnit
      BY <2>1, RequestByPc DEF TypeOK, Wrote
    <2> QED
      BY <2>1, <2>2, UnitFacts DEF ImagesWritten
  <1> QED
    BY <1>1, <1>2

TInv == TypeOK /\ RegistrationsSound /\ ImagesWritten

\* A step of a request that writes neither rows nor files.
LEMMA TInvReq ==
    ASSUME TInv, NEW r \in Request, NEW state \in RequestState, Become(r, state),
           UNCHANGED <<rows, files, touched, edits, mode>>,
           state.pc \notin {"inserted", "written"},
           RegistrationSound(r)', Inserted(r)' \subseteq Inserted(r)
    PROVE  TInv'
  <1>1. /\ req' \in [Request -> RequestState] /\ \A q \in Request \ {r} : req'[q] = req[q]
        /\ req'[r] = state
    BY BecomeFacts DEF TInv
  <1>2. TypeOK'
    BY <1>1 DEF TInv, TypeOK, RefersToRows
  <1>3. RegistrationsSound'
    BY <1>1, SoundStep DEF TInv, KindsStay
  <1>4. ImagesWritten'
    BY <1>1, ImagesStep DEF TInv, Wrote
  <1> QED
    BY <1>2, <1>3, <1>4 DEF TInv

\* One that is not a registration afterwards.
LEMMA TInvPlain ==
    ASSUME TInv, NEW r \in Request, NEW state \in RequestState, Become(r, state),
           ~Registering(state), state.pc # "written",
           UNCHANGED <<rows, files, touched, edits, mode>>
    PROVE  TInv'
  <1>1. req'[r] = state
    BY BecomeFacts DEF TInv
  <1> QED
    BY <1>1, TInvReq DEF RegistrationSound, Inserted, Registering

LEMMA PlainStates ==
    /\ Idle \in RequestState /\ ~Registering(Idle)
    /\ \A x \in MasterRow : /\ [pc |-> "creating", row |-> x] \in RequestState
                            /\ ~Registering([pc |-> "creating", row |-> x])
    /\ \A i \in Id, x, y \in BESSUnit :
            /\ [pc |-> "loaded", id |-> i, was |-> x, unit |-> y] \in RequestState
            /\ ~Registering([pc |-> "loaded", id |-> i, was |-> x, unit |-> y])
    /\ \A s \in Site, was \in [Id -> BESSUnit \cup {Unused}] :
            /\ [pc |-> "siting", site |-> s, was |-> was] \in RequestState
            /\ ~Registering([pc |-> "siting", site |-> s, was |-> was])
  BY DEF RequestState, Idle, Registering

LEMMA FormTypes ==
    ASSUME TypeOK
    PROVE  /\ MasterForms \subseteq MasterRow
           /\ \A models \in SUBSET Id : UnitForms(models) \subseteq BESSUnit
           /\ \A kind : Rows(kind) \subseteq Id
  <1>1. \A kind : Rows(kind) \subseteq Id
    BY DEF Rows
  <1>2. MasterForms \subseteq MasterRow
    <2>1. {profile.located : profile \in mode.profiles} \subseteq BOOLEAN
      BY RegistryAssumption DEF TypeOK, Profile
    <2>2. mode.names \subseteq Name
      BY RegistryAssumption DEF TypeOK
    <2> QED
      BY <1>1, <2>1, <2>2 DEF MasterForms, MasterRow, State, City, Warehouse, Site
  <1>3. \A models \in SUBSET Id : UnitForms(models) \subseteq BESSUnit
    BY <1>1 DEF UnitForms, BESSUnit
  <1> QED
    BY <1>1, <1>2, <1>3

LEMMA TInvCreateLook ==
    ASSUME TInv, NEW r \in Request, NEW x \in MasterForms, CreateLook(r, x)
    PROVE  TInv'
  <1>1. x \in MasterRow
    BY FormTypes DEF TInv
  <1>2. Normalized(x) \in MasterRow
    <2>1. x.kind = "model" => x \in ProductModel
      BY <1>1, RowByKind DEF Row
    <2> QED
      BY <1>1, <2>1, ModelFacts, RowByKind DEF Normalized, Row
  <1> QED
    BY <1>2, PlainStates, TInvPlain DEF CreateLook

LEMMA MasterRows == MasterRow \subseteq Row
  BY DEF Row

\* A new row under the next id.
LEMMA NewRowKinds ==
    ASSUME TypeOK, NEW i \in Id, NextId(i), NEW x, rows' = [rows EXCEPT ![i] = x]
    PROVE  /\ KindsStay
           /\ \A j \in Id : rows[j] = Pending => rows'[j] = Pending
           /\ rows[i] = Unused /\ rows'[i] = x
           /\ \A j \in Id \ {i} : rows'[j] = rows[j]
  BY NotRows DEF NextId, KindsStay, TypeOK

LEMMA TInvCreateInsert ==
    ASSUME TInv, NEW r \in Request, CreateInsert(r)
    PROVE  TInv'
  <1> USE DEF TInv
  <1>1. PICK x \in Row : x = req[r].row
    BY RequestByPc, MasterRows DEF CreateInsert, TypeOK
  <1>2. PICK i \in Id : NextId(i) /\ rows' = [rows EXCEPT ![i] = x]
    BY <1>1 DEF CreateInsert
  <1>3. KindsStay /\ \A j \in Id : rows[j] = Pending => rows'[j] = Pending
    BY <1>2, NewRowKinds
  <1>4. RefersToRows(x, {})'
    BY <1>1, <1>3, RefersKept DEF CreateInsert
  <1>5. RowsOK'
    <2>1. RefersToRows(rows[i], {})'
      BY <1>2, <1>4, NewRowKinds DEF RefersToRows
    <2>2. rows' \in [Id -> Row \cup {Unused, Pending, Gone}]
      BY <1>2 DEF TypeOK
    <2> QED
      BY <1>2, <1>3, <2>1, <2>2, NewRowKinds, RowsStep
  <1>6. /\ req'[r] = Idle /\ req' \in [Request -> RequestState]
        /\ \A q \in Request \ {r} : req'[q] = req[q]
    BY BecomeFacts, PlainStates DEF CreateInsert
  <1>7. RegistrationSound(r)' /\ Inserted(r)' = {}
    BY <1>6, PlainStates DEF RegistrationSound, Inserted
  <1>8. RegistrationsSound'
    BY <1>3, <1>6, <1>7, SoundStep
  <1>9. TypeOK'
    BY <1>5, <1>6 DEF TypeOK, RowsOK, CreateInsert
  <1>10. ImagesWritten'
    BY <1>6, ImagesStep DEF CreateInsert, Wrote, Idle
  <1> QED
    BY <1>8, <1>9, <1>10

----------------------------------------------------------------------------
(* The registrations.                                                      *)

LEMMA RegisterStates ==
    \A unit \in BESSUnit, fresh \in BOOLEAN, regenerate \in BOOLEAN,
       naming \in ProductModel \cup {NoModel} :
        /\ \A pc \in {"resolved", "checked"} :
              [pc |-> pc, unit |-> unit, fresh |-> fresh, naming |-> naming,
               regenerate |-> regenerate] \in RequestState
        /\ \A i \in Id :
              [pc |-> "inserted", unit |-> unit, fresh |-> fresh, naming |-> naming,
               regenerate |-> regenerate, id |-> i] \in RequestState
  BY DEF RequestState

\* A handler that has found its model, or has renamed it.
LEMMA TInvResolved ==
    ASSUME TInv, NEW r \in Request, NEW unit \in BESSUnit, NEW regenerate \in BOOLEAN,
           NEW naming \in ProductModel \cup {NoModel},
           rows[unit.model].kind = "model",
           naming # NoModel => naming.spelling = "UESS",
           Become(r, [pc |-> "resolved", unit |-> unit, fresh |-> FALSE, naming |-> naming,
                      regenerate |-> regenerate]),
           UNCHANGED <<rows, files, touched, edits, mode>>
    PROVE  TInv'
  <1>1. PICK state \in RequestState :
            state = [pc |-> "resolved", unit |-> unit, fresh |-> FALSE, naming |-> naming,
                     regenerate |-> regenerate]
    BY RegisterStates
  <1>2. req'[r] = state
    BY <1>1, BecomeFacts DEF TInv
  <1>3. RegistrationSound(r)' /\ Inserted(r)' = {}
    BY <1>1, <1>2 DEF RegistrationSound, Inserted, Own
  <1> QED
    BY <1>1, <1>2, <1>3, TInvReq

LEMMA TInvResolveGiven ==
    ASSUME TInv, NEW r \in Request, NEW unit \in UnitForms(Rows("model")),
           NEW regenerate \in BOOLEAN, ResolveGiven(r, unit, regenerate)
    PROVE  TInv'
  <1>1. unit \in BESSUnit
    BY FormTypes DEF TInv
  <1> QED
    BY <1>1, TInvResolved DEF ResolveGiven

LEMMA TInvResolveNamed ==
    ASSUME TInv, NEW r \in Request, NEW unit \in UnitForms(Rows("model")),
           NEW regenerate \in BOOLEAN, NEW family \in Family,
           ResolveNamed(r, unit, regenerate, family)
    PROVE  TInv'
  <1>1. unit \in BESSUnit /\ unit.model \in Id
    BY FormTypes, UnitFacts DEF TInv
  <1>2. rows[unit.model] \in ProductModel
    BY <1>1, RowByKind DEF TInv, TypeOK, ResolveNamed, Unused, Pending, Gone
  <1>3. PICK new \in ProductModel : new = Normalized(rows[unit.model])
    BY <1>2, ModelFacts
  <1>4. PICK naming \in ProductModel \cup {NoModel} :
            naming = IF new # rows[unit.model] THEN new ELSE NoModel
    OBVIOUS
  <1>5. naming # NoModel => naming.spelling = "UESS"
    BY <1>2, <1>3, <1>4, ModelFacts
  <1>6. /\ Become(r, [pc |-> "resolved", unit |-> unit, fresh |-> FALSE, naming |-> naming,
                      regenerate |-> regenerate])
        /\ rows[unit.model].kind = "model"
        /\ UNCHANGED <<rows, files, touched, edits, mode>>
    BY <1>3, <1>4 DEF ResolveNamed
  <1> QED
    BY <1>1, <1>5, <1>6, TInvResolved

\* The row of a new id becomes Pending, for one request.
LEMMA PendingRow ==
    ASSUME TInv, NEW i \in Id, NextId(i), rows' = [rows EXCEPT ![i] = Pending]
    PROVE  RowsOK' /\ KindsStay /\ (\A j \in Id : rows[j] = Pending => rows'[j] = Pending)
  <1>1. /\ KindsStay
        /\ \A j \in Id : rows[j] = Pending => rows'[j] = Pending
        /\ rows'[i] = Pending
        /\ \A j \in Id \ {i} : rows'[j] = rows[j]
    BY NewRowKinds DEF TInv
  <1>2. rows' \in [Id -> Row \cup {Unused, Pending, Gone}]
    BY DEF TInv, TypeOK
  <1>3. RowsOK'
    BY <1>1, <1>2, NotRows, RowsStep DEF TInv
  <1> QED
    BY <1>1, <1>3

LEMMA TInvResolveMissing ==
    ASSUME TInv, NEW r \in Request, NEW i \in Id, NEW unit \in UnitForms({i}),
           NEW regenerate \in BOOLEAN, NEW family \in Family,
           ResolveMissing(r, unit, regenerate, family)
    PROVE  TInv'
  <1>1. unit \in BESSUnit /\ unit.model = i
    BY FormTypes DEF TInv, UnitForms
  <1>2. PICK new \in ProductModel :
            new = [kind |-> "model", family |-> family, spelling |-> "UESS"]
    BY ModelFacts
  <1>3. PICK state \in RequestState :
            state = [pc |-> "resolved", unit |-> unit, fresh |-> TRUE, naming |-> new,
                     regenerate |-> regenerate]
    BY <1>1, RegisterStates
  <1>4. /\ NextId(i) /\ rows' = [rows EXCEPT ![i] = Pending]
        /\ Become(r, state) /\ UNCHANGED <<files, touched, edits, mode>>
    BY <1>1, <1>2, <1>3 DEF ResolveMissing
  <1>5. /\ req'[r] = state /\ req' \in [Request -> RequestState]
        /\ \A q \in Request \ {r} : req'[q] = req[q]
    BY <1>4, BecomeFacts DEF TInv
  <1>6. RowsOK' /\ KindsStay /\ (\A j \in Id : rows[j] = Pending => rows'[j] = Pending)
    BY <1>4, PendingRow
  <1>7. RegistrationSound(r)' /\ Inserted(r)' = {i}
    <2>1. rows'[i] = Pending
      BY <1>4 DEF TInv, TypeOK
    <2> QED
      BY <1>1, <1>2, <1>3, <1>5, <2>1, ModelFacts DEF RegistrationSound, Inserted, Own,
         Registering
  <1>8. RegistrationsSound'
    BY <1>4, <1>5, <1>6, <1>7, SoundStep, NotRows DEF TInv, NextId
  <1>9. TypeOK'
    BY <1>4, <1>5, <1>6 DEF TInv, TypeOK, RowsOK
  <1>10. ImagesWritten'
    BY <1>3, <1>4, <1>5, ImagesStep DEF TInv, Wrote
  <1> QED
    BY <1>8, <1>9, <1>10 DEF TInv

LEMMA TInvRegisterCheck ==
    ASSUME TInv, NEW r \in Request, RegisterCheck(r)
    PROVE  TInv'
  <1>1. req[r] \in [pc : {"resolved", "checked"}, unit : BESSUnit, fresh : BOOLEAN,
                    naming : ProductModel \cup {NoModel}, regenerate : BOOLEAN]
    BY RequestByPc DEF RegisterCheck, TInv, TypeOK
  <1>2. PICK state \in RequestState : state = [req[r] EXCEPT !.pc = "checked"]
    BY <1>1 DEF RequestState
  <1>3. /\ state.pc = "checked" /\ state.unit = req[r].unit /\ state.fresh = req[r].fresh
        /\ state.naming = req[r].naming
    BY <1>1, <1>2
  <1>4. req'[r] = state
    BY <1>2, BecomeFacts DEF TInv, RegisterCheck
  <1>5. RegistrationSound(r) /\ Registering(req[r]) /\ req[r].pc = "resolved"
    BY DEF TInv, RegistrationsSound, RegisterCheck, Registering
  <1>6. RegistrationSound(r)'
    BY <1>3, <1>4, <1>5 DEF RegistrationSound, RegisterCheck
  <1>7. Inserted(r)' = Inserted(r)
    BY <1>3, <1>4, <1>5 DEF Inserted, Own, Registering
  <1> QED
    BY <1>2, <1>3, <1>6, <1>7, TInvReq DEF RegisterCheck

LEMMA WriteFileFacts ==
    ASSUME TypeOK, NEW unit \in BESSUnit, NEW i \in Id, WriteFile(unit, i)
    PROVE  /\ files' \in [Serial -> QrFile \cup {NoFile}]
           /\ files'[unit.serial] # NoFile
           /\ files'[unit.serial].unit = i /\ ~files'[unit.serial].void
           /\ files'[unit.serial].public = ProfileComplete(unit)
           /\ ~files'[unit.serial].sited
           /\ \A s \in Serial \ {unit.serial} : files'[s] = files[s]
           /\ \A s \in Serial : files[s] # NoFile => files'[s] # NoFile
  <1>1. unit.serial \in Serial /\ ProfileComplete(unit) \in BOOLEAN
    BY UnitFacts DEF ProfileComplete
  <1>2. PICK f \in QrFile :
            f = [unit |-> i, public |-> ProfileComplete(unit), void |-> FALSE,
                 sited |-> FALSE]
    BY <1>1 DEF QrFile
  <1>3. /\ f # NoFile /\ f.unit = i /\ ~f.void /\ ~f.sited
        /\ f.public = ProfileComplete(unit)
    BY <1>2, IdFacts DEF NoFile
  <1>4. files' = [files EXCEPT ![unit.serial] = f]
    BY <1>2 DEF WriteFile
  <1> QED
    BY <1>1, <1>3, <1>4 DEF TypeOK

LEMMA TInvRegisterInsert ==
    ASSUME TInv, NEW r \in Request, RegisterInsert(r)
    PROVE  TInv'
  <1>1. /\ req[r] \in [pc : {"resolved", "checked"}, unit : BESSUnit, fresh : BOOLEAN,
                       naming : ProductModel \cup {NoModel}, regenerate : BOOLEAN]
        /\ req[r].pc = "checked"
    BY RequestByPc DEF RegisterInsert, TInv, TypeOK
  <1>2. /\ req[r].unit \in BESSUnit /\ req[r].naming \in ProductModel \cup {NoModel}
        /\ req[r].regenerate \in BOOLEAN /\ req[r].fresh \in BOOLEAN
    BY <1>1
  <1>3. PICK unit \in BESSUnit, naming \in ProductModel \cup {NoModel} :
            unit = req[r].unit /\ naming = req[r].naming
    BY <1>2
  <1>4. PICK regenerate \in BOOLEAN : regenerate = req[r].regenerate
    BY <1>2
  <1>5. PICK fresh \in BOOLEAN : fresh = req[r].fresh
    BY <1>2
  <1>6. PICK own : own = Own(r)
    OBVIOUS
  <1>7. /\ unit = req[r].unit /\ own = Own(r) /\ naming = req[r].naming
        /\ regenerate = req[r].regenerate /\ fresh = req[r].fresh
    BY <1>3, <1>4, <1>5, <1>6
  <1>8. PICK i \in Id :
            /\ NextId(i)
            /\ rows' = [rows EXCEPT ![i] = Pending]
            /\ IF regenerate THEN WriteFile(unit, i) ELSE UNCHANGED files
            /\ Become(r, [pc |-> "inserted", unit |-> unit, fresh |-> fresh,
                          naming |-> naming, regenerate |-> regenerate, id |-> i])
    BY <1>7 DEF RegisterInsert
  <1>9. PICK state \in RequestState :
            state = [pc |-> "inserted", unit |-> unit, fresh |-> fresh,
                     naming |-> naming, regenerate |-> regenerate, id |-> i]
    BY RegisterStates
  <1>10. /\ req'[r] = state /\ req' \in [Request -> RequestState]
        /\ \A q \in Request \ {r} : req'[q] = req[q]
    BY <1>8, <1>9, BecomeFacts DEF TInv
  <1>11. RowsOK' /\ KindsStay /\ (\A j \in Id : rows[j] = Pending => rows'[j] = Pending)
    BY <1>8, PendingRow
  <1>12. RegistrationSound(r)
    BY DEF TInv, RegistrationsSound
  <1>13. RefersToRows(unit, own) /\ own = IF fresh THEN {unit.model} ELSE {}
    BY <1>7 DEF RegisterInsert, Own
  <1>14. i # unit.model
    <2>1. fresh => rows[unit.model] = Pending
      BY <1>1, <1>7, <1>12 DEF RegistrationSound, Registering
    <2>2. ~fresh => rows[unit.model].kind = "model"
      BY <1>13, UnitFacts DEF RefersToRows
    <2> QED
      BY <1>8, <2>1, <2>2, NotRows DEF NextId
  <1>15. RefersToRows(unit, own)'
    BY <1>11, <1>13, UnitFacts, RefersKept DEF TInv
  <1>16. Own(r)' = own
    BY <1>9, <1>10, <1>13 DEF Own
  <1>17. RefersToRows(req[r].unit, Own(r))'
    BY <1>9, <1>10, <1>15, <1>16 DEF RefersToRows
  <1>18. RegistrationSound(r)'
    <2>1. /\ fresh => rows[unit.model] = Pending /\ naming # NoModel
          /\ ~fresh /\ naming # NoModel => rows[unit.model].kind = "model"
          /\ naming # NoModel => naming.spelling = "UESS"
      BY <1>1, <1>7, <1>12 DEF RegistrationSound, Registering
    <2>2. rows'[unit.model] = rows[unit.model] /\ rows'[i] = Pending
      BY <1>8, <1>14, UnitFacts DEF TInv, TypeOK
    <2> QED
      BY <1>9, <1>10, <1>14, <1>17, <2>1, <2>2 DEF RegistrationSound
  <1>19. \A j \in Inserted(r)' : j \in Inserted(r) \/ rows[j] # Pending
    BY <1>1, <1>7, <1>8, <1>9, <1>10, NotRows DEF Inserted, Own, Registering, NextId
  <1>20. RegistrationsSound'
    BY <1>10, <1>11, <1>18, <1>19, SoundStep DEF TInv
  <1>21. /\ files' \in [Serial -> QrFile \cup {NoFile}]
         /\ \A s \in Serial : files[s] # NoFile => files'[s] # NoFile
         /\ regenerate => files'[unit.serial] # NoFile
    BY <1>8, WriteFileFacts DEF TInv, TypeOK
  <1>22. ImagesWritten'
    BY <1>9, <1>10, <1>21, ImagesStep DEF TInv, Wrote
  <1>23. TypeOK'
    BY <1>10, <1>11, <1>21 DEF TInv, TypeOK, RowsOK, RegisterInsert
  <1> QED
    BY <1>20, <1>22, <1>23 DEF TInv

\* What a commit makes of the rows.
LEMMA CommitRows ==
    ASSUME TInv, NEW r \in Request, RegisterCommit(r)
    PROVE  /\ req[r].unit \in BESSUnit /\ req[r].id \in Id /\ req[r].unit.model \in Id
           /\ rows[req[r].id] = Pending /\ rows'[req[r].id] = req[r].unit
           /\ req[r].id # req[r].unit.model
           /\ req[r].naming \in ProductModel \cup {NoModel}
           /\ req[r].naming # NoModel =>
                /\ rows'[req[r].unit.model] = req[r].naming
                /\ req[r].naming.kind = "model" /\ req[r].naming.spelling = "UESS"
                /\ rows[req[r].unit.model] = Pending \/ rows[req[r].unit.model].kind = "model"
           /\ \A i \in Id : \/ i = req[r].id
                            \/ i = req[r].unit.model /\ req[r].naming # NoModel
                            \/ rows'[i] = rows[i]
           /\ Registering(req[r])
  <1>1. /\ req[r].unit \in BESSUnit /\ req[r].id \in Id /\ req[r].unit.model \in Id
        /\ req[r].naming \in ProductModel \cup {NoModel}
        /\ req[r].fresh \in BOOLEAN /\ Registering(req[r])
    BY RequestByPc, UnitFacts DEF RegisterCommit, TInv, TypeOK, Registering
  <1>2. /\ rows[req[r].id] = Pending /\ req[r].id # req[r].unit.model
        /\ req[r].naming # NoModel =>
            /\ req[r].naming.spelling = "UESS"
            /\ rows[req[r].unit.model] = Pending \/ rows[req[r].unit.model].kind = "model"
    BY <1>1 DEF TInv, RegistrationsSound, RegistrationSound, RegisterCommit
  <1>3. req[r].naming # NoModel => req[r].naming.kind = "model"
    BY <1>1, ModelFacts
  <1> QED
    BY <1>1, <1>2, <1>3 DEF RegisterCommit

LEMMA TInvRegisterCommit ==
    ASSUME TInv, NEW r \in Request, RegisterCommit(r)
    PROVE  TInv'
  <1>1. PICK unit \in BESSUnit, i \in Id, m \in Id, naming \in ProductModel \cup {NoModel} :
            /\ unit = req[r].unit /\ i = req[r].id /\ m = unit.model
            /\ naming = req[r].naming
    BY CommitRows
  <1>2. /\ rows[i] = Pending /\ rows'[i] = unit /\ i # m
        /\ naming # NoModel =>
            /\ rows'[m] = naming /\ naming.kind = "model" /\ naming \in ProductModel
            /\ rows[m] = Pending \/ rows[m].kind = "model"
        /\ \A j \in Id : j = i \/ (j = m /\ naming # NoModel) \/ rows'[j] = rows[j]
    BY <1>1, CommitRows
  <1>3. KindsStay
    BY <1>2, NotRows DEF KindsStay
  <1>4. PICK own : own = Own(r)
    OBVIOUS
  <1>5. RefersToRows(unit, own) /\ own = IF req[r].fresh THEN {m} ELSE {}
    BY <1>1, <1>4, CommitRows
       DEF TInv, RegistrationsSound, RegistrationSound, RegisterCommit, Own
  <1>6. req[r].fresh => naming # NoModel
    BY <1>1, CommitRows DEF TInv, RegistrationsSound, RegistrationSound
  <1>7. RefersToRows(unit, {})'
    <2>1. RefersToRows(unit, own)'
      BY <1>3, <1>5, UnitFacts, RefersKept DEF TInv
    <2>2. m \in own => rows'[m].kind = "model"
      BY <1>2, <1>5, <1>6
    <2>3. unit.model # None /\ own \subseteq {m}
      BY <1>5, UnitFacts, IdFacts
    <2> QED
      BY <1>1, <2>1, <2>2, <2>3 DEF RefersToRows
  <1>8. rows' \in [Id -> Row \cup {Unused, Pending, Gone}]
    <2>1. unit \in Row /\ (naming # NoModel => naming \in Row)
      BY UnitFacts, ModelFacts
    <2>2. \A j \in Id : rows'[j] \in Row \cup {Unused, Pending, Gone}
      BY <1>2, <2>1 DEF TInv, TypeOK
    <2>3. DOMAIN rows' = Id /\ rows' = [j \in Id |-> rows'[j]]
      BY DEF RegisterCommit
    <2> QED
      BY <2>2, <2>3
  <1>9. RowsOK'
    <2>1. naming # NoModel => RefersToRows(rows[m], {})'
      <3> SUFFICES ASSUME naming # NoModel PROVE RefersToRows(rows[m], {})'
        OBVIOUS
      <3>1. rows'[m] = naming /\ Columns(naming) = {}
        BY <1>2, ModelFacts
      <3> QED
        BY <3>1 DEF RefersToRows
    <2>2. RefersToRows(rows[i], {})'
      BY <1>2, <1>7 DEF RefersToRows
    <2> QED
      BY <1>2, <1>3, <1>8, <2>1, <2>2, RowsStep DEF TInv
  <1>10. /\ req'[r] = Idle /\ req' \in [Request -> RequestState]
         /\ \A q \in Request \ {r} : req'[q] = req[q]
    BY BecomeFacts, PlainStates DEF RegisterCommit, TInv
  <1>11. RegistrationSound(r)' /\ Inserted(r)' = {}
    BY <1>10, PlainStates DEF RegistrationSound, Inserted
  <1>12. \A j \in Id : rows[j] = Pending /\ j \notin Inserted(r) => rows'[j] = Pending
    <2>1. naming # NoModel /\ rows[m] = Pending => m \in Inserted(r)
      BY <1>1, CommitRows, NotRows
         DEF Inserted, Own, TInv, RegistrationsSound, RegistrationSound
    <2>2. i \in Inserted(r)
      BY <1>1, CommitRows DEF Inserted, RegisterCommit
    <2> QED
      BY <1>2, <2>1, <2>2
  <1>13. RegistrationsSound'
    BY <1>3, <1>10, <1>11, <1>12, SoundStep DEF TInv
  <1>14. ImagesWritten'
    BY <1>10, ImagesStep DEF TInv, RegisterCommit, Wrote, Idle
  <1>15. TypeOK'
    BY <1>9, <1>10 DEF TInv, TypeOK, RowsOK, RegisterCommit
  <1> QED
    BY <1>13, <1>14, <1>15 DEF TInv

----------------------------------------------------------------------------
(* The updates, the failures and the panel.                                *)

LEMMA UnitRow ==
    ASSUME TypeOK, NEW i \in Id, rows[i].kind = "unit"
    PROVE  rows[i] \in BESSUnit /\ IsRow(rows[i])
  BY RowByKind, NotRows DEF TypeOK, IsRow

\* An update, or a transition, which loads the unit and changes none of its columns.
LEMMA LoadsUnit ==
    ASSUME TypeOK, NEW r \in Request, NEW i \in Id,
           \/ \E new \in UnitForms({rows[i].model}) : UpdateLoad(r, i, new)
           \/ TransitionLoad(r, i)
    PROVE  \E new \in BESSUnit : UpdateLoad(r, i, new)
  <1>1. rows[i] \in BESSUnit
    BY UnitRow DEF TransitionLoad, UpdateLoad
  <1> QED
    BY <1>1, UnitFacts, FormTypes DEF TransitionLoad

LEMMA TInvUpdateLoad ==
    ASSUME TInv, NEW r \in Request, NEW i \in Id, NEW new \in BESSUnit,
           UpdateLoad(r, i, new)
    PROVE  TInv'
  <1>1. rows[i] \in BESSUnit
    BY UnitRow DEF TInv, UpdateLoad
  <1> QED
    BY <1>1, PlainStates, TInvPlain DEF UpdateLoad

LEMMA TInvUpdateWrite ==
    ASSUME TInv, NEW r \in Request, UpdateWrite(r)
    PROVE  TInv'
  <1>1. /\ req[r] \in [pc : {"loaded", "written"}, id : Id, was : BESSUnit, unit : BESSUnit]
        /\ req[r].pc = "loaded"
    BY RequestByPc DEF UpdateWrite, TInv, TypeOK
  <1>2. PICK state \in RequestState : state = [req[r] EXCEPT !.pc = "written"]
    BY <1>1 DEF RequestState
  <1>3. state.pc = "written" /\ state.unit = req[r].unit /\ ~Registering(state)
    BY <1>1, <1>2 DEF Registering
  <1>4. /\ req'[r] = state /\ req' \in [Request -> RequestState]
        /\ \A q \in Request \ {r} : req'[q] = req[q]
    BY <1>2, BecomeFacts DEF TInv, UpdateWrite
  <1>5. PICK unit \in BESSUnit, i \in Id : unit = req[r].unit /\ i = req[r].id
    BY <1>1
  <1>6. /\ files' \in [Serial -> QrFile \cup {NoFile}]
        /\ files'[unit.serial] # NoFile
        /\ \A s \in Serial : files[s] # NoFile => files'[s] # NoFile
    BY <1>5, WriteFileFacts DEF TInv, UpdateWrite
  <1>7. ImagesWritten'
    BY <1>3, <1>4, <1>5, <1>6, ImagesStep DEF TInv
  <1>8. RegistrationSound(r)' /\ Inserted(r)' = {}
    BY <1>3, <1>4 DEF RegistrationSound, Inserted
  <1>9. RegistrationsSound'
    BY <1>4, <1>8, SoundStep DEF TInv, KindsStay, UpdateWrite
  <1>10. TypeOK'
    BY <1>4, <1>6 DEF TInv, TypeOK, UpdateWrite, RefersToRows
  <1> QED
    BY <1>7, <1>9, <1>10 DEF TInv

\* A row is replaced by one of its kind.
LEMMA ReplacedRow ==
    ASSUME TInv, NEW i \in Id, NEW x \in Row, rows' = [rows EXCEPT ![i] = x],
           rows[i] = Unused \/ rows[i].kind = x.kind,
           RefersToRows(x, {})
    PROVE  RowsOK' /\ KindsStay /\ (\A j \in Id : rows[j] = Pending => rows'[j] = Pending)
  <1>1. IsRow(x)
    BY RowByKind
  <1>2. rows'[i] = x /\ \A j \in Id \ {i} : rows'[j] = rows[j]
    BY DEF TInv, TypeOK
  <1>3. KindsStay /\ \A j \in Id : rows[j] = Pending => rows'[j] = Pending
    BY <1>1, <1>2, NotRows DEF KindsStay, IsRow
  <1>4. RefersToRows(x, {})'
    BY <1>3, RefersKept DEF TInv
  <1>5. RefersToRows(rows[i], {})'
    BY <1>2, <1>4 DEF RefersToRows
  <1>6. rows' \in [Id -> Row \cup {Unused, Pending, Gone}]
    BY DEF TInv, TypeOK
  <1> QED
    BY <1>2, <1>3, <1>5, <1>6, RowsStep DEF TInv

\* What an update makes of a row: a unit, and each column one of two.
LEMMA UpdatedRow ==
    ASSUME NEW now \in BESSUnit, NEW was \in BESSUnit, NEW unit \in BESSUnit
    PROVE  /\ Updated(now, was, unit) \in BESSUnit
           /\ \A c \in {"serial", "model", "located", "customer", "deleted"} :
                Updated(now, was, unit)[c] = IF unit[c] # was[c] THEN unit[c] ELSE now[c]
  <1>1. DOMAIN now = {"kind", "serial", "model", "country", "state", "city", "located",
                      "customer", "deleted"}
    BY DEF BESSUnit
  <1> DEFINE new == [c \in DOMAIN now |-> IF unit[c] # was[c] THEN unit[c] ELSE now[c]]
  <1>2. \A c \in DOMAIN now : new[c] \in {unit[c], now[c]}
    OBVIOUS
  <1>3. /\ \A x \in {unit, now} :
            /\ x["kind"] \in {"unit"} /\ x["serial"] \in Serial /\ x["model"] \in Id
            /\ x["country"] \in Id /\ x["state"] \in Id \cup {None} /\ x["city"] \in Id
            /\ x["located"] \in BOOLEAN /\ x["customer"] \in BOOLEAN
            /\ x["deleted"] \in BOOLEAN
    BY DEF BESSUnit
  <1>4. /\ new["kind"] \in {"unit"} /\ new["serial"] \in Serial /\ new["model"] \in Id
        /\ new["country"] \in Id /\ new["state"] \in Id \cup {None} /\ new["city"] \in Id
    BY <1>1, <1>2, <1>3
  <1>5. /\ new["located"] \in BOOLEAN /\ new["customer"] \in BOOLEAN
        /\ new["deleted"] \in BOOLEAN
    BY <1>1, <1>2, <1>3
  <1>6. DOMAIN new = DOMAIN now /\ new = [c \in DOMAIN now |-> new[c]]
    OBVIOUS
  <1>7. \A c \in {"serial", "model", "located", "customer", "deleted"} :
            new[c] = IF unit[c] # was[c] THEN unit[c] ELSE now[c]
    BY <1>1
  <1> HIDE DEF new
  <1>8. new \in BESSUnit
    BY <1>1, <1>4, <1>5, <1>6 DEF BESSUnit
  <1>9. new = Updated(now, was, unit)
    BY DEF new, Updated
  <1> QED
    BY <1>7, <1>8, <1>9

LEMMA TInvUpdateCommit ==
    ASSUME TInv, NEW r \in Request, UpdateCommit(r)
    PROVE  TInv'
  <1>1. /\ req[r] \in [pc : {"loaded", "written"}, id : Id, was : BESSUnit, unit : BESSUnit]
        /\ req[r].pc = "written"
    BY RequestByPc DEF UpdateCommit, TInv, TypeOK
  <1>2. PICK i \in Id, now \in BESSUnit, was \in BESSUnit, unit \in BESSUnit :
            i = req[r].id /\ now = rows[i] /\ was = req[r].was /\ unit = req[r].unit
    BY <1>1, UnitRow DEF TInv, UpdateCommit
  <1>3. PICK new \in BESSUnit : new = Updated(now, was, unit)
    BY UpdatedRow
  <1>4. rows' = [rows EXCEPT ![i] = new] /\ RefersToRows(new, {})
    BY <1>2, <1>3 DEF UpdateCommit
  <1>5. new \in Row /\ rows[i].kind = new.kind
    BY <1>2, UnitFacts
  <1>6. RowsOK' /\ KindsStay /\ (\A j \in Id : rows[j] = Pending => rows'[j] = Pending)
    BY <1>4, <1>5, ReplacedRow
  <1>7. /\ req'[r] = Idle /\ req' \in [Request -> RequestState]
        /\ \A q \in Request \ {r} : req'[q] = req[q]
    BY BecomeFacts, PlainStates DEF UpdateCommit, TInv
  <1>8. RegistrationSound(r)' /\ Inserted(r)' = {}
    BY <1>7, PlainStates DEF RegistrationSound, Inserted
  <1>9. RegistrationsSound'
    BY <1>6, <1>7, <1>8, SoundStep DEF TInv
  <1>10. ImagesWritten'
    BY <1>7, ImagesStep DEF TInv, UpdateCommit, Wrote, Idle
  <1>11. TypeOK'
    BY <1>6, <1>7 DEF TInv, TypeOK, RowsOK, UpdateCommit
  <1> QED
    BY <1>9, <1>10, <1>11 DEF TInv

\* A step that leaves the requests and the files alone.
LEMMA TInvRows ==
    ASSUME TInv, RowsOK', KindsStay, \A j \in Id : rows[j] = Pending => rows'[j] = Pending,
           UNCHANGED <<files, req, mode>>, touched' \subseteq Id, edits' \in 0..MaxEdits
    PROVE  TInv'
  <1>1. RegistrationsSound'
    BY SoundRows DEF TInv
  <1>2. TypeOK'
    BY DEF TInv, TypeOK, RowsOK
  <1>3. ImagesWritten'
    BY DEF TInv, ImagesWritten, Wrote
  <1> QED
    BY <1>1, <1>2, <1>3 DEF TInv

LEMMA DeletedUnit ==
    ASSUME TypeOK, NEW i \in Id, rows[i].kind = "unit",
           rows' = [rows EXCEPT ![i].deleted = TRUE]
    PROVE  \E new \in BESSUnit :
                /\ rows' = [rows EXCEPT ![i] = new]
                /\ new = [rows[i] EXCEPT !.deleted = TRUE]
                /\ new.deleted
                /\ \A c \in (DOMAIN rows[i]) \ {"deleted"} : new[c] = rows[i][c]
                /\ DOMAIN new = DOMAIN rows[i]
                /\ new.serial = rows[i].serial /\ new.kind = "unit"
  <1>1. rows[i] \in BESSUnit
    BY UnitRow
  <1>2. PICK new \in BESSUnit : new = [rows[i] EXCEPT !.deleted = TRUE]
    BY <1>1 DEF BESSUnit
  <1>3. /\ new.serial = rows[i].serial /\ new.kind = "unit" /\ new.deleted
        /\ \A c \in (DOMAIN rows[i]) \ {"deleted"} : new[c] = rows[i][c]
        /\ DOMAIN new = DOMAIN rows[i]
    BY <1>1, <1>2 DEF BESSUnit
  <1>4. rows' = [rows EXCEPT ![i] = new]
    BY <1>2
  <1> QED
    BY <1>2, <1>3, <1>4

LEMMA TInvDeleteUnit ==
    ASSUME TInv, NEW r \in Request, NEW i \in Id, DeleteUnit(r, i)
    PROVE  TInv'
  <1>1. rows[i].kind = "unit" /\ rows[i] \in BESSUnit /\ IsRow(rows[i])
    BY UnitRow DEF TInv, DeleteUnit
  <1>2. PICK new \in BESSUnit :
            /\ rows' = [rows EXCEPT ![i] = new]
            /\ \A c \in (DOMAIN rows[i]) \ {"deleted"} : new[c] = rows[i][c]
            /\ DOMAIN new = DOMAIN rows[i]
    BY <1>1, DeletedUnit DEF TInv, DeleteUnit
  <1>3. RefersToRows(rows[i], {})
    BY <1>1 DEF TInv, TypeOK
  <1>4. RefersToRows(new, {})
    BY <1>2, <1>3 DEF RefersToRows, Columns
  <1>5. new \in Row /\ new.kind = rows[i].kind
    BY <1>1, UnitFacts
  <1>6. RowsOK' /\ KindsStay /\ (\A j \in Id : rows[j] = Pending => rows'[j] = Pending)
    BY <1>2, <1>4, <1>5, ReplacedRow
  <1>7. UNCHANGED <<files, req, touched, edits, mode>>
    BY DEF DeleteUnit
  <1> QED
    BY <1>6, <1>7, TInvRows DEF TInv, TypeOK

\* The units of a shipment, as assign_shipment_site loaded them.
LEMMA TInvAssignSiteLoad ==
    ASSUME TInv, NEW r \in Request, NEW s \in Id, NEW linked \in SUBSET Rows("unit"),
           AssignSiteLoad(r, s, linked)
    PROVE  TInv'
  <1>1. rows[s] \in Site
    BY RowByKind, NotRows DEF AssignSiteLoad, TInv, TypeOK
  <1>2. \A i \in linked : rows[i] \in BESSUnit
    BY UnitRow DEF Rows, TInv
  <1>3. [i \in Id |-> IF i \in linked /\ ~rows[i].deleted THEN rows[i] ELSE Unused]
            \in [Id -> BESSUnit \cup {Unused}]
    BY <1>2
  <1> QED
    BY <1>1, <1>3, PlainStates, TInvPlain DEF AssignSiteLoad

\* What a site makes of a unit: its place, and no more.
LEMMA SitedRow ==
    ASSUME TypeOK, NEW r \in Request, AssignSiteCommit(r), NEW i \in Id
    PROVE  \/ Sited(i, r) = rows[i] /\ ~IsRow(req[r].was[i])
           \/ /\ rows[i] \in BESSUnit /\ Sited(i, r) \in BESSUnit /\ IsRow(req[r].was[i])
              /\ \A c \in {"serial", "model", "customer", "deleted"} :
                    Sited(i, r)[c] = rows[i][c]
              /\ RefersToRows(Sited(i, r), {})
              /\ Sited(i, r).located = IF req[r].site.located # req[r].was[i].located
                                       THEN req[r].site.located ELSE rows[i].located
  <1>1. CASE ~IsRow(req[r].was[i])
    BY <1>1 DEF Sited
  <1>2. CASE IsRow(req[r].was[i])
    <2>1. req[r] \in [pc : {"siting"}, site : Site, was : [Id -> BESSUnit \cup {Unused}]]
      BY RequestByPc DEF AssignSiteCommit, TypeOK
    <2>2. PICK was \in BESSUnit, now \in BESSUnit, site \in Site :
              was = req[r].was[i] /\ now = rows[i] /\ site = req[r].site
      BY <1>2, <2>1, UnitRow, NotRows DEF AssignSiteCommit
    <2>3. PICK unit \in BESSUnit :
              unit = [was EXCEPT !.country = site.country, !.city = site.city,
                                 !.located = site.located]
      BY DEF BESSUnit, Site
    <2>4. /\ unit["serial"] = was["serial"] /\ unit["model"] = was["model"]
          /\ unit["customer"] = was["customer"] /\ unit["deleted"] = was["deleted"]
          /\ unit["located"] = site["located"]
      BY <2>3 DEF BESSUnit
    <2>5. Sited(i, r) = Updated(now, was, unit)
      BY <1>2, <2>2, <2>3 DEF Sited
    <2>6. RefersToRows(Sited(i, r), {})
      BY <1>2 DEF AssignSiteCommit
    <2> QED
      BY <1>2, <2>2, <2>4, <2>5, <2>6, UpdatedRow
  <1> QED
    BY <1>1, <1>2

\* What assign_shipment_site makes of the rows and, as far as the history of an
\* image goes, of the images.
LEMMA SitedRows ==
    ASSUME TypeOK, NEW r \in Request, AssignSiteCommit(r)
    PROVE  /\ rows' \in [Id -> Row \cup {Unused, Pending, Gone}]
           /\ \A i \in Id :
                \/ rows'[i] = rows[i]
                \/ /\ rows[i] \in BESSUnit /\ rows'[i] \in BESSUnit
                   /\ \A c \in {"serial", "model", "customer", "deleted"} :
                         rows'[i][c] = rows[i][c]
                   /\ RefersToRows(rows'[i], {})
           /\ req[r].pc = "siting" /\ req'[r] = Idle /\ req' \in [Request -> RequestState]
           /\ \A q \in Request \ {r} : req'[q] = req[q]
  <1>1. \A i \in Id : rows'[i] = Sited(i, r)
    BY DEF AssignSiteCommit
  <1>2. \A i \in Id : rows'[i] \in Row \cup {Unused, Pending, Gone}
    BY <1>1, SitedRow, UnitFacts DEF TypeOK
  <1>3. rows' = [i \in Id |-> rows'[i]]
    BY DEF AssignSiteCommit
  <1>4. req[r].pc = "siting" /\ Become(r, Idle)
    BY DEF AssignSiteCommit
  <1> QED
    BY <1>1, <1>2, <1>3, <1>4, SitedRow, BecomeFacts, PlainStates

LEMMA SitedImages ==
    ASSUME TypeOK, NEW r \in Request, AssignSiteCommit(r)
    PROVE  /\ files' \in [Serial -> QrFile \cup {NoFile}]
           /\ \A s \in Serial :
                /\ files'[s] = NoFile <=> files[s] = NoFile
                /\ files'[s].unit = files[s].unit /\ files'[s].void = files[s].void
                /\ files'[s].public = files[s].public
                /\ files'[s] = files[s] \/ files'[s].sited
           /\ \A i \in Id : rows[i].kind = "unit" /\ files[rows[i].serial] # NoFile =>
                \/ files'[rows[i].serial].sited
                \/ rows'[i].located = rows[i].located
  <1>1. PICK moved :
            /\ moved = {i \in Id : IsRow(req[r].was[i])
                                     /\ Sited(i, r).located # rows[i].located}
            /\ files' = [s \in Serial |->
                            IF files[s] # NoFile /\ \E i \in moved : rows[i].serial = s
                            THEN [files[s] EXCEPT !.sited = TRUE] ELSE files[s]]
    BY DEF AssignSiteCommit
  <1>2. ASSUME NEW s \in Serial
        PROVE  /\ files'[s] \in QrFile \cup {NoFile}
               /\ files'[s] = NoFile <=> files[s] = NoFile
               /\ files'[s].unit = files[s].unit /\ files'[s].void = files[s].void
               /\ files'[s].public = files[s].public
               /\ files'[s] = files[s] \/ files'[s].sited
               /\ files[s] # NoFile /\ (\E i \in moved : rows[i].serial = s) => files'[s].sited
    <2>1. CASE ~(files[s] # NoFile /\ \E i \in moved : rows[i].serial = s)
      BY <1>1, <2>1 DEF TypeOK
    <2>2. CASE files[s] # NoFile /\ \E i \in moved : rows[i].serial = s
      <3>1. files[s] \in QrFile
        BY <2>2 DEF TypeOK
      <3>2. PICK f \in QrFile : f = [files[s] EXCEPT !.sited = TRUE]
        BY <3>1 DEF QrFile
      <3>3. /\ f.unit = files[s].unit /\ f.void = files[s].void
            /\ f.public = files[s].public /\ f.sited /\ f # NoFile
        BY <3>1, <3>2, IdFacts DEF QrFile, NoFile
      <3>4. files'[s] = f
        BY <1>1, <2>2, <3>2
      <3> QED
        BY <2>2, <3>3, <3>4
    <2> QED
      BY <2>1, <2>2
  <1>3. files' = [s \in Serial |-> files'[s]]
    BY <1>1
  <1>4. ASSUME NEW i \in Id, rows[i].kind = "unit", files[rows[i].serial] # NoFile,
               rows'[i].located # rows[i].located
        PROVE  files'[rows[i].serial].sited
    <2>1. rows[i].serial \in Serial
      BY <1>4, UnitRow, UnitFacts
    <2>2. rows'[i] = Sited(i, r)
      BY DEF AssignSiteCommit
    <2>3. IsRow(req[r].was[i])
      BY <1>4, <2>2, SitedRow
    <2>4. i \in moved
      BY <1>1, <1>4, <2>2, <2>3
    <2> QED
      BY <1>2, <1>4, <2>1, <2>4
  <1> QED
    BY <1>2, <1>3, <1>4

LEMMA TInvAssignSiteCommit ==
    ASSUME TInv, NEW r \in Request, AssignSiteCommit(r)
    PROVE  TInv'
  <1>1. /\ \A i \in Id : \/ rows'[i] = rows[i]
                         \/ /\ rows[i] \in BESSUnit /\ rows'[i] \in BESSUnit
                            /\ RefersToRows(rows'[i], {})
        /\ rows' \in [Id -> Row \cup {Unused, Pending, Gone}]
        /\ req'[r] = Idle /\ req' \in [Request -> RequestState]
        /\ \A q \in Request \ {r} : req'[q] = req[q]
    BY SitedRows DEF TInv
  <1>2. KindsStay /\ \A j \in Id : rows[j] = Pending => rows'[j] = Pending
    BY <1>1, UnitFacts, NotRows DEF KindsStay
  <1>3. RowsOK'
    <2>1. ASSUME NEW i \in Id, rows'[i] # rows[i]
          PROVE  RefersToRows(rows[i], {})'
      <3>1. PICK x \in Row : x = rows'[i] /\ RefersToRows(x, {})
        BY <1>1, <2>1, UnitFacts
      <3>2. RefersToRows(x, {})'
        BY <1>2, <3>1, RefersKept DEF TInv
      <3> QED
        BY <3>1, <3>2 DEF RefersToRows
    <2> QED
      BY <1>1, <1>2, <2>1, RowsStep DEF TInv
  <1>4. RegistrationSound(r)' /\ Inserted(r)' = {}
    BY <1>1, PlainStates DEF RegistrationSound, Inserted
  <1>5. RegistrationsSound'
    BY <1>1, <1>2, <1>4, SoundStep DEF TInv
  <1>6. /\ files' \in [Serial -> QrFile \cup {NoFile}]
        /\ \A s \in Serial : files[s] # NoFile => files'[s] # NoFile
    BY SitedImages DEF TInv
  <1>7. ImagesWritten'
    BY <1>1, <1>6, ImagesStep DEF TInv, Wrote, Idle
  <1>8. TypeOK'
    BY <1>1, <1>3, <1>6 DEF TInv, TypeOK, RowsOK, AssignSiteCommit
  <1> QED
    BY <1>5, <1>7, <1>8 DEF TInv

LEMMA TInvFail ==
    ASSUME TInv, NEW r \in Request, Fail(r)
    PROVE  TInv'
  <1>1. /\ req'[r] = Idle /\ req' \in [Request -> RequestState]
        /\ \A q \in Request \ {r} : req'[q] = req[q]
    BY BecomeFacts, PlainStates DEF Fail, TInv
  <1>2. \A i \in Inserted(r) : rows[i] = Pending
    BY InsertedFacts DEF TInv
  <1>3. /\ rows' \in [Id -> Row \cup {Unused, Pending, Gone}]
        /\ \A i \in Id : rows'[i] = IF i \in Inserted(r) THEN Gone ELSE rows[i]
    BY DEF Fail, TInv, TypeOK
  <1>4. KindsStay
    BY <1>2, <1>3, NotRows DEF KindsStay
  <1>5. RowsOK'
    BY <1>3, <1>4, NotRows, RowsStep DEF TInv
  <1>6. RegistrationSound(r)' /\ Inserted(r)' = {}
    BY <1>1, PlainStates DEF RegistrationSound, Inserted
  <1>7. RegistrationsSound'
    BY <1>1, <1>3, <1>4, <1>6, SoundStep DEF TInv
  <1>8. /\ files' \in [Serial -> QrFile \cup {NoFile}]
        /\ \A s \in Serial : files[s] # NoFile => files'[s] # NoFile
    <2>1. CASE Wrote(r)
      <3>1. req[r].unit \in BESSUnit
        BY <2>1, RequestByPc DEF Wrote, TInv, TypeOK
      <3>2. PICK s \in Serial : s = req[r].unit.serial
        BY <3>1, UnitFacts
      <3>3. files[s] \in QrFile
        BY <2>1, <3>2 DEF TInv, TypeOK, ImagesWritten
      <3>4. PICK f \in QrFile : f = [files[s] EXCEPT !.void = TRUE]
        BY <3>3 DEF QrFile
      <3>5. files' = [files EXCEPT ![s] = f]
        BY <2>1, <3>2, <3>4 DEF Fail, Wrote
      <3>6. f # NoFile
        BY IdFacts DEF QrFile, NoFile
      <3> QED
        BY <3>5, <3>6 DEF TInv, TypeOK
    <2>2. CASE ~Wrote(r)
      BY <2>2 DEF Fail, Wrote, TInv, TypeOK
    <2> QED
      BY <2>1, <2>2
  <1>9. ImagesWritten'
    BY <1>1, <1>8, ImagesStep DEF TInv, Wrote, Idle
  <1>10. TypeOK'
    BY <1>1, <1>5, <1>8 DEF TInv, TypeOK, RowsOK, Fail
  <1> QED
    BY <1>7, <1>9, <1>10 DEF TInv

LEMMA EditCounted == TypeOK /\ edits < MaxEdits => edits + 1 \in 0..MaxEdits
  BY RegistryAssumption DEF TypeOK

LEMMA TInvPanelSave ==
    ASSUME TInv, NEW i \in Id, NEW x \in MasterForms \cup UnitForms(Rows("model")),
           PanelSave(i, x)
    PROVE  TInv'
  <1>1. x \in Row
    BY FormTypes DEF TInv, Row
  <1>2. rows' = [rows EXCEPT ![i] = x] /\ RefersToRows(x, {})
        /\ (rows[i] = Unused \/ rows[i].kind = x.kind)
    BY DEF PanelSave, NextId
  <1>3. RowsOK' /\ KindsStay /\ (\A j \in Id : rows[j] = Pending => rows'[j] = Pending)
    BY <1>1, <1>2, ReplacedRow
  <1>4. UNCHANGED <<files, req, mode>> /\ touched' \subseteq Id /\ edits' \in 0..MaxEdits
    BY EditCounted DEF PanelSave, Edits, TInv, TypeOK
  <1> QED
    BY <1>3, <1>4, TInvRows

LEMMA RefersWithout ==
    ASSUME TypeOK, NEW i \in Id, rows' = [rows EXCEPT ![i] = Gone],
           NEW x \in Row, NEW own, RefersToRows(x, own), ~RefersTo(x, i)
    PROVE  RefersToRows(x, own)'
  <1> SUFFICES ASSUME NEW c \in Columns(x)
               PROVE  \/ x[c] # None /\ rows'[x[c]].kind = c
                      \/ c = "state" /\ x[c] = None
                      \/ c = "model" /\ x[c] \in own
    BY DEF RefersToRows
  <1>1. x[c] # i /\ x[c] \in Id \cup {None}
    BY ColumnFacts DEF RefersTo
  <1>2. x[c] # None => rows'[x[c]] = rows[x[c]]
    BY <1>1 DEF TypeOK
  <1> QED
    BY <1>1, <1>2 DEF RefersToRows

LEMMA TInvPanelDelete ==
    ASSUME TInv, NEW i \in Id, PanelDelete(i)
    PROVE  TInv'
  <1>1. /\ IsRow(rows[i]) /\ ~Locked(i) /\ rows' = [rows EXCEPT ![i] = Gone]
        /\ \A j \in Id : IsRow(rows[j]) => ~RefersTo(rows[j], i)
        /\ UNCHANGED <<files, req, mode>> /\ touched' \subseteq Id /\ edits' \in 0..MaxEdits
    BY EditCounted DEF PanelDelete, Edits, TInv, TypeOK
  <1>2. /\ rows' \in [Id -> Row \cup {Unused, Pending, Gone}]
        /\ rows'[i] = Gone /\ \A j \in Id \ {i} : rows'[j] = rows[j]
    BY <1>1 DEF TInv, TypeOK
  <1>3. ASSUME NEW j \in Id, IsRow(rows'[j])
        PROVE  RefersToRows(rows[j], {})'
    <2>1. j # i /\ rows'[j] = rows[j]
      BY <1>2, <1>3, NotRows
    <2>2. PICK x \in Row : x = rows[j]
      BY <1>3, <2>1, NotRows DEF TInv, TypeOK
    <2>3. RefersToRows(x, {}) /\ ~RefersTo(x, i)
      BY <1>1, <1>3, <2>1, <2>2 DEF TInv, TypeOK
    <2>4. RefersToRows(x, {})'
      BY <1>1, <2>3, RefersWithout DEF TInv
    <2> QED
      BY <2>1, <2>2, <2>4 DEF RefersToRows
  <1>4. ASSUME NEW r \in Request
        PROVE  RegistrationSound(r)'
    <2> SUFFICES ASSUME Registering(req[r]) PROVE RegistrationSound(r)'
      BY <1>1 DEF RegistrationSound
    <2>1. req[r].unit \in BESSUnit /\ req[r].unit.model \in Id
      BY RegisteringType DEF TInv, TypeOK
    <2>2. RegistrationSound(r) /\ req'[r] = req[r]
      BY <1>1 DEF TInv, RegistrationsSound
    <2>3. req[r].fresh => rows'[req[r].unit.model] = Pending
      BY <1>1, <1>2, <2>1, <2>2, NotRows DEF RegistrationSound
    <2>4. ~req[r].fresh /\ req[r].naming # NoModel => rows'[req[r].unit.model].kind = "model"
      BY <1>1, <1>2, <2>1, <2>2 DEF RegistrationSound, Locked
    <2>5. CASE req[r].pc # "inserted"
      BY <2>2, <2>3, <2>4, <2>5 DEF RegistrationSound
    <2>6. CASE req[r].pc = "inserted"
      <3>1. req[r].id \in Id
        BY <2>6, RequestByPc DEF TInv, TypeOK
      <3>2. rows'[req[r].id] = Pending
        BY <1>1, <1>2, <2>2, <2>6, <3>1, NotRows DEF RegistrationSound
      <3>3. PICK x \in Row, own \in {Own(r)} : x = req[r].unit /\ own = Own(r)
        BY <2>1, UnitFacts
      <3>4. RefersToRows(x, own) /\ ~RefersTo(x, i)
        BY <1>1, <2>2, <2>6, <3>3 DEF RegistrationSound, Locked
      <3>5. RefersToRows(x, own)'
        BY <1>1, <3>4, RefersWithout DEF TInv
      <3>6. RefersToRows(req[r].unit, Own(r))'
        BY <2>2, <3>3, <3>5 DEF RefersToRows, Own
      <3> QED
        BY <2>2, <2>3, <2>4, <3>2, <3>6 DEF RegistrationSound
    <2> QED
      BY <2>5, <2>6
  <1>5. RegistrationsSound'
    BY <1>1, <1>4 DEF TInv, RegistrationsSound, Disjoint, Inserted, Own
  <1>6. ImagesWritten'
    BY <1>1 DEF TInv, ImagesWritten, Wrote
  <1>7. TypeOK'
    BY <1>1, <1>2, <1>3 DEF TInv, TypeOK
  <1> QED
    BY <1>5, <1>6, <1>7 DEF TInv

LEMMA TInvStutter == TInv /\ UNCHANGED vars => TInv'
  <1> SUFFICES ASSUME TInv, UNCHANGED vars PROVE TInv'
    OBVIOUS
  <1>1. rows' = rows /\ RowsOK' /\ KindsStay
    BY DEF TInv, vars, TypeOK, RowsOK, RefersToRows, KindsStay
  <1> QED
    BY <1>1, TInvRows DEF TInv, vars, TypeOK

\* The rows at the start, or none.
LEMMA SeedFacts ==
    ASSUME Init
    PROVE  /\ rows \in [Id -> MasterRow \cup {Unused}]
           /\ \A i \in Id : IsRow(rows[i]) =>
                /\ rows[i] \in MasterRow
                /\ rows[i].kind \in {"country", "city", "warehouse", "model"}
                /\ rows[i].kind = "city" => rows[i].state = None
                /\ \A c \in Columns(rows[i]) \ {"state"} : rows[rows[i][c]].kind = c
                /\ \A j \in Id \ {i} : IsRow(rows[j]) => ~Same(rows[i], rows[j])
  <1>1. CASE rows = Seeded
    BY <1>1, NotRows, RegistryAssumption, SeedAssumption
  <1>2. CASE rows = [i \in Id |-> Unused]
    BY <1>2, NotRows
  <1> QED
    BY <1>1, <1>2 DEF Init

LEMMA TInvInit == Init => TInv
  <1> SUFFICES ASSUME Init PROVE TInv
    OBVIOUS
  <1>1. rows \in [Id -> Row \cup {Unused, Pending, Gone}]
    BY SeedFacts, MasterRows
  <1>2. ASSUME NEW i \in Id, IsRow(rows[i])
        PROVE  RefersToRows(rows[i], {})
    <2>1. PICK x \in Row : x = rows[i]
      BY <1>2, SeedFacts, MasterRows
    <2>2. \A c \in Columns(x) : IF c = "state" THEN x[c] = None ELSE rows[x[c]].kind = c
      <3>1. x.kind \in {"country", "city", "warehouse", "model"} /\ x \in MasterRow
        BY <1>2, <2>1, SeedFacts
      <3>2. "state" \in Columns(x) => x.kind = "city"
        BY <3>1 DEF Columns, MasterRow, Country, State, City, Warehouse, Site, ProductModel
      <3> QED
        BY <1>2, <2>1, <3>1, <3>2, SeedFacts
    <2>3. \A c \in Columns(x) : c # "state" => x[c] # None
      BY ColumnFacts
    <2> QED
      BY <2>1, <2>2, <2>3 DEF RefersToRows
  <1>3. req \in [Request -> RequestState] /\ \A r \in Request : req[r] = Idle
    BY PlainStates DEF Init
  <1>4. RegistrationsSound
    BY <1>3, PlainStates DEF RegistrationsSound, RegistrationSound, Disjoint, Inserted
  <1>5. ImagesWritten
    BY <1>3 DEF ImagesWritten, Wrote, Idle
  <1>6. TypeOK
    <2>1. files \in [Serial -> QrFile \cup {NoFile}]
      BY DEF Init
    <2>2. edits \in 0..MaxEdits /\ touched \subseteq Id /\ mode \in Modes
      BY RegistryAssumption DEF Init
    <2> QED
      BY <1>1, <1>2, <1>3, <2>1, <2>2 DEF TypeOK
  <1> QED
    BY <1>4, <1>5, <1>6 DEF TInv

\* The disjuncts of Next, with the forms they take.
LEMMA Steps ==
    ASSUME TypeOK, Next
    PROVE  \/ \E r \in Request :
                \/ \E x \in MasterForms : CreateLook(r, x)
                \/ CreateInsert(r)
                \/ \E regenerate \in BOOLEAN, unit \in UnitForms(Rows("model")) :
                        ResolveGiven(r, unit, regenerate)
                \/ \E regenerate \in BOOLEAN, unit \in UnitForms(Rows("model")),
                      family \in Family : ResolveNamed(r, unit, regenerate, family)
                \/ \E regenerate \in BOOLEAN, i \in Id, family \in Family :
                        \E unit \in UnitForms({i}) :
                            ResolveMissing(r, unit, regenerate, family)
                \/ RegisterCheck(r)
                \/ RegisterInsert(r)
                \/ RegisterCommit(r)
                \/ \E i \in Id : DeleteUnit(r, i)
                \/ \E i \in Id, new \in BESSUnit : UpdateLoad(r, i, new)
                \/ UpdateWrite(r)
                \/ UpdateCommit(r)
                \/ \E s \in Id, linked \in SUBSET Rows("unit") :
                        AssignSiteLoad(r, s, linked)
                \/ AssignSiteCommit(r)
                \/ Fail(r)
           \/ \E i \in Id : PanelDelete(i)
           \/ \E i \in Id : \E x \in MasterForms \cup UnitForms(Rows("model")) :
                    PanelSave(i, x)
  <1>1. ASSUME NEW r \in Request, NEW i \in Rows("unit"),
               \/ TransitionLoad(r, i)
               \/ \E new \in UnitForms({rows[i].model}) : UpdateLoad(r, i, new)
        PROVE  i \in Id /\ \E new \in BESSUnit : UpdateLoad(r, i, new)
    BY <1>1, LoadsUnit, FormTypes
  <1> QED
    BY <1>1, FormTypes DEF Next, RequestNext, Register, PanelNext

LEMMA TInvStep == TInv /\ [Next]_vars => TInv'
  <1>1. ASSUME TInv, Next PROVE TInv'
    BY <1>1, Steps, TInvCreateLook, TInvCreateInsert, TInvResolveGiven, TInvResolveNamed,
       TInvResolveMissing, TInvRegisterCheck, TInvRegisterInsert, TInvRegisterCommit,
       TInvDeleteUnit, TInvUpdateLoad, TInvUpdateWrite, TInvUpdateCommit,
       TInvAssignSiteLoad, TInvAssignSiteCommit, TInvFail, TInvPanelDelete, TInvPanelSave
       DEF TInv
  <1> QED
    BY <1>1, TInvStutter

LEMMA TInvHolds == Spec => []TInv
  BY TInvInit, TInvStep, PTL DEF Spec

\* No row refers to one that is not there, whatever a request inserts and the
\* panel deletes meanwhile (app/admin.py, the services of app/domains/master).
THEOREM RegistryTypes == Spec => []TypeOK
  <1>1. TInv => TypeOK
    BY DEF TInv
  <1> QED
    BY <1>1, TInvHolds, PTL

----------------------------------------------------------------------------
(* Registrations are atomic.                                               *)

LEMMA CommittedKept ==
    ASSUME \A i \in Id : rows'[i] = rows[i] \/ (~IsRow(rows[i]) /\ ~IsRow(rows'[i]))
    PROVE  Committed' = Committed
  BY DEF Committed

\* What a step of the relation that RegistrationIsAtomic boxes has to show.
Atomic ==
    \A r \in Request :
        /\ req'[r] # req[r]
        /\ Registering(req[r]) \/ Registering(req'[r])
        => \/ Committed' = Committed
           \/ \E i \in Id : rows[i] = Pending /\ rows'[i] = req[r].unit

LEMMA AtomicPending ==
    ASSUME TInv, NEW i \in Id, NextId(i), rows' = [rows EXCEPT ![i] = Pending]
    PROVE  Committed' = Committed
  <1>1. \A j \in Id : j # i => rows'[j] = rows[j]
    BY DEF TInv, TypeOK
  <1>2. rows'[i] = Pending /\ rows[i] = Unused
    BY DEF TInv, TypeOK, NextId
  <1> QED
    BY <1>1, <1>2, NotRows, CommittedKept

\* A request that is no registration before and after is not concerned.
LEMMA AtomicOther ==
    ASSUME NEW r \in Request, \A q \in Request \ {r} : req'[q] = req[q],
           ~Registering(req[r]), ~Registering(req'[r])
    PROVE  Atomic
  BY DEF Atomic

LEMMA AtomicRegistering ==
    ASSUME TInv, NEW r \in Request,
           \/ \E regenerate \in BOOLEAN, unit \in UnitForms(Rows("model")) :
                   ResolveGiven(r, unit, regenerate)
           \/ \E regenerate \in BOOLEAN, unit \in UnitForms(Rows("model")),
                 family \in Family : ResolveNamed(r, unit, regenerate, family)
           \/ \E regenerate \in BOOLEAN, i \in Id, family \in Family :
                   \E unit \in UnitForms({i}) : ResolveMissing(r, unit, regenerate, family)
           \/ RegisterCheck(r)
           \/ RegisterInsert(r)
           \/ RegisterCommit(r)
    PROVE  Atomic
  <1>1. CASE \E regenerate \in BOOLEAN, unit \in UnitForms(Rows("model")) :
                ResolveGiven(r, unit, regenerate)
    BY <1>1, CommittedKept DEF Atomic, ResolveGiven
  <1>2. CASE \E regenerate \in BOOLEAN, unit \in UnitForms(Rows("model")), family \in Family :
                ResolveNamed(r, unit, regenerate, family)
    BY <1>2, CommittedKept DEF Atomic, ResolveNamed
  <1>3. CASE \E regenerate \in BOOLEAN, i \in Id, family \in Family :
                \E unit \in UnitForms({i}) : ResolveMissing(r, unit, regenerate, family)
    <2>1. PICK i \in Id : NextId(i) /\ rows' = [rows EXCEPT ![i] = Pending]
      BY <1>3 DEF ResolveMissing, UnitForms
    <2> QED
      BY <2>1, AtomicPending DEF Atomic
  <1>4. CASE RegisterCheck(r)
    BY <1>4, CommittedKept DEF Atomic, RegisterCheck
  <1>5. CASE RegisterInsert(r)
    BY <1>5, AtomicPending DEF Atomic, RegisterInsert
  <1>6. CASE RegisterCommit(r)
    <2>1. rows[req[r].id] = Pending /\ rows'[req[r].id] = req[r].unit /\ req[r].id \in Id
      BY <1>6, CommitRows
    <2>2. \A q \in Request \ {r} : req'[q] = req[q]
      BY <1>6, BecomeFacts DEF RegisterCommit, TInv
    <2> QED
      BY <2>1, <2>2 DEF Atomic
  <1> QED
    BY <1>1, <1>2, <1>3, <1>4, <1>5, <1>6

LEMMA AtomicStep == TInv /\ [Next]_vars => Atomic
  <1> SUFFICES ASSUME TInv, Next PROVE Atomic
    BY DEF Atomic, vars
  <1>1. ASSUME NEW r \in Request, \E x \in MasterForms : CreateLook(r, x) PROVE Atomic
    BY <1>1, CommittedKept DEF Atomic, CreateLook
  <1>2. ASSUME NEW r \in Request, CreateInsert(r) PROVE Atomic
    <2>1. /\ req'[r] = Idle /\ \A q \in Request \ {r} : req'[q] = req[q]
      BY <1>2, BecomeFacts DEF CreateInsert, TInv
    <2> QED
      BY <1>2, <2>1, AtomicOther, PlainStates DEF CreateInsert, Registering
  <1>3. ASSUME NEW r \in Request, \E i \in Id : DeleteUnit(r, i) PROVE Atomic
    BY <1>3 DEF Atomic, DeleteUnit
  <1>4. ASSUME NEW r \in Request, \E i \in Id, new \in BESSUnit : UpdateLoad(r, i, new)
        PROVE  Atomic
    BY <1>4, CommittedKept DEF Atomic, UpdateLoad
  <1>5. ASSUME NEW r \in Request, UpdateWrite(r) PROVE Atomic
    BY <1>5, CommittedKept DEF Atomic, UpdateWrite
  <1>6. ASSUME NEW r \in Request, UpdateCommit(r) PROVE Atomic
    <2>1. /\ req'[r] = Idle /\ \A q \in Request \ {r} : req'[q] = req[q]
      BY <1>6, BecomeFacts DEF UpdateCommit, TInv
    <2> QED
      BY <1>6, <2>1, AtomicOther, PlainStates DEF UpdateCommit, Registering
  <1>7. ASSUME NEW r \in Request, Fail(r) PROVE Atomic
    <2>1. \A i \in Id : rows'[i] = IF i \in Inserted(r) THEN Gone ELSE rows[i]
      BY <1>7 DEF Fail
    <2>2. \A i \in Inserted(r) : rows[i] = Pending
      BY InsertedFacts DEF TInv
    <2> QED
      BY <2>1, <2>2, NotRows, CommittedKept DEF Atomic
  <1>8. ASSUME NEW i \in Id,
               \/ PanelDelete(i)
               \/ \E x \in MasterForms \cup UnitForms(Rows("model")) : PanelSave(i, x)
        PROVE  Atomic
    BY <1>8 DEF Atomic, PanelDelete, PanelSave
  <1>9. ASSUME NEW r \in Request,
               \E s \in Id, linked \in SUBSET Rows("unit") : AssignSiteLoad(r, s, linked)
        PROVE  Atomic
    BY <1>9, CommittedKept DEF Atomic, AssignSiteLoad
  <1>10. ASSUME NEW r \in Request, AssignSiteCommit(r) PROVE Atomic
    <2>1. /\ req'[r] = Idle /\ \A q \in Request \ {r} : req'[q] = req[q]
          /\ req[r].pc = "siting"
      BY <1>10, SitedRows DEF TInv
    <2> QED
      BY <2>1, AtomicOther, PlainStates DEF Registering
  <1> QED
    BY <1>1, <1>2, <1>3, <1>4, <1>5, <1>6, <1>7, <1>8, <1>9, <1>10, Steps,
       AtomicRegistering DEF TInv

\* A registration leaves its unit and the product model that it inserted or
\* renamed for it, or neither (register_bess_from_qr, register_bess_from_photo).
THEOREM RegistrationsAreAtomic == Spec => RegistrationIsAtomic
  <1>1. TInv /\ [Next]_vars => [Atomic]_vars
    BY AtomicStep
  <1>2. Spec => [][Atomic]_vars
    BY <1>1, TInvHolds, PTL DEF Spec
  <1> QED
    BY <1>2, PTL DEF RegistrationIsAtomic, Atomic

----------------------------------------------------------------------------
(* What the API never changes of a row: rows that the panel leaves alone   *)
(* keep everything but what an update changes of a unit, and the spelling  *)
(* of a product model.                                                     *)

KeepsPlaces ==
    \A i \in Id \ touched' :
        rows[i].kind \in {"country", "state", "city", "warehouse", "site"} =>
            rows'[i] = rows[i]

KeepsSerials ==
    \A i \in Id \ touched' :
        rows[i].kind = "unit" => rows'[i].kind = "unit" /\ rows'[i].serial = rows[i].serial

\* An update changes neither the serial number nor the model, nor whether the
\* unit is deleted.
LoadedSound ==
    \A r \in Request :
        req[r].pc \in {"loaded", "written"} =>
            /\ req[r].unit.serial = req[r].was.serial
            /\ req[r].unit.model = req[r].was.model
            /\ req[r].unit.deleted = req[r].was.deleted

LEMMA LoadedKept ==
    ASSUME LoadedSound, NEW r \in Request, \A q \in Request \ {r} : req'[q] = req[q],
           \/ req'[r].pc \notin {"loaded", "written"}
           \/ /\ req'[r].unit.serial = req'[r].was.serial
              /\ req'[r].unit.model = req'[r].was.model
              /\ req'[r].unit.deleted = req'[r].was.deleted
    PROVE  LoadedSound'
  BY DEF LoadedSound

\* Where a row comes from that is there after a step.
NewRows ==
    \A i \in Id \ touched' :
        \/ rows'[i] = rows[i]
        \/ ~IsRow(rows'[i])
        \/ rows'[i].kind = "unit"
        \/ rows'[i].kind = "model" /\ rows'[i].spelling = "UESS"
        \/ \E r \in Request :
                CreateInsert(r) /\ req[r].pc = "creating" /\ rows'[i] = req[r].row

\* Where a request comes from that creates a row.
NewCreating ==
    \A r \in Request :
        req'[r].pc = "creating" =>
            \/ req'[r] = req[r]
            \/ \E x \in MasterForms :
                    /\ CreateLook(r, x) /\ RefersToRows(x, {}) /\ Nested(x)
                    /\ req'[r].row = Normalized(x)

History ==
    /\ KeepsPlaces /\ KeepsSerials /\ NewRows /\ NewCreating
    /\ touched \subseteq touched'
    /\ LoadedSound'

LEMMA HistoryPending ==
    ASSUME TInv, NEW i \in Id, NextId(i), rows' = [rows EXCEPT ![i] = Pending],
           UNCHANGED touched
    PROVE  KeepsPlaces /\ KeepsSerials /\ NewRows
  <1>1. \A j \in Id : j # i => rows'[j] = rows[j]
    BY DEF TInv, TypeOK
  <1>2. rows'[i] = Pending /\ rows[i] = Unused
    BY DEF TInv, TypeOK, NextId
  <1> QED
    BY <1>1, <1>2, NotRows DEF KeepsPlaces, KeepsSerials, NewRows

LEMMA HistorySame ==
    ASSUME UNCHANGED rows PROVE KeepsPlaces /\ KeepsSerials /\ NewRows
  BY DEF KeepsPlaces, KeepsSerials, NewRows

\* A request that creates nothing afterwards, and updates nothing.
LEMMA NotCreating ==
    ASSUME LoadedSound, NEW r \in Request, \A q \in Request \ {r} : req'[q] = req[q],
           req'[r].pc \notin {"creating", "loaded", "written"}
    PROVE  NewCreating /\ LoadedSound'
  BY DEF NewCreating, LoadedSound

\* What an update makes of the row, whatever happened to it meanwhile.
LEMMA UpdateRow ==
    ASSUME TInv, LoadedSound, NEW r \in Request, UpdateCommit(r)
    PROVE  \E i \in Id, now \in BESSUnit, new \in BESSUnit :
                /\ i = req[r].id /\ rows[i] = now
                /\ rows' = [rows EXCEPT ![i] = new]
                /\ new.serial = now.serial /\ new.deleted = now.deleted
                /\ new.located = IF req[r].unit.located # req[r].was.located
                                 THEN req[r].unit.located ELSE now.located
                /\ new.customer = IF req[r].unit.customer # req[r].was.customer
                                  THEN req[r].unit.customer ELSE now.customer
  <1>1. /\ req[r] \in [pc : {"loaded", "written"}, id : Id, was : BESSUnit, unit : BESSUnit]
        /\ req[r].pc = "written"
    BY RequestByPc DEF UpdateCommit, TInv, TypeOK
  <1>2. PICK i \in Id, now \in BESSUnit, was \in BESSUnit, unit \in BESSUnit :
            i = req[r].id /\ now = rows[i] /\ was = req[r].was /\ unit = req[r].unit
    BY <1>1, UnitRow DEF TInv, UpdateCommit
  <1>3. PICK new \in BESSUnit : new = Updated(now, was, unit)
    BY UpdatedRow
  <1>4. rows' = [rows EXCEPT ![i] = new]
    BY <1>2, <1>3 DEF UpdateCommit
  <1>5. unit.serial = was.serial /\ unit.deleted = was.deleted
    BY <1>1, <1>2 DEF LoadedSound
  <1>6. /\ new["serial"] = now["serial"] /\ new["deleted"] = now["deleted"]
        /\ new["located"] = IF unit["located"] # was["located"]
                            THEN unit["located"] ELSE now["located"]
        /\ new["customer"] = IF unit["customer"] # was["customer"]
                             THEN unit["customer"] ELSE now["customer"]
    BY <1>3, <1>5, UpdatedRow
  <1> QED
    BY <1>2, <1>4, <1>6

LEMMA HistoryStep == TInv /\ LoadedSound /\ [Next]_vars => History
  <1> SUFFICES ASSUME TInv, LoadedSound, [Next]_vars PROVE History
    OBVIOUS
  <1> USE DEF TInv
  <1>1. ASSUME NEW r \in Request, NEW x \in MasterForms, CreateLook(r, x) PROVE History
    <2>1. /\ req'[r] = [pc |-> "creating", row |-> Normalized(x)]
          /\ \A q \in Request \ {r} : req'[q] = req[q]
      BY <1>1, BecomeFacts DEF CreateLook
    <2>2. NewCreating /\ LoadedSound'
      BY <1>1, <2>1, LoadedKept DEF NewCreating, CreateLook
    <2> QED
      BY <1>1, <2>2, HistorySame DEF History, CreateLook
  <1>2. ASSUME NEW r \in Request, CreateInsert(r) PROVE History
    <2>1. req'[r] = Idle /\ \A q \in Request \ {r} : req'[q] = req[q]
      BY <1>2, BecomeFacts DEF CreateInsert
    <2>2. PICK i \in Id : NextId(i) /\ rows' = [rows EXCEPT ![i] = req[r].row]
      BY <1>2 DEF CreateInsert
    <2>3. /\ \A j \in Id : j # i => rows'[j] = rows[j]
          /\ rows'[i] = req[r].row /\ rows[i] = Unused /\ req[r].pc = "creating"
      BY <1>2, <2>2 DEF TypeOK, NextId, CreateInsert
    <2>4. KeepsPlaces /\ KeepsSerials /\ NewRows
      BY <1>2, <2>3, NotRows DEF KeepsPlaces, KeepsSerials, NewRows
    <2> QED
      BY <1>2, <2>1, <2>4, NotCreating DEF History, CreateInsert, Idle
  <1>3. ASSUME NEW r \in Request,
               \/ \E regenerate \in BOOLEAN, unit \in UnitForms(Rows("model")) :
                       ResolveGiven(r, unit, regenerate)
               \/ \E regenerate \in BOOLEAN, unit \in UnitForms(Rows("model")),
                     family \in Family : ResolveNamed(r, unit, regenerate, family)
        PROVE  History
    <2>1. /\ \A q \in Request \ {r} : req'[q] = req[q]
          /\ req'[r].pc \notin {"creating", "loaded", "written"}
      <3>1. PICK state : Become(r, state) /\ state.pc = "resolved"
        <4>1. ASSUME NEW regenerate \in BOOLEAN, NEW unit \in UnitForms(Rows("model")),
                     ResolveGiven(r, unit, regenerate)
              PROVE  \E state : Become(r, state) /\ state.pc = "resolved"
          BY <4>1 DEF ResolveGiven
        <4>2. ASSUME NEW regenerate \in BOOLEAN, NEW unit \in UnitForms(Rows("model")),
                     NEW family \in Family, ResolveNamed(r, unit, regenerate, family)
              PROVE  \E state : Become(r, state) /\ state.pc = "resolved"
          BY <4>2 DEF ResolveNamed
        <4> QED
          BY <1>3, <4>1, <4>2
      <3> QED
        BY <3>1, BecomeFacts
    <2> QED
      BY <1>3, <2>1, NotCreating, HistorySame DEF History, ResolveGiven, ResolveNamed
  <1>4. ASSUME NEW r \in Request, NEW regenerate \in BOOLEAN, NEW i \in Id,
               NEW family \in Family, NEW unit \in UnitForms({i}),
               ResolveMissing(r, unit, regenerate, family)
        PROVE  History
    <2>1. /\ \A q \in Request \ {r} : req'[q] = req[q]
          /\ req'[r].pc \notin {"creating", "loaded", "written"}
      BY <1>4, BecomeFacts DEF ResolveMissing
    <2>2. NextId(i) /\ rows' = [rows EXCEPT ![i] = Pending] /\ UNCHANGED touched
      BY <1>4 DEF ResolveMissing, UnitForms
    <2> QED
      BY <2>1, <2>2, NotCreating, HistoryPending DEF History
  <1>5. ASSUME NEW r \in Request, RegisterCheck(r) PROVE History
    <2>1. /\ \A q \in Request \ {r} : req'[q] = req[q]
          /\ req'[r].pc \notin {"creating", "loaded", "written"}
      <3>1. req[r] \in [pc : {"resolved", "checked"}, unit : BESSUnit, fresh : BOOLEAN,
                        naming : ProductModel \cup {NoModel}, regenerate : BOOLEAN]
        BY <1>5, RequestByPc DEF RegisterCheck, TypeOK
      <3> QED
        BY <1>5, <3>1, BecomeFacts DEF RegisterCheck
    <2> QED
      BY <1>5, <2>1, NotCreating, HistorySame DEF History, RegisterCheck
  <1>6. ASSUME NEW r \in Request, RegisterInsert(r) PROVE History
    <2>1. /\ \A q \in Request \ {r} : req'[q] = req[q]
          /\ req'[r].pc \notin {"creating", "loaded", "written"}
      BY <1>6, BecomeFacts DEF RegisterInsert
    <2> QED
      BY <1>6, <2>1, NotCreating, HistoryPending DEF History, RegisterInsert
  <1>7. ASSUME NEW r \in Request, RegisterCommit(r) PROVE History
    <2>1. req'[r] = Idle /\ \A q \in Request \ {r} : req'[q] = req[q]
      BY <1>7, BecomeFacts DEF RegisterCommit
    <2>2. PICK i \in Id, m \in Id, unit \in BESSUnit, naming \in {req[r].naming} :
              /\ i = req[r].id /\ m = req[r].unit.model /\ unit = req[r].unit
              /\ naming = req[r].naming
      BY <1>7, CommitRows
    <2>3. /\ rows[i] = Pending /\ rows'[i] = unit
          /\ \A j \in Id : j = i \/ (j = m /\ naming # NoModel) \/ rows'[j] = rows[j]
          /\ naming # NoModel =>
                /\ rows'[m] = naming /\ naming.kind = "model" /\ naming.spelling = "UESS"
                /\ rows[m] = Pending \/ rows[m].kind = "model"
      BY <1>7, <2>2, CommitRows
    <2>4. KeepsPlaces /\ KeepsSerials /\ NewRows
      BY <2>3, NotRows, UnitFacts DEF KeepsPlaces, KeepsSerials, NewRows
    <2> QED
      BY <1>7, <2>1, <2>4, NotCreating DEF History, RegisterCommit, Idle
  <1>8. ASSUME NEW r \in Request, NEW i \in Id, DeleteUnit(r, i) PROVE History
    <2>1. PICK new \in BESSUnit :
              /\ rows' = [rows EXCEPT ![i] = new] /\ new.serial = rows[i].serial
              /\ rows[i].kind = "unit"
      BY <1>8, DeletedUnit DEF DeleteUnit
    <2>2. /\ \A j \in Id : j # i => rows'[j] = rows[j]
          /\ rows'[i] = new /\ new.kind = "unit"
      BY <2>1, UnitFacts DEF TypeOK
    <2>3. KeepsPlaces /\ KeepsSerials /\ NewRows
      BY <2>1, <2>2 DEF KeepsPlaces, KeepsSerials, NewRows
    <2> QED
      BY <1>8, <2>3 DEF History, DeleteUnit, NewCreating, LoadedSound
  <1>9. ASSUME NEW r \in Request, NEW i \in Id, NEW new \in BESSUnit,
               UpdateLoad(r, i, new)
        PROVE  History
    <2>1. rows[i] \in BESSUnit
      BY <1>9, UnitRow DEF UpdateLoad
    <2>2. /\ new.serial = rows[i].serial /\ new.model = rows[i].model
          /\ new.deleted = rows[i].deleted
      BY <1>9, <2>1 DEF UpdateLoad, BESSUnit
    <2>3. /\ \A q \in Request \ {r} : req'[q] = req[q]
          /\ req'[r] = [pc |-> "loaded", id |-> i, was |-> rows[i], unit |-> new]
      BY <1>9, BecomeFacts DEF UpdateLoad
    <2>4. LoadedSound'
      BY <2>2, <2>3, LoadedKept
    <2> QED
      BY <1>9, <2>3, <2>4, HistorySame DEF History, UpdateLoad, NewCreating
  <1>10. ASSUME NEW r \in Request, UpdateWrite(r) PROVE History
    <2>1. req[r] \in [pc : {"loaded", "written"}, id : Id, was : BESSUnit, unit : BESSUnit]
      BY <1>10, RequestByPc DEF UpdateWrite, TypeOK
    <2>2. /\ \A q \in Request \ {r} : req'[q] = req[q]
          /\ req'[r].pc = "written" /\ req'[r].unit = req[r].unit
          /\ req'[r].was = req[r].was
      BY <1>10, <2>1, BecomeFacts DEF UpdateWrite
    <2>3. LoadedSound'
      BY <1>10, <2>2, LoadedKept DEF LoadedSound, UpdateWrite
    <2> QED
      BY <1>10, <2>2, <2>3, HistorySame DEF History, UpdateWrite, NewCreating
  <1>11. ASSUME NEW r \in Request, UpdateCommit(r) PROVE History
    <2>1. req'[r] = Idle /\ \A q \in Request \ {r} : req'[q] = req[q]
      BY <1>11, BecomeFacts DEF UpdateCommit
    <2>2. PICK i \in Id, now \in BESSUnit, new \in BESSUnit :
              /\ rows[i] = now /\ rows' = [rows EXCEPT ![i] = new]
              /\ new.serial = now.serial
      BY <1>11, UpdateRow
    <2>3. /\ \A j \in Id : j # i => rows'[j] = rows[j]
          /\ rows'[i] = new /\ new.kind = "unit" /\ now.kind = "unit"
      BY <2>2, UnitFacts DEF TypeOK
    <2>4. KeepsPlaces /\ KeepsSerials /\ NewRows
      BY <2>2, <2>3 DEF KeepsPlaces, KeepsSerials, NewRows
    <2> QED
      BY <1>11, <2>1, <2>4, NotCreating DEF History, UpdateCommit, Idle
  <1>12. ASSUME NEW r \in Request, Fail(r) PROVE History
    <2>1. req'[r] = Idle /\ \A q \in Request \ {r} : req'[q] = req[q]
      BY <1>12, BecomeFacts DEF Fail
    <2>2. \A i \in Id : rows'[i] = IF i \in Inserted(r) THEN Gone ELSE rows[i]
      BY <1>12 DEF Fail
    <2>3. \A i \in Inserted(r) : rows[i] = Pending
      BY InsertedFacts
    <2>4. KeepsPlaces /\ KeepsSerials /\ NewRows
      BY <2>2, <2>3, NotRows DEF KeepsPlaces, KeepsSerials, NewRows
    <2> QED
      BY <1>12, <2>1, <2>4, NotCreating DEF History, Fail, Idle
  <1>13. ASSUME NEW i \in Id,
                \/ PanelDelete(i)
                \/ \E x \in MasterForms \cup UnitForms(Rows("model")) : PanelSave(i, x)
         PROVE  History
    <2>1. /\ \A j \in Id : j # i => rows'[j] = rows[j]
          /\ touched' = touched \cup {i} /\ UNCHANGED req
      BY <1>13 DEF PanelDelete, PanelSave, TypeOK
    <2> QED
      BY <2>1 DEF History, KeepsPlaces, KeepsSerials, NewRows, NewCreating, LoadedSound
  <1>14. ASSUME UNCHANGED vars PROVE History
    BY <1>14, HistorySame DEF vars, History, NewCreating, LoadedSound
  <1>15. ASSUME NEW r \in Request,
                \E s \in Id, linked \in SUBSET Rows("unit") : AssignSiteLoad(r, s, linked)
         PROVE  History
    <2>1. /\ \A q \in Request \ {r} : req'[q] = req[q]
          /\ req'[r].pc \notin {"creating", "loaded", "written"}
      BY <1>15, BecomeFacts DEF AssignSiteLoad
    <2> QED
      BY <1>15, <2>1, NotCreating, HistorySame DEF History, AssignSiteLoad
  <1>16. ASSUME NEW r \in Request, AssignSiteCommit(r) PROVE History
    <2>1. req'[r] = Idle /\ \A q \in Request \ {r} : req'[q] = req[q]
      BY <1>16, SitedRows
    <2>2. \A i \in Id : \/ rows'[i] = rows[i]
                       \/ /\ rows[i].kind = "unit" /\ rows'[i].kind = "unit"
                          /\ rows'[i].serial = rows[i].serial
      BY <1>16, SitedRows, UnitFacts
    <2>3. KeepsPlaces /\ KeepsSerials /\ NewRows
      BY <2>2 DEF KeepsPlaces, KeepsSerials, NewRows
    <2> QED
      BY <1>16, <2>1, <2>3, NotCreating DEF History, AssignSiteCommit, Idle
  <1> QED
    BY <1>1, <1>2, <1>3, <1>4, <1>5, <1>6, <1>7, <1>8, <1>9, <1>10, <1>11, <1>12, <1>13,
       <1>14, <1>15, <1>16, Steps

HInv == TInv /\ LoadedSound

LEMMA HInvInit == Init => HInv
  BY TInvInit DEF HInv, LoadedSound, Init, Idle

LEMMA HInvStep == HInv /\ [Next]_vars => HInv' /\ History
  BY TInvStep, HistoryStep DEF HInv, History

----------------------------------------------------------------------------
(* Places nest, and the API spells a product model in one way.             *)

NestedRow(x) ==
    /\ x.kind = "city" /\ x.state \notin touched \cup {None} =>
            rows[x.state].kind = "state" /\ rows[x.state].country = x.country
    /\ x.kind = "site" /\ x.city \notin touched =>
            rows[x.city].kind = "city" /\ rows[x.city].country = x.country

Spelled(x) == x.kind = "model" => x.spelling = "UESS"

\* Of a row that the panel did not write, or that a request is about to insert.
SoundRow(x) == NestedRow(x) /\ Spelled(x)

RowsSound ==
    /\ \A i \in Id \ touched : SoundRow(rows[i])
    /\ \A r \in Request : req[r].pc = "creating" => SoundRow(req[r].row)

LEMMA SoundRowKept ==
    ASSUME TypeOK, History, NEW x \in Row, SoundRow(x)
    PROVE  SoundRow(x)'
  <1>1. /\ x.kind = "city" => x.state \in Id \cup {None}
        /\ x.kind = "site" => x.city \in Id
    BY RowByKind DEF City, Site
  <1>2. \A i \in Id \ touched' :
            rows[i].kind \in {"state", "city"} => i \notin touched /\ rows'[i] = rows[i]
    BY DEF History, KeepsPlaces
  <1> QED
    BY <1>1, <1>2 DEF SoundRow, NestedRow, Spelled, History

LEMMA RowsSoundInit == Init => RowsSound
  <1> SUFFICES ASSUME Init PROVE RowsSound
    OBVIOUS
  <1>1. \A i \in Id \ touched : IsRow(rows[i]) => SoundRow(rows[i])
    <2>1. \A i \in Id \ touched : rows[i].kind = "model" => rows[i].spelling # "HESS"
      BY DEF Init
    <2>2. \A i \in Id : rows[i].kind = "model" => rows[i].spelling \in {"HESS", "UESS"}
      BY TInvInit, RowByKind, NotRows DEF TInv, TypeOK, ProductModel, Spelling
    <2> QED
      BY <2>1, <2>2, SeedFacts DEF SoundRow, NestedRow, Spelled
  <1>2. \A i \in Id : ~IsRow(rows[i]) => SoundRow(rows[i])
    BY DEF SoundRow, NestedRow, Spelled, IsRow
  <1>3. \A r \in Request : req[r].pc # "creating"
    BY DEF Init, Idle
  <1> QED
    BY <1>1, <1>2, <1>3 DEF RowsSound

\* What a handler looked at before it creates a city or a site.
LEMMA LookedAt ==
    ASSUME TypeOK, NEW x \in MasterForms, RefersToRows(x, {}), Nested(x)
    PROVE  SoundRow(Normalized(x))
  <1>1. x \in Row
    BY FormTypes DEF Row
  <1>2. CASE x.kind = "model"
    <2>1. Normalized(x).kind = "model" /\ Normalized(x).spelling = "UESS"
      BY <1>1, <1>2, RowByKind, ModelFacts
    <2> QED
      BY <2>1 DEF SoundRow, NestedRow, Spelled
  <1>3. CASE x.kind = "city"
    <2>1. x \in City /\ "state" \in Columns(x)
      BY <1>1, <1>3, RowByKind DEF City, Columns
    <2>2. x.state # None => rows[x.state].kind = "state" /\ rows[x.state].country = x.country
      BY <1>3, <2>1 DEF RefersToRows, Nested
    <2> QED
      BY <1>3, <2>2 DEF Normalized, SoundRow, NestedRow, Spelled
  <1>4. CASE x.kind = "site"
    <2>1. x \in Site /\ "city" \in Columns(x)
      BY <1>1, <1>4, RowByKind DEF Site, Columns
    <2>2. rows[x.city].kind = "city" /\ rows[x.city].country = x.country
      BY <1>4, <2>1 DEF RefersToRows, Nested
    <2> QED
      BY <1>4, <2>2 DEF Normalized, SoundRow, NestedRow, Spelled
  <1> QED
    BY <1>2, <1>3, <1>4 DEF Normalized, SoundRow, NestedRow, Spelled

LEMMA RowsSoundStep ==
    ASSUME HInv, HInv', History, RowsSound
    PROVE  RowsSound'
  <1>1. TypeOK /\ TypeOK'
    BY DEF HInv, TInv
  <1>2. ASSUME NEW i \in Id \ touched'
        PROVE  SoundRow(rows[i])'
    <2>1. i \notin touched
      BY DEF History
    <2>2. CASE ~IsRow(rows'[i])
      BY <2>2 DEF SoundRow, NestedRow, Spelled, IsRow
    <2>3. CASE IsRow(rows'[i]) /\ rows'[i] = rows[i]
      <3>1. PICK x \in Row : x = rows[i] /\ x = rows'[i]
        BY <1>1, <2>3, NotRows DEF TypeOK
      <3>2. SoundRow(x)
        BY <2>1, <3>1 DEF RowsSound
      <3>3. SoundRow(x)'
        BY <1>1, <3>2, SoundRowKept
      <3> QED
        BY <3>1, <3>3 DEF SoundRow, NestedRow, Spelled
    <2>4. CASE \E r \in Request : req[r].pc = "creating" /\ rows'[i] = req[r].row
      <3>1. PICK r \in Request : req[r].pc = "creating" /\ rows'[i] = req[r].row
        BY <2>4
      <3>2. PICK x \in Row : x = req[r].row /\ x = rows'[i]
        BY <1>1, <3>1, RequestByPc, MasterRows DEF TypeOK
      <3>3. SoundRow(x)
        BY <3>1, <3>2 DEF RowsSound
      <3>4. SoundRow(x)'
        BY <1>1, <3>3, SoundRowKept
      <3> QED
        BY <3>2, <3>4 DEF SoundRow, NestedRow, Spelled
    <2>5. CASE rows'[i].kind = "unit"
      BY <2>5 DEF SoundRow, NestedRow, Spelled
    <2>6. CASE rows'[i].kind = "model" /\ rows'[i].spelling = "UESS"
      BY <2>6 DEF SoundRow, NestedRow, Spelled
    <2> QED
      BY <2>2, <2>3, <2>4, <2>5, <2>6 DEF History, NewRows
  <1>3. ASSUME NEW r \in Request, req'[r].pc = "creating"
        PROVE  SoundRow(req[r].row)'
    <2>1. CASE req'[r] = req[r]
      <3>1. PICK x \in Row : x = req[r].row
        BY <1>1, <1>3, <2>1, RequestByPc, MasterRows DEF TypeOK
      <3>2. SoundRow(x)
        BY <1>3, <2>1, <3>1 DEF RowsSound
      <3>3. SoundRow(x)'
        BY <1>1, <3>2, SoundRowKept
      <3> QED
        BY <2>1, <3>1, <3>3 DEF SoundRow, NestedRow, Spelled
    <2>2. CASE \E x \in MasterForms :
                  /\ RefersToRows(x, {}) /\ Nested(x)
                  /\ req'[r].row = Normalized(x)
      <3>1. PICK x \in MasterForms :
                RefersToRows(x, {}) /\ Nested(x) /\ req'[r].row = Normalized(x)
        BY <2>2
      <3>2. PICK y \in Row : y = Normalized(x) /\ y = req'[r].row
        BY <1>1, <1>3, <3>1, RequestByPc, MasterRows DEF TypeOK
      <3>3. SoundRow(y)
        BY <1>1, <3>1, <3>2, LookedAt
      <3>4. SoundRow(y)'
        BY <1>1, <3>3, SoundRowKept
      <3> QED
        BY <3>2, <3>4 DEF SoundRow, NestedRow, Spelled
    <2> QED
      BY <1>3, <2>1, <2>2 DEF History, NewCreating
  <1> QED
    BY <1>2, <1>3 DEF RowsSound

LEMMA RowsSoundHold == Spec => [](HInv /\ RowsSound)
  <1>1. Init => HInv /\ RowsSound
    BY HInvInit, RowsSoundInit
  <1>2. HInv /\ RowsSound /\ [Next]_vars => (HInv /\ RowsSound)'
    BY HInvStep, RowsSoundStep
  <1> QED
    BY <1>1, <1>2, PTL DEF Spec

\* A city is in the country of its state, and a site in that of its city,
\* whatever happens between the look and the insertion, as long as the panel
\* leaves both rows alone (create_city, create_site).
THEOREM PlacesStayNested == Spec => []PlacesNest
  <1>1. HInv /\ RowsSound => PlacesNest
    BY DEF RowsSound, SoundRow, NestedRow, PlacesNest
  <1> QED
    BY <1>1, RowsSoundHold, PTL

----------------------------------------------------------------------------
(* Sites.                                                                  *)

SiteRows(x) == {j \in Id \ touched : SameSite(x, rows[j])}
SiteRequests(x) == {r \in Request : req[r].pc = "creating" /\ SameSite(x, req[r].row)}

\* What is inserted and what may yet be.
SitesCounted ==
    \A x : Cardinality(SiteRows(x)) + Cardinality(SiteRequests(x)) <= Cardinality(Request)

LEMMA SiteParts ==
    \A x : /\ IsFiniteSet(SiteRows(x)) /\ Cardinality(SiteRows(x)) \in Nat
           /\ IsFiniteSet(SiteRequests(x)) /\ Cardinality(SiteRequests(x)) \in Nat
           /\ Cardinality(SiteRequests(x)) <= Cardinality(Request)
           /\ Cardinality(Request) \in Nat
  <1> TAKE x
  <1>1. IsFiniteSet(Id) /\ IsFiniteSet(Request)
    BY FS_Interval, RegistryAssumption DEF Id
  <1>2. SiteRows(x) \subseteq Id /\ SiteRequests(x) \subseteq Request
    BY DEF SiteRows, SiteRequests
  <1>3. /\ IsFiniteSet(SiteRows(x)) /\ IsFiniteSet(SiteRequests(x))
        /\ Cardinality(SiteRequests(x)) <= Cardinality(Request)
    BY <1>1, <1>2, FS_Subset
  <1> QED
    BY <1>1, <1>3, FS_CardinalityType

LEMMA SiteFacts ==
    /\ \A x, y, z : SameSite(x, y) /\ SameSite(x, z) => SameSite(y, z)
    /\ \A x : SameSite(x, x) <=> x.kind = "site"
    /\ \A x, y : SameSite(x, y) => x.kind = "site" /\ y.kind = "site"
  BY DEF SameSite

\* Fewer rows and fewer requests.
LEMMA SitesKept ==
    ASSUME SitesCounted, NEW x,
           SiteRows(x)' \subseteq SiteRows(x), SiteRequests(x)' \subseteq SiteRequests(x)
    PROVE  (Cardinality(SiteRows(x)) + Cardinality(SiteRequests(x)) <= Cardinality(Request))'
  <1>1. PICK A, B, C, D : /\ A = SiteRows(x) /\ B = SiteRequests(x)
                          /\ C = SiteRows(x)' /\ D = SiteRequests(x)'
    OBVIOUS
  <1>2. IsFiniteSet(A) /\ IsFiniteSet(B) /\ C \subseteq A /\ D \subseteq B
    BY <1>1, SiteParts
  <1>3. /\ Cardinality(C) <= Cardinality(A) /\ Cardinality(D) <= Cardinality(B)
        /\ IsFiniteSet(C) /\ IsFiniteSet(D)
    BY <1>2, FS_Subset
  <1>4. /\ Cardinality(A) \in Nat /\ Cardinality(B) \in Nat
        /\ Cardinality(C) \in Nat /\ Cardinality(D) \in Nat /\ Cardinality(Request) \in Nat
    BY <1>2, <1>3, SiteParts, FS_CardinalityType
  <1>5. Cardinality(A) + Cardinality(B) <= Cardinality(Request)
    BY <1>1 DEF SitesCounted
  <1>6. Cardinality(C) + Cardinality(D) <= Cardinality(Request)
    BY <1>3, <1>4, <1>5
  <1> QED
    BY <1>1, <1>6

\* A handler looked, and found none.
LEMMA SitesLook ==
    ASSUME HInv, SitesCounted, NEW r \in Request, NEW n \in MasterForms, CreateLook(r, n),
           NEW x
    PROVE  (Cardinality(SiteRows(x)) + Cardinality(SiteRequests(x)) <= Cardinality(Request))'
  <1>1. /\ req'[r] = [pc |-> "creating", row |-> Normalized(n)]
        /\ \A q \in Request \ {r} : req'[q] = req[q]
        /\ UNCHANGED <<rows, touched>>
    BY BecomeFacts DEF CreateLook, HInv, TInv
  <1>2. SiteRows(x)' = SiteRows(x)
    BY <1>1 DEF SiteRows
  <1>3. CASE ~SameSite(x, Normalized(n))
    <2>1. SiteRequests(x)' \subseteq SiteRequests(x)
      BY <1>1, <1>3 DEF SiteRequests
    <2> QED
      BY <1>2, <2>1, SitesKept
  <1>4. CASE SameSite(x, Normalized(n))
    <2>1. n \in Row
      BY FormTypes DEF HInv, TInv, Row
    <2>2. Normalized(n) = n
      <3>1. n.kind # "model"
        BY <1>4, <2>1, RowByKind, ModelFacts, SiteFacts
      <3> QED
        BY <3>1 DEF Normalized
    <2>3. \A j \in Id : ~SameSite(x, rows[j])
      <3> SUFFICES ASSUME NEW j \in Id, SameSite(x, rows[j]) PROVE FALSE
        OBVIOUS
      <3>1. SameSite(n, rows[j]) /\ rows[j].kind = "site"
        BY <1>4, <2>2, SiteFacts
      <3> QED
        BY <3>1 DEF CreateLook, Found, IsRow
    <2>4. SiteRows(x)' = {}
      BY <1>2, <2>3 DEF SiteRows
    <2>5. PICK D : D = SiteRequests(x)'
      OBVIOUS
    <2>6. D \subseteq Request
      BY <2>5 DEF SiteRequests
    <2>7. Cardinality(D) <= Cardinality(Request) /\ Cardinality(D) \in Nat
      BY <2>6, FS_Subset, FS_CardinalityType, RegistryAssumption
    <2>8. Cardinality(SiteRows(x)') = 0
      BY <2>4, FS_EmptySet
    <2> QED
      BY <2>5, <2>7, <2>8
  <1> QED
    BY <1>3, <1>4

\* A handler inserts what it looked for.
LEMMA SitesInsert ==
    ASSUME HInv, SitesCounted, NEW r \in Request, CreateInsert(r), NEW x
    PROVE  (Cardinality(SiteRows(x)) + Cardinality(SiteRequests(x)) <= Cardinality(Request))'
  <1>1. /\ req'[r] = Idle /\ \A q \in Request \ {r} : req'[q] = req[q]
        /\ UNCHANGED touched /\ req[r].pc = "creating"
    BY BecomeFacts DEF CreateInsert, HInv, TInv
  <1>2. PICK k \in Id : NextId(k) /\ rows' = [rows EXCEPT ![k] = req[r].row]
    BY DEF CreateInsert
  <1>3. rows'[k] = req[r].row /\ \A j \in Id : j # k => rows'[j] = rows[j]
    BY <1>2 DEF HInv, TInv, TypeOK
  <1>4. CASE ~SameSite(x, req[r].row)
    <2>1. SiteRows(x)' \subseteq SiteRows(x)
      BY <1>1, <1>3, <1>4 DEF SiteRows
    <2>2. SiteRequests(x)' \subseteq SiteRequests(x)
      BY <1>1 DEF SiteRequests, Idle
    <2> QED
      BY <2>1, <2>2, SitesKept
  <1>5. CASE SameSite(x, req[r].row)
    <2>1. PICK A, B, C, D : /\ A = SiteRows(x) /\ B = SiteRequests(x)
                            /\ C = SiteRows(x)' /\ D = SiteRequests(x)'
      OBVIOUS
    <2>2. IsFiniteSet(A) /\ IsFiniteSet(B)
      BY <2>1, SiteParts
    <2>3. C \subseteq A \cup {k}
      BY <1>1, <1>3, <2>1 DEF SiteRows
    <2>4. r \in B /\ D = B \ {r}
      BY <1>1, <1>5, <2>1 DEF SiteRequests, Idle
    <2>5. /\ IsFiniteSet(A \cup {k}) /\ Cardinality(A) \in Nat
          /\ Cardinality(A \cup {k}) = IF k \in A THEN Cardinality(A) ELSE Cardinality(A) + 1
      BY <2>2, FS_AddElement, FS_CardinalityType
    <2>6. Cardinality(C) <= Cardinality(A \cup {k}) /\ IsFiniteSet(C)
      BY <2>3, <2>5, FS_Subset
    <2>7. Cardinality(D) = Cardinality(B) - 1
      BY <2>2, <2>4, FS_RemoveElement
    <2>8. /\ Cardinality(A) \in Nat /\ Cardinality(B) \in Nat
          /\ Cardinality(C) \in Nat /\ Cardinality(A \cup {k}) \in Nat
          /\ Cardinality(Request) \in Nat
      BY <2>2, <2>5, <2>6, SiteParts, FS_CardinalityType
    <2>9. Cardinality(A) + Cardinality(B) <= Cardinality(Request)
      BY <2>1 DEF SitesCounted
    <2>10. Cardinality(C) + Cardinality(D) <= Cardinality(Request)
      BY <2>5, <2>6, <2>7, <2>8, <2>9
    <2> QED
      BY <2>1, <2>10
  <1> QED
    BY <1>4, <1>5

LEMMA SitesStep ==
    ASSUME HInv, History, SitesCounted
    PROVE  SitesCounted'
  <1> SUFFICES ASSUME NEW x
               PROVE  (Cardinality(SiteRows(x)) + Cardinality(SiteRequests(x))
                        <= Cardinality(Request))'
    BY DEF SitesCounted
  <1>1. CASE \E r \in Request : CreateInsert(r)
    BY <1>1, SitesInsert
  <1>2. CASE \E r \in Request : \E n \in MasterForms : CreateLook(r, n)
    BY <1>2, SitesLook
  <1>3. CASE /\ \A r \in Request : ~CreateInsert(r)
             /\ \A r \in Request, n \in MasterForms : ~CreateLook(r, n)
    <2>1. \A i \in Id \ touched' :
            rows'[i].kind = "site" => rows'[i] = rows[i] /\ i \notin touched
      BY <1>3 DEF History, NewRows, IsRow
    <2>2. \A r \in Request : req'[r].pc = "creating" => req'[r] = req[r]
      BY <1>3 DEF History, NewCreating
    <2>3. SiteRows(x)' \subseteq SiteRows(x)
      BY <2>1, SiteFacts DEF SiteRows
    <2>4. SiteRequests(x)' \subseteq SiteRequests(x)
      BY <2>2 DEF SiteRequests
    <2> QED
      BY <2>3, <2>4, SitesKept
  <1> QED
    BY <1>1, <1>2, <1>3

LEMMA SitesInit == Init => SitesCounted
  <1> SUFFICES ASSUME Init, NEW x
               PROVE  Cardinality(SiteRows(x)) + Cardinality(SiteRequests(x))
                        <= Cardinality(Request)
    BY DEF SitesCounted
  <1>1. \A i \in Id : rows[i].kind # "site"
    BY SeedFacts DEF IsRow
  <1>2. SiteRows(x) = {}
    BY <1>1, SiteFacts DEF SiteRows
  <1>3. SiteRequests(x) = {}
    BY DEF SiteRequests, Init, Idle
  <1> QED
    BY <1>2, <1>3, FS_EmptySet, SiteParts

\* Nothing in the database forbids to insert a site twice, but there are never
\* more equal ones than requests in flight at once (create_site).
THEOREM EqualSitesAreBounded == Spec => []SitesBounded
  <1>1. Init => HInv /\ SitesCounted
    BY HInvInit, SitesInit
  <1>2. HInv /\ SitesCounted /\ [Next]_vars => (HInv /\ SitesCounted)'
    BY HInvStep, SitesStep
  <1>3. SitesCounted => SitesBounded
    <2> SUFFICES ASSUME SitesCounted, NEW i \in Id
                 PROVE  Cardinality({j \in Id \ touched : SameSite(rows[i], rows[j])})
                            <= Cardinality(Request)
      BY DEF SitesBounded
    <2>1. PICK x : x = rows[i]
      OBVIOUS
    <2>2. Cardinality(SiteRows(x)) <= Cardinality(Request)
      BY SiteParts DEF SitesCounted
    <2> QED
      BY <2>1, <2>2 DEF SiteRows
  <1> QED
    BY <1>1, <1>2, <1>3, PTL DEF Spec
=============================================================================
