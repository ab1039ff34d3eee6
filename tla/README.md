# TLA+ models and proofs of the BESS backend

The repository is the backend of a logistics and commissioning platform for
battery energy storage systems (BESS): a FastAPI application with async
SQLAlchemy on PostgreSQL, and a Celery worker on Redis. A *unit* is registered in
the factory, travels on a *shipment* through port and warehouse to a site, is
installed and commissioned there against checklists by *engineers*, and becomes
ACTIVE. This directory models how concurrent requests, tasks, scripts and the
admin panel change that shared state, checks the models with TLC and proves
all of their safety properties with TLAPS.

Paths below are relative to `src/app/` unless they begin with `src/`.

## 1. Inventory

| Component | State | Operations that change it | Status |
|---|---|---|---|
| BESS units (`domains/bess_unit`) | `bess_units`, `stage_history`, `stage_certificates`, QR images on disk | create (also from a QR code or a photo), update, soft delete, `transition_stage`, add certificate | modelled |
| Shipments (`domains/shipment`) | `shipments` (status, warehouse_id, site_id), `shipment_items`, `shipment_documents` | create, link one, link in bulk, assign warehouse, assign site, update status, upload document | modelled |
| Installation checklists (`domains/installation`) | `checklist_templates`, `checklist_responses` | update item; the gate, the report and the handover document read them | modelled |
| Template loading (`src/scripts/sync_checklist_templates.py`, `seed.py`) | `checklist_templates` | load a file over what is there, or beside it | modelled |
| Engineer assignment (`domains/engineer`) | `site_assignments`, `engineers.is_available` | automatic (task), manual, accept, decline, complete | modelled |
| Shared vocabulary (`shared/enums.py`) | none | none | modelled |
| Authentication (`domains/auth`, `core/security.py`) | `users`, tokens in clients' hands | register, log in, refresh | modelled |
| Roles (`domains/rbac`, `core/dependencies.py`) | `roles`, `permissions` and who has them, copies in tokens | create role, assign, remove | modelled |
| Master data (`domains/master`) | countries, states, cities, warehouses, sites, product models | look, then insert | modelled |
| Celery application (`workers/celery_app.py`) | queue, retries | deliver, retry, lose | partly: as configured |
| Transactions (`shared/acid.py`, `core/database.py`) | session, open transaction | commit, roll back | partly: the branch every handler takes |
| Admin panel (`admin.py`) | any column | sqladmin forms | partly: accounts, roles, checklists, master data, registrations |
| Application start, configuration, errors | none | none | partly: the routes |
| Migrations, seed data (`src/alembic`, `src/scripts`) | constraints, first rows | run by an operator | partly: the constraints, the seeding of roles, templates and master data |
| Commissioning records | one table | one insert | not modelled |
| Reports | none | none | not modelled |
| Uploads, S3 (`domains/uploads`, `services/s3.py`) | files of random names | write, delete | not modelled |

How they interact. Units and shipments meet in `shipment_items` and in
`bess_units.current_stage`, which *both* the transition API and the shipment
handlers write. The checklists and the certificates gate the transition API.
A transition into a site stage queues `auto_assign_engineer_task`; so do the
decline of an assignment (same stage) and its completion (next stage). A unit
refers to its product model and its place; registering it may insert or rename
the model in the same transaction. Every handler but a few public ones starts by
turning a token into an `AuthContext`. The panel and the scripts write the same
tables without the services and their rules, under the constraints alone.

What makes this hard:

* **Reads and commits are apart.** Every handler reads first, which begins the
  transaction, and enters `atomic()` later. `atomic(serializable=True)` then
  finds a transaction in progress (`shared/acid.py:21`) and never raises the
  isolation level: the whole application runs at READ COMMITTED, without
  `SELECT ... FOR UPDATE`, and what a handler checked may be untrue when it writes.
* **SQLAlchemy decides what is written and read.** Only columns whose value
  differs from the one loaded are sent, so overlapping updates of a row merge
  column by column; a row some variable still holds is not read again, one that
  nobody holds is.
* **Look, then insert.** Names, e-mails, serial numbers and responses are looked
  for before they are inserted. Where a constraint stands behind the look, it
  decides; for checklist responses and sites there is none, and for e-mails and
  serial numbers the look and the constraint do not ask the same question.
* **Two chains of command** move a unit: history is written by one of them only.
* **Effects outside the transaction**: tasks are queued after the commit, retried,
  and lost with a worker; the QR image is written before the commit.
* **Copies that age**: a token carries roles as they were when it was issued.

What makes the components correct, informally: a unit belongs to one shipment and
its stage has a cause; the auditor's tables (history, certificates, is_active)
justify each other whatever interleaves; a deleted unit comes to rest; a queued
stage gets an engineer; engineers are neither overloaded nor forgotten; no gate
passes an item nobody ticked; what is taken away from a user stops working in
time; registrations are all or nothing, and the image on a unit is that unit's.

## 2. Modules

| Module | Contents |
|---|---|
| `BessStages` | the constants of `shared/enums.py`, `STATUS_TO_BESS_STAGE`, and the split of the stages into *gated* (entered through the transition API only) and *shipment* stages |
| `StageLedger` | the abstract specification: history, certificates and is_active grow, and each new row is justified by earlier ones |
| `BessLifecycle` | units, shipments and the requests that change them; its safety properties; the refinement mapping to `StageLedger` |
| `EngineerAssignment` | assignments, availability, the Celery task and the requests |
| `StaffedUnits` | `BessLifecycle` and `EngineerAssignment` composed: the call of the task and the deleted units are shared |
| `StageGate` | the abstract specification of the checklist gate: checking the items and leaving the stage are one step |
| `ChecklistItems` | the checklist of one unit item by item, and the three places that ask for complete items |
| `BessPermissions` | permissions, roles, the guard of every endpoint as its router has it, and the table of the seed script |
| `AccessControl` | accounts, roles, tokens, the panel and the seeding |
| `UnitRegistry` | master data, registration and update of units, QR images |
| `*Proofs`, `UnitRegistryImages` | the invariants and theorems of the module they extend |
| `MC*` | the instances for TLC |

In all of them a handler that decides on what it read is a record `req[r]` that
holds how far it is and what it read. It advances by one action per point where
another transaction may commit in between; its own transaction is one commit
action, because the rows it updates stay locked from the flush to the commit. An
error, a constraint violation, a disconnect or a crash at any point is an action
as well (`Fail`, `Abort`, `End`): the transaction rolls back.

### BessLifecycle

State: each table is a set or a function on ids (`units`, `stage`, `active`,
`deleted`, `history`, `certs`, `shipments`, `status`, `items`, `documents`).
`placedIn` and `bound` say which units and shipments have a warehouse or a site;
which one it is does not matter to any guard. `complete[u]` is the set of stages
whose mandatory checklist items are all checked, which is all the two gates read;
`ChecklistItems` has the items behind it. `tasks` is the set of calls of
`auto_assign_engineer_task.delay`.

| Handler | Actions |
|---|---|
| `create_bess_unit`, `update_bess_unit`, `delete_bess_unit`, `add_stage_certificate`, `update_checklist_item` | `CreateUnit`, `UpdateUnit`, `DeleteUnit`, `AddCertificate`, `UpdateChecklist` (what they do to these tables does not depend on what they read, so they are one action) |
| `transition_stage` | `TransitionLoad` (load and checks on the row), `TransitionCertificateGate`, `TransitionChecklistGate`, `TransitionHandoverGate`, `TransitionCommit`, `QueueEngineerTask` |
| `assign_unit_to_shipment`, `assign_units_to_shipment_bulk` | `AssignLoad`, `AssignReread`, `AssignCommit` |
| `update_shipment_status` | `StatusLoad`, `StatusFlush`, `StatusCommit` |
| `assign_shipment_warehouse`, `assign_shipment_site` | `PlaceLoad`, `PlaceCommit` |
| `create_shipment`, `upload_shipment_document` | `CreateShipment`, `UploadDocument` |
| any error or crash | `Fail`; in `transitioned` the commit stays and the task is lost |

The exception to the single commit action is `update_shipment_status`, which
flushes the shipment, then *reads* the linked items: `StatusFlush` is where it
does, and `Locked` keeps other writers of that shipment waiting until it commits.
`AssignReread` is the second `get_by_id` of the bulk loop: its first iteration
already lets go of the last unit checked, so every unit of a larger group can be
read anew. `rewrite` holds the units whose loaded stage differs from the new one,
since only those are sent.

Merged on purpose: the queries of the handover document are one read of
`complete` here, and one query per stage in `ChecklistItems`.

### EngineerAssignment

State: `rows` (site_assignments in id order), `available`, `deleted`, the tasks
and the requests in flight. `mode` never changes: it says whether handlers and
tasks overlap in this behaviour, whether anything dies or raises, which engineers
were created available (`create_engineer` takes that from its payload), and, as a
bound, which stages are asked for: an assignment by hand may name any stage, a
transition calls an engineer to a site stage. The properties of `Overlap = FALSE`
and those that assume no faults are checked in the same run by letting `Init`
choose.

| Code | Actions |
|---|---|
| `auto_assign_engineer_task` | `TaskStart` (nothing to do if the stage has a row), `Retry`, `TaskRefused`, `TaskDisturbed` |
| `auto_assign_engineer` | `AutoCheck`, `AutoChoose` (`find_best_available`), `AutoCount` (count after the flush), `AutoCommit` |
| `manual_assign_engineer` | `ManualLoad`, `ManualCount`, `ManualCommit` |
| `accept_assignment` | `Accept`, which asks for no status, as in the code |
| `decline_assignment` | `DeclineLoad`, `DeclineCommit`, `QueueFollowUp` |
| `complete_assignment` | `CompleteLoad`, `CompleteCount`, `CompleteCommit`, `QueueFollowUp` |
| `transition_stage`, `delete_bess_unit` | `StageEntered`, `DeleteUnit`, the environment here |
| crash of a request | `Abort` |

Celery acknowledges a task when it hands it out (the default the configuration
keeps), so `TaskDisturbed` may lose it; an exception, from a query too, consumes
one of the retries. The 60 seconds before a retry are not modelled: it is queued.
`find_best_available` asks for the city, then the country; both are one step.
`notify_engineer_task` only logs and is left out.
Rows are numbered when they commit; PostgreSQL draws the ids at the flush, which
two overlapping inserts can do in the other order. The same rows then exist in
either order in the model, by letting the other insert commit first.

### StaffedUnits

The composition extends `BessLifecycle` and takes `EngineerAssignment` as the
instance `Crew`, whose requests are kept apart (`CrewRequest`, `work`). What the two
share in the code is shared here: `bess_units.is_deleted` is one variable, and
`auto_assign_engineer_task.delay` is one step of both.

| Step | In `BessLifecycle` | In `EngineerAssignment` |
|---|---|---|
| `CallEngineer` | `QueueEngineerTask` | `StageEntered` |
| `RemoveUnit` | `DeleteUnit` | `DeleteUnit` |
| `LifeStep` | any other action | stutters |
| `CrewStep` | stutters | any other action |

`CallEngineer` puts the call straight into the queue. A broker that never gets it
is the request failing before the call, which `Fail` has. With all `Task` ids taken
`CallEngineer` waits, which is the bound on the queue and not something the code does.

### ChecklistItems

State: one unit's `stage` and `deleted`, `templates` and `responses` by id. An
answer has the columns a property is about (checked, photo, by whom) and two
marks: `needed`, whether the template required a photo when the handler that
wrote the row loaded it, and `corrected`, whether the panel ever edited the row.
`ticked` remembers the items ever written as checked, `overlap` is chosen once.

| Code | Actions |
|---|---|
| `update_checklist_item` | `UpdateLoad` (template, photo rule), `GetResponse` (any one of the rows, or none), `CreateCommit`, `UpdateCommit` (only the columns that differ from the loaded ones) |
| `transition_stage` | `TransitionLoad`, `ChecklistGate` (`get_incomplete_mandatory`: an item with several responses counts as open if one of them is), `TransitionCommit` |
| checklist report, handover document and its data | `ReportLoad`, `CollectStage`, one query per stage |
| `src/scripts/sync_checklist_templates.py`, `src/scripts/seed.py` | `LoadFile`, which writes what it finds anew or leaves it alone |
| panel | `PanelSaveTemplate`, `PanelDeleteTemplate` (refused by the foreign key once answered), `PanelEditResponse`, `PanelDeleteResponse` |
| `delete_bess_unit` | `DeleteUnit` |

`StageGate` is what the gate promises to whoever calls it: a live unit leaves a
stage whose mandatory items are checked, for the next one, in a single step, and
reaches ACTIVE when every stage is checked. The mapping `Gate` takes `ready` to be
the stages without an incomplete item and `exact` to be the absence of overlap:
with it, the abstract unit may still only move along an edge of the chain.

### AccessControl

State: the tables (`email`, `active`, `roles`, `permissions`,
`role_permissions`, `user_roles`), the token `pairs` in clients' hands with
their age, and the panel `sessions`. A pair carries the roles and permissions of
its access token. `lost` remembers what `user_roles` and `role_permissions` lost
for as long as an access token may still carry it; `signup` says which accounts
were registered, and whether the panel changed their e-mail since.

| Code | Actions |
|---|---|
| `register_user` | `RegisterLook` (the e-mail as typed), `RegisterCommit` (in lower case, under the unique constraint) |
| `authenticate`, `refresh_tokens` | `Login`, `Refresh` |
| `issue_tokens`, `get_user_roles_permissions` | `ReadRoles`, then `IssueTokens`, which reads the permissions: two queries |
| `get_auth_context` | `GetAuthContext` (the user must be active now, the roles are the token's), `ReadRoles` and `FallBackToTables` when the token carries none |
| `require_permission`, `require_role` | `Enters`, over the routes of `BessPermissions` |
| `create_role`, `assign_role_to_user`, `remove_role_from_user` | `CreateRoleLook`, `CreateRoleCommit`, `AssignRole`, `RemoveRole` |
| panel login and forms | `PanelLogin`, `PanelLogout`, `PanelEdit` |
| `src/scripts/seed_rbac_flow.py`, `seed.py` | `Seed` |

A tick of time is long compared to a handler: `Tick` falls between requests. A
handler slower than that could act with an older token than the model says, by
its own length.

### UnitRegistry

State: all tables draw their ids from one sequence; `rows[i]` is the row, or says
that the id is not handed out, not committed yet (`Pending`), or gone. `files`
maps a serial number to the QR image of that name. `touched` are the ids the panel
saved or deleted, and the product models that had the old spelling (HESS) at the
start: no migration renames those, and `create_product_model` looks for the new
one only. An image is `sited` when a site assigned to the shipment has changed,
since it was made, whether its unit is located; nothing reads that but the
property. `mode` chooses whether handlers overlap and, as bounds, which kinds of
rows are created, of which names, and which profiles units have.

| Code | Actions |
|---|---|
| `create_country` ... `create_product_model` | `CreateLook` (parents, nesting, an existing row), `CreateInsert` |
| `create_bess_unit`, `register_bess_from_qr`, `register_bess_from_photo` | `ResolveGiven`, `ResolveNamed` (renames a model that has the old spelling) or `ResolveMissing` (inserts one), `RegisterCheck`, `RegisterInsert` (INSERT, then the image), `RegisterCommit` |
| `update_bess_unit` | `UpdateLoad`, `UpdateWrite` (the image, from the handler's copy), `UpdateCommit` (column by column) |
| `transition_stage`, as far as it rewrites the image | `TransitionLoad`, then `UpdateWrite` and `UpdateCommit` |
| `assign_shipment_site`, as far as it writes the units | `AssignSiteLoad` (the site and the linked units), `AssignSiteCommit` (country, city and address of all of them, column by column, and no image) |
| `delete_bess_unit` | `DeleteUnit` |
| a refusal or failure | `Fail`: rows are rolled back, the image stays and is marked `void` |
| panel | `PanelSave`, `PanelDelete` |

`SameKey` has the unique columns, `RefersToRows` the foreign keys, `Taken` a
constraint that another row or an uncommitted one violates: PostgreSQL makes the
second writer wait for the first. `Locked` keeps other writers from rows that
an uncommitted transaction refers to or has renamed. Which units a shipment has
is `BessLifecycle`'s matter; here any set of them may be linked. The site and the
units are read in one step: only the panel changes a site, so what the step leaves
out is its edit between the two queries.

## 3. Runs

| Run | Instance | What it shows |
|---|---|---|
| `custody` | 2 units, 2 shipments, 2 requests, bulk groups up to 2 | `OneShipmentPerUnit`, `LinkedUnitsLeftFactory`, `DispatchHasSite`, `DeletedUnitsDrain` |
| `gates` | 1 unit at HOT_COMMISSION, the shipment that brought it, 2 requests, certificates, two mandatory checklists | `TypeOK`, `StageProvenance`, `CertificateGate`, `TrailUnbroken`, `ActivationJustified`, `TasksFollowHistory`, `LedgerImplemented` |
| `packed_guard` | 1 unit, 1 shipment, 1 request | **violation** of `PackedShipmentsAreComplete` |
| `exact_next` | 1 unit, 1 shipment, 2 requests | **violation** of `TransitionsAreExactNext` |
| `assignment` | 2 tasks, 2 workers, 1 request, 2 engineers, 3 rows, 1 retry; with overlap and faults, with overlap, one at a time, and that with an engineer created unavailable and a stage that is not a site stage | `TypeOK`, `OneAutoRowPerWorker`, `UnavailableIsFull`, `AutoRespectsCapacity`, `DeletedUnitsRest`, `TasksFinish`, `StagesGetEngineers` |
| `staffed` | 1 unit at HOT_COMMISSION, 1 transition at a time, 2 tasks, 2 workers, 1 request about assignments, 1 engineer, 3 rows, faults | `EngineersAreCalled`, `WorkersAreServed` |
| `declined` | 1 worker, 1 request, no faults | **violation** of `DeclinedIsReassigned` |
| `duplicate` | no overlap, no faults | **violation** of `OneActivePerStage` |
| `access` | 2 accounts, 2 requests, tokens of 1 and 2 ticks, 1 pair, 3 changes of the tables | `TypeOK`, `RevocationTakesEffect`, `OneAccountPerAddress`, `RolesOpenTheirEndpoints`, `InactiveUsersDrain` |
| `checklist` | 2 items, 3 responses, 3 stages, 2 requests, 2 edits, with and without overlap | `TypeOK`, `ResponsesBounded`, `GatesHold`, `AnswersHoldTogether`, `GatesAskForTicks`, `GateImplemented` |
| `checklist_photo` | 1 item, 1 response, 2 requests | **violation** of `PhotoForEveryCheckedItem` |
| `registry` | 6 rows, 2 requests, 1 panel edit, four modes, tables empty or seeded | `TypeOK`, `PlacesNest`, `SitesBounded`, `OneRowPerFamily`, `QrNamesItsUnit`, `QrShowsProfile`, `RegistrationIsAtomic` |

The largest are `checklist` (1.5 million distinct states), `gates` and `custody`
(0.4 million each); each run ends within a few minutes.

Bounds. A race needs two handlers, so every instance has two requests, or two
tasks and a request; none of the properties counts higher than the requests do.
What else an instance holds is the least that lets its races end differently:

* `BessLifecycle`: a violation of `OneShipmentPerUnit` needs one unit and two
  shipments; the second unit is there for bulk groups that fail or are re-read
  half way. The twenty stages form a chain, so the runs *seed* a unit in front of
  the stages that matter (`SeedStage`, with the trail and the shipment that led
  there) and give users the few inputs that go on from there or pull the unit back.
  The unit of `gates` came to the site on its shipment, so the certificate gates it
  is pulled back to are still closed.
* `EngineerAssignment`: `MaxRows` bounds the rows ever inserted, `Task` the tasks
  queued or running, `MaxRetries` the retries (1 instead of 3); `Room` is the
  guard that keeps a request from beginning when the row and the task it may need
  would not fit, so that the bounds never block a handler half way. Three rows are
  enough for a decline, a reassignment and one more than two workers may insert.
* `ChecklistItems`: two items, because a file and the panel can make a second one
  of the same text; three responses, one more than two requests can insert; the
  last three stages, the only ones with a document in a gate. Two edits let the
  panel delete a response or item and the script bring it back.
* `StaffedUnits`: the unit stands in the stage before FINAL_ACCEPTANCE, so that a
  task for that stage can come from the transition and from the completion of an
  assignment to HOT_COMMISSION. Two tasks and three rows are those of
  `EngineerAssignment`; one transition at a time is enough, for a task is queued by
  the handler that committed.
* `AccessControl`: an access token of one tick and a refresh token of two are the
  least that differ. Three changes are enough to seed the tables, to give or take
  a role, and to change the role's permissions while a token waits. The changes made
  by requests count too.
* `UnitRegistry`: the four modes share the six ids, so that two rows of a kind and
  what they refer to always fit: `Regions` (states and cities, of one name beside
  the seeded city's), `Sites` (countries, warehouses, sites), `Racing` (sites,
  models and units), `OneAtATime` (the same, with a customer, an address, both or
  neither). In `Racing` every unit and site has an address, and a model
  in the old spelling comes from the panel; the theorems have neither limit.

Units, shipments, requests, items, responses and accounts are interchangeable, and
symmetry is declared in the runs that check safety only. `CHECK_DEADLOCK FALSE`
stands where a behaviour really ends: when the one unit is deleted (and nothing
about it is in flight), or when the ids are used up.

With one handler at a time. `UnavailableIsFull`, `AutoRespectsCapacity`,
`GatesHold`, `AnswersHoldTogether` and `QrShowsProfile` are stated for behaviours
without overlap. With it they are false, and nothing recorded would restore them:
the availability flag is a cached count that two commits can leave at either
value, a gate can be outdated at the commit, and merged updates leave columns that
no handler wrote together. What the runs show is that overlap is the *only* cause:
along every serial sequence, of accepted declines, repeated completions and panel
edits too, they hold. Two of them say so with an exception. `UnavailableIsFull` is
about engineers who were created available. `QrShowsProfile` excepts the images
that `assign_shipment_site` left behind: serially too, a unit with a customer
whose site arrives through its shipment has a complete profile and an image that
leads to the plain page, until its next update or transition. Of such an image the
property still says that it is not public without a customer. What survives overlap is stated beside them:
`OneAutoRowPerWorker`, `GatesAskForTicks`, `ResponsesBounded`, `QrNamesItsUnit`.

Fairness. Only `EngineerAssignment` has liveness properties. `FairSpec` assumes
weak fairness of each task's own steps and of the remaining steps of a handler
that has begun: a worker runs the task it took and takes a queued one while it is
idle (no run has more tasks than workers, so a queued task is never overtaken),
and a handler runs to its end. Nothing makes a user send a request, and no
fairness is assumed of faults.

## 4. What the runs say about the documents

* `packed_guard`: `API_FLOW_GUIDE.md:226` (and two tests) give PACKED two guards;
  `domains/shipment/service.py:338` has neither.
* `exact_next`: `API_FLOW_GUIDE.md:271` allows a transition to the exact next
  stage only. A transition that read SHIPMENT_ASSIGNED commits PACKED after a
  shipment update moved the unit to IN_TRANSIT.
* `declined`: `API_FLOW_GUIDE.md:314` promises a reassignment after a decline;
  the task it queues returns at the declined row (`domains/engineer/tasks.py:25`).
* `duplicate`: the comment at `domains/engineer/service.py:154` forbids a second
  active assignment of a stage; `accept_assignment` has no status guard.
* `checklist_photo`: `API_FLOW_GUIDE.md:249` makes a photo mandatory for every
  checked item. The rule is applied to a request, and two requests whose updates
  of one response are merged leave it checked without the photo that was required
  (`domains/installation/service.py:90`).

## 5. Proofs

The theorems hold for every set of units, requests, engineers, items, roles and
so on; the constants are bound only by the named assumptions `InputAssumption`
and `SeedAssumption` (the inputs are in the vocabulary, the rows at the start
could be there, product models in the old spelling among them), `AssignmentAssumption`, `ChecklistAssumption`,
`AccessAssumption` and `RegistryAssumption` (the types of the constants; the
requests in flight are finitely many, for the theorems that count them), and
`StaffingAssumption` (the stages a transition may enter are among those
`EngineerAssignment` follows, a matter of its bound `Modes`).

| Module | Theorem | Statement |
|---|---|---|
| `BessLifecycleProofs` | `InductiveInvariant` | `[]IInv` |
| | `TypeCorrect` | `[]TypeOK` |
| | `StagesHaveProvenance`, `HistoryUnbroken`, `CertificatesGate`, `ActivationIsJustified` | `[]StageProvenance`, `[]TrailUnbroken`, `[]CertificateGate`, `[]ActivationJustified` |
| | `UnitsHaveOneShipment`, `LinkedUnitsLeave`, `DispatchedHaveSite`, `TasksAreCommitted` | `[]OneShipmentPerUnit`, `[]LinkedUnitsLeftFactory`, `[]DispatchHasSite`, `[]TasksFollowHistory` |
| | `DeletedUnitsComeToRest` | `DeletedUnitsDrain` |
| | `ImplementsLedger` | `LedgerImplemented`, that is `Ledger!Spec` |
| `EngineerAssignmentProofs` | `AssignmentTypes`, `AutoRowsAreFew`, `UnavailableAreFull` | `[]TypeOK`, `[]OneAutoRowPerWorker`, `[]UnavailableIsFull` |
| | `AutoRowsRespectCapacity`, `DeletedUnitsComeToRest` | `AutoRespectsCapacity`, `DeletedUnitsRest` |
| `StaffedUnitsProofs` | `StaffedUnitsLive`, `StaffedUnitsAssign` | `StaffedSpec` implements both parts: `Spec` of `BessLifecycle`, and `WorkersAreServed`, that is `Crew!Spec` |
| | `StaffedStagesHaveFewRows`, `EngineersComeWhenCalled` | `[]Crew!OneAutoRowPerWorker`, `[]EngineersAreCalled` |
| `ChecklistItemsProofs` | `ChecklistTypes`, `DuplicatesAreBounded`, `AnswersAreConsistent`, `GatesStillHold` | `[]TypeOK`, `[]ResponsesBounded`, `[]AnswersHoldTogether`, `[]GatesHold` |
| | `GatesNeedTicks` | `GatesAskForTicks` |
| | `ImplementsGate` | `GateImplemented`, that is `Gate!Spec` |
| `AccessControlProofs` | `AccessTypes`, `RevocationIsTimely`, `AddressesAreDistinct` | `[]TypeOK`, `[]RevocationTakesEffect`, `[]OneAccountPerAddress` |
| | `InactiveComeToRest` | `InactiveUsersDrain` |
| | `RolesOpenAlways` | `[]RolesOpenTheirEndpoints` |
| `UnitRegistryProofs` | `RegistryTypes`, `PlacesStayNested`, `EqualSitesAreBounded` | `[]TypeOK`, `[]PlacesNest`, `[]SitesBounded` |
| | `RegistrationsAreAtomic` | `RegistrationIsAtomic` |
| `UnitRegistryImages` | `FamiliesHaveOneRow`, `ImagesNameTheirUnit`, `ImagesShowProfiles` | `[]OneRowPerFamily`, `[]QrNamesItsUnit`, `[]QrShowsProfile` |

Few of these properties are inductive: a request in flight will write on the
strength of rows it read long ago. Each inductive invariant therefore says, for
each request, what it may *still* rely on.

**BessLifecycle.** `IInv` adds `RequestSound`: for a transition, that the edge it
loaded is legal, that a gated stage it leaves was entered, that a certificate it
counted is still there; for an assignment, that a unit of its group that it will
not rewrite has left the factory; for a status update, that the shipment it
dispatches has a site. These facts survive everything the other requests commit
because none of the tables they are about ever loses a row and no live unit
returns to the factory stage. That is `Evolves`; `OthersStaySound` turns it into
one lemma, so that each action is left with its own request only. `Registered`
ties the ids in use to the registered ones. The refinement maps `history`, `certs`
and `active` to `ledger`, `evidence` and `live`: `AddCertificate` is `File`,
`TransitionCommit` is `Record`, and every other step stutters. TLC checked `IInv`
on the instances above before it was proved.

**EngineerAssignment.** The types need two facts besides: the room that tasks and
requests were given when they began suffices for their rows (`RoomKept`), and a
request is about a row that is there (`RowsFound`). `OneAutoRowPerWorker` follows
from `WorkersShare`: a stage's automatic rows *and* the tasks still deciding about
it are together no more than the workers, for a task starts only where there is
no row, and no more of them run at once. Without overlap, `Knowing` says that the
one handler in flight knows the truth: its counts and flags are those of the rows.
All counting goes through one lemma, `OneElementApart`. The relation
`Moves` lists once, for all steps, how tasks, requests and rows may change, given
the calls that came from outside; `DeletedUnitsRest`, and `Calls` of the
composition below, are proved against it.

**StaffedUnits.** To `BessLifecycle` a step of the composition is one of its own or
none (`StaffedIsLife`). To `EngineerAssignment` that is not obvious: it lets
`StageEntered` happen for units that exist and site stages that are followed, while
`CallEngineer` hands over what a request in flight has in its columns. `StaffedInv`
says that these are such a unit and stage, from `IInv` and from the inputs
transitions begin with (`Asked`). The theorems of `EngineerAssignmentProofs` are then
used through an instance of that module, `CrewP`; the `Same*` lemmas show that its
actions are those of `Crew`. `EngineersAreCalled` needs `Calls`: whatever is queued,
running or owed, and each automatic row, was called for by an entry in the history
or by an earlier row, except for tasks that will find a row and return. It holds on
because `EntriesStay`: the history, which refines a ledger, is only added to.

**ChecklistItems.** `InsertionsBounded` counts an item's responses together with
the handlers about to insert one: at the look the item has none, and from then on
each insertion uses its handler up. `TicksRemembered` relates `ticked` to the
responses. `InTurn` is the serial case: one handler, its loaded row is still the
row, and every row is consistent. `ImplementsGate` needs of
the handler in flight, besides that what it found still holds, that the unit is
there and in the stage it loaded (`LeavesInTurn`). `GateStep` maps the commit to
`Advance`, whatever changes the items to `Work`, and the rest to stuttering.

**AccessControl.** `Backed` says of a token pair, and of a request in flight, that
each role and permission it carries is in the tables or was lost no longer ago
than the pair is old; the age of an accepted pair is at most `AccessLife`.
`RolesOpenTheirEndpoints` comes down to a fact about the routers and the script's
table without variables, which the prover checks role by role. `EmailsDistinct` puts a registered e-mail in lower case, where the unique
constraint can speak for the address. `InactiveUsersDrain` needs no invariant but
the types: each step that makes a pair for a user uses up a request of that user.

**UnitRegistry.** `RegistrationsSound` says that requests have their own uncommitted
ids. The relation `History` lists, once for all steps, how rows, files and
requests may change; the invariants after it are proved against `History`, not
against each action anew. `RowsSound` carries nesting and spelling, `SitesCounted`
counts like the checklist does. `UniqueKeys` extends the unique columns to what is
not committed yet (`Claimed`), which is what the constraints really protect;
`FilesBacked` says whose image each file is, and `Single` with `ProfilesShown`
that without overlap it is up to date, or `sited` and no more public than the
customer allows. `SitedRows` and `SitedImages` say what the assignment of a site
does to the rows and to the images; the invariants are proved against those.

## 6. Model-checked only

* Liveness: `TasksFinish` and `StagesGetEngineers`. Liveness under fairness is out
  of the prover's reach.
* The five violations.

## 7. Not modelled

* Commissioning records: one insert after one existence check, in a table that no
  other component reads. Reports: aggregating queries without state.
* Uploads and S3: file names are random and nothing but a row refers to a file. A
  document written before a commit that fails is lost space, no more.
* The forms of the panel for a unit's stage, the history, shipments, engineers and
  assignments: `BESSUnitAdmin` writes `current_stage` directly, so the properties
  of `BessLifecycle` and `EngineerAssignment` are about databases changed through
  the API. The panel asks for the super administrator's role at the login only; the
  edits of a session that outlived the role happen in `AccessControl`, but the
  code promises nothing about them.
* The stage in a QR image, which a shipment update leaves as it was: the backend
  does not read it from there. The links between shipments and units in `UnitRegistry`.
* QR and OCR parsing, the layout of documents and images, hashing, JWT encoding,
  audit rows, notes, dates and coordinates: data that no property tells apart.
* `src/scripts/seed_demo_data.py`, which writes example rows in any stage;
  configuration, packaging and the migrations but for the constraints they make.
* The serializable and the nested branch of `atomic()`, which no handler reaches:
  each of them has read something before, and none calls another inside its block.
* A unit deleted between the checks of a bulk assignment and its loop gets its
  `shipment_items` row without the stage; it is deleted, so `LinkedUnitsLeftFactory`
  does not count it. The step is in the model (`AssignReread`).

## 8. Plan

Done: the modules above with their runs and proofs, the composition of units and
engineers among them. What could follow:

1. An abstract catalogue that `UnitRegistry` implements: rows that appear whole,
   under their constraints, and images that follow them.
2. `ChecklistItems` shown to implement the set `complete` of `BessLifecycle`, with
   the panel's edits of items as its environment.
3. The remaining panel forms, and what the properties of `BessLifecycle` become
   when a stage is written by hand.
