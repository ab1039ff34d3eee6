------------------------ MODULE EngineerAssignment ------------------------
(***************************************************************************)
(* Who works on a unit at a site stage: the rows of site_assignments, the  *)
(* engineers' is_available flags and the Celery tasks that fill a stage    *)
(* with an engineer (app/domains/engineer/service.py, repository.py and    *)
(* tasks.py).                                                              *)
(*                                                                         *)
(* A task runs in a worker process and a request in the API process; both  *)
(* read, count and commit in steps of their own, so what they counted may  *)
(* be old when they commit.  Celery acknowledges a task when it hands it   *)
(* out, so a worker that dies loses it; a task that raises is retried at   *)
(* most MaxRetries times.                                                  *)
(***************************************************************************)
EXTENDS BessStages, FiniteSets, Naturals, Sequences

CONSTANTS
    Unit,           \* the registered units
    Engineer,
    InCity,         \* [Unit -> the engineers in the unit's city]
    InCountry,      \* [Unit -> those in its country]
    Specialization, \* [Engineer -> the engineer's specialization]
    Capacity,       \* [Engineer -> max_concurrent_assignments]
    Task,           \* bound: the tasks queued or running at a time
    Workers,        \* how many of them the Celery workers run at once
    Request,        \* the API requests in flight at a time
    MaxRetries,     \* max_retries of the task
    MaxRows,        \* bound: rows ever inserted
    Modes           \* the conditions the system may run under, see mode

ASSUME AssignmentAssumption ==
    /\ InCity \in [Unit -> SUBSET Engineer]
    /\ InCountry \in [Unit -> SUBSET Engineer]
    /\ Capacity \in [Engineer -> Nat]
    /\ IsFiniteSet(Task)
    /\ IsFiniteSet(Request)
    /\ Workers \in Nat
    /\ MaxRetries \in Nat
    /\ MaxRows \in Nat
    /\ Modes \subseteq [overlap : BOOLEAN, faulty : BOOLEAN,
                        created : SUBSET Engineer, stages : SUBSET Stage]

VARIABLES
    rows,       \* site_assignments in the order of their ids
    available,  \* the engineers with is_available
    deleted,    \* the units with is_deleted
    task,       \* [Task -> the task, queued or as far as its worker is]
    req,        \* [Request -> the state of the handler it runs]
    mode        \* the conditions of this behaviour; no step changes them

vars == <<rows, available, deleted, task, req, mode>>

\* Whether requests and tasks run at the same time.
Overlap == mode.overlap

\* The stages of this behaviour: a caller may name any of them, an engineer is
\* called to the site stages among them.
InPlay == mode.stages

\* The engineers whose payload said is_available when they were created.
CreatedAvailable == mode.created

\* Whether workers and requests die and queries raise.
Faulty == mode.faulty

----------------------------------------------------------------------------

AssignmentStatus ==
    {"PENDING", "ACCEPTED", "IN_PROGRESS", "COMPLETED", "REASSIGNED", "DECLINED"}

ACTIVE_ASSIGNMENT_STATUSES == {"PENDING", "ACCEPTED", "IN_PROGRESS"}

STAGE_TO_SPECIALIZATION(s) ==
    CASE s = "CIVIL_INSTALLATION" -> "CIVIL"
      [] s = "DC_INSTALLATION" -> "DC_ELECTRICAL"
      [] s = "AC_INSTALLATION" -> "AC_ELECTRICAL"
      [] s \in {"PRE_COMMISSION", "COLD_COMMISSION", "HOT_COMMISSION"} -> "COMMISSIONING"
      [] OTHER -> "GENERAL"

SiteAssignment ==
    [unit : Unit, stage : Stage, engineer : Engineer,
     status : AssignmentStatus, by : {"AUTO", "MANUAL"}]

Free == [pc |-> "free"]
Idle == [pc |-> "idle"]

\* tries: the retries used up.  full: the count that decides on is_available.
TaskState ==
    {Free}
    \cup [pc : {"queued", "checked", "cleared"}, unit : Unit, stage : Stage,
          tries : 0..MaxRetries]
    \cup [pc : {"chosen"}, unit : Unit, stage : Stage, tries : 0..MaxRetries,
          engineer : Engineer]
    \cup [pc : {"counted"}, unit : Unit, stage : Stage, tries : 0..MaxRetries,
          engineer : Engineer, full : BOOLEAN]

\* was: the engineer's is_available as loaded.  writes: the row's status, as
\* loaded, is another.  An UPDATE is sent for what changes.
RequestState ==
    {Idle}
    \cup [pc : {"assigning"}, unit : Unit, stage : InPlay, engineer : Engineer,
          was : BOOLEAN]
    \cup [pc : {"assign_counted"}, unit : Unit, stage : InPlay, engineer : Engineer,
          was : BOOLEAN, full : BOOLEAN]
    \cup [pc : {"declining", "completing"}, row : 1..MaxRows, was : BOOLEAN,
          writes : BOOLEAN]
    \cup [pc : {"complete_counted"}, row : 1..MaxRows, was : BOOLEAN,
          writes : BOOLEAN, full : BOOLEAN]
    \cup [pc : {"owes_task"}, unit : Unit, stage : Stage]

RowsOf(u, s) == {i \in DOMAIN rows : rows[i].unit = u /\ rows[i].stage = s}

\* get_existing_assignment_for_stage: the newest row of the unit and stage has
\* one of the statuses.
ExistingIn(u, s, statuses) ==
    \E i \in RowsOf(u, s) :
        /\ \A j \in RowsOf(u, s) : j <= i
        /\ rows[i].status \in statuses

\* count_active_assignments.
Load(e) ==
    Cardinality({i \in DOMAIN rows : /\ rows[i].engineer = e
                                     /\ rows[i].status \in ACTIVE_ASSIGNMENT_STATUSES})

Running(t) == task[t].pc \notin {"free", "queued"}

Alone == (\A t \in Task : ~Running(t)) /\ (\A r \in Request : req[r] = Idle)

AWorkerIsFree == Cardinality({t \in Task : Running(t)}) < Workers

\* The bounds: each request and task in flight may yet queue a task and insert
\* a row.
Room ==
    LET inFlight == Cardinality({t \in Task : task[t] # Free})
                        + Cardinality({r \in Request : req[r] # Idle})
    IN  /\ inFlight < Cardinality(Task)
        /\ inFlight + Len(rows) < MaxRows

Insert(u, s, e, by) ==
    rows' = Append(rows, [unit |-> u, stage |-> s, engineer |-> e,
                          status |-> "PENDING", by |-> by])

SetStatus(i, to) == rows' = [rows EXCEPT ![i].status = to]

SetTask(t, state) == task' = [task EXCEPT ![t] = state]
Become(r, state) == req' = [req EXCEPT ![r] = state]

\* auto_assign_engineer_task.delay.
Delay(u, s) ==
    \E t \in Task :
        /\ task[t] = Free
        /\ SetTask(t, [pc |-> "queued", unit |-> u, stage |-> s, tries |-> 0])

----------------------------------------------------------------------------

Init ==
    /\ rows = <<>>
    /\ mode \in Modes
    /\ available = CreatedAvailable
    /\ deleted = {}
    /\ task = [t \in Task |-> Free]
    /\ req = [r \in Request |-> Idle]

----------------------------------------------------------------------------
(* The task.                                                               *)

\* transition_stage committed an entry into a site stage.
StageEntered(u, s) ==
    /\ Room
    /\ Delay(u, s)
    /\ UNCHANGED <<rows, available, deleted, req, mode>>

DeleteUnit(u) ==
    /\ u \notin deleted
    /\ deleted' = deleted \cup {u}
    /\ UNCHANGED <<rows, available, task, req, mode>>

TaskStartAlways(t) ==
    /\ task[t].pc = "queued"
    /\ AWorkerIsFree
    /\ Overlap \/ Alone
    /\ SetTask(t, [task[t] EXCEPT !.pc = "checked"])
    /\ UNCHANGED <<rows, available, deleted, req, mode>>

\* A worker takes the task: nothing to do for a stage that ever had a row.
TaskStart(t) ==
    /\ task[t].pc = "queued"
    /\ AWorkerIsFree
    /\ Overlap \/ Alone
    /\ SetTask(t, IF RowsOf(task[t].unit, task[t].stage) = {}
                  THEN [task[t] EXCEPT !.pc = "checked"] ELSE Free)
    /\ UNCHANGED <<rows, available, deleted, req, mode>>

AutoCheckRowsOnly(t) ==
    /\ task[t].pc = "checked"
    /\ SetTask(t, IF ExistingIn(task[t].unit, task[t].stage,
                                ACTIVE_ASSIGNMENT_STATUSES \cup {"COMPLETED"})
                  THEN Free ELSE [task[t] EXCEPT !.pc = "cleared"])
    /\ UNCHANGED <<rows, available, deleted, req, mode>>

\* auto_assign_engineer looks again, for a row that is active or completed.
AutoCheck(t) ==
    /\ task[t].pc = "checked"
    /\ task[t].unit \notin deleted
    /\ SetTask(t, IF ExistingIn(task[t].unit, task[t].stage,
                                ACTIVE_ASSIGNMENT_STATUSES \cup {"COMPLETED"})
                  THEN Free ELSE [task[t] EXCEPT !.pc = "cleared"])
    /\ UNCHANGED <<rows, available, deleted, req, mode>>

EligibleWhateverLoad(s) ==
    {e \in available : Specialization[e] = STAGE_TO_SPECIALIZATION(s)}

Eligible(s) ==
    {e \in available : /\ Specialization[e] = STAGE_TO_SPECIALIZATION(s)
                       /\ Load(e) < Capacity[e]}

CityOnly(u, s) == Eligible(s) \cap InCity[u]

\* find_best_available asks the unit's city first, then its country; the two
\* queries are one step here.
Candidates(u, s) ==
    IF Eligible(s) \cap InCity[u] # {} THEN Eligible(s) \cap InCity[u]
                                       ELSE Eligible(s) \cap InCountry[u]

\* The least loaded candidate, the one with more capacity among equals.
Best(u, s) ==
    {e \in Candidates(u, s) : \A f \in Candidates(u, s) :
        \/ Load(e) < Load(f)
        \/ Load(e) = Load(f) /\ Capacity[e] >= Capacity[f]}

AutoChoose(t) ==
    /\ task[t].pc = "cleared"
    /\ \E e \in Best(task[t].unit, task[t].stage) :
           SetTask(t, [pc |-> "chosen", unit |-> task[t].unit, stage |-> task[t].stage,
                       tries |-> task[t].tries, engineer |-> e])
    /\ UNCHANGED <<rows, available, deleted, req, mode>>

\* The count after the flush of the new row: that row, and the committed ones.
AutoCount(t) ==
    /\ task[t].pc = "chosen"
    /\ SetTask(t, [pc |-> "counted", unit |-> task[t].unit, stage |-> task[t].stage,
                   tries |-> task[t].tries, engineer |-> task[t].engineer,
                   full |-> Load(task[t].engineer) + 1 >= Capacity[task[t].engineer]])
    /\ UNCHANGED <<rows, available, deleted, req, mode>>

AutoCommit(t) ==
    /\ task[t].pc = "counted"
    /\ Insert(task[t].unit, task[t].stage, task[t].engineer, "AUTO")
    /\ available' = IF task[t].full THEN available \ {task[t].engineer} ELSE available
    /\ SetTask(t, Free)
    /\ UNCHANGED <<deleted, req, mode>>

RetryOnceMore(t) ==
    SetTask(t, IF task[t].tries <= MaxRetries
               THEN [pc |-> "queued", unit |-> task[t].unit, stage |-> task[t].stage,
                     tries |-> task[t].tries + 1]
               ELSE Free)

RetryForever(t) == SetTask(t, [pc |-> "queued", unit |-> task[t].unit,
                               stage |-> task[t].stage, tries |-> task[t].tries])

\* self.retry, or its exception once the retries are used up.
Retry(t) ==
    SetTask(t, IF task[t].tries < MaxRetries
               THEN [pc |-> "queued", unit |-> task[t].unit, stage |-> task[t].stage,
                     tries |-> task[t].tries + 1]
               ELSE Free)

\* BESSNotFoundException and EngineerNotAvailableException.
TaskRefused(t) ==
    /\ \/ task[t].pc = "checked" /\ task[t].unit \in deleted
       \/ task[t].pc = "cleared" /\ Candidates(task[t].unit, task[t].stage) = {}
    /\ Retry(t)
    /\ UNCHANGED <<rows, available, deleted, req, mode>>

\* A query raised, as it does when the pooled connection belongs to the event
\* loop of an earlier task, or the worker died with the task it had taken.
TaskDisturbed(t) ==
    /\ Faulty
    /\ Running(t)
    /\ Retry(t) \/ SetTask(t, Free)
    /\ UNCHANGED <<rows, available, deleted, req, mode>>

----------------------------------------------------------------------------
(* The API requests.                                                       *)

\* A handler may begin, with the room its row and its task will take.
Begins(r) ==
    /\ req[r] = Idle
    /\ Overlap \/ Alone
    /\ Room

\* manual_assign_engineer: the engineer and the stage are the caller's choice,
\* whatever the load, the specialization, the flag and the unit's own stage say.
ManualLoad(r, u, s, e) ==
    /\ Begins(r)
    /\ u \notin deleted
    /\ ~ExistingIn(u, s, ACTIVE_ASSIGNMENT_STATUSES)
    /\ Become(r, [pc |-> "assigning", unit |-> u, stage |-> s, engineer |-> e,
                  was |-> e \in available])
    /\ UNCHANGED <<rows, available, deleted, task, mode>>

ManualCount(r) ==
    /\ req[r].pc = "assigning"
    /\ LET e == req[r].engineer
       IN  Become(r, [pc |-> "assign_counted", unit |-> req[r].unit,
                      stage |-> req[r].stage, engineer |-> e, was |-> req[r].was,
                      full |-> Load(e) + 1 >= Capacity[e]])
    /\ UNCHANGED <<rows, available, deleted, task, mode>>

ManualCommit(r) ==
    /\ req[r].pc = "assign_counted"
    /\ Insert(req[r].unit, req[r].stage, req[r].engineer, "MANUAL")
    /\ available' = IF req[r].full /\ req[r].was THEN available \ {req[r].engineer}
                    ELSE available
    /\ Become(r, Idle)
    /\ UNCHANGED <<deleted, task, mode>>

\* accept_assignment asks for no status: a declined or completed row can be
\* accepted again.
Accept(i) ==
    /\ Overlap \/ Alone
    /\ SetStatus(i, "ACCEPTED")
    /\ UNCHANGED <<available, deleted, task, req, mode>>

\* decline_assignment and complete_assignment ask for none either.
DeclineLoad(r, i) ==
    /\ Begins(r)
    /\ Become(r, [pc |-> "declining", row |-> i, was |-> rows[i].engineer \in available,
                  writes |-> rows[i].status # "DECLINED"])
    /\ UNCHANGED <<rows, available, deleted, task, mode>>

DeclineCommit(r) ==
    /\ req[r].pc = "declining"
    /\ LET i == req[r].row
       IN  /\ IF req[r].writes THEN SetStatus(i, "DECLINED") ELSE UNCHANGED rows
           /\ available' = IF req[r].was THEN available
                           ELSE available \cup {rows[i].engineer}
           /\ Become(r, [pc |-> "owes_task", unit |-> rows[i].unit,
                         stage |-> rows[i].stage])
    /\ UNCHANGED <<deleted, task, mode>>

CompleteLoad(r, i) ==
    /\ Begins(r)
    /\ Become(r, [pc |-> "completing", row |-> i, was |-> rows[i].engineer \in available,
                  writes |-> rows[i].status # "COMPLETED"])
    /\ UNCHANGED <<rows, available, deleted, task, mode>>

\* The count after the flush, which no longer sees the row as active.
CompleteCount(r) ==
    /\ req[r].pc = "completing"
    /\ LET i == req[r].row
           e == rows[i].engineer
           own == IF req[r].writes /\ rows[i].status \in ACTIVE_ASSIGNMENT_STATUSES
                  THEN 1 ELSE 0
       IN  Become(r, [pc |-> "complete_counted", row |-> i, was |-> req[r].was,
                      writes |-> req[r].writes, full |-> Load(e) - own >= Capacity[e]])
    /\ UNCHANGED <<rows, available, deleted, task, mode>>

FlagForgotten(r) == available' = available

\* The engineer of the row is available again if the count said so.
FreeOrFull(r) ==
    LET e == rows[req[r].row].engineer
    IN  available' = IF req[r].full = req[r].was
                     THEN IF req[r].full THEN available \ {e} ELSE available \cup {e}
                     ELSE available

\* The next site stage is handed on, if there is one.
HandOn(u, s) ==
    IF \E n \in SITE_STAGES : <<s, n>> \in STAGE_TRANSITIONS
    THEN [pc |-> "owes_task", unit |-> u,
          stage |-> CHOOSE n \in SITE_STAGES : <<s, n>> \in STAGE_TRANSITIONS]
    ELSE Idle

CompleteCommit(r) ==
    /\ req[r].pc = "complete_counted"
    /\ LET i == req[r].row
       IN  /\ IF req[r].writes THEN SetStatus(i, "COMPLETED") ELSE UNCHANGED rows
           /\ FreeOrFull(r)
           /\ Become(r, HandOn(rows[i].unit, rows[i].stage))
    /\ UNCHANGED <<deleted, task, mode>>

\* After the commit, in another call: decline queues the same stage again,
\* complete the next one.
QueueFollowUp(r) ==
    /\ req[r].pc = "owes_task"
    /\ Delay(req[r].unit, req[r].stage)
    /\ Become(r, Idle)
    /\ UNCHANGED <<rows, available, deleted, mode>>

\* The request dies: nothing of an open transaction stays, and a follow-up
\* that was owed is never queued.
Abort(r) ==
    /\ Faulty
    /\ req[r] # Idle
    /\ Become(r, Idle)
    /\ UNCHANGED <<rows, available, deleted, task, mode>>

----------------------------------------------------------------------------

TaskStep(t) ==
    \/ TaskStart(t)
    \/ AutoCheck(t)
    \/ AutoChoose(t)
    \/ AutoCount(t)
    \/ AutoCommit(t)
    \/ TaskRefused(t)

RequestStart(r) ==
    \/ \E u \in Unit, s \in InPlay, e \in Engineer : ManualLoad(r, u, s, e)
    \/ \E i \in DOMAIN rows : DeclineLoad(r, i) \/ CompleteLoad(r, i)

RequestStep(r) ==
    \/ ManualCount(r)
    \/ ManualCommit(r)
    \/ DeclineCommit(r)
    \/ CompleteCount(r)
    \/ CompleteCommit(r)
    \/ QueueFollowUp(r)

Next ==
    \/ \E u \in Unit, s \in InPlay \cap SITE_STAGES : StageEntered(u, s)
    \/ \E u \in Unit : DeleteUnit(u)
    \/ \E t \in Task : TaskStep(t) \/ TaskDisturbed(t)
    \/ \E i \in DOMAIN rows : Accept(i)
    \/ \E r \in Request : RequestStart(r) \/ RequestStep(r) \/ Abort(r)

Spec == Init /\ [][Next]_vars

\* A queued task finds a worker and runs on, and a handler that began ends; no
\* user has to do anything.
Fairness ==
    /\ \A t \in Task : WF_vars(TaskStep(t))
    /\ \A r \in Request : WF_vars(RequestStep(r))

FairSpec == Spec /\ Fairness

----------------------------------------------------------------------------
(* Safety.                                                                 *)

TypeOK ==
    /\ rows \in Seq(SiteAssignment)
    /\ Len(rows) <= MaxRows
    /\ available \subseteq Engineer
    /\ deleted \subseteq Unit
    /\ task \in [Task -> TaskState]
    /\ req \in [Request -> RequestState]
    /\ mode \in Modes

\* A stage may get several automatic rows, for nothing locks it while a task
\* decides, but no more than workers decide at once: whichever tasks are
\* queued, retried or handed on later find the first of them.
OneAutoRowPerWorker ==
    \A u \in Unit, s \in Stage :
        Cardinality({i \in RowsOf(u, s) : rows[i].by = "AUTO"}) <= Workers

\* As long as no two of them overlap, no handler leaves an engineer with room
\* unavailable who was created available: find_best_available would never find
\* that engineer again.
UnavailableIsFull ==
    ~Overlap => \A e \in CreatedAvailable \ available : Load(e) >= Capacity[e]

\* As long as no two of them overlap, an automatic row takes no engineer past
\* max_concurrent_assignments.
AutoRespectsCapacity ==
    [][~Overlap => \A i \in DOMAIN rows' \ DOMAIN rows :
           rows'[i].by = "AUTO" => Load(rows'[i].engineer) < Capacity[rows'[i].engineer]]_vars

\* The tasks that found the unit there, and the assignments of it under way.
DecidingTasks(u) ==
    {t \in Task : task[t].pc \in {"cleared", "chosen", "counted"} /\ task[t].unit = u}

AssigningRequests(u) ==
    {r \in Request : req[r].pc \in {"assigning", "assign_counted"} /\ req[r].unit = u}

\* A deleted unit comes to rest: whatever is queued, retried or handed on for it
\* no longer decides, no assignment of it begins, and each row it still gets
\* uses up a task or a request that had found it before it was deleted.
DeletedUnitsRest ==
    [][\A u \in deleted :
           /\ DecidingTasks(u)' \subseteq DecidingTasks(u)
           /\ AssigningRequests(u)' \subseteq AssigningRequests(u)
           /\ (\E i \in DOMAIN rows' \ DOMAIN rows : rows'[i].unit = u) =>
                  <<DecidingTasks(u), AssigningRequests(u)>>'
                      # <<DecidingTasks(u), AssigningRequests(u)>>]_vars

----------------------------------------------------------------------------
(* Liveness.                                                               *)

\* A task ends, whatever it meets: its retries run out.
TasksFinish ==
    \A t \in Task : [](Overlap) => (task[t] # Free ~> task[t] = Free)

AnyInPlay == UNION {m.stages : m \in Modes}

\* Someone with the right specialization and room, in the city or the country.
SomeoneFits(u, s) ==
    \E e \in available \cap (InCity[u] \cup InCountry[u]) :
        /\ Specialization[e] = STAGE_TO_SPECIALIZATION(s)
        /\ Load(e) < Capacity[e]

\* If no process dies and somebody always fits, the stage a task was queued for
\* gets its first row.
StagesGetEngineers ==
    \A u \in Unit, s \in AnyInPlay :
        [](Overlap /\ ~Faulty /\ u \notin deleted /\ SomeoneFits(u, s)) =>
            ((\E t \in Task : task[t].pc = "queued" /\ task[t].unit = u /\ task[t].stage = s)
                ~> RowsOf(u, s) # {})

----------------------------------------------------------------------------
(* What the documents say and the code does not do.                        *)

\* API_FLOW_GUIDE.md: declining an assignment triggers an automatic
\* reassignment.  Somebody fits all along, and no process dies.
DeclinedIsReassigned ==
    \A u \in Unit, s \in AnyInPlay :
        [](Overlap /\ ~Faulty /\ u \notin deleted /\ SomeoneFits(u, s)) =>
            (ExistingIn(u, s, {"DECLINED"}) ~> ~ExistingIn(u, s, {"DECLINED"}))

\* manual_assign_engineer: "Prevent duplicate: block if an active assignment
\* already exists for this unit+stage".
OneActivePerStage ==
    \A u \in Unit, s \in Stage :
        Cardinality({i \in RowsOf(u, s) :
                        rows[i].status \in ACTIVE_ASSIGNMENT_STATUSES}) <= 1
=============================================================================
