---------------------- MODULE EngineerAssignmentProofs ----------------------
(***************************************************************************)
(* Proofs about EngineerAssignment for every set of units, engineers,      *)
(* tasks and requests, any number of workers and retries.                  *)
(***************************************************************************)
EXTENDS EngineerAssignment, FiniteSetTheorems, SequenceTheorems, TLAPS

----------------------------------------------------------------------------
(* Counting.                                                               *)

\* Two sets that differ in one element at most: their sizes differ by it.
LEMMA OneElementApart ==
    ASSUME NEW A, NEW B, NEW k, IsFiniteSet(A), A \ {k} = B \ {k}
    PROVE  /\ IsFiniteSet(B)
           /\ Cardinality(A) \in Nat
           /\ Cardinality(B) \in Nat
           /\ (k \in A <=> k \in B) => Cardinality(B) = Cardinality(A)
           /\ k \in A /\ k \notin B => Cardinality(B) = Cardinality(A) - 1
           /\ k \notin A /\ k \in B => Cardinality(B) = Cardinality(A) + 1
  <1>1. IsFiniteSet(A \ {k}) /\ Cardinality(A) \in Nat
    BY FS_RemoveElement, FS_CardinalityType
  <1>2. CASE k \in B
    <2>1. B = (A \ {k}) \cup {k}
      BY <1>2
    <2>2. IsFiniteSet(B) /\ Cardinality(B) = Cardinality(A \ {k}) + 1
      <3>1. k \notin A \ {k}
        OBVIOUS
      <3> QED BY <2>1, <3>1, <1>1, FS_AddElement
    <2> QED BY <2>2, <1>1, <1>2, FS_RemoveElement, FS_CardinalityType
  <1>3. CASE k \notin B
    <2>1. B = A \ {k}
      BY <1>3
    <2> QED BY <2>1, <1>1, <1>3, FS_RemoveElement, FS_CardinalityType
  <1> QED BY <1>2, <1>3

----------------------------------------------------------------------------
(* Facts about the records.                                                *)

\* pc tells what the record of a task holds.
LEMMA TaskByPc ==
    ASSUME NEW x \in TaskState
    PROVE  /\ x.pc \in {"free", "queued", "checked", "cleared", "chosen", "counted"}
           /\ x.pc = "free" <=> x = Free
           /\ x.pc \in {"queued", "checked", "cleared"} =>
                x \in [pc : {"queued", "checked", "cleared"}, unit : Unit,
                       stage : Stage, tries : 0..MaxRetries]
           /\ x.pc = "chosen" =>
                x \in [pc : {"chosen"}, unit : Unit, stage : Stage,
                       tries : 0..MaxRetries, engineer : Engineer]
           /\ x.pc = "counted" =>
                x \in [pc : {"counted"}, unit : Unit, stage : Stage,
                       tries : 0..MaxRetries, engineer : Engineer, full : BOOLEAN]
  BY DEF TaskState, Free

\* A task that is not free has a unit, a stage and its retries.
LEMMA TaskNames ==
    ASSUME NEW x \in TaskState, x # Free
    PROVE  /\ x.unit \in Unit
           /\ x.stage \in Stage
           /\ x.tries \in 0..MaxRetries
  BY DEF TaskState

\* pc tells what the record of a request holds.
LEMMA RequestByPc ==
    ASSUME NEW x \in RequestState
    PROVE  /\ x.pc = "idle" <=> x = Idle
           /\ x.pc = "assigning" =>
                x \in [pc : {"assigning"}, unit : Unit, stage : InPlay,
                       engineer : Engineer, was : BOOLEAN]
           /\ x.pc = "assign_counted" =>
                x \in [pc : {"assign_counted"}, unit : Unit, stage : InPlay,
                       engineer : Engineer, was : BOOLEAN, full : BOOLEAN]
           /\ x.pc \in {"declining", "completing"} =>
                x \in [pc : {"declining", "completing"}, row : 1..MaxRows,
                       was : BOOLEAN, writes : BOOLEAN]
           /\ x.pc = "complete_counted" =>
                x \in [pc : {"complete_counted"}, row : 1..MaxRows, was : BOOLEAN,
                       writes : BOOLEAN, full : BOOLEAN]
           /\ x.pc = "owes_task" =>
                x \in [pc : {"owes_task"}, unit : Unit, stage : Stage]
  BY DEF RequestState, Idle

\* The engineers and the stages of the mode.
LEMMA ModeType ==
    mode \in Modes => CreatedAvailable \subseteq Engineer /\ InPlay \subseteq Stage
  <1>1. \A m \in Modes : m.created \in SUBSET Engineer /\ m.stages \in SUBSET Stage
    BY AssignmentAssumption DEF AssignmentAssumption
  <1> QED BY <1>1 DEF CreatedAvailable, InPlay

LEMMA InPlayType == TypeOK => InPlay \subseteq Stage
  BY ModeType DEF TypeOK

\* The stages an engineer is called to are stages.
LEMMA SiteStagesAreStages == SITE_STAGES \subseteq Stage
  BY DEF SITE_STAGES, Stage

----------------------------------------------------------------------------
(* Types, and the room kept for what is in flight.                         *)

BusyTasks == {t \in Task : task[t] # Free}
BusyRequests == {r \in Request : req[r] # Idle}

\* Each task and each request in flight may yet insert a row.
RoomKept ==
    Len(rows) + Cardinality(BusyTasks) + Cardinality(BusyRequests) <= MaxRows

\* A request about a row has found it, and rows are never removed.
RowsFound ==
    \A r \in Request :
        req[r].pc \in {"declining", "completing", "complete_counted"} =>
            req[r].row \in DOMAIN rows

TInv == TypeOK /\ RoomKept /\ RowsFound

\* The sizes are numbers.
LEMMA BusyNumbers ==
    /\ IsFiniteSet(BusyTasks) /\ Cardinality(BusyTasks) \in Nat
    /\ IsFiniteSet(BusyRequests) /\ Cardinality(BusyRequests) \in Nat
  BY AssignmentAssumption, FS_Subset, FS_CardinalityType
  DEF AssignmentAssumption, BusyTasks, BusyRequests

\* A step that sets one task counts it in or out.
LEMMA SetTaskEffect ==
    ASSUME TInv, NEW t \in Task, NEW k \in TaskState, SetTask(t, k)
    PROVE  /\ task' \in [Task -> TaskState]
           /\ task'[t] = k
           /\ \A x \in Task \ {t} : task'[x] = task[x]
           /\ Cardinality(BusyTasks') \in Nat
           /\ (task[t] = Free <=> k = Free) => Cardinality(BusyTasks') = Cardinality(BusyTasks)
           /\ task[t] # Free /\ k = Free => Cardinality(BusyTasks') = Cardinality(BusyTasks) - 1
           /\ task[t] = Free /\ k # Free => Cardinality(BusyTasks') = Cardinality(BusyTasks) + 1
  <1>1. /\ task' \in [Task -> TaskState]
        /\ task'[t] = k
        /\ \A x \in Task \ {t} : task'[x] = task[x]
    BY DEF TInv, TypeOK, SetTask
  <1> DEFINE before == {x \in Task : task[x] # Free}
             after == {x \in Task : task'[x] # Free}
  <1>2. before \ {t} = after \ {t}
    BY <1>1
  <1>3. IsFiniteSet(before)
    BY BusyNumbers DEF BusyTasks
  <1>4. before = BusyTasks /\ after = BusyTasks'
    BY DEF BusyTasks, Free
  <1>5. (t \in before <=> task[t] # Free) /\ (t \in after <=> k # Free)
    BY <1>1
  <1> HIDE DEF before, after
  <1> QED BY <1>1, <1>2, <1>3, <1>4, <1>5, OneElementApart

\* So does a step that sets one request.
LEMMA BecomeEffect ==
    ASSUME TInv, NEW r \in Request, NEW k \in RequestState, Become(r, k)
    PROVE  /\ req' \in [Request -> RequestState]
           /\ req'[r] = k
           /\ \A x \in Request \ {r} : req'[x] = req[x]
           /\ Cardinality(BusyRequests') \in Nat
           /\ (req[r] = Idle <=> k = Idle) =>
                Cardinality(BusyRequests') = Cardinality(BusyRequests)
           /\ req[r] # Idle /\ k = Idle =>
                Cardinality(BusyRequests') = Cardinality(BusyRequests) - 1
           /\ req[r] = Idle /\ k # Idle =>
                Cardinality(BusyRequests') = Cardinality(BusyRequests) + 1
  <1>1. /\ req' \in [Request -> RequestState]
        /\ req'[r] = k
        /\ \A x \in Request \ {r} : req'[x] = req[x]
    BY DEF TInv, TypeOK, Become
  <1> DEFINE before == {x \in Request : req[x] # Idle}
             after == {x \in Request : req'[x] # Idle}
  <1>2. before \ {r} = after \ {r}
    BY <1>1
  <1>3. IsFiniteSet(before)
    BY BusyNumbers DEF BusyRequests
  <1>4. before = BusyRequests /\ after = BusyRequests'
    BY DEF BusyRequests, Idle
  <1>5. (r \in before <=> req[r] # Idle) /\ (r \in after <=> k # Idle)
    BY <1>1
  <1> HIDE DEF before, after
  <1> QED BY <1>1, <1>2, <1>3, <1>4, <1>5, OneElementApart

\* rows is a sequence.
LEMMA RowFacts ==
    ASSUME TInv
    PROVE  /\ Len(rows) \in Nat
           /\ DOMAIN rows = 1..Len(rows)
           /\ \A i \in DOMAIN rows : rows[i] \in SiteAssignment
           /\ DOMAIN rows \subseteq 1..MaxRows
  <1>1. rows \in Seq(SiteAssignment) /\ Len(rows) <= MaxRows
    BY DEF TInv, TypeOK
  <1> QED BY <1>1, LenProperties, ElementOfSeq, AssignmentAssumption DEF AssignmentAssumption

\* The rows an engineer's load counts.
Active(e) ==
    {i \in DOMAIN rows : rows[i].engineer = e /\ rows[i].status \in ACTIVE_ASSIGNMENT_STATUSES}

\* The load counts them, and is a number.
LEMMA LoadType ==
    ASSUME TInv, NEW e \in Engineer
    PROVE  /\ Load(e) = Cardinality(Active(e))
           /\ IsFiniteSet(Active(e))
           /\ Load(e) \in Nat
  <1>1. Load(e) = Cardinality(Active(e))
    BY DEF Load, Active
  <1>2. IsFiniteSet(DOMAIN rows)
    BY RowFacts, FS_Interval
  <1>3. Active(e) \in SUBSET DOMAIN rows
    BY DEF Active
  <1> QED BY <1>1, <1>2, <1>3, FS_Subset, FS_CardinalityType

\* An insert adds a row at the end.
LEMMA InsertEffect ==
    ASSUME TInv, NEW u \in Unit, NEW s \in Stage, NEW e \in Engineer,
           NEW by \in {"AUTO", "MANUAL"}, Insert(u, s, e, by)
    PROVE  /\ rows' \in Seq(SiteAssignment)
           /\ Len(rows') = Len(rows) + 1
           /\ DOMAIN rows' = 1..(Len(rows) + 1)
           /\ \A i \in DOMAIN rows : rows'[i] = rows[i]
           /\ rows'[Len(rows) + 1] = [unit |-> u, stage |-> s, engineer |-> e,
                                      status |-> "PENDING", by |-> by]
  <1>1. rows \in Seq(SiteAssignment) /\ Len(rows) \in Nat /\ DOMAIN rows = 1..Len(rows)
    BY RowFacts DEF TInv, TypeOK
  <1>2. PICK row \in SiteAssignment :
            /\ row = [unit |-> u, stage |-> s, engineer |-> e,
                      status |-> "PENDING", by |-> by]
            /\ rows' = Append(rows, row)
    BY DEF Insert, SiteAssignment, AssignmentStatus
  <1> QED BY <1>1, <1>2, LenProperties

\* A change of status touches one row.
LEMMA SetStatusEffect ==
    ASSUME TInv, NEW i \in DOMAIN rows, NEW to \in AssignmentStatus, SetStatus(i, to)
    PROVE  /\ rows' \in Seq(SiteAssignment)
           /\ Len(rows') = Len(rows)
           /\ DOMAIN rows' = DOMAIN rows
           /\ rows'[i] = [rows[i] EXCEPT !.status = to]
           /\ \A j \in DOMAIN rows \ {i} : rows'[j] = rows[j]
  <1>1. rows \in Seq(SiteAssignment) /\ Len(rows) \in Nat /\ DOMAIN rows = 1..Len(rows)
        /\ rows[i] \in SiteAssignment
    BY RowFacts DEF TInv, TypeOK
  <1>2. [rows[i] EXCEPT !.status = to] \in SiteAssignment
    BY <1>1 DEF SiteAssignment
  <1>3. PICK row \in SiteAssignment : row = [rows[i] EXCEPT !.status = to]
    BY <1>2
  <1>4. rows' = [rows EXCEPT ![i] = row]
    BY <1>1, <1>3 DEF SetStatus
  <1>5. rows' \in Seq(SiteAssignment) /\ Len(rows') = Len(rows)
    BY <1>1, <1>4, ExceptSeq
  <1>6. rows \in [1..Len(rows) -> SiteAssignment]
    BY <1>1, LenProperties
  <1> QED BY <1>1, <1>3, <1>4, <1>5, <1>6

LEMMA TInvInit == Init => TInv
  <1> SUFFICES ASSUME Init PROVE TInv
    OBVIOUS
  <1>1. Len(rows) = 0 /\ rows \in Seq(SiteAssignment)
    BY EmptySeq DEF Init
  <1>2. BusyTasks = {} /\ BusyRequests = {}
    BY DEF Init, BusyTasks, BusyRequests
  <1>3. Cardinality(BusyTasks) = 0 /\ Cardinality(BusyRequests) = 0
    BY <1>2, FS_EmptySet
  <1>4. RoomKept
    BY <1>1, <1>3, AssignmentAssumption DEF RoomKept, AssignmentAssumption
  <1>5. RowsFound
    BY DEF Init, RowsFound, Idle
  <1>6. task \in [Task -> TaskState] /\ req \in [Request -> RequestState]
    BY DEF Init, TaskState, RequestState
  <1>7. TypeOK
    BY <1>1, <1>6, ModeType, AssignmentAssumption DEF TypeOK, Init, AssignmentAssumption
  <1> QED BY <1>4, <1>5, <1>7 DEF TInv

\* A step of a task that is not free, and of nothing else.
LEMMA TInvTask ==
    ASSUME TInv, NEW t \in Task, NEW k \in TaskState, task[t] # Free, SetTask(t, k),
           UNCHANGED <<rows, available, deleted, req, mode>>
    PROVE  TInv'
  <1>1. task' \in [Task -> TaskState] /\ Cardinality(BusyTasks') \in Nat
        /\ Cardinality(BusyTasks') <= Cardinality(BusyTasks)
    BY SetTaskEffect, BusyNumbers
  <1>2. TypeOK'
    BY <1>1 DEF TInv, TypeOK, RequestState, InPlay
  <1>3. Cardinality(BusyRequests') = Cardinality(BusyRequests)
    BY DEF BusyRequests
  <1>4. RoomKept'
    BY <1>1, <1>3, BusyNumbers, RowFacts, AssignmentAssumption
    DEF TInv, RoomKept, AssignmentAssumption
  <1>5. RowsFound'
    BY DEF TInv, RowsFound
  <1> QED BY <1>2, <1>4, <1>5 DEF TInv

\* A step of one request, and of nothing else.  It was busy, or there is room.
LEMMA TInvRequest ==
    ASSUME TInv, NEW r \in Request, NEW k \in RequestState, req[r] # Idle \/ Room,
           k.pc \in {"declining", "completing", "complete_counted"} => k.row \in DOMAIN rows,
           Become(r, k), UNCHANGED <<rows, available, deleted, task, mode>>
    PROVE  TInv'
  <1>1. /\ req' \in [Request -> RequestState]
        /\ Cardinality(BusyRequests') \in Nat
        /\ req[r] # Idle => Cardinality(BusyRequests') <= Cardinality(BusyRequests)
        /\ Cardinality(BusyRequests') <= Cardinality(BusyRequests) + 1
    BY BecomeEffect, BusyNumbers
  <1>2. TypeOK'
    BY <1>1 DEF TInv, TypeOK, RequestState, InPlay
  <1>3. Cardinality(BusyTasks') = Cardinality(BusyTasks)
    BY DEF BusyTasks
  <1>4. Room => Cardinality(BusyTasks) + Cardinality(BusyRequests) + Len(rows) < MaxRows
    BY DEF Room, BusyTasks, BusyRequests
  <1>5. RoomKept'
    BY <1>1, <1>3, <1>4, BusyNumbers, RowFacts, AssignmentAssumption
    DEF TInv, RoomKept, AssignmentAssumption
  <1>6. RowsFound'
    BY BecomeEffect DEF TInv, RowsFound
  <1> QED BY <1>2, <1>5, <1>6 DEF TInv

\* A follow-up task or one for a stage just entered.
LEMMA DelayEffect ==
    ASSUME TInv, NEW u \in Unit, NEW s \in Stage, Delay(u, s)
    PROVE  \E t \in Task, k \in TaskState :
              /\ task[t] = Free
              /\ k.pc = "queued" /\ k.unit = u /\ k.stage = s
              /\ k # Free
              /\ SetTask(t, k)
  <1>1. PICK t \in Task :
            task[t] = Free
            /\ SetTask(t, [pc |-> "queued", unit |-> u, stage |-> s, tries |-> 0])
    BY DEF Delay
  <1>2. [pc |-> "queued", unit |-> u, stage |-> s, tries |-> 0] \in TaskState
    BY AssignmentAssumption DEF TaskState, AssignmentAssumption
  <1>3. [pc |-> "queued", unit |-> u, stage |-> s, tries |-> 0] # Free
    BY DEF Free
  <1> QED BY <1>1, <1>2, <1>3

\* A retry queues the task again while it has retries left.
LEMMA RetryEffect ==
    ASSUME TInv, NEW t \in Task, task[t] # Free, Retry(t)
    PROVE  \E k \in TaskState :
              /\ k.pc \in {"free", "queued"}
              /\ k # Free => k.unit = task[t].unit /\ k.stage = task[t].stage
              /\ SetTask(t, k)
  <1>1. task[t] \in TaskState
    BY DEF TInv, TypeOK
  <1>2. /\ task[t].unit \in Unit /\ task[t].stage \in Stage
        /\ task[t].tries \in 0..MaxRetries
    BY <1>1, TaskNames
  <1>3. CASE task[t].tries < MaxRetries
    <2>1. task[t].tries + 1 \in 0..MaxRetries
      BY <1>2, <1>3, AssignmentAssumption DEF AssignmentAssumption
    <2>2. [pc |-> "queued", unit |-> task[t].unit, stage |-> task[t].stage,
           tries |-> task[t].tries + 1] \in TaskState
      BY <1>2, <2>1 DEF TaskState
    <2> QED BY <2>2, <1>3 DEF Retry
  <1>4. CASE ~(task[t].tries < MaxRetries)
    <2>1. SetTask(t, Free) /\ Free \in TaskState /\ Free.pc = "free"
      BY <1>4 DEF Retry, TaskState, Free
    <2> QED BY <2>1 DEF Free
  <1> QED BY <1>3, <1>4

----------------------------------------------------------------------------
(* What the steps of a task set it to.                                     *)

LEMMA StartsAs ==
    ASSUME TInv, NEW t \in Task, TaskStart(t)
    PROVE  /\ task[t].pc = "queued" /\ task[t] # Free
           /\ \E k \in TaskState :
                 /\ SetTask(t, k)
                 /\ \/ k = Free
                    \/ /\ k.pc = "checked"
                       /\ k.unit = task[t].unit
                       /\ k.stage = task[t].stage
                       /\ RowsOf(task[t].unit, task[t].stage) = {}
  <1>1. task[t].pc = "queued" /\ task[t] \in TaskState
    BY DEF TaskStart, TInv, TypeOK
  <1>2. task[t] # Free
    BY <1>1 DEF Free
  <1>3. task[t] \in [pc : {"queued", "checked", "cleared"}, unit : Unit,
                     stage : Stage, tries : 0..MaxRetries]
    BY <1>1, TaskByPc
  <1>4. PICK x \in [pc : {"queued", "checked", "cleared"}, unit : Unit,
                     stage : Stage, tries : 0..MaxRetries] :
            x = [task[t] EXCEPT !.pc = "checked"]
    BY <1>3
  <1>5. x \in TaskState /\ x.pc = "checked" /\ x.unit = task[t].unit
        /\ x.stage = task[t].stage
    BY <1>3, <1>4 DEF TaskState
  <1>6. Free \in TaskState
    BY DEF TaskState
  <1>7. CASE RowsOf(task[t].unit, task[t].stage) = {}
    <2>1. SetTask(t, x)
      BY <1>4, <1>7 DEF TaskStart
    <2> QED BY <2>1, <1>1, <1>2, <1>5, <1>7
  <1>8. CASE RowsOf(task[t].unit, task[t].stage) # {}
    <2>1. SetTask(t, Free)
      BY <1>8 DEF TaskStart
    <2> QED BY <2>1, <1>1, <1>2, <1>6
  <1> QED BY <1>7, <1>8

LEMMA ChecksAs ==
    ASSUME TInv, NEW t \in Task, AutoCheck(t)
    PROVE  /\ task[t].pc = "checked" /\ task[t] # Free
           /\ \E k \in TaskState :
                 /\ SetTask(t, k)
                 /\ \/ k = Free
                    \/ /\ k.pc = "cleared"
                       /\ k.unit = task[t].unit
                       /\ k.stage = task[t].stage
                       /\ task[t].unit \notin deleted
  <1>1. task[t].pc = "checked" /\ task[t] \in TaskState
    BY DEF AutoCheck, TInv, TypeOK
  <1>2. task[t] # Free
    BY <1>1 DEF Free
  <1>3. task[t] \in [pc : {"queued", "checked", "cleared"}, unit : Unit,
                     stage : Stage, tries : 0..MaxRetries]
    BY <1>1, TaskByPc
  <1>4. PICK x \in [pc : {"queued", "checked", "cleared"}, unit : Unit,
                     stage : Stage, tries : 0..MaxRetries] :
            x = [task[t] EXCEPT !.pc = "cleared"]
    BY <1>3
  <1>5. x \in TaskState /\ x.pc = "cleared" /\ x.unit = task[t].unit
        /\ x.stage = task[t].stage
    BY <1>3, <1>4 DEF TaskState
  <1>6. Free \in TaskState
    BY DEF TaskState
  <1>7. (SetTask(t, Free) \/ SetTask(t, x)) /\ task[t].unit \notin deleted
    BY <1>4 DEF AutoCheck
  <1> QED BY <1>1, <1>2, <1>5, <1>6, <1>7

LEMMA ChoosesAs ==
    ASSUME TInv, NEW t \in Task, AutoChoose(t)
    PROVE  /\ task[t].pc = "cleared" /\ task[t] # Free
           /\ \E k \in TaskState :
                 /\ SetTask(t, k)
                 /\ k.pc = "chosen"
                 /\ k.unit = task[t].unit
                 /\ k.stage = task[t].stage
                 /\ k.engineer \in available
                 /\ Load(k.engineer) < Capacity[k.engineer]
  <1>1. task[t].pc = "cleared" /\ task[t] \in TaskState
    BY DEF AutoChoose, TInv, TypeOK
  <1>2. task[t] # Free /\ available \subseteq Engineer
    BY <1>1 DEF Free, TInv, TypeOK
  <1>3. task[t].unit \in Unit /\ task[t].stage \in Stage
        /\ task[t].tries \in 0..MaxRetries
    BY <1>1, <1>2, TaskNames
  <1>4. PICK e \in Best(task[t].unit, task[t].stage) :
            SetTask(t, [pc |-> "chosen", unit |-> task[t].unit, stage |-> task[t].stage,
                        tries |-> task[t].tries, engineer |-> e])
    BY DEF AutoChoose
  <1>5. e \in Eligible(task[t].stage)
    BY <1>4 DEF Best, Candidates
  <1>6. e \in available /\ Load(e) < Capacity[e]
    BY <1>5 DEF Eligible
  <1>7. [pc |-> "chosen", unit |-> task[t].unit, stage |-> task[t].stage,
         tries |-> task[t].tries, engineer |-> e] \in TaskState
    BY <1>2, <1>3, <1>6 DEF TaskState
  <1> QED BY <1>1, <1>2, <1>4, <1>6, <1>7

LEMMA CountsAs ==
    ASSUME TInv, NEW t \in Task, AutoCount(t)
    PROVE  /\ task[t].pc = "chosen" /\ task[t] # Free
           /\ \E k \in TaskState :
                 /\ SetTask(t, k)
                 /\ k.pc = "counted"
                 /\ k.unit = task[t].unit
                 /\ k.stage = task[t].stage
                 /\ k.engineer = task[t].engineer
                 /\ k.full = (Load(task[t].engineer) + 1 >= Capacity[task[t].engineer])
  <1>1. task[t].pc = "chosen" /\ task[t] \in TaskState
    BY DEF AutoCount, TInv, TypeOK
  <1>2. task[t] # Free
    BY <1>1 DEF Free
  <1>3. task[t] \in [pc : {"chosen"}, unit : Unit, stage : Stage,
                     tries : 0..MaxRetries, engineer : Engineer]
    BY <1>1, TaskByPc
  <1>4. PICK full \in BOOLEAN :
            full = (Load(task[t].engineer) + 1 >= Capacity[task[t].engineer])
    <2>1. Load(task[t].engineer) \in Nat /\ Capacity[task[t].engineer] \in Nat
      BY <1>3, LoadType, AssignmentAssumption DEF AssignmentAssumption
    <2>2. (Load(task[t].engineer) + 1 >= Capacity[task[t].engineer]) \in BOOLEAN
      BY <2>1
    <2> QED BY <2>2, Zenon
  <1>5. SetTask(t, [pc |-> "counted", unit |-> task[t].unit, stage |-> task[t].stage,
                    tries |-> task[t].tries, engineer |-> task[t].engineer,
                    full |-> full])
    BY <1>4 DEF AutoCount
  <1>6. [pc |-> "counted", unit |-> task[t].unit, stage |-> task[t].stage,
         tries |-> task[t].tries, engineer |-> task[t].engineer,
         full |-> full] \in TaskState
    BY <1>3 DEF TaskState
  <1> QED BY <1>1, <1>2, <1>4, <1>5, <1>6

LEMMA DropsAs ==
    ASSUME TInv, NEW t \in Task, TaskRefused(t) \/ TaskDisturbed(t)
    PROVE  /\ Running(t) /\ task[t] # Free
           /\ \E k \in TaskState :
                 /\ k.pc \in {"free", "queued"}
                 /\ k # Free => k.unit = task[t].unit /\ k.stage = task[t].stage
                 /\ SetTask(t, k)
           /\ UNCHANGED <<rows, available, deleted, req, mode>>
  <1>1. Running(t)
    BY DEF TaskRefused, TaskDisturbed, Running
  <1>2. task[t] # Free
    BY <1>1 DEF Running, Free
  <1>3. Retry(t) \/ SetTask(t, Free)
    BY DEF TaskRefused, TaskDisturbed
  <1>4. Free \in TaskState /\ Free.pc = "free"
    BY DEF TaskState, Free
  <1>5. UNCHANGED <<rows, available, deleted, req, mode>>
    BY DEF TaskRefused, TaskDisturbed
  <1> QED BY <1>1, <1>2, <1>3, <1>4, <1>5, RetryEffect

LEMMA CommitsAs ==
    ASSUME TInv, NEW t \in Task, AutoCommit(t)
    PROVE  /\ task[t].pc = "counted" /\ task[t] # Free
           /\ task[t].unit \in Unit
           /\ task[t].stage \in Stage
           /\ task[t].engineer \in Engineer
           /\ Free \in TaskState /\ Free.pc = "free"
           /\ SetTask(t, Free)
           /\ Insert(task[t].unit, task[t].stage, task[t].engineer, "AUTO")
  <1>1. task[t].pc = "counted" /\ task[t] \in TaskState
    BY DEF AutoCommit, TInv, TypeOK
  <1>2. task[t] # Free
    BY <1>1 DEF Free
  <1>3. Free \in TaskState /\ Free.pc = "free"
    BY DEF TaskState, Free
  <1> QED BY <1>1, <1>2, <1>3, TaskByPc DEF AutoCommit

----------------------------------------------------------------------------
(* What the steps of a request set it to.                                  *)

LEMMA AssignsAs ==
    ASSUME TInv, NEW r \in Request, NEW u \in Unit, NEW s \in InPlay, NEW e \in Engineer,
           ManualLoad(r, u, s, e)
    PROVE  /\ req[r] = Idle /\ Room /\ u \notin deleted
           /\ \E k \in RequestState :
                 /\ Become(r, k)
                 /\ k.pc = "assigning"
                 /\ k.unit = u
                 /\ k.engineer = e
                 /\ k.was = (e \in available)
  <1>1. PICK was \in BOOLEAN : was = (e \in available)
    <2>1. (e \in available) \in BOOLEAN
      OBVIOUS
    <2> QED BY <2>1, Zenon
  <1>2. [pc |-> "assigning", unit |-> u, stage |-> s, engineer |-> e,
         was |-> was] \in RequestState
    BY DEF RequestState
  <1>3. Become(r, [pc |-> "assigning", unit |-> u, stage |-> s, engineer |-> e,
                   was |-> was])
    BY <1>1 DEF ManualLoad
  <1>4. req[r] = Idle /\ Room /\ u \notin deleted
    BY DEF ManualLoad, Begins
  <1> QED BY <1>1, <1>2, <1>3, <1>4

LEMMA AssignCountsAs ==
    ASSUME TInv, NEW r \in Request, ManualCount(r)
    PROVE  /\ req[r].pc = "assigning" /\ req[r] # Idle
           /\ req[r].engineer \in Engineer
           /\ \E k \in RequestState :
                 /\ Become(r, k)
                 /\ k.pc = "assign_counted"
                 /\ k.unit = req[r].unit
                 /\ k.engineer = req[r].engineer
                 /\ k.was = req[r].was
                 /\ k.full = (Load(req[r].engineer) + 1 >= Capacity[req[r].engineer])
  <1>1. req[r].pc = "assigning" /\ req[r] \in RequestState
    BY DEF ManualCount, TInv, TypeOK
  <1>2. req[r] # Idle
    BY <1>1 DEF Idle
  <1>3. req[r] \in [pc : {"assigning"}, unit : Unit, stage : InPlay,
                    engineer : Engineer, was : BOOLEAN]
    BY <1>1, RequestByPc
  <1>4. PICK full \in BOOLEAN :
            full = (Load(req[r].engineer) + 1 >= Capacity[req[r].engineer])
    <2>1. Load(req[r].engineer) \in Nat /\ Capacity[req[r].engineer] \in Nat
      BY <1>3, LoadType, AssignmentAssumption DEF AssignmentAssumption
    <2>2. (Load(req[r].engineer) + 1 >= Capacity[req[r].engineer]) \in BOOLEAN
      BY <2>1
    <2> QED BY <2>2, Zenon
  <1>5. Become(r, [pc |-> "assign_counted", unit |-> req[r].unit,
                   stage |-> req[r].stage, engineer |-> req[r].engineer,
                   was |-> req[r].was, full |-> full])
    BY <1>4 DEF ManualCount
  <1>6. [pc |-> "assign_counted", unit |-> req[r].unit,
         stage |-> req[r].stage, engineer |-> req[r].engineer,
         was |-> req[r].was, full |-> full] \in RequestState
    BY <1>3 DEF RequestState
  <1> QED BY <1>1, <1>2, <1>3, <1>4, <1>5, <1>6

LEMMA AssignCommitsAs ==
    ASSUME TInv, NEW r \in Request, ManualCommit(r)
    PROVE  /\ req[r].pc = "assign_counted" /\ req[r] # Idle
           /\ req[r].unit \in Unit
           /\ req[r].stage \in Stage
           /\ req[r].engineer \in Engineer
           /\ Idle \in RequestState
           /\ Become(r, Idle)
           /\ Insert(req[r].unit, req[r].stage, req[r].engineer, "MANUAL")
  <1>1. req[r].pc = "assign_counted" /\ req[r] \in RequestState
    BY DEF ManualCommit, TInv, TypeOK
  <1>2. req[r] # Idle
    BY <1>1 DEF Idle
  <1>3. Idle \in RequestState
    BY DEF RequestState
  <1>4. InPlay \subseteq Stage
    BY InPlayType DEF TInv
  <1> QED BY <1>1, <1>2, <1>3, <1>4, RequestByPc DEF ManualCommit

LEMMA DeclinesAs ==
    ASSUME TInv, NEW r \in Request, NEW i \in DOMAIN rows, DeclineLoad(r, i)
    PROVE  /\ req[r] = Idle /\ Room
           /\ \E k \in RequestState :
                 /\ Become(r, k)
                 /\ k.pc = "declining"
                 /\ k.row = i
                 /\ k.was = (rows[i].engineer \in available)
                 /\ k.writes = (rows[i].status # "DECLINED")
  <1>1. PICK was \in BOOLEAN : was = (rows[i].engineer \in available)
    <2>1. (rows[i].engineer \in available) \in BOOLEAN
      OBVIOUS
    <2> QED BY <2>1, Zenon
  <1>2. PICK writes \in BOOLEAN : writes = (rows[i].status # "DECLINED")
    BY Zenon
  <1>3. [pc |-> "declining", row |-> i, was |-> was, writes |-> writes] \in RequestState
    BY RowFacts DEF RequestState
  <1>4. Become(r, [pc |-> "declining", row |-> i, was |-> was, writes |-> writes])
    BY <1>1, <1>2 DEF DeclineLoad
  <1>5. req[r] = Idle /\ Room
    BY DEF DeclineLoad, Begins
  <1> QED BY <1>1, <1>2, <1>3, <1>4, <1>5

LEMMA CompletesAs ==
    ASSUME TInv, NEW r \in Request, NEW i \in DOMAIN rows, CompleteLoad(r, i)
    PROVE  /\ req[r] = Idle /\ Room
           /\ \E k \in RequestState :
                 /\ Become(r, k)
                 /\ k.pc = "completing"
                 /\ k.row = i
                 /\ k.was = (rows[i].engineer \in available)
                 /\ k.writes = (rows[i].status # "COMPLETED")
  <1>1. PICK was \in BOOLEAN : was = (rows[i].engineer \in available)
    <2>1. (rows[i].engineer \in available) \in BOOLEAN
      OBVIOUS
    <2> QED BY <2>1, Zenon
  <1>2. PICK writes \in BOOLEAN : writes = (rows[i].status # "COMPLETED")
    BY Zenon
  <1>3. [pc |-> "completing", row |-> i, was |-> was, writes |-> writes] \in RequestState
    BY RowFacts DEF RequestState
  <1>4. Become(r, [pc |-> "completing", row |-> i, was |-> was, writes |-> writes])
    BY <1>1, <1>2 DEF CompleteLoad
  <1>5. req[r] = Idle /\ Room
    BY DEF CompleteLoad, Begins
  <1> QED BY <1>1, <1>2, <1>3, <1>4, <1>5

\* What a completion's own row weighs in the count it makes.
Own(r) ==
    IF req[r].writes /\ rows[req[r].row].status \in ACTIVE_ASSIGNMENT_STATUSES
    THEN 1 ELSE 0

LEMMA CompleteCountsAs ==
    ASSUME TInv, NEW r \in Request, CompleteCount(r)
    PROVE  /\ req[r].pc = "completing" /\ req[r] # Idle
           /\ req[r].row \in DOMAIN rows
           /\ rows[req[r].row].engineer \in Engineer
           /\ \E k \in RequestState :
                 /\ Become(r, k)
                 /\ k.pc = "complete_counted"
                 /\ k.row = req[r].row
                 /\ k.was = req[r].was
                 /\ k.writes = req[r].writes
                 /\ k.full = (Load(rows[req[r].row].engineer) - Own(r)
                                >= Capacity[rows[req[r].row].engineer])
  <1>1. req[r].pc = "completing" /\ req[r] \in RequestState
    BY DEF CompleteCount, TInv, TypeOK
  <1>2. req[r] # Idle
    BY <1>1 DEF Idle
  <1>3. req[r].was \in BOOLEAN /\ req[r].writes \in BOOLEAN
    BY <1>1, RequestByPc
  <1>4. req[r].row \in DOMAIN rows
    BY <1>1 DEF TInv, RowsFound
  <1> DEFINE e == rows[req[r].row].engineer
  <1>5. e \in Engineer /\ req[r].row \in 1..MaxRows
    BY <1>4, RowFacts DEF SiteAssignment
  <1>6. PICK full \in BOOLEAN : full = (Load(e) - Own(r) >= Capacity[e])
    <2>1. Load(e) \in Nat /\ Capacity[e] \in Nat
      BY <1>5, LoadType, AssignmentAssumption DEF AssignmentAssumption
    <2>2. Own(r) \in {0, 1}
      BY DEF Own
    <2>3. (Load(e) - Own(r) >= Capacity[e]) \in BOOLEAN
      BY <2>1, <2>2
    <2> QED BY <2>3, Zenon
  <1>7. Become(r, [pc |-> "complete_counted", row |-> req[r].row, was |-> req[r].was,
                   writes |-> req[r].writes, full |-> full])
    BY <1>6 DEF CompleteCount, Own
  <1>8. [pc |-> "complete_counted", row |-> req[r].row, was |-> req[r].was,
         writes |-> req[r].writes, full |-> full] \in RequestState
    BY <1>3, <1>5 DEF RequestState
  <1> QED BY <1>1, <1>2, <1>4, <1>5, <1>6, <1>7, <1>8

LEMMA DeclineCommitsAs ==
    ASSUME TInv, NEW r \in Request, DeclineCommit(r)
    PROVE  /\ req[r].pc = "declining" /\ req[r] # Idle
           /\ req[r].row \in DOMAIN rows
           /\ rows[req[r].row].engineer \in Engineer
           /\ IF req[r].writes THEN SetStatus(req[r].row, "DECLINED") ELSE UNCHANGED rows
           /\ available' = IF req[r].was THEN available
                           ELSE available \cup {rows[req[r].row].engineer}
           /\ \E k \in RequestState :
                 /\ k.pc = "owes_task"
                 /\ k.unit = rows[req[r].row].unit
                 /\ k.stage = rows[req[r].row].stage
                 /\ Become(r, k)
  <1>1. req[r].pc = "declining" /\ req[r] # Idle /\ req[r].row \in DOMAIN rows
    BY DEF DeclineCommit, Idle, TInv, RowsFound
  <1>2. rows[req[r].row] \in SiteAssignment
    BY <1>1, RowFacts
  <1>3. [pc |-> "owes_task", unit |-> rows[req[r].row].unit,
         stage |-> rows[req[r].row].stage] \in RequestState
    BY <1>2 DEF SiteAssignment, RequestState
  <1>4. rows[req[r].row].engineer \in Engineer
    BY <1>2 DEF SiteAssignment
  <1>5. Become(r, [pc |-> "owes_task", unit |-> rows[req[r].row].unit,
                   stage |-> rows[req[r].row].stage])
    BY DEF DeclineCommit
  <1>6. /\ IF req[r].writes THEN SetStatus(req[r].row, "DECLINED") ELSE UNCHANGED rows
        /\ available' = IF req[r].was THEN available
                        ELSE available \cup {rows[req[r].row].engineer}
    BY DEF DeclineCommit
  <1> QED BY <1>1, <1>3, <1>4, <1>5, <1>6

LEMMA CompleteCommitsAs ==
    ASSUME TInv, NEW r \in Request, CompleteCommit(r)
    PROVE  /\ req[r].pc = "complete_counted" /\ req[r] # Idle
           /\ req[r].row \in DOMAIN rows
           /\ rows[req[r].row].engineer \in Engineer
           /\ IF req[r].writes THEN SetStatus(req[r].row, "COMPLETED") ELSE UNCHANGED rows
           /\ FreeOrFull(r)
           /\ \E k \in RequestState :
                 /\ \/ k = Idle /\ k.pc = "idle"
                    \/ /\ k.pc = "owes_task"
                       /\ k.unit = rows[req[r].row].unit
                       /\ <<rows[req[r].row].stage, k.stage>> \in STAGE_TRANSITIONS
                 /\ Become(r, k)
  <1>1. req[r].pc = "complete_counted" /\ req[r] # Idle /\ req[r].row \in DOMAIN rows
    BY DEF CompleteCommit, Idle, TInv, RowsFound
  <1>2. rows[req[r].row] \in SiteAssignment
    BY <1>1, RowFacts
  <1>3. rows[req[r].row].unit \in Unit /\ rows[req[r].row].engineer \in Engineer
    BY <1>2 DEF SiteAssignment
  <1> DEFINE k == HandOn(rows[req[r].row].unit, rows[req[r].row].stage)
  <1>4. /\ k \in RequestState
        /\ \/ k = Idle /\ k.pc = "idle"
           \/ /\ k.pc = "owes_task"
              /\ k.unit = rows[req[r].row].unit
              /\ <<rows[req[r].row].stage, k.stage>> \in STAGE_TRANSITIONS
    <2>1. CASE \E n \in SITE_STAGES : <<rows[req[r].row].stage, n>> \in STAGE_TRANSITIONS
      <3>1. PICK n \in SITE_STAGES :
                /\ n = CHOOSE m \in SITE_STAGES :
                            <<rows[req[r].row].stage, m>> \in STAGE_TRANSITIONS
                /\ <<rows[req[r].row].stage, n>> \in STAGE_TRANSITIONS
        BY <2>1
      <3>2. k = [pc |-> "owes_task", unit |-> rows[req[r].row].unit, stage |-> n]
        BY <2>1, <3>1 DEF HandOn
      <3>3. k \in RequestState /\ k.pc = "owes_task"
            /\ k.unit = rows[req[r].row].unit /\ k.stage = n
        BY <1>3, <3>2, SiteStagesAreStages DEF RequestState
      <3> HIDE DEF k
      <3> QED BY <3>1, <3>3
    <2>2. CASE ~\E n \in SITE_STAGES : <<rows[req[r].row].stage, n>> \in STAGE_TRANSITIONS
      <3>1. k = Idle
        BY <2>2 DEF HandOn
      <3> QED BY <3>1 DEF RequestState, Idle
    <2> QED BY <2>1, <2>2
  <1>5. Become(r, k)
    BY DEF CompleteCommit
  <1>6. /\ IF req[r].writes THEN SetStatus(req[r].row, "COMPLETED") ELSE UNCHANGED rows
        /\ FreeOrFull(r)
    BY DEF CompleteCommit
  <1> HIDE DEF k
  <1> QED BY <1>1, <1>3, <1>4, <1>5, <1>6

----------------------------------------------------------------------------
(* Every step keeps the types, the room and the rows of the requests.      *)

LEMMA TInvAutoCommit ==
    ASSUME TInv, NEW t \in Task, AutoCommit(t)
    PROVE  TInv'
  <1>1. /\ task' \in [Task -> TaskState]
        /\ Cardinality(BusyTasks') \in Nat
        /\ Cardinality(BusyTasks') = Cardinality(BusyTasks) - 1
    BY CommitsAs, SetTaskEffect
  <1>2. rows' \in Seq(SiteAssignment) /\ Len(rows') = Len(rows) + 1
        /\ DOMAIN rows \subseteq DOMAIN rows'
    <2>1. Insert(task[t].unit, task[t].stage, task[t].engineer, "AUTO")
      BY CommitsAs
    <2>2. /\ rows' \in Seq(SiteAssignment)
          /\ Len(rows') = Len(rows) + 1
          /\ DOMAIN rows' = 1..(Len(rows) + 1)
      BY <2>1, CommitsAs, InsertEffect
    <2> QED BY <2>2, RowFacts
  <1>3. UNCHANGED <<deleted, req, mode>> /\ available' \subseteq available
    BY DEF AutoCommit
  <1>4. RoomKept'
    <2>1. Cardinality(BusyRequests') = Cardinality(BusyRequests)
      BY <1>3 DEF BusyRequests
    <2> QED BY <1>1, <1>2, <2>1, RowFacts, BusyNumbers, AssignmentAssumption
        DEF TInv, RoomKept, AssignmentAssumption
  <1>5. Len(rows') <= MaxRows
    BY <1>1, <1>2, RowFacts, BusyNumbers, AssignmentAssumption
    DEF TInv, RoomKept, AssignmentAssumption
  <1>6. TypeOK'
    BY <1>1, <1>2, <1>3, <1>5 DEF TInv, TypeOK, RequestState, InPlay
  <1>7. RowsFound'
    BY <1>2, <1>3 DEF TInv, RowsFound
  <1> QED BY <1>4, <1>6, <1>7 DEF TInv

LEMMA TInvManualCommit ==
    ASSUME TInv, NEW r \in Request, ManualCommit(r)
    PROVE  TInv'
  <1>1. /\ req' \in [Request -> RequestState]
        /\ req'[r] = Idle
        /\ \A x \in Request \ {r} : req'[x] = req[x]
        /\ Cardinality(BusyRequests') \in Nat
        /\ Cardinality(BusyRequests') = Cardinality(BusyRequests) - 1
    BY AssignCommitsAs, BecomeEffect
  <1>2. rows' \in Seq(SiteAssignment) /\ Len(rows') = Len(rows) + 1
        /\ DOMAIN rows \subseteq DOMAIN rows'
    <2>1. Insert(req[r].unit, req[r].stage, req[r].engineer, "MANUAL")
      BY AssignCommitsAs
    <2>2. /\ rows' \in Seq(SiteAssignment)
          /\ Len(rows') = Len(rows) + 1
          /\ DOMAIN rows' = 1..(Len(rows) + 1)
      BY <2>1, AssignCommitsAs, InsertEffect
    <2> QED BY <2>2, RowFacts
  <1>3. UNCHANGED <<deleted, task, mode>> /\ available' \subseteq available
    BY DEF ManualCommit
  <1>4. Cardinality(BusyTasks') = Cardinality(BusyTasks)
    BY <1>3 DEF BusyTasks
  <1>5. RoomKept' /\ Len(rows') <= MaxRows
    BY <1>1, <1>2, <1>4, RowFacts, BusyNumbers, AssignmentAssumption
    DEF TInv, RoomKept, AssignmentAssumption
  <1>6. TypeOK'
    BY <1>1, <1>2, <1>3, <1>5 DEF TInv, TypeOK, RequestState, InPlay
  <1>7. RowsFound'
    BY <1>1, <1>2 DEF TInv, RowsFound, Idle
  <1> QED BY <1>5, <1>6, <1>7 DEF TInv

\* A commit that changes a row's status, or not, and takes its request on.
LEMMA TInvStatus ==
    ASSUME TInv, NEW r \in Request, NEW k \in RequestState, NEW i \in DOMAIN rows,
           NEW to \in AssignmentStatus, req[r] # Idle, k.pc \in {"idle", "owes_task"},
           Become(r, k), SetStatus(i, to) \/ UNCHANGED rows,
           available' \subseteq Engineer, UNCHANGED <<deleted, task, mode>>
    PROVE  TInv'
  <1>1. /\ req' \in [Request -> RequestState]
        /\ req'[r] = k
        /\ \A x \in Request \ {r} : req'[x] = req[x]
        /\ Cardinality(BusyRequests') \in Nat
        /\ Cardinality(BusyRequests') <= Cardinality(BusyRequests)
    BY BecomeEffect, BusyNumbers
  <1>2. rows' \in Seq(SiteAssignment) /\ Len(rows') = Len(rows)
        /\ DOMAIN rows = DOMAIN rows'
    BY SetStatusEffect DEF TInv, TypeOK
  <1>4. Cardinality(BusyTasks') = Cardinality(BusyTasks)
    BY DEF BusyTasks
  <1>5. RoomKept' /\ Len(rows') <= MaxRows
    BY <1>1, <1>2, <1>4, RowFacts, BusyNumbers, AssignmentAssumption
    DEF TInv, RoomKept, AssignmentAssumption
  <1>6. TypeOK'
    BY <1>1, <1>2, <1>5 DEF TInv, TypeOK, RequestState, InPlay
  <1>7. RowsFound'
    BY <1>1, <1>2 DEF TInv, RowsFound
  <1> QED BY <1>5, <1>6, <1>7 DEF TInv

LEMMA TInvAccept ==
    ASSUME TInv, NEW i \in DOMAIN rows, Accept(i)
    PROVE  TInv'
  <1>1. rows' \in Seq(SiteAssignment) /\ Len(rows') = Len(rows)
        /\ DOMAIN rows = DOMAIN rows'
    BY SetStatusEffect DEF Accept, AssignmentStatus
  <1>2. UNCHANGED <<available, deleted, task, req, mode>>
    BY DEF Accept
  <1>3. TypeOK'
    BY <1>1, <1>2 DEF TInv, TypeOK, RequestState, InPlay
  <1>4. RoomKept'
    BY <1>1, <1>2 DEF TInv, RoomKept, BusyTasks, BusyRequests
  <1>5. RowsFound'
    BY <1>1, <1>2 DEF TInv, RowsFound
  <1> QED BY <1>3, <1>4, <1>5 DEF TInv

LEMMA TInvStageEntered ==
    ASSUME TInv, NEW u \in Unit, NEW s \in InPlay, StageEntered(u, s)
    PROVE  TInv'
  <1>1. s \in Stage
    BY InPlayType DEF TInv
  <1>2. PICK t \in Task, k \in TaskState : task[t] = Free /\ k # Free /\ SetTask(t, k)
    BY <1>1, DelayEffect DEF StageEntered
  <1>3. UNCHANGED <<rows, available, deleted, req, mode>>
    BY DEF StageEntered
  <1>4. task' \in [Task -> TaskState] /\ Cardinality(BusyTasks') = Cardinality(BusyTasks) + 1
    BY <1>2, SetTaskEffect
  <1>5. TypeOK'
    BY <1>3, <1>4 DEF TInv, TypeOK, RequestState, InPlay
  <1>6. Cardinality(BusyTasks) + Cardinality(BusyRequests) + Len(rows) < MaxRows
    BY DEF StageEntered, Room, BusyTasks, BusyRequests
  <1>7. Cardinality(BusyRequests') = Cardinality(BusyRequests)
    BY <1>3 DEF BusyRequests
  <1>8. RoomKept'
    BY <1>3, <1>4, <1>6, <1>7, RowFacts, BusyNumbers, AssignmentAssumption
    DEF RoomKept, AssignmentAssumption
  <1>9. RowsFound'
    BY <1>3 DEF TInv, RowsFound
  <1> QED BY <1>5, <1>8, <1>9 DEF TInv

LEMMA TInvQueueFollowUp ==
    ASSUME TInv, NEW r \in Request, QueueFollowUp(r)
    PROVE  TInv'
  <1>1. req[r].pc = "owes_task" /\ req[r] \in RequestState /\ req[r] # Idle
        /\ Idle \in RequestState
    BY DEF QueueFollowUp, TInv, TypeOK, Idle, RequestState
  <1>2. req[r].unit \in Unit /\ req[r].stage \in Stage
    BY <1>1, RequestByPc
  <1>3. PICK t \in Task, k \in TaskState : task[t] = Free /\ k # Free /\ SetTask(t, k)
    BY <1>2, DelayEffect DEF QueueFollowUp
  <1>4. UNCHANGED <<rows, available, deleted, mode>> /\ Become(r, Idle)
    BY DEF QueueFollowUp
  <1>5. task' \in [Task -> TaskState] /\ Cardinality(BusyTasks') = Cardinality(BusyTasks) + 1
    BY <1>3, SetTaskEffect
  <1>6. /\ req' \in [Request -> RequestState]
        /\ req'[r] = Idle
        /\ \A x \in Request \ {r} : req'[x] = req[x]
        /\ Cardinality(BusyRequests') = Cardinality(BusyRequests) - 1
    BY <1>1, <1>4, BecomeEffect
  <1>7. TypeOK'
    BY <1>4, <1>5, <1>6 DEF TInv, TypeOK, RequestState, InPlay
  <1>8. RoomKept'
    BY <1>4, <1>5, <1>6, RowFacts, BusyNumbers, AssignmentAssumption
    DEF TInv, RoomKept, AssignmentAssumption
  <1>9. RowsFound'
    BY <1>4, <1>6 DEF TInv, RowsFound, Idle
  <1> QED BY <1>7, <1>8, <1>9 DEF TInv

LEMMA TInvTaskStep ==
    ASSUME TInv, NEW t \in Task, TaskStep(t) \/ TaskDisturbed(t)
    PROVE  TInv'
  <1>1. ASSUME TaskStart(t) PROVE TInv'
    BY <1>1, StartsAs, TInvTask DEF TaskStart
  <1>2. ASSUME AutoCheck(t) PROVE TInv'
    BY <1>2, ChecksAs, TInvTask DEF AutoCheck
  <1>3. ASSUME AutoChoose(t) PROVE TInv'
    BY <1>3, ChoosesAs, TInvTask DEF AutoChoose
  <1>4. ASSUME AutoCount(t) PROVE TInv'
    BY <1>4, CountsAs, TInvTask DEF AutoCount
  <1>5. ASSUME AutoCommit(t) PROVE TInv'
    BY <1>5, TInvAutoCommit
  <1>6. ASSUME TaskRefused(t) \/ TaskDisturbed(t) PROVE TInv'
    BY <1>6, DropsAs, TInvTask
  <1> QED BY <1>1, <1>2, <1>3, <1>4, <1>5, <1>6 DEF TaskStep

LEMMA TInvRequestStep ==
    ASSUME TInv, NEW r \in Request, RequestStart(r) \/ RequestStep(r) \/ Abort(r)
    PROVE  TInv'
  <1>1. ASSUME NEW u \in Unit, NEW s \in InPlay, NEW e \in Engineer, ManualLoad(r, u, s, e)
        PROVE  TInv'
    BY <1>1, AssignsAs, TInvRequest DEF ManualLoad
  <1>2. ASSUME NEW i \in DOMAIN rows, DeclineLoad(r, i) PROVE TInv'
    BY <1>2, DeclinesAs, TInvRequest DEF DeclineLoad
  <1>3. ASSUME NEW i \in DOMAIN rows, CompleteLoad(r, i) PROVE TInv'
    BY <1>3, CompletesAs, TInvRequest DEF CompleteLoad
  <1>4. ASSUME ManualCount(r) PROVE TInv'
    BY <1>4, AssignCountsAs, TInvRequest DEF ManualCount
  <1>5. ASSUME ManualCommit(r) PROVE TInv'
    BY <1>5, TInvManualCommit
  <1>6. ASSUME DeclineCommit(r) PROVE TInv'
    <2>1. available' \subseteq Engineer
      BY <1>6, DeclineCommitsAs DEF TInv, TypeOK
    <2>2. UNCHANGED <<deleted, task, mode>> /\ "DECLINED" \in AssignmentStatus
      BY <1>6 DEF DeclineCommit, AssignmentStatus
    <2> QED BY <1>6, <2>1, <2>2, DeclineCommitsAs, TInvStatus
  <1>7. ASSUME CompleteCount(r) PROVE TInv'
    BY <1>7, CompleteCountsAs, TInvRequest DEF CompleteCount
  <1>8. ASSUME CompleteCommit(r) PROVE TInv'
    <2>1. available' \subseteq Engineer
      BY <1>8, CompleteCommitsAs DEF TInv, TypeOK, FreeOrFull
    <2>2. UNCHANGED <<deleted, task, mode>> /\ "COMPLETED" \in AssignmentStatus
      BY <1>8 DEF CompleteCommit, AssignmentStatus
    <2> QED BY <1>8, <2>1, <2>2, CompleteCommitsAs, TInvStatus
  <1>9. ASSUME QueueFollowUp(r) PROVE TInv'
    BY <1>9, TInvQueueFollowUp
  <1>10. ASSUME Abort(r) PROVE TInv'
    <2>1. Idle \in RequestState /\ Idle.pc = "idle"
      BY DEF RequestState, Idle
    <2> QED BY <1>10, <2>1, TInvRequest DEF Abort
  <1> QED BY <1>1, <1>2, <1>3, <1>4, <1>5, <1>6, <1>7, <1>8, <1>9, <1>10
      DEF RequestStart, RequestStep

LEMMA TInvNext == TInv /\ [Next]_vars => TInv'
  <1> SUFFICES ASSUME TInv, [Next]_vars PROVE TInv'
    OBVIOUS
  <1>1. ASSUME NEW u \in Unit, NEW s \in InPlay, StageEntered(u, s) PROVE TInv'
    BY <1>1, TInvStageEntered
  <1>2. ASSUME NEW u \in Unit, DeleteUnit(u) PROVE TInv'
    <2>1. deleted' \subseteq Unit /\ UNCHANGED <<rows, available, task, req, mode>>
      BY <1>2 DEF DeleteUnit, TInv, TypeOK
    <2>2. TypeOK'
      BY <2>1 DEF TInv, TypeOK, RequestState, InPlay
    <2> QED BY <2>1, <2>2 DEF TInv, RoomKept, RowsFound, BusyTasks, BusyRequests
  <1>3. ASSUME NEW t \in Task, TaskStep(t) \/ TaskDisturbed(t) PROVE TInv'
    BY <1>3, TInvTaskStep
  <1>4. ASSUME NEW i \in DOMAIN rows, Accept(i) PROVE TInv'
    BY <1>4, TInvAccept
  <1>5. ASSUME NEW r \in Request, RequestStart(r) \/ RequestStep(r) \/ Abort(r) PROVE TInv'
    BY <1>5, TInvRequestStep
  <1>6. ASSUME UNCHANGED vars PROVE TInv'
    <2>1. TypeOK'
      BY <1>6 DEF TInv, TypeOK, RequestState, InPlay, vars
    <2> QED BY <1>6, <2>1 DEF TInv, RoomKept, RowsFound, BusyTasks, BusyRequests, vars
  <1> QED BY <1>1, <1>2, <1>3, <1>4, <1>5, <1>6 DEF Next

\* The types, and the bounds they name: the room a task or a request is given
\* when it begins is enough for the row it inserts, and no request is about a
\* row that is not there.
THEOREM AssignmentTypes == Spec => []TypeOK
  <1>1. TInv => TypeOK
    BY DEF TInv
  <1> QED BY TInvInit, TInvNext, <1>1, PTL DEF Spec

----------------------------------------------------------------------------
(* How many automatic rows a stage gets.  A task that starts has seen no   *)
(* row, so the rows a stage has and the tasks that may yet add one were    *)
(* running together once, and no more run together than there are workers. *)

RunningTasks == {t \in Task : Running(t)}

Deciding(u, s) == {t \in Task : Running(t) /\ task[t].unit = u /\ task[t].stage = s}

AutoRows(u, s) == {i \in RowsOf(u, s) : rows[i].by = "AUTO"}

WorkersShare ==
    /\ Cardinality(RunningTasks) <= Workers
    /\ \A u \in Unit, s \in Stage :
           Cardinality(AutoRows(u, s)) + Cardinality(Deciding(u, s)) <= Workers

\* The sizes are numbers.
LEMMA SharesAreNumbers ==
    ASSUME TInv
    PROVE  /\ IsFiniteSet(RunningTasks) /\ Cardinality(RunningTasks) \in Nat
           /\ \A u, s : /\ IsFiniteSet(Deciding(u, s)) /\ Cardinality(Deciding(u, s)) \in Nat
                        /\ IsFiniteSet(AutoRows(u, s)) /\ Cardinality(AutoRows(u, s)) \in Nat
  <1>1. IsFiniteSet(Task)
    BY AssignmentAssumption DEF AssignmentAssumption
  <1>2. RunningTasks \in SUBSET Task
    BY DEF RunningTasks
  <1>3. IsFiniteSet(DOMAIN rows)
    BY RowFacts, FS_Interval
  <1>4. ASSUME NEW u, NEW s
        PROVE  /\ IsFiniteSet(Deciding(u, s)) /\ Cardinality(Deciding(u, s)) \in Nat
               /\ IsFiniteSet(AutoRows(u, s)) /\ Cardinality(AutoRows(u, s)) \in Nat
    <2>1. Deciding(u, s) \in SUBSET Task
      BY DEF Deciding
    <2>2. AutoRows(u, s) \in SUBSET DOMAIN rows
      BY DEF AutoRows, RowsOf
    <2> QED BY <1>1, <1>3, <2>1, <2>2, FS_Subset, FS_CardinalityType
  <1>5. IsFiniteSet(RunningTasks) /\ Cardinality(RunningTasks) \in Nat
    BY <1>1, <1>2, FS_Subset, FS_CardinalityType
  <1> QED BY <1>4, <1>5

\* No task starts running or changes what it runs for, no automatic row comes.
LEMMA SharesShrink ==
    ASSUME TInv, WorkersShare, RunningTasks' \subseteq RunningTasks,
           \A u \in Unit, s \in Stage :
              /\ Deciding(u, s)' \subseteq Deciding(u, s)
              /\ AutoRows(u, s)' \subseteq AutoRows(u, s)
    PROVE  WorkersShare'
  <1>1. Cardinality(RunningTasks') <= Cardinality(RunningTasks)
        /\ Cardinality(RunningTasks') \in Nat
    <2>1. RunningTasks' \in SUBSET RunningTasks
      OBVIOUS
    <2> QED BY <2>1, SharesAreNumbers, FS_Subset, FS_CardinalityType
  <1>2. Cardinality(RunningTasks') <= Workers
    BY <1>1, SharesAreNumbers, AssignmentAssumption DEF WorkersShare, AssignmentAssumption
  <1>3. ASSUME NEW u \in Unit, NEW s \in Stage
        PROVE  Cardinality(AutoRows(u, s)') + Cardinality(Deciding(u, s)') <= Workers
    <2>1. /\ Cardinality(Deciding(u, s)') <= Cardinality(Deciding(u, s))
          /\ Cardinality(Deciding(u, s)') \in Nat
      <3>1. Deciding(u, s)' \in SUBSET Deciding(u, s)
        OBVIOUS
      <3>2. IsFiniteSet(Deciding(u, s))
        BY SharesAreNumbers
      <3> QED BY <3>1, <3>2, FS_Subset, FS_CardinalityType
    <2>2. /\ Cardinality(AutoRows(u, s)') <= Cardinality(AutoRows(u, s))
          /\ Cardinality(AutoRows(u, s)') \in Nat
      <3>1. AutoRows(u, s)' \in SUBSET AutoRows(u, s)
        OBVIOUS
      <3>2. IsFiniteSet(AutoRows(u, s))
        BY SharesAreNumbers
      <3> QED BY <3>1, <3>2, FS_Subset, FS_CardinalityType
    <2>3. /\ Cardinality(AutoRows(u, s)) + Cardinality(Deciding(u, s)) <= Workers
          /\ Cardinality(AutoRows(u, s)) \in Nat /\ Cardinality(Deciding(u, s)) \in Nat
      BY SharesAreNumbers DEF WorkersShare
    <2> QED BY <2>1, <2>2, <2>3, AssignmentAssumption DEF AssignmentAssumption
  <1> QED BY <1>2, <1>3 DEF WorkersShare

\* A task that goes on for the same stage, or stops.
LEMMA SharesTask ==
    ASSUME TInv, WorkersShare, NEW t \in Task, NEW k \in TaskState, SetTask(t, k),
           \/ k.pc \in {"free", "queued"}
           \/ Running(t) /\ k.unit = task[t].unit /\ k.stage = task[t].stage,
           UNCHANGED rows
    PROVE  WorkersShare'
  <1>1. task'[t] = k /\ \A x \in Task \ {t} : task'[x] = task[x]
    BY SetTaskEffect
  <1>2. RunningTasks' \subseteq RunningTasks
    BY <1>1 DEF RunningTasks, Running
  <1>3. ASSUME NEW u \in Unit, NEW s \in Stage
        PROVE  /\ Deciding(u, s)' \subseteq Deciding(u, s)
               /\ AutoRows(u, s)' \subseteq AutoRows(u, s)
    BY <1>1 DEF Deciding, Running, AutoRows, RowsOf
  <1> QED BY <1>2, <1>3, SharesShrink

\* A task that starts.
LEMMA SharesStart ==
    ASSUME TInv, WorkersShare, NEW t \in Task, TaskStart(t)
    PROVE  WorkersShare'
  <1>1. UNCHANGED rows
    BY DEF TaskStart
  <1>2. PICK k \in TaskState :
            /\ SetTask(t, k)
            /\ \/ k = Free
               \/ /\ k.pc = "checked"
                  /\ k.unit = task[t].unit
                  /\ k.stage = task[t].stage
                  /\ RowsOf(task[t].unit, task[t].stage) = {}
    BY StartsAs
  <1>3. CASE k = Free
    BY <1>1, <1>2, <1>3, SharesTask DEF Free
  <1>4. CASE k # Free
    <2>1. task'[t] = k /\ \A x \in Task \ {t} : task'[x] = task[x]
      BY <1>2, SetTaskEffect
    <2>2. ~Running(t) /\ task[t].pc = "queued"
      BY StartsAs DEF Running
    <2>3. Cardinality(RunningTasks') <= Workers /\ Cardinality(RunningTasks') \in Nat
          /\ IsFiniteSet(RunningTasks')
      <3> DEFINE before == {x \in Task : task[x].pc \notin {"free", "queued"}}
                 after == {x \in Task : task'[x].pc \notin {"free", "queued"}}
      <3>1. before = RunningTasks /\ after = RunningTasks'
        BY DEF RunningTasks, Running
      <3>2. before \ {t} = after \ {t} /\ t \notin before /\ t \in after
        BY <2>1, <2>2, <1>2, <1>4
      <3>3. Cardinality(before) < Workers
        BY DEF TaskStart, AWorkerIsFree, Running
      <3>4. IsFiniteSet(before)
        BY <3>1, SharesAreNumbers
      <3> HIDE DEF before, after
      <3>5. /\ Cardinality(after) = Cardinality(before) + 1
            /\ Cardinality(after) \in Nat /\ Cardinality(before) \in Nat
            /\ IsFiniteSet(after)
        BY <3>2, <3>4, OneElementApart
      <3> QED BY <3>1, <3>3, <3>5, AssignmentAssumption DEF AssignmentAssumption
    <2>4. ASSUME NEW u \in Unit, NEW s \in Stage
          PROVE  Cardinality(AutoRows(u, s)') + Cardinality(Deciding(u, s)') <= Workers
      <3>1. AutoRows(u, s)' = AutoRows(u, s)
        BY <1>1 DEF AutoRows, RowsOf
      <3>2. CASE u = task[t].unit /\ s = task[t].stage
        <4>1. AutoRows(u, s) = {}
          BY <1>2, <1>4, <3>2 DEF AutoRows
        <4>2. Cardinality(AutoRows(u, s)) = 0
          BY <4>1, FS_EmptySet
        <4>3. Deciding(u, s)' \in SUBSET RunningTasks'
          BY DEF Deciding, RunningTasks
        <4>4. Cardinality(Deciding(u, s)') <= Cardinality(RunningTasks')
              /\ Cardinality(Deciding(u, s)') \in Nat
          BY <4>3, <2>3, FS_Subset, FS_CardinalityType
        <4> QED BY <3>1, <4>2, <4>4, <2>3, AssignmentAssumption DEF AssignmentAssumption
      <3>3. CASE ~(u = task[t].unit /\ s = task[t].stage)
        <4>1. Deciding(u, s)' = Deciding(u, s)
          BY <2>1, <2>2, <1>2, <1>4, <3>3 DEF Deciding, Running
        <4> QED BY <3>1, <4>1 DEF WorkersShare
      <3> QED BY <3>2, <3>3
    <2> QED BY <2>3, <2>4 DEF WorkersShare
  <1> QED BY <1>3, <1>4

\* A task that commits its row is no longer one that decides.
LEMMA SharesCommit ==
    ASSUME TInv, WorkersShare, NEW t \in Task, AutoCommit(t)
    PROVE  WorkersShare'
  <1>1. task'[t] = Free /\ \A x \in Task \ {t} : task'[x] = task[x]
    BY CommitsAs, SetTaskEffect
  <1>2. Running(t)
    BY CommitsAs DEF Running
  <1>3. PICK n \in Nat \ {0} :
            /\ n = Len(rows) + 1
            /\ DOMAIN rows' = DOMAIN rows \cup {n} /\ n \notin DOMAIN rows
            /\ \A i \in DOMAIN rows : rows'[i] = rows[i]
            /\ rows'[n].unit = task[t].unit
            /\ rows'[n].stage = task[t].stage
            /\ rows'[n].by = "AUTO"
    <2>1. Insert(task[t].unit, task[t].stage, task[t].engineer, "AUTO")
      BY CommitsAs
    <2>2. /\ DOMAIN rows' = 1..(Len(rows) + 1)
          /\ \A i \in DOMAIN rows : rows'[i] = rows[i]
          /\ rows'[Len(rows) + 1] = [unit |-> task[t].unit, stage |-> task[t].stage,
                                     engineer |-> task[t].engineer,
                                     status |-> "PENDING", by |-> "AUTO"]
      BY <2>1, CommitsAs, InsertEffect
    <2> QED BY <2>2, RowFacts
  <1>4. RunningTasks' = RunningTasks \ {t}
    BY <1>1 DEF RunningTasks, Running, Free
  <1>5. Cardinality(RunningTasks') <= Workers
    <2>1. IsFiniteSet(RunningTasks) /\ Cardinality(RunningTasks) \in Nat
          /\ Cardinality(RunningTasks) <= Workers
      BY SharesAreNumbers DEF WorkersShare
    <2>2. Cardinality(RunningTasks \ {t}) <= Cardinality(RunningTasks)
          /\ Cardinality(RunningTasks \ {t}) \in Nat
      BY <2>1, FS_RemoveElement, FS_CardinalityType
    <2> QED BY <1>4, <2>1, <2>2, AssignmentAssumption DEF AssignmentAssumption
  <1>6. ASSUME NEW u \in Unit, NEW s \in Stage
        PROVE  Cardinality(AutoRows(u, s)') + Cardinality(Deciding(u, s)') <= Workers
    <2>1. /\ Cardinality(AutoRows(u, s)) + Cardinality(Deciding(u, s)) <= Workers
          /\ IsFiniteSet(Deciding(u, s)) /\ IsFiniteSet(AutoRows(u, s))
          /\ Cardinality(AutoRows(u, s)) \in Nat /\ Cardinality(Deciding(u, s)) \in Nat
      BY SharesAreNumbers DEF WorkersShare
    <2>2. CASE u = task[t].unit /\ s = task[t].stage
      <3>1. Deciding(u, s)' = Deciding(u, s) \ {t} /\ t \in Deciding(u, s)
        BY <1>1, <1>2, <2>2 DEF Deciding, Running, Free
      <3>2. AutoRows(u, s)' = AutoRows(u, s) \cup {n} /\ n \notin AutoRows(u, s)
        BY <1>3, <2>2 DEF AutoRows, RowsOf
      <3>3. Cardinality(Deciding(u, s) \ {t}) = Cardinality(Deciding(u, s)) - 1
        BY <2>1, <3>1, FS_RemoveElement
      <3>4. Cardinality(AutoRows(u, s) \cup {n}) = Cardinality(AutoRows(u, s)) + 1
        BY <2>1, <3>2, FS_AddElement
      <3> QED BY <2>1, <3>1, <3>2, <3>3, <3>4, AssignmentAssumption DEF AssignmentAssumption
    <2>3. CASE ~(u = task[t].unit /\ s = task[t].stage)
      <3>1. Deciding(u, s)' = Deciding(u, s)
        BY <1>1, <2>3 DEF Deciding, Running, Free
      <3>2. AutoRows(u, s)' = AutoRows(u, s)
        BY <1>3, <2>3 DEF AutoRows, RowsOf
      <3> QED BY <2>1, <3>1, <3>2
    <2> QED BY <2>2, <2>3
  <1> QED BY <1>5, <1>6 DEF WorkersShare

\* A row of another kind, or a status.
LEMMA SharesRows ==
    ASSUME TInv, WorkersShare, UNCHANGED task,
           \/ \E i \in DOMAIN rows, to \in AssignmentStatus : SetStatus(i, to)
           \/ UNCHANGED rows
           \/ \E u \in Unit, s \in Stage, e \in Engineer : Insert(u, s, e, "MANUAL")
    PROVE  WorkersShare'
  <1>1. RunningTasks' \subseteq RunningTasks
    BY DEF RunningTasks, Running
  <1>2. ASSUME NEW i \in DOMAIN rows, NEW to \in AssignmentStatus, SetStatus(i, to),
               NEW u \in Unit, NEW s \in Stage
        PROVE  AutoRows(u, s)' \subseteq AutoRows(u, s)
    <2>1. rows[i] \in SiteAssignment
      BY RowFacts
    <2>2. /\ DOMAIN rows' = DOMAIN rows
          /\ rows'[i] = [rows[i] EXCEPT !.status = to]
          /\ \A j \in DOMAIN rows \ {i} : rows'[j] = rows[j]
      BY <1>2, SetStatusEffect
    <2>3. /\ rows'[i].unit = rows[i].unit
          /\ rows'[i].stage = rows[i].stage
          /\ rows'[i].by = rows[i].by
      BY <2>1, <2>2 DEF SiteAssignment
    <2> QED BY <2>2, <2>3 DEF AutoRows, RowsOf
  <1>3. ASSUME NEW v \in Unit, NEW z \in Stage, NEW e \in Engineer,
               Insert(v, z, e, "MANUAL"), NEW u \in Unit, NEW s \in Stage
        PROVE  AutoRows(u, s)' \subseteq AutoRows(u, s)
    <2>1. /\ DOMAIN rows' = 1..(Len(rows) + 1)
          /\ \A i \in DOMAIN rows : rows'[i] = rows[i]
          /\ rows'[Len(rows) + 1] = [unit |-> v, stage |-> z, engineer |-> e,
                                     status |-> "PENDING", by |-> "MANUAL"]
      BY <1>3, InsertEffect
    <2>2. DOMAIN rows' = DOMAIN rows \cup {Len(rows) + 1}
      BY <2>1, RowFacts
    <2> QED BY <2>1, <2>2 DEF AutoRows, RowsOf
  <1>4. ASSUME NEW u \in Unit, NEW s \in Stage
        PROVE  /\ Deciding(u, s)' \subseteq Deciding(u, s)
               /\ AutoRows(u, s)' \subseteq AutoRows(u, s)
    <2>1. UNCHANGED rows => AutoRows(u, s)' \subseteq AutoRows(u, s)
      BY DEF AutoRows, RowsOf
    <2>2. Deciding(u, s)' \subseteq Deciding(u, s)
      BY DEF Deciding, Running
    <2> QED BY <1>2, <1>3, <2>1, <2>2
  <1> QED BY <1>1, <1>4, SharesShrink

LEMMA SharesInit == Init => WorkersShare
  <1> SUFFICES ASSUME Init PROVE WorkersShare
    OBVIOUS
  <1>1. RunningTasks = {} /\ \A u, s : Deciding(u, s) = {} /\ AutoRows(u, s) = {}
    BY DEF Init, RunningTasks, Deciding, AutoRows, RowsOf, Running, Free
  <1>2. Cardinality({}) = 0
    BY FS_EmptySet
  <1>3. Cardinality(RunningTasks) <= Workers
    BY <1>1, <1>2, AssignmentAssumption DEF AssignmentAssumption
  <1>4. \A u, s : Cardinality(AutoRows(u, s)) = 0 /\ Cardinality(Deciding(u, s)) = 0
    BY <1>1, <1>2
  <1> QED BY <1>3, <1>4, AssignmentAssumption DEF WorkersShare, AssignmentAssumption

LEMMA SharesNext == TInv /\ WorkersShare /\ [Next]_vars => WorkersShare'
  <1> SUFFICES ASSUME TInv, WorkersShare, [Next]_vars PROVE WorkersShare'
    OBVIOUS
  <1>1. ASSUME NEW u \in Unit, NEW s \in Stage, Delay(u, s), UNCHANGED rows
        PROVE  WorkersShare'
    BY <1>1, DelayEffect, SharesTask
  <1>2. ASSUME NEW u \in Unit, NEW s \in InPlay, StageEntered(u, s) PROVE WorkersShare'
    <2>1. s \in Stage
      BY InPlayType DEF TInv
    <2> QED BY <1>1, <1>2, <2>1 DEF StageEntered
  <1>3. ASSUME NEW u \in Unit, DeleteUnit(u) PROVE WorkersShare'
    BY <1>3, SharesRows DEF DeleteUnit
  <1>4. ASSUME NEW t \in Task, TaskStep(t) \/ TaskDisturbed(t) PROVE WorkersShare'
    <2>1. ASSUME AutoCheck(t) PROVE WorkersShare'
      <3>1. UNCHANGED rows /\ Running(t) /\ Free.pc = "free"
        BY <2>1 DEF AutoCheck, Running, Free
      <3> QED BY <2>1, <3>1, ChecksAs, SharesTask
    <2>2. ASSUME AutoChoose(t) PROVE WorkersShare'
      <3>1. UNCHANGED rows /\ Running(t)
        BY <2>2 DEF AutoChoose, Running
      <3> QED BY <2>2, <3>1, ChoosesAs, SharesTask
    <2>3. ASSUME AutoCount(t) PROVE WorkersShare'
      <3>1. UNCHANGED rows /\ Running(t)
        BY <2>3 DEF AutoCount, Running
      <3> QED BY <2>3, <3>1, CountsAs, SharesTask
    <2>4. ASSUME TaskRefused(t) \/ TaskDisturbed(t) PROVE WorkersShare'
      BY <2>4, DropsAs, SharesTask
    <2> QED BY <1>4, <2>1, <2>2, <2>3, <2>4, SharesStart, SharesCommit DEF TaskStep
  <1>5. ASSUME NEW i \in DOMAIN rows, Accept(i) PROVE WorkersShare'
    BY <1>5, SharesRows DEF Accept, AssignmentStatus
  <1>6. ASSUME NEW r \in Request, RequestStart(r) \/ Abort(r) PROVE WorkersShare'
    BY <1>6, SharesRows DEF RequestStart, ManualLoad, DeclineLoad, CompleteLoad, Abort
  <1>7. ASSUME NEW r \in Request, ManualCount(r) \/ CompleteCount(r) PROVE WorkersShare'
    BY <1>7, SharesRows DEF ManualCount, CompleteCount
  <1>8. ASSUME NEW r \in Request, ManualCommit(r) PROVE WorkersShare'
    <2>1. UNCHANGED task
      BY <1>8 DEF ManualCommit
    <2> QED BY <1>8, <2>1, AssignCommitsAs, SharesRows
  <1>9. ASSUME NEW r \in Request, DeclineCommit(r) PROVE WorkersShare'
    <2>1. UNCHANGED task /\ "DECLINED" \in AssignmentStatus
      BY <1>9 DEF DeclineCommit, AssignmentStatus
    <2> QED BY <1>9, <2>1, DeclineCommitsAs, SharesRows
  <1>10. ASSUME NEW r \in Request, CompleteCommit(r) PROVE WorkersShare'
    <2>1. UNCHANGED task /\ "COMPLETED" \in AssignmentStatus
      BY <1>10 DEF CompleteCommit, AssignmentStatus
    <2> QED BY <1>10, <2>1, CompleteCommitsAs, SharesRows
  <1>11. ASSUME NEW r \in Request, QueueFollowUp(r) PROVE WorkersShare'
    <2>1. req[r].pc = "owes_task" /\ req[r] \in RequestState
      BY <1>11 DEF QueueFollowUp, TInv, TypeOK
    <2>2. req[r].unit \in Unit /\ req[r].stage \in Stage
      BY <2>1, RequestByPc
    <2> QED BY <1>1, <1>11, <2>2 DEF QueueFollowUp
  <1>12. ASSUME UNCHANGED vars PROVE WorkersShare'
    BY <1>12, SharesRows DEF vars
  <1> QED BY <1>2, <1>3, <1>4, <1>5, <1>6, <1>7, <1>8, <1>9, <1>10, <1>11, <1>12
      DEF Next, RequestStep

\* However many tasks are queued for a stage, retried or handed on, it gets no
\* more automatic rows than there are workers: the tasks that decide for it and
\* the rows they leave ran together once, before any of them committed.
THEOREM AutoRowsAreFew == Spec => []OneAutoRowPerWorker
  <1>1. TInv /\ WorkersShare => OneAutoRowPerWorker
    <2> SUFFICES ASSUME TInv, WorkersShare, NEW u \in Unit, NEW s \in Stage
                 PROVE  Cardinality({i \in RowsOf(u, s) : rows[i].by = "AUTO"}) <= Workers
      BY DEF OneAutoRowPerWorker
    <2>1. Cardinality(AutoRows(u, s)) + Cardinality(Deciding(u, s)) <= Workers
          /\ Cardinality(AutoRows(u, s)) \in Nat /\ Cardinality(Deciding(u, s)) \in Nat
      BY SharesAreNumbers DEF WorkersShare
    <2>2. Cardinality(AutoRows(u, s)) <= Workers
      BY <2>1, AssignmentAssumption DEF AssignmentAssumption
    <2> QED BY <2>2 DEF AutoRows
  <1> QED BY TInvInit, TInvNext, SharesInit, SharesNext, <1>1, PTL DEF Spec

----------------------------------------------------------------------------
(* What the handlers know of an engineer's load and flag is still true     *)
(* when they commit, as long as no two of them overlap.                    *)

LEMMA LoadInserted ==
    ASSUME TInv, NEW u \in Unit, NEW s \in Stage, NEW e \in Engineer,
           NEW by \in {"AUTO", "MANUAL"}, Insert(u, s, e, by), NEW f \in Engineer
    PROVE  Load(f)' = IF f = e THEN Load(f) + 1 ELSE Load(f)
  <1>1. PICK n : /\ n = Len(rows) + 1
                 /\ DOMAIN rows' = DOMAIN rows \cup {n} /\ n \notin DOMAIN rows
                 /\ \A i \in DOMAIN rows : rows'[i] = rows[i]
                 /\ rows'[n].engineer = e
                 /\ rows'[n].status = "PENDING"
    <2>1. /\ DOMAIN rows' = 1..(Len(rows) + 1)
          /\ \A i \in DOMAIN rows : rows'[i] = rows[i]
          /\ rows'[Len(rows) + 1] = [unit |-> u, stage |-> s, engineer |-> e,
                                     status |-> "PENDING", by |-> by]
      BY InsertEffect
    <2> QED BY <2>1, RowFacts
  <1> DEFINE before == {i \in DOMAIN rows : /\ rows[i].engineer = f
                                            /\ rows[i].status \in ACTIVE_ASSIGNMENT_STATUSES}
             after == {i \in DOMAIN rows' : /\ rows'[i].engineer = f
                                            /\ rows'[i].status \in ACTIVE_ASSIGNMENT_STATUSES}
  <1>2. Load(f) = Cardinality(before) /\ Load(f)' = Cardinality(after)
    BY DEF Load
  <1>3. IsFiniteSet(before)
    BY LoadType DEF Active
  <1>4. before \ {n} = after \ {n} /\ n \notin before
    BY <1>1
  <1>5. n \in after <=> f = e
    BY <1>1 DEF ACTIVE_ASSIGNMENT_STATUSES
  <1> HIDE DEF before, after
  <1> QED BY <1>2, <1>3, <1>4, <1>5, OneElementApart

LEMMA LoadStatus ==
    ASSUME TInv, NEW i \in DOMAIN rows, NEW to \in AssignmentStatus, SetStatus(i, to),
           NEW f \in Engineer
    PROVE  /\ rows[i].engineer # f => Load(f)' = Load(f)
           /\ to \in ACTIVE_ASSIGNMENT_STATUSES => Load(f)' \in Nat /\ Load(f)' >= Load(f)
           /\ rows[i].engineer = f /\ to \notin ACTIVE_ASSIGNMENT_STATUSES =>
                Load(f)' = IF rows[i].status \in ACTIVE_ASSIGNMENT_STATUSES
                           THEN Load(f) - 1 ELSE Load(f)
  <1>1. /\ DOMAIN rows' = DOMAIN rows
        /\ rows'[i].engineer = rows[i].engineer
        /\ rows'[i].status = to
        /\ \A j \in DOMAIN rows \ {i} : rows'[j] = rows[j]
    <2>1. /\ DOMAIN rows' = DOMAIN rows
          /\ rows'[i] = [rows[i] EXCEPT !.status = to]
          /\ \A j \in DOMAIN rows \ {i} : rows'[j] = rows[j]
      BY SetStatusEffect
    <2>2. rows[i] \in SiteAssignment
      BY RowFacts
    <2> QED BY <2>1, <2>2 DEF SiteAssignment
  <1> DEFINE before == {j \in DOMAIN rows : /\ rows[j].engineer = f
                                            /\ rows[j].status \in ACTIVE_ASSIGNMENT_STATUSES}
             after == {j \in DOMAIN rows' : /\ rows'[j].engineer = f
                                            /\ rows'[j].status \in ACTIVE_ASSIGNMENT_STATUSES}
  <1>2. Load(f) = Cardinality(before) /\ Load(f)' = Cardinality(after)
    BY DEF Load
  <1>3. IsFiniteSet(before)
    BY LoadType DEF Active
  <1>4. before \ {i} = after \ {i}
    BY <1>1
  <1>5. /\ i \in before <=> (rows[i].engineer = f
                             /\ rows[i].status \in ACTIVE_ASSIGNMENT_STATUSES)
        /\ i \in after <=> (rows[i].engineer = f /\ to \in ACTIVE_ASSIGNMENT_STATUSES)
    BY <1>1
  <1> HIDE DEF before, after
  <1> QED BY <1>2, <1>3, <1>4, <1>5, OneElementApart

\* Whoever works, works alone.
OneAtATime ==
    /\ \A t \in Task, r \in Request : Running(t) => req[r] = Idle
    /\ \A t, x \in Task : Running(t) /\ Running(x) => t = x
    /\ \A r, q \in Request : req[r] # Idle /\ req[q] # Idle => r = q

\* An engineer who was created available and is not any more is full.
FullWhenUnavailable == \A e \in CreatedAvailable \ available : Load(e) >= Capacity[e]

\* A task that has chosen an engineer knows one with the flag and with room.
TaskKnows ==
    \A t \in Task, e \in Engineer :
        task[t].pc \in {"chosen", "counted"} /\ task[t].engineer = e =>
            /\ e \in available
            /\ Load(e) < Capacity[e]
            /\ task[t].pc = "counted" => (task[t].full <=> Load(e) + 1 >= Capacity[e])

\* A manual assignment knows its engineer's flag, and then whether it fills up.
AssignKnows ==
    \A r \in Request, e \in Engineer :
        req[r].pc \in {"assigning", "assign_counted"} /\ req[r].engineer = e =>
            /\ req[r].was <=> e \in available
            /\ req[r].pc = "assign_counted" => (req[r].full <=> Load(e) + 1 >= Capacity[e])

\* A decline and a completion know the flag of the row's engineer and the
\* row's status, and a completion then whether the engineer stays full.
RowKnows ==
    \A r \in Request, i \in DOMAIN rows, e \in Engineer :
        /\ req[r].pc \in {"declining", "completing", "complete_counted"}
        /\ req[r].row = i
        /\ rows[i].engineer = e
        =>
        /\ req[r].was <=> e \in available
        /\ req[r].pc = "declining" => (req[r].writes <=> rows[i].status # "DECLINED")
        /\ req[r].pc # "declining" => (req[r].writes <=> rows[i].status # "COMPLETED")
        /\ req[r].pc = "complete_counted" => (req[r].full <=> Load(e) - Own(r) >= Capacity[e])

Knowing == OneAtATime /\ FullWhenUnavailable /\ TaskKnows /\ AssignKnows /\ RowKnows

LEMMA KnowingInit == Init => Knowing
  <1> SUFFICES ASSUME Init PROVE Knowing
    OBVIOUS
  <1>1. \A t \in Task : ~Running(t) /\ task[t].pc = "free"
    BY DEF Init, Running, Free
  <1>2. \A r \in Request : req[r] = Idle /\ req[r].pc = "idle"
    BY DEF Init, Idle
  <1>3. FullWhenUnavailable
    BY DEF Init, FullWhenUnavailable
  <1>4. OneAtATime
    BY <1>1, <1>2 DEF OneAtATime
  <1>5. TaskKnows /\ AssignKnows /\ RowKnows
    BY <1>1, <1>2 DEF TaskKnows, AssignKnows, RowKnows
  <1> QED BY <1>3, <1>4, <1>5 DEF Knowing

\* Once nobody works any more, there is nothing to know but the flags.
LEMMA KnowingAlone ==
    ASSUME \A t \in Task : ~Running(t)',
           \A r \in Request : req'[r].pc \in {"idle", "owes_task"},
           \A r, q \in Request : req'[r] # Idle /\ req'[q] # Idle => r = q,
           FullWhenUnavailable'
    PROVE  Knowing'
  <1>1. OneAtATime'
    BY DEF OneAtATime, Idle
  <1>2. TaskKnows'
    BY DEF TaskKnows, Running
  <1>3. AssignKnows' /\ RowKnows'
    BY DEF AssignKnows, RowKnows
  <1> QED BY <1>1, <1>2, <1>3 DEF Knowing

\* The engineers created available are the same after a step.
LEMMA CreatedStays ==
    ASSUME TInv, UNCHANGED mode
    PROVE  CreatedAvailable' = CreatedAvailable /\ CreatedAvailable \subseteq Engineer
  BY ModeType DEF TInv, TypeOK, CreatedAvailable

\* A step of a task alone.
LEMMA KnowingTask ==
    ASSUME TInv, Knowing, NEW t \in Task, NEW k \in TaskState, SetTask(t, k),
           k.pc \in {"free", "queued"} \/ Running(t) \/ Alone,
           \A e \in Engineer :
               k.pc \in {"chosen", "counted"} /\ k.engineer = e =>
                   /\ e \in available
                   /\ Load(e) < Capacity[e]
                   /\ k.pc = "counted" => (k.full <=> Load(e) + 1 >= Capacity[e]),
           UNCHANGED <<rows, available, req, mode>>
    PROVE  Knowing'
  <1>1. task'[t] = k /\ \A x \in Task \ {t} : task'[x] = task[x]
    BY SetTaskEffect
  <1>2. \A e : Load(e)' = Load(e)
    BY DEF Load
  <1>3. \A r \in Request : Own(r)' = Own(r)
    BY DEF Own
  <1>4. OneAtATime'
    BY <1>1 DEF Knowing, OneAtATime, Running, Alone, Idle
  <1>5. FullWhenUnavailable'
    BY <1>2, CreatedStays DEF Knowing, FullWhenUnavailable
  <1>6. TaskKnows'
    BY <1>1, <1>2 DEF Knowing, TaskKnows
  <1>7. AssignKnows'
    BY <1>2 DEF Knowing, AssignKnows
  <1>8. RowKnows'
    BY <1>2, <1>3 DEF Knowing, RowKnows
  <1> QED BY <1>4, <1>5, <1>6, <1>7, <1>8 DEF Knowing

\* A step of a request alone.
LEMMA KnowingRequest ==
    ASSUME TInv, Knowing, NEW r \in Request, NEW k \in RequestState, Become(r, k),
           k = Idle \/ req[r] # Idle \/ Alone,
           \A e \in Engineer :
               k.pc \in {"assigning", "assign_counted"} /\ k.engineer = e =>
                   /\ k.was <=> e \in available
                   /\ k.pc = "assign_counted" => (k.full <=> Load(e) + 1 >= Capacity[e]),
           \A i \in DOMAIN rows, e \in Engineer :
               /\ k.pc \in {"declining", "completing", "complete_counted"}
               /\ k.row = i
               /\ rows[i].engineer = e
               =>
               /\ k.was <=> e \in available
               /\ k.pc = "declining" => (k.writes <=> rows[i].status # "DECLINED")
               /\ k.pc # "declining" => (k.writes <=> rows[i].status # "COMPLETED")
               /\ k.pc = "complete_counted" =>
                    \A own \in {0, 1} :
                        (own = 1 <=> k.writes /\ rows[i].status \in ACTIVE_ASSIGNMENT_STATUSES)
                            => (k.full <=> Load(e) - own >= Capacity[e]),
           UNCHANGED <<rows, available, task, mode>>
    PROVE  Knowing'
  <1>1. req'[r] = k /\ \A q \in Request \ {r} : req'[q] = req[q]
    BY BecomeEffect
  <1>2. \A e : Load(e)' = Load(e)
    BY DEF Load
  <1>3. OneAtATime'
    BY <1>1 DEF Knowing, OneAtATime, Running, Alone, Idle
  <1>4. FullWhenUnavailable'
    BY <1>2, CreatedStays DEF Knowing, FullWhenUnavailable
  <1>5. TaskKnows'
    BY <1>2 DEF Knowing, TaskKnows
  <1>6. AssignKnows'
    BY <1>1, <1>2 DEF Knowing, AssignKnows
  <1>7. RowKnows'
    <2> SUFFICES ASSUME NEW q \in Request, NEW i \in DOMAIN rows, NEW e \in Engineer,
                        req'[q].pc \in {"declining", "completing", "complete_counted"},
                        req'[q].row = i, rows[i].engineer = e
                 PROVE  /\ req'[q].was <=> e \in available
                        /\ req'[q].pc = "declining" =>
                             (req'[q].writes <=> rows[i].status # "DECLINED")
                        /\ req'[q].pc # "declining" =>
                             (req'[q].writes <=> rows[i].status # "COMPLETED")
                        /\ req'[q].pc = "complete_counted" =>
                             (req'[q].full <=> Load(e) - Own(q)' >= Capacity[e])
      BY <1>2 DEF RowKnows
    <2>1. CASE q = r
      <3>1. Own(r)' \in {0, 1}
            /\ (Own(r)' = 1 <=> k.writes /\ rows[i].status \in ACTIVE_ASSIGNMENT_STATUSES)
        BY <1>1, <2>1 DEF Own
      <3> QED BY <1>1, <2>1, <3>1
    <2>2. CASE q # r
      <3>1. Own(q)' = Own(q) /\ req'[q] = req[q]
        BY <1>1, <2>2 DEF Own
      <3> QED BY <3>1 DEF Knowing, RowKnows
    <2> QED BY <2>1, <2>2
  <1> QED BY <1>3, <1>4, <1>5, <1>6, <1>7 DEF Knowing

LEMMA KnowingAutoCommit ==
    ASSUME TInv, Knowing, NEW t \in Task, AutoCommit(t)
    PROVE  /\ Knowing'
           /\ Load(task[t].engineer) < Capacity[task[t].engineer]
  <1>1. /\ task[t].pc = "counted" /\ Running(t)
        /\ task[t].engineer \in Engineer
        /\ SetTask(t, Free) /\ Free \in TaskState
        /\ Insert(task[t].unit, task[t].stage, task[t].engineer, "AUTO")
    BY CommitsAs DEF Running
  <1>2. PICK e \in Engineer : e = task[t].engineer
    BY <1>1
  <1>3. /\ e \in available
        /\ Load(e) < Capacity[e]
        /\ task[t].full <=> Load(e) + 1 >= Capacity[e]
    BY <1>1, <1>2 DEF Knowing, TaskKnows
  <1>4. \A f \in Engineer : Load(f)' = IF f = e THEN Load(f) + 1 ELSE Load(f)
    BY <1>1, <1>2, CommitsAs, LoadInserted
  <1>5. FullWhenUnavailable'
    <2> SUFFICES ASSUME NEW f \in Engineer, f \in CreatedAvailable, f \notin available'
                 PROVE  Load(f)' >= Capacity[f]
      BY CreatedStays DEF FullWhenUnavailable, AutoCommit
    <2>1. available' = IF task[t].full THEN available \ {e} ELSE available
      BY <1>2 DEF AutoCommit
    <2>2. CASE f = e
      BY <1>3, <1>4, <2>1, <2>2
    <2>3. CASE f # e
      BY <1>4, <2>1, <2>3 DEF Knowing, FullWhenUnavailable
    <2> QED BY <2>2, <2>3
  <1>6. task'[t] = Free /\ \A x \in Task \ {t} : task'[x] = task[x]
    BY <1>1, SetTaskEffect
  <1>7. \A x \in Task : ~Running(x)'
    BY <1>1, <1>6 DEF Knowing, OneAtATime, Running, Free
  <1>8. \A r \in Request : req'[r] = Idle
    BY <1>1 DEF Knowing, OneAtATime, AutoCommit
  <1>9. Knowing'
    BY <1>5, <1>7, <1>8, KnowingAlone DEF Idle
  <1> QED BY <1>2, <1>3, <1>9

\* After the commit of a request nobody works.
LEMMA KnowingCommit ==
    ASSUME TInv, Knowing, NEW r \in Request, NEW k \in RequestState, req[r] # Idle,
           k.pc \in {"idle", "owes_task"}, Become(r, k), UNCHANGED task,
           FullWhenUnavailable'
    PROVE  Knowing'
  <1>1. req'[r] = k /\ \A q \in Request \ {r} : req'[q] = req[q]
    BY BecomeEffect
  <1>2. \A q \in Request \ {r} : req'[q] = Idle
    BY <1>1 DEF Knowing, OneAtATime
  <1>3. \A t \in Task : ~Running(t)'
    BY DEF Knowing, OneAtATime, Running
  <1> QED BY <1>1, <1>2, <1>3, KnowingAlone DEF Idle

LEMMA KnowingManualCommit ==
    ASSUME TInv, Knowing, NEW r \in Request, ManualCommit(r)
    PROVE  Knowing'
  <1>1. /\ req[r].pc = "assign_counted" /\ req[r] # Idle
        /\ req[r].engineer \in Engineer
        /\ Idle \in RequestState /\ Become(r, Idle)
        /\ Insert(req[r].unit, req[r].stage, req[r].engineer, "MANUAL")
    BY AssignCommitsAs
  <1>2. PICK e \in Engineer : e = req[r].engineer
    BY <1>1
  <1>3. /\ req[r].was <=> e \in available
        /\ req[r].full <=> Load(e) + 1 >= Capacity[e]
    BY <1>1, <1>2 DEF Knowing, AssignKnows
  <1>4. \A f \in Engineer : Load(f)' = IF f = e THEN Load(f) + 1 ELSE Load(f)
    BY <1>1, <1>2, AssignCommitsAs, LoadInserted
  <1>5. FullWhenUnavailable'
    <2> SUFFICES ASSUME NEW f \in Engineer, f \in CreatedAvailable, f \notin available'
                 PROVE  Load(f)' >= Capacity[f]
      BY CreatedStays DEF FullWhenUnavailable, ManualCommit
    <2>1. available' = IF req[r].full /\ req[r].was THEN available \ {e} ELSE available
      BY <1>2 DEF ManualCommit
    <2>2. f \notin available => Load(f) >= Capacity[f]
      BY DEF Knowing, FullWhenUnavailable
    <2>3. Load(f) \in Nat /\ Capacity[f] \in Nat
      BY LoadType, AssignmentAssumption DEF AssignmentAssumption
    <2>4. CASE f = e
      BY <1>3, <1>4, <2>1, <2>2, <2>3, <2>4
    <2>5. CASE f # e
      BY <1>4, <2>1, <2>2, <2>5
    <2> QED BY <2>4, <2>5
  <1>6. UNCHANGED task /\ Idle.pc = "idle"
    BY DEF ManualCommit, Idle
  <1> QED BY <1>1, <1>5, <1>6, KnowingCommit

LEMMA KnowingDeclineCommit ==
    ASSUME TInv, Knowing, NEW r \in Request, DeclineCommit(r)
    PROVE  Knowing'
  <1>1. /\ req[r].pc = "declining" /\ req[r] # Idle
        /\ req[r].row \in DOMAIN rows
        /\ rows[req[r].row].engineer \in Engineer
        /\ IF req[r].writes THEN SetStatus(req[r].row, "DECLINED") ELSE UNCHANGED rows
        /\ available' = IF req[r].was THEN available
                        ELSE available \cup {rows[req[r].row].engineer}
    BY DeclineCommitsAs
  <1>2. PICK i \in DOMAIN rows, e \in Engineer : i = req[r].row /\ e = rows[i].engineer
    BY <1>1
  <1>3. req[r].was <=> e \in available
    BY <1>1, <1>2 DEF Knowing, RowKnows
  <1>4. FullWhenUnavailable'
    <2> SUFFICES ASSUME NEW f \in Engineer, f \in CreatedAvailable, f \notin available'
                 PROVE  Load(f)' >= Capacity[f]
      BY CreatedStays DEF FullWhenUnavailable, DeclineCommit
    <2>1. f # e /\ f \notin available
      BY <1>1, <1>2, <1>3
    <2>2. Load(f)' = Load(f)
      <3>1. SetStatus(i, "DECLINED") => Load(f)' = Load(f)
        BY <1>2, <2>1, LoadStatus DEF AssignmentStatus
      <3>2. UNCHANGED rows => Load(f)' = Load(f)
        BY DEF Load
      <3> QED BY <1>1, <1>2, <3>1, <3>2
    <2> QED BY <2>1, <2>2 DEF Knowing, FullWhenUnavailable
  <1>5. UNCHANGED task
    BY DEF DeclineCommit
  <1> QED BY <1>1, <1>4, <1>5, DeclineCommitsAs, KnowingCommit

LEMMA KnowingCompleteCommit ==
    ASSUME TInv, Knowing, NEW r \in Request, CompleteCommit(r)
    PROVE  Knowing'
  <1>1. /\ req[r].pc = "complete_counted" /\ req[r] # Idle
        /\ req[r].row \in DOMAIN rows
        /\ rows[req[r].row].engineer \in Engineer
        /\ IF req[r].writes THEN SetStatus(req[r].row, "COMPLETED") ELSE UNCHANGED rows
        /\ FreeOrFull(r)
    BY CompleteCommitsAs
  <1>2. PICK i \in DOMAIN rows, e \in Engineer : i = req[r].row /\ e = rows[i].engineer
    BY <1>1
  <1>3. /\ req[r].was <=> e \in available
        /\ req[r].full <=> Load(e) - Own(r) >= Capacity[e]
    BY <1>1, <1>2 DEF Knowing, RowKnows
  <1>4. e \notin available' => req[r].full
    <2>1. req[r] \in RequestState
      BY DEF TInv, TypeOK
    <2>2. req[r].was \in BOOLEAN /\ req[r].full \in BOOLEAN
      BY <1>1, <2>1, RequestByPc
    <2>3. available' = IF req[r].full = req[r].was
                       THEN IF req[r].full THEN available \ {e} ELSE available \cup {e}
                       ELSE available
      BY <1>1, <1>2 DEF FreeOrFull
    <2> QED BY <1>3, <2>2, <2>3
  <1>5. \A f \in Engineer \ {e} : f \notin available' => f \notin available
    BY <1>1, <1>2 DEF FreeOrFull
  <1>6. FullWhenUnavailable'
    <2> SUFFICES ASSUME NEW f \in Engineer, f \in CreatedAvailable, f \notin available'
                 PROVE  Load(f)' >= Capacity[f]
      BY CreatedStays DEF FullWhenUnavailable, CompleteCommit
    <2>1. UNCHANGED rows => Load(f)' = Load(f)
      BY DEF Load
    <2>2. CASE f = e
      <3>1. Load(f)' = Load(f) - Own(r)
        <4>1. CASE req[r].writes
          <5>1. Load(f)' = IF rows[i].status \in ACTIVE_ASSIGNMENT_STATUSES
                           THEN Load(f) - 1 ELSE Load(f)
            BY <1>1, <1>2, <2>2, <4>1, LoadStatus
            DEF AssignmentStatus, ACTIVE_ASSIGNMENT_STATUSES
          <5> QED BY <5>1, <1>2, <4>1, LoadType DEF Own
        <4>2. CASE ~req[r].writes
          BY <1>1, <2>1, <4>2, LoadType DEF Own
        <4> QED BY <4>1, <4>2
      <3> QED BY <1>3, <1>4, <2>2, <3>1
    <2>3. CASE f # e
      <3>1. Load(f)' = Load(f)
        <4>1. SetStatus(i, "COMPLETED") => Load(f)' = Load(f)
          BY <1>2, <2>3, LoadStatus DEF AssignmentStatus
        <4> QED BY <1>1, <1>2, <2>1, <4>1
      <3> QED BY <1>5, <2>3, <3>1 DEF Knowing, FullWhenUnavailable
    <2> QED BY <2>2, <2>3
  <1>7. UNCHANGED task
    BY DEF CompleteCommit
  <1> QED BY <1>1, <1>6, <1>7, CompleteCommitsAs, KnowingCommit

LEMMA KnowingAccept ==
    ASSUME TInv, Knowing, NEW i \in DOMAIN rows, Accept(i), Alone
    PROVE  Knowing'
  <1>1. UNCHANGED <<available, task, req>> /\ SetStatus(i, "ACCEPTED")
    BY DEF Accept
  <1>2. FullWhenUnavailable'
    <2> SUFFICES ASSUME NEW f \in Engineer, f \in CreatedAvailable, f \notin available'
                 PROVE  Load(f)' >= Capacity[f]
      BY CreatedStays DEF FullWhenUnavailable, Accept
    <2>1. Load(f)' \in Nat /\ Load(f)' >= Load(f)
      BY <1>1, LoadStatus DEF AssignmentStatus, ACTIVE_ASSIGNMENT_STATUSES
    <2>2. Load(f) >= Capacity[f]
      BY <1>1 DEF Knowing, FullWhenUnavailable
    <2>3. Load(f) \in Nat /\ Capacity[f] \in Nat
      BY LoadType, AssignmentAssumption DEF AssignmentAssumption
    <2> QED BY <2>1, <2>2, <2>3
  <1>3. \A t \in Task : ~Running(t)'
    BY <1>1 DEF Alone, Running
  <1> QED BY <1>1, <1>2, <1>3, KnowingAlone DEF Alone, Idle

LEMMA KnowingTaskStep ==
    ASSUME TInv, Knowing, ~Overlap, NEW t \in Task, TaskStep(t) \/ TaskDisturbed(t)
    PROVE  Knowing'
  <1>1. ASSUME TaskStart(t) PROVE Knowing'
    <2>1. Alone /\ UNCHANGED <<rows, available, req, mode>> /\ Free.pc = "free"
      BY <1>1 DEF TaskStart, Free
    <2>2. PICK k \in TaskState : SetTask(t, k) /\ k.pc \in {"free", "checked"}
      BY <1>1, <2>1, StartsAs
    <2> QED BY <2>1, <2>2, KnowingTask
  <1>2. ASSUME AutoCheck(t) PROVE Knowing'
    <2>1. Running(t) /\ UNCHANGED <<rows, available, req, mode>> /\ Free.pc = "free"
      BY <1>2 DEF AutoCheck, Running, Free
    <2>2. PICK k \in TaskState : SetTask(t, k) /\ k.pc \in {"free", "cleared"}
      BY <1>2, <2>1, ChecksAs
    <2> QED BY <2>1, <2>2, KnowingTask
  <1>3. ASSUME AutoChoose(t) PROVE Knowing'
    <2>1. Running(t) /\ UNCHANGED <<rows, available, req, mode>>
      BY <1>3 DEF AutoChoose, Running
    <2>2. PICK k \in TaskState : /\ SetTask(t, k)
                                 /\ k.pc = "chosen"
                                 /\ k.engineer \in available
                                 /\ Load(k.engineer) < Capacity[k.engineer]
      BY <1>3, ChoosesAs
    <2> QED BY <2>1, <2>2, KnowingTask
  <1>4. ASSUME AutoCount(t) PROVE Knowing'
    <2>1. Running(t) /\ UNCHANGED <<rows, available, req, mode>> /\ task[t].pc = "chosen"
      BY <1>4 DEF AutoCount, Running
    <2>2. PICK k \in TaskState :
              /\ SetTask(t, k)
              /\ k.pc = "counted"
              /\ k.engineer = task[t].engineer
              /\ k.full = (Load(task[t].engineer) + 1 >= Capacity[task[t].engineer])
      BY <1>4, CountsAs
    <2>3. ASSUME NEW e \in Engineer, k.engineer = e
          PROVE  /\ e \in available
                 /\ Load(e) < Capacity[e]
                 /\ k.full <=> Load(e) + 1 >= Capacity[e]
      BY <2>1, <2>2, <2>3 DEF Knowing, TaskKnows
    <2> QED BY <2>1, <2>2, <2>3, KnowingTask
  <1>5. ASSUME AutoCommit(t) PROVE Knowing'
    BY <1>5, KnowingAutoCommit
  <1>6. ASSUME TaskRefused(t) \/ TaskDisturbed(t) PROVE Knowing'
    <2>1. PICK k \in TaskState : SetTask(t, k) /\ k.pc \in {"free", "queued"}
      BY <1>6, DropsAs
    <2> QED BY <1>6, <2>1, DropsAs, KnowingTask
  <1> QED BY <1>1, <1>2, <1>3, <1>4, <1>5, <1>6 DEF TaskStep

LEMMA KnowingRequestStart ==
    ASSUME TInv, Knowing, ~Overlap, NEW r \in Request, RequestStart(r)
    PROVE  Knowing'
  <1>1. ASSUME NEW u \in Unit, NEW s \in InPlay, NEW e \in Engineer, ManualLoad(r, u, s, e)
        PROVE  Knowing'
    <2>1. Alone /\ UNCHANGED <<rows, available, task, mode>>
      BY <1>1 DEF ManualLoad, Begins
    <2>2. PICK k \in RequestState : /\ Become(r, k)
                                    /\ k.pc = "assigning"
                                    /\ k.engineer = e
                                    /\ k.was = (e \in available)
      BY <1>1, AssignsAs
    <2> QED BY <2>1, <2>2, KnowingRequest
  <1>2. ASSUME NEW i \in DOMAIN rows, DeclineLoad(r, i) PROVE Knowing'
    <2>1. Alone /\ UNCHANGED <<rows, available, task, mode>>
      BY <1>2 DEF DeclineLoad, Begins
    <2>2. PICK k \in RequestState : /\ Become(r, k)
                                    /\ k.pc = "declining"
                                    /\ k.row = i
                                    /\ k.was = (rows[i].engineer \in available)
                                    /\ k.writes = (rows[i].status # "DECLINED")
      BY <1>2, DeclinesAs
    <2> QED BY <2>1, <2>2, KnowingRequest
  <1>3. ASSUME NEW i \in DOMAIN rows, CompleteLoad(r, i) PROVE Knowing'
    <2>1. Alone /\ UNCHANGED <<rows, available, task, mode>>
      BY <1>3 DEF CompleteLoad, Begins
    <2>2. PICK k \in RequestState : /\ Become(r, k)
                                    /\ k.pc = "completing"
                                    /\ k.row = i
                                    /\ k.was = (rows[i].engineer \in available)
                                    /\ k.writes = (rows[i].status # "COMPLETED")
      BY <1>3, CompletesAs
    <2> QED BY <2>1, <2>2, KnowingRequest
  <1> QED BY <1>1, <1>2, <1>3 DEF RequestStart

LEMMA KnowingCount ==
    ASSUME TInv, Knowing, NEW r \in Request, ManualCount(r) \/ CompleteCount(r)
    PROVE  Knowing'
  <1>1. ASSUME ManualCount(r) PROVE Knowing'
    <2>1. UNCHANGED <<rows, available, task, mode>> /\ req[r].pc = "assigning" /\ req[r] # Idle
      BY <1>1 DEF ManualCount, Idle
    <2>2. PICK k \in RequestState :
              /\ Become(r, k)
              /\ k.pc = "assign_counted"
              /\ k.engineer = req[r].engineer
              /\ k.was = req[r].was
              /\ k.full = (Load(req[r].engineer) + 1 >= Capacity[req[r].engineer])
      BY <1>1, AssignCountsAs
    <2>3. ASSUME NEW e \in Engineer, k.engineer = e
          PROVE  /\ k.was <=> e \in available
                 /\ k.full <=> Load(e) + 1 >= Capacity[e]
      BY <2>1, <2>2, <2>3 DEF Knowing, AssignKnows
    <2> QED BY <2>1, <2>2, <2>3, KnowingRequest
  <1>2. ASSUME CompleteCount(r) PROVE Knowing'
    <2>1. UNCHANGED <<rows, available, task, mode>> /\ req[r].pc = "completing" /\ req[r] # Idle
      BY <1>2 DEF CompleteCount, Idle
    <2>2. PICK k \in RequestState :
              /\ Become(r, k)
              /\ k.pc = "complete_counted"
              /\ k.row = req[r].row
              /\ k.was = req[r].was
              /\ k.writes = req[r].writes
              /\ k.full = (Load(rows[req[r].row].engineer) - Own(r)
                             >= Capacity[rows[req[r].row].engineer])
      BY <1>2, CompleteCountsAs
    <2>3. ASSUME NEW i \in DOMAIN rows, NEW e \in Engineer, k.row = i, rows[i].engineer = e
          PROVE  /\ k.was <=> e \in available
                 /\ k.writes <=> rows[i].status # "COMPLETED"
                 /\ \A own \in {0, 1} :
                        (own = 1 <=> k.writes /\ rows[i].status \in ACTIVE_ASSIGNMENT_STATUSES)
                            => (k.full <=> Load(e) - own >= Capacity[e])
      <3>1. /\ k.was <=> e \in available
            /\ k.writes <=> rows[i].status # "COMPLETED"
        BY <2>1, <2>2, <2>3 DEF Knowing, RowKnows
      <3>2. k.full <=> Load(e) - Own(r) >= Capacity[e]
        BY <2>2, <2>3
      <3>3. Own(r) \in {0, 1}
            /\ (Own(r) = 1 <=> k.writes /\ rows[i].status \in ACTIVE_ASSIGNMENT_STATUSES)
        BY <2>2, <2>3 DEF Own
      <3> QED BY <3>1, <3>2, <3>3
    <2> QED BY <2>1, <2>2, <2>3, KnowingRequest
  <1> QED BY <1>1, <1>2

\* A task that is queued knows nothing yet.
LEMMA KnowingDelay ==
    ASSUME TInv, Knowing, NEW u \in Unit, NEW s \in Stage, Delay(u, s),
           UNCHANGED <<rows, available, req, mode>>
    PROVE  Knowing'
  <1>1. PICK t \in Task, k \in TaskState : k.pc = "queued" /\ SetTask(t, k)
    BY DelayEffect
  <1> QED BY <1>1, KnowingTask

LEMMA KnowingQueueFollowUp ==
    ASSUME TInv, Knowing, NEW r \in Request, QueueFollowUp(r)
    PROVE  Knowing'
  <1>1. req[r].pc = "owes_task" /\ req[r] \in RequestState /\ req[r] # Idle
        /\ Idle \in RequestState
    BY DEF QueueFollowUp, TInv, TypeOK, Idle, RequestState
  <1>2. req[r].unit \in Unit /\ req[r].stage \in Stage
    BY <1>1, RequestByPc
  <1>3. PICK t \in Task, k \in TaskState : k.pc = "queued" /\ SetTask(t, k)
    BY <1>2, DelayEffect DEF QueueFollowUp
  <1>4. UNCHANGED <<rows, available>> /\ Become(r, Idle)
    BY DEF QueueFollowUp
  <1>5. task'[t] = k /\ \A x \in Task \ {t} : task'[x] = task[x]
    BY <1>3, SetTaskEffect
  <1>6. req'[r] = Idle /\ \A q \in Request \ {r} : req'[q] = req[q]
    BY <1>1, <1>4, BecomeEffect
  <1>7. \A x \in Task : ~Running(x)'
    BY <1>1, <1>3, <1>5 DEF Knowing, OneAtATime, Running
  <1>8. \A q \in Request : req'[q] = Idle
    BY <1>1, <1>6 DEF Knowing, OneAtATime
  <1>9. FullWhenUnavailable'
    BY <1>4, CreatedStays DEF Knowing, FullWhenUnavailable, Load, QueueFollowUp
  <1> QED BY <1>7, <1>8, <1>9, KnowingAlone DEF Idle

LEMMA KnowingNext ==
    TInv /\ (~Overlap => Knowing) /\ [Next]_vars => (~Overlap => Knowing)'
  <1> SUFFICES ASSUME TInv, ~Overlap => Knowing, [Next]_vars, ~Overlap'
               PROVE  Knowing'
    OBVIOUS
  <1>1. UNCHANGED mode
    BY DEF Next, vars, StageEntered, DeleteUnit, TaskStep, TaskDisturbed, TaskStart,
           AutoCheck, AutoChoose, AutoCount, AutoCommit, TaskRefused, Accept,
           RequestStart, RequestStep, Abort, ManualLoad, DeclineLoad, CompleteLoad,
           ManualCount, ManualCommit, DeclineCommit, CompleteCount, CompleteCommit,
           QueueFollowUp
  <1>2. ~Overlap /\ Knowing
    BY <1>1 DEF Overlap
  <1>3. ASSUME NEW u \in Unit, NEW s \in InPlay, StageEntered(u, s) PROVE Knowing'
    <2>1. s \in Stage
      BY InPlayType DEF TInv
    <2> QED BY <1>2, <1>3, <2>1, KnowingDelay DEF StageEntered
  <1>4. ASSUME UNCHANGED <<rows, available, task, req, mode>> PROVE Knowing'
    <2>1. /\ \A e : Load(e)' = Load(e)
          /\ \A r : Own(r)' = Own(r)
          /\ \A t : Running(t)' = Running(t)
      BY <1>4 DEF Load, Own, Running
    <2>2. OneAtATime'
      BY <1>2, <1>4, <2>1 DEF Knowing, OneAtATime, Idle
    <2>3. FullWhenUnavailable' /\ TaskKnows' /\ AssignKnows'
      BY <1>2, <1>4, <2>1, CreatedStays
      DEF Knowing, FullWhenUnavailable, TaskKnows, AssignKnows
    <2>4. RowKnows'
      BY <1>2, <1>4, <2>1 DEF Knowing, RowKnows
    <2> QED BY <2>2, <2>3, <2>4 DEF Knowing
  <1>5. ASSUME NEW t \in Task, TaskStep(t) \/ TaskDisturbed(t) PROVE Knowing'
    BY <1>2, <1>5, KnowingTaskStep
  <1>6. ASSUME NEW i \in DOMAIN rows, Accept(i) PROVE Knowing'
    BY <1>2, <1>6, KnowingAccept DEF Accept
  <1>7. ASSUME NEW r \in Request, RequestStart(r) PROVE Knowing'
    BY <1>2, <1>7, KnowingRequestStart
  <1>8. ASSUME NEW r \in Request, RequestStep(r) PROVE Knowing'
    BY <1>2, <1>8, KnowingCount, KnowingManualCommit, KnowingDeclineCommit,
       KnowingCompleteCommit, KnowingQueueFollowUp DEF RequestStep
  <1>9. ASSUME NEW r \in Request, Abort(r) PROVE Knowing'
    <2>1. Idle \in RequestState /\ Idle.pc = "idle"
      BY DEF RequestState, Idle
    <2>2. Become(r, Idle) /\ UNCHANGED <<rows, available, task, mode>>
      BY <1>9 DEF Abort
    <2> QED BY <1>2, <2>1, <2>2, KnowingRequest
  <1> QED BY <1>3, <1>4, <1>5, <1>6, <1>7, <1>8, <1>9 DEF Next, DeleteUnit, vars

\* A handler that is not overlapped by another leaves no engineer with room
\* unavailable: what it knew of the flag and counted of the load when it
\* decided is still so when it commits.
THEOREM UnavailableAreFull == Spec => []UnavailableIsFull
  <1>1. Init => (~Overlap => Knowing)
    BY KnowingInit
  <1>2. (~Overlap => Knowing) => UnavailableIsFull
    BY DEF Knowing, FullWhenUnavailable, UnavailableIsFull
  <1> QED BY TInvInit, TInvNext, KnowingNext, <1>1, <1>2, PTL DEF Spec

\* A new row: an automatic one is that of a task that commits.
LEMMA AutoRowsAreCommitted ==
    ASSUME TInv, [Next]_vars, NEW i \in DOMAIN rows' \ DOMAIN rows, rows'[i].by = "AUTO"
    PROVE  \E t \in Task : AutoCommit(t) /\ rows'[i].engineer = task[t].engineer
  <1>1. ASSUME UNCHANGED rows PROVE FALSE
    BY <1>1
  <1>2. ASSUME NEW j \in DOMAIN rows, NEW to \in AssignmentStatus, SetStatus(j, to)
        PROVE  FALSE
    BY <1>2, SetStatusEffect
  <1>3. ASSUME NEW r \in Request, ManualCommit(r) PROVE FALSE
    <2>1. Insert(req[r].unit, req[r].stage, req[r].engineer, "MANUAL")
      BY <1>3, AssignCommitsAs
    <2>2. /\ DOMAIN rows' = 1..(Len(rows) + 1)
          /\ rows'[Len(rows) + 1] = [unit |-> req[r].unit, stage |-> req[r].stage,
                                     engineer |-> req[r].engineer,
                                     status |-> "PENDING", by |-> "MANUAL"]
      BY <1>3, <2>1, AssignCommitsAs, InsertEffect
    <2>3. i = Len(rows) + 1
      BY <2>2, RowFacts
    <2> QED BY <2>2, <2>3
  <1>4. ASSUME NEW r \in Request, DeclineCommit(r) PROVE FALSE
    <2>1. "DECLINED" \in AssignmentStatus
      BY DEF AssignmentStatus
    <2> QED BY <1>1, <1>2, <1>4, <2>1, DeclineCommitsAs
  <1>5. ASSUME NEW r \in Request, CompleteCommit(r) PROVE FALSE
    <2>1. "COMPLETED" \in AssignmentStatus
      BY DEF AssignmentStatus
    <2> QED BY <1>1, <1>2, <1>5, <2>1, CompleteCommitsAs
  <1>6. ASSUME NEW j \in DOMAIN rows, Accept(j) PROVE FALSE
    BY <1>2, <1>6 DEF Accept, AssignmentStatus
  <1>7. ASSUME NEW t \in Task, TaskStep(t) \/ TaskDisturbed(t) PROVE AutoCommit(t)
    <2>1. ~AutoCommit(t) => UNCHANGED rows
      BY <1>7 DEF TaskStep, TaskStart, AutoCheck, AutoChoose, AutoCount, TaskRefused,
                  TaskDisturbed
    <2> QED BY <1>1, <2>1
  <1>8. ASSUME NEW r \in Request, RequestStart(r) \/ RequestStep(r) \/ Abort(r) PROVE FALSE
    BY <1>1, <1>3, <1>4, <1>5, <1>8
    DEF RequestStart, RequestStep, ManualLoad, DeclineLoad, CompleteLoad, ManualCount,
        CompleteCount, QueueFollowUp, Abort
  <1>9. PICK t \in Task : AutoCommit(t)
    BY <1>1, <1>6, <1>7, <1>8 DEF Next, StageEntered, DeleteUnit, vars
  <1>10. rows'[i].engineer = task[t].engineer
    <2>1. Insert(task[t].unit, task[t].stage, task[t].engineer, "AUTO")
      BY <1>9, CommitsAs
    <2>2. /\ DOMAIN rows' = 1..(Len(rows) + 1)
          /\ rows'[Len(rows) + 1] = [unit |-> task[t].unit, stage |-> task[t].stage,
                                     engineer |-> task[t].engineer,
                                     status |-> "PENDING", by |-> "AUTO"]
      BY <1>9, <2>1, CommitsAs, InsertEffect
    <2>3. i = Len(rows) + 1
      BY <2>2, RowFacts
    <2> QED BY <2>2, <2>3
  <1> QED BY <1>9, <1>10

\* A task that is not overlapped inserts its row for an engineer that still has
\* room, whatever others did between the search and the commit of earlier ones.
THEOREM AutoRowsRespectCapacity == Spec => AutoRespectsCapacity
  <1>1. Init => (~Overlap => Knowing)
    BY KnowingInit
  <1>2. TInv /\ (~Overlap => Knowing) /\ [Next]_vars =>
            [~Overlap => \A i \in DOMAIN rows' \ DOMAIN rows :
                rows'[i].by = "AUTO" =>
                    Load(rows'[i].engineer) < Capacity[rows'[i].engineer]]_vars
    <2> SUFFICES ASSUME TInv, ~Overlap, Knowing, [Next]_vars,
                        NEW i \in DOMAIN rows' \ DOMAIN rows, rows'[i].by = "AUTO"
                 PROVE  Load(rows'[i].engineer) < Capacity[rows'[i].engineer]
      OBVIOUS
    <2>1. PICK t \in Task : AutoCommit(t) /\ rows'[i].engineer = task[t].engineer
      BY AutoRowsAreCommitted
    <2>2. Load(task[t].engineer) < Capacity[task[t].engineer]
      BY <2>1, KnowingAutoCommit
    <2> QED BY <2>1, <2>2
  <1> QED BY TInvInit, TInvNext, KnowingNext, <1>1, <1>2, PTL DEF Spec, AutoRespectsCapacity


----------------------------------------------------------------------------
(* What a step may do to the tasks, to the requests and to the rows,       *)
(* whichever action it is.                                                 *)

\* A task for the unit and the stage may be queued: the unit entered the stage
\* in this step, or a follow-up was owed.
Queued(entered, u, s) ==
    \/ <<u, s>> \in entered
    \/ \E r \in Request : req[r].pc = "owes_task" /\ req[r].unit = u /\ req[r].stage = s

\* t is queued, or goes on for its unit and stage: it starts only while the
\* stage has no row, and is cleared only while the unit is there.
TaskGoesOn(t) ==
    /\ task[t] # Free
    /\ task'[t].unit = task[t].unit
    /\ task'[t].stage = task[t].stage
    /\ \/ task'[t].pc = "queued"
       \/ task'[t].pc = "checked" /\ RowsOf(task[t].unit, task[t].stage) = {}
       \/ Running(t) /\ task'[t].pc = "cleared" /\ task[t].unit \notin deleted
       \/ task[t].pc \in {"cleared", "chosen"} /\ task'[t].pc \in {"chosen", "counted"}

TaskMoves(entered) ==
    \A t \in Task :
        \/ task'[t] = task[t]
        \/ task'[t] = Free
        \/ TaskGoesOn(t)
        \/ /\ task'[t].pc = "queued"
           /\ task'[t].unit \in Unit
           /\ task'[t].stage \in Stage
           /\ Queued(entered, task'[t].unit, task'[t].stage)

\* A follow-up is for the stage of a row or for the one after it.
Follows(r, i) ==
    /\ req'[r].unit = rows[i].unit
    /\ \/ req'[r].stage = rows[i].stage
       \/ <<rows[i].stage, req'[r].stage>> \in STAGE_TRANSITIONS

RequestMoves ==
    \A r \in Request :
        \/ req'[r] = req[r]
        \/ req'[r].pc \in {"idle", "declining", "completing", "complete_counted"}
        \/ req'[r].pc = "assigning" /\ req'[r].unit \notin deleted
        \/ /\ req[r].pc = "assigning" /\ req'[r].pc = "assign_counted"
           /\ req'[r].unit = req[r].unit
        \/ req'[r].pc = "owes_task" /\ \E i \in DOMAIN rows : Follows(r, i)

\* A new row is the last one, and is the commit of a task or of a request.
RowMoves ==
    /\ \A i \in DOMAIN rows : /\ i \in DOMAIN rows'
                             /\ rows'[i].unit = rows[i].unit
                             /\ rows'[i].stage = rows[i].stage
                             /\ rows'[i].by = rows[i].by
    /\ \A i \in DOMAIN rows' \ DOMAIN rows :
        /\ i = Len(rows) + 1
        /\ \/ /\ rows'[i].by = "AUTO"
              /\ \E t \in Task : /\ task[t].pc = "counted" /\ task'[t] = Free
                                 /\ rows'[i].unit = task[t].unit
                                 /\ rows'[i].stage = task[t].stage
           \/ /\ rows'[i].by = "MANUAL"
              /\ \E r \in Request : /\ req[r].pc = "assign_counted" /\ req'[r] = Idle
                                    /\ rows'[i].unit = req[r].unit

Moves(entered) == TaskMoves(entered) /\ RequestMoves /\ RowMoves

\* The rows stay, or one gets another status.
LEMMA RowsKept ==
    ASSUME TInv,
           \/ UNCHANGED rows
           \/ \E i \in DOMAIN rows, to \in AssignmentStatus : SetStatus(i, to)
    PROVE  RowMoves
  <1>1. CASE UNCHANGED rows
    BY <1>1 DEF RowMoves
  <1>2. ASSUME NEW i \in DOMAIN rows, NEW to \in AssignmentStatus, SetStatus(i, to)
        PROVE  RowMoves
    <2>1. rows[i] \in SiteAssignment
      BY RowFacts
    <2>2. /\ DOMAIN rows' = DOMAIN rows
          /\ rows'[i] = [rows[i] EXCEPT !.status = to]
          /\ \A j \in DOMAIN rows \ {i} : rows'[j] = rows[j]
      BY <1>2, SetStatusEffect
    <2>3. /\ rows'[i].unit = rows[i].unit
          /\ rows'[i].stage = rows[i].stage
          /\ rows'[i].by = rows[i].by
      BY <2>1, <2>2 DEF SiteAssignment
    <2> QED
      BY <2>2, <2>3 DEF RowMoves
  <1> QED
    BY <1>1, <1>2

\* A step of one task that was busy.
LEMMA TaskMovesOn ==
    ASSUME TInv, NEW t \in Task, NEW k \in TaskState, SetTask(t, k),
           UNCHANGED <<rows, req>>,
           task'[t] = k => k = Free \/ TaskGoesOn(t)
    PROVE  Moves({})
  <1>1. task'[t] = k /\ \A x \in Task \ {t} : task'[x] = task[x]
    BY SetTaskEffect
  <1>2. TaskMoves({})
    BY <1>1 DEF TaskMoves
  <1> QED
    BY <1>2, RowsKept DEF Moves, RequestMoves

\* A task that is queued for what it may be queued for.
LEMMA TaskIsQueued ==
    ASSUME TInv, NEW u \in Unit, NEW s \in Stage, NEW entered,
           Delay(u, s), Queued(entered, u, s),
           UNCHANGED rows,
           \A r \in Request : req'[r] = req[r] \/ req'[r] = Idle
    PROVE  Moves(entered)
  <1>1. PICK t \in Task, k \in TaskState :
            /\ k.pc = "queued" /\ k.unit = u /\ k.stage = s
            /\ SetTask(t, k)
    BY DelayEffect
  <1>2. task'[t] = k /\ \A x \in Task \ {t} : task'[x] = task[x]
    BY <1>1, SetTaskEffect
  <1>3. TaskMoves(entered)
    BY <1>1, <1>2 DEF TaskMoves
  <1>4. RequestMoves
    BY DEF RequestMoves, Idle
  <1> QED
    BY <1>3, <1>4, RowsKept DEF Moves

\* A step of one request that inserts no row.
LEMMA RequestMovesOn ==
    ASSUME TInv, NEW r \in Request, NEW k \in RequestState, Become(r, k), UNCHANGED task,
           \/ UNCHANGED rows
           \/ \E i \in DOMAIN rows, to \in AssignmentStatus : SetStatus(i, to),
           req'[r] = k =>
              \/ k.pc \in {"idle", "declining", "completing", "complete_counted"}
              \/ k.pc = "assigning" /\ k.unit \notin deleted
              \/ req[r].pc = "assigning" /\ k.pc = "assign_counted" /\ k.unit = req[r].unit
              \/ k.pc = "owes_task" /\ \E i \in DOMAIN rows : Follows(r, i)
    PROVE  Moves({})
  <1>1. req'[r] = k /\ \A x \in Request \ {r} : req'[x] = req[x]
    BY BecomeEffect
  <1>2. RequestMoves
    BY <1>1 DEF RequestMoves
  <1> QED
    BY <1>2, RowsKept DEF Moves, TaskMoves

LEMMA TaskStepMoves ==
    ASSUME TInv, NEW t \in Task, TaskStep(t) \/ TaskDisturbed(t)
    PROVE  Moves({})
  <1>1. CASE TaskStart(t)
    <2>1. UNCHANGED <<rows, req>>
      BY <1>1 DEF TaskStart
    <2> QED
      BY <1>1, <2>1, StartsAs, TaskMovesOn DEF TaskGoesOn
  <1>2. CASE AutoCheck(t)
    <2>1. UNCHANGED <<rows, req>>
      BY <1>2 DEF AutoCheck
    <2> QED
      BY <1>2, <2>1, ChecksAs, TaskMovesOn DEF TaskGoesOn, Running
  <1>3. CASE AutoChoose(t)
    <2>1. UNCHANGED <<rows, req>>
      BY <1>3 DEF AutoChoose
    <2> QED
      BY <1>3, <2>1, ChoosesAs, TaskMovesOn DEF TaskGoesOn
  <1>4. CASE AutoCount(t)
    <2>1. UNCHANGED <<rows, req>>
      BY <1>4 DEF AutoCount
    <2> QED
      BY <1>4, <2>1, CountsAs, TaskMovesOn DEF TaskGoesOn
  <1>5. CASE TaskRefused(t) \/ TaskDisturbed(t)
    <2>1. PICK k \in TaskState :
              /\ k.pc \in {"free", "queued"}
              /\ k # Free => k.unit = task[t].unit /\ k.stage = task[t].stage
              /\ SetTask(t, k)
      BY <1>5, DropsAs
    <2>2. UNCHANGED <<rows, req>> /\ task[t] # Free
      BY <1>5, DropsAs
    <2>3. k.pc = "free" => k = Free
      BY TaskByPc
    <2> QED
      BY <2>1, <2>2, <2>3, TaskMovesOn DEF TaskGoesOn
  <1>6. CASE AutoCommit(t)
    <2>1. task'[t] = Free /\ \A x \in Task \ {t} : task'[x] = task[x]
      BY <1>6, CommitsAs, SetTaskEffect
    <2>2. /\ DOMAIN rows' = 1..(Len(rows) + 1)
          /\ \A i \in DOMAIN rows : rows'[i] = rows[i]
          /\ rows'[Len(rows) + 1] = [unit |-> task[t].unit, stage |-> task[t].stage,
                                     engineer |-> task[t].engineer,
                                     status |-> "PENDING", by |-> "AUTO"]
      BY <1>6, CommitsAs, InsertEffect
    <2>3. RowMoves
      BY <1>6, <2>1, <2>2, CommitsAs, RowFacts DEF RowMoves
    <2>4. UNCHANGED req
      BY <1>6 DEF AutoCommit
    <2> QED
      BY <2>1, <2>3, <2>4 DEF Moves, TaskMoves, RequestMoves
  <1> QED
    BY <1>1, <1>2, <1>3, <1>4, <1>5, <1>6 DEF TaskStep

LEMMA RequestStepMoves ==
    ASSUME TInv, NEW r \in Request, RequestStart(r) \/ RequestStep(r) \/ Abort(r)
    PROVE  Moves({})
  <1>1. ASSUME NEW u \in Unit, NEW s \in InPlay, NEW e \in Engineer, ManualLoad(r, u, s, e)
        PROVE  Moves({})
    <2>1. UNCHANGED <<rows, task>>
      BY <1>1 DEF ManualLoad
    <2> QED
      BY <1>1, <2>1, AssignsAs, RequestMovesOn
  <1>2. ASSUME NEW i \in DOMAIN rows, DeclineLoad(r, i) PROVE Moves({})
    <2>1. UNCHANGED <<rows, task>>
      BY <1>2 DEF DeclineLoad
    <2> QED
      BY <1>2, <2>1, DeclinesAs, RequestMovesOn
  <1>3. ASSUME NEW i \in DOMAIN rows, CompleteLoad(r, i) PROVE Moves({})
    <2>1. UNCHANGED <<rows, task>>
      BY <1>3 DEF CompleteLoad
    <2> QED
      BY <1>3, <2>1, CompletesAs, RequestMovesOn
  <1>4. CASE ManualCount(r)
    <2>1. UNCHANGED <<rows, task>>
      BY <1>4 DEF ManualCount
    <2> QED
      BY <1>4, <2>1, AssignCountsAs, RequestMovesOn
  <1>5. CASE CompleteCount(r)
    <2>1. UNCHANGED <<rows, task>>
      BY <1>5 DEF CompleteCount
    <2> QED
      BY <1>5, <2>1, CompleteCountsAs, RequestMovesOn
  <1>6. CASE DeclineCommit(r)
    <2>1. UNCHANGED task /\ "DECLINED" \in AssignmentStatus
      BY <1>6 DEF DeclineCommit, AssignmentStatus
    <2>2. PICK k \in RequestState :
              /\ k.pc = "owes_task"
              /\ k.unit = rows[req[r].row].unit
              /\ k.stage = rows[req[r].row].stage
              /\ Become(r, k)
      BY <1>6, DeclineCommitsAs
    <2>3. /\ req[r].row \in DOMAIN rows
          /\ SetStatus(req[r].row, "DECLINED") \/ UNCHANGED rows
      BY <1>6, DeclineCommitsAs
    <2>4. req'[r] = k => Follows(r, req[r].row)
      BY <2>2 DEF Follows
    <2> QED
      BY <2>1, <2>2, <2>3, <2>4, RequestMovesOn
  <1>7. CASE CompleteCommit(r)
    <2>1. UNCHANGED task /\ "COMPLETED" \in AssignmentStatus
      BY <1>7 DEF CompleteCommit, AssignmentStatus
    <2>2. PICK k \in RequestState :
              /\ \/ k = Idle /\ k.pc = "idle"
                 \/ /\ k.pc = "owes_task"
                    /\ k.unit = rows[req[r].row].unit
                    /\ <<rows[req[r].row].stage, k.stage>> \in STAGE_TRANSITIONS
              /\ Become(r, k)
      BY <1>7, CompleteCommitsAs
    <2>3. /\ req[r].row \in DOMAIN rows
          /\ SetStatus(req[r].row, "COMPLETED") \/ UNCHANGED rows
      BY <1>7, CompleteCommitsAs
    <2>4. req'[r] = k => \/ k.pc = "idle"
                         \/ k.pc = "owes_task" /\ Follows(r, req[r].row)
      BY <2>2 DEF Follows
    <2> QED
      BY <2>1, <2>2, <2>3, <2>4, RequestMovesOn
  <1>8. CASE ManualCommit(r)
    <2>1. req'[r] = Idle /\ \A x \in Request \ {r} : req'[x] = req[x]
      BY <1>8, AssignCommitsAs, BecomeEffect
    <2>2. /\ DOMAIN rows' = 1..(Len(rows) + 1)
          /\ \A i \in DOMAIN rows : rows'[i] = rows[i]
          /\ rows'[Len(rows) + 1] = [unit |-> req[r].unit, stage |-> req[r].stage,
                                     engineer |-> req[r].engineer,
                                     status |-> "PENDING", by |-> "MANUAL"]
      BY <1>8, AssignCommitsAs, InsertEffect
    <2>3. RowMoves
      BY <1>8, <2>1, <2>2, AssignCommitsAs, RowFacts DEF RowMoves
    <2>4. RequestMoves
      BY <2>1 DEF RequestMoves, Idle
    <2>5. UNCHANGED task
      BY <1>8 DEF ManualCommit
    <2> QED
      BY <2>3, <2>4, <2>5 DEF Moves, TaskMoves
  <1>9. CASE QueueFollowUp(r)
    <2>1. req[r].pc = "owes_task" /\ req[r] \in RequestState
      BY <1>9 DEF QueueFollowUp, TInv, TypeOK
    <2>2. req[r].unit \in Unit /\ req[r].stage \in Stage
      BY <2>1, RequestByPc
    <2>3. Delay(req[r].unit, req[r].stage) /\ UNCHANGED rows /\ Become(r, Idle)
      BY <1>9 DEF QueueFollowUp
    <2>4. \A x \in Request : req'[x] = req[x] \/ req'[x] = Idle
      BY <2>3 DEF Become, TInv, TypeOK
    <2>5. Queued({}, req[r].unit, req[r].stage)
      BY <2>1 DEF Queued
    <2> QED
      BY <2>2, <2>3, <2>4, <2>5, TaskIsQueued
  <1>10. CASE Abort(r)
    <2>1. Idle \in RequestState /\ Idle.pc = "idle"
      BY DEF RequestState, Idle
    <2>2. UNCHANGED <<rows, task>> /\ Become(r, Idle)
      BY <1>10 DEF Abort
    <2> QED
      BY <2>1, <2>2, RequestMovesOn
  <1> QED
    BY <1>1, <1>2, <1>3, <1>4, <1>5, <1>6, <1>7, <1>8, <1>9, <1>10
    DEF RequestStart, RequestStep

\* A stage that is entered lets a task for it be queued, every other step lets
\* nothing be queued but a follow-up.
LEMMA StageEnteredMoves ==
    ASSUME TInv, NEW u \in Unit, NEW s \in InPlay, StageEntered(u, s)
    PROVE  Moves({<<u, s>>})
  <1>1. s \in Stage
    BY InPlayType DEF TInv
  <1>2. Delay(u, s) /\ UNCHANGED <<rows, req>>
    BY DEF StageEntered
  <1> QED
    BY <1>1, <1>2, TaskIsQueued DEF Queued

LEMMA OtherStepMoves ==
    ASSUME TInv,
           \/ UNCHANGED <<rows, task, req>>
           \/ \E u \in Unit : DeleteUnit(u)
           \/ \E t \in Task : TaskStep(t) \/ TaskDisturbed(t)
           \/ \E i \in DOMAIN rows : Accept(i)
           \/ \E r \in Request : RequestStart(r) \/ RequestStep(r) \/ Abort(r)
    PROVE  Moves({})
  <1>1. CASE UNCHANGED <<rows, task, req>>
    BY <1>1, RowsKept DEF Moves, TaskMoves, RequestMoves
  <1>2. ASSUME NEW i \in DOMAIN rows, Accept(i) PROVE Moves({})
    BY <1>2, RowsKept DEF Accept, AssignmentStatus, Moves, TaskMoves, RequestMoves
  <1> QED
    BY <1>1, <1>2, TaskStepMoves, RequestStepMoves DEF DeleteUnit

LEMMA EveryStepMoves == TInv /\ [Next]_vars => \E entered : Moves(entered)
  BY StageEnteredMoves, OtherStepMoves DEF Next, vars

----------------------------------------------------------------------------
(* Deleted units.                                                          *)

\* After the deletion of a unit no task is cleared for it and no assignment of
\* it begins, and each row that still comes uses up one of those under way.
THEOREM DeletedUnitsComeToRest == Spec => DeletedUnitsRest
  <1> DEFINE Rests ==
        \A u \in deleted :
            /\ DecidingTasks(u)' \subseteq DecidingTasks(u)
            /\ AssigningRequests(u)' \subseteq AssigningRequests(u)
            /\ (\E i \in DOMAIN rows' \ DOMAIN rows : rows'[i].unit = u) =>
                   <<DecidingTasks(u), AssigningRequests(u)>>'
                       # <<DecidingTasks(u), AssigningRequests(u)>>
  <1>1. TInv /\ [Next]_vars => Rests
    <2> SUFFICES ASSUME TInv, [Next]_vars, NEW u \in deleted
                 PROVE  /\ DecidingTasks(u)' \subseteq DecidingTasks(u)
                        /\ AssigningRequests(u)' \subseteq AssigningRequests(u)
                        /\ (\E i \in DOMAIN rows' \ DOMAIN rows : rows'[i].unit = u) =>
                               <<DecidingTasks(u), AssigningRequests(u)>>'
                                   # <<DecidingTasks(u), AssigningRequests(u)>>
      OBVIOUS
    <2>1. PICK entered : Moves(entered)
      BY EveryStepMoves
    <2>2. DecidingTasks(u)' \subseteq DecidingTasks(u)
      BY <2>1 DEF Moves, TaskMoves, TaskGoesOn, DecidingTasks, Free
    <2>3. AssigningRequests(u)' \subseteq AssigningRequests(u)
      BY <2>1 DEF Moves, RequestMoves, AssigningRequests
    <2>4. ASSUME NEW i \in DOMAIN rows' \ DOMAIN rows, rows'[i].unit = u
          PROVE  \/ DecidingTasks(u)' # DecidingTasks(u)
                 \/ AssigningRequests(u)' # AssigningRequests(u)
      <3>1. \/ \E t \in Task : /\ task[t].pc = "counted" /\ task'[t] = Free
                              /\ task[t].unit = u
            \/ \E r \in Request : /\ req[r].pc = "assign_counted" /\ req'[r] = Idle
                                 /\ req[r].unit = u
        BY <2>1, <2>4 DEF Moves, RowMoves
      <3>2. ASSUME NEW t \in Task, task[t].pc = "counted", task'[t] = Free, task[t].unit = u
            PROVE  t \in DecidingTasks(u) \ DecidingTasks(u)'
        BY <3>2 DEF DecidingTasks, Free
      <3>3. ASSUME NEW r \in Request, req[r].pc = "assign_counted", req'[r] = Idle,
                   req[r].unit = u
            PROVE  r \in AssigningRequests(u) \ AssigningRequests(u)'
        BY <3>3 DEF AssigningRequests, Idle
      <3> QED
        BY <3>1, <3>2, <3>3
    <2> QED
      BY <2>2, <2>3, <2>4
  <1>2. TInv /\ [Next]_vars => [Rests]_vars
    BY <1>1
  <1> QED
    BY TInvInit, TInvNext, <1>2, PTL DEF Spec, DeletedUnitsRest

----------------------------------------------------------------------------
(* What calls for an engineer.                                             *)

\* One of these entries, or one of the first rows of the unit for the stage
\* before.
CalledBy(called, u, s, before) ==
    \/ <<u, s>> \in called
    \/ \E j \in 1..before : rows[j].unit = u /\ <<rows[j].stage, s>> \in STAGE_TRANSITIONS

\* Whatever is queued, running, owed or assigned by the workers was called for;
\* a task that was not called for is queued again for a stage that has a row,
\* and will not start.
Calls(called) ==
    /\ \A t \in Task : task[t] # Free =>
           \/ CalledBy(called, task[t].unit, task[t].stage, Len(rows))
           \/ task[t].pc = "queued" /\ RowsOf(task[t].unit, task[t].stage) # {}
    /\ \A r \in Request : req[r].pc = "owes_task" =>
           \/ CalledBy(called, req[r].unit, req[r].stage, Len(rows))
           \/ RowsOf(req[r].unit, req[r].stage) # {}
    /\ \A i \in DOMAIN rows : rows[i].by = "AUTO" =>
           CalledBy(called, rows[i].unit, rows[i].stage, i - 1)

LEMMA CallsInit == ASSUME NEW called, Init PROVE Calls(called)
  BY DEF Init, Calls, Free, Idle

\* What was called for stays called for.
LEMMA CalledStays ==
    ASSUME TInv, TInv', RowMoves, NEW called, NEW more, called \subseteq more,
           NEW u, NEW s, NEW before \in 0..Len(rows), CalledBy(called, u, s, before)
    PROVE  /\ CalledBy(more, u, s, before)'
           /\ CalledBy(more, u, s, Len(rows))'
  <1>1. DOMAIN rows = 1..Len(rows) /\ Len(rows) \in Nat
        /\ DOMAIN rows' = 1..Len(rows') /\ Len(rows') \in Nat
    BY RowFacts DEF TInv, TypeOK
  <1>2. Len(rows) <= Len(rows')
    BY <1>1 DEF RowMoves
  <1>3. \A j \in 1..before : /\ j \in 1..Len(rows')
                           /\ rows'[j].unit = rows[j].unit
                           /\ rows'[j].stage = rows[j].stage
    BY <1>1, <1>2 DEF RowMoves
  <1> QED
    BY <1>3 DEF CalledBy

LEMMA CallsStep ==
    ASSUME TInv, TInv', NEW called, NEW entered, NEW more, Moves(entered), Calls(called),
           called \cup entered \subseteq more
    PROVE  Calls(more)'
  <1>1. /\ DOMAIN rows = 1..Len(rows) /\ Len(rows) \in Nat
        /\ DOMAIN rows' = 1..Len(rows') /\ Len(rows') \in Nat
    BY RowFacts DEF TInv, TypeOK
  <1>2. \A u, s : RowsOf(u, s) # {} => RowsOf(u, s)' # {}
    BY DEF Moves, RowMoves, RowsOf
  <1>3. \A u, s : CalledBy(called, u, s, Len(rows)) => CalledBy(more, u, s, Len(rows))'
    BY <1>1, CalledStays DEF Moves
  <1>4. ASSUME NEW t \in Task, task'[t] # Free
        PROVE  \/ CalledBy(more, task[t].unit, task[t].stage, Len(rows))'
               \/ task'[t].pc = "queued" /\ RowsOf(task[t].unit, task[t].stage)' # {}
    <2>1. CASE task'[t] = task[t]
      BY <1>2, <1>3, <1>4, <2>1 DEF Calls
    <2>2. CASE TaskGoesOn(t)
      <3>1. /\ task[t] # Free
            /\ task'[t].unit = task[t].unit /\ task'[t].stage = task[t].stage
            /\ \/ task'[t].pc = "queued"
               \/ task[t].pc # "queued"
               \/ RowsOf(task[t].unit, task[t].stage) = {}
        BY <2>2 DEF TaskGoesOn, Running
      <3>2. \/ CalledBy(called, task[t].unit, task[t].stage, Len(rows))
            \/ task[t].pc = "queued" /\ RowsOf(task[t].unit, task[t].stage) # {}
        BY <3>1 DEF Calls
      <3>3. PICK u, s : u = task[t].unit /\ s = task[t].stage
        OBVIOUS
      <3>4. \/ CalledBy(more, u, s, Len(rows))'
            \/ task'[t].pc = "queued" /\ RowsOf(u, s)' # {}
        <4>1. CASE CalledBy(called, task[t].unit, task[t].stage, Len(rows))
          BY <1>3, <3>3, <4>1
        <4>2. CASE task[t].pc = "queued" /\ RowsOf(task[t].unit, task[t].stage) # {}
          BY <1>2, <3>1, <3>3, <4>2
        <4> QED
          BY <3>2, <4>1, <4>2
      <3> QED
        BY <3>1, <3>3, <3>4 DEF CalledBy, RowsOf
    <2>3. CASE task'[t].pc = "queued" /\ Queued(entered, task'[t].unit, task'[t].stage)
      <3>1. PICK u, s : u = task'[t].unit /\ s = task'[t].stage
        OBVIOUS
      <3>2. \/ <<u, s>> \in entered
            \/ \E r \in Request : /\ req[r].pc = "owes_task"
                                /\ req[r].unit = u
                                /\ req[r].stage = s
        BY <2>3, <3>1 DEF Queued
      <3>3. CalledBy(more, u, s, Len(rows))' \/ RowsOf(u, s)' # {}
        <4>1. CASE <<u, s>> \in entered
          BY <4>1 DEF CalledBy
        <4>2. ASSUME NEW r \in Request, req[r].pc = "owes_task",
                     req[r].unit = u, req[r].stage = s
              PROVE  CalledBy(more, u, s, Len(rows))' \/ RowsOf(u, s)' # {}
          <5>1. CalledBy(called, u, s, Len(rows)) \/ RowsOf(u, s) # {}
            BY <4>2 DEF Calls
          <5> QED
            BY <1>2, <1>3, <5>1
        <4> QED
          BY <3>2, <4>1, <4>2
      <3> QED
        BY <2>3, <3>1, <3>3 DEF CalledBy, RowsOf
    <2> QED
      BY <1>4, <2>1, <2>2, <2>3 DEF Moves, TaskMoves
  <1>5. ASSUME NEW r \in Request, req'[r].pc = "owes_task"
        PROVE  \/ CalledBy(more, req[r].unit, req[r].stage, Len(rows))'
               \/ RowsOf(req[r].unit, req[r].stage)' # {}
    <2>1. CASE req'[r] = req[r]
      BY <1>2, <1>3, <1>5, <2>1 DEF Calls
    <2>2. ASSUME NEW i \in DOMAIN rows, Follows(r, i)
          PROVE  \/ CalledBy(more, req[r].unit, req[r].stage, Len(rows))'
                 \/ RowsOf(req[r].unit, req[r].stage)' # {}
      <3>1. i \in DOMAIN rows' /\ rows'[i].unit = rows[i].unit /\ rows'[i].stage = rows[i].stage
        BY DEF Moves, RowMoves
      <3> QED
        BY <1>1, <2>2, <3>1 DEF Follows, CalledBy, RowsOf
    <2> QED
      BY <1>5, <2>1, <2>2 DEF Moves, RequestMoves
  <1>6. ASSUME NEW i \in DOMAIN rows', rows'[i].by = "AUTO"
        PROVE  CalledBy(more, rows[i].unit, rows[i].stage, i - 1)'
    <2>1. CASE i \in DOMAIN rows
      <3>1. CalledBy(called, rows[i].unit, rows[i].stage, i - 1) /\ i - 1 \in 0..Len(rows)
        BY <1>1, <1>6, <2>1 DEF Calls, Moves, RowMoves
      <3>2. rows'[i].unit = rows[i].unit /\ rows'[i].stage = rows[i].stage
        BY <2>1 DEF Moves, RowMoves
      <3> QED
        BY <3>1, <3>2, CalledStays DEF Moves
    <2>2. CASE i \notin DOMAIN rows
      <3>1. /\ i = Len(rows) + 1
            /\ \E t \in Task : /\ task[t].pc = "counted"
                              /\ rows'[i].unit = task[t].unit
                              /\ rows'[i].stage = task[t].stage
        BY <1>6, <2>2 DEF Moves, RowMoves
      <3>2. PICK t \in Task : /\ task[t].pc = "counted"
                            /\ rows'[i].unit = task[t].unit
                            /\ rows'[i].stage = task[t].stage
        BY <3>1
      <3>3. CalledBy(called, task[t].unit, task[t].stage, Len(rows))
        BY <3>2 DEF Calls, Free
      <3>4. i - 1 = Len(rows) /\ i - 1 \in 0..Len(rows)
        BY <1>1, <3>1
      <3> QED
        BY <1>1, <3>2, <3>3, <3>4, CalledStays DEF Moves
    <2> QED
      BY <2>1, <2>2
  <1> QED
    BY <1>4, <1>5, <1>6 DEF Calls

=============================================================================
