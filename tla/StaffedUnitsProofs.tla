------------------------ MODULE StaffedUnitsProofs ------------------------
(***************************************************************************)
(* Proofs about StaffedUnits for every set of units, shipments, engineers, *)
(* tasks, requests and inputs: the composition implements either component *)
(* and what each component is proved to keep holds of it, so that the rows *)
(* the workers write can be traced back to the history of their units.     *)
(***************************************************************************)
EXTENDS StaffedUnits, BessLifecycleProofs

\* The theorems about the assignments, for this composition.
CrewP == INSTANCE EngineerAssignmentProofs WITH Request <- CrewRequest, req <- work

----------------------------------------------------------------------------
(* The composition implements the life of the units: the steps of the      *)
(* tasks and of the assignments do not change it.                          *)

LEMMA StaffedIsLife == [StaffedNext]_staffedVars => [Next]_vars
  <1> SUFFICES ASSUME [StaffedNext]_staffedVars PROVE [Next]_vars
    OBVIOUS
  <1>1. ASSUME NEW r \in Request, CallEngineer(r) PROVE Next
    BY <1>1 DEF CallEngineer, Next, RequestStep
  <1>2. ASSUME NEW u \in Unit, RemoveUnit(u) PROVE Next
    BY <1>2 DEF RemoveUnit, Next, UnitStep
  <1>3. CASE LifeStep
    BY <1>3 DEF LifeStep
  <1>4. CASE CrewStep \/ UNCHANGED staffedVars
    BY <1>4 DEF CrewStep, staffedVars, lifeVars, vars
  <1> QED
    BY <1>1, <1>2, <1>3, <1>4 DEF StaffedNext

\* Every behaviour of the composition is one of BessLifecycle: the gates of
\* transition_stage, the trail of the units and all that is proved of them hold
\* while engineers are sent out.
THEOREM StaffedUnitsLive == StaffedSpec => Spec
  <1>1. StaffedInit => Init
    BY DEF StaffedInit
  <1> QED
    BY <1>1, StaffedIsLife, PTL DEF StaffedSpec, Spec

----------------------------------------------------------------------------
(* What a transition in flight was asked for.                              *)

\* to_stage of a transition is one that users ask for.
AskedFor(x) ==
    x.pc \in {"loaded", "certified", "checked", "documented", "transitioned"}
        => x.to \in TransitionTargets

Asked == \A r \in Request : AskedFor(req[r])

LEMMA AskedInit == Init => Asked
  BY DEF Init, Asked, AskedFor, Idle

\* A handler that begins a transition has the input of its user.
LEMMA AskedStart ==
    ASSUME NEW r \in Request, RequestStart(r)
    PROVE  \E x : Become(r, x) /\ AskedFor(x)
  <1>1. ASSUME NEW u \in Unit, NEW to \in TransitionTargets, TransitionLoad(r, u, to)
        PROVE  \E x : Become(r, x) /\ AskedFor(x)
    BY <1>1 DEF TransitionLoad, AskedFor
  <1>2. ASSUME NEW s \in Shipment, NEW group \in SUBSET Unit, AssignLoad(r, s, group)
        PROVE  \E x : Become(r, x) /\ AskedFor(x)
    BY <1>2 DEF AssignLoad, AskedFor
  <1>3. ASSUME NEW s \in Shipment, NEW to \in StatusInputs, StatusLoad(r, s, to)
        PROVE  \E x : Become(r, x) /\ AskedFor(x)
    BY <1>3 DEF StatusLoad, AskedFor
  <1>4. ASSUME NEW s \in Shipment, NEW p \in PlaceInputs, PlaceLoad(r, s, p)
        PROVE  \E x : Become(r, x) /\ AskedFor(x)
    BY <1>4 DEF PlaceLoad, AskedFor
  <1> QED
    BY <1>1, <1>2, <1>3, <1>4 DEF RequestStart

\* No later step of the handler changes it.
LEMMA AskedLater ==
    ASSUME TypeOK, Asked, NEW r \in Request, RequestStep(r)
    PROVE  \E x : Become(r, x) /\ AskedFor(x)
  <1>1. AskedFor(Idle) /\ AskedFor(req[r]) /\ req[r] \in RequestState
    BY DEF Asked, AskedFor, Idle, TypeOK
  <1>2. ASSUME NEW pc, Step(r, pc),
               req[r].pc \in {"loaded", "certified", "checked", "documented"}
        PROVE  \E x : Become(r, x) /\ AskedFor(x)
    <2>1. [req[r] EXCEPT !.pc = pc].to = req[r].to
      BY <1>1, <1>2, RequestByPc DEF TransitionRequest
    <2>2. AskedFor([req[r] EXCEPT !.pc = pc])
      BY <1>1, <1>2, <2>1 DEF AskedFor
    <2> QED
      BY <1>2, <2>2 DEF Step, Become
  <1>3. CASE TransitionCommit(r)
    <2>1. Step(r, "transitioned") \/ Become(r, Idle)
      BY <1>3 DEF TransitionCommit
    <2>2. req[r].pc \in {"checked", "documented"}
      BY <1>3 DEF TransitionCommit, ReadyToCommit
    <2> QED
      BY <1>1, <1>2, <2>1, <2>2
  <1>4. ASSUME NEW u \in Unit, AssignReread(r, u)
        PROVE  \E x : Become(r, x) /\ AskedFor(x)
    <2>1. PICK rewrite : Become(r, [req[r] EXCEPT !.rewrite = rewrite])
      BY <1>4 DEF AssignReread
    <2>2. req[r].pc = "assigning" /\ req[r] \in AssignRequest
      BY <1>1, <1>4, RequestByPc DEF AssignReread
    <2>3. [req[r] EXCEPT !.rewrite = rewrite].pc = "assigning"
      BY <2>2 DEF AssignRequest
    <2> QED
      BY <2>1, <2>3 DEF AskedFor
  <1>5. CASE StatusFlush(r)
    <2>1. PICK rewrite : Become(r, [req[r] EXCEPT !.pc = "status_flushed",
                                                  !.rewrite = rewrite])
      BY <1>5 DEF StatusFlush
    <2>2. req[r].pc = "status_read" /\ req[r] \in StatusRequest
      BY <1>1, <1>5, RequestByPc DEF StatusFlush
    <2>3. [req[r] EXCEPT !.pc = "status_flushed", !.rewrite = rewrite].pc = "status_flushed"
      BY <2>2 DEF StatusRequest
    <2> QED
      BY <2>1, <2>3 DEF AskedFor
  <1>6. \/ \E pc : Step(r, pc) /\ req[r].pc \in {"loaded", "certified", "checked"}
        \/ Become(r, Idle)
        \/ TransitionCommit(r)
        \/ \E u \in Unit : AssignReread(r, u)
        \/ StatusFlush(r)
    BY DEF RequestStep, TransitionCertificateGate, TransitionChecklistGate,
           TransitionHandoverGate, QueueEngineerTask, AssignCommit, StatusCommit,
           PlaceCommit, Fail
  <1> QED
    BY <1>1, <1>2, <1>3, <1>4, <1>5, <1>6

LEMMA AskedStep == TypeOK /\ Asked /\ [Next]_vars => Asked'
  <1> SUFFICES ASSUME TypeOK, Asked, [Next]_vars PROVE Asked'
    OBVIOUS
  <1>1. req \in [Request -> RequestState]
    BY DEF TypeOK
  <1>2. ASSUME UNCHANGED req PROVE Asked'
    BY <1>2 DEF Asked, AskedFor
  <1>3. ASSUME NEW r \in Request, NEW x, Become(r, x), AskedFor(x) PROVE Asked'
    BY <1>1, <1>3 DEF Become, Asked, AskedFor
  <1>4. ASSUME NEW r \in Request, RequestStart(r) \/ RequestStep(r) PROVE Asked'
    BY <1>3, <1>4, AskedStart, AskedLater
  <1> QED
    BY <1>2, <1>4 DEF Next, vars, UnitStep, ShipmentStep, CreateUnit, UpdateUnit,
        DeleteUnit, AddCertificate, UpdateChecklist, CreateShipment, UploadDocument

----------------------------------------------------------------------------
(* The composition implements the assignments: a transition calls engineers *)
(* to a site stage that is followed, as the workers expect.                *)

\* The assumptions on the constants, for the theorems about the assignments.
LEMMA CrewAssumed == CrewP!AssignmentAssumption
  BY StaffingAssumption
     DEF Crew!AssignmentAssumption, CrewP!AssignmentAssumption, Crew!SITE_STAGES,
         CrewP!SITE_STAGES, Crew!Stage, CrewP!Stage, Crew!IsFiniteSet, CrewP!IsFiniteSet

\* What a step of the tasks or of the assignments may be.
CrewActs ==
    \/ \E u \in Unit, s \in Crew!InPlay \cap Crew!SITE_STAGES : Crew!StageEntered(u, s)
    \/ \E u \in Unit : Crew!DeleteUnit(u)
    \/ \E t \in Task : Crew!TaskStep(t) \/ Crew!TaskDisturbed(t)
    \/ \E i \in DOMAIN rows : Crew!Accept(i)
    \/ \E c \in CrewRequest : Crew!RequestStart(c) \/ Crew!RequestStep(c) \/ Crew!Abort(c)

\* A handler queues its task for a site stage that is followed and that the
\* unit has entered.
LEMMA CalledFrom ==
    ASSUME IInv, Asked, mode \in Modes, NEW r \in Request, CallEngineer(r)
    PROVE  /\ req[r].unit \in Unit
           /\ req[r].to \in Crew!InPlay \cap SITE_STAGES
           /\ Entered(req[r].unit, req[r].to)
  <1>1. req[r].pc = "transitioned" /\ req[r] \in RequestState
    BY DEF CallEngineer, QueueEngineerTask, IInv, TypeOK
  <1>2. req[r] \in TransitionRequest
    BY <1>1, RequestByPc
  <1>3. /\ req[r].unit \in Unit
        /\ req[r].to \in SITE_STAGES
        /\ Entered(req[r].unit, req[r].to)
    BY <1>1, <1>2 DEF IInv, InFlight, RequestSound, TransitionSound, TransitionRequest
  <1>4. req[r].to \in TransitionTargets
    BY <1>1 DEF Asked, AskedFor
  <1> QED
    BY <1>3, <1>4, StaffingAssumption DEF Crew!InPlay

LEMMA StaffedIsCrew ==
    IInv /\ Asked /\ mode \in Modes /\ [StaffedNext]_staffedVars
        => CrewActs \/ UNCHANGED Crew!vars
  <1> SUFFICES ASSUME IInv, Asked, mode \in Modes, [StaffedNext]_staffedVars
               PROVE  CrewActs \/ UNCHANGED Crew!vars
    OBVIOUS
  <1>1. ASSUME NEW r \in Request, CallEngineer(r) PROVE CrewActs
    BY <1>1, CalledFrom DEF CallEngineer, CrewActs, Crew!SITE_STAGES, SITE_STAGES
  <1>2. ASSUME NEW u \in Unit, RemoveUnit(u) PROVE CrewActs
    BY <1>2 DEF RemoveUnit, CrewActs
  <1>3. CASE LifeStep \/ UNCHANGED staffedVars
    BY <1>3 DEF LifeStep, crewVars, staffedVars, lifeVars, unitVars, Crew!vars
  <1>4. CASE CrewStep
    BY <1>4 DEF CrewStep, CrewActs
  <1> QED
    BY <1>1, <1>2, <1>3, <1>4 DEF StaffedNext

\* No step changes the conditions.
LEMMA ModeStays ==
    mode \in Modes /\ (CrewActs \/ UNCHANGED Crew!vars) => mode' \in Modes
  BY DEF CrewActs, Crew!StageEntered, Crew!DeleteUnit, Crew!TaskStep,
         Crew!TaskStart, Crew!AutoCheck, Crew!AutoChoose, Crew!AutoCount,
         Crew!AutoCommit, Crew!TaskRefused, Crew!TaskDisturbed, Crew!Accept,
         Crew!RequestStart, Crew!ManualLoad, Crew!DeclineLoad,
         Crew!CompleteLoad, Crew!RequestStep, Crew!ManualCount,
         Crew!ManualCommit, Crew!DeclineCommit, Crew!CompleteCount,
         Crew!CompleteCommit, Crew!QueueFollowUp, Crew!Abort, Crew!vars

StaffedInv == IInv /\ Asked /\ mode \in Modes

LEMMA StaffedInvHolds == StaffedSpec => []StaffedInv
  <1>1. StaffedInit => StaffedInv
    BY InvInit, AskedInit DEF StaffedInit, StaffedInv, Crew!Init
  <1>2. StaffedInv /\ [StaffedNext]_staffedVars => StaffedInv'
    BY InvStep, AskedStep, StaffedIsLife, StaffedIsCrew, ModeStays DEF StaffedInv, IInv
  <1> QED
    BY <1>1, <1>2, PTL DEF StaffedSpec

\* Every behaviour of the composition is one of EngineerAssignment: the
\* environment that module leaves open, which enters stages and deletes units
\* at any time, is the life of the units.
THEOREM StaffedUnitsAssign == StaffedSpec => WorkersAreServed
  <1>1. StaffedInit => Crew!Init
    BY DEF StaffedInit
  <1>2. StaffedInv /\ [StaffedNext]_staffedVars => [Crew!Next]_(Crew!vars)
    BY StaffedIsCrew DEF StaffedInv, CrewActs, Crew!Next
  <1> QED
    BY <1>1, <1>2, StaffedInvHolds, PTL DEF StaffedSpec, WorkersAreServed, Crew!Spec

----------------------------------------------------------------------------
(* Crew and CrewP read alike: either is the same module over the same      *)
(* state, and their definitions unfold to the same formulas.               *)

LEMMA SameInit == Crew!Init <=> CrewP!Init
  BY Zenon DEF Crew!Free, CrewP!Free, Crew!Idle, CrewP!Idle, Crew!Init,
               CrewP!Init, Crew!CreatedAvailable, CrewP!CreatedAvailable

LEMMA SameStageEntered == \A u, s : Crew!StageEntered(u, s) <=> CrewP!StageEntered(u, s)
  BY Zenon DEF Crew!Free, CrewP!Free, Crew!Idle, CrewP!Idle, Crew!Room,
               CrewP!Room, Crew!SetTask, CrewP!SetTask, Crew!Delay,
               CrewP!Delay, Crew!StageEntered, CrewP!StageEntered,
               Crew!Cardinality, CrewP!Cardinality, Crew!IsFiniteSet,
               CrewP!IsFiniteSet

LEMMA SameDeleteUnit == \A u : Crew!DeleteUnit(u) <=> CrewP!DeleteUnit(u)
  BY Zenon DEF Crew!DeleteUnit, CrewP!DeleteUnit

LEMMA SameTaskStep == \A t : Crew!TaskStep(t) <=> CrewP!TaskStep(t)
  BY Zenon DEF Crew!Overlap, CrewP!Overlap, Crew!ACTIVE_ASSIGNMENT_STATUSES,
               CrewP!ACTIVE_ASSIGNMENT_STATUSES, Crew!STAGE_TO_SPECIALIZATION,
               CrewP!STAGE_TO_SPECIALIZATION, Crew!Free, CrewP!Free,
               Crew!Idle, CrewP!Idle, Crew!RowsOf, CrewP!RowsOf,
               Crew!ExistingIn, CrewP!ExistingIn, Crew!Load, CrewP!Load,
               Crew!Running, CrewP!Running, Crew!Alone, CrewP!Alone,
               Crew!AWorkerIsFree, CrewP!AWorkerIsFree, Crew!Insert,
               CrewP!Insert, Crew!SetTask, CrewP!SetTask, Crew!TaskStart,
               CrewP!TaskStart, Crew!AutoCheck, CrewP!AutoCheck,
               Crew!Eligible, CrewP!Eligible, Crew!Candidates,
               CrewP!Candidates, Crew!Best, CrewP!Best, Crew!AutoChoose,
               CrewP!AutoChoose, Crew!AutoCount, CrewP!AutoCount,
               Crew!AutoCommit, CrewP!AutoCommit, Crew!Retry, CrewP!Retry,
               Crew!TaskRefused, CrewP!TaskRefused, Crew!TaskStep,
               CrewP!TaskStep, Crew!Cardinality, CrewP!Cardinality,
               Crew!IsFiniteSet, CrewP!IsFiniteSet

LEMMA SameTaskDisturbed == \A t : Crew!TaskDisturbed(t) <=> CrewP!TaskDisturbed(t)
  BY Zenon DEF Crew!Faulty, CrewP!Faulty, Crew!Free, CrewP!Free, Crew!Running,
               CrewP!Running, Crew!SetTask, CrewP!SetTask, Crew!Retry,
               CrewP!Retry, Crew!TaskDisturbed, CrewP!TaskDisturbed

LEMMA SameAccept == \A i : Crew!Accept(i) <=> CrewP!Accept(i)
  BY Zenon DEF Crew!Overlap, CrewP!Overlap, Crew!Idle, CrewP!Idle,
               Crew!Running, CrewP!Running, Crew!Alone, CrewP!Alone,
               Crew!SetStatus, CrewP!SetStatus, Crew!Accept, CrewP!Accept

LEMMA SameRequestStart == \A c : Crew!RequestStart(c) <=> CrewP!RequestStart(c)
  BY Zenon DEF Crew!Overlap, CrewP!Overlap, Crew!InPlay, CrewP!InPlay,
               Crew!ACTIVE_ASSIGNMENT_STATUSES,
               CrewP!ACTIVE_ASSIGNMENT_STATUSES, Crew!Free, CrewP!Free,
               Crew!Idle, CrewP!Idle, Crew!RowsOf, CrewP!RowsOf,
               Crew!ExistingIn, CrewP!ExistingIn, Crew!Running, CrewP!Running,
               Crew!Alone, CrewP!Alone, Crew!Room, CrewP!Room, Crew!Become,
               CrewP!Become, Crew!Begins, CrewP!Begins, Crew!ManualLoad,
               CrewP!ManualLoad, Crew!DeclineLoad, CrewP!DeclineLoad,
               Crew!CompleteLoad, CrewP!CompleteLoad, Crew!RequestStart,
               CrewP!RequestStart, Crew!Cardinality, CrewP!Cardinality,
               Crew!IsFiniteSet, CrewP!IsFiniteSet

LEMMA SameRequestStep == \A c : Crew!RequestStep(c) <=> CrewP!RequestStep(c)
  BY Zenon DEF Crew!ACTIVE_ASSIGNMENT_STATUSES,
               CrewP!ACTIVE_ASSIGNMENT_STATUSES, Crew!Free, CrewP!Free,
               Crew!Idle, CrewP!Idle, Crew!Load, CrewP!Load, Crew!Insert,
               CrewP!Insert, Crew!SetStatus, CrewP!SetStatus, Crew!SetTask,
               CrewP!SetTask, Crew!Become, CrewP!Become, Crew!Delay,
               CrewP!Delay, Crew!ManualCount, CrewP!ManualCount,
               Crew!ManualCommit, CrewP!ManualCommit, Crew!DeclineCommit,
               CrewP!DeclineCommit, Crew!CompleteCount, CrewP!CompleteCount,
               Crew!FreeOrFull, CrewP!FreeOrFull, Crew!HandOn, CrewP!HandOn,
               Crew!CompleteCommit, CrewP!CompleteCommit, Crew!QueueFollowUp,
               CrewP!QueueFollowUp, Crew!RequestStep, CrewP!RequestStep,
               Crew!STAGE_TRANSITIONS, CrewP!STAGE_TRANSITIONS,
               Crew!SITE_STAGES, CrewP!SITE_STAGES, Crew!Cardinality,
               CrewP!Cardinality, Crew!IsFiniteSet, CrewP!IsFiniteSet

LEMMA SameAbort == \A c : Crew!Abort(c) <=> CrewP!Abort(c)
  BY Zenon DEF Crew!Faulty, CrewP!Faulty, Crew!Idle, CrewP!Idle, Crew!Become,
               CrewP!Become, Crew!Abort, CrewP!Abort

LEMMA SameSteps ==
    CrewActs \/ UNCHANGED Crew!vars => CrewP!Next \/ UNCHANGED CrewP!vars
  <1>1. Crew!InPlay \cap Crew!SITE_STAGES = CrewP!InPlay \cap CrewP!SITE_STAGES
    BY DEF Crew!InPlay, CrewP!InPlay, Crew!SITE_STAGES, CrewP!SITE_STAGES
  <1>2. CrewActs => CrewP!Next
    BY Zenon, <1>1, SameStageEntered, SameDeleteUnit, SameTaskStep, SameTaskDisturbed,
       SameAccept, SameRequestStart, SameRequestStep, SameAbort DEF CrewActs, CrewP!Next
  <1>3. UNCHANGED Crew!vars => UNCHANGED CrewP!vars
    BY DEF Crew!vars, CrewP!vars
  <1> QED
    BY <1>2, <1>3

LEMMA StaffedIsCrewP == StaffedSpec => CrewP!Spec
  <1>1. StaffedInit => CrewP!Init
    BY SameInit DEF StaffedInit
  <1>2. StaffedInv /\ [StaffedNext]_staffedVars => [CrewP!Next]_(CrewP!vars)
    BY StaffedIsCrew, SameSteps DEF StaffedInv
  <1> QED
    BY <1>1, <1>2, StaffedInvHolds, PTL DEF StaffedSpec, CrewP!Spec

\* However the transitions, the deletions and the tasks interleave, a site
\* stage gets no more automatic rows than workers decide at once.
THEOREM StaffedStagesHaveFewRows == StaffedSpec => []Crew!OneAutoRowPerWorker
  <1>1. CrewP!OneAutoRowPerWorker => Crew!OneAutoRowPerWorker
    BY Zenon DEF Crew!RowsOf, CrewP!RowsOf, Crew!OneAutoRowPerWorker,
               CrewP!OneAutoRowPerWorker, Crew!Stage, CrewP!Stage,
               Crew!Cardinality, CrewP!Cardinality, Crew!IsFiniteSet,
               CrewP!IsFiniteSet
  <1>2. CrewP!Spec => []CrewP!OneAutoRowPerWorker
    BY CrewAssumed, CrewP!AutoRowsAreFew
  <1> QED
    BY <1>1, <1>2, StaffedIsCrewP, PTL

----------------------------------------------------------------------------
(* Engineers are called.                                                   *)

\* The stages that the history of a unit says were entered.
Entries == {x \in Unit \X SITE_STAGES : Entered(x[1], x[2])}

\* History is only added to.
LEMMA EntriesStay ==
    ASSUME IInv, [Next]_vars
    PROVE  \A u \in Unit, s \in SITE_STAGES : Entered(u, s) => Entered(u, s)'
  <1>1. [Ledger!Next]_(Ledger!ledgerVars)
    BY LedgerStep
  <1>2. history \in [Unit -> SUBSET STAGE_TRANSITIONS]
    BY DEF IInv, TypeOK
  <1>3. \A u \in Unit : history[u] \subseteq history'[u]
    BY <1>1, <1>2 DEF Ledger!Next, Ledger!File, Ledger!Record, Ledger!ledgerVars
  <1> QED
    BY <1>3 DEF Entered

\* The workers move, and what they were called for is in the history.
LEMMA StaffedMoves ==
    ASSUME StaffedInv, CrewP!TInv, [StaffedNext]_staffedVars
    PROVE  \E entered : CrewP!Moves(entered) /\ entered \subseteq Entries'
  <1>1. \A u \in Unit, s \in SITE_STAGES : Entered(u, s) => Entered(u, s)'
    BY StaffedIsLife, EntriesStay DEF StaffedInv
  <1>2. ASSUME NEW r \in Request, CallEngineer(r)
        PROVE  \E entered : CrewP!Moves(entered) /\ entered \subseteq Entries'
    <2>1. PICK u, s : u = req[r].unit /\ s = req[r].to
      OBVIOUS
    <2>2. u \in Unit /\ s \in CrewP!InPlay /\ s \in SITE_STAGES /\ Entered(u, s)
      <3>1. u \in Unit /\ s \in Crew!InPlay \cap SITE_STAGES /\ Entered(u, s)
        BY <1>2, <2>1, CalledFrom DEF StaffedInv, Entered
      <3>2. Crew!InPlay = CrewP!InPlay
        BY DEF Crew!InPlay, CrewP!InPlay
      <3> QED
        BY <3>1, <3>2
    <2>3. CrewP!StageEntered(u, s)
      BY <1>2, <2>1, SameStageEntered DEF CallEngineer
    <2>4. CrewP!Moves({<<u, s>>})
      BY <2>2, <2>3, CrewAssumed, CrewP!StageEnteredMoves
    <2>5. {<<u, s>>} \subseteq Entries'
      BY <1>1, <2>2 DEF Entries
    <2> QED
      BY <2>4, <2>5
  <1>3. ASSUME ~\E r \in Request : CallEngineer(r) PROVE CrewP!Moves({})
    <2>1. \/ UNCHANGED <<rows, task, work>>
          \/ \E u \in Unit : CrewP!DeleteUnit(u)
          \/ \E t \in Task : CrewP!TaskStep(t) \/ CrewP!TaskDisturbed(t)
          \/ \E i \in DOMAIN rows : CrewP!Accept(i)
          \/ \E c \in CrewRequest : \/ CrewP!RequestStart(c)
                                    \/ CrewP!RequestStep(c)
                                    \/ CrewP!Abort(c)
      BY Zenon, <1>3, SameDeleteUnit, SameTaskStep, SameTaskDisturbed, SameAccept,
         SameRequestStart, SameRequestStep, SameAbort
      DEF StaffedNext, staffedVars, crewVars, LifeStep, RemoveUnit, CrewStep
    <2> QED
      BY <2>1, CrewAssumed, CrewP!OtherStepMoves
  <1> QED
    BY <1>2, <1>3

\* What the workers do was called for.
CalledInv == CrewP!TInv /\ CrewP!Calls(Entries)

LEMMA CalledInit == StaffedInit => CalledInv
  <1> SUFFICES ASSUME StaffedInit PROVE CalledInv
    OBVIOUS
  <1>1. CrewP!Init
    BY SameInit DEF StaffedInit
  <1>2. PICK entries : entries = Entries
    OBVIOUS
  <1>3. CrewP!Calls(entries)
    BY <1>1, CrewAssumed, CrewP!CallsInit
  <1> QED
    BY <1>1, <1>2, <1>3, CrewAssumed, CrewP!TInvInit DEF CalledInv

LEMMA CalledStep == StaffedInv /\ CalledInv /\ [StaffedNext]_staffedVars => CalledInv'
  <1> SUFFICES ASSUME StaffedInv, CalledInv, [StaffedNext]_staffedVars PROVE CalledInv'
    OBVIOUS
  <1>1. CrewP!TInv /\ CrewP!TInv'
    BY StaffedIsCrew, SameSteps, CrewAssumed, CrewP!TInvNext DEF StaffedInv, CalledInv
  <1>2. PICK entered : CrewP!Moves(entered) /\ entered \subseteq Entries'
    BY <1>1, StaffedMoves
  <1>3. PICK before, after : before = Entries /\ after = Entries'
    OBVIOUS
  <1>4. before \cup entered \subseteq after
    BY <1>2, <1>3, StaffedIsLife, EntriesStay DEF StaffedInv, Entries
  <1>5. CrewP!Calls(before)
    BY <1>3 DEF CalledInv
  <1>6. CrewP!Calls(after)'
    BY <1>1, <1>2, <1>4, <1>5, CrewAssumed, CrewP!CallsStep
  <1> QED
    BY <1>1, <1>3, <1>6 DEF CalledInv

\* No engineer is sent out of turn.
THEOREM EngineersComeWhenCalled == StaffedSpec => []EngineersAreCalled
  <1>1. StaffedInit => CalledInv
    BY CalledInit
  <1>2. StaffedInv /\ CalledInv /\ [StaffedNext]_staffedVars => CalledInv'
    BY CalledStep
  <1>3. CalledInv => EngineersAreCalled
    BY DEF CalledInv, CrewP!Calls, CrewP!CalledBy, CrewP!STAGE_TRANSITIONS, Entries,
           EngineersAreCalled, CalledFor, STAGE_TRANSITIONS
  <1> QED
    BY <1>1, <1>2, <1>3, StaffedInvHolds, PTL DEF StaffedSpec
====
