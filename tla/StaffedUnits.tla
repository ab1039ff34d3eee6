---------------------------- MODULE StaffedUnits ----------------------------
(***************************************************************************)
(* The two components that meet in bess_unit/service.py: the life of the   *)
(* units (BessLifecycle) and the staffing of their site stages             *)
(* (EngineerAssignment).  They share bess_units.is_deleted, which either   *)
(* reads, and the call of auto_assign_engineer_task.delay, by which        *)
(* transition_stage hands a unit and a stage over to the workers.  Every   *)
(* other step belongs to one of the two and leaves the other's state.      *)
(***************************************************************************)
EXTENDS BessLifecycle, Sequences

CONSTANTS
    Engineer, InCity, InCountry, Specialization, Capacity,
    Task, Workers, MaxRetries, MaxRows, Modes,  \* see EngineerAssignment
    CrewRequest       \* the requests about assignments in flight at a time

VARIABLES
    rows, available, task, mode,  \* see EngineerAssignment
    work                          \* [CrewRequest -> the state of the handler it runs]

Crew == INSTANCE EngineerAssignment WITH Request <- CrewRequest, req <- work

\* The site stages a transition may ask for are followed.
ASSUME StaffingAssumption ==
    /\ Crew!AssignmentAssumption
    /\ \A m \in Modes : TransitionTargets \cap SITE_STAGES \subseteq m.stages

lifeVars == <<unitVars, trailVars, shipmentVars, req, tasks>>
crewVars == <<rows, available, task, work, mode>>
staffedVars == <<lifeVars, crewVars>>

StaffedInit == Init /\ Crew!Init

\* A handler that would queue the task before it commits the transition.
CallBeforeCommit(r) ==
    /\ ReadyToCommit(r)
    /\ req[r].to \in SITE_STAGES
    /\ Crew!StageEntered(req[r].unit, req[r].to)
    /\ UNCHANGED lifeVars

\* A handler that queues its task puts it into the broker's queue; a
\* call the broker never gets is a request that fails.
CallEngineer(r) ==
    /\ QueueEngineerTask(r)
    /\ Crew!StageEntered(req[r].unit, req[r].to)

\* Both see that the unit is gone.
RemoveUnit(u) == DeleteUnit(u) /\ Crew!DeleteUnit(u)

\* A step of the units and the shipments that neither deletes nor queues.
LifeStep ==
    /\ Next
    /\ UNCHANGED <<deleted, tasks, crewVars>>

\* A step of the tasks or the assignments; a unit that is assigned by hand is
\* registered.
CrewStep ==
    /\ \/ \E t \in Task : Crew!TaskStep(t) \/ Crew!TaskDisturbed(t)
       \/ \E i \in DOMAIN rows : Crew!Accept(i)
       \/ \E c \in CrewRequest :
            \/ Crew!RequestStart(c) /\ (work'[c].pc = "assigning" => work'[c].unit \in units)
            \/ Crew!RequestStep(c) \/ Crew!Abort(c)
    /\ UNCHANGED lifeVars

StaffedNext ==
    \/ \E r \in Request : CallEngineer(r)
    \/ \E u \in Unit : RemoveUnit(u)
    \/ LifeStep
    \/ CrewStep

StaffedSpec == StaffedInit /\ [][StaffedNext]_staffedVars

----------------------------------------------------------------------------

\* Something called an engineer to the stage: the unit entered it, or an
\* assignment to the stage before it may have been completed.
CalledFor(u, s, before) ==
    \/ Entered(u, s)
    \/ \E j \in 1..before :
        rows[j].unit = u /\ <<rows[j].stage, s>> \in STAGE_TRANSITIONS

\* No engineer is sent out of turn: an automatic row is for a stage whose entry
\* is in the unit's history, or follows an earlier row for the stage just
\* before it.  The row, the history and the task that relates them are written
\* in three transactions, by two processes, and tasks are repeated and come
\* late.
EngineersAreCalled ==
    \A i \in DOMAIN rows :
        rows[i].by = "AUTO" => CalledFor(rows[i].unit, rows[i].stage, i - 1)

\* What the workers were modelled against, stages entered and units deleted at
\* any time, is what the life of the units does to them: only stages that are
\* followed, of registered units.
WorkersAreServed == Crew!Spec
=============================================================================
