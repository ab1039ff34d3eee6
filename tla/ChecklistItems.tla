--------------------------- MODULE ChecklistItems ---------------------------
(***************************************************************************)
(* The checklist of one unit, item by item: checklist_templates and        *)
(* checklist_responses, update_checklist_item, and the three places that   *)
(* ask for complete items, transition_stage, the report and the handover   *)
(* document (app/domains/installation, app/domains/bess_unit/service.py).  *)
(* The scripts and the panel change the items meanwhile.                   *)
(*                                                                         *)
(* Nothing is unique about a response but its id, an UPDATE sends the      *)
(* columns that differ from what its handler loaded, and a document reads  *)
(* one stage after another.                                                *)
(*                                                                         *)
(* Every template that the code writes applies to all product models.      *)
(***************************************************************************)
EXTENDS BessStages, FiniteSets, Naturals

CONSTANTS
    Template,   \* the ids checklist_templates may hand out
    Response,   \* those of checklist_responses
    Stages,     \* bound: the stages that have items, or that the unit is in
    Text,       \* item texts
    Files,      \* the versions of the template file, as sets of items
    Forms,      \* bound: the items that are typed into the panel
    Photo,      \* photo URLs
    Person,     \* who calls
    Request,    \* the API requests in flight at a time
    Overlaps,   \* whether handlers may run at the same time: see overlap
    MaxEdits    \* bound: changes by others than these handlers

NoPhoto == "no photo"
Nobody == "nobody"

Item == [stage : Stages, text : Text, mandatory : BOOLEAN, photo : BOOLEAN]

ASSUME ChecklistAssumption ==
    /\ Stages \subseteq Stage
    /\ Files \subseteq SUBSET Item
    /\ \A file \in Files : \A x, y \in file :
            x.stage = y.stage /\ x.text = y.text => x = y
    /\ Forms \subseteq Item
    /\ Overlaps \subseteq BOOLEAN
    /\ Nobody \notin Person
    /\ IsFiniteSet(Request)
    /\ IsFiniteSet(Response)
    /\ MaxEdits \in Nat

VARIABLES
    stage,      \* the unit's current_stage
    deleted,    \* its is_deleted
    templates,  \* [Template -> the row, or what is there instead]
    responses,  \* [Response -> the row, or what is there instead]
    req,        \* [Request -> the state of the handler it runs]
    edits,      \* how often somebody else changed something
    overlap,    \* whether handlers run at the same time in this behaviour
    ticked      \* the items a handler or the panel has ever written as checked

unitVars == <<stage, deleted>>
vars == <<unitVars, templates, responses, req, edits, overlap, ticked>>

----------------------------------------------------------------------------

Unused == [row |-> "unused"]
Gone == [row |-> "deleted"]
IsRow(x) == x \notin {Unused, Gone}

\* needed: whether the template required a photo when the last handler that
\* wrote the row loaded it.  corrected: whether the panel ever edited the row.
Answer ==
    [template : Template, checked : BOOLEAN, photo : Photo \cup {NoPhoto},
     by : Person \cup {Nobody}, needed : BOOLEAN, corrected : BOOLEAN]

\* What a handler that collects for a document has instead of a stage to leave.
Document == "document"

Idle == [pc |-> "idle"]

\* was: the row as the handler loaded it.  left: the stages not yet read.
RequestState ==
    {Idle}
    \cup [pc : {"item_loaded", "not_answered"}, answer : Answer]
    \cup [pc : {"answered"}, answer : Answer, row : Response, was : Answer]
    \cup [pc : {"leaving", "passed"}, from : Stages]
    \cup [pc : {"collecting"}, from : Stages \cup {Document}, left : SUBSET Stages]
    \cup [pc : {"collected"}, from : Stages \cup {Document}]

Become(r, state) == req' = [req EXCEPT ![r] = state]

Alone == \A r \in Request : req[r] = Idle

BeginsAnyway(r) ==
    /\ req[r] = Idle
    /\ overlap \/ Alone

Begins(r) ==
    /\ req[r] = Idle
    /\ overlap \/ Alone
    /\ ~deleted

AnswersTo(t) == {i \in Response : IsRow(responses[i]) /\ responses[i].template = t}

ItemsOf(s) == {t \in Template : IsRow(templates[t]) /\ templates[t].stage = s}

MandatoryOf(s) == {t \in ItemsOf(s) : templates[t].mandatory}

IncompleteAnswered(s) ==
    {t \in MandatoryOf(s) : \E i \in AnswersTo(t) : ~responses[i].checked}

\* get_incomplete_mandatory.  The outer join yields an item once per response,
\* or once without any: a single unchecked response is enough.
Incomplete(s) ==
    {t \in MandatoryOf(s) :
        AnswersTo(t) = {} \/ \E i \in AnswersTo(t) : ~responses[i].checked}

Following(s) == {n \in Stages : <<s, n>> \in STAGE_TRANSITIONS}

----------------------------------------------------------------------------

Init ==
    /\ stage \in {s \in Stages : Following(s) # {}}
    /\ deleted = FALSE
    /\ templates = [t \in Template |-> Unused]
    /\ responses = [i \in Response |-> Unused]
    /\ req = [r \in Request |-> Idle]
    /\ edits = 0
    /\ overlap \in Overlaps
    /\ ticked = {}

----------------------------------------------------------------------------
(* update_checklist_item.                                                  *)

\* The photo rule looks at the template as it is now, and at the request.
UpdateLoad(r, t, checked, photo, person) ==
    /\ Begins(r)
    /\ IsRow(templates[t])
    /\ checked /\ templates[t].photo => photo # NoPhoto
    /\ Become(r, [pc |-> "item_loaded",
                  answer |-> [template |-> t, checked |-> checked, photo |-> photo,
                              by |-> IF checked THEN person ELSE Nobody,
                              needed |-> templates[t].photo, corrected |-> FALSE]])
    /\ UNCHANGED <<unitVars, templates, responses, edits, overlap, ticked>>

GetResponseMissing(r) ==
    /\ req[r].pc = "item_loaded"
    /\ Become(r, [req[r] EXCEPT !.pc = "not_answered"])
    /\ UNCHANGED <<unitVars, templates, responses, edits, overlap, ticked>>

\* get_response returns any one of the rows.
GetResponse(r) ==
    /\ req[r].pc = "item_loaded"
    /\ LET found == AnswersTo(req[r].answer.template)
       IN  \/ \E i \in found :
                Become(r, [pc |-> "answered", answer |-> req[r].answer, row |-> i,
                           was |-> responses[i]])
           \/ found = {} /\ Become(r, [req[r] EXCEPT !.pc = "not_answered"])
    /\ UNCHANGED <<unitVars, templates, responses, edits, overlap, ticked>>

Tick(r) ==
    ticked' = IF req[r].answer.checked THEN ticked \cup {req[r].answer.template} ELSE ticked

\* create_response and the flush that fills the row in.  The foreign key asks
\* for the template.
CreateCommit(r) ==
    /\ req[r].pc = "not_answered"
    /\ IsRow(templates[req[r].answer.template])
    /\ \E i \in Response :
        /\ responses[i] = Unused
        /\ responses' = [responses EXCEPT ![i] = req[r].answer]
    /\ Tick(r)
    /\ Become(r, Idle)
    /\ UNCHANGED <<unitVars, templates, edits, overlap>>

UpdateKeepsChecker(r) ==
    [responses[req[r].row] EXCEPT !.checked = req[r].answer.checked,
                                  !.photo = req[r].answer.photo,
                                  !.needed = req[r].answer.needed,
                                  !.by = IF req[r].answer.checked THEN req[r].answer.by
                                         ELSE @]

\* The row after the UPDATE: a column that the handler sets to the value it
\* had loaded keeps what the row has by now.
Updated(r) ==
    LET new == req[r].answer
        was == req[r].was
        now == responses[req[r].row]
    IN  [now EXCEPT !.checked = IF new.checked # was.checked THEN new.checked ELSE @,
                    !.photo = IF new.photo # was.photo THEN new.photo ELSE @,
                    !.by = IF new.by # was.by THEN new.by ELSE @,
                    !.needed = new.needed]

UpdateCommit(r) ==
    /\ req[r].pc = "answered"
    /\ IsRow(responses[req[r].row])
    /\ responses' = [responses EXCEPT ![req[r].row] = Updated(r)]
    /\ Tick(r)
    /\ Become(r, Idle)
    /\ UNCHANGED <<unitVars, templates, edits, overlap>>

----------------------------------------------------------------------------
(* transition_stage; what it asks for besides is in BessLifecycle.         *)

TransitionLoad(r) ==
    /\ Begins(r)
    /\ Following(stage) # {}
    /\ Become(r, [pc |-> "leaving", from |-> stage])
    /\ UNCHANGED <<unitVars, templates, responses, edits, overlap, ticked>>

ChecklistGateAhead(r) ==
    /\ req[r].pc = "leaving"
    /\ \A n \in Following(req[r].from) : Incomplete(n) = {}
    /\ Become(r, [pc |-> "passed", from |-> req[r].from])
    /\ UNCHANGED <<unitVars, templates, responses, edits, overlap, ticked>>

\* Before ACTIVE the handover document is written as well.
ChecklistGate(r) ==
    /\ req[r].pc = "leaving"
    /\ Incomplete(req[r].from) = {}
    /\ Become(r, IF "ACTIVE" \in Following(req[r].from)
                 THEN [pc |-> "collecting", from |-> req[r].from, left |-> Stages]
                 ELSE [pc |-> "passed", from |-> req[r].from])
    /\ UNCHANGED <<unitVars, templates, responses, edits, overlap, ticked>>

\* The stage was read before the gate, and is written whatever it is by now.
TransitionCommit(r) ==
    /\ req[r].pc \in {"passed", "collected"}
    /\ req[r].from # Document
    /\ stage' \in Following(req[r].from)
    /\ Become(r, Idle)
    /\ UNCHANGED <<deleted, templates, responses, edits, overlap, ticked>>

----------------------------------------------------------------------------
(* The checklist report, the handover document and its data, for a user or *)
(* for whoever has its QR code.                                            *)

ReportLoad(r) ==
    /\ Begins(r)
    /\ Become(r, [pc |-> "collecting", from |-> Document, left |-> Stages])
    /\ UNCHANGED <<unitVars, templates, responses, edits, overlap, ticked>>

\* _collect_stage_items, a query for each stage in their order; with an incomplete item in any
\* of them the document is refused.
CollectStage(r) ==
    /\ req[r].pc = "collecting"
    /\ \E s \in req[r].left :
        /\ \A before \in req[r].left : <<before, s>> \notin STAGE_TRANSITIONS
        /\ Incomplete(s) = {}
        /\ Become(r, IF req[r].left = {s}
                     THEN [pc |-> "collected", from |-> req[r].from]
                     ELSE [req[r] EXCEPT !.left = @ \ {s}])
    /\ UNCHANGED <<unitVars, templates, responses, edits, overlap, ticked>>

----------------------------------------------------------------------------

\* The handler answers: the document, a refusal, or an error that rolled the
\* transaction back.
End(r) ==
    /\ req[r] # Idle
    /\ Become(r, Idle)
    /\ UNCHANGED <<unitVars, templates, responses, edits, overlap, ticked>>

\* delete_bess_unit.
DeleteUnit ==
    /\ ~deleted
    /\ deleted' = TRUE
    /\ UNCHANGED <<stage, templates, responses, ticked>>

----------------------------------------------------------------------------
(* The scripts and the panel.                                              *)

Matching(x) ==
    {t \in Template : /\ IsRow(templates[t])
                      /\ templates[t].stage = x.stage
                      /\ templates[t].text = x.text}

\* The row each item of the file is found in, or gets.
Places(file) ==
    {place \in [file -> Template] :
        /\ \A x \in file : \/ place[x] \in Matching(x)
                           \/ Matching(x) = {} /\ templates[place[x]] = Unused
        /\ \A x, y \in file : place[x] = place[y] => x = y}

ItemAt(place, t) == CHOOSE x \in DOMAIN place : place[x] = t

\* sync_checklist_templates writes what it finds anew; seed leaves it alone.
LoadFile(file) ==
    /\ \E place \in Places(file), sync \in BOOLEAN :
        templates' =
            [t \in Template |->
                IF /\ \E x \in file : place[x] = t
                   /\ sync \/ templates[t] = Unused
                THEN ItemAt(place, t) ELSE templates[t]]
    /\ UNCHANGED <<unitVars, responses, ticked>>

PanelSaveTemplate(t, x) ==
    /\ templates[t] # Gone
    /\ templates' = [templates EXCEPT ![t] = x]
    /\ UNCHANGED <<unitVars, responses, ticked>>

PanelDeleteAnsweredTemplate(t) ==
    /\ IsRow(templates[t])
    /\ templates' = [templates EXCEPT ![t] = Gone]
    /\ UNCHANGED <<unitVars, responses, ticked>>

\* The foreign key of the responses forbids to delete an answered item.
PanelDeleteTemplate(t) ==
    /\ IsRow(templates[t])
    /\ AnswersTo(t) = {}
    /\ templates' = [templates EXCEPT ![t] = Gone]
    /\ UNCHANGED <<unitVars, responses, ticked>>

\* The form has is_checked, the notes and the photo.
PanelEditResponse(i, checked, photo) ==
    /\ IsRow(responses[i])
    /\ responses' = [responses EXCEPT ![i].checked = checked, ![i].photo = photo,
                                       ![i].corrected = TRUE]
    /\ ticked' = IF checked THEN ticked \cup {responses[i].template} ELSE ticked
    /\ UNCHANGED <<unitVars, templates>>

PanelDeleteResponse(i) ==
    /\ IsRow(responses[i])
    /\ responses' = [responses EXCEPT ![i] = Gone]
    /\ UNCHANGED <<unitVars, templates, ticked>>

Edit ==
    /\ overlap \/ Alone
    /\ edits < MaxEdits
    /\ edits' = edits + 1
    /\ \/ DeleteUnit
       \/ \E file \in Files : LoadFile(file)
       \/ \E t \in Template :
            \/ \E x \in Forms : PanelSaveTemplate(t, x)
            \/ PanelDeleteTemplate(t)
       \/ \E i \in Response :
            \/ \E checked \in BOOLEAN, photo \in Photo \cup {NoPhoto} :
                    PanelEditResponse(i, checked, photo)
            \/ PanelDeleteResponse(i)
    /\ UNCHANGED <<req, overlap>>

----------------------------------------------------------------------------

RequestNext(r) ==
    \/ \E t \in Template, checked \in BOOLEAN, photo \in Photo \cup {NoPhoto},
          person \in Person : UpdateLoad(r, t, checked, photo, person)
    \/ GetResponse(r)
    \/ CreateCommit(r)
    \/ UpdateCommit(r)
    \/ TransitionLoad(r)
    \/ ChecklistGate(r)
    \/ TransitionCommit(r)
    \/ ReportLoad(r)
    \/ CollectStage(r)
    \/ End(r)

Next ==
    \/ \E r \in Request : RequestNext(r)
    \/ Edit

Spec == Init /\ [][Next]_vars

----------------------------------------------------------------------------
(* Safety.                                                                 *)

TypeOK ==
    /\ stage \in Stages
    /\ deleted \in BOOLEAN
    /\ templates \in [Template -> Item \cup {Unused, Gone}]
    /\ responses \in [Response -> Answer \cup {Unused, Gone}]
    /\ \A i \in Response : IsRow(responses[i]) => IsRow(templates[responses[i].template])
    /\ req \in [Request -> RequestState]
    /\ edits \in 0..MaxEdits
    /\ overlap \in Overlaps
    /\ ticked \subseteq Template

\* Two handlers that both find an item without a response both insert one, but
\* duplicates do not accumulate: there are never more than the requests that
\* can be in flight at once.
ResponsesBounded ==
    \A t \in Template : Cardinality(AnswersTo(t)) <= Cardinality(Request)

\* A gate lets a stage pass only if somebody ticked each of its mandatory items
\* for the unit, under the photo rule or in the panel: whatever overlaps, and
\* whatever becomes of items, stages and duplicates.
GatesAskForTicks ==
    [][\A r \in Request, s \in Stages :
           \/ req[r].pc = "leaving" /\ req[r].from = s /\ req'[r].pc \notin {"leaving", "idle"}
           \/ req[r].pc = "collecting" /\ s \in req[r].left
                /\ \/ req'[r].pc = "collected"
                   \/ req'[r].pc = "collecting" /\ s \notin req'[r].left
           => MandatoryOf(s) \subseteq ticked]_vars

\* With one handler at a time, what a gate found still holds when the stage is
\* written or the document is sent: every mandatory item is checked, those of
\* the stage, or those of all stages.
GatesHold ==
    ~overlap => \A r \in Request :
        /\ req[r].pc = "passed" => Incomplete(req[r].from) = {}
        /\ req[r].pc = "collected" => \A s \in Stages : Incomplete(s) = {}

\* With one handler at a time, an item has one response, and as long as the
\* panel leaves that alone its columns agree: it is checked by somebody, with the
\* photo that was required, or it is not checked and by nobody.
AnswersHoldTogether ==
    ~overlap => \A i \in Response :
        IsRow(responses[i]) =>
            /\ AnswersTo(responses[i].template) = {i}
            /\ ~responses[i].corrected =>
                /\ responses[i].checked <=> responses[i].by # Nobody
                /\ responses[i].checked /\ responses[i].needed => responses[i].photo # NoPhoto

\* What a user of the gate sees: a transition checks and moves in one step
\* (StageGate), although other handlers edit the items before and after.
Gate == INSTANCE StageGate WITH
    removed <- deleted,
    ready <- {s \in Stages : Incomplete(s) = {}},
    exact <- ~overlap

GateImplemented == Gate!Spec

----------------------------------------------------------------------------
(* What the documents say and the code does not do.                        *)

\* API_FLOW_GUIDE.md: "Photo upload is mandatory for every checked checklist
\* item", asked here only of the items that require one.
PhotoForEveryCheckedItem ==
    \A i \in Response :
        /\ IsRow(responses[i])
        /\ responses[i].checked
        /\ responses[i].needed
        /\ ~responses[i].corrected
        => responses[i].photo # NoPhoto
=============================================================================
