------------------------ MODULE ChecklistItemsProofs ------------------------
(***************************************************************************)
(* Proofs about ChecklistItems for every set of items, responses, requests *)
(* and file versions, and whatever the scripts and the panel change.       *)
(***************************************************************************)
EXTENDS ChecklistItems, FiniteSetTheorems, TLAPS

----------------------------------------------------------------------------
(* Facts about the records.                                                *)

\* An item and a response are rows.
LEMMA RowFacts ==
    /\ \A x \in Item : IsRow(x)
    /\ \A x \in Answer : IsRow(x)
  BY DEF Item, Answer, IsRow, Unused, Gone

\* pc tells what the record of a request holds.
LEMMA RequestByPc ==
    ASSUME NEW x \in RequestState
    PROVE  /\ x.pc \in {"item_loaded", "not_answered"} =>
                x \in [pc : {"item_loaded", "not_answered"}, answer : Answer]
           /\ x.pc = "answered" =>
                x \in [pc : {"answered"}, answer : Answer, row : Response, was : Answer]
           /\ x.pc \in {"leaving", "passed"} =>
                x \in [pc : {"leaving", "passed"}, from : Stages]
           /\ x.pc = "collecting" =>
                x \in [pc : {"collecting"}, from : Stages \cup {Document}, left : SUBSET Stages]
           /\ x.pc = "collected" =>
                x \in [pc : {"collected"}, from : Stages \cup {Document}]
           /\ x.pc = "idle" => x = Idle
  BY DEF RequestState, Idle

\* A handler that sets its record to one of the right type keeps the type.
LEMMA BecomeType ==
    ASSUME TypeOK, NEW r \in Request, NEW state \in RequestState, Become(r, state)
    PROVE  /\ req' \in [Request -> RequestState]
           /\ req'[r] = state
           /\ \A q \in Request \ {r} : req'[q] = req[q]
  BY DEF TypeOK, Become

----------------------------------------------------------------------------
(* Types.                                                                  *)

LEMMA TypeInit == Init => TypeOK
  <1> SUFFICES ASSUME Init PROVE TypeOK
    OBVIOUS
  <1>1. Idle \in RequestState
    BY DEF RequestState
  <1>2. \A i \in Response : ~IsRow(responses[i])
    BY DEF Init, IsRow
  <1>3. edits \in 0..MaxEdits /\ ticked \subseteq Template /\ overlap \in Overlaps
        /\ stage \in Stages
    BY ChecklistAssumption, SMT DEF Init
  <1>6. deleted \in BOOLEAN
    BY Zenon DEF Init
  <1>4. templates \in [Template -> Item \cup {Unused, Gone}]
        /\ responses \in [Response -> Answer \cup {Unused, Gone}]
    BY DEF Init
  <1>5. req \in [Request -> RequestState]
    BY <1>1 DEF Init
  <1> QED
    BY <1>2, <1>3, <1>4, <1>5, <1>6 DEF TypeOK

\* Steps that change nothing but the record of their request, and the stage.
LEMMA TypeReads ==
    ASSUME TypeOK, NEW r \in Request,
           \/ \E t \in Template, checked \in BOOLEAN, photo \in Photo \cup {NoPhoto},
                 person \in Person : UpdateLoad(r, t, checked, photo, person)
           \/ GetResponse(r)
           \/ TransitionLoad(r)
           \/ ChecklistGate(r)
           \/ TransitionCommit(r)
           \/ ReportLoad(r)
           \/ CollectStage(r)
           \/ End(r)
    PROVE  TypeOK'
  <1> USE DEF TypeOK, unitVars
  <1>1. SUFFICES /\ req' \in [Request -> RequestState]
                 /\ stage' \in Stages
                 /\ UNCHANGED <<deleted, templates, responses, edits, overlap, ticked>>
    BY DEF IsRow
  <1>2. ASSUME NEW t \in Template, NEW checked \in BOOLEAN,
               NEW photo \in Photo \cup {NoPhoto}, NEW person \in Person,
               UpdateLoad(r, t, checked, photo, person)
        PROVE  req' \in [Request -> RequestState]
    <2> DEFINE answer == [template |-> t, checked |-> checked, photo |-> photo,
                          by |-> IF checked THEN person ELSE Nobody,
                          needed |-> templates[t].photo, corrected |-> FALSE]
    <2>1. answer \in Answer
      BY <1>2 DEF UpdateLoad, IsRow, Item, Answer
    <2>2. [pc |-> "item_loaded", answer |-> answer] \in RequestState
      BY <2>1 DEF RequestState
    <2> QED
      BY <1>2, <2>2 DEF UpdateLoad, Become
  <1>3. ASSUME GetResponse(r) PROVE req' \in [Request -> RequestState]
    <2>1. req[r] \in [pc : {"item_loaded", "not_answered"}, answer : Answer]
      BY <1>3, RequestByPc DEF GetResponse
    <2>2. CASE Become(r, [req[r] EXCEPT !.pc = "not_answered"])
      <3>1. [req[r] EXCEPT !.pc = "not_answered"] \in RequestState
        BY <2>1 DEF RequestState
      <3> QED
        BY <2>2, <3>1, BecomeType
    <2>3. ASSUME NEW i \in AnswersTo(req[r].answer.template),
                 Become(r, [pc |-> "answered", answer |-> req[r].answer, row |-> i,
                            was |-> responses[i]])
          PROVE  req' \in [Request -> RequestState]
      <3>1. i \in Response /\ responses[i] \in Answer
        BY DEF AnswersTo, IsRow
      <3>2. [pc |-> "answered", answer |-> req[r].answer, row |-> i, was |-> responses[i]]
                \in RequestState
        BY <2>1, <3>1 DEF RequestState
      <3> QED
        BY <2>3, <3>2, BecomeType
    <2> QED
      BY <1>3, <2>2, <2>3 DEF GetResponse
  <1>4. ASSUME TransitionLoad(r) PROVE req' \in [Request -> RequestState]
    BY <1>4 DEF TransitionLoad, Become, RequestState
  <1>5. ASSUME ChecklistGate(r) PROVE req' \in [Request -> RequestState]
    <2>1. req[r].from \in Stages
      BY <1>5, RequestByPc DEF ChecklistGate
    <2>2. /\ [pc |-> "collecting", from |-> req[r].from, left |-> Stages] \in RequestState
          /\ [pc |-> "passed", from |-> req[r].from] \in RequestState
      BY <2>1 DEF RequestState
    <2> QED
      BY <1>5, <2>2 DEF ChecklistGate, Become
  <1>6. ASSUME TransitionCommit(r)
        PROVE  req' \in [Request -> RequestState] /\ stage' \in Stages
    BY <1>6 DEF TransitionCommit, Become, RequestState, Following
  <1>7. ASSUME ReportLoad(r) PROVE req' \in [Request -> RequestState]
    BY <1>7 DEF ReportLoad, Become, RequestState
  <1>8. ASSUME CollectStage(r) PROVE req' \in [Request -> RequestState]
    <2>1. req[r] \in [pc : {"collecting"}, from : Stages \cup {Document},
                      left : SUBSET Stages]
      BY <1>8, RequestByPc DEF CollectStage
    <2>2. PICK s \in req[r].left :
              Become(r, IF req[r].left = {s} THEN [pc |-> "collected", from |-> req[r].from]
                        ELSE [req[r] EXCEPT !.left = @ \ {s}])
      BY <1>8 DEF CollectStage
    <2>3. /\ [pc |-> "collected", from |-> req[r].from] \in RequestState
          /\ [req[r] EXCEPT !.left = @ \ {s}] \in RequestState
      BY <2>1 DEF RequestState
    <2> QED
      BY <2>2, <2>3 DEF Become
  <1>9. ASSUME End(r) PROVE req' \in [Request -> RequestState]
    BY <1>9 DEF End, Become, RequestState
  <1> QED
    BY <1>2, <1>3, <1>4, <1>5, <1>6, <1>7, <1>8, <1>9
       DEF UpdateLoad, GetResponse, TransitionLoad, ChecklistGate, TransitionCommit,
           ReportLoad, CollectStage, End

\* The two steps that write a response.
LEMMA TypeWrites ==
    ASSUME TypeOK, NEW r \in Request, CreateCommit(r) \/ UpdateCommit(r)
    PROVE  TypeOK'
  <1> USE DEF TypeOK, unitVars
  <1>1. CASE CreateCommit(r)
    <2>1. req[r].answer \in Answer
      BY <1>1, RequestByPc DEF CreateCommit
    <2>2. PICK i \in Response : responses' = [responses EXCEPT ![i] = req[r].answer]
      BY <1>1 DEF CreateCommit
    <2>3. \A j \in Response : IsRow(responses'[j]) => IsRow(templates[responses'[j].template])
      BY <1>1, <2>1, <2>2 DEF CreateCommit
    <2>4. ticked' \subseteq Template
      BY <1>1, <2>1 DEF CreateCommit, Tick, Answer
    <2>5. req' \in [Request -> RequestState]
      BY <1>1 DEF CreateCommit, Become, RequestState
    <2> QED
      BY <1>1, <2>1, <2>2, <2>3, <2>4, <2>5 DEF CreateCommit, IsRow
  <1>2. CASE UpdateCommit(r)
    <2>1. req[r].answer \in Answer /\ req[r].was \in Answer /\ req[r].row \in Response
      BY <1>2, RequestByPc DEF UpdateCommit
    <2>2. responses[req[r].row] \in Answer
      BY <1>2, <2>1 DEF UpdateCommit, IsRow
    <2>3. /\ Updated(r) \in Answer
          /\ Updated(r).template = responses[req[r].row].template
      BY <2>1, <2>2 DEF Updated, Answer
    <2>4. \A j \in Response : IsRow(responses'[j]) => IsRow(templates[responses'[j].template])
      BY <1>2, <2>1, <2>3 DEF UpdateCommit
    <2>5. ticked' \subseteq Template
      BY <1>2, <2>1 DEF UpdateCommit, Tick, Answer
    <2>6. req' \in [Request -> RequestState]
      BY <1>2 DEF UpdateCommit, Become, RequestState
    <2> QED
      BY <1>2, <2>1, <2>3, <2>4, <2>5, <2>6 DEF UpdateCommit, IsRow
  <1> QED
    BY <1>1, <1>2

\* What a file loads are items, in rows that stay.
LEMMA LoadFileRows ==
    ASSUME TypeOK, NEW file \in Files, LoadFile(file)
    PROVE  /\ templates' \in [Template -> Item \cup {Unused, Gone}]
           /\ \A t \in Template : IsRow(templates[t]) => IsRow(templates'[t])
  <1>1. PICK place \in Places(file), sync \in BOOLEAN :
            templates' =
                [t \in Template |->
                    IF /\ \E x \in file : place[x] = t
                       /\ sync \/ templates[t] = Unused
                    THEN ItemAt(place, t) ELSE templates[t]]
    BY DEF LoadFile
  <1>2. DOMAIN place = file /\ file \subseteq Item
    BY ChecklistAssumption DEF Places
  <1>3. \A t \in Template : (\E x \in file : place[x] = t) => ItemAt(place, t) \in Item
    BY <1>2 DEF ItemAt
  <1> QED
    BY <1>1, <1>3, RowFacts DEF TypeOK

LEMMA TypeEdit ==
    ASSUME TypeOK, Edit
    PROVE  TypeOK'
  <1> USE DEF TypeOK, unitVars
  <1>1. edits' \in 0..MaxEdits /\ req' = req /\ overlap' = overlap
    BY ChecklistAssumption DEF Edit
  <1>2. CASE DeleteUnit
    <2>1. deleted' \in BOOLEAN
      BY <1>2, Zenon DEF DeleteUnit
    <2> QED
      BY <1>1, <1>2, <2>1 DEF DeleteUnit, IsRow
  <1>3. ASSUME NEW file \in Files, LoadFile(file) PROVE TypeOK'
    <2>1. \A i \in Response : IsRow(responses[i]) => responses[i].template \in Template
      BY DEF IsRow, Answer
    <2> QED
      BY <1>1, <1>3, <2>1, LoadFileRows DEF LoadFile
  <1>4. ASSUME NEW t \in Template, NEW x \in Forms, PanelSaveTemplate(t, x) PROVE TypeOK'
    <2>1. x \in Item /\ IsRow(x)
      BY ChecklistAssumption, RowFacts
    <2>2. \A u \in Template : IsRow(templates[u]) => IsRow(templates'[u])
      BY <1>4, <2>1 DEF PanelSaveTemplate
    <2>3. \A i \in Response : IsRow(responses[i]) => responses[i].template \in Template
      BY DEF IsRow, Answer
    <2> QED
      BY <1>1, <1>4, <2>1, <2>2, <2>3 DEF PanelSaveTemplate
  <1>5. ASSUME NEW t \in Template, PanelDeleteTemplate(t) PROVE TypeOK'
    <2>1. \A i \in Response : IsRow(responses[i]) =>
              responses[i].template \in Template /\ responses[i].template # t
      BY <1>5 DEF PanelDeleteTemplate, AnswersTo, IsRow, Answer
    <2> QED
      BY <1>1, <1>5, <2>1 DEF PanelDeleteTemplate
  <1>6. ASSUME NEW i \in Response, NEW checked \in BOOLEAN,
               NEW photo \in Photo \cup {NoPhoto}, PanelEditResponse(i, checked, photo)
        PROVE  TypeOK'
    <2>1. responses[i] \in Answer
      BY <1>6 DEF PanelEditResponse, IsRow
    <2>2. /\ [responses[i] EXCEPT !.checked = checked, !.photo = photo, !.corrected = TRUE]
                \in Answer
          /\ responses'[i].template = responses[i].template
          /\ responses[i].template \in Template
      BY <1>6, <2>1 DEF PanelEditResponse, Answer
    <2>3. responses' \in [Response -> Answer \cup {Unused, Gone}]
      BY <1>6, <2>2 DEF PanelEditResponse
    <2>4. \A j \in Response \ {i} : responses'[j] = responses[j]
      BY <1>6 DEF PanelEditResponse
    <2>5. \A j \in Response : IsRow(responses'[j]) => IsRow(templates[responses'[j].template])
      BY <1>6, <2>2, <2>4 DEF PanelEditResponse
    <2> QED
      BY <1>1, <1>6, <2>2, <2>3, <2>5 DEF PanelEditResponse
  <1>7. ASSUME NEW i \in Response, PanelDeleteResponse(i) PROVE TypeOK'
    BY <1>1, <1>7 DEF PanelDeleteResponse, IsRow
  <1> QED
    BY <1>2, <1>3, <1>4, <1>5, <1>6, <1>7 DEF Edit

LEMMA TypeNext == TypeOK /\ [Next]_vars => TypeOK'
  <1> SUFFICES ASSUME TypeOK, [Next]_vars PROVE TypeOK'
    OBVIOUS
  <1>1. CASE UNCHANGED vars
    BY <1>1 DEF vars, unitVars, TypeOK, IsRow
  <1>2. ASSUME NEW r \in Request, RequestNext(r) PROVE TypeOK'
    BY <1>2, TypeReads, TypeWrites DEF RequestNext
  <1>3. CASE Edit
    BY <1>3, TypeEdit
  <1> QED
    BY <1>1, <1>2, <1>3 DEF Next

\* Items, responses and requests stay in their types, and no response refers to
\* an item that is not there.
THEOREM ChecklistTypes == Spec => []TypeOK
  BY TypeInit, TypeNext, PTL DEF Spec

----------------------------------------------------------------------------
(* Duplicates.                                                             *)

\* The requests that found no response to an item and will insert one.
Inserting(t) == {r \in Request : req[r].pc = "not_answered" /\ req[r].answer.template = t}

\* Every response is paid for by a request that can be in flight: those there
\* are, and those yet to come.
InsertionsBounded ==
    \A t \in Template :
        Cardinality(AnswersTo(t)) + Cardinality(Inserting(t)) <= Cardinality(Request)

LEMMA FiniteParts ==
    \A t : /\ IsFiniteSet(AnswersTo(t)) /\ Cardinality(AnswersTo(t)) \in Nat
           /\ IsFiniteSet(Inserting(t)) /\ Cardinality(Inserting(t)) \in Nat
           /\ Cardinality(Inserting(t)) <= Cardinality(Request)
           /\ Cardinality(Request) \in Nat
  <1> TAKE t
  <1>1. AnswersTo(t) \subseteq Response /\ Inserting(t) \subseteq Request
    BY DEF AnswersTo, Inserting
  <1>2. IsFiniteSet(Response) /\ IsFiniteSet(Request)
    BY ChecklistAssumption
  <1>3. IsFiniteSet(AnswersTo(t)) /\ IsFiniteSet(Inserting(t))
        /\ Cardinality(Inserting(t)) <= Cardinality(Request)
    BY <1>1, <1>2, FS_Subset
  <1> QED
    BY <1>2, <1>3, FS_CardinalityType

\* A step that leaves no item more responses or more insertions to come.
LEMMA BoundKept ==
    ASSUME InsertionsBounded,
           \A t \in Template : AnswersTo(t)' \subseteq AnswersTo(t),
           \A t \in Template : Inserting(t)' \subseteq Inserting(t)
    PROVE  InsertionsBounded'
  <1> SUFFICES ASSUME NEW t \in Template
               PROVE  Cardinality(AnswersTo(t)') + Cardinality(Inserting(t)')
                          <= Cardinality(Request)
    BY DEF InsertionsBounded
  <1>1. /\ Cardinality(AnswersTo(t)') <= Cardinality(AnswersTo(t))
        /\ Cardinality(Inserting(t)') <= Cardinality(Inserting(t))
        /\ Cardinality(AnswersTo(t)') \in Nat
        /\ Cardinality(Inserting(t)') \in Nat
    BY FiniteParts, FS_Subset, FS_CardinalityType
  <1>2. /\ Cardinality(AnswersTo(t)) + Cardinality(Inserting(t)) <= Cardinality(Request)
        /\ Cardinality(AnswersTo(t)) \in Nat
        /\ Cardinality(Inserting(t)) \in Nat
        /\ Cardinality(Request) \in Nat
    BY FiniteParts DEF InsertionsBounded
  <1> QED
    BY <1>1, <1>2

LEMMA BoundGetResponse ==
    ASSUME TypeOK, InsertionsBounded, NEW r \in Request, GetResponse(r)
    PROVE  InsertionsBounded'
  <1> DEFINE u == req[r].answer.template
  <1>1. \A t \in Template : AnswersTo(t)' = AnswersTo(t)
    BY DEF GetResponse, AnswersTo
  <1>2. CASE AnswersTo(u) # {}
    <2>1. req'[r].pc = "answered" /\ \A q \in Request \ {r} : req'[q] = req[q]
      BY <1>2 DEF GetResponse, Become, TypeOK
    <2>2. \A t \in Template : Inserting(t)' \subseteq Inserting(t)
      BY <2>1 DEF Inserting
    <2> QED
      BY <1>1, <2>2, BoundKept
  <1>3. CASE AnswersTo(u) = {}
    <2>1. req[r] \in [pc : {"item_loaded", "not_answered"}, answer : Answer]
      BY RequestByPc DEF GetResponse, TypeOK
    <2>2. /\ req'[r].answer = req[r].answer
          /\ \A q \in Request \ {r} : req'[q] = req[q]
      BY <1>3, <2>1 DEF GetResponse, Become, TypeOK
    <2>3. ASSUME NEW t \in Template
          PROVE  Cardinality(AnswersTo(t)') + Cardinality(Inserting(t)')
                    <= Cardinality(Request)
      <3>1. CASE t = u
        <4>1. Cardinality(AnswersTo(t)') = 0
          BY <1>1, <1>3, <3>1, FS_EmptySet
        <4>2. Inserting(t)' \subseteq Request
          BY DEF Inserting
        <4>3. /\ Cardinality(Inserting(t)') <= Cardinality(Request)
              /\ Cardinality(Inserting(t)') \in Nat
          BY <4>2, FS_Subset, FS_CardinalityType, ChecklistAssumption
        <4> QED
          BY <4>1, <4>3, FiniteParts
      <3>2. CASE t # u
        <4>1. Inserting(t)' \subseteq Inserting(t)
          BY <2>2, <3>2 DEF Inserting
        <4>2. Cardinality(Inserting(t)') <= Cardinality(Inserting(t))
              /\ Cardinality(Inserting(t)') \in Nat
          BY <4>1, FiniteParts, FS_Subset, FS_CardinalityType
        <4> QED
          BY <1>1, <4>2, FiniteParts DEF InsertionsBounded
      <3> QED
        BY <3>1, <3>2
    <2> QED
      BY <2>3 DEF InsertionsBounded
  <1> QED
    BY <1>2, <1>3

\* An insertion that takes place turns into its response.
LEMMA BoundCreate ==
    ASSUME TypeOK, InsertionsBounded, NEW r \in Request, CreateCommit(r)
    PROVE  InsertionsBounded'
  <1>1. PICK u \in Template : u = req[r].answer.template /\ req[r].answer \in Answer
    BY RequestByPc DEF CreateCommit, TypeOK, Answer
  <1>2. PICK i \in Response : /\ responses[i] = Unused
                              /\ responses' = [responses EXCEPT ![i] = req[r].answer]
    BY DEF CreateCommit
  <1>3. req'[r] = Idle /\ \A q \in Request \ {r} : req'[q] = req[q]
    BY DEF CreateCommit, Become, TypeOK
  <1>4. /\ responses'[i] = req[r].answer /\ IsRow(responses'[i]) /\ ~IsRow(responses[i])
        /\ \A j \in Response \ {i} : responses'[j] = responses[j]
    BY <1>1, <1>2, RowFacts DEF TypeOK, IsRow
  <1>5. \A t \in Template \ {u} :
            AnswersTo(t)' = AnswersTo(t) /\ Inserting(t)' = Inserting(t)
    BY <1>1, <1>3, <1>4 DEF AnswersTo, Inserting, Idle
  <1>6. AnswersTo(u)' = AnswersTo(u) \cup {i} /\ i \notin AnswersTo(u)
    BY <1>1, <1>4 DEF AnswersTo
  <1>7. Inserting(u)' = Inserting(u) \ {r} /\ r \in Inserting(u)
    BY <1>1, <1>3 DEF Inserting, Idle, CreateCommit
  <1>8. Cardinality(AnswersTo(u)') = Cardinality(AnswersTo(u)) + 1
    <2>1. IsFiniteSet(AnswersTo(u))
      BY FiniteParts
    <2> QED
      BY <1>6, <2>1, FS_AddElement
  <1>10. Cardinality(Inserting(u)') = Cardinality(Inserting(u)) - 1
    <2>1. IsFiniteSet(Inserting(u))
      BY FiniteParts
    <2> QED
      BY <1>7, <2>1, FS_RemoveElement
  <1>9. Cardinality(AnswersTo(u)') + Cardinality(Inserting(u)') <= Cardinality(Request)
    BY <1>1, <1>8, <1>10, FiniteParts DEF InsertionsBounded
  <1> QED
    BY <1>5, <1>9 DEF InsertionsBounded

LEMMA BoundUpdate ==
    ASSUME TypeOK, InsertionsBounded, NEW r \in Request, UpdateCommit(r)
    PROVE  InsertionsBounded'
  <1>1. req[r].row \in Response /\ req[r].answer \in Answer /\ req[r].was \in Answer
    BY RequestByPc DEF UpdateCommit, TypeOK
  <1>2. responses[req[r].row] \in Answer
    BY <1>1 DEF UpdateCommit, TypeOK, IsRow
  <1>3. Updated(r).template = responses[req[r].row].template
    BY <1>1, <1>2 DEF Updated, Answer
  <1>4. \A t \in Template : AnswersTo(t)' \subseteq AnswersTo(t)
    BY <1>1, <1>3 DEF UpdateCommit, AnswersTo, TypeOK
  <1>5. \A t \in Template : Inserting(t)' \subseteq Inserting(t)
    BY DEF UpdateCommit, Become, Inserting, TypeOK, Idle
  <1> QED
    BY <1>4, <1>5, BoundKept

LEMMA BoundEdit ==
    ASSUME TypeOK, InsertionsBounded, Edit
    PROVE  InsertionsBounded'
  <1>1. \A t \in Template : Inserting(t)' \subseteq Inserting(t)
    BY DEF Edit, Inserting
  <1>2. \A j \in Response : IsRow(responses'[j]) =>
            IsRow(responses[j]) /\ responses'[j].template = responses[j].template
    <2>1. ASSUME NEW i \in Response, NEW checked \in BOOLEAN,
                 NEW photo \in Photo \cup {NoPhoto}, PanelEditResponse(i, checked, photo),
                 NEW j \in Response, IsRow(responses'[j])
          PROVE  IsRow(responses[j]) /\ responses'[j].template = responses[j].template
      <3>1. responses[i] \in Answer /\ IsRow(responses[i])
        BY <2>1 DEF PanelEditResponse, TypeOK, IsRow
      <3> QED
        BY <2>1, <3>1 DEF PanelEditResponse, TypeOK, Answer
    <2>2. ASSUME NEW i \in Response, PanelDeleteResponse(i),
                 NEW j \in Response, IsRow(responses'[j])
          PROVE  responses'[j] = responses[j]
      BY <2>2 DEF PanelDeleteResponse, TypeOK, IsRow
    <2> QED
      BY <2>1, <2>2 DEF Edit, DeleteUnit, LoadFile, PanelSaveTemplate, PanelDeleteTemplate
  <1>3. \A t \in Template : AnswersTo(t)' \subseteq AnswersTo(t)
    BY <1>2 DEF AnswersTo
  <1> QED
    BY <1>1, <1>3, BoundKept

LEMMA BoundNext == TypeOK /\ InsertionsBounded /\ [Next]_vars => InsertionsBounded'
  <1> SUFFICES ASSUME TypeOK, InsertionsBounded, [Next]_vars PROVE InsertionsBounded'
    OBVIOUS
  <1>1. CASE UNCHANGED vars
    BY <1>1, BoundKept DEF vars, AnswersTo, Inserting
  <1>2. ASSUME NEW r \in Request,
               \/ \E t \in Template, checked \in BOOLEAN, photo \in Photo \cup {NoPhoto},
                     person \in Person : UpdateLoad(r, t, checked, photo, person)
               \/ TransitionLoad(r)
               \/ ChecklistGate(r)
               \/ TransitionCommit(r)
               \/ ReportLoad(r)
               \/ CollectStage(r)
               \/ End(r)
        PROVE  InsertionsBounded'
    <2>1. /\ responses' = responses
          /\ \A q \in Request \ {r} : req'[q] = req[q]
      BY <1>2 DEF UpdateLoad, TransitionLoad, ChecklistGate, TransitionCommit, ReportLoad,
                  CollectStage, End, Become, TypeOK
    <2>2. CASE CollectStage(r)
      <3>1. req[r] \in [pc : {"collecting"}, from : Stages \cup {Document},
                        left : SUBSET Stages]
        BY <2>2, RequestByPc DEF CollectStage, TypeOK
      <3>2. req'[r].pc # "not_answered"
        BY <2>2, <3>1 DEF CollectStage, Become, TypeOK
      <3> QED
        BY <2>1, <3>2, BoundKept DEF AnswersTo, Inserting
    <2>3. CASE ~CollectStage(r)
      <3>1. req'[r].pc # "not_answered"
        BY <1>2, <2>3 DEF UpdateLoad, TransitionLoad, ChecklistGate, TransitionCommit,
                    ReportLoad, End, Become, TypeOK, Idle
      <3> QED
        BY <2>1, <3>1, BoundKept DEF AnswersTo, Inserting
    <2> QED
      BY <2>2, <2>3
  <1>3. CASE Edit
    BY <1>3, BoundEdit
  <1> QED
    BY <1>1, <1>2, <1>3, BoundGetResponse, BoundCreate, BoundUpdate DEF Next, RequestNext

\* However many handlers find an item without a response at once, it never has
\* more responses than requests can be in flight.
THEOREM DuplicatesAreBounded == Spec => []ResponsesBounded
  <1>1. Init => InsertionsBounded
    <2> SUFFICES ASSUME Init, NEW t \in Template
                 PROVE  Cardinality(AnswersTo(t)) + Cardinality(Inserting(t))
                            <= Cardinality(Request)
      BY DEF InsertionsBounded
    <2>1. AnswersTo(t) = {} /\ Inserting(t) = {}
      BY DEF Init, AnswersTo, Inserting, IsRow, Idle
    <2> QED
      BY <2>1, FS_EmptySet, FiniteParts
  <1>2. InsertionsBounded => ResponsesBounded
    BY FiniteParts DEF InsertionsBounded, ResponsesBounded
  <1> QED
    BY <1>1, <1>2, BoundNext, ChecklistTypes, PTL DEF Spec

----------------------------------------------------------------------------
(* Ticks.                                                                  *)

\* Whoever checked a response is remembered, and the response a handler found
\* is, as long as it exists, the one of the item it updates.
TicksRemembered ==
    /\ \A i \in Response :
        IsRow(responses[i]) /\ responses[i].checked => responses[i].template \in ticked
    /\ \A r \in Request : req[r].pc = "answered" =>
        /\ responses[req[r].row] # Unused
        /\ IsRow(responses[req[r].row]) =>
                responses[req[r].row].template = req[r].answer.template

\* An id is used once, and its row never changes its item.
RowsStay ==
    \A j \in Response : responses[j] # Unused =>
        /\ responses'[j] # Unused
        /\ IsRow(responses'[j]) =>
                IsRow(responses[j]) /\ responses'[j].template = responses[j].template

\* What the steps that write a response make of it.
LEMMA UpdatedRow ==
    ASSUME TypeOK, NEW r \in Request, UpdateCommit(r)
    PROVE  /\ req[r].row \in Response
           /\ req[r].answer \in Answer
           /\ responses[req[r].row] \in Answer
           /\ IsRow(responses[req[r].row])
           /\ responses'[req[r].row] = Updated(r)
           /\ Updated(r) \in Answer
           /\ IsRow(Updated(r))
           /\ Updated(r).template = responses[req[r].row].template
           /\ \A j \in Response \ {req[r].row} : responses'[j] = responses[j]
  <1>1. req[r].row \in Response /\ req[r].answer \in Answer /\ req[r].was \in Answer
    BY RequestByPc DEF UpdateCommit, TypeOK
  <1>2. responses[req[r].row] \in Answer
    BY <1>1 DEF UpdateCommit, TypeOK, IsRow
  <1>3. Updated(r) \in Answer /\ Updated(r).template = responses[req[r].row].template
    BY <1>1, <1>2 DEF Updated, Answer
  <1> QED
    BY <1>1, <1>2, <1>3, RowFacts DEF UpdateCommit, TypeOK

LEMMA EditedRow ==
    ASSUME TypeOK, NEW i \in Response, NEW checked \in BOOLEAN,
           NEW photo \in Photo \cup {NoPhoto}, PanelEditResponse(i, checked, photo)
    PROVE  /\ IsRow(responses[i]) /\ responses[i] \in Answer
           /\ IsRow(responses'[i]) /\ responses'[i] \in Answer
           /\ responses'[i].template = responses[i].template
           /\ responses'[i].checked = checked
           /\ responses'[i].corrected
           /\ \A j \in Response \ {i} : responses'[j] = responses[j]
  <1>1. IsRow(responses[i]) /\ responses[i] \in Answer
    BY DEF PanelEditResponse, TypeOK, IsRow
  <1>2. responses'[i] = [responses[i] EXCEPT !.checked = checked, !.photo = photo,
                                             !.corrected = TRUE]
        /\ \A j \in Response \ {i} : responses'[j] = responses[j]
    BY DEF PanelEditResponse, TypeOK
  <1>3. responses'[i] \in Answer /\ responses'[i].template = responses[i].template
        /\ responses'[i].checked = checked /\ responses'[i].corrected
    BY <1>1, <1>2 DEF Answer
  <1> QED
    BY <1>1, <1>2, <1>3, RowFacts

\* The edits that write no response.
LEMMA OtherEdits ==
    ASSUME Edit
    PROVE  \/ UNCHANGED <<responses, ticked>>
           \/ \E i \in Response :
                \/ \E checked \in BOOLEAN, photo \in Photo \cup {NoPhoto} :
                        PanelEditResponse(i, checked, photo)
                \/ PanelDeleteResponse(i)
  BY DEF Edit, DeleteUnit, LoadFile, PanelSaveTemplate, PanelDeleteTemplate

\* The requests that write no response.
LEMMA OtherRequests ==
    ASSUME NEW r \in Request, RequestNext(r)
    PROVE  UNCHANGED <<responses, ticked>> \/ CreateCommit(r) \/ UpdateCommit(r)
  BY DEF RequestNext, UpdateLoad, GetResponse, TransitionLoad, ChecklistGate,
         TransitionCommit, ReportLoad, CollectStage, End

LEMMA RowsStayNext == TypeOK /\ [Next]_vars => RowsStay
  <1> SUFFICES ASSUME TypeOK, [Next]_vars PROVE RowsStay
    OBVIOUS
  <1>1. CASE UNCHANGED responses
    BY <1>1 DEF RowsStay
  <1>2. ASSUME NEW r \in Request, CreateCommit(r) PROVE RowsStay
    BY <1>2 DEF CreateCommit, RowsStay, TypeOK
  <1>3. ASSUME NEW r \in Request, UpdateCommit(r) PROVE RowsStay
    <2>1. Updated(r) # Unused
      BY <1>3, UpdatedRow DEF IsRow
    <2> QED
      BY <1>3, <2>1, UpdatedRow DEF RowsStay
  <1>4. ASSUME NEW i \in Response, NEW checked \in BOOLEAN,
               NEW photo \in Photo \cup {NoPhoto}, PanelEditResponse(i, checked, photo)
        PROVE  RowsStay
    <2>1. responses'[i] # Unused
      BY <1>4, EditedRow DEF IsRow
    <2> QED
      BY <1>4, <2>1, EditedRow DEF RowsStay
  <1>5. ASSUME NEW i \in Response, PanelDeleteResponse(i) PROVE RowsStay
    BY <1>5 DEF PanelDeleteResponse, RowsStay, TypeOK, IsRow, Unused, Gone
  <1> QED
    BY <1>1, <1>2, <1>3, <1>4, <1>5, OtherEdits, OtherRequests DEF Next, vars

LEMMA CheckedWereTicked ==
    ASSUME TypeOK, TicksRemembered, [Next]_vars,
           NEW j \in Response, IsRow(responses'[j]), responses'[j].checked
    PROVE  responses'[j].template \in ticked'
  <1>1. CASE UNCHANGED <<responses, ticked>>
    BY <1>1 DEF TicksRemembered
  <1>2. ASSUME NEW r \in Request, CreateCommit(r) PROVE responses'[j].template \in ticked'
    <2>1. PICK i \in Response : responses' = [responses EXCEPT ![i] = req[r].answer]
      BY <1>2 DEF CreateCommit
    <2>2. CASE i = j
      BY <1>2, <2>1, <2>2 DEF CreateCommit, Tick, TypeOK
    <2>3. CASE i # j
      BY <1>2, <2>1, <2>3 DEF CreateCommit, Tick, TypeOK, TicksRemembered
    <2> QED
      BY <2>2, <2>3
  <1>3. ASSUME NEW r \in Request, UpdateCommit(r) PROVE responses'[j].template \in ticked'
    <2>1. ticked \subseteq ticked'
      BY <1>3 DEF UpdateCommit, Tick
    <2>2. CASE j # req[r].row
      BY <1>3, <2>1, <2>2, UpdatedRow DEF TicksRemembered
    <2>3. CASE j = req[r].row /\ req[r].answer.checked
      <3>1. responses'[j].template = req[r].answer.template
        <4>1. responses[j].template = req[r].answer.template
          BY <1>3, <2>3 DEF TicksRemembered, UpdateCommit
        <4> QED
          BY <1>3, <2>3, <4>1, UpdatedRow
      <3>2. ticked' = IF req[r].answer.checked THEN ticked \cup {req[r].answer.template}
                                               ELSE ticked
        BY <1>3 DEF UpdateCommit, Tick
      <3> QED
        BY <2>3, <3>1, <3>2
    <2>4. CASE j = req[r].row /\ ~req[r].answer.checked
      <3>1. Updated(r).checked \in {req[r].answer.checked, responses[j].checked}
        <4>1. responses[j] \in Answer
          BY <1>3, <2>4, UpdatedRow
        <4> QED
          BY <2>4, <4>1 DEF Updated, Answer
      <3>2. responses'[j] = Updated(r)
        BY <1>3, <2>4, UpdatedRow
      <3>3. responses[j].checked
        BY <2>4, <3>1, <3>2
      <3> QED
        BY <1>3, <2>1, <2>4, <3>3, UpdatedRow DEF TicksRemembered
    <2> QED
      BY <2>2, <2>3, <2>4
  <1>4. ASSUME NEW i \in Response, NEW checked \in BOOLEAN,
               NEW photo \in Photo \cup {NoPhoto}, PanelEditResponse(i, checked, photo)
        PROVE  responses'[j].template \in ticked'
    <2>1. /\ responses'[i].template = responses[i].template
          /\ responses'[i].checked = checked
          /\ \A k \in Response \ {i} : responses'[k] = responses[k]
      BY <1>4, EditedRow
    <2>2. ticked' = IF checked THEN ticked \cup {responses[i].template} ELSE ticked
      BY <1>4 DEF PanelEditResponse
    <2>3. CASE i = j
      BY <2>1, <2>2, <2>3
    <2>4. CASE i # j
      BY <2>1, <2>2, <2>4 DEF TicksRemembered
    <2> QED
      BY <2>3, <2>4
  <1>5. ASSUME NEW i \in Response, PanelDeleteResponse(i)
        PROVE  responses'[j].template \in ticked'
    BY <1>5 DEF PanelDeleteResponse, TypeOK, IsRow, TicksRemembered
  <1> QED
    BY <1>1, <1>2, <1>3, <1>4, <1>5, OtherEdits, OtherRequests DEF Next, vars

\* Only GetResponse makes a handler hold a row, and it holds one that is there.
LEMMA HeldRows ==
    ASSUME TypeOK, [Next]_vars, NEW r \in Request, req'[r].pc = "answered"
    PROVE  \/ req'[r] = req[r]
           \/ /\ responses' = responses
              /\ req'[r].row \in Response
              /\ IsRow(responses[req'[r].row])
              /\ responses[req'[r].row].template = req'[r].answer.template
  <1>1. CASE UNCHANGED req
    BY <1>1
  <1>2. ASSUME NEW q \in Request, RequestNext(q), q # r PROVE req'[r] = req[r]
    BY <1>2 DEF RequestNext, UpdateLoad, GetResponse, CreateCommit, UpdateCommit,
                TransitionLoad, ChecklistGate, TransitionCommit, ReportLoad, CollectStage,
                End, Become, TypeOK
  <1>3. CASE GetResponse(r)
    <2>1. req[r] \in [pc : {"item_loaded", "not_answered"}, answer : Answer]
      BY <1>3, RequestByPc DEF GetResponse, TypeOK
    <2>2. [req[r] EXCEPT !.pc = "not_answered"].pc = "not_answered"
      BY <2>1
    <2>3. PICK i \in AnswersTo(req[r].answer.template) :
              req'[r] = [pc |-> "answered", answer |-> req[r].answer, row |-> i,
                         was |-> responses[i]]
      BY <1>3, <2>2 DEF GetResponse, Become, TypeOK
    <2>4. req'[r].row = i /\ req'[r].answer = req[r].answer
      BY <2>3
    <2> QED
      BY <1>3, <2>4 DEF GetResponse, AnswersTo
  <1>4. CASE CollectStage(r)
    <2>1. req[r] \in [pc : {"collecting"}, from : Stages \cup {Document},
                      left : SUBSET Stages]
      BY <1>4, RequestByPc DEF CollectStage, TypeOK
    <2>2. req'[r].pc # "answered"
      BY <1>4, <2>1 DEF CollectStage, Become, TypeOK
    <2> QED
      BY <2>2
  <1>5. CASE RequestNext(r) /\ ~GetResponse(r) /\ ~CollectStage(r)
    BY <1>5 DEF RequestNext, UpdateLoad, CreateCommit, UpdateCommit, TransitionLoad,
                ChecklistGate, TransitionCommit, ReportLoad, End, Become, TypeOK, Idle
  <1> QED
    BY <1>1, <1>2, <1>3, <1>4, <1>5 DEF Next, Edit, vars

LEMMA TicksNext == TypeOK /\ TicksRemembered /\ [Next]_vars => TicksRemembered'
  <1> SUFFICES ASSUME TypeOK, TicksRemembered, [Next]_vars PROVE TicksRemembered'
    OBVIOUS
  <1>1. \A j \in Response :
            IsRow(responses'[j]) /\ responses'[j].checked => responses'[j].template \in ticked'
    BY CheckedWereTicked
  <1>2. ASSUME NEW r \in Request, req'[r].pc = "answered"
        PROVE  /\ responses'[req'[r].row] # Unused
               /\ IsRow(responses'[req'[r].row]) =>
                    responses'[req'[r].row].template = req'[r].answer.template
    <2>1. CASE req'[r] = req[r]
      <3>1. req[r].row \in Response
        BY <1>2, <2>1, RequestByPc DEF TypeOK
      <3> QED
        BY <1>2, <2>1, <3>1, RowsStayNext DEF RowsStay, TicksRemembered
    <2>2. CASE req'[r] # req[r]
      BY <1>2, <2>2, HeldRows DEF IsRow
    <2> QED
      BY <2>1, <2>2
  <1> QED
    BY <1>1, <1>2 DEF TicksRemembered

\* A complete stage has a checked response to each mandatory item, and so
\* somebody's tick.
LEMMA CompleteWasTicked ==
    ASSUME TicksRemembered, NEW s, Incomplete(s) = {}
    PROVE  MandatoryOf(s) \subseteq ticked
  BY DEF Incomplete, AnswersTo, TicksRemembered

\* A stage that a gate lets pass was complete when the gate looked at it.
LEMMA GatesLook ==
    ASSUME TypeOK, [Next]_vars, NEW r \in Request, NEW s \in Stages,
           \/ req[r].pc = "leaving" /\ req[r].from = s /\ req'[r].pc \notin {"leaving", "idle"}
           \/ req[r].pc = "collecting" /\ s \in req[r].left
                /\ \/ req'[r].pc = "collected"
                   \/ req'[r].pc = "collecting" /\ s \notin req'[r].left
    PROVE  Incomplete(s) = {}
  <1>1. req'[r] # req[r]
    OBVIOUS
  <1>2. RequestNext(r)
    BY <1>1 DEF Next, Edit, vars, RequestNext, UpdateLoad, GetResponse, CreateCommit,
                UpdateCommit, TransitionLoad, ChecklistGate, TransitionCommit, ReportLoad,
                CollectStage, End, Become, TypeOK
  <1>3. CASE req[r].pc = "leaving"
    BY <1>2, <1>3 DEF RequestNext, UpdateLoad, GetResponse, CreateCommit, UpdateCommit,
                TransitionLoad, ChecklistGate, TransitionCommit, ReportLoad, CollectStage,
                End, Begins, Become, TypeOK, Idle
  <1>4. CASE req[r].pc = "collecting"
    <2>1. CollectStage(r)
      BY <1>2, <1>4 DEF RequestNext, UpdateLoad, GetResponse, CreateCommit, UpdateCommit,
                TransitionLoad, ChecklistGate, TransitionCommit, ReportLoad, End, Begins,
                Become, TypeOK, Idle
    <2>2. req[r] \in [pc : {"collecting"}, from : Stages \cup {Document},
                      left : SUBSET Stages]
      BY <1>4, RequestByPc DEF TypeOK
    <2>3. PICK t \in req[r].left :
            /\ Incomplete(t) = {}
            /\ Become(r, IF req[r].left = {t}
                         THEN [pc |-> "collected", from |-> req[r].from]
                         ELSE [req[r] EXCEPT !.left = @ \ {t}])
      BY <2>1 DEF CollectStage
    <2>4. CASE req[r].left = {t}
      BY <1>4, <2>3, <2>4
    <2>5. CASE req[r].left # {t}
      <3>1. req'[r] = [req[r] EXCEPT !.left = @ \ {t}]
        BY <2>3, <2>5 DEF Become, TypeOK
      <3>2. req'[r].pc = "collecting" /\ req'[r].left = req[r].left \ {t}
        BY <2>2, <3>1
      <3> QED
        BY <1>4, <2>3, <3>2
    <2> QED
      BY <2>4, <2>5
  <1> QED
    BY <1>3, <1>4

\* The gates of transitions and documents let no stage pass with a mandatory
\* item nobody ever ticked.
THEOREM GatesNeedTicks == Spec => GatesAskForTicks
  <1>1. Init => TicksRemembered
    BY DEF Init, TicksRemembered, IsRow, Idle
  <1>2. TypeOK /\ TicksRemembered /\ [Next]_vars =>
            [\A r \in Request, s \in Stages :
               \/ req[r].pc = "leaving" /\ req[r].from = s
                    /\ req'[r].pc \notin {"leaving", "idle"}
               \/ req[r].pc = "collecting" /\ s \in req[r].left
                    /\ \/ req'[r].pc = "collected"
                       \/ req'[r].pc = "collecting" /\ s \notin req'[r].left
               => MandatoryOf(s) \subseteq ticked]_vars
    BY GatesLook, CompleteWasTicked
  <1> QED
    BY <1>1, <1>2, TicksNext, ChecklistTypes, PTL DEF Spec, GatesAskForTicks

----------------------------------------------------------------------------
(* One handler at a time.                                                  *)

\* The columns of an answer agree.
Sound(a) ==
    /\ a.checked <=> a.by # Nobody
    /\ a.checked /\ a.needed => a.photo # NoPhoto

\* What the one handler in flight may rely on.
HandlerSound(r) ==
    /\ req[r].pc \in {"item_loaded", "not_answered", "answered"} => Sound(req[r].answer)
    /\ req[r].pc = "not_answered" => AnswersTo(req[r].answer.template) = {}
    /\ req[r].pc = "answered" => responses[req[r].row] = req[r].was
    /\ req[r].pc = "passed" => Incomplete(req[r].from) = {}
    /\ req[r].pc = "collecting" => \A s \in Stages \ req[r].left : Incomplete(s) = {}
    /\ req[r].pc = "collected" => \A s \in Stages : Incomplete(s) = {}

OneHandler == \A q, r \in Request : req[q] # Idle /\ req[r] # Idle => q = r

RowSound(i) ==
    IsRow(responses[i]) =>
        /\ AnswersTo(responses[i].template) = {i}
        /\ ~responses[i].corrected => Sound(responses[i])

InTurn ==
    ~overlap => /\ OneHandler
                /\ \A r \in Request : HandlerSound(r)
                /\ \A i \in Response : RowSound(i)

LEMMA IdleSound == ASSUME NEW r, req[r] = Idle PROVE HandlerSound(r)
  BY DEF HandlerSound, Idle

\* A handler that only reads.
LEMMA InTurnReads ==
    ASSUME TypeOK, InTurn, ~overlap, NEW r \in Request, RequestNext(r),
           UNCHANGED <<responses, templates>>
    PROVE  InTurn'
  <1>1. OneHandler /\ (\A q \in Request : HandlerSound(q)) /\ (\A i \in Response : RowSound(i))
    BY DEF InTurn
  <1>2. /\ \A q \in Request \ {r} : req'[q] = req[q] /\ req[q] = Idle
        /\ OneHandler'
    BY <1>1 DEF RequestNext, UpdateLoad, GetResponse, CreateCommit, UpdateCommit,
                TransitionLoad, ChecklistGate, TransitionCommit, ReportLoad, CollectStage,
                End, Begins, Alone, Become, TypeOK, OneHandler, Idle
  <1>3. \A i \in Response : RowSound(i)'
    BY <1>1 DEF RowSound, AnswersTo
  <1>4. \A q \in Request \ {r} : HandlerSound(q)'
    BY <1>2, IdleSound DEF HandlerSound, Idle
  <1>5. (\A t : AnswersTo(t)' = AnswersTo(t)) /\ (\A s : Incomplete(s)' = Incomplete(s))
    BY DEF AnswersTo, Incomplete, MandatoryOf, ItemsOf
  <1>6. HandlerSound(r)'
    <2>1. ASSUME NEW t \in Template, NEW checked \in BOOLEAN,
                 NEW photo \in Photo \cup {NoPhoto}, NEW person \in Person,
                 UpdateLoad(r, t, checked, photo, person)
          PROVE  HandlerSound(r)'
      <3> DEFINE answer == [template |-> t, checked |-> checked, photo |-> photo,
                            by |-> IF checked THEN person ELSE Nobody,
                            needed |-> templates[t].photo, corrected |-> FALSE]
      <3>1. person # Nobody
        BY ChecklistAssumption
      <3>2. req'[r] = [pc |-> "item_loaded", answer |-> answer]
        BY <2>1 DEF UpdateLoad, Become, TypeOK
      <3>3. checked /\ templates[t].photo => photo # NoPhoto
        BY <2>1 DEF UpdateLoad
      <3>4. Sound(answer)
        BY <3>1, <3>3 DEF Sound
      <3>5. req'[r].pc = "item_loaded" /\ req'[r].answer = answer
        BY <3>2
      <3> QED
        BY <3>4, <3>5 DEF HandlerSound, Sound
    <2>2. ASSUME GetResponse(r) PROVE HandlerSound(r)'
      <3>1. req[r] \in [pc : {"item_loaded", "not_answered"}, answer : Answer]
        BY <2>2, RequestByPc DEF GetResponse, TypeOK
      <3>2. Sound(req[r].answer)
        BY <1>1, <2>2 DEF HandlerSound, GetResponse
      <3>3. CASE /\ AnswersTo(req[r].answer.template) = {}
                 /\ Become(r, [req[r] EXCEPT !.pc = "not_answered"])
        <4>1. req'[r].pc = "not_answered" /\ req'[r].answer = req[r].answer
          BY <3>1, <3>3 DEF Become, TypeOK
        <4> QED
          BY <1>5, <3>2, <3>3, <4>1 DEF HandlerSound, Sound
      <3>4. ASSUME NEW i \in AnswersTo(req[r].answer.template),
                   Become(r, [pc |-> "answered", answer |-> req[r].answer, row |-> i,
                              was |-> responses[i]])
            PROVE  HandlerSound(r)'
        <4>1. /\ req'[r].pc = "answered" /\ req'[r].answer = req[r].answer
              /\ req'[r].row = i /\ req'[r].was = responses[i]
          BY <3>4 DEF Become, TypeOK
        <4> QED
          BY <3>2, <4>1 DEF HandlerSound, Sound
      <3> QED
        BY <2>2, <3>3, <3>4 DEF GetResponse
    <2>3. CASE req'[r] = Idle
      BY <2>3 DEF HandlerSound, Idle
    <2>4. CASE TransitionLoad(r)
      BY <2>4 DEF TransitionLoad, Become, HandlerSound, TypeOK
    <2>5. CASE ChecklistGate(r)
      <3>1. req[r].from \in Stages
        BY <2>5, RequestByPc DEF ChecklistGate, TypeOK
      <3>2. Incomplete(req[r].from) = {}
        BY <2>5 DEF ChecklistGate
      <3>3. \/ req'[r] = [pc |-> "collecting", from |-> req[r].from, left |-> Stages]
            \/ req'[r] = [pc |-> "passed", from |-> req[r].from]
        BY <2>5 DEF ChecklistGate, Become, TypeOK
      <3> QED
        BY <1>5, <3>2, <3>3 DEF HandlerSound
    <2>6. CASE ReportLoad(r)
      BY <2>6 DEF ReportLoad, Become, HandlerSound, TypeOK
    <2>7. CASE CollectStage(r)
      <3>1. req[r] \in [pc : {"collecting"}, from : Stages \cup {Document},
                        left : SUBSET Stages]
        BY <2>7, RequestByPc DEF CollectStage, TypeOK
      <3>2. \A s \in Stages \ req[r].left : Incomplete(s) = {}
        BY <1>1, <2>7 DEF HandlerSound, CollectStage
      <3>3. PICK t \in req[r].left :
              /\ Incomplete(t) = {}
              /\ Become(r, IF req[r].left = {t}
                           THEN [pc |-> "collected", from |-> req[r].from]
                           ELSE [req[r] EXCEPT !.left = @ \ {t}])
        BY <2>7 DEF CollectStage
      <3>4. CASE req[r].left = {t}
        <4>1. req'[r] = [pc |-> "collected", from |-> req[r].from]
          BY <3>3, <3>4 DEF Become, TypeOK
        <4>2. \A s \in Stages : Incomplete(s) = {}
          BY <3>2, <3>3, <3>4
        <4> QED
          BY <1>5, <4>1, <4>2 DEF HandlerSound
      <3>5. CASE req[r].left # {t}
        <4>1. req'[r].pc = "collecting" /\ req'[r].left = req[r].left \ {t}
          BY <3>1, <3>3, <3>5 DEF Become, TypeOK
        <4>2. \A s \in Stages \ req'[r].left : Incomplete(s) = {}
          BY <3>2, <3>3, <4>1
        <4> QED
          BY <1>5, <4>1, <4>2 DEF HandlerSound
      <3> QED
        BY <3>4, <3>5
    <2> QED
      BY <2>1, <2>2, <2>3, <2>4, <2>5, <2>6, <2>7
         DEF RequestNext, CreateCommit, UpdateCommit, TransitionCommit, End, Become, TypeOK
  <1> QED
    BY <1>2, <1>3, <1>4, <1>6 DEF InTurn

\* Who writes is the only one in flight, and done.
LEMMA AllIdleAfterWrite ==
    ASSUME TypeOK, InTurn, ~overlap,
           \/ \E r \in Request : CreateCommit(r) \/ UpdateCommit(r)
           \/ Edit
    PROVE  /\ \A q \in Request : req'[q] = Idle
           /\ OneHandler'
           /\ \A q \in Request : HandlerSound(q)'
  <1>1. \A q \in Request : req'[q] = Idle
    BY DEF InTurn, OneHandler, CreateCommit, UpdateCommit, Edit, Alone, Become, TypeOK, Idle
  <1> QED
    BY <1>1 DEF OneHandler, HandlerSound, Idle

\* The first response to an item.
LEMMA InTurnCreate ==
    ASSUME TypeOK, InTurn, ~overlap, NEW r \in Request, CreateCommit(r)
    PROVE  \A j \in Response : RowSound(j)'
  <1>1. PICK u \in Template :
            /\ u = req[r].answer.template /\ req[r].answer \in Answer
            /\ Sound(req[r].answer) /\ AnswersTo(u) = {}
    BY RequestByPc DEF CreateCommit, TypeOK, Answer, InTurn, HandlerSound
  <1>2. PICK i \in Response : /\ responses[i] = Unused
                              /\ responses' = [responses EXCEPT ![i] = req[r].answer]
    BY DEF CreateCommit
  <1>3. /\ responses'[i] = req[r].answer /\ IsRow(responses'[i]) /\ ~IsRow(responses[i])
        /\ \A j \in Response \ {i} : responses'[j] = responses[j]
    BY <1>1, <1>2, RowFacts DEF TypeOK, IsRow
  <1>4. AnswersTo(u)' = {i} /\ \A t : t # u => AnswersTo(t)' = AnswersTo(t)
    BY <1>1, <1>3 DEF AnswersTo
  <1>5. RowSound(i)'
    BY <1>1, <1>3, <1>4 DEF RowSound, Sound
  <1>6. ASSUME NEW j \in Response \ {i}, IsRow(responses'[j])
        PROVE  /\ AnswersTo(responses[j].template)' = {j}
               /\ ~responses'[j].corrected => Sound(responses'[j])
    <2>1. responses'[j] = responses[j] /\ IsRow(responses[j]) /\ RowSound(j)
      BY <1>3, <1>6 DEF InTurn
    <2>2. responses[j].template # u
      BY <1>1, <2>1 DEF AnswersTo
    <2> QED
      BY <1>4, <2>1, <2>2 DEF RowSound
  <1>7. \A j \in Response \ {i} : RowSound(j)'
    BY <1>6 DEF RowSound, Sound
  <1> QED
    BY <1>5, <1>7

\* The row is as the handler found it: the columns it does not send have the
\* values it wants.
LEMMA InTurnUpdate ==
    ASSUME TypeOK, InTurn, ~overlap, NEW r \in Request, UpdateCommit(r)
    PROVE  \A j \in Response : RowSound(j)'
  <1> DEFINE k == req[r].row
  <1>1. /\ req[r].answer \in Answer /\ responses[k] = req[r].was /\ req[r].was \in Answer
        /\ Sound(req[r].answer)
    BY UpdatedRow DEF InTurn, HandlerSound, UpdateCommit
  <1>2. /\ Updated(r).checked = req[r].answer.checked
        /\ Updated(r).by = req[r].answer.by
        /\ Updated(r).photo = req[r].answer.photo
        /\ Updated(r).needed = req[r].answer.needed
    BY <1>1 DEF Updated, Answer
  <1>3. Sound(Updated(r))
    BY <1>1, <1>2 DEF Sound
  <1>4. \A t : AnswersTo(t)' = AnswersTo(t)
    BY UpdatedRow DEF AnswersTo
  <1>5. ASSUME NEW j \in Response, IsRow(responses'[j])
        PROVE  /\ AnswersTo(responses[j].template)' = {j}
               /\ ~responses'[j].corrected => Sound(responses'[j])
    <2>1. IsRow(responses[j]) /\ responses'[j].template = responses[j].template
      BY <1>5, UpdatedRow
    <2>2. RowSound(j)
      BY DEF InTurn
    <2>3. CASE j = k
      BY <1>3, <1>4, <2>1, <2>2, <2>3, UpdatedRow DEF RowSound
    <2>4. CASE j # k
      BY <1>4, <2>1, <2>2, <2>4, UpdatedRow DEF RowSound
    <2> QED
      BY <2>3, <2>4
  <1> QED
    BY <1>5 DEF RowSound, Sound

LEMMA InTurnEdit ==
    ASSUME TypeOK, InTurn, ~overlap, Edit
    PROVE  \A j \in Response : RowSound(j)'
  <1>1. \A j \in Response : RowSound(j)
    BY DEF InTurn
  <1>2. CASE UNCHANGED <<responses, ticked>>
    BY <1>1, <1>2 DEF RowSound, AnswersTo
  <1>3. ASSUME NEW i \in Response, NEW checked \in BOOLEAN,
               NEW photo \in Photo \cup {NoPhoto}, PanelEditResponse(i, checked, photo),
               NEW j \in Response, IsRow(responses'[j])
        PROVE  /\ AnswersTo(responses[j].template)' = {j}
               /\ ~responses'[j].corrected => Sound(responses'[j])
    <2>1. \A t : AnswersTo(t)' = AnswersTo(t)
      BY <1>3, EditedRow DEF AnswersTo
    <2>2. IsRow(responses[j]) /\ responses'[j].template = responses[j].template
      BY <1>3, EditedRow
    <2>3. responses'[j].corrected \/ responses'[j] = responses[j]
      BY <1>3, EditedRow
    <2> QED
      BY <1>1, <2>1, <2>2, <2>3 DEF RowSound
  <1>4. ASSUME NEW i \in Response, PanelDeleteResponse(i),
               NEW j \in Response, IsRow(responses'[j])
        PROVE  /\ AnswersTo(responses[j].template)' = {j}
               /\ ~responses'[j].corrected => Sound(responses'[j])
    <2>1. j # i /\ ~IsRow(responses'[i]) /\ \A l \in Response \ {i} : responses'[l] = responses[l]
      BY <1>4 DEF PanelDeleteResponse, TypeOK, IsRow
    <2>2. \A t : AnswersTo(t)' = AnswersTo(t) \ {i}
      BY <2>1 DEF AnswersTo
    <2> QED
      BY <1>1, <1>4, <2>1, <2>2 DEF RowSound
  <1>5. CASE \E i \in Response, checked \in BOOLEAN, photo \in Photo \cup {NoPhoto} :
                 PanelEditResponse(i, checked, photo)
    BY <1>3, <1>5 DEF RowSound, Sound
  <1>6. CASE \E i \in Response : PanelDeleteResponse(i)
    BY <1>4, <1>6 DEF RowSound, Sound
  <1> QED
    BY <1>2, <1>5, <1>6, OtherEdits

LEMMA InTurnNext == TypeOK /\ InTurn /\ [Next]_vars => InTurn'
  <1> SUFFICES ASSUME TypeOK, InTurn, [Next]_vars PROVE InTurn'
    OBVIOUS
  <1>1. overlap' = overlap
    BY DEF Next, Edit, RequestNext, UpdateLoad, GetResponse, CreateCommit, UpdateCommit,
           TransitionLoad, ChecklistGate, TransitionCommit, ReportLoad, CollectStage, End,
           vars
  <1>2. CASE overlap
    BY <1>1, <1>2 DEF InTurn
  <1>3. CASE UNCHANGED vars
    BY <1>3 DEF vars, InTurn, OneHandler, HandlerSound, RowSound, AnswersTo, Incomplete,
                MandatoryOf, ItemsOf
  <1>4. ASSUME ~overlap, NEW r \in Request, RequestNext(r) PROVE InTurn'
    <2>1. UNCHANGED <<responses, templates>> \/ CreateCommit(r) \/ UpdateCommit(r)
      BY <1>4 DEF RequestNext, UpdateLoad, GetResponse, TransitionLoad, ChecklistGate,
                  TransitionCommit, ReportLoad, CollectStage, End
    <2> QED
      BY <1>4, <2>1, InTurnReads, InTurnCreate, InTurnUpdate, AllIdleAfterWrite DEF InTurn
  <1>5. CASE ~overlap /\ Edit
    BY <1>5, InTurnEdit, AllIdleAfterWrite DEF InTurn
  <1> QED
    BY <1>2, <1>3, <1>4, <1>5 DEF Next

LEMMA InTurnInit == Init => InTurn
  BY DEF Init, InTurn, OneHandler, HandlerSound, RowSound, IsRow, Idle

\* With one handler at a time an item has one response, whose columns agree.
THEOREM AnswersAreConsistent == Spec => []AnswersHoldTogether
  <1>1. InTurn => AnswersHoldTogether
    BY DEF InTurn, RowSound, Sound, AnswersHoldTogether
  <1> QED
    BY <1>1, InTurnInit, InTurnNext, ChecklistTypes, PTL DEF Spec

\* With one handler at a time, what a gate found still holds when the stage is
\* written or the document is sent.
THEOREM GatesStillHold == Spec => []GatesHold
  <1>1. InTurn => GatesHold
    BY DEF InTurn, HandlerSound, GatesHold
  <1> QED
    BY <1>1, InTurnInit, InTurnNext, ChecklistTypes, PTL DEF Spec

----------------------------------------------------------------------------
(* The gate in one step.                                                   *)

\* With one handler at a time, a transition in flight is about the stage the
\* unit is still in, and the unit is still there.
Leaving(r) ==
    \/ req[r].pc \in {"leaving", "passed"}
    \/ req[r].pc \in {"collecting", "collected"} /\ req[r].from # Document

LeavesFrom(r) ==
    Leaving(r) =>
        /\ ~deleted
        /\ req[r].from = stage
        /\ req[r].pc = "passed" => "ACTIVE" \notin Following(req[r].from)

LeavesInTurn == ~overlap => \A r \in Request : LeavesFrom(r)

LEMMA IdleLeaves == ASSUME NEW r, req[r] = Idle PROVE LeavesFrom(r)
  BY DEF LeavesFrom, Leaving, Idle

LEMMA LeavesNext == TypeOK /\ InTurn /\ LeavesInTurn /\ [Next]_vars => LeavesInTurn'
  <1> SUFFICES ASSUME TypeOK, InTurn, LeavesInTurn, [Next]_vars, ~overlap'
               PROVE  \A r \in Request : LeavesFrom(r)'
    BY DEF LeavesInTurn
  <1>1. overlap' = overlap
    BY DEF Next, Edit, RequestNext, UpdateLoad, GetResponse, CreateCommit, UpdateCommit,
           TransitionLoad, ChecklistGate, TransitionCommit, ReportLoad, CollectStage, End,
           vars
  <1>2. OneHandler /\ (\A r \in Request : LeavesFrom(r))
    BY <1>1 DEF LeavesInTurn, InTurn
  <1>3. CASE UNCHANGED vars
    BY <1>2, <1>3 DEF vars, unitVars, LeavesFrom, Leaving
  <1>4. CASE Edit
    <2>1. \A r \in Request : req'[r] = Idle
      BY <1>1, <1>4 DEF Edit, Alone
    <2> QED
      BY <2>1 DEF LeavesFrom, Leaving, Idle
  <1>5. ASSUME NEW r \in Request, RequestNext(r)
        PROVE  \A q \in Request : LeavesFrom(q)'
    <2>1. \A q \in Request \ {r} : req'[q] = req[q] /\ req[q] = Idle
      BY <1>1, <1>2, <1>5 DEF RequestNext, UpdateLoad, GetResponse, CreateCommit,
         UpdateCommit, TransitionLoad, ChecklistGate, TransitionCommit, ReportLoad,
         CollectStage, End, Begins, Alone, Become, TypeOK, OneHandler, Idle
    <2>2. \A q \in Request \ {r} : LeavesFrom(q)'
      BY <2>1 DEF LeavesFrom, Leaving, Idle
    <2>3. LeavesFrom(r)'
      <3>1. CASE TransitionLoad(r)
        BY <3>1 DEF TransitionLoad, Begins, Become, LeavesFrom, Leaving, unitVars, TypeOK
      <3>2. CASE ChecklistGate(r)
        <4>1. ~deleted /\ req[r].from = stage /\ UNCHANGED unitVars
          BY <1>2, <3>2 DEF ChecklistGate, LeavesFrom, Leaving
        <4>2. \/ req'[r] = [pc |-> "collecting", from |-> req[r].from, left |-> Stages]
              \/ /\ req'[r] = [pc |-> "passed", from |-> req[r].from]
                 /\ "ACTIVE" \notin Following(req[r].from)
          BY <3>2 DEF ChecklistGate, Become, TypeOK
        <4> QED
          BY <4>1, <4>2 DEF LeavesFrom, Leaving, unitVars, Following
      <3>3. CASE CollectStage(r)
        <4>1. req[r] \in [pc : {"collecting"}, from : Stages \cup {Document},
                          left : SUBSET Stages]
          BY <3>3, RequestByPc DEF CollectStage, TypeOK
        <4>2. /\ req'[r].pc \in {"collecting", "collected"}
              /\ req'[r].from = req[r].from
              /\ UNCHANGED unitVars
          BY <3>3, <4>1 DEF CollectStage, Become, TypeOK
        <4> QED
          BY <1>2, <3>3, <4>2 DEF CollectStage, LeavesFrom, Leaving, unitVars
      <3>4. CASE ReportLoad(r)
        BY <3>4 DEF ReportLoad, Become, LeavesFrom, Leaving, TypeOK
      <3>5. CASE req'[r] = Idle
        BY <3>5 DEF LeavesFrom, Leaving, Idle
      <3>6. CASE GetResponse(r)
        <4>1. req[r] \in [pc : {"item_loaded", "not_answered"}, answer : Answer]
          BY <3>6, RequestByPc DEF GetResponse, TypeOK
        <4>2. req'[r].pc \in {"not_answered", "answered"}
          BY <3>6, <4>1 DEF GetResponse, Become, TypeOK
        <4> QED
          BY <4>2 DEF LeavesFrom, Leaving
      <3>7. ASSUME NEW t \in Template, NEW checked \in BOOLEAN,
                   NEW photo \in Photo \cup {NoPhoto}, NEW person \in Person,
                   UpdateLoad(r, t, checked, photo, person)
            PROVE  LeavesFrom(r)'
        BY <3>7 DEF UpdateLoad, Become, LeavesFrom, Leaving, TypeOK
      <3> QED
        BY <1>5, <3>1, <3>2, <3>3, <3>4, <3>5, <3>6, <3>7
        DEF RequestNext, CreateCommit, UpdateCommit, TransitionCommit, End, Become, TypeOK
    <2> QED
      BY <2>2, <2>3
  <1> QED
    BY <1>3, <1>4, <1>5 DEF Next

\* The commit of a transition moves the unit as the gate promises.
LEMMA CommitAdvances ==
    ASSUME TypeOK, InTurn, LeavesInTurn, NEW r \in Request, TransitionCommit(r)
    PROVE  Gate!Next
  <1>1. PICK from : from = req[r].from
    OBVIOUS
  <1>2. from \in Stages
    BY <1>1, RequestByPc DEF TransitionCommit, TypeOK
  <1>3. stage' \in Stages /\ <<from, stage'>> \in STAGE_TRANSITIONS
    BY <1>1 DEF TransitionCommit, Following
  <1>4. \A s : Incomplete(s)' = Incomplete(s)
    BY DEF TransitionCommit, Incomplete, MandatoryOf, ItemsOf, AnswersTo
  <1>5. UNCHANGED <<deleted, overlap>>
    BY DEF TransitionCommit
  <1>6. ASSUME ~overlap
        PROVE  /\ ~deleted /\ from = stage
               /\ Incomplete(from) = {}
               /\ stage' = "ACTIVE" => \A s \in Stages : Incomplete(s) = {}
    <2>1. HandlerSound(r) /\ LeavesFrom(r)
      BY <1>6 DEF InTurn, LeavesInTurn
    <2>2. Leaving(r)
      BY DEF TransitionCommit, Leaving
    <2>3. req[r].pc = "passed" => stage' # "ACTIVE"
      BY <2>1, <2>2 DEF LeavesFrom, TransitionCommit
    <2> QED
      BY <1>1, <1>2, <2>1, <2>2, <2>3 DEF HandlerSound, LeavesFrom, TransitionCommit
  <1>7. Gate!Advance(from)
    BY <1>2, <1>3, <1>4, <1>5, <1>6 DEF Gate!Advance, Gate!STAGE_TRANSITIONS, STAGE_TRANSITIONS
  <1> QED
    BY <1>2, <1>7 DEF Gate!Next

LEMMA GateStep ==
    TypeOK /\ InTurn /\ LeavesInTurn /\ [Next]_vars => [Gate!Next]_(Gate!gateVars)
  <1> SUFFICES ASSUME TypeOK, InTurn, LeavesInTurn, [Next]_vars
               PROVE  Gate!Next \/ UNCHANGED Gate!gateVars
    OBVIOUS
  <1>1. overlap' = overlap
    BY DEF Next, Edit, RequestNext, UpdateLoad, GetResponse, CreateCommit, UpdateCommit,
           TransitionLoad, ChecklistGate, TransitionCommit, ReportLoad, CollectStage, End,
           vars
  <1>2. CASE UNCHANGED unitVars
    BY <1>1, <1>2 DEF unitVars, Gate!Next, Gate!Work
  <1>3. CASE Edit /\ DeleteUnit
    <2>1. \A s : Incomplete(s)' = Incomplete(s)
      BY <1>3 DEF DeleteUnit, Incomplete, MandatoryOf, ItemsOf, AnswersTo
    <2> QED
      BY <1>1, <1>3, <2>1 DEF DeleteUnit, Gate!Next, Gate!Remove
  <1>4. ASSUME NEW r \in Request, TransitionCommit(r) PROVE Gate!Next
    BY <1>4, CommitAdvances
  <1>5. \/ UNCHANGED unitVars
        \/ Edit /\ DeleteUnit
        \/ \E r \in Request : TransitionCommit(r)
    BY DEF Next, Edit, RequestNext, UpdateLoad, GetResponse, CreateCommit, UpdateCommit,
           TransitionLoad, ChecklistGate, ReportLoad, CollectStage, End, LoadFile,
           PanelSaveTemplate, PanelDeleteTemplate, PanelEditResponse, PanelDeleteResponse,
           vars
  <1> QED
    BY <1>2, <1>3, <1>4, <1>5

\* The checklist gate implements StageGate: with one handler at a time the look
\* at the items and the move of the unit are as good as one step.
THEOREM ImplementsGate == Spec => GateImplemented
  <1>1. Init => Gate!Init
    BY ChecklistAssumption DEF Init, Gate!Init
  <1>2. Init => LeavesInTurn
    BY IdleLeaves DEF Init, LeavesInTurn
  <1> QED
    BY <1>1, <1>2, InTurnInit, InTurnNext, LeavesNext, GateStep, ChecklistTypes, PTL
    DEF Spec, GateImplemented, Gate!Spec
=============================================================================
