---------------------------- MODULE Records_proof ----------------------------
(***************************************************************************)
(* For any number of tasks, calls and handles, and wherever a call is      *)
(* given up: rows go to one object and in order, a flush takes the rows of *)
(* the log calls before it, and an iterator returns every record.          *)
(***************************************************************************)
EXTENDS Records, SequenceTheorems, TLAPS

(* Labels of a call that its handle's cell has something to say about. *)
CellLabels == {"ensure", "registering", "registered", "submitting"}

Labels  == CellLabels \cup {"idle", "summary", "reading", "fetching", "track", "flushing",
                            "comparing", "lock"}
Answers == {"ok", "err", "panic", "given up", "no base", "some", "none"}

Types ==
  /\ answers \in [Tasks -> Seq(Answers)]
  /\ pc \in [Tasks -> Labels]
  /\ cell \in [Handles -> Ids \cup {Failed, None}]
  /\ initializer \in [Handles -> Tasks \cup {None}]

(* The initializer of a cell is the one task that registers, and whoever   *)
(* is past the registration finds the cell set.                            *)
AtCell(t) ==
  /\ pc[t] \in CellLabels => Call(t).on \in Handles
  /\ pc[t] = "registering" => initializer[Call(t).on] = t /\ cell[Call(t).on] = None
  /\ pc[t] \in {"registered", "submitting"} => cell[Call(t).on] # None

(* A row has been submitted to the object that a cell names. *)
Placed(s) == s.row.on \in Handles /\ cell[s.row.on] # None /\ s.id = cell[s.row.on]

CellInv == Types /\ (\A t \in Tasks : AtCell(t)) /\ (\A s \in submitted : Placed(s))

(* What a task must know to go on to a label. *)
MayEnter(t, label) ==
  /\ label \in Labels \ {"registering"}
  /\ label \in CellLabels => Call(t).on \in Handles
  /\ label \in {"registered", "submitting"} => cell[Call(t).on] # None

(* A step of a task that leaves the registration alone. *)
Moves(t) ==
  \/ \E label : MayEnter(t, label) /\ Goto(t, label)
  \/ \E answer \in Answers : Return(t, answer)
  \/ UNCHANGED taskVars

-----------------------------------------------------------------------------
(* The cells.                                                              *)

(* A call stays what it is until it returns. *)
LEMMA CallStays ==
  ASSUME NEW t \in Tasks, NEW u \in Tasks, NEW label, Types, Goto(t, label)
  PROVE  Call(u)' = Call(u)
BY DEF Goto, Call, Number

(* A call that returns changes no other task's call. *)
LEMMA OtherCallStays ==
  ASSUME NEW t \in Tasks, NEW u \in Tasks \ {t}, NEW answer, Types, Return(t, answer)
  PROVE  Call(u)' = Call(u)
BY DEF Return, Call, Number, Types

(* Answers stay sequences. *)
LEMMA ReturnTypes ==
  ASSUME NEW t \in Tasks, NEW answer \in Answers, Types, Return(t, answer),
         cell' \in [Handles -> Ids \cup {Failed, None}],
         initializer' \in [Handles -> Tasks \cup {None}]
  PROVE  Types'
<1>1. answers[t] \in Seq(Answers)
  BY DEF Types
<1>2. Append(answers[t], answer) \in Seq(Answers)
  BY <1>1, AppendProperties
<1>3. answers' \in [Tasks -> Seq(Answers)]
  BY <1>2 DEF Types, Return
<1>4. pc' \in [Tasks -> Labels]
  <2>1. pc \in [Tasks -> Labels]
    BY DEF Types
  <2>2. pc' = [pc EXCEPT ![t] = "idle"]
    BY DEF Return
  <2>3. "idle" \in Labels
    BY DEF Labels
  <2> QED
    BY <2>1, <2>2, <2>3
<1> QED
  BY <1>3, <1>4 DEF Types

(* A task that goes on to a label keeps the types. *)
LEMMA GotoTypes ==
  ASSUME NEW t \in Tasks, NEW label \in Labels, Types, Goto(t, label),
         cell' \in [Handles -> Ids \cup {Failed, None}],
         initializer' \in [Handles -> Tasks \cup {None}]
  PROVE  Types'
<1>1. pc \in [Tasks -> Labels]
  BY DEF Types
<1>2. pc' = [pc EXCEPT ![t] = label] /\ answers' = answers
  BY DEF Goto
<1>3. pc' \in [Tasks -> Labels]
  BY <1>1, <1>2
<1> QED
  BY <1>2, <1>3 DEF Types

(* A task that moves without touching the cells, and submits at most to    *)
(* objects that cells name, keeps the invariant.                           *)
LEMMA MoveKeeps ==
  ASSUME NEW t \in Tasks, CellInv, Moves(t), UNCHANGED cellVars,
         \A s \in submitted' : s \in submitted \/ Placed(s)
  PROVE  CellInv'
<1>1. cell' = cell /\ initializer' = initializer
  BY DEF cellVars
<1>2. \A s \in submitted' : Placed(s)'
  BY <1>1 DEF CellInv, Placed
<1>3. Types'
  <2>1. /\ cell' \in [Handles -> Ids \cup {Failed, None}]
        /\ initializer' \in [Handles -> Tasks \cup {None}]
    BY <1>1 DEF CellInv, Types
  <2>2. CASE \E label \in Labels : Goto(t, label)
    BY <2>1, <2>2, GotoTypes DEF CellInv
  <2>3. CASE \E answer \in Answers : Return(t, answer)
    BY <2>1, <2>3, ReturnTypes DEF CellInv
  <2>4. CASE UNCHANGED taskVars
    BY <2>1, <2>4 DEF CellInv, Types, taskVars
  <2> QED
    BY <2>2, <2>3, <2>4 DEF Moves, MayEnter
<1>4. ASSUME NEW u \in Tasks PROVE AtCell(u)'
  <2>1. ASSUME NEW label, MayEnter(t, label), Goto(t, label)
        PROVE  AtCell(u)'
    <3>1. Call(u)' = Call(u)
      BY <2>1, CallStays DEF CellInv
    <3>2. pc'[u] = IF u = t THEN label ELSE pc[u]
      BY <2>1 DEF Goto, CellInv, Types
    <3> QED
      BY <1>1, <2>1, <3>1, <3>2 DEF CellInv, AtCell, MayEnter
  <2>2. ASSUME NEW answer \in Answers, Return(t, answer)
        PROVE  AtCell(u)'
    <3>1. pc'[u] = IF u = t THEN "idle" ELSE pc[u]
      BY <2>2 DEF Return, CellInv, Types
    <3>2. CASE u = t
      BY <3>1, <3>2 DEF AtCell, CellLabels
    <3>3. CASE u # t
      BY <1>1, <2>2, <3>1, <3>3, OtherCallStays DEF CellInv, AtCell
    <3> QED
      BY <3>2, <3>3
  <2>3. CASE UNCHANGED taskVars
    BY <1>1, <2>3 DEF taskVars, CellInv, AtCell, Call, Number
  <2> QED
    BY <2>1, <2>2, <2>3 DEF Moves
<1> QED
  BY <1>2, <1>3, <1>4 DEF CellInv

(* Looking for the cell: it is set, or t becomes its initializer. *)
LEMMA EnsureKeeps ==
  ASSUME NEW t \in Tasks, CellInv, Ensure(t)
  PROVE  CellInv'
<1> DEFINE h == Call(t).on
<1>1. h \in Handles /\ pc[t] = "ensure"
  BY DEF Ensure, CellInv, AtCell, CellLabels
<1>2. cell' = cell /\ submitted' = submitted
  BY DEF Ensure, queueVars
<1>3. \A s \in submitted' : Placed(s)'
  BY <1>2 DEF CellInv, Placed
<1>4. CASE cell[h] # None /\ Goto(t, "registered") /\ initializer' = initializer
  <2>1. MayEnter(t, "registered")
    BY <1>1, <1>4 DEF MayEnter, Labels, CellLabels
  <2>2. \A s \in submitted' : s \in submitted \/ Placed(s)
    BY <1>2
  <2>3. Moves(t) /\ UNCHANGED cellVars
    BY <1>2, <1>4, <2>1 DEF Moves, cellVars
  <2> QED
    BY <2>2, <2>3, MoveKeeps
<1>5. CASE /\ cell[h] = None /\ initializer[h] = None /\ Goto(t, "registering")
           /\ initializer' = [initializer EXCEPT ![h] = t]
  <2>1. Types'
    <3>1. initializer' \in [Handles -> Tasks \cup {None}]
      BY <1>1, <1>5 DEF CellInv, Types
    <3>2. cell' \in [Handles -> Ids \cup {Failed, None}]
      BY <1>2 DEF CellInv, Types
    <3>3. "registering" \in Labels
      BY DEF Labels, CellLabels
    <3> QED
      BY <1>5, <3>1, <3>2, <3>3, GotoTypes DEF CellInv
  <2>2. ASSUME NEW u \in Tasks PROVE AtCell(u)'
    <3>1. Call(u)' = Call(u)
      BY <1>5, CallStays DEF CellInv
    <3>2. pc'[u] = IF u = t THEN "registering" ELSE pc[u]
      BY <1>5 DEF Goto, CellInv, Types
    <3>3. CASE u = t
      BY <1>1, <1>2, <1>5, <3>1, <3>2, <3>3 DEF CellInv, AtCell, CellLabels, Types
    <3>4. CASE u # t
      <4>1. pc[u] = "registering" => Call(u).on # h
        BY <1>5, ClientAssumption DEF CellInv, AtCell, ClientAssumption
      <4>2. pc[u] = "registering" => initializer'[Call(u).on] = initializer[Call(u).on]
        BY <1>5, <4>1 DEF CellInv, AtCell, CellLabels, Types
      <4> QED
        BY <1>2, <3>1, <3>2, <3>4, <4>2 DEF CellInv, AtCell
    <3> QED
      BY <3>3, <3>4
  <2> QED
    BY <1>3, <2>1, <2>2 DEF CellInv
<1> QED
  BY <1>4, <1>5 DEF Ensure

(* The registration ends: nobody else is registering, and nothing has been *)
(* submitted through this cell yet.                                        *)
LEMMA SetCellKeeps ==
  ASSUME NEW t \in Tasks, NEW values \in SUBSET (Ids \cup {Failed}), CellInv, SetCell(t, values)
  PROVE  CellInv'
<1> DEFINE h == Call(t).on
<1>1. /\ h \in Handles /\ pc[t] = "registering"
      /\ initializer[h] = t /\ cell[h] = None
  BY DEF SetCell, CellInv, AtCell, CellLabels
<1>2. PICK value \in Ids \cup {Failed} : cell' = [cell EXCEPT ![h] = value]
  BY DEF SetCell
<1>3. initializer' = [initializer EXCEPT ![h] = None] /\ Goto(t, "registered")
  BY DEF SetCell
<1>4. submitted' = submitted
  BY DEF SetCell, queueVars
<1>5. value # None
  BY ClientAssumption DEF ClientAssumption
<1>6. \A g \in Handles \ {h} : cell'[g] = cell[g] /\ initializer'[g] = initializer[g]
  BY <1>2, <1>3 DEF CellInv, Types
<1>7. cell'[h] = value
  BY <1>1, <1>2 DEF CellInv, Types
<1>8. \A s \in submitted' : Placed(s)'
  <2> SUFFICES ASSUME NEW s \in submitted PROVE Placed(s)'
    BY <1>4
  <2>1. s.row.on \in Handles \ {h}
    BY <1>1 DEF CellInv, Placed
  <2> QED
    BY <1>6, <2>1 DEF CellInv, Placed
<1>9. Types'
  <2>1. cell' \in [Handles -> Ids \cup {Failed, None}]
    BY <1>1, <1>2 DEF CellInv, Types
  <2>2. initializer' \in [Handles -> Tasks \cup {None}]
    BY <1>1, <1>3 DEF CellInv, Types
  <2>3. "registered" \in Labels
    BY DEF Labels, CellLabels
  <2> QED
    BY <1>3, <2>1, <2>2, <2>3, GotoTypes DEF CellInv
<1>10. ASSUME NEW u \in Tasks PROVE AtCell(u)'
  <2>1. Call(u)' = Call(u)
    BY <1>3, CallStays DEF CellInv
  <2>2. pc'[u] = IF u = t THEN "registered" ELSE pc[u]
    BY <1>3 DEF Goto, CellInv, Types
  <2>3. CASE u = t
    BY <1>1, <1>5, <1>7, <2>1, <2>2, <2>3 DEF AtCell
  <2>4. CASE u # t
    <3>1. pc[u] \in {"registering", "registered", "submitting"} => Call(u).on \in Handles \ {h}
      BY <1>1, <2>4 DEF CellInv, AtCell, CellLabels
    <3> QED
      BY <1>6, <2>1, <2>2, <2>4, <3>1 DEF CellInv, AtCell
  <2> QED
    BY <2>3, <2>4
<1> QED
  BY <1>8, <1>9, <1>10 DEF CellInv

(* A task gives up its call, and with it the registration it was running.  *)
LEMMA LeaveKeeps ==
  ASSUME NEW t \in Tasks, CellInv, Return(t, "given up"), LeaveCell(t), UNCHANGED queueVars
  PROVE  CellInv'
<1>1. cell' = cell /\ submitted' = submitted
  BY DEF LeaveCell, queueVars
<1>2. \A s \in submitted' : Placed(s)'
  BY <1>1 DEF CellInv, Placed
<1>3. initializer' \in [Handles -> Tasks \cup {None}]
  <2>1. initializer \in [Handles -> Tasks \cup {None}]
    BY DEF CellInv, Types
  <2> QED
    BY <2>1 DEF LeaveCell
<1>4. Types'
  <2>1. cell' \in [Handles -> Ids \cup {Failed, None}]
    BY <1>1 DEF CellInv, Types
  <2>2. "given up" \in Answers
    BY DEF Answers
  <2> QED
    BY <1>3, <2>1, <2>2, ReturnTypes DEF CellInv
<1>5. ASSUME NEW u \in Tasks PROVE AtCell(u)'
  <2>1. pc'[u] = IF u = t THEN "idle" ELSE pc[u]
    BY DEF Return, CellInv, Types
  <2>2. CASE u = t
    BY <2>1, <2>2 DEF AtCell, CellLabels
  <2>3. CASE u # t
    <3>1. Call(u)' = Call(u)
      BY <2>3, OtherCallStays DEF CellInv
    <3>2. pc[u] = "registering" => initializer'[Call(u).on] = u
      BY <2>3 DEF LeaveCell, CellInv, AtCell, CellLabels
    <3> QED
      BY <1>1, <2>1, <2>3, <3>1, <3>2 DEF CellInv, AtCell
  <2> QED
    BY <2>2, <2>3
<1> QED
  BY <1>2, <1>4, <1>5 DEF CellInv

-----------------------------------------------------------------------------
(* Every operation keeps the invariant of the cells.                       *)

(* The rows that a flush holds are rows of the dataset, and it holds some  *)
(* as long as it submits.                                                  *)
DatasetRow == [call : Tasks \X Nat, on : {"dataset"}, op : RecordOps]
RowsTyped ==
  /\ pending \in Seq(DatasetRow) /\ pushed \in Seq(DatasetRow) /\ sent \in Seq(DatasetRow)
  /\ taken \in [Tasks -> Seq(DatasetRow)]
  /\ overlapped \in BOOLEAN
HoldsRows(t) == taken[t] # <<>> <=> pc[t] = "submitting"

(* A task that goes on to a label that asks nothing of the cell. *)
LEMMA PlainKeeps ==
  ASSUME NEW t \in Tasks, CellInv, NEW label \in Labels \ CellLabels, Goto(t, label),
         UNCHANGED <<cellVars, queueVars>>
  PROVE  CellInv'
<1>1. Moves(t)
  BY DEF Moves, MayEnter, CellLabels
<1>2. UNCHANGED cellVars /\ submitted' = submitted
  BY DEF queueVars
<1> QED
  BY <1>1, <1>2, MoveKeeps

(* A task that goes on to look at the cell of its handle. *)
LEMMA EnterEnsureKeeps ==
  ASSUME NEW t \in Tasks, CellInv, Call(t).on \in Handles, Goto(t, "ensure"),
         UNCHANGED <<cellVars, queueVars>>
  PROVE  CellInv'
<1>1. Moves(t)
  BY DEF Moves, MayEnter, Labels, CellLabels
<1>2. UNCHANGED cellVars /\ submitted' = submitted
  BY DEF queueVars
<1> QED
  BY <1>1, <1>2, MoveKeeps

(* A task that returns. *)
LEMMA ReturnKeeps ==
  ASSUME NEW t \in Tasks, CellInv, NEW answer \in Answers, Return(t, answer),
         UNCHANGED cellVars, submitted' = submitted
  PROVE  CellInv'
BY MoveKeeps DEF Moves

(* Operations on the dataset. *)
LEMMA DatasetKeepsCells ==
  ASSUME NEW t \in Tasks, CellInv, RowsTyped, HoldsRows(t),
         Push(t) \/ BeginOnDataset(t) \/ DatasetStep(t) \/ GiveUpOnDataset(t)
  PROVE  CellInv'
<1> USE DatasetAssumption DEF DatasetAssumption
<1>0. AtCell(t)
  BY DEF CellInv
<1>1. CASE Push(t)
  BY <1>1, ReturnKeeps DEF Push, queueVars, Answers
<1>2. CASE BeginOnDataset(t)
  BY <1>2, EnterEnsureKeeps DEF BeginOnDataset, AtDataset, At
<1>3. CASE RegisterDataset(t)
  <2>1. PICK reply \in Replies : SetCell(t, DatasetRegistrations(reply))
    BY <1>3 DEF RegisterDataset
  <2>2. DatasetRegistrations(reply) \in SUBSET (Ids \cup {Failed})
    BY DEF DatasetRegistrations
  <2> QED
    BY <2>1, <2>2, SetCellKeeps
<1>4. CASE GetId(t)
  BY <1>4, ReturnKeeps DEF GetId, queueVars, Answers
<1>5. CASE Take(t)
  <2>1. /\ Call(t).on = "dataset" /\ cell["dataset"] # None
        /\ UNCHANGED <<cellVars, queueVars>> /\ submitted' = submitted
    BY <1>0, <1>5 DEF Take, AtDataset, At, AtCell, queueVars
  <2>2. \/ Return(t, "err") \/ Return(t, "ok") \/ Goto(t, "summary") \/ Goto(t, "submitting")
    BY <1>5 DEF Take, AfterFlush
  <2>3. CASE Return(t, "err") \/ Return(t, "ok")
    BY <2>1, <2>3, ReturnKeeps DEF Answers
  <2>4. CASE Goto(t, "summary")
    BY <2>1, <2>4, PlainKeeps DEF Labels, CellLabels
  <2>5. CASE Goto(t, "submitting")
    <3>1. Moves(t)
      BY <2>1, <2>5 DEF Moves, MayEnter, Labels, CellLabels
    <3> QED
      BY <2>1, <3>1, MoveKeeps
  <2> QED
    BY <2>2, <2>3, <2>4, <2>5
<1>6. CASE SubmitTaken(t)
  <2>1. /\ Call(t).on = "dataset" /\ cell["dataset"] # None /\ pc[t] = "submitting"
        /\ UNCHANGED cellVars
    BY <1>0, <1>6 DEF SubmitTaken, AtDataset, At, AtCell
  <2>2. taken[t] \in Seq(DatasetRow) /\ taken[t] # <<>>
    BY <2>1 DEF RowsTyped, HoldsRows
  <2>3. Head(taken[t]) \in DatasetRow
    BY <2>2, HeadTailProperties
  <2>4. Head(taken[t]).on = "dataset"
    BY <2>3 DEF DatasetRow
  <2>5. \A s \in submitted' : s \in submitted \/ Placed(s)
    BY <1>6, <2>1, <2>4 DEF SubmitTaken, Submit, Placed
  <2>6. \/ Return(t, "ok") \/ Goto(t, "summary") \/ UNCHANGED taskVars
    BY <1>6 DEF SubmitTaken, AfterFlush
  <2>7. Moves(t)
    BY <2>6 DEF Moves, MayEnter, Labels, CellLabels, Answers
  <2> QED
    BY <2>1, <2>5, <2>7, MoveKeeps
<1>7. CASE FetchDatasetSummary(t)
  <2>1. PICK reply \in Replies : Return(t, DatasetSummary(reply))
    BY <1>7 DEF FetchDatasetSummary
  <2>2. DatasetSummary(reply) \in Answers
    BY DEF DatasetSummary, Answers
  <2>3. UNCHANGED cellVars /\ submitted' = submitted
    BY <1>7 DEF FetchDatasetSummary, queueVars
  <2> QED
    BY <2>1, <2>2, <2>3, ReturnKeeps
<1>8. CASE GiveUpOnDataset(t)
  BY <1>8, LeaveKeeps DEF GiveUpOnDataset
<1> QED
  BY <1>1, <1>2, <1>3, <1>4, <1>5, <1>6, <1>7, <1>8 DEF DatasetStep

(* Operations on the iterator. *)
LEMMA ReaderKeepsCells ==
  ASSUME NEW t \in Tasks, CellInv, BeginRead(t) \/ ReaderStep(t) \/ GiveUpRead(t)
  PROVE  CellInv'
<1>1. UNCHANGED <<cellVars, queueVars>> /\ submitted' = submitted
  BY DEF BeginRead, ReaderStep, PopBuffer, ReadEnd, AskPage, Page, PageFails, GiveUpRead, queueVars
<1>2. \/ Goto(t, "reading") \/ Goto(t, "fetching") \/ \E answer \in Answers : Return(t, answer)
  BY DEF BeginRead, ReaderStep, PopBuffer, ReadEnd, AskPage, Page, PageFails, GiveUpRead, Yield, FirstOf,
         Answers
<1>3. CASE Goto(t, "reading") \/ Goto(t, "fetching")
  BY <1>1, <1>3, PlainKeeps DEF Labels, CellLabels
<1> QED
  BY <1>1, <1>2, <1>3, ReturnKeeps

(* A row that goes through a registered experiment goes to its object. *)
LEMMA SubmitRowPlaces ==
  ASSUME NEW t \in Tasks, CellInv, NEW ops, SubmitRow(t, ops)
  PROVE  UNCHANGED cellVars /\ \A s \in submitted' : s \in submitted \/ Placed(s)
<1> USE ExperimentAssumption DEF ExperimentAssumption
<1>1. Call(t).on \in Handles /\ cell[Call(t).on] # None
  BY DEF SubmitRow, AtExperiment, At, Experiments, CellInv, AtCell
<1> QED
  BY <1>1 DEF SubmitRow, Submit, Row, Placed

(* Operations on experiments. *)
LEMMA ExperimentKeepsCells ==
  ASSUME NEW t \in Tasks, CellInv,
         \/ CloneExperiment(t) \/ BeginLog(t) \/ BeginStart(t) \/ BeginOther(t) \/ BeginFlush(t)
         \/ ExperimentStep(t) \/ GiveUpOnExperiment(t)
  PROVE  CellInv'
<1> USE ExperimentAssumption DEF ExperimentAssumption
<1> DEFINE Still == UNCHANGED cellVars /\ UNCHANGED <<cellVars, queueVars>> /\ submitted' = submitted
<1>1. CASE CloneExperiment(t)
  BY <1>1, ReturnKeeps DEF CloneExperiment, queueVars, Answers
<1>2. CASE BeginLog(t) \/ BeginStart(t) \/ BeginOther(t)
  <2>1. Still /\ Call(t).on \in Handles
    BY <1>2 DEF BeginLog, BeginStart, BeginOther, AtExperiment, At, Experiments, queueVars
  <2>2. Goto(t, "ensure") \/ Return(t, "panic")
    BY <1>2 DEF BeginLog, BeginStart, BeginOther
  <2> QED
    BY <2>1, <2>2, EnterEnsureKeeps, ReturnKeeps DEF Answers
<1>3. CASE BeginFlush(t)
  BY <1>3, PlainKeeps DEF BeginFlush, Labels, CellLabels
<1>4. CASE RegisterExperiment(t)
  <2>1. PICK reply \in Replies : SetCell(t, ExperimentRegistrations(reply))
    BY <1>4 DEF RegisterExperiment
  <2>2. ExperimentRegistrations(reply) \in SUBSET (Ids \cup {Failed})
    BY DEF ExperimentRegistrations
  <2> QED
    BY <2>1, <2>2, SetCellKeeps
<1>5. CASE LogEvent(t) \/ StartSpan(t) \/ LogFeedback(t) \/ UpdateSpan(t)
  <2>1. UNCHANGED cellVars /\ \A s \in submitted' : s \in submitted \/ Placed(s)
    BY <1>5, SubmitRowPlaces DEF LogEvent, StartSpan, LogFeedback, UpdateSpan
  <2>2. Goto(t, "track") \/ Goto(t, "flushing") \/ Return(t, "ok")
    BY <1>5 DEF LogEvent, StartSpan, LogFeedback, UpdateSpan
  <2>3. Moves(t)
    BY <2>2 DEF Moves, MayEnter, Labels, CellLabels, Answers
  <2> QED
    BY <2>1, <2>3, MoveKeeps
<1>6. CASE Track(t) \/ FlushTraced(t) \/ LookUp(t)
  <2>1. Still \/ (UNCHANGED cellVars /\ submitted' = submitted)
    BY <1>6 DEF Track, FlushTraced, LookUp, FlushAll, queueVars
  <2>2. Return(t, "ok")
    BY <1>6 DEF Track, FlushTraced, LookUp
  <2> QED
    BY <2>1, <2>2, ReturnKeeps DEF Answers
<1>7. CASE FetchBaseExperiment(t)
  <2>1. Still
    BY <1>7 DEF FetchBaseExperiment, queueVars
  <2>2. PICK reply \in Replies : \E answer \in BaseExperiments(reply) :
          Goto(t, "comparing") \/ Return(t, answer)
    BY <1>7 DEF FetchBaseExperiment
  <2>3. BaseExperiments(reply) \subseteq Answers
    BY DEF BaseExperiments, Answers, Replies
  <2>4. CASE Goto(t, "comparing")
    BY <2>1, <2>4, PlainKeeps DEF Labels, CellLabels
  <2> QED
    BY <2>1, <2>2, <2>3, <2>4, ReturnKeeps
<1>8. CASE DrainFlushes(t) \/ FlushSpan(t)
  <2>1. UNCHANGED cellVars /\ submitted' = submitted /\ Call(t).on \in Handles
    BY <1>8 DEF DrainFlushes, FlushSpan, FlushAll, queueVars, AtExperiment, At, Experiments
  <2>2. \/ Return(t, "ok") \/ Return(t, "err") \/ UNCHANGED taskVars
        \/ Goto(t, "ensure") \/ Goto(t, "flushing")
    BY <1>8 DEF DrainFlushes, FlushSpan, AfterSpans
  <2>3. Moves(t)
    BY <2>1, <2>2 DEF Moves, MayEnter, Labels, CellLabels, Answers
  <2> QED
    BY <2>1, <2>3, MoveKeeps
<1>9. CASE Compare(t)
  <2>1. PICK reply \in Replies : Return(t, Comparison(reply))
    BY <1>9 DEF Compare
  <2>2. Comparison(reply) \in Answers
    BY DEF Comparison, Answers
  <2>3. Still
    BY <1>9 DEF Compare, queueVars
  <2> QED
    BY <2>1, <2>2, <2>3, ReturnKeeps
<1>10. CASE GiveUpOnExperiment(t)
  BY <1>10, LeaveKeeps DEF GiveUpOnExperiment
<1> QED
  BY <1>1, <1>2, <1>3, <1>4, <1>5, <1>6, <1>7, <1>8, <1>9, <1>10 DEF ExperimentStep

-----------------------------------------------------------------------------
(* The rows of the dataset.                                                *)

(* Unless two flushes held rows at the same time, one task holds rows at   *)
(* most, and the rows are in order.                                        *)
RowsInv ==
  /\ RowsTyped
  /\ \A t \in Tasks : HoldsRows(t)
  /\ ~overlapped => \A t, u \in Holding : t = u
  /\ RowsInOrder

(* A task goes on in its call or returns, or none does. *)
Proceeds ==
  \/ \E t \in Tasks : \E label : Goto(t, label)
  \/ \E t \in Tasks : \E answer \in Answers : Return(t, answer)
  \/ UNCHANGED taskVars

(* Nobody begins or ends submitting rows of the dataset. *)
Aside ==
  /\ UNCHANGED datasetVars
  /\ Proceeds
  /\ \A u \in Tasks : (pc'[u] = "submitting") <=> (pc[u] = "submitting")

LEMMA AsideKeepsRows ==
  ASSUME RowsInv, Aside
  PROVE  RowsInv'
<1>1. /\ pending' = pending /\ taken' = taken /\ pushed' = pushed /\ sent' = sent
      /\ overlapped' = overlapped
  BY DEF Aside, datasetVars
<1>2. RowsTyped'
  BY <1>1 DEF RowsInv, RowsTyped
<1>3. \A u \in Tasks : HoldsRows(u)'
  BY <1>1 DEF RowsInv, HoldsRows, Aside
<1>4. RowsInOrder' /\ (~overlapped => \A t, u \in Holding : t = u)'
  BY <1>1 DEF RowsInv, RowsInOrder, Holding
<1> QED
  BY <1>2, <1>3, <1>4 DEF RowsInv

(* A task goes on elsewhere. *)
LEMMA MovesAside ==
  ASSUME Types, NEW t \in Tasks, pc[t] # "submitting", UNCHANGED datasetVars,
         \/ \E label : label # "submitting" /\ Goto(t, label)
         \/ \E answer \in Answers : Return(t, answer)
         \/ UNCHANGED taskVars
  PROVE  Aside
<1>1. CASE \E label : label # "submitting" /\ Goto(t, label)
  BY <1>1 DEF Aside, Proceeds, Goto, Types
<1>2. CASE \E answer \in Answers : Return(t, answer)
  BY <1>2 DEF Aside, Proceeds, Return, Types
<1>3. CASE UNCHANGED taskVars
  BY <1>3 DEF Aside, Proceeds, taskVars
<1> QED
  BY <1>1, <1>2, <1>3

LEMMA ReaderAside ==
  ASSUME Types, NEW t \in Tasks, OnReader(t)
  PROVE  Aside
<1>1. pc[t] # "submitting" /\ UNCHANGED datasetVars
  BY DEF OnReader, BeginRead, ReaderStep, PopBuffer, ReadEnd, AskPage, Page, PageFails, GiveUpRead,
         AtReader, At
<1>2. \/ Goto(t, "reading") \/ Goto(t, "fetching") \/ \E answer \in Answers : Return(t, answer)
  BY DEF OnReader, BeginRead, ReaderStep, PopBuffer, ReadEnd, AskPage, Page, PageFails, GiveUpRead,
         Yield, FirstOf, Answers
<1> QED
  BY <1>1, <1>2, MovesAside

LEMMA ExperimentAside ==
  ASSUME Types, NEW t \in Tasks, OnExperiment(t)
  PROVE  Aside
<1>1. UNCHANGED datasetVars
  BY DEF OnExperiment
<1>2. CASE CloneExperiment(t) \/ BeginLog(t) \/ BeginStart(t) \/ BeginOther(t) \/ BeginFlush(t)
  <2>1. pc[t] # "submitting"
    BY <1>2 DEF CloneExperiment, BeginLog, BeginStart, BeginOther, BeginFlush, AtExperiment, At
  <2>2. \/ Goto(t, "ensure") \/ Goto(t, "lock") \/ \E answer \in Answers : Return(t, answer)
    BY <1>2 DEF CloneExperiment, BeginLog, BeginStart, BeginOther, BeginFlush, Answers
  <2> QED
    BY <1>1, <2>1, <2>2, MovesAside
<1>3. CASE RegisterExperiment(t)
  <2>1. pc[t] # "submitting" /\ Goto(t, "registered")
    BY <1>3 DEF RegisterExperiment, SetCell
  <2> QED
    BY <1>1, <2>1, MovesAside
<1>4. CASE LogEvent(t) \/ StartSpan(t) \/ LogFeedback(t) \/ UpdateSpan(t)
  <2>1. pc[t] # "submitting"
    BY <1>4 DEF LogEvent, StartSpan, LogFeedback, UpdateSpan, SubmitRow, AtExperiment, At
  <2>2. \/ Goto(t, "track") \/ Goto(t, "flushing") \/ \E answer \in Answers : Return(t, answer)
    BY <1>4 DEF LogEvent, StartSpan, LogFeedback, UpdateSpan, Answers
  <2> QED
    BY <1>1, <2>1, <2>2, MovesAside
<1>5. CASE Track(t) \/ FlushTraced(t) \/ LookUp(t) \/ FetchBaseExperiment(t) \/ Compare(t)
  <2>1. pc[t] # "submitting"
    BY <1>5 DEF Track, FlushTraced, LookUp, FetchBaseExperiment, Compare, AtExperiment, At
  <2>2. Goto(t, "comparing") \/ \E answer \in Answers : Return(t, answer)
    BY <1>5 DEF Track, FlushTraced, LookUp, FetchBaseExperiment, Compare, BaseExperiments, Comparison,
               Replies, Answers
  <2> QED
    BY <1>1, <2>1, <2>2, MovesAside
<1>6. CASE DrainFlushes(t) \/ FlushSpan(t)
  <2>1. pc[t] # "submitting"
    BY <1>6 DEF DrainFlushes, FlushSpan, AtExperiment, At
  <2>2. \/ Goto(t, "ensure") \/ Goto(t, "flushing") \/ UNCHANGED taskVars
        \/ \E answer \in Answers : Return(t, answer)
    BY <1>6 DEF DrainFlushes, FlushSpan, AfterSpans, Answers
  <2> QED
    BY <1>1, <2>1, <2>2, MovesAside
<1>7. CASE GiveUpOnExperiment(t)
  <2>1. pc[t] # "submitting" /\ Return(t, "given up")
    BY <1>7 DEF GiveUpOnExperiment, WaitsForCell, AtExperiment, At
  <2> QED
    BY <1>1, <2>1, MovesAside DEF Answers
<1> QED
  BY <1>2, <1>3, <1>4, <1>5, <1>6, <1>7 DEF OnExperiment, ExperimentStep

(* The steps on the dataset that leave its rows alone. *)
LEMMA DatasetAside ==
  ASSUME Types, NEW t \in Tasks,
         \/ BeginOnDataset(t) \/ RegisterDataset(t) \/ GetId(t) \/ FetchDatasetSummary(t)
         \/ GiveUpOnDataset(t)
  PROVE  Aside
<1>1. UNCHANGED datasetVars
  BY DEF BeginOnDataset, RegisterDataset, GetId, FetchDatasetSummary, GiveUpOnDataset
<1>2. pc[t] # "submitting"
  BY DEF BeginOnDataset, RegisterDataset, GetId, FetchDatasetSummary, GiveUpOnDataset, SetCell,
         WaitsForCell, AtDataset, At
<1>3. \/ Goto(t, "ensure") \/ Goto(t, "registered") \/ \E answer \in Answers : Return(t, answer)
  BY DEF BeginOnDataset, RegisterDataset, GetId, FetchDatasetSummary, GiveUpOnDataset, SetCell,
         DatasetSummary, Answers
<1> QED
  BY <1>1, <1>2, <1>3, MovesAside

(* A row appended behind two sequences is appended to the second. *)
LEMMA AppendBehind ==
  \A a, b \in Seq(DatasetRow) : \A e \in DatasetRow : Append(a \o b, e) = a \o Append(b, e)
<1> SUFFICES ASSUME NEW a \in Seq(DatasetRow), NEW b \in Seq(DatasetRow), NEW e \in DatasetRow
             PROVE  Append(a \o b, e) = a \o Append(b, e)
  OBVIOUS
<1>1. a \o b \in Seq(DatasetRow)
  BY ConcatProperties
<1>2. <<e>> \in Seq(DatasetRow)
  OBVIOUS
<1>3. Append(a \o b, e) = (a \o b) \o <<e>>
  BY <1>1, AppendIsConcat
<1>4. Append(b, e) = b \o <<e>>
  BY AppendIsConcat
<1>5. (a \o b) \o <<e>> = a \o (b \o <<e>>)
  BY <1>2, ConcatAssociative
<1> QED
  BY <1>3, <1>4, <1>5

(* A head that moves from the second of two sequences to the first. *)
LEMMA MoveHead ==
  ASSUME NEW S, NEW a \in Seq(S), NEW b \in Seq(S), b # <<>>
  PROVE  a \o b = Append(a, Head(b)) \o Tail(b)
<1>1. Head(b) \in S /\ Tail(b) \in Seq(S)
  BY HeadTailProperties
<1>2. <<Head(b)>> \in Seq(S)
  BY <1>1
<1>3. b = <<Head(b)>> \o Tail(b)
  <2>1. Len(Tail(b)) = Len(b) - 1 /\ \A i \in 1..Len(Tail(b)) : Tail(b)[i] = b[i + 1]
    BY HeadTailProperties
  <2>2. Len(b) \in Nat \ {0}
    BY EmptySeq
  <2>3. Head(b) = b[1]
    BY <2>2
  <2>4. <<Head(b)>> \o Tail(b) \in Seq(S)
    BY <1>1, <1>2, ConcatProperties
  <2>5. /\ Len(<<Head(b)>> \o Tail(b)) = 1 + Len(Tail(b))
        /\ \A i \in 1..(1 + Len(Tail(b))) :
             (<<Head(b)>> \o Tail(b))[i] = IF i <= 1 THEN <<Head(b)>>[i] ELSE Tail(b)[i - 1]
    BY <1>1, <1>2, ConcatProperties
  <2>6. \A i \in 1..Len(b) : b[i] = (<<Head(b)>> \o Tail(b))[i]
    BY <2>1, <2>2, <2>3, <2>5
  <2> QED
    BY <2>1, <2>2, <2>4, <2>5, <2>6, SeqEqual
<1>4. Append(a, Head(b)) = a \o <<Head(b)>>
  BY <1>1, AppendIsConcat
<1>5. (a \o <<Head(b)>>) \o Tail(b) = a \o (<<Head(b)>> \o Tail(b))
  BY <1>1, <1>2, ConcatAssociative
<1> QED
  BY <1>3, <1>4, <1>5

(* Only the tail of a single element is empty. *)
LEMMA LastOne ==
  ASSUME NEW S, NEW s \in Seq(S), s # <<>>
  PROVE  Len(s) = 1 <=> Tail(s) = <<>>
<1>1. Tail(s) \in Seq(S) /\ Len(Tail(s)) = Len(s) - 1
  BY HeadTailProperties
<1>2. Len(<<>>) = 0
  OBVIOUS
<1>3. Tail(s) # <<>> => Len(Tail(s)) # 0
  BY <1>1, EmptySeq
<1>4. Len(s) \in Nat
  BY LenProperties
<1>5. Tail(s) = <<>> => Len(s) - 1 = 0
  BY <1>1, <1>2
<1>6. Tail(s) # <<>> => Len(s) - 1 # 0
  BY <1>1, <1>3
<1> QED
  BY <1>4, <1>5, <1>6

(* A row that is pushed comes last. *)
LEMMA PushKeepsRows ==
  ASSUME Types, RowsInv, NEW t \in Tasks, Push(t)
  PROVE  RowsInv'
<1> DEFINE r == Row(t)
<1>1. r \in DatasetRow
  <2>1. answers[t] \in Seq(Answers)
    BY DEF Types
  <2>2. Number(t) \in Nat
    BY <2>1, LenProperties DEF Number
  <2> QED
    BY <2>2 DEF Row, DatasetRow, Push, AtDataset, At
<1>2. /\ pending \in Seq(DatasetRow) /\ pushed \in Seq(DatasetRow)
      /\ sent \in Seq(DatasetRow) /\ taken \in [Tasks -> Seq(DatasetRow)]
      /\ overlapped \in BOOLEAN
  BY DEF RowsInv, RowsTyped
<1>3. /\ pending' = Append(pending, r) /\ pushed' = Append(pushed, r)
      /\ sent' = sent /\ taken' = taken /\ overlapped' = overlapped
  BY DEF Push
<1>4. RowsTyped'
  BY <1>1, <1>2, <1>3, AppendProperties DEF RowsTyped
<1>5. \A u \in Tasks : HoldsRows(u)'
  BY <1>3 DEF Types, RowsInv, HoldsRows, Push, AtDataset, At, Return
<1>6. Holding' = Holding
  BY <1>3 DEF Holding
<1>7. Append(sent \o pending, r) = sent \o Append(pending, r)
  BY <1>1, <1>2, AppendBehind
<1>8. ASSUME NEW u \in Tasks
      PROVE  Append(sent \o taken[u] \o pending, r) = sent \o taken[u] \o Append(pending, r)
  <2>1. taken[u] \in Seq(DatasetRow)
    BY <1>2
  <2>2. sent \o taken[u] \in Seq(DatasetRow)
    BY <1>2, <2>1, ConcatProperties
  <2> QED
    BY <1>1, <1>2, <2>2, AppendBehind
<1>9. RowsInOrder'
  BY <1>3, <1>6, <1>7, <1>8 DEF RowsInv, RowsInOrder, Holding
<1> QED
  BY <1>3, <1>4, <1>5, <1>6, <1>9 DEF RowsInv

(* A flush that takes the pending rows is the only one to hold some, or    *)
(* the flushes have overlapped.                                            *)
LEMMA TakeKeepsRows ==
  ASSUME Types, RowsInv, NEW t \in Tasks, Take(t)
  PROVE  RowsInv'
<1>1. /\ pending \in Seq(DatasetRow) /\ pushed \in Seq(DatasetRow)
      /\ sent \in Seq(DatasetRow) /\ taken \in [Tasks -> Seq(DatasetRow)]
      /\ overlapped \in BOOLEAN
  BY DEF RowsInv, RowsTyped
<1>2. pc[t] = "registered" /\ pushed' = pushed /\ sent' = sent
  BY DEF Take, AtDataset, At
<1>3. taken[t] = <<>>
  BY <1>2 DEF RowsInv, HoldsRows
<1>4. CASE cell["dataset"] = Failed
  <2>1. UNCHANGED datasetVars /\ Return(t, "err")
    BY <1>2, <1>4 DEF Take, datasetVars
  <2> QED
    BY <1>2, <2>1, MovesAside, AsideKeepsRows DEF Answers
<1>5. CASE cell["dataset"] # Failed /\ pending = <<>>
  <2>1. /\ pending' = pending /\ taken' = [taken EXCEPT ![t] = <<>>]
        /\ overlapped' = (overlapped \/ (Holding # {} /\ pending # <<>>)) /\ AfterFlush(t)
    BY <1>5 DEF Take
  <2>2. taken' = taken
    BY <1>1, <1>3, <2>1
  <2>3. overlapped' = overlapped
    BY <1>5, <2>1 DEF RowsInv, RowsTyped
  <2>4. Goto(t, "summary") \/ Return(t, "ok")
    BY <2>1 DEF AfterFlush
  <2> QED
    BY <1>2, <2>1, <2>2, <2>3, <2>4, MovesAside, AsideKeepsRows
       DEF datasetVars, Answers
<1>6. CASE cell["dataset"] # Failed /\ pending # <<>>
  <2>1. /\ pending' = <<>> /\ taken' = [taken EXCEPT ![t] = pending]
        /\ overlapped' = (overlapped \/ (Holding # {} /\ pending # <<>>))
        /\ Goto(t, "submitting")
    BY <1>6 DEF Take
  <2>2. \A u \in Tasks : taken'[u] = IF u = t THEN pending ELSE taken[u]
    BY <1>1, <2>1
  <2>3. RowsTyped'
    BY <1>1, <1>2, <2>1 DEF RowsTyped
  <2>4. \A u \in Tasks : HoldsRows(u)'
    BY <1>6, <2>1, <2>2 DEF Types, RowsInv, HoldsRows, Goto
  <2>5. ~overlapped' => Holding = {} /\ ~overlapped
    BY <1>6, <2>1
  <2>6. Holding = {} => Holding' = {t}
    BY <1>6, <2>2 DEF Holding
  <2>7. (sent \o pending) \o <<>> = sent \o pending
    BY <1>1, ConcatProperties, ConcatEmptySeq
  <2>8. RowsInOrder'
    BY <1>2, <2>1, <2>2, <2>5, <2>6, <2>7 DEF RowsInv, RowsInOrder
  <2> QED
    BY <2>3, <2>4, <2>5, <2>6, <2>8 DEF RowsInv
<1> QED
  BY <1>4, <1>5, <1>6

(* The flush submits the oldest of the rows it holds. *)
LEMMA SubmitKeepsRows ==
  ASSUME Types, RowsInv, NEW t \in Tasks, SubmitTaken(t)
  PROVE  RowsInv'
<1> DEFINE first == Head(taken[t])
<1>1. /\ pending \in Seq(DatasetRow) /\ pushed \in Seq(DatasetRow)
      /\ sent \in Seq(DatasetRow) /\ taken \in [Tasks -> Seq(DatasetRow)]
      /\ taken[t] \in Seq(DatasetRow) /\ overlapped \in BOOLEAN
  BY DEF RowsInv, RowsTyped
<1>2. pc[t] = "submitting"
  BY DEF SubmitTaken, AtDataset, At
<1>3. taken[t] # <<>> /\ t \in Holding
  BY <1>2 DEF RowsInv, HoldsRows, Holding
<1>4. /\ sent' = Append(sent, first) /\ taken' = [taken EXCEPT ![t] = Tail(@)]
      /\ pending' = pending /\ pushed' = pushed /\ overlapped' = overlapped
  BY DEF SubmitTaken
<1>5. \A u \in Tasks : taken'[u] = IF u = t THEN Tail(taken[t]) ELSE taken[u]
  BY <1>1, <1>4
<1>6. first \in DatasetRow /\ Tail(taken[t]) \in Seq(DatasetRow)
      /\ Len(Tail(taken[t])) = Len(taken[t]) - 1
  BY <1>1, <1>3, HeadTailProperties
<1>7. Append(sent, first) \in Seq(DatasetRow)
  BY <1>1, <1>6, AppendProperties
<1>8. RowsTyped'
  BY <1>1, <1>4, <1>6, <1>7 DEF RowsTyped
<1>9. Len(taken[t]) = 1 <=> Tail(taken[t]) = <<>>
  BY <1>1, <1>3, LastOne
<1>10. \A u \in Tasks : HoldsRows(u)'
  <2>1. CASE Len(taken[t]) = 1
    <3>1. \A u \in Tasks : (pc'[u] = "submitting") <=> (u # t /\ pc[u] = "submitting")
      BY <2>1 DEF SubmitTaken, AfterFlush, Return, Goto, Types
    <3> QED
      BY <1>5, <1>9, <2>1, <3>1 DEF RowsInv, HoldsRows
  <2>2. CASE Len(taken[t]) # 1
    <3>1. pc' = pc
      BY <2>2 DEF SubmitTaken, taskVars
    <3> QED
      BY <1>2, <1>5, <1>9, <2>2, <3>1 DEF RowsInv, HoldsRows
  <2> QED
    BY <2>1, <2>2
<1>11. Holding' \subseteq Holding /\ (Tail(taken[t]) = <<>> => t \notin Holding')
  BY <1>3, <1>5 DEF Holding
<1>12. sent \o taken[t] = Append(sent, first) \o Tail(taken[t])
  BY <1>1, <1>3, MoveHead
<1>13. Tail(taken[t]) = <<>> => Append(sent, first) \o Tail(taken[t]) = Append(sent, first)
  BY <1>7, ConcatEmptySeq
<1>14. RowsInOrder'
  <2> SUFFICES ASSUME ~overlapped PROVE RowsInOrder'
    BY <1>4 DEF RowsInOrder
  <2>1. Holding = {t} /\ pushed = sent \o taken[t] \o pending
    BY <1>3 DEF RowsInv, RowsInOrder
  <2>2. CASE Tail(taken[t]) = <<>>
    <3>1. Holding' = {}
      BY <1>11, <2>1, <2>2
    <3> QED
      BY <1>4, <1>12, <1>13, <2>1, <2>2, <3>1 DEF RowsInOrder
  <2>3. CASE Tail(taken[t]) # <<>>
    <3>1. Holding' = {t}
      BY <1>5, <1>11, <2>1, <2>3 DEF Holding
    <3> QED
      BY <1>4, <1>5, <1>12, <2>1, <3>1 DEF RowsInOrder
  <2> QED
    BY <2>2, <2>3
<1> QED
  BY <1>4, <1>8, <1>10, <1>11, <1>14 DEF RowsInv

-----------------------------------------------------------------------------
(* No row is lost or repeated.                                             *)

(* A row that was pushed is of a call that is over. *)
RowsNumbered == \A r \in ToSet(pushed) : r.call[2] < Number(r.call[1])

LEMMA RowsOf ==
  ASSUME NEW s \in Seq(DatasetRow)
  PROVE  ToSet(s) \subseteq DatasetRow
BY ElementOfSeq, LenProperties DEF ToSet

LEMMA AppendOnce ==
  ASSUME NEW s \in Seq(DatasetRow), NEW e \in DatasetRow
  PROVE  /\ ToSet(Append(s, e)) = ToSet(s) \cup {e}
         /\ Once(s) /\ e \notin ToSet(s) => Once(Append(s, e))
<1> DEFINE a == Append(s, e)
<1>1. /\ a \in Seq(DatasetRow) /\ Len(a) = Len(s) + 1
      /\ \A i \in 1..Len(s) : a[i] = s[i]
      /\ a[Len(s) + 1] = e
  BY AppendProperties
<1>2. Len(s) \in Nat /\ DOMAIN s = 1..Len(s) /\ DOMAIN a = 1..(Len(s) + 1)
  BY <1>1, LenProperties
<1> HIDE DEF a
<1>3. ToSet(a) = ToSet(s) \cup {e}
  BY <1>1, <1>2 DEF ToSet
<1>4. ASSUME Once(s), e \notin ToSet(s)
      PROVE  Once(a)
  <2> SUFFICES ASSUME NEW i \in DOMAIN a, NEW j \in DOMAIN a, a[i] = a[j]
               PROVE  i = j
    BY DEF Once
  <2>1. \A k \in DOMAIN s : s[k] # e
    BY <1>4 DEF ToSet
  <2> QED
    BY <1>1, <1>2, <1>4, <2>1 DEF Once
<1> QED
  BY <1>3, <1>4 DEF a

LEMMA TailOnce ==
  ASSUME NEW s \in Seq(DatasetRow), s # <<>>
  PROVE  /\ ToSet(s) = {Head(s)} \cup ToSet(Tail(s))
         /\ Once(s) => Once(Tail(s)) /\ Head(s) \notin ToSet(Tail(s))
<1> DEFINE tl == Tail(s)
<1>1. /\ tl \in Seq(DatasetRow) /\ Len(tl) = Len(s) - 1
      /\ \A i \in 1..Len(tl) : tl[i] = s[i + 1]
  BY HeadTailProperties
<1>2. Len(s) \in Nat \ {0} /\ DOMAIN s = 1..Len(s) /\ DOMAIN tl = 1..Len(tl)
  BY <1>1, LenProperties, EmptySeq
<1>3. Head(s) = s[1]
  BY <1>2
<1> HIDE DEF tl
<1>4. ToSet(s) = {s[1]} \cup ToSet(tl)
  <2>1. \A i \in DOMAIN s : i = 1 \/ (i - 1 \in DOMAIN tl /\ s[i] = tl[i - 1])
    BY <1>1, <1>2
  <2>2. \A i \in DOMAIN tl : i + 1 \in DOMAIN s /\ tl[i] = s[i + 1]
    BY <1>1, <1>2
  <2>3. 1 \in DOMAIN s
    BY <1>2
  <2> QED
    BY <2>1, <2>2, <2>3 DEF ToSet
<1>5. Once(s) => Once(tl) /\ s[1] \notin ToSet(tl)
  BY <1>1, <1>2 DEF Once, ToSet
<1> QED
  BY <1>3, <1>4, <1>5 DEF tl

(* Calls are only ever counted up. *)
LEMMA NumbersGrow ==
  ASSUME Types, Proceeds
  PROVE  \A u \in Tasks : /\ Number(u) \in Nat /\ Number(u)' \in Nat
                          /\ Number(u)' >= Number(u)
<1>1. \A u \in Tasks : Len(answers[u]) \in Nat
  BY LenProperties DEF Types
<1>2. CASE answers' = answers
  BY <1>1, <1>2 DEF Number
<1>3. ASSUME NEW t \in Tasks, NEW answer \in Answers, Return(t, answer), NEW u \in Tasks
      PROVE  Len(answers'[u]) \in Nat /\ Len(answers'[u]) >= Len(answers[u])
  <2>1. answers'[u] = IF u = t THEN Append(answers[t], answer) ELSE answers[u]
    BY <1>3 DEF Return, Types
  <2>2. answers[t] \in Seq(Answers)
    BY DEF Types
  <2>3. Len(Append(answers[t], answer)) = Len(answers[t]) + 1
    BY <2>2, AppendProperties
  <2> QED
    BY <1>1, <2>1, <2>3
<1> QED
  BY <1>1, <1>2, <1>3 DEF Proceeds, Number, Goto, taskVars

LEMMA NumberedKept ==
  ASSUME RowsTyped, RowsNumbered, pushed' = pushed,
         \A u \in Tasks : /\ Number(u) \in Nat /\ Number(u)' \in Nat
                          /\ Number(u)' >= Number(u)
  PROVE  RowsNumbered'
<1>1. ToSet(pushed)' = ToSet(pushed)
  BY DEF ToSet
<1>2. ASSUME NEW r \in ToSet(pushed)
      PROVE  r.call[2] < Number(r.call[1])'
  <2>1. r.call[1] \in Tasks /\ r.call[2] \in Nat
    BY RowsOf DEF RowsTyped, DatasetRow
  <2>2. r.call[2] < Number(r.call[1])
    BY DEF RowsNumbered
  <2> QED
    BY <2>1, <2>2
<1> QED
  BY <1>1, <1>2 DEF RowsNumbered

OnceInv == RowsKeptOnce /\ RowsNumbered

(* A row that is pushed is of a call that has pushed none. *)
LEMMA PushKeepsOnce ==
  ASSUME Types, RowsInv, OnceInv, NEW t \in Tasks, Push(t)
  PROVE  OnceInv'
<1> DEFINE r == Row(t)
<1>1. answers[t] \in Seq(Answers) /\ Number(t) \in Nat /\ Return(t, "ok") /\ "ok" \in Answers
  <2>1. answers[t] \in Seq(Answers)
    BY DEF Types
  <2>2. Number(t) \in Nat
    BY <2>1, LenProperties DEF Number
  <2> QED
    BY <2>1, <2>2 DEF Push, Answers
<1>2. r \in DatasetRow /\ r.call = <<t, Number(t)>>
  BY <1>1 DEF Row, DatasetRow, Push, AtDataset, At
<1>3. pending \in Seq(DatasetRow) /\ pushed \in Seq(DatasetRow)
  BY DEF RowsInv, RowsTyped
<1>4. /\ pending' = Append(pending, r) /\ pushed' = Append(pushed, r)
      /\ sent' = sent /\ taken' = taken
  BY DEF Push
<1>5. r \notin ToSet(pushed)
  BY <1>1, <1>2 DEF OnceInv, RowsNumbered
<1>6. /\ ToSet(pending)' = ToSet(pending) \cup {r} /\ ToSet(pushed)' = ToSet(pushed) \cup {r}
      /\ ToSet(sent)' = ToSet(sent) /\ \A u \in Tasks : ToSet(taken[u])' = ToSet(taken[u])
  BY <1>2, <1>3, <1>4, AppendOnce
<1>7. /\ r \notin ToSet(sent) /\ r \notin ToSet(pending)
      /\ \A u \in Tasks : r \notin ToSet(taken[u])
  BY <1>5 DEF OnceInv, RowsKeptOnce
<1>8. Once(pending)'
  BY <1>2, <1>3, <1>4, <1>7, AppendOnce DEF OnceInv, RowsKeptOnce
<1>9. RowsKeptOnce'
  <2>1. Once(sent)' /\ \A u \in Tasks : Once(taken[u])'
    BY <1>4 DEF OnceInv, RowsKeptOnce, Once
  <2>2. /\ (ToSet(sent) \cap ToSet(pending))' = {}
        /\ \A u \in Tasks : (ToSet(taken[u]) \cap (ToSet(sent) \cup ToSet(pending)))' = {}
    BY <1>6, <1>7 DEF OnceInv, RowsKeptOnce
  <2>3. \A u \in Tasks : \A v \in Tasks \ {u} : (ToSet(taken[u]) \cap ToSet(taken[v]))' = {}
    BY <1>6 DEF OnceInv, RowsKeptOnce
  <2>4. (UNION {ToSet(taken[u]) : u \in Tasks})' = UNION {ToSet(taken[u]) : u \in Tasks}
    BY <1>4
  <2>5. ToSet(pushed)' = (ToSet(sent) \cup ToSet(pending) \cup UNION {ToSet(taken[u]) : u \in Tasks})'
    BY <1>6, <2>4 DEF OnceInv, RowsKeptOnce
  <2> QED
    BY <1>8, <2>1, <2>2, <2>3, <2>5 DEF RowsKeptOnce
<1>10. RowsNumbered'
  <2>1. \A u \in Tasks : Number(u) \in Nat /\ Number(u)' \in Nat /\ Number(u)' >= Number(u)
    BY <1>1, NumbersGrow DEF Proceeds
  <2>2. Number(t)' = Number(t) + 1
    <3>1. answers'[t] = Append(answers[t], "ok")
      BY <1>1 DEF Return, Types
    <3>2. Len(answers'[t]) = Len(answers[t]) + 1 /\ Len(answers[t]) \in Nat
      BY <1>1, <3>1, AppendProperties, LenProperties
    <3> QED
      BY <3>2 DEF Number
  <2>3. ASSUME NEW q \in ToSet(pushed)
        PROVE  q.call[2] < Number(q.call[1])'
    <3>1. q.call[1] \in Tasks /\ q.call[2] \in Nat
      BY <1>3, RowsOf DEF DatasetRow
    <3>2. q.call[2] < Number(q.call[1])
      BY DEF OnceInv, RowsNumbered
    <3> QED
      BY <2>1, <3>1, <3>2
  <2>4. \A q \in {r} : q.call[2] < Number(q.call[1])'
    BY <1>1, <1>2, <2>2
  <2> QED
    BY <1>6, <2>3, <2>4 DEF RowsNumbered
<1> QED
  BY <1>9, <1>10 DEF OnceInv

(* The rows that a flush takes are pending no more. *)
LEMMA TakeKeepsOnce ==
  ASSUME Types, RowsInv, OnceInv, NEW t \in Tasks, Take(t)
  PROVE  OnceInv'
<1>1. /\ pending \in Seq(DatasetRow) /\ taken \in [Tasks -> Seq(DatasetRow)]
      /\ pc[t] = "registered" /\ pushed' = pushed /\ sent' = sent
  BY DEF RowsInv, RowsTyped, Take, AtDataset, At
<1>2. taken[t] = <<>>
  BY <1>1 DEF RowsInv, HoldsRows
<1>3. \/ pending' = pending /\ taken' = taken
      \/ pending' = <<>> /\ taken' = [taken EXCEPT ![t] = pending]
  BY DEF Take
<1>4. RowsKeptOnce'
  <2>1. CASE pending' = pending /\ taken' = taken
    BY <1>1, <2>1 DEF OnceInv, RowsKeptOnce, Once
  <2>2. CASE pending' = <<>> /\ taken' = [taken EXCEPT ![t] = pending]
    <3>1. \A u \in Tasks : taken'[u] = IF u = t THEN pending ELSE taken[u]
      BY <1>1, <2>2
    <3>2. ToSet(<<>>) = {} /\ Once(<<>>)
      BY DEF ToSet, Once
    <3>3. /\ Once(sent)' /\ Once(pending)' /\ \A u \in Tasks : Once(taken[u])'
      <4>1. \A u \in Tasks : Once(taken'[u])
        BY <3>1 DEF OnceInv, RowsKeptOnce
      <4> QED
        BY <1>1, <2>2, <3>2, <4>1 DEF OnceInv, RowsKeptOnce, Once
    <3>4. /\ ToSet(sent)' = ToSet(sent) /\ ToSet(pushed)' = ToSet(pushed) /\ ToSet(pending)' = {}
          /\ \A u \in Tasks : ToSet(taken[u])' = IF u = t THEN ToSet(pending) ELSE ToSet(taken[u])
      BY <1>1, <2>2, <3>1, <3>2
    <3>5. ToSet(taken[t]) = {}
      BY <1>2, <3>2
    <3>6. (UNION {ToSet(taken[u]) : u \in Tasks})'
            = ToSet(pending) \cup UNION {ToSet(taken[u]) : u \in Tasks}
      BY <3>4, <3>5
    <3>7. /\ (ToSet(sent) \cap ToSet(pending))' = {}
          /\ \A u \in Tasks : (ToSet(taken[u]) \cap (ToSet(sent) \cup ToSet(pending)))' = {}
      BY <3>4 DEF OnceInv, RowsKeptOnce
    <3>8. \A u \in Tasks : \A v \in Tasks \ {u} : (ToSet(taken[u]) \cap ToSet(taken[v]))' = {}
      BY <3>4 DEF OnceInv, RowsKeptOnce
    <3>9. ToSet(pushed)' = (ToSet(sent) \cup ToSet(pending) \cup UNION {ToSet(taken[u]) : u \in Tasks})'
      BY <3>4, <3>6 DEF OnceInv, RowsKeptOnce
    <3> QED
      BY <3>3, <3>7, <3>8, <3>9 DEF RowsKeptOnce
  <2> QED
    BY <1>3, <2>1, <2>2
<1>5. Proceeds
  BY DEF Proceeds, Take, AfterFlush, Answers
<1>6. RowsNumbered'
  BY <1>1, <1>5, NumbersGrow, NumberedKept DEF RowsInv, OnceInv
<1> QED
  BY <1>4, <1>6 DEF OnceInv

(* The row that a flush submits is held no more. *)
LEMMA SubmitKeepsOnce ==
  ASSUME Types, RowsInv, OnceInv, NEW t \in Tasks, SubmitTaken(t)
  PROVE  OnceInv'
<1> DEFINE first == Head(taken[t])
<1> DEFINE rest == Tail(taken[t])
<1>1. /\ sent \in Seq(DatasetRow) /\ taken \in [Tasks -> Seq(DatasetRow)]
      /\ taken[t] \in Seq(DatasetRow) /\ pc[t] = "submitting"
  BY DEF RowsInv, RowsTyped, SubmitTaken, AtDataset, At
<1>2. taken[t] # <<>>
  BY <1>1 DEF RowsInv, HoldsRows
<1>3. first \in DatasetRow
  BY <1>1, <1>2, HeadTailProperties
<1>4. /\ sent' = Append(sent, first) /\ taken' = [taken EXCEPT ![t] = rest]
      /\ pending' = pending /\ pushed' = pushed
  BY DEF SubmitTaken
<1>5. /\ ToSet(taken[t]) = {first} \cup ToSet(rest)
      /\ Once(rest) /\ first \notin ToSet(rest)
  BY <1>1, <1>2, TailOnce DEF OnceInv, RowsKeptOnce
<1>6. first \notin ToSet(sent)
  BY <1>5 DEF OnceInv, RowsKeptOnce
<1>7. ToSet(Append(sent, first)) = ToSet(sent) \cup {first} /\ Once(Append(sent, first))
  BY <1>1, <1>3, <1>6, AppendOnce DEF OnceInv, RowsKeptOnce
<1> HIDE DEF first, rest
<1>8. \A u \in Tasks : taken'[u] = IF u = t THEN rest ELSE taken[u]
  BY <1>1, <1>4
<1>9. /\ ToSet(sent') = ToSet(sent) \cup {first}
      /\ ToSet(pushed') = ToSet(pushed) /\ ToSet(pending') = ToSet(pending)
      /\ \A u \in Tasks : ToSet(taken'[u]) = IF u = t THEN ToSet(rest) ELSE ToSet(taken[u])
  BY <1>4, <1>7, <1>8
<1>10. RowsKeptOnce'
  <2>1. Once(sent') /\ Once(pending') /\ \A u \in Tasks : Once(taken'[u])
    BY <1>4, <1>5, <1>7, <1>8 DEF OnceInv, RowsKeptOnce
  <2>2. UNION {ToSet(taken[u]) : u \in Tasks} = {first} \cup UNION {ToSet(taken'[u]) : u \in Tasks}
    BY <1>5, <1>9
  <2>3. ToSet(sent') \cap ToSet(pending') = {}
    BY <1>5, <1>9 DEF OnceInv, RowsKeptOnce
  <2>4. \A u \in Tasks : ToSet(taken'[u]) \cap (ToSet(sent') \cup ToSet(pending')) = {}
    BY <1>5, <1>9 DEF OnceInv, RowsKeptOnce
  <2>5. \A u \in Tasks : \A v \in Tasks \ {u} : ToSet(taken'[u]) \cap ToSet(taken'[v]) = {}
    BY <1>5, <1>9 DEF OnceInv, RowsKeptOnce
  <2>6. ToSet(pushed') = ToSet(sent') \cup ToSet(pending') \cup UNION {ToSet(taken'[u]) : u \in Tasks}
    BY <1>5, <1>9, <2>2 DEF OnceInv, RowsKeptOnce
  <2> QED
    BY <2>1, <2>3, <2>4, <2>5, <2>6 DEF RowsKeptOnce, Once
<1>11. Proceeds
  BY DEF Proceeds, SubmitTaken, AfterFlush, Answers
<1>12. RowsNumbered'
  BY <1>4, <1>11, NumbersGrow, NumberedKept DEF RowsInv, OnceInv
<1> QED
  BY <1>10, <1>12 DEF OnceInv

(* Steps beside the rows leave them where they are. *)
LEMMA AsideKeepsOnce ==
  ASSUME Types, RowsInv, OnceInv, Aside
  PROVE  OnceInv'
<1>1. pending' = pending /\ taken' = taken /\ pushed' = pushed /\ sent' = sent
  BY DEF Aside, datasetVars
<1>2. RowsKeptOnce'
  BY <1>1 DEF OnceInv, RowsKeptOnce, Once
<1>3. RowsNumbered'
  BY <1>1, NumbersGrow, NumberedKept DEF Aside, RowsInv, OnceInv
<1> QED
  BY <1>2, <1>3 DEF OnceInv

-----------------------------------------------------------------------------
(* The theorems.                                                           *)

Inv == CellInv /\ RowsInv /\ OnceInv

LEMMA InvInit == Init => Inv
<1> SUFFICES ASSUME Init PROVE Inv
  OBVIOUS
<1>1. <<>> \in Seq(Answers) /\ <<>> \in Seq(DatasetRow)
  BY EmptySeq
<1>2. Types
  <2>1. answers = [t \in Tasks |-> <<>>] /\ pc = [t \in Tasks |-> "idle"]
    BY DEF Init, ClientInit
  <2>2. answers \in [Tasks -> Seq(Answers)]
    BY <1>1, <2>1
  <2>3. pc \in [Tasks -> Labels]
    BY <2>1 DEF Labels
  <2>4. /\ cell \in [Handles -> Ids \cup {Failed, None}]
        /\ initializer \in [Handles -> Tasks \cup {None}]
    BY DEF Init, ClientInit
  <2> QED
    BY <2>2, <2>3, <2>4 DEF Types
<1>3. CellInv
  BY <1>2 DEF Init, ClientInit, CellInv, AtCell, CellLabels
<1>4. pending = <<>> /\ pushed = <<>> /\ sent = <<>> /\ taken = [t \in Tasks |-> <<>>]
      /\ overlapped = FALSE
  BY DEF Init, DatasetInit
<1>5. RowsTyped
  BY <1>1, <1>4 DEF RowsTyped
<1>6. \A t \in Tasks : HoldsRows(t)
  BY <1>4 DEF HoldsRows, Init, ClientInit
<1>7. Holding = {}
  BY <1>4 DEF Holding
<1>8. <<>> \o <<>> = <<>>
  BY <1>1, ConcatEmptySeq
<1>9. RowsInv
  BY <1>4, <1>5, <1>6, <1>7, <1>8 DEF RowsInv, RowsInOrder
<1>10. ToSet(<<>>) = {} /\ Once(<<>>)
  BY DEF ToSet, Once
<1>11. OnceInv
  BY <1>4, <1>10 DEF OnceInv, RowsKeptOnce, RowsNumbered
<1> QED
  BY <1>3, <1>9, <1>11 DEF Inv

LEMMA InvNext == Inv /\ [Next]_vars => Inv'
<1> SUFFICES ASSUME Inv, [Next]_vars PROVE Inv'
  OBVIOUS
<1>0. CellInv /\ RowsInv /\ OnceInv /\ Types /\ RowsTyped
  BY DEF Inv, CellInv, RowsInv
<1>1. ASSUME NEW t \in Tasks, OnDataset(t)
      PROVE  Inv'
  <2>1. CellInv'
    BY <1>0, <1>1, DatasetKeepsCells DEF OnDataset, RowsInv
  <2>2. \/ Push(t) \/ Take(t) \/ SubmitTaken(t)
        \/ BeginOnDataset(t) \/ RegisterDataset(t) \/ GetId(t) \/ FetchDatasetSummary(t)
        \/ GiveUpOnDataset(t)
    BY <1>1 DEF OnDataset, DatasetStep
  <2>3. RowsInv'
    BY <1>0, <2>2, PushKeepsRows, TakeKeepsRows, SubmitKeepsRows, DatasetAside, AsideKeepsRows
  <2>4. OnceInv'
    BY <1>0, <2>2, PushKeepsOnce, TakeKeepsOnce, SubmitKeepsOnce, DatasetAside, AsideKeepsOnce
  <2> QED
    BY <2>1, <2>3, <2>4 DEF Inv
<1>2. ASSUME NEW t \in Tasks, OnReader(t)
      PROVE  Inv'
  <2>1. CellInv'
    BY <1>0, <1>2, ReaderKeepsCells DEF OnReader
  <2> QED
    BY <1>0, <1>2, <2>1, ReaderAside, AsideKeepsRows, AsideKeepsOnce DEF Inv
<1>3. ASSUME NEW t \in Tasks, OnExperiment(t)
      PROVE  Inv'
  <2>1. CellInv'
    BY <1>0, <1>3, ExperimentKeepsCells DEF OnExperiment
  <2> QED
    BY <1>0, <1>3, <2>1, ExperimentAside, AsideKeepsRows, AsideKeepsOnce DEF Inv
<1>4. ASSUME NEW t \in Tasks, Shared(Ensure(t))
      PROVE  Inv'
  <2>1. Ensure(t) /\ UNCHANGED datasetVars /\ pc[t] # "submitting"
    BY <1>4 DEF Shared, Ensure
  <2>2. Goto(t, "registered") \/ Goto(t, "registering")
    BY <2>1 DEF Ensure
  <2> QED
    BY <1>0, <2>1, <2>2, EnsureKeeps, MovesAside, AsideKeepsRows, AsideKeepsOnce
       DEF Inv
<1>5. CASE Shared(BackgroundFlush) \/ UNCHANGED vars
  <2>1. /\ UNCHANGED taskVars /\ UNCHANGED cellVars /\ UNCHANGED datasetVars
        /\ submitted' = submitted
    BY <1>5 DEF Shared, BackgroundFlush, FlushAll, vars, clientVars, queueVars
  <2>2. Aside
    BY <2>1 DEF Aside, Proceeds, taskVars
  <2>3. CellInv'
    <3>1. Types'
      BY <1>0, <2>1 DEF Types, taskVars, cellVars
    <3>2. \A t \in Tasks : AtCell(t)'
      BY <2>1 DEF Inv, CellInv, AtCell, Call, Number, taskVars, cellVars
    <3>3. \A s \in submitted' : Placed(s)'
      BY <2>1 DEF Inv, CellInv, Placed, cellVars
    <3> QED
      BY <3>1, <3>2, <3>3 DEF CellInv
  <2> QED
    BY <1>0, <2>2, <2>3, AsideKeepsRows, AsideKeepsOnce DEF Inv
<1> QED
  BY <1>1, <1>2, <1>3, <1>4, <1>5 DEF Next

LEMMA InvAlways == Spec => []Inv
BY InvInit, InvNext, PTL DEF Spec

(* However many callers race for a registration or give it up, every row   *)
(* that goes through one handle goes to the object that its cell names.    *)
THEOREM RowsGoToOneObject == Spec => []OneObject
<1>1. Inv => OneObject
  BY DEF Inv, CellInv, Placed, OneObject
<1> QED
  BY <1>1, InvAlways, PTL

(* A row of a dataset is pending, in the hands of one flush or submitted,  *)
(* and once, whatever fails, is given up or runs at the same time.         *)
THEOREM RowsAreKeptOnce == Spec => []RowsKeptOnce
<1>1. Inv => RowsKeptOnce
  BY DEF Inv, OnceInv
<1> QED
  BY <1>1, InvAlways, PTL

(* Rows of a dataset reach the queue in the order of the calls unless two  *)
(* flushes held rows at the same time.                                     *)
THEOREM RowsStayInOrder == Spec => []RowsInOrder
<1>1. Inv => RowsInOrder
  BY DEF Inv, RowsInv
<1> QED
  BY <1>1, InvAlways, PTL

-----------------------------------------------------------------------------
(* The spans of log calls.                                                 *)

Queued == {s.row : s \in queue \ stranded}

(* What the row of a call is, whatever it was made of. *)
RowFor(c) == [call |-> c, on |-> program[c[1]][c[2]].on, op |-> program[c[1]][c[2]].op]

(* Only log calls submit rows of log calls. *)
LogRows ==
  \A s \in submitted : s.row.op = "log" =>
    s.row.call \in Tasks \X Nat /\ s.row = RowFor(s.row.call)

LoggedKnown ==
  /\ DOMAIN logged = Tasks
  /\ \A t \in Tasks : logged[t] \subseteq Logged

(* The lock of pending_flushes is held through a flush of spans. *)
HoldsLock ==
  \A t \in Tasks : flusher = t =>
    pc[t] = "flushing" /\ Call(t).on \in Experiments /\ Call(t).op \in FlushAllOps

(* A logged row that a flush is still to take has its span in              *)
(* pending_flushes or in the hands of the flush that holds the lock.       *)
Tracked ==
  FlushesFinished => \A r \in Logged \cap Queued : r \in pendingFlushes \/ flusher # None

SpanInv == LogRows /\ LoggedKnown /\ HoldsLock /\ Tracked /\ LoggedIsFlushed

LEMMA AnswersAre ==
  ASSUME Types, NEW u \in Tasks
  PROVE  /\ Len(answers[u]) \in Nat /\ DOMAIN answers[u] = 1..Len(answers[u])
         /\ Number(u) \in Nat /\ Number(u) \notin DOMAIN answers[u]
<1>1. answers[u] \in Seq(Answers)
  BY DEF Types
<1>2. Len(answers[u]) \in Nat /\ DOMAIN answers[u] = 1..Len(answers[u])
  BY <1>1, LenProperties
<1> QED
  BY <1>2 DEF Number

(* A call that returns adds its answer to those of its task. *)
LEMMA ReturnAnswers ==
  ASSUME Types, NEW t \in Tasks, NEW a \in Answers, Return(t, a)
  PROVE  /\ program' = program
         /\ pc'[t] = "idle"
         /\ DOMAIN answers'[t] = 1..Number(t) /\ Len(answers'[t]) = Number(t)
         /\ answers'[t][Number(t)] = a
         /\ \A n \in DOMAIN answers[t] : n \in DOMAIN answers'[t] /\ answers'[t][n] = answers[t][n]
         /\ \A u \in Tasks \ {t} : answers'[u] = answers[u] /\ pc'[u] = pc[u]
<1>1. answers[t] \in Seq(Answers)
  BY DEF Types
<1> DEFINE s == answers[t]
<1>2. /\ Append(s, a) \in Seq(Answers) /\ Len(Append(s, a)) = Len(s) + 1
      /\ \A n \in 1..Len(s) : Append(s, a)[n] = s[n]
      /\ Append(s, a)[Len(s) + 1] = a
  BY <1>1, AppendProperties
<1>3. DOMAIN Append(s, a) = 1..(Len(s) + 1) /\ DOMAIN s = 1..Len(s) /\ Len(s) \in Nat
  BY <1>1, <1>2, LenProperties
<1>4. answers'[t] = Append(s, a)
  BY DEF Return, Types
<1>5. program' = program /\ pc'[t] = "idle"
      /\ \A u \in Tasks \ {t} : answers'[u] = answers[u] /\ pc'[u] = pc[u]
  BY DEF Return, Types
<1> HIDE DEF s
<1>6. Number(t) = Len(s) + 1
  BY DEF Number, s
<1>7. /\ DOMAIN answers'[t] = 1..Number(t) /\ Len(answers'[t]) = Number(t)
      /\ answers'[t][Number(t)] = a
      /\ \A n \in DOMAIN s : n \in DOMAIN answers'[t] /\ answers'[t][n] = s[n]
  BY <1>2, <1>3, <1>4, <1>6
<1> QED
  BY <1>5, <1>7 DEF s

(* A flush of pending_flushes that was given up stays so. *)
LEMMA FinishedBefore ==
  ASSUME Types, Proceeds, FlushesFinished'
  PROVE  FlushesFinished
<1>1. CASE UNCHANGED <<program, answers>>
  BY <1>1 DEF FlushesFinished
<1>2. ASSUME NEW t \in Tasks, NEW a \in Answers, Return(t, a) PROVE FlushesFinished
  <2>1. program' = program
        /\ \A u \in Tasks : \A n \in DOMAIN answers[u] :
             n \in DOMAIN answers'[u] /\ answers'[u][n] = answers[u][n]
    BY <1>2, ReturnAnswers
  <2> QED
    BY <2>1 DEF FlushesFinished
<1> QED
  BY <1>1, <1>2 DEF Proceeds, Goto, taskVars

(* A row that is not among those of calls that are over. *)
NewRow(r, t) == r.op # "log" \/ r = Row(t)

(* A step of t that ends no log call. *)
Unlogged(t) ==
  /\ submitted \subseteq submitted'
  /\ \A s \in submitted' : s \in submitted \/ NewRow(s.row, t)
  /\ \/ \E label : label # "idle" /\ Goto(t, label)
     \/ UNCHANGED taskVars
     \/ \E a \in Answers : Return(t, a) /\ (a = "ok" => Call(t).op # "log")

(* Nor does it end a flush of the experiment, or touch pending_flushes. *)
Apart(t) ==
  /\ Unlogged(t)
  /\ UNCHANGED <<pendingFlushes, flusher, logged>>
  /\ flusher # t
  /\ \A s \in queue' \ stranded' : s \in queue \ stranded \/ NewRow(s.row, t)
  /\ \A a \in Answers : Return(t, a) /\ a = "ok" =>
       ~ (Call(t).op = "flush" /\ Call(t).on \in Experiments)

LEMMA RowForCall ==
  ASSUME Types, NEW t \in Tasks
  PROVE  /\ Row(t) = RowFor(Row(t).call) /\ Row(t).call \in Tasks \X Nat
         /\ Row(t).call[1] = t /\ Row(t).call[2] = Number(t)
         /\ Row(t).op = Call(t).op /\ Row(t).on = Call(t).on
BY AnswersAre DEF Row, RowFor, Call

(* A row of a log call that is over is that of the call. *)
LEMMA LoggedAre ==
  ASSUME Types, LogRows, NEW r \in Logged
  PROVE  /\ r.call[1] \in Tasks /\ r.op = "log" /\ r = RowFor(r.call)
         /\ program[r.call[1]][r.call[2]].op = "log"
         /\ r.call[2] \in DOMAIN answers[r.call[1]]
         /\ answers[r.call[1]][r.call[2]] = "ok"
<1>1. PICK s \in submitted : s.row = r
  BY DEF Logged
<1>2. /\ r.op = "log" /\ r.call[2] \in DOMAIN answers[r.call[1]]
      /\ answers[r.call[1]][r.call[2]] = "ok"
  BY DEF Logged
<1>3. r.call \in Tasks \X Nat /\ r = RowFor(r.call)
  BY <1>1, <1>2 DEF LogRows
<1>4. r.op = program[r.call[1]][r.call[2]].op
  BY <1>3 DEF RowFor
<1> QED
  BY <1>2, <1>3, <1>4

(* A row that is submitted is not yet among those of calls that are over. *)
LEMMA NewNotLogged ==
  ASSUME Types, LogRows, NEW t \in Tasks, NEW r, NewRow(r, t)
  PROVE  r \notin Logged
<1> SUFFICES ASSUME r \in Logged PROVE FALSE
  OBVIOUS
<1>1. r = Row(t) /\ r.call[2] \in DOMAIN answers[r.call[1]]
  BY LoggedAre DEF NewRow
<1> QED
  BY <1>1, RowForCall, AnswersAre

LEMMA UnloggedKeeps ==
  ASSUME Types, LogRows, NEW t \in Tasks, Unlogged(t)
  PROVE  LogRows' /\ Logged' = Logged
<1>1. program' = program
  BY DEF Unlogged, Goto, Return, taskVars
<1>2. LogRows'
  <2> SUFFICES ASSUME NEW s \in submitted', s.row.op = "log"
               PROVE  s.row.call \in Tasks \X Nat /\ s.row = RowFor(s.row.call)
    BY <1>1 DEF LogRows, RowFor
  <2>1. CASE s \in submitted
    BY <2>1 DEF LogRows
  <2>2. CASE NewRow(s.row, t)
    BY <2>2, RowForCall DEF NewRow
  <2> QED
    BY <2>1, <2>2 DEF Unlogged
<1>3. ASSUME NEW r \in Logged PROVE r \in Logged'
  <2>1. PICK s \in submitted : s.row = r
    BY DEF Logged
  <2>2. s \in submitted'
    BY DEF Unlogged
  <2>3. r.call[1] \in Tasks /\ r.op = "log" /\ r.call[2] \in DOMAIN answers[r.call[1]]
        /\ answers[r.call[1]][r.call[2]] = "ok"
    BY LoggedAre
  <2>4. r.call[2] \in DOMAIN answers'[r.call[1]] /\ answers'[r.call[1]][r.call[2]] = "ok"
    BY <2>3, ReturnAnswers DEF Unlogged, Goto, taskVars
  <2> QED
    BY <2>1, <2>2, <2>3, <2>4 DEF Logged
<1>4. ASSUME NEW r \in Logged' PROVE r \in Logged
  <2>1. PICK s \in submitted' : s.row = r
    BY DEF Logged
  <2>2. /\ r.op = "log" /\ r.call[2] \in DOMAIN answers'[r.call[1]]
        /\ answers'[r.call[1]][r.call[2]] = "ok"
    BY <1>4 DEF Logged
  <2>3. r.call \in Tasks \X Nat /\ r = RowFor(r.call)
    BY <1>1, <1>2, <2>1, <2>2 DEF LogRows, RowFor
  <2>4. r.call[1] \in Tasks /\ r.op = program[r.call[1]][r.call[2]].op
    BY <2>3 DEF RowFor
  <2>5. r.call[2] \in DOMAIN answers[r.call[1]] /\ answers[r.call[1]][r.call[2]] = "ok"
    <3>1. CASE answers' = answers
      BY <2>2, <3>1
    <3>2. ASSUME NEW a \in Answers, Return(t, a), a = "ok" => Call(t).op # "log"
          PROVE  r.call[2] \in DOMAIN answers[r.call[1]] /\ answers[r.call[1]][r.call[2]] = "ok"
      <4>1. CASE r.call[1] # t
        BY <2>2, <2>4, <3>2, <4>1, ReturnAnswers
      <4>2. CASE r.call[1] = t
        <5>1. r.call[2] \in 1..Number(t) /\ answers'[t][r.call[2]] = "ok"
          BY <2>2, <3>2, <4>2, ReturnAnswers
        <5>2. r.call[2] # Number(t)
          <6> SUFFICES ASSUME r.call[2] = Number(t) PROVE FALSE
            OBVIOUS
          <6>1. a = "ok"
            BY <3>2, <5>1, ReturnAnswers
          <6>2. Call(t).op = "log"
            BY <2>2, <2>4, <4>2 DEF Call
          <6> QED
            BY <3>2, <6>1, <6>2
        <5>3. r.call[2] \in DOMAIN answers[t]
          BY <5>1, <5>2, AnswersAre DEF Number
        <5> QED
          BY <3>2, <4>2, <5>1, <5>3, ReturnAnswers
      <4> QED
        BY <4>1, <4>2
    <3> QED
      BY <3>1, <3>2 DEF Unlogged, Goto, taskVars
  <2>6. CASE s \in submitted
    BY <2>1, <2>2, <2>5, <2>6 DEF Logged
  <2>7. CASE NewRow(s.row, t)
    <3>1. r = Row(t)
      BY <2>1, <2>2, <2>7 DEF NewRow
    <3> QED
      BY <2>5, <3>1, RowForCall, AnswersAre
  <2> QED
    BY <2>1, <2>6, <2>7 DEF Unlogged
<1> QED
  BY <1>2, <1>3, <1>4

LEMMA ApartKeepsSpans ==
  ASSUME Types, SpanInv, NEW t \in Tasks, Apart(t)
  PROVE  SpanInv'
<1>1. LogRows' /\ Logged' = Logged /\ LogRows
  BY UnloggedKeeps DEF SpanInv, Apart
<1>2. LoggedKnown'
  BY <1>1 DEF SpanInv, LoggedKnown, Apart
<1>3. HoldsLock'
  <2> SUFFICES ASSUME NEW u \in Tasks, flusher = u
               PROVE  pc'[u] = pc[u] /\ Call(u)' = Call(u)
    BY DEF SpanInv, HoldsLock, Apart
  <2>1. u # t
    BY DEF Apart, Unlogged
  <2>2. CASE \E label : Goto(t, label)
    BY <2>1, <2>2, CallStays DEF Goto, Types
  <2>3. CASE UNCHANGED taskVars
    BY <2>3 DEF taskVars, Call, Number
  <2>4. CASE \E a \in Answers : Return(t, a)
    BY <2>1, <2>4, OtherCallStays, ReturnAnswers
  <2> QED
    BY <2>2, <2>3, <2>4 DEF Apart, Unlogged
<1>4. FlushesFinished' => FlushesFinished
  <2>1. Proceeds
    BY DEF Apart, Unlogged, Proceeds
  <2> QED
    BY <2>1, FinishedBefore
<1>5. Logged \cap Queued' \subseteq Queued
  <2> SUFFICES ASSUME NEW s \in queue' \ stranded', s.row \in Logged PROVE s.row \in Queued
    BY DEF Queued
  <2>1. ~ NewRow(s.row, t)
    BY <1>1, NewNotLogged
  <2> QED
    BY <2>1 DEF Apart, Unlogged, Queued
<1>6. Tracked'
  BY <1>1, <1>4, <1>5 DEF SpanInv, Tracked, Apart
<1>7. ASSUME NEW u \in Tasks, Flushed(u)' PROVE Flushed(u)
  <2>1. CASE u # t \/ UNCHANGED taskVars
    <3>1. answers'[u] = answers[u] /\ pc'[u] = pc[u] /\ program' = program
      BY <2>1, ReturnAnswers DEF Apart, Unlogged, Goto, Return, Types, taskVars
    <3> QED
      BY <1>7, <3>1 DEF Flushed
  <2>2. CASE u = t /\ \E label : label # "idle" /\ Goto(t, label)
    BY <1>7, <2>2 DEF Flushed, Goto, Types
  <2>3. ASSUME u = t, NEW a \in Answers, Return(t, a),
               a = "ok" => ~ (Call(t).op = "flush" /\ Call(t).on \in Experiments)
        PROVE  FALSE
    <3>1. /\ answers'[t][Number(t)] = "ok" /\ program[t][Number(t)].on \in Experiments
          /\ program[t][Number(t)].op = "flush"
      BY <1>7, <2>3, ReturnAnswers DEF Flushed
    <3> QED
      BY <2>3, <3>1, ReturnAnswers DEF Call
  <2> QED
    BY <2>1, <2>2, <2>3 DEF Apart, Unlogged
<1>8. LoggedIsFlushed'
  <2> SUFFICES ASSUME FlushesFinished', NEW u \in Tasks, Flushed(u)'
               PROVE  logged[u] \cap Queued' = {}
    BY DEF LoggedIsFlushed, Queued, Apart
  <2>1. logged[u] \cap Queued = {}
    BY <1>4, <1>7 DEF SpanInv, LoggedIsFlushed, Queued
  <2>2. logged[u] \subseteq Logged
    BY DEF SpanInv, LoggedKnown
  <2> QED
    BY <1>5, <2>1, <2>2
<1> QED
  BY <1>1, <1>2, <1>3, <1>6, <1>8 DEF SpanInv

LEMMA AtHandles ==
  ASSUME NEW t \in Tasks, HoldsLock, Call(t).on \in {"dataset", "reader"}
  PROVE  flusher # t /\ Call(t).on \notin Experiments
BY DEF HoldsLock, Experiments

(* A row that is submitted is the only one that the queue gets. *)
LEMMA SubmitQueues ==
  ASSUME NEW t, NEW row, NEW id, Submit(row, id), NewRow(row, t)
  PROVE  \A s \in queue' \ stranded' : s \in queue \ stranded \/ NewRow(s.row, t)
<1>1. PICK r : r = [row |-> row, id |-> id]
  OBVIOUS
<1>2. queue' = queue \cup {r} /\ stranded \subseteq stranded' /\ r.row = row
  BY <1>1 DEF Submit
<1> QED  BY <1>2

LEMMA DatasetApart ==
  ASSUME Types, RowsInv, SpanInv, NEW t \in Tasks, OnDataset(t)
  PROVE  Apart(t)
<1>1. Call(t).on = "dataset" /\ UNCHANGED <<pendingFlushes, flusher, logged>>
  BY DEF OnDataset, Push, BeginOnDataset, DatasetStep, RegisterDataset, GetId, Take, SubmitTaken,
         FetchDatasetSummary, GiveUpOnDataset, AtDataset, At, experimentVars
<1>2. flusher # t /\ Call(t).on \notin Experiments
  BY <1>1, AtHandles DEF SpanInv
<1>3. CASE SubmitTaken(t)
  <2>1. /\ AtDataset(t, "submitting", FlushOps) /\ Submit(Head(taken[t]), cell["dataset"])
        /\ Return(t, "ok") \/ Goto(t, "summary") \/ UNCHANGED taskVars
    BY <1>3 DEF SubmitTaken, AfterFlush
  <2>2. taken[t] \in Seq(DatasetRow) /\ taken[t] # <<>>
    BY <2>1 DEF RowsInv, RowsTyped, HoldsRows, AtDataset, At
  <2>3. Head(taken[t]) \in DatasetRow
    BY <2>2, HeadTailProperties
  <2>4. NewRow(Head(taken[t]), t)
    BY <2>3 DEF NewRow, DatasetRow, RecordOps
  <2>5. Call(t).op # "log"
    BY <2>1 DEF AtDataset, At, FlushOps
  <2>6. Unlogged(t)
    <3>1. submitted' = submitted \cup {[row |-> Head(taken[t]), id |-> cell["dataset"]]}
      BY <2>1 DEF Submit
    <3>2. "ok" \in Answers /\ "summary" # "idle"
      BY DEF Answers
    <3>3. \A s \in submitted' : s \in submitted \/ NewRow(s.row, t)
      BY <2>4, <3>1
    <3> QED
      BY <2>1, <2>5, <3>1, <3>2, <3>3 DEF Unlogged
  <2>7. \A s \in queue' \ stranded' : s \in queue \ stranded \/ NewRow(s.row, t)
    BY <2>1, <2>4, SubmitQueues
  <2> QED
    BY <1>1, <1>2, <2>1, <2>6, <2>7 DEF Apart
<1>4. CASE ~ SubmitTaken(t)
  <2>1. UNCHANGED queueVars
    BY <1>4 DEF OnDataset, Push, BeginOnDataset, DatasetStep, RegisterDataset, SetCell, GetId, Take,
                FetchDatasetSummary, GiveUpOnDataset
  <2>2. CASE Push(t) \/ BeginOnDataset(t) \/ GetId(t) \/ FetchDatasetSummary(t)
    <3>1. Call(t).op # "log"
      BY <2>2 DEF Push, BeginOnDataset, GetId, FetchDatasetSummary, AtDataset, At,
                  RecordOps, FlushOps
    <3>2. Goto(t, "ensure") \/ \E a \in Answers : Return(t, a)
      BY <2>2 DEF Push, BeginOnDataset, GetId, FetchDatasetSummary, DatasetSummary, Answers
    <3> QED
      BY <1>1, <1>2, <2>1, <3>1, <3>2 DEF Apart, Unlogged, queueVars
  <2>3. CASE RegisterDataset(t) \/ GiveUpOnDataset(t)
    <3>1. Goto(t, "registered") \/ Return(t, "given up")
      BY <2>3 DEF RegisterDataset, SetCell, GiveUpOnDataset
    <3>2. "given up" \in Answers
      BY DEF Answers
    <3> QED
      BY <1>1, <1>2, <2>1, <3>1, <3>2 DEF Apart, Unlogged, queueVars
  <2>4. CASE Take(t)
    <3>1. Call(t).op # "log"
      BY <2>4 DEF Take, AtDataset, At, FlushOps
    <3>2. Goto(t, "submitting") \/ Goto(t, "summary") \/ \E a \in Answers : Return(t, a)
      BY <2>4 DEF Take, AfterFlush, Answers
    <3> QED
      BY <1>1, <1>2, <2>1, <3>1, <3>2 DEF Apart, Unlogged, queueVars
  <2> QED
    BY <1>4, <2>2, <2>3, <2>4 DEF OnDataset, DatasetStep
<1> QED
  BY <1>3, <1>4

LEMMA ReaderApart ==
  ASSUME Types, SpanInv, NEW t \in Tasks, OnReader(t)
  PROVE  Apart(t)
<1>1. /\ Call(t).on = "reader" /\ Call(t).op \in {"next", "collect"}
      /\ UNCHANGED <<pendingFlushes, flusher, logged>> /\ UNCHANGED queueVars
  BY DEF OnReader, BeginRead, ReaderStep, PopBuffer, ReadEnd, AskPage, Page, PageFails, GiveUpRead,
         AtReader, At, experimentVars
<1>2. flusher # t /\ Call(t).on \notin Experiments
  BY <1>1, AtHandles DEF SpanInv
<1>3. \/ Goto(t, "reading") \/ Goto(t, "fetching") \/ \E answer \in Answers : Return(t, answer)
  BY DEF OnReader, BeginRead, ReaderStep, PopBuffer, ReadEnd, AskPage, Page, PageFails, GiveUpRead,
         Yield, FirstOf, Answers
<1> QED
  BY <1>1, <1>2, <1>3 DEF Apart, Unlogged, queueVars

LEMMA EnsureApart ==
  ASSUME Types, SpanInv, NEW t \in Tasks, Shared(Ensure(t))
  PROVE  Apart(t)
<1>1. UNCHANGED <<pendingFlushes, flusher, logged>> /\ UNCHANGED queueVars /\ pc[t] = "ensure"
  BY DEF Shared, Ensure, experimentVars
<1>2. Goto(t, "registered") \/ Goto(t, "registering")
  BY DEF Shared, Ensure
<1>3. flusher # t
  BY <1>1 DEF SpanInv, HoldsLock
<1>4. \A a \in Answers : ~ Return(t, a)
  BY <1>2, ReturnAnswers DEF Goto, Types
<1> QED
  BY <1>1, <1>2, <1>3, <1>4 DEF Apart, Unlogged, queueVars

(* The row a call on an experiment submits is the row of the call. *)
LEMMA SubmitRowApart ==
  ASSUME Types, SpanInv, NEW t \in Tasks,
         LogEvent(t) \/ StartSpan(t) \/ LogFeedback(t) \/ UpdateSpan(t),
         UNCHANGED <<datasetVars, readerVars>>
  PROVE  Apart(t)
<1>1. /\ Submit(Row(t), cell[Call(t).on]) /\ UNCHANGED <<pendingFlushes, flusher, logged>>
      /\ pc[t] = "registered"
      /\ Call(t).op \in {"log", "log_feedback", "update_span"} \cup StartOps
  BY DEF LogEvent, StartSpan, LogFeedback, UpdateSpan, SubmitRow, AtExperiment, At, experimentVars
<1>2. \/ Goto(t, "track") \/ Goto(t, "flushing")
      \/ Return(t, "ok") /\ Call(t).op # "log"
  BY <1>1 DEF LogEvent, StartSpan, LogFeedback, UpdateSpan, SubmitRow, AtExperiment, At, StartOps
<1>3. flusher # t /\ Call(t).op # "flush"
  BY <1>1 DEF SpanInv, HoldsLock, StartOps
<1> DEFINE s == [row |-> Row(t), id |-> cell[Call(t).on]]
<1>4. submitted' = submitted \cup {s} /\ NewRow(s.row, t)
  BY <1>1 DEF Submit, NewRow
<1> HIDE DEF s
<1>5. \A r \in submitted' : r \in submitted \/ NewRow(r.row, t)
  BY <1>4
<1>6. \A r \in queue' \ stranded' : r \in queue \ stranded \/ NewRow(r.row, t)
  BY <1>1, SubmitQueues DEF NewRow
<1>7. "ok" \in Answers
  BY DEF Answers
<1>8. Unlogged(t)
  BY <1>2, <1>4, <1>5, <1>7 DEF Unlogged
<1> QED
  BY <1>1, <1>3, <1>6, <1>8 DEF Apart

LEMMA ExperimentApart ==
  ASSUME Types, SpanInv, NEW t \in Tasks,
         \/ CloneExperiment(t) \/ BeginLog(t) \/ BeginStart(t) \/ BeginOther(t)
         \/ RegisterExperiment(t) \/ FlushTraced(t) \/ LookUp(t) \/ FetchBaseExperiment(t)
         \/ Compare(t)
  PROVE  Apart(t)
<1>1. /\ UNCHANGED <<pendingFlushes, flusher, logged>> /\ submitted' = submitted
      /\ queue' \ stranded' \subseteq queue \ stranded
  BY DEF CloneExperiment, BeginLog, BeginStart, BeginOther, RegisterExperiment, SetCell, FlushTraced,
         FlushAll, LookUp, FetchBaseExperiment, Compare, experimentVars, queueVars
<1>2. flusher # t
  BY DEF CloneExperiment, BeginLog, BeginStart, BeginOther, RegisterExperiment, SetCell, FlushTraced,
         LookUp, FetchBaseExperiment, Compare, AtExperiment, At, SpanInv, HoldsLock, FlushAllOps
<1>3. CASE \/ CloneExperiment(t) \/ FlushTraced(t) \/ LookUp(t) \/ FetchBaseExperiment(t)
           \/ Compare(t) \/ BeginStart(t) \/ BeginOther(t)
  <2>1. Call(t).op \notin {"log", "flush"}
    BY <1>3 DEF CloneExperiment, FlushTraced, LookUp, FetchBaseExperiment, Compare, BeginStart,
                BeginOther, AtExperiment, At, StartOps, LookUps
  <2>2. \/ Goto(t, "ensure") \/ Goto(t, "comparing") \/ \E a \in Answers : Return(t, a)
    BY <1>3 DEF CloneExperiment, FlushTraced, LookUp, FetchBaseExperiment, Compare, BeginStart,
                BeginOther, BaseExperiments, Comparison, Replies, Answers
  <2> QED
    BY <1>1, <1>2, <2>1, <2>2 DEF Apart, Unlogged
<1>4. CASE BeginLog(t)
  <2>1. Call(t).op = "log"
    BY <1>4 DEF BeginLog, AtExperiment, At
  <2>2. Goto(t, "ensure") \/ Return(t, "panic")
    BY <1>4 DEF BeginLog
  <2>3. "panic" \in Answers
    BY DEF Answers
  <2> QED
    BY <1>1, <1>2, <2>1, <2>2, <2>3 DEF Apart, Unlogged
<1>5. CASE RegisterExperiment(t)
  <2>1. Goto(t, "registered")
    BY <1>5 DEF RegisterExperiment, SetCell
  <2>2. \A a \in Answers : ~ Return(t, a)
    BY <2>1, ReturnAnswers DEF Goto, Types
  <2> QED
    BY <1>1, <1>2, <2>1, <2>2 DEF Apart, Unlogged
<1> QED
  BY <1>3, <1>4, <1>5

(* Steps that keep what was Ok for the flushes that are over. *)
LEMMA StillFlushed ==
  ASSUME Types, NEW t \in Tasks, NEW u \in Tasks,
         \/ \E label : label # "idle" /\ Goto(t, label)
         \/ \E a \in Answers : Return(t, a) /\ (Call(t).op # "flush" \/ u # t),
         Flushed(u)'
  PROVE  Flushed(u)
<1>1. CASE \E label : label # "idle" /\ Goto(t, label)
  BY <1>1 DEF Flushed, Goto, Types
<1>2. ASSUME NEW a \in Answers, Return(t, a), Call(t).op # "flush" \/ u # t
      PROVE  Flushed(u)
  <2>1. CASE u # t
    <3>1. answers'[u] = answers[u] /\ pc'[u] = pc[u] /\ program' = program
      BY <1>2, <2>1, ReturnAnswers
    <3> QED
      BY <3>1 DEF Flushed
  <2>2. CASE u = t
    <3>1. program[t][Number(t)].op = "flush"
      BY <1>2, <2>2, ReturnAnswers DEF Flushed
    <3> QED
      BY <1>2, <2>2, <3>1 DEF Call
  <2> QED
    BY <2>1, <2>2
<1> QED
  BY <1>1, <1>2

LEMMA BeginFlushKeepsSpans ==
  ASSUME Types, SpanInv, NEW t \in Tasks, BeginFlush(t)
  PROVE  SpanInv'
<1> USE DEF SpanInv
<1>1. /\ logged' = [logged EXCEPT ![t] = Logged] /\ Goto(t, "lock") /\ pc[t] = "idle"
      /\ UNCHANGED <<pendingFlushes, flusher, queue, stranded, submitted>>
  BY DEF BeginFlush, AtExperiment, At, queueVars
<1>2. LogRows' /\ Logged' = Logged
  BY <1>1, UnloggedKeeps DEF Unlogged
<1>3. LoggedKnown'
  BY <1>1, <1>2 DEF LoggedKnown
<1>4. HoldsLock'
  BY <1>1, CallStays DEF HoldsLock, Goto, Types
<1>5. FlushesFinished' => FlushesFinished
  BY <1>1, FinishedBefore DEF Proceeds
<1>6. Tracked'
  BY <1>1, <1>2, <1>5 DEF Tracked, Queued
<1>7. \A u \in Tasks : Flushed(u)' => Flushed(u) /\ logged'[u] = logged[u]
  <2> SUFFICES ASSUME NEW u \in Tasks, Flushed(u)' PROVE Flushed(u) /\ logged'[u] = logged[u]
    OBVIOUS
  <2>1. Flushed(u) /\ pc'[u] = "idle"
    BY <1>1, StillFlushed DEF Flushed
  <2> QED
    BY <1>1, <2>1 DEF Goto, Types
<1>8. LoggedIsFlushed'
  BY <1>1, <1>5, <1>7 DEF LoggedIsFlushed
<1> QED
  BY <1>2, <1>3, <1>4, <1>6, <1>8

LEMMA TrackKeepsSpans ==
  ASSUME Types, SpanInv, NEW t \in Tasks, Track(t)
  PROVE  SpanInv'
<1> USE DEF SpanInv
<1>1. /\ pendingFlushes' = pendingFlushes \cup {Row(t)} /\ Return(t, "ok") /\ flusher = None
      /\ UNCHANGED <<flusher, queue, stranded, submitted, logged>> /\ Call(t).op = "log"
  BY DEF Track, AtExperiment, At, queueVars
<1>2. "ok" \in Answers
  BY DEF Answers
<1>3. program' = program
  BY <1>1 DEF Return
<1>4. LogRows'
  BY <1>1, <1>3 DEF LogRows, RowFor
<1>5. Logged \subseteq Logged'
  <2> SUFFICES ASSUME NEW r \in Logged PROVE r \in Logged'
    OBVIOUS
  <2>1. r \in {s.row : s \in submitted'}
    BY <1>1 DEF Logged
  <2>2. r.call[1] \in Tasks /\ r.op = "log" /\ r.call[2] \in DOMAIN answers[r.call[1]]
        /\ answers[r.call[1]][r.call[2]] = "ok"
    BY LoggedAre
  <2>3. r.call[2] \in DOMAIN answers'[r.call[1]] /\ answers'[r.call[1]][r.call[2]] = "ok"
    BY <1>1, <1>2, <2>2, ReturnAnswers
  <2> QED
    BY <2>1, <2>2, <2>3 DEF Logged
<1>6. Logged' \subseteq Logged \cup {Row(t)}
  <2> SUFFICES ASSUME NEW r \in Logged', r # Row(t) PROVE r \in Logged
    OBVIOUS
  <2>1. /\ r \in {s.row : s \in submitted} /\ r.op = "log"
        /\ r.call[2] \in DOMAIN answers'[r.call[1]] /\ answers'[r.call[1]][r.call[2]] = "ok"
    BY <1>1 DEF Logged
  <2>2. r.call \in Tasks \X Nat /\ r = RowFor(r.call)
    BY <2>1 DEF LogRows
  <2>3. CASE r.call[1] # t
    <3>1. answers'[r.call[1]] = answers[r.call[1]]
      BY <1>1, <1>2, <2>2, <2>3, ReturnAnswers
    <3> QED
      BY <2>1, <3>1 DEF Logged
  <2>4. CASE r.call[1] = t
    <3>1. r.call[2] # Number(t)
      <4> SUFFICES ASSUME r.call[2] = Number(t) PROVE FALSE
        OBVIOUS
      <4>1. r.call = Row(t).call
        BY <2>2, <2>4, RowForCall
      <4> QED
        BY <2>2, <4>1, RowForCall
    <3>2. r.call[2] \in DOMAIN answers[t]
      BY <1>1, <1>2, <2>1, <2>4, <3>1, ReturnAnswers, AnswersAre DEF Number
    <3>3. answers[t][r.call[2]] = "ok"
      BY <1>1, <1>2, <2>1, <2>4, <3>2, ReturnAnswers
    <3> QED
      BY <2>1, <2>4, <3>2, <3>3 DEF Logged
  <2> QED
    BY <2>3, <2>4
<1>7. LoggedKnown'
  BY <1>1, <1>5 DEF LoggedKnown
<1>8. HoldsLock'
  BY <1>1, ClientAssumption DEF HoldsLock, ClientAssumption
<1>9. FlushesFinished' => FlushesFinished
  BY <1>1, <1>2, FinishedBefore DEF Proceeds
<1>10. Tracked'
  BY <1>1, <1>6, <1>9 DEF Tracked, Queued
<1>11. \A u \in Tasks : Flushed(u)' => Flushed(u)
  BY <1>1, <1>2, StillFlushed
<1>12. LoggedIsFlushed'
  BY <1>1, <1>9, <1>11 DEF LoggedIsFlushed
<1> QED
  BY <1>4, <1>7, <1>8, <1>10, <1>12

(* What the steps of a flush of the experiment have in common. *)
LEMMA FlushLogs ==
  ASSUME Types, SpanInv, NEW t \in Tasks,
         DrainFlushes(t) \/ FlushSpan(t) \/ GiveUpOnExperiment(t)
  PROVE  LogRows' /\ Logged' = Logged /\ LoggedKnown' /\ (FlushesFinished' => FlushesFinished)
<1>1. submitted' = submitted /\ logged' = logged
  BY DEF DrainFlushes, FlushSpan, FlushAll, GiveUpOnExperiment, queueVars
<1>2. CASE DrainFlushes(t) \/ FlushSpan(t)
  <2>1. Call(t).op # "log"
    BY <1>2 DEF DrainFlushes, FlushSpan, AtExperiment, At, FlushAllOps
  <2>2. \/ Goto(t, "ensure") \/ Goto(t, "flushing") \/ UNCHANGED taskVars
        \/ \E a \in Answers : Return(t, a)
    BY <1>2 DEF DrainFlushes, FlushSpan, AfterSpans, Answers
  <2>3. Unlogged(t) /\ Proceeds
    BY <1>1, <2>1, <2>2 DEF Unlogged, Proceeds
  <2> QED
    BY <1>1, <2>3, UnloggedKeeps, FinishedBefore DEF SpanInv, LoggedKnown
<1>3. CASE GiveUpOnExperiment(t)
  <2>1. Return(t, "given up") /\ "given up" \in Answers
    BY <1>3 DEF GiveUpOnExperiment, Answers
  <2>2. Unlogged(t) /\ Proceeds
    BY <1>1, <2>1 DEF Unlogged, Proceeds
  <2> QED
    BY <1>1, <2>2, UnloggedKeeps, FinishedBefore DEF SpanInv, LoggedKnown
<1> QED
  BY <1>2, <1>3

LEMMA DrainKeepsSpans ==
  ASSUME Types, SpanInv, NEW t \in Tasks, DrainFlushes(t)
  PROVE  SpanInv'
<1> USE DEF SpanInv
<1>1. LogRows' /\ Logged' = Logged /\ LoggedKnown' /\ (FlushesFinished' => FlushesFinished)
  BY FlushLogs
<1>2. /\ flusher = None /\ UNCHANGED <<queue, stranded, logged>> /\ pc[t] = "lock"
      /\ Call(t).on \in Experiments /\ Call(t).op \in FlushAllOps
  BY DEF DrainFlushes, AtExperiment, At, queueVars
<1>3. CASE pendingFlushes = {}
  <2>1. FlushesFinished => Logged \cap Queued = {}
    BY <1>2, <1>3 DEF Tracked
  <2>2. flusher' = None
    BY <1>3 DEF DrainFlushes
  <2>3. HoldsLock'
    BY <2>2, ClientAssumption DEF HoldsLock, ClientAssumption
  <2>4. Tracked'
    BY <1>1, <1>2, <2>1 DEF Tracked, Queued
  <2>5. LoggedIsFlushed'
    BY <1>1, <1>2, <2>1 DEF LoggedIsFlushed, Queued, LoggedKnown
  <2> QED
    BY <1>1, <2>3, <2>4, <2>5
<1>4. CASE pendingFlushes # {}
  <2>1. flusher' = t /\ Goto(t, "flushing")
    BY <1>4 DEF DrainFlushes
  <2>2. HoldsLock'
    BY <1>2, <2>1, CallStays DEF HoldsLock, Goto, Types
  <2>3. Tracked'
    BY <2>1, ClientAssumption DEF Tracked, ClientAssumption
  <2>4. \A u \in Tasks : Flushed(u)' => Flushed(u)
    BY <2>1, StillFlushed
  <2>5. LoggedIsFlushed'
    BY <1>1, <1>2, <2>4 DEF LoggedIsFlushed
  <2> QED
    BY <1>1, <2>2, <2>3, <2>5
<1> QED
  BY <1>3, <1>4

LEMMA FlushKeepsSpans ==
  ASSUME Types, SpanInv, NEW t \in Tasks, FlushSpan(t)
  PROVE  SpanInv'
<1> USE DEF SpanInv
<1>1. LogRows' /\ Logged' = Logged /\ LoggedKnown' /\ (FlushesFinished' => FlushesFinished)
  BY FlushLogs
<1>2. Queued' = {}
  BY DEF FlushSpan, FlushAll, Queued
<1>3. Tracked' /\ LoggedIsFlushed'
  BY <1>2 DEF Tracked, LoggedIsFlushed, Queued
<1>4. flusher' = None \/ UNCHANGED <<taskVars, flusher>>
  BY DEF FlushSpan
<1>5. HoldsLock'
  BY <1>4, ClientAssumption DEF HoldsLock, ClientAssumption, taskVars, Call, Number
<1> QED
  BY <1>1, <1>3, <1>5

(* Giving up the flush that holds the lock is what takes spans with it. *)
LEMMA GiveUpKeepsSpans ==
  ASSUME Types, SpanInv, NEW t \in Tasks, GiveUpOnExperiment(t)
  PROVE  SpanInv'
<1>1. /\ Return(t, "given up") /\ "given up" \in Answers
      /\ UNCHANGED <<pendingFlushes, queue, stranded, submitted, logged>>
      /\ flusher' = IF flusher = t THEN None ELSE flusher
  BY DEF GiveUpOnExperiment, queueVars, Answers
<1>2. CASE flusher # t
  <2>1. Unlogged(t)
    BY <1>1 DEF Unlogged
  <2>2. \A a \in Answers : Return(t, a) => a = "given up"
    <3> SUFFICES ASSUME NEW a \in Answers, Return(t, a) PROVE a = "given up"
      OBVIOUS
    <3>1. answers'[t][Number(t)] = a
      BY ReturnAnswers
    <3>2. answers'[t][Number(t)] = "given up"
      BY <1>1, ReturnAnswers
    <3> QED
      BY <3>1, <3>2
  <2>3. Apart(t)
    BY <1>1, <1>2, <2>1, <2>2 DEF Apart
  <2> QED
    BY <2>3, ApartKeepsSpans
<1>3. CASE flusher = t
  <2>1. LogRows' /\ LoggedKnown'
    BY FlushLogs
  <2>2. ~ FlushesFinished'
    <3>1. Call(t).on \in Experiments /\ Call(t).op \in FlushAllOps
      BY <1>3 DEF SpanInv, HoldsLock
    <3>2. Number(t) \in 1..Number(t)
      BY AnswersAre DEF Number
    <3>3. DOMAIN answers'[t] = 1..Number(t) /\ answers'[t][Number(t)] = "given up"
      BY <1>1, ReturnAnswers
    <3>4. program' = program
      BY <1>1, ReturnAnswers
    <3> DEFINE n == Len(answers[t]) + 1
    <3>5. /\ n \in DOMAIN answers'[t] /\ answers'[t][n] = "given up"
          /\ program'[t][n].on \in Experiments /\ program'[t][n].op \in FlushAllOps
      BY <3>1, <3>2, <3>3, <3>4 DEF Call, Number
    <3> HIDE DEF n
    <3> QED
      BY <3>5 DEF FlushesFinished
  <2>3. HoldsLock'
    BY <1>1, <1>3, ClientAssumption DEF HoldsLock, ClientAssumption
  <2> QED
    BY <2>1, <2>2, <2>3 DEF SpanInv, Tracked, LoggedIsFlushed
<1> QED
  BY <1>2, <1>3

LEMMA SpansInit == Init => SpanInv
<1> SUFFICES ASSUME Init PROVE SpanInv
  OBVIOUS
<1>1. submitted = {} /\ queue = {} /\ stranded = {} /\ flusher = None /\ logged = [t \in Tasks |-> {}]
  BY DEF Init, ClientInit, ExperimentInit
<1>2. Logged = {} /\ Queued = {}
  BY <1>1 DEF Logged, Queued
<1> QED
  BY <1>1, <1>2, ClientAssumption
     DEF SpanInv, LogRows, LoggedKnown, HoldsLock, Tracked, LoggedIsFlushed, Queued, ClientAssumption

LEMMA SpansNext ==
  ASSUME Types, RowsInv, SpanInv, [Next]_vars
  PROVE  SpanInv'
<1>1. ASSUME NEW t \in Tasks, OnDataset(t) \/ OnReader(t) \/ Shared(Ensure(t))
      PROVE  SpanInv'
  BY <1>1, DatasetApart, ReaderApart, EnsureApart, ApartKeepsSpans
<1>2. ASSUME NEW t \in Tasks, OnExperiment(t)
      PROVE  SpanInv'
  <2>1. UNCHANGED <<datasetVars, readerVars>>
    BY <1>2 DEF OnExperiment
  <2> QED
    BY <1>2, <2>1, SubmitRowApart, ExperimentApart, ApartKeepsSpans, BeginFlushKeepsSpans,
       TrackKeepsSpans, DrainKeepsSpans, FlushKeepsSpans, GiveUpKeepsSpans
       DEF OnExperiment, ExperimentStep
<1>3. CASE Shared(BackgroundFlush) \/ UNCHANGED vars
  <2>1. /\ UNCHANGED <<program, answers, pc, submitted, pendingFlushes, flusher, logged>>
        /\ queue' \ stranded' \subseteq queue \ stranded
    BY <1>3 DEF Shared, BackgroundFlush, FlushAll, vars, clientVars, taskVars, queueVars, experimentVars
  <2>2. Logged' = Logged /\ Queued' \subseteq Queued /\ (FlushesFinished' <=> FlushesFinished)
    BY <2>1 DEF Logged, Queued, FlushesFinished
  <2>3. LogRows' /\ LoggedKnown' /\ HoldsLock' /\ Tracked'
    BY <2>1, <2>2 DEF SpanInv, LogRows, RowFor, LoggedKnown, HoldsLock, Tracked, Call, Number
  <2>4. \A t \in Tasks : Flushed(t)' <=> Flushed(t)
    BY <2>1 DEF Flushed
  <2>5. LoggedIsFlushed'
    BY <2>1, <2>2, <2>4 DEF SpanInv, LoggedIsFlushed, Queued
  <2> QED
    BY <2>3, <2>5 DEF SpanInv
<1> QED
  BY <1>1, <1>2, <1>3 DEF Next

(* A flush that returns Ok leaves no row of a log call that was over, but  *)
(* those that the queue stranded.                                          *)
THEOREM LoggedRowsAreFlushed == Spec => []LoggedIsFlushed
<1>1. Inv => Types /\ RowsInv
  BY DEF Inv, CellInv
<1>2. Inv /\ SpanInv /\ [Next]_vars => SpanInv'
  BY <1>1, SpansNext
<1>3. SpanInv => LoggedIsFlushed
  BY DEF SpanInv
<1> QED
  BY <1>2, <1>3, SpansInit, InvAlways, PTL DEF Spec

-----------------------------------------------------------------------------
(* What the iterator of a dataset returns.                                 *)

InRead(u) == pc[u] \in {"reading", "fetching"}

ReaderTypes ==
  /\ yielded \in Seq(Nat) /\ buffer \in Seq(Nat)
  /\ cursor \in Nat \cup {None} /\ asked \in Nat \cup {None}
  /\ done \in BOOLEAN /\ disturbed \in BOOLEAN

ReadsOnReader == \A u \in Tasks : InRead(u) => Calling(u) /\ Call(u).on = "reader"

(* The records are where their position says, the buffered ones next. *)
Fetched == Len(yielded) + Len(buffer)
Positions ==
  /\ \A i \in DOMAIN yielded : yielded[i] = i
  /\ \A i \in DOMAIN buffer : buffer[i] = Len(yielded) + i
  /\ Fetched <= DataSize
  /\ done => Fetched = DataSize

(* The next request, or the one on its way, goes on where these end. *)
Fetching == \E u \in Tasks : pc[u] = "fetching"
GoesOn ==
  /\ Fetching => buffer = <<>> /\ ~done /\ From = Len(yielded)
  /\ ~Fetching /\ ~done => cursor = Fetched \/ (cursor = None /\ Fetched = 0)

NoneAtEnd == \A u \in Tasks : "none" \in ToSet(answers[u]) => Len(yielded) = DataSize

ReadInv ==
  /\ program \in Programs /\ ReaderTypes /\ ReadsOnReader
  /\ ~disturbed => Positions /\ GoesOn /\ NoneAtEnd

LEMMA MinOfTwo ==
  ASSUME NEW a \in Int, NEW b \in Int
  PROVE  Min({a, b}) \in Int /\ Min({a, b}) <= a /\ Min({a, b}) <= b
<1>1. \E m \in {a, b} : \A y \in {a, b} : m <= y
  OBVIOUS
<1> DEFINE m == CHOOSE x \in {a, b} : \A y \in {a, b} : x <= y
<1>2. m \in {a, b} /\ \A y \in {a, b} : m <= y
  BY <1>1
<1>3. Min({a, b}) = m
  BY DEF Min
<1> HIDE DEF m
<1> QED
  BY <1>2, <1>3

(* One task has the iterator. *)
LEMMA OneReads ==
  ASSUME ReadInv, NEW t \in Tasks, NEW u \in Tasks, InRead(t), InRead(u)
  PROVE  t = u
<1>1. OneReader(program)
  BY ReaderAssumption DEF ReaderAssumption, ReadInv
<1>2. /\ Number(t) \in DOMAIN program[t] /\ program[t][Number(t)].on = "reader"
      /\ Number(u) \in DOMAIN program[u] /\ program[u][Number(u)].on = "reader"
  BY DEF ReadInv, ReadsOnReader, Calling, Call
<1> QED
  BY <1>1, <1>2 DEF OneReader

(* A call that goes on is the call it was. *)
LEMMA StillCalling ==
  ASSUME Types, NEW t \in Tasks, NEW u \in Tasks,
         \/ \E label : Goto(t, label)
         \/ u # t /\ \E a \in Answers : Return(t, a)
         \/ UNCHANGED taskVars
  PROVE  Calling(u)' = Calling(u) /\ Call(u)' = Call(u)
<1>1. answers'[u] = answers[u] /\ program' = program
  BY ReturnAnswers DEF Goto, taskVars
<1> QED
  BY <1>1 DEF Calling, Call, Number

(* No answer but the one of t is new. *)
LEMMA NoneBefore ==
  ASSUME Types, NEW t \in Tasks, NEW a \in Answers, a # "none", Return(t, a),
         NEW u \in Tasks, "none" \in ToSet(answers'[u])
  PROVE  "none" \in ToSet(answers[u])
<1>1. CASE u # t
  BY <1>1, ReturnAnswers
<1>2. CASE u = t
  <2>1. PICK n \in DOMAIN answers'[t] : answers'[t][n] = "none"
    BY <1>2 DEF ToSet
  <2>2. n \in 1..Number(t) /\ n # Number(t)
    BY <2>1, ReturnAnswers
  <2>3. n \in DOMAIN answers[t]
    BY <2>2, AnswersAre DEF Number
  <2>4. answers[t][n] = "none"
    BY <2>1, <2>3, ReturnAnswers
  <2> QED
    BY <1>2, <2>3, <2>4 DEF ToSet
<1> QED
  BY <1>1, <1>2

(* A step of a call that is not one of the iterator. *)
Elsewhere(t) ==
  /\ ~ InRead(t)
  /\ \/ \E label : label \notin {"reading", "fetching"} /\ Goto(t, label)
     \/ \E a \in Answers : a # "none" /\ Return(t, a)
     \/ UNCHANGED taskVars

LEMMA ElsewhereKeepsReads ==
  ASSUME Types, ReadInv, NEW t \in Tasks, Elsewhere(t), UNCHANGED readerVars
  PROVE  ReadInv'
<1>1. UNCHANGED <<cursor, asked, buffer, done, yielded, disturbed>>
  BY DEF readerVars
<1>2. program' = program
  BY DEF Elsewhere, Goto, Return, taskVars
<1>3. \A u \in Tasks : InRead(u)' => InRead(u) /\ (u # t \/ UNCHANGED taskVars)
  BY ReturnAnswers DEF Elsewhere, InRead, Goto, Types, taskVars
<1>4. \A u \in Tasks : pc'[u] = "fetching" <=> pc[u] = "fetching"
  <2>1. \A u \in Tasks \ {t} : pc'[u] = pc[u]
    BY ReturnAnswers DEF Elsewhere, Goto, Types, taskVars
  <2>2. pc[t] # "fetching" /\ pc'[t] # "fetching"
    BY <1>3 DEF Elsewhere, InRead
  <2> QED
    BY <2>1, <2>2
<1>5. ReadsOnReader'
  <2> SUFFICES ASSUME NEW u \in Tasks, InRead(u)' PROVE (Calling(u) /\ Call(u).on = "reader")'
    BY DEF ReadsOnReader
  <2>1. InRead(u) /\ Calling(u)' = Calling(u) /\ Call(u)' = Call(u)
    BY <1>3, StillCalling DEF Elsewhere
  <2> QED
    BY <2>1 DEF ReadInv, ReadsOnReader
<1>6. Positions => Positions'
  BY <1>1 DEF Positions, Fetched
<1>7. GoesOn => GoesOn'
  <2>1. Fetching' <=> Fetching
    BY <1>4 DEF Fetching
  <2> QED
    BY <1>1, <2>1 DEF GoesOn, Fetched, From
<1>8. NoneAtEnd => NoneAtEnd'
  <2>1. \A u \in Tasks : "none" \in ToSet(answers'[u]) => "none" \in ToSet(answers[u])
    BY NoneBefore DEF Elsewhere, Goto, taskVars
  <2> QED
    BY <1>1, <2>1 DEF NoneAtEnd
<1>9. ReaderTypes'
  BY <1>1 DEF ReadInv, ReaderTypes
<1> QED
  BY <1>1, <1>2, <1>5, <1>6, <1>7, <1>8, <1>9 DEF ReadInv

LEMMA DatasetElsewhere ==
  ASSUME ReadInv, NEW t \in Tasks, OnDataset(t)
  PROVE  Elsewhere(t) /\ UNCHANGED readerVars
<1>1. Call(t).on = "dataset" /\ UNCHANGED readerVars
  BY DEF OnDataset, Push, BeginOnDataset, DatasetStep, RegisterDataset, GetId, Take, SubmitTaken,
         FetchDatasetSummary, GiveUpOnDataset, AtDataset, At
<1>2. ~ InRead(t)
  BY <1>1 DEF ReadInv, ReadsOnReader
<1>3. \/ \E label : label \notin {"reading", "fetching"} /\ Goto(t, label)
      \/ \E a \in {"ok", "err", "given up"} : Return(t, a)
      \/ UNCHANGED taskVars
  BY DEF OnDataset, Push, BeginOnDataset, DatasetStep, RegisterDataset, GetId, Take, SubmitTaken,
         FetchDatasetSummary, GiveUpOnDataset, SetCell, AfterFlush, DatasetSummary
<1> QED
  BY <1>1, <1>2, <1>3 DEF Elsewhere, Answers

LEMMA ExperimentElsewhere ==
  ASSUME ReadInv, NEW t \in Tasks, OnExperiment(t)
  PROVE  Elsewhere(t) /\ UNCHANGED readerVars
<1>1. Call(t).on \in Experiments /\ UNCHANGED readerVars
  BY DEF OnExperiment, CloneExperiment, BeginLog, BeginStart, BeginOther, BeginFlush,
         ExperimentStep, RegisterExperiment, LogEvent, StartSpan, LogFeedback, UpdateSpan, SubmitRow,
         Track, FlushTraced, LookUp, FetchBaseExperiment, DrainFlushes, FlushSpan, Compare,
         GiveUpOnExperiment, AtExperiment, At
<1>2. ~ InRead(t)
  BY <1>1 DEF ReadInv, ReadsOnReader, Experiments
<1>3. CASE CloneExperiment(t) \/ BeginLog(t) \/ BeginStart(t) \/ BeginOther(t) \/ BeginFlush(t)
           \/ GiveUpOnExperiment(t)
  <2>1. \/ \E label : label \notin {"reading", "fetching"} /\ Goto(t, label)
        \/ \E a \in {"ok", "panic", "given up"} : Return(t, a)
    BY <1>3 DEF CloneExperiment, BeginLog, BeginStart, BeginOther, BeginFlush, GiveUpOnExperiment
  <2> QED
    BY <1>1, <1>2, <2>1 DEF Elsewhere, Answers
<1>4. CASE ExperimentStep(t)
  <2>1. \/ \E label : label \notin {"reading", "fetching"} /\ Goto(t, label)
        \/ \E a \in {"ok", "err", "no base"} : Return(t, a)
        \/ UNCHANGED taskVars
    <3>1. CASE FetchBaseExperiment(t)
      <4>1. PICK reply \in Replies : \E answer \in BaseExperiments(reply) :
              IF Call(t).op = "summarize" THEN Goto(t, "comparing") ELSE Return(t, answer)
        BY <3>1 DEF FetchBaseExperiment
      <4>2. BaseExperiments(reply) \subseteq {"ok", "err", "no base"}
        BY <4>1 DEF BaseExperiments, Replies
      <4> QED
        BY <4>1, <4>2
    <3>2. CASE RegisterExperiment(t) \/ LogEvent(t) \/ StartSpan(t) \/ LogFeedback(t)
               \/ UpdateSpan(t) \/ Track(t) \/ FlushTraced(t) \/ LookUp(t)
      BY <3>2 DEF RegisterExperiment, SetCell, LogEvent, StartSpan, LogFeedback, UpdateSpan, Track,
                  FlushTraced, LookUp
    <3>3. CASE DrainFlushes(t) \/ FlushSpan(t) \/ Compare(t)
      BY <3>3 DEF DrainFlushes, FlushSpan, AfterSpans, Compare, Comparison
    <3> QED
      BY <1>4, <3>1, <3>2, <3>3 DEF ExperimentStep
  <2> QED
    BY <1>1, <1>2, <2>1 DEF Elsewhere, Answers
<1> QED
  BY <1>3, <1>4 DEF OnExperiment

(* What the step of t on the iterator leaves of the other tasks. *)
LEMMA ReaderMoves ==
  ASSUME Types, ReadInv, NEW t \in Tasks, Call(t).on = "reader", Calling(t), NEW label,
         \/ label \in {"reading", "fetching"} /\ Goto(t, label)
         \/ label = "idle" /\ \E a \in Answers : Return(t, a),
         InRead(t) \/ \A u \in Tasks : ~ InRead(u)
  PROVE  /\ program' \in Programs /\ ReadsOnReader'
         /\ Fetching' <=> label = "fetching"
<1>1. program' = program /\ pc'[t] = label /\ \A u \in Tasks \ {t} : pc'[u] = pc[u]
  BY ReturnAnswers DEF Goto, Types
<1>2. \A u \in Tasks \ {t} : ~ InRead(u)
  BY OneReads
<1>3. \A u \in Tasks : InRead(u)' => u = t /\ \E l : Goto(t, l)
  BY <1>1, <1>2 DEF InRead
<1>4. ReadsOnReader'
  <2> SUFFICES ASSUME NEW u \in Tasks, InRead(u)' PROVE (Calling(u) /\ Call(u).on = "reader")'
    BY DEF ReadsOnReader
  <2> QED
    BY <1>3, StillCalling
<1>5. Fetching' <=> label = "fetching"
  BY <1>1, <1>2 DEF Fetching, InRead
<1> QED
  BY <1>1, <1>4, <1>5 DEF ReadInv

(* The calls that read: nobody else has the iterator. *)
LEMMA BeginReadKeeps ==
  ASSUME Types, ReadInv, NEW t \in Tasks, BeginRead(t)
  PROVE  ReadInv'
<1>1. Call(t).on = "reader" /\ Calling(t) /\ Goto(t, "reading") /\ pc[t] = "idle"
      /\ UNCHANGED readerVars
  BY DEF BeginRead, AtReader, At
<1>2. UNCHANGED <<cursor, asked, buffer, done, yielded, disturbed>>
  BY <1>1 DEF readerVars
<1>3. \A u \in Tasks : ~ InRead(u)
  <2> SUFFICES ASSUME NEW u \in Tasks, InRead(u) PROVE FALSE
    OBVIOUS
  <2>1. OneReader(program)
    BY ReaderAssumption DEF ReaderAssumption, ReadInv
  <2>2. /\ Number(t) \in DOMAIN program[t] /\ program[t][Number(t)].on = "reader"
        /\ Number(u) \in DOMAIN program[u] /\ program[u][Number(u)].on = "reader"
    BY <1>1 DEF ReadInv, ReadsOnReader, Calling, Call
  <2>3. u = t
    BY <2>1, <2>2 DEF OneReader
  <2> QED
    BY <1>1, <2>3 DEF InRead
<1>4. program' \in Programs /\ ReadsOnReader' /\ ~ Fetching'
  BY <1>1, <1>3, ReaderMoves
<1>5. ~ Fetching
  BY <1>3 DEF Fetching, InRead
<1>6. answers' = answers
  BY <1>1 DEF Goto
<1>7. (Positions => Positions') /\ (GoesOn => GoesOn') /\ (NoneAtEnd => NoneAtEnd')
  BY <1>2, <1>4, <1>5, <1>6 DEF Positions, GoesOn, NoneAtEnd, Fetched, From
<1>8. ReaderTypes'
  BY <1>2 DEF ReadInv, ReaderTypes
<1> QED
  BY <1>2, <1>4, <1>7, <1>8 DEF ReadInv

LEMMA LengthsOf ==
  ASSUME ReaderTypes
  PROVE  /\ Len(yielded) \in Nat /\ DOMAIN yielded = 1..Len(yielded)
         /\ Len(buffer) \in Nat /\ DOMAIN buffer = 1..Len(buffer)
         /\ buffer = <<>> <=> Len(buffer) = 0
<1>1. yielded \in Seq(Nat) /\ buffer \in Seq(Nat)
  BY DEF ReaderTypes
<1> QED
  BY <1>1, LenProperties, EmptySeq

(* One more record is returned: the one after those that were. *)
LEMMA AppendPosition ==
  ASSUME NEW s \in Seq(Nat), NEW r \in Nat
  PROVE  /\ Append(s, r) \in Seq(Nat) /\ Len(Append(s, r)) = Len(s) + 1
         /\ r = Len(s) + 1 /\ (\A i \in DOMAIN s : s[i] = i) =>
              \A i \in DOMAIN Append(s, r) : Append(s, r)[i] = i
<1> DEFINE a == Append(s, r)
<1>1. /\ a \in Seq(Nat) /\ Len(a) = Len(s) + 1
      /\ \A n \in 1..Len(s) : a[n] = s[n]
      /\ a[Len(s) + 1] = r
  BY AppendProperties
<1>2. DOMAIN a = 1..(Len(s) + 1) /\ DOMAIN s = 1..Len(s) /\ Len(s) \in Nat
  BY <1>1, LenProperties
<1> HIDE DEF a
<1>3. r = Len(s) + 1 /\ (\A i \in DOMAIN s : s[i] = i) => \A i \in DOMAIN a : a[i] = i
  BY <1>1, <1>2
<1> QED
  BY <1>1, <1>3 DEF a

(* Nobody who was answered None finds more records. *)
LEMMA NoneStays ==
  ASSUME Types, NoneAtEnd, NEW t \in Tasks,
         \/ \E label : Goto(t, label)
         \/ \E a \in Answers : Return(t, a) /\ (a = "none" => Len(yielded') = DataSize),
         Len(yielded) \in Nat, Len(yielded') \in Nat,
         Len(yielded) <= Len(yielded'), Len(yielded') <= DataSize
  PROVE  NoneAtEnd'
<1>1. CASE \E label : Goto(t, label)
  BY <1>1, ReaderAssumption DEF Goto, NoneAtEnd, ReaderAssumption
<1>2. ASSUME NEW a \in Answers, Return(t, a), a = "none" => Len(yielded') = DataSize
      PROVE  NoneAtEnd'
  <2>1. CASE a = "none"
    BY <1>2, <2>1 DEF NoneAtEnd
  <2>2. CASE a # "none"
    BY <1>2, <2>2, NoneBefore, ReaderAssumption DEF NoneAtEnd, ReaderAssumption
  <2> QED
    BY <2>1, <2>2
<1> QED
  BY <1>1, <1>2

LEMMA PopKeeps ==
  ASSUME Types, ReadInv, NEW t \in Tasks, PopBuffer(t)
  PROVE  ReadInv'
<1>1. /\ Call(t).on = "reader" /\ Calling(t) /\ pc[t] = "reading" /\ buffer # <<>>
      /\ buffer' = Tail(buffer) /\ yielded' = Append(yielded, Head(buffer))
      /\ UNCHANGED <<cursor, asked, done, disturbed>>
      /\ Goto(t, "reading") \/ Return(t, "some")
  BY DEF PopBuffer, AtReader, At, Yield
<1>2. yielded \in Seq(Nat) /\ buffer \in Seq(Nat)
  BY DEF ReadInv, ReaderTypes
<1> DEFINE h == Head(buffer)
           s == Tail(buffer)
<1>3. /\ h \in Nat /\ h = buffer[1] /\ s \in Seq(Nat) /\ Len(s) = Len(buffer) - 1
      /\ \A i \in 1..Len(s) : s[i] = buffer[i + 1]
  BY <1>1, <1>2, HeadTailProperties
<1>4. /\ Len(yielded) \in Nat /\ Len(buffer) \in Nat \ {0} /\ DOMAIN buffer = 1..Len(buffer)
      /\ DOMAIN s = 1..Len(s)
  BY <1>1, <1>2, <1>3, LenProperties, EmptySeq
<1> HIDE DEF h, s
<1>5. /\ yielded' \in Seq(Nat) /\ Len(yielded') = Len(yielded) + 1
      /\ h = Len(yielded) + 1 /\ (\A i \in DOMAIN yielded : yielded[i] = i) =>
           \A i \in DOMAIN yielded' : yielded'[i] = i
  BY <1>1, <1>2, <1>3, AppendPosition DEF h
<1>6. "some" \in Answers
  BY DEF Answers
<1>7. program' \in Programs /\ ReadsOnReader' /\ ~ Fetching'
  BY <1>1, <1>6, ReaderMoves DEF InRead
<1>8. buffer' = s
  BY <1>1 DEF s
<1>9. ReaderTypes'
  <2>1. yielded' \in Seq(Nat) /\ buffer' \in Seq(Nat)
    BY <1>3, <1>5, <1>8
  <2> QED
    BY <1>1, <2>1, Zenon DEF ReadInv, ReaderTypes
<1>10. Fetched' = Fetched
  <2>1. Len(buffer') = Len(buffer) - 1 /\ Len(yielded') = Len(yielded) + 1
    BY <1>3, <1>5, <1>8
  <2>2. Len(yielded) \in Nat /\ Len(buffer) \in Nat
    BY <1>4
  <2> QED
    BY <2>1, <2>2 DEF Fetched
<1>11. ASSUME Positions PROVE Positions'
  <2>1. h = Len(yielded) + 1
    BY <1>3, <1>4, <1>11 DEF Positions
  <2>2. \A i \in DOMAIN yielded' : yielded'[i] = i
    BY <1>5, <1>11, <2>1 DEF Positions
  <2>3. ASSUME NEW i \in DOMAIN s PROVE s[i] = Len(yielded') + i
    <3>1. i \in 1..Len(s) /\ i + 1 \in DOMAIN buffer
      BY <1>3, <1>4
    <3>2. s[i] = buffer[i + 1] /\ buffer[i + 1] = Len(yielded) + (i + 1)
      BY <1>3, <1>11, <3>1 DEF Positions
    <3> QED
      BY <1>4, <1>5, <3>1, <3>2
  <2> QED
    BY <1>1, <1>8, <1>10, <1>11, <2>2, <2>3 DEF Positions
<1>12. ~ Fetching
  BY <1>1, OneReads DEF Fetching, InRead
<1>13. GoesOn => GoesOn'
  BY <1>1, <1>7, <1>10, <1>12 DEF GoesOn
<1>14. ASSUME Positions, NoneAtEnd PROVE NoneAtEnd'
  <2>1. Len(yielded') <= Fetched /\ Fetched <= DataSize
    BY <1>3, <1>4, <1>5, <1>14 DEF Positions, Fetched
  <2>2. Len(yielded') <= DataSize /\ Len(yielded) <= Len(yielded') /\ Len(yielded') \in Nat
    BY <1>3, <1>4, <1>5, <2>1, ReaderAssumption DEF Fetched, ReaderAssumption
  <2> QED
    BY <1>1, <1>4, <1>6, <1>14, <2>2, NoneStays
<1> QED
  BY <1>1, <1>7, <1>9, <1>11, <1>13, <1>14 DEF ReadInv

(* The request takes the cursor along. *)
LEMMA AskKeeps ==
  ASSUME Types, ReadInv, NEW t \in Tasks, AskPage(t)
  PROVE  ReadInv'
<1>1. /\ Call(t).on = "reader" /\ Calling(t) /\ pc[t] = "reading" /\ buffer = <<>> /\ ~done
      /\ asked' = cursor /\ cursor' = None /\ Goto(t, "fetching")
      /\ UNCHANGED <<buffer, done, yielded, disturbed>>
  BY DEF AskPage, AtReader, At
<1>2. program' \in Programs /\ ReadsOnReader' /\ Fetching'
  BY <1>1, ReaderMoves DEF InRead
<1>3. ~ Fetching
  BY <1>1, OneReads DEF Fetching, InRead
<1>4. ReaderTypes'
  BY <1>1 DEF ReadInv, ReaderTypes
<1>5. Len(yielded) \in Nat /\ Len(buffer) = 0
  BY <1>1, LengthsOf DEF ReadInv
<1>6. GoesOn => GoesOn'
  <2> SUFFICES ASSUME GoesOn PROVE From' = Len(yielded)
    BY <1>1, <1>2 DEF GoesOn
  <2>1. Fetched = Len(yielded)
    BY <1>5 DEF Fetched
  <2>2. cursor = Len(yielded) \/ (cursor = None /\ Len(yielded) = 0)
    BY <1>1, <1>3, <2>1 DEF GoesOn
  <2>3. Len(yielded) # None
    BY <1>5, ReaderAssumption DEF ReaderAssumption
  <2> QED
    BY <1>1, <2>2, <2>3 DEF From
<1>7. (Positions => Positions') /\ (NoneAtEnd => NoneAtEnd')
  BY <1>1 DEF Positions, NoneAtEnd, Fetched, Goto
<1> QED
  BY <1>1, <1>2, <1>4, <1>6, <1>7 DEF ReadInv

LEMMA EndKeeps ==
  ASSUME Types, ReadInv, NEW t \in Tasks, ReadEnd(t)
  PROVE  ReadInv'
<1>1. /\ Call(t).on = "reader" /\ Calling(t) /\ pc[t] = "reading" /\ buffer = <<>> /\ done
      /\ Return(t, "none") /\ UNCHANGED readerVars
  BY DEF ReadEnd, AtReader, At
<1>2. UNCHANGED <<cursor, asked, buffer, done, yielded, disturbed>>
  BY <1>1 DEF readerVars
<1>3. "none" \in Answers
  BY DEF Answers
<1>4. program' \in Programs /\ ReadsOnReader' /\ ~ Fetching'
  BY <1>1, <1>3, ReaderMoves DEF InRead
<1>5. ReaderTypes'
  BY <1>2 DEF ReadInv, ReaderTypes
<1>6. Len(yielded) \in Nat /\ Len(buffer) = 0
  BY <1>1, LengthsOf DEF ReadInv
<1>7. Positions => Positions' /\ GoesOn'
  BY <1>1, <1>2, <1>4 DEF Positions, GoesOn, Fetched
<1>8. ASSUME Positions, NoneAtEnd PROVE NoneAtEnd'
  <2>1. Len(yielded) = DataSize
    BY <1>1, <1>6, <1>8 DEF Positions, Fetched
  <2> QED
    BY <1>2, <2>1 DEF NoneAtEnd
<1> QED
  BY <1>2, <1>4, <1>5, <1>7, <1>8 DEF ReadInv

(* A fetch that fails or is given up: nothing is promised any more. *)
LEMMA FailKeeps ==
  ASSUME Types, ReadInv, NEW t \in Tasks, PageFails(t) \/ GiveUpRead(t)
  PROVE  ReadInv'
<1>1. /\ Call(t).on = "reader" /\ Calling(t) /\ pc[t] = "fetching" /\ disturbed'
      /\ Return(t, "none") \/ Return(t, "given up")
      /\ done' = TRUE \/ done' = done
      /\ UNCHANGED <<cursor, asked, buffer, yielded>>
  BY DEF PageFails, GiveUpRead, AtReader, At
<1>2. "none" \in Answers /\ "given up" \in Answers
  BY DEF Answers
<1>3. program' \in Programs /\ ReadsOnReader'
  BY <1>1, <1>2, ReaderMoves DEF InRead
<1>4. disturbed' = TRUE
  BY DEF PageFails, GiveUpRead
<1>5. ReaderTypes'
  BY <1>1, <1>4 DEF ReadInv, ReaderTypes
<1> QED
  BY <1>1, <1>3, <1>5 DEF ReadInv

(* What a page says, wherever the server cuts it. *)
LEMMA PageIs ==
  ASSUME NEW from \in Nat, NEW page \in Pages(from)
  PROVE  /\ page.size \in Nat /\ from + page.size <= DataSize
         /\ page.cursor = from + page.size \/ (page.cursor = None /\ from + page.size = DataSize)
<1>1. DataSize \in Nat /\ BatchSize \in Nat
  BY ReaderAssumption DEF ReaderAssumption
<1> DEFINE m == Min({BatchSize, DataSize - from})
<1>2. m \in Int /\ m <= DataSize - from
  <2>1. BatchSize \in Int /\ DataSize - from \in Int
    BY <1>1
  <2> QED
    BY <2>1, MinOfTwo
<1> HIDE DEF m
<1>3. CASE page \in {[size |-> n, cursor |-> from + n] : n \in 0..m}
  BY <1>1, <1>2, <1>3
<1>4. CASE page \in {[size |-> n, cursor |-> None] : n \in {DataSize - from} \cap 0..BatchSize}
  BY <1>1, <1>4
<1> QED
  BY <1>3, <1>4 DEF Pages, m

(* The records of a page but its first one. *)
LEMMA RestOfPage ==
  ASSUME NEW from \in Nat, NEW size \in Nat \ {0}, NEW rest,
         rest = [i \in 1..(size - 1) |-> from + 1 + i]
  PROVE  /\ rest \in Seq(Nat) /\ Len(rest) = size - 1
         /\ \A i \in DOMAIN rest : rest[i] = from + 1 + i
<1>1. rest \in [1..(size - 1) -> Nat] /\ size - 1 \in Nat
  OBVIOUS
<1> QED
  BY <1>1

LEMMA PageKeeps ==
  ASSUME Types, ReadInv, NEW t \in Tasks, Page(t)
  PROVE  ReadInv'
<1>1. /\ Call(t).on = "reader" /\ Calling(t) /\ pc[t] = "fetching"
      /\ asked' = asked
  BY DEF Page, AtReader, At
<1>2. From \in Nat
  BY ReaderAssumption DEF ReadInv, ReaderTypes, From, ReaderAssumption
<1>3. PICK page \in Pages(From) :
        /\ cursor' = page.cursor
        /\ done' = (page.cursor = None)
        /\ disturbed' = (disturbed \/ (page.size = 0 /\ From < DataSize))
        /\ FirstOf(t, page)
  BY DEF Page, FetchDatasetRecords
<1>4. /\ page.size \in Nat /\ From + page.size <= DataSize
      /\ page.cursor = From + page.size \/ (page.cursor = None /\ From + page.size = DataSize)
  BY <1>2, <1>3, PageIs
<1>5. DataSize \in Nat /\ None \notin Nat
  BY ReaderAssumption DEF ReaderAssumption
<1>6. yielded \in Seq(Nat) /\ Len(yielded) \in Nat
  BY LengthsOf DEF ReadInv, ReaderTypes
<1>7. cursor' \in Nat \cup {None} /\ asked' \in Nat \cup {None}
      /\ done' \in BOOLEAN /\ disturbed' \in BOOLEAN
  <2>1. cursor' \in Nat \cup {None}
    BY <1>2, <1>3, <1>4
  <2>2. asked' \in Nat \cup {None}
    BY <1>1 DEF ReadInv, ReaderTypes
  <2>3. done' \in BOOLEAN /\ disturbed' \in BOOLEAN
    BY <1>3, Zenon
  <2> QED
    BY <2>1, <2>2, <2>3
<1>8. (done' <=> page.cursor = None) /\ (~disturbed' => ~disturbed)
       /\ (~disturbed' /\ page.size = 0 => ~ (From < DataSize))
  BY <1>3, Zenon
<1>9. "none" \in Answers /\ "some" \in Answers
  BY DEF Answers
<1>10. Goto(t, "reading") \/ Return(t, "some") \/ Return(t, "none")
  BY <1>3 DEF FirstOf, Yield
<1>11. program' \in Programs /\ ReadsOnReader' /\ ~ Fetching'
  BY <1>1, <1>9, <1>10, ReaderMoves DEF InRead
<1>12. CASE page.size = 0
  <2>1. buffer' = <<>> /\ yielded' = yielded /\ Return(t, "none")
    BY <1>3, <1>12 DEF FirstOf
  <2>2. Len(buffer') = 0 /\ DOMAIN buffer' = {} /\ buffer' \in Seq(Nat)
    BY <2>1
  <2>3. ReaderTypes'
    BY <1>6, <1>7, <2>1, <2>2 DEF ReaderTypes
  <2>4. ASSUME ~disturbed' PROVE Positions' /\ GoesOn' /\ NoneAtEnd'
    <3>1. ~disturbed /\ From >= DataSize
      BY <1>2, <1>8, <1>5, <1>12, <2>4
    <3>2. Positions /\ GoesOn /\ NoneAtEnd
      BY <3>1 DEF ReadInv
    <3>3. From = Len(yielded) /\ From = DataSize
      BY <1>1, <1>2, <1>4, <1>5, <1>12, <3>1, <3>2 DEF GoesOn, Fetching
    <3>4. Fetched' = DataSize
      BY <1>6, <2>1, <2>2, <3>3 DEF Fetched
    <3>5. Positions'
      BY <1>5, <2>1, <2>2, <3>2, <3>4 DEF Positions
    <3>6. GoesOn'
      <4>1. ~ done' => cursor' = Fetched'
        BY <1>2, <1>3, <1>8, <1>4, <1>12, <3>3, <3>4
      <4> QED
        BY <1>11, <4>1 DEF GoesOn
    <3>7. NoneAtEnd'
      BY <2>1, <3>3 DEF NoneAtEnd
    <3> QED
      BY <3>5, <3>6, <3>7
  <2> QED
    BY <1>11, <2>3, <2>4 DEF ReadInv
<1>13. CASE page.size # 0
  <2>1. /\ buffer' = [i \in 1..(page.size - 1) |-> From + 1 + i]
        /\ yielded' = Append(yielded, From + 1)
        /\ Goto(t, "reading") \/ Return(t, "some")
    BY <1>3, <1>13 DEF FirstOf, Yield
  <2>2. /\ buffer' \in Seq(Nat) /\ Len(buffer') = page.size - 1
        /\ \A i \in DOMAIN buffer' : buffer'[i] = From + 1 + i
    <3>1. page.size \in Nat \ {0}
      BY <1>4, <1>13
    <3> QED
      BY <1>2, <2>1, <3>1, RestOfPage
  <2>3. /\ yielded' \in Seq(Nat) /\ Len(yielded') = Len(yielded) + 1
        /\ From + 1 = Len(yielded) + 1 /\ (\A i \in DOMAIN yielded : yielded[i] = i) =>
             \A i \in DOMAIN yielded' : yielded'[i] = i
    <3>1. From + 1 \in Nat
      BY <1>2
    <3> QED
      BY <1>6, <2>1, <3>1, AppendPosition
  <2>4. ReaderTypes'
    BY <1>7, <2>2, <2>3 DEF ReaderTypes
  <2>5. ASSUME ~disturbed' PROVE Positions' /\ GoesOn' /\ NoneAtEnd'
    <3>1. ~disturbed
      BY <1>8, <2>5
    <3>2. Positions /\ GoesOn /\ NoneAtEnd
      BY <3>1 DEF ReadInv
    <3>3. From = Len(yielded)
      BY <1>1, <3>2 DEF GoesOn, Fetching
    <3>4. Fetched' = From + page.size
      <4>1. Len(buffer') = page.size - 1 /\ Len(yielded') = From + 1
        BY <2>2, <2>3, <3>3
      <4> QED
        BY <1>2, <1>4, <4>1 DEF Fetched
    <3>5. done' => Fetched' = DataSize
      BY <1>2, <1>8, <1>4, <1>5, <3>4
    <3>6. Positions'
      <4>1. \A i \in DOMAIN yielded' : yielded'[i] = i
        BY <2>3, <3>2, <3>3 DEF Positions
      <4>2. \A i \in DOMAIN buffer' : buffer'[i] = Len(yielded') + i
        BY <1>6, <2>2, <2>3, <3>3
      <4> QED
        BY <1>4, <3>4, <3>5, <4>1, <4>2 DEF Positions
    <3>7. GoesOn'
      <4>1. ~ done' => cursor' = Fetched'
        BY <1>3, <1>8, <1>4, <3>4
      <4> QED
        BY <1>11, <4>1 DEF GoesOn
    <3>8. NoneAtEnd'
      <4>1. Len(yielded') \in Nat /\ Len(yielded) <= Len(yielded') /\ Len(yielded') <= DataSize
        BY <1>2, <1>4, <1>5, <1>6, <1>13, <2>3, <3>3
      <4> QED
        BY <1>6, <1>9, <2>1, <3>2, <4>1, NoneStays
    <3> QED
      BY <3>6, <3>7, <3>8
  <2> QED
    BY <1>11, <2>4, <2>5 DEF ReadInv
<1> QED
  BY <1>12, <1>13

LEMMA ReadInit == Init => ReadInv
<1> SUFFICES ASSUME Init PROVE ReadInv
  OBVIOUS
<1>1. /\ program \in Programs /\ answers = [t \in Tasks |-> <<>>] /\ pc = [t \in Tasks |-> "idle"]
      /\ cursor = None /\ asked = None /\ buffer = <<>> /\ done = FALSE /\ yielded = <<>>
      /\ disturbed = FALSE
  BY DEF Init, ClientInit, ReaderInit
<1>2. ReaderTypes
  <2>1. yielded \in Seq(Nat) /\ buffer \in Seq(Nat)
    BY <1>1, EmptySeq
  <2>2. done \in BOOLEAN /\ disturbed \in BOOLEAN
    BY <1>1
  <2> QED
    BY <1>1, <2>1, <2>2, Zenon DEF ReaderTypes
<1>3. ~ Fetching /\ ReadsOnReader
  BY <1>1 DEF Fetching, ReadsOnReader, InRead
<1>4. Fetched = 0 /\ DOMAIN yielded = {} /\ DOMAIN buffer = {}
  BY <1>1 DEF Fetched
<1>5. Positions /\ GoesOn
  BY <1>1, <1>3, <1>4, ReaderAssumption DEF Positions, GoesOn, ReaderAssumption
<1>6. NoneAtEnd
  BY <1>1 DEF NoneAtEnd, ToSet
<1> QED
  BY <1>1, <1>2, <1>3, <1>5, <1>6 DEF ReadInv

LEMMA ReadNext ==
  ASSUME Types, ReadInv, [Next]_vars
  PROVE  ReadInv'
<1>1. ASSUME NEW t \in Tasks, OnDataset(t) \/ OnExperiment(t) PROVE ReadInv'
  BY <1>1, DatasetElsewhere, ExperimentElsewhere, ElsewhereKeepsReads
<1>2. ASSUME NEW t \in Tasks, OnReader(t) PROVE ReadInv'
  BY <1>2, BeginReadKeeps, PopKeeps, EndKeeps, AskKeeps, PageKeeps, FailKeeps
     DEF OnReader, ReaderStep
<1>3. ASSUME NEW t \in Tasks, Shared(Ensure(t)) PROVE ReadInv'
  <2>1. UNCHANGED readerVars /\ Ensure(t)
    BY <1>3 DEF Shared
  <2>2. ~ InRead(t) /\ \E label : label \notin {"reading", "fetching"} /\ Goto(t, label)
    BY <2>1 DEF Ensure, InRead
  <2> QED
    BY <2>1, <2>2, ElsewhereKeepsReads DEF Elsewhere
<1>4. CASE Shared(BackgroundFlush) \/ UNCHANGED vars
  <2>1. UNCHANGED readerVars /\ UNCHANGED <<program, answers, pc>>
    BY <1>4 DEF Shared, BackgroundFlush, vars, clientVars, taskVars
  <2>2. UNCHANGED <<cursor, asked, buffer, done, yielded, disturbed, program, answers, pc>>
    BY <2>1 DEF readerVars
  <2>3. ReaderTypes'
    BY <2>2 DEF ReadInv, ReaderTypes
  <2>4. ReadsOnReader'
    BY <2>2 DEF ReadInv, ReadsOnReader, InRead, Calling, Call, Number
  <2>5. Positions => Positions'
    BY <2>2 DEF Positions, Fetched
  <2>6. (GoesOn => GoesOn') /\ (NoneAtEnd => NoneAtEnd')
    BY <2>2 DEF GoesOn, NoneAtEnd, Fetching, Fetched, From
  <2> QED
    BY <2>2, <2>3, <2>4, <2>5, <2>6 DEF ReadInv
<1> QED
  BY <1>1, <1>2, <1>3, <1>4 DEF Next

(* However the server cuts the pages, the iterator returns every record    *)
(* once and in order, and None only at the end.                            *)
THEOREM EverythingIsRead == Spec => []ReadsEverything
<1>1. Inv => Types
  BY DEF Inv, CellInv
<1>2. Inv /\ ReadInv /\ [Next]_vars => ReadInv'
  BY <1>1, ReadNext
<1>3. ReadInv => ReadsEverything
  BY DEF ReadInv, ReadsEverything, Positions, NoneAtEnd
<1> QED
  BY <1>2, <1>3, ReadInit, InvAlways, PTL DEF Spec
=============================================================================
