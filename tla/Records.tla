------------------------------ MODULE Records ------------------------------
(***************************************************************************)
(* Datasets, their iterators and experiments of one client.                *)
(***************************************************************************)
EXTENDS Dataset, DatasetReader, Experiment

vars == <<clientVars, datasetVars, readerVars, experimentVars>>

Init == ClientInit /\ DatasetInit /\ ReaderInit /\ ExperimentInit

OnDataset(t) ==
  /\ Push(t) \/ BeginOnDataset(t) \/ DatasetStep(t) \/ GiveUpOnDataset(t)
  /\ UNCHANGED <<readerVars, experimentVars>>

OnReader(t) ==
  /\ BeginRead(t) \/ ReaderStep(t) \/ GiveUpRead(t)
  /\ UNCHANGED <<datasetVars, experimentVars>>

OnExperiment(t) ==
  /\ \/ CloneExperiment(t) \/ BeginLog(t) \/ BeginStart(t) \/ BeginOther(t) \/ BeginFlush(t)
     \/ ExperimentStep(t) \/ GiveUpOnExperiment(t)
  /\ UNCHANGED <<datasetVars, readerVars>>

Shared(A) == A /\ UNCHANGED <<datasetVars, readerVars, experimentVars>>

Next ==
  \/ \E t \in Tasks :
       \/ OnDataset(t) \/ OnReader(t) \/ OnExperiment(t)
       \/ Shared(Ensure(t))
  \/ Shared(BackgroundFlush)

Spec == Init /\ [][Next]_vars

(* A call that began is polled on, and its requests are answered. *)
Progress(t) ==
  \/ DatasetStep(t) /\ UNCHANGED <<readerVars, experimentVars>>
  \/ ReaderStep(t) /\ UNCHANGED <<datasetVars, experimentVars>>
  \/ ExperimentStep(t) /\ UNCHANGED <<datasetVars, readerVars>>
  \/ Shared(Ensure(t))

FairSpec == Spec /\ \A t \in Tasks : WF_vars(Progress(t))

-----------------------------------------------------------------------------
(* However the callers race for the registration and give it up, all rows  *)
(* that go through one handle go to one object, the one its cell names.    *)
OneObject == \A s \in submitted : s.id = cell[s.row.on]

(* Every call comes back: nobody waits for a registration or a lock that   *)
(* its holder has abandoned.                                               *)
CallsReturn == \A t \in Tasks : pc[t] # "idle" ~> pc[t] = "idle"
=============================================================================
