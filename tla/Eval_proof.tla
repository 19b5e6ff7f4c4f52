------------------------------ MODULE Eval_proof ------------------------------
(***************************************************************************)
(* For any concurrency above zero, any number of cases, scorers and calls: *)
(* run never waits for a permit that only its own polling could return, a  *)
(* summary is complete, and the runner never forgets a failure.            *)
(***************************************************************************)
EXTENDS Eval, FiniteSetTheorems, FunctionTheorems, SequenceTheorems, TLAPS

(* A permit is held by each case in flight and by nobody else. *)
PermitsHeld == permits + Cardinality(Inflight) = MaxConcurrency

(* There is room when the next case is fetched. *)
RoomToFetch == pc \in {"fetch", "acquire"} => Cardinality(Inflight) < MaxConcurrency

(* The one case that waits for its permit is the last, in "acquire". *)
FetchedLast ==
  /\ pc = "acquire" => cases # <<>> /\ cases[Len(cases)].step = "fetched"
  /\ pc = "root" => cases = <<>>

(* The inductive invariant. *)
IInv == TypeOK /\ PermitsHeld /\ RoomToFetch /\ FetchedLast

(* run asks for a permit only when there is one. *)
PermitAtHand == pc = "acquire" => permits > 0

(* The cases in flight are finitely many. *)
LEMMA InflightFinite ==
  ASSUME cases \in Seq(Case)
  PROVE  /\ Inflight \in SUBSET (1..Len(cases))
         /\ IsFiniteSet(Inflight) /\ Cardinality(Inflight) \in Nat
<1>1. Len(cases) \in Nat /\ DOMAIN cases = 1..Len(cases)
  BY LenProperties
<1>2. Inflight \in SUBSET (1..Len(cases))
  BY <1>1 DEF Inflight
<1>3. IsFiniteSet(1..Len(cases))
  BY <1>1, FS_Interval
<1>4. IsFiniteSet(Inflight)
  BY <1>2, <1>3, FS_Subset
<1> QED
  BY <1>2, <1>4, FS_CardinalityType

(* No cases, nothing in flight. *)
LEMMA NoneInflight ==
  ASSUME cases = <<>> PROVE Inflight = {} /\ Cardinality(Inflight) = 0
<1>1. DOMAIN cases = {}
  OBVIOUS
<1>2. Inflight = {}
  BY <1>1 DEF Inflight
<1> QED
  BY <1>2, FS_EmptySet

(* A case that changes leaves the others as they are; it is in flight by   *)
(* its own step alone.                                                     *)
LEMMA CaseChanges ==
  ASSUME cases \in Seq(Case), NEW c \in 1..Len(cases), NEW new \in Case, Becomes(c, new)
  PROVE  /\ cases' \in Seq(Case) /\ Len(cases') = Len(cases)
         /\ \A d \in 1..Len(cases) : cases'[d] = IF d = c THEN new ELSE cases[d]
         /\ Inflight' = IF new.step \notin {"fetched", "taken"}
                        THEN Inflight \cup {c} ELSE Inflight \ {c}
<1>1. /\ cases' \in Seq(Case) /\ Len(cases') = Len(cases)
      /\ \A d \in 1..Len(cases) : cases'[d] = IF d = c THEN new ELSE cases[d]
  BY ExceptSeq DEF Becomes
<1>2. DOMAIN cases' = 1..Len(cases) /\ DOMAIN cases = 1..Len(cases)
  BY <1>1, LenProperties
<1> QED
  BY <1>1, <1>2 DEF Inflight

(* A case that goes on before it is taken keeps the invariant. *)
LEMMA CaseGoesOn ==
  ASSUME IInv, NEW c \in 1..Len(cases), NEW new \in Case, Becomes(c, new),
         cases[c].step \notin {"fetched", "taken"}, new.step \notin {"fetched", "taken"},
         pc \in {"drain", "collect"}, UNCHANGED <<runner, run, failures>>
  PROVE  IInv'
<1>1. cases' \in Seq(Case) /\ Len(cases') = Len(cases)
  BY CaseChanges DEF IInv, TypeOK
<1>2. c \in Inflight
  BY LenProperties DEF IInv, TypeOK, Inflight
<1>3. Inflight' = Inflight
  <2>1. Inflight' = Inflight \cup {c}
    BY CaseChanges DEF IInv, TypeOK
  <2> QED
    BY <1>2, <2>1
<1>4. UNCHANGED <<calls, all_passed, returned, pc, root, permits, results, failures>>
  BY DEF runner, run
<1>5. TypeOK'
  BY <1>1, <1>4 DEF IInv, TypeOK
<1>6. PermitsHeld'
  BY <1>3, <1>4 DEF IInv, PermitsHeld
<1>7. RoomToFetch' /\ FetchedLast'
  BY <1>4 DEF RoomToFetch, FetchedLast
<1> QED
  BY <1>5, <1>6, <1>7 DEF IInv

(* A case that is done returns its permit. *)
LEMMA CaseTaken ==
  ASSUME IInv, NEW c \in 1..Len(cases), NEW new \in Case, Becomes(c, new),
         cases[c].step \notin {"fetched", "taken"}, new.step = "taken",
         pc \in {"drain", "collect"}, failures' \in BOOLEAN,
         NEW error \in BOOLEAN, Take(c, error)
  PROVE  IInv'
<1>1. cases' \in Seq(Case) /\ Len(cases') = Len(cases)
  BY CaseChanges DEF IInv, TypeOK
<1>2. c \in Inflight
  BY LenProperties DEF IInv, TypeOK, Inflight
<1>3. Inflight' = Inflight \ {c}
  BY CaseChanges DEF IInv, TypeOK
<1>4. IsFiniteSet(Inflight) /\ Cardinality(Inflight) \in Nat
  BY InflightFinite DEF IInv, TypeOK
<1>5. Cardinality(Inflight') = Cardinality(Inflight) - 1
  BY <1>2, <1>3, <1>4, FS_RemoveElement
<1>6. Cardinality(Inflight') \in Nat
  BY <1>1, <1>3, <1>4, FS_RemoveElement, FS_CardinalityType
<1>7. permits' = permits + 1 /\ permits \in Nat
  BY DEF Take, IInv, TypeOK
<1>8. permits' + Cardinality(Inflight') = MaxConcurrency
  BY <1>4, <1>5, <1>7 DEF IInv, PermitsHeld
<1>9. permits' \in 0..MaxConcurrency
  BY <1>6, <1>7, <1>8, EvalAssumption DEF EvalAssumption
<1>10. results' \in Seq(EvalResult)
  <2>1. cases[c] \in Case
    BY ElementOfSeq DEF IInv, TypeOK
  <2>2. c \in 1..MaxCases
    BY LenProperties, EvalAssumption DEF EvalAssumption, IInv, TypeOK
  <2>3. [case |-> c, error |-> error, scores |-> cases[c].scores] \in EvalResult
    BY <2>1, <2>2 DEF Case, EvalResult
  <2> QED
    BY <2>3, AppendProperties DEF Take, IInv, TypeOK
<1>11. UNCHANGED <<calls, all_passed, returned, pc, root>>
  BY DEF Take, runner
<1>12. TypeOK'
  BY <1>1, <1>9, <1>10, <1>11 DEF IInv, TypeOK
<1>13. RoomToFetch' /\ FetchedLast'
  BY <1>11 DEF RoomToFetch, FetchedLast
<1> QED
  BY <1>8, <1>12, <1>13 DEF IInv, PermitsHeld

(* The first state. *)
LEMMA InitIInv == Init => IInv
<1> SUFFICES ASSUME Init PROVE IInv
  OBVIOUS
<1>1. Inflight = {} /\ Cardinality(Inflight) = 0
  BY NoneInflight DEF Init
<1>2. cases \in Seq(Case) /\ Len(cases) = 0 /\ results \in Seq(EvalResult)
  BY DEF Init
<1>3. TypeOK
  <2>1. calls \in 0..MaxCalls /\ permits \in 0..MaxConcurrency /\ Len(cases) <= MaxCases
    BY <1>2, EvalAssumption DEF Init, EvalAssumption
  <2>2. all_passed \in BOOLEAN /\ failures \in BOOLEAN
    BY DEF Init
  <2>3. returned = "none" /\ pc = "idle" /\ root = "none"
    BY DEF Init
  <2> QED
    BY <1>2, <2>1, <2>2, <2>3 DEF TypeOK
<1>4. PermitsHeld
  BY <1>1, EvalAssumption DEF Init, PermitsHeld, EvalAssumption
<1>5. RoomToFetch /\ FetchedLast
  BY DEF Init, RoomToFetch, FetchedLast
<1> QED
  BY <1>3, <1>4, <1>5 DEF IInv

(* A call starts with all the permits and no case. *)
LEMMA EvalCallStep == IInv /\ EvalCall => IInv'
<1> SUFFICES ASSUME IInv, EvalCall PROVE IInv'
  OBVIOUS
<1>1. cases' = <<>> /\ results' = <<>> /\ permits' = MaxConcurrency
  BY DEF EvalCall
<1>2. Inflight' = {} /\ Cardinality(Inflight') = 0
  <2>1. DOMAIN cases' = {}
    BY <1>1
  <2>2. Inflight' = {}
    BY <2>1 DEF Inflight
  <2> QED
    BY <2>2, FS_EmptySet
<1>3. cases' \in Seq(Case) /\ Len(cases') = 0 /\ results' \in Seq(EvalResult)
  BY <1>1
<1>4. /\ pc' \in {"idle", "root"} /\ root' = "none" /\ returned' \in {"none", "ok", "err"}
      /\ UNCHANGED <<all_passed, failures>>
  BY DEF EvalCall, IInv, TypeOK
<1>5. calls' \in 0..MaxCalls
  BY EvalAssumption DEF EvalCall, IInv, TypeOK, EvalAssumption
<1>6. TypeOK'
  BY <1>1, <1>3, <1>4, <1>5, EvalAssumption DEF IInv, TypeOK, EvalAssumption
<1>7. PermitsHeld'
  BY <1>1, <1>2, EvalAssumption DEF PermitsHeld, EvalAssumption
<1>8. RoomToFetch' /\ FetchedLast'
  BY <1>1, <1>4 DEF RoomToFetch, FetchedLast
<1> QED
  BY <1>6, <1>7, <1>8 DEF IInv

(* The steps of run that leave the cases and the permits alone. *)
LEMMA CasesStay ==
  ASSUME IInv, UNCHANGED <<cases, permits, results, calls>>, all_passed' \in BOOLEAN,
         failures' \in BOOLEAN, returned' \in {"none", "ok", "err"},
         root' \in {"none", "open", "ended"},
         pc' \in {"idle", "fetch", "drain", "collect", "summary", "error"},
         pc' = "fetch" => Cardinality(Inflight) < MaxConcurrency
  PROVE  IInv'
<1>1. Inflight' = Inflight
  BY DEF Inflight
<1>2. TypeOK'
  BY DEF IInv, TypeOK
<1>3. PermitsHeld' /\ RoomToFetch'
  BY <1>1 DEF IInv, PermitsHeld, RoomToFetch
<1>4. FetchedLast'
  BY DEF FetchedLast
<1> QED
  BY <1>2, <1>3, <1>4 DEF IInv

LEMMA BuildRootStep == IInv /\ BuildRoot => IInv'
<1> SUFFICES ASSUME IInv, BuildRoot PROVE IInv'
  OBVIOUS
<1>1. Cardinality(Inflight) = 0
  BY NoneInflight DEF BuildRoot, IInv, FetchedLast
<1>2. Cardinality(Inflight) < MaxConcurrency
  BY <1>1, EvalAssumption DEF EvalAssumption
<1>3. /\ UNCHANGED <<cases, permits, results, calls, all_passed, returned>>
      /\ root' \in {"none", "open"} /\ pc' \in {"fetch", "error"}
  BY DEF BuildRoot, runner
<1>4. failures' \in BOOLEAN
  BY DEF BuildRoot, IInv, TypeOK
<1>5. all_passed' \in BOOLEAN /\ returned' \in {"none", "ok", "err"}
  BY <1>3 DEF IInv, TypeOK
<1> QED
  BY <1>2, <1>3, <1>4, <1>5, CasesStay

(* The next case is fetched, or there is none. *)
LEMMA FetchStep == IInv /\ Fetch => IInv'
<1> SUFFICES ASSUME IInv, Fetch PROVE IInv'
  OBVIOUS
<1>1. UNCHANGED <<permits, results, calls, all_passed, returned, root, failures>>
  BY DEF Fetch, runner
<1>2. CASE cases' = cases /\ pc' = "collect"
  BY <1>1, <1>2, CasesStay DEF IInv, TypeOK
<1>3. ASSUME Len(cases) < MaxCases,
             cases' = Append(cases, [step |-> "fetched", scoring |-> {}, scores |-> {},
                                     span |-> <<>>]),
             pc' = "acquire"
      PROVE  IInv'
  <2> DEFINE new == [step |-> "fetched", scoring |-> {}, scores |-> {}, span |-> <<>>]
  <2>1. new \in Case
    BY DEF Case
  <2>2. /\ cases' \in Seq(Case) /\ Len(cases') = Len(cases) + 1
        /\ \A d \in 1..Len(cases) : cases'[d] = cases[d]
        /\ cases'[Len(cases) + 1] = new
    BY <1>3, <2>1, AppendProperties DEF IInv, TypeOK
  <2>3. Len(cases) \in Nat /\ Len(cases) + 1 \in Nat
    BY LenProperties DEF IInv, TypeOK
  <2>4. DOMAIN cases = 1..Len(cases) /\ DOMAIN cases' = 1..(Len(cases) + 1)
    BY <2>2, LenProperties DEF IInv, TypeOK
  <2>5. Inflight' = Inflight
    BY <2>2, <2>3, <2>4 DEF Inflight
  <2>6. Len(cases') <= MaxCases /\ cases' # <<>> /\ cases'[Len(cases')].step = "fetched"
    BY <1>3, <2>2, <2>3, EvalAssumption DEF EvalAssumption
  <2>7. TypeOK'
    BY <1>1, <1>3, <2>2, <2>6 DEF IInv, TypeOK
  <2>8. PermitsHeld'
    BY <1>1, <2>5 DEF IInv, PermitsHeld
  <2>9. RoomToFetch'
    BY <2>5 DEF IInv, RoomToFetch, Fetch
  <2>10. FetchedLast'
    BY <1>3, <2>6 DEF FetchedLast
  <2> QED
    BY <2>7, <2>8, <2>9, <2>10 DEF IInv
<1> QED
  BY <1>2, <1>3 DEF Fetch

(* The case that was fetched takes its permit. *)
LEMMA AcquireStep == IInv /\ Acquire => IInv'
<1> SUFFICES ASSUME IInv, Acquire PROVE IInv'
  OBVIOUS
<1> DEFINE last == Len(cases)
           new == [cases[last] EXCEPT !.step = "pushed"]
<1>1. UNCHANGED <<results, calls, all_passed, returned, root, failures>>
  BY DEF Acquire, runner
<1>2. last \in 1..Len(cases) /\ cases[last].step = "fetched"
  <2>1. cases # <<>> /\ cases[last].step = "fetched" /\ cases \in Seq(Case)
    BY DEF Acquire, IInv, FetchedLast, TypeOK
  <2> QED
    BY <2>1, EmptySeq, LenProperties
<1>3. new \in Case
  <2>1. cases[last] \in Case
    BY <1>2, ElementOfSeq DEF IInv, TypeOK
  <2> QED
    BY <2>1 DEF Case
<1>4. new.step = "pushed"
  BY <1>2, ElementOfSeq DEF IInv, TypeOK, Case
<1>5. Becomes(last, new)
  BY DEF Acquire, Becomes
<1>6. cases' \in Seq(Case) /\ Len(cases') = Len(cases)
  BY <1>2, <1>3, <1>5, CaseChanges DEF IInv, TypeOK
<1>7. Inflight' = Inflight \cup {last}
  <2>1. cases \in Seq(Case) /\ new.step \notin {"fetched", "taken"}
    BY <1>4 DEF IInv, TypeOK
  <2>2. Inflight' = IF new.step \notin {"fetched", "taken"}
                    THEN Inflight \cup {last} ELSE Inflight \ {last}
    BY <1>2, <1>3, <1>5, <2>1, CaseChanges
  <2> QED
    BY <2>1, <2>2
<1>8. last \notin Inflight
  BY <1>2 DEF Inflight
<1>9. IsFiniteSet(Inflight) /\ Cardinality(Inflight) \in Nat
  BY InflightFinite DEF IInv, TypeOK
<1>10. Cardinality(Inflight') = Cardinality(Inflight) + 1
  BY <1>7, <1>8, <1>9, FS_AddElement
<1>11. permits' = permits - 1 /\ permits \in 1..MaxConcurrency
  BY EvalAssumption DEF Acquire, IInv, TypeOK, EvalAssumption
<1>12. permits' \in 0..MaxConcurrency
  BY <1>11, EvalAssumption DEF EvalAssumption
<1>13. TypeOK'
  <2>1. pc' = "drain"
    BY DEF Acquire
  <2> QED
    BY <1>1, <1>6, <1>12, <2>1 DEF IInv, TypeOK
<1>14. PermitsHeld'
  BY <1>9, <1>10, <1>11, EvalAssumption DEF IInv, PermitsHeld, EvalAssumption
<1>15. RoomToFetch' /\ FetchedLast'
  BY DEF Acquire, RoomToFetch, FetchedLast
<1> QED
  BY <1>13, <1>14, <1>15 DEF IInv

LEMMA DrainedStep == IInv /\ Drained => IInv'
<1> SUFFICES ASSUME IInv, Drained PROVE IInv'
  OBVIOUS
<1>1. UNCHANGED <<cases, permits, results, calls, all_passed, returned, root, failures>>
  BY DEF Drained, runner
<1> QED
  BY <1>1, CasesStay DEF Drained, IInv, TypeOK

LEMMA EndRootStep == IInv /\ EndRoot => IInv'
<1> SUFFICES ASSUME IInv, EndRoot PROVE IInv'
  OBVIOUS
<1>1. UNCHANGED <<cases, permits, results, calls, all_passed, returned, failures>>
  BY DEF EndRoot, runner
<1> QED
  BY <1>1, CasesStay DEF EndRoot, IInv, TypeOK

LEMMA ReportStep == IInv /\ Report => IInv'
<1> SUFFICES ASSUME IInv, Report PROVE IInv'
  OBVIOUS
<1>1. UNCHANGED <<cases, permits, results, calls, root, failures>> /\ pc' = "idle"
  BY DEF Report
<1>2. all_passed' \in BOOLEAN
  BY DEF Report, IInv, TypeOK
<1>3. returned' \in {"none", "ok", "err"}
  BY DEF Report
<1> QED
  BY <1>1, <1>2, <1>3, CasesStay DEF IInv, TypeOK

(* A step of a case, whichever way it goes. *)
LEMMA ProcessCaseStep ==
  ASSUME IInv, NEW c \in DOMAIN cases, ProcessCase(c) PROVE IInv'
<1>1. c \in 1..Len(cases) /\ cases[c] \in Case
  BY LenProperties, ElementOfSeq DEF IInv, TypeOK
<1>2. failures \in BOOLEAN /\ TRUE \in BOOLEAN
  BY DEF IInv, TypeOK
<1>3. CASE Begin(c)
  <2> DEFINE new == [cases[c] EXCEPT !.step = "task", !.span = <<"log">>]
  <2>0. <<"log">> \in Seq({"log", "end"})
    OBVIOUS
  <2>1. new \in Case /\ new.step = "task"
    BY <1>1, <2>0 DEF Case
  <2>2. Becomes(c, new) /\ cases[c].step = "pushed"
    BY <1>3 DEF Begin, Polled
  <2>3. pc \in {"drain", "collect"} /\ UNCHANGED <<runner, run, failures>>
    BY <1>3 DEF Begin, Polled
  <2> QED
    BY <1>1, <2>1, <2>2, <2>3, CaseGoesOn
<1>4. CASE TaskFails(c)
  <2> DEFINE new == [cases[c] EXCEPT !.step = "taken", !.span = @ \o <<"log", "end">>]
  <2>0. cases[c].span \o <<"log", "end">> \in Seq({"log", "end"})
    <3>1. <<"log", "end">> \in Seq({"log", "end"})
      OBVIOUS
    <3>2. cases[c].span \in Seq({"log", "end"})
      BY <1>1 DEF Case
    <3> QED
      BY <3>1, <3>2, ConcatProperties
  <2>1. new \in Case /\ new.step = "taken"
    BY <1>1, <2>0 DEF Case
  <2>2. Becomes(c, new) /\ cases[c].step = "task"
    BY <1>4 DEF TaskFails, Polled
  <2>3. pc \in {"drain", "collect"} /\ Take(c, TRUE)
    BY <1>4 DEF TaskFails, Polled
  <2>4. failures' \in BOOLEAN
    BY <1>4 DEF TaskFails
  <2>5. TRUE \in BOOLEAN
    OBVIOUS
  <2> QED
    BY <1>1, <1>2, <2>1, <2>2, <2>3, <2>4, <2>5, CaseTaken
<1>5. CASE TaskSucceeds(c)
  <2> DEFINE new == [cases[c] EXCEPT !.step = "score", !.scoring = Scorers,
                                     !.span = Append(@, "log")]
  <2>1. Becomes(c, new)
    BY <1>5 DEF TaskSucceeds
  <2>0. Append(cases[c].span, "log") \in Seq({"log", "end"})
    <3>1. cases[c].span \in Seq({"log", "end"})
      BY <1>1 DEF Case
    <3> QED
      BY <3>1, AppendProperties
  <2>2. new \in Case /\ new.step = "score"
    BY <1>1, <2>0 DEF Case
  <2>3. cases[c].step = "task" /\ pc \in {"drain", "collect"}
    BY <1>5 DEF TaskSucceeds, Polled
  <2>4. UNCHANGED <<runner, run, failures>>
    BY <1>5 DEF TaskSucceeds
  <2> QED
    BY <1>1, <2>1, <2>2, <2>3, <2>4, CaseGoesOn
<1>6. ASSUME NEW s \in Scorers, ScorerEnds(c, s) PROVE IInv'
  <2>1. PICK scores \in SUBSET {s} :
          Becomes(c, [cases[c] EXCEPT !.scoring = @ \ {s}, !.scores = @ \cup scores])
    BY <1>6 DEF ScorerEnds
  <2> DEFINE new == [cases[c] EXCEPT !.scoring = @ \ {s}, !.scores = @ \cup scores]
  <2>2. cases[c].step = "score" /\ pc \in {"drain", "collect"}
    BY <1>6 DEF ScorerEnds, Polled
  <2>3. new \in Case /\ new.step = "score"
    BY <1>1, <2>2 DEF Case
  <2>4. UNCHANGED <<runner, run, failures>>
    BY <1>6 DEF ScorerEnds
  <2> QED
    BY <1>1, <2>1, <2>2, <2>3, <2>4, CaseGoesOn
<1>7. CASE Finish(c)
  <2> DEFINE new == [cases[c] EXCEPT !.step = "taken", !.span = @ \o <<"log", "end">>]
  <2>0. cases[c].span \o <<"log", "end">> \in Seq({"log", "end"})
    <3>1. <<"log", "end">> \in Seq({"log", "end"})
      OBVIOUS
    <3>2. cases[c].span \in Seq({"log", "end"})
      BY <1>1 DEF Case
    <3> QED
      BY <3>1, <3>2, ConcatProperties
  <2>1. new \in Case /\ new.step = "taken"
    BY <1>1, <2>0 DEF Case
  <2>2. Becomes(c, new) /\ cases[c].step = "score"
    BY <1>7 DEF Finish, Polled
  <2>3. pc \in {"drain", "collect"} /\ Take(c, FALSE)
    BY <1>7 DEF Finish, Polled
  <2>4. failures' \in BOOLEAN
    BY <1>2, <1>7 DEF Finish
  <2>5. FALSE \in BOOLEAN
    OBVIOUS
  <2> QED
    BY <1>1, <2>1, <2>2, <2>3, <2>4, <2>5, CaseTaken
<1> QED
  BY <1>3, <1>4, <1>5, <1>6, <1>7 DEF ProcessCase

(* Every step keeps the invariant. *)
LEMMA StepIInv == IInv /\ [Next]_vars => IInv'
<1> SUFFICES ASSUME IInv, [Next]_vars PROVE IInv'
  OBVIOUS
<1>1. CASE UNCHANGED vars
  <2>1. UNCHANGED <<cases, permits, results, calls, all_passed, failures, returned, root, pc>>
    BY <1>1 DEF vars, runner, run
  <2>2. Inflight' = Inflight
    BY <2>1 DEF Inflight
  <2>3. TypeOK'
    BY <2>1 DEF IInv, TypeOK
  <2>4. PermitsHeld' /\ RoomToFetch' /\ FetchedLast'
    BY <2>1, <2>2 DEF IInv, PermitsHeld, RoomToFetch, FetchedLast
  <2> QED
    BY <2>3, <2>4 DEF IInv
<1>2. CASE EvalCall
  BY <1>2, EvalCallStep
<1>3. CASE Run
  BY <1>3, BuildRootStep, FetchStep, AcquireStep, DrainedStep, EndRootStep, ReportStep DEF Run
<1>4. ASSUME NEW c \in DOMAIN cases, ProcessCase(c) PROVE IInv'
  BY <1>4, ProcessCaseStep
<1> QED
  BY <1>1, <1>2, <1>3, <1>4 DEF Next

(* The semaphore never has more permits than max_concurrency nor fewer     *)
(* than none, and the results are those of cases of the dataset.           *)
THEOREM TypeCorrect == Spec => []TypeOK
<1>1. IInv => TypeOK
  BY DEF IInv
<1> QED
  BY <1>1, InitIInv, StepIInv, PTL DEF Spec

(* `acquire_owned` in run never has to wait: the cases that hold permits   *)
(* are polled by nobody meanwhile, and would never return one.             *)
THEOREM PermitReady == Spec => []PermitAtHand
<1>1. IInv => PermitAtHand
  <2> SUFFICES ASSUME IInv PROVE PermitAtHand
    OBVIOUS
  <2>1. Cardinality(Inflight) \in Nat /\ permits \in Nat
    BY InflightFinite DEF IInv, TypeOK
  <2> QED
    BY <2>1, EvalAssumption
    DEF IInv, PermitsHeld, RoomToFetch, PermitAtHand, EvalAssumption
<1> QED
  BY <1>1, InitIInv, StepIInv, PTL DEF Spec

-----------------------------------------------------------------------------
(* What the summary is made of.                                            *)

LogsOnly(span) == \A i \in DOMAIN span : span[i] = "log"
EndsOnce(span) ==
  /\ Len(span) \in Nat \ {0} /\ DOMAIN span = 1..Len(span)
  /\ \A i \in DOMAIN span : span[i] = "end" <=> i = Len(span)

(* A span has its logs and then, once the case is taken, its end; scores   *)
(* are those of a task that succeeded.                                     *)
Shape(case) ==
  /\ IF case.step = "taken" THEN EndsOnce(case.span) ELSE LogsOnly(case.span)
  /\ case.step \notin {"score", "taken"} => case.scores = {}

Shapes == \A c \in DOMAIN cases : Shape(cases[c])

(* Results are those of the cases that were taken, one of each. *)
OfTaken(n) ==
  /\ results[n].case \in DOMAIN cases /\ cases[results[n].case].step = "taken"
  /\ results[n].scores = cases[results[n].case].scores
  /\ results[n].error => results[n].scores = {}

Collected ==
  /\ \A n \in DOMAIN results : OfTaken(n)
  /\ \A m, n \in DOMAIN results : results[m].case = results[n].case => m = n
  /\ \A c \in DOMAIN cases : cases[c].step = "taken" => \E n \in DOMAIN results : results[n].case = c

(* No case waits when run collects, and none is left when the root ends. *)
AllTaken ==
  /\ \A c \in DOMAIN cases : cases[c].step = "fetched" => pc = "acquire" /\ c = Len(cases)
  /\ root = "ended" => pc \in {"summary", "idle"} /\ \A c \in DOMAIN cases : cases[c].step = "taken"

(* A failure is one of an evaluation before this one, or of this one. *)
Failed == \E n \in DOMAIN results : results[n].error
Remembered ==
  failures <=> \/ ~all_passed
               \/ pc = "error"
               \/ pc # "idle" /\ Failed

SummaryInv == Shapes /\ Collected /\ AllTaken /\ Remembered

Indexed == DOMAIN cases = 1..Len(cases) /\ Len(cases) \in Nat
           /\ DOMAIN results = 1..Len(results) /\ Len(results) \in Nat
LEMMA SequencesIndexed == TypeOK => Indexed
<1> SUFFICES ASSUME TypeOK PROVE Indexed
  OBVIOUS
<1>1. cases \in Seq(Case) /\ results \in Seq(EvalResult)
  BY DEF TypeOK
<1> QED
  BY <1>1, LenProperties DEF Indexed

LEMMA LogAdded ==
  ASSUME NEW span \in Seq({"log", "end"}), LogsOnly(span)
  PROVE  Append(span, "log") \in Seq({"log", "end"}) /\ LogsOnly(Append(span, "log"))
<1> DEFINE new == Append(span, "log")
<1>1. /\ new \in Seq({"log", "end"}) /\ Len(new) = Len(span) + 1
      /\ \A i \in 1..Len(span) : new[i] = span[i]
      /\ new[Len(span) + 1] = "log"
  BY AppendProperties
<1>2. DOMAIN new = 1..(Len(span) + 1) /\ DOMAIN span = 1..Len(span) /\ Len(span) \in Nat
  BY <1>1, LenProperties
<1> HIDE DEF new
<1>3. LogsOnly(new)
  BY <1>1, <1>2 DEF LogsOnly
<1> QED
  BY <1>1, <1>3 DEF new

LEMMA EndAdded ==
  ASSUME NEW span \in Seq({"log", "end"}), LogsOnly(span)
  PROVE  span \o <<"log", "end">> \in Seq({"log", "end"}) /\ EndsOnce(span \o <<"log", "end">>)
<1> DEFINE end == <<"log", "end">>
           new == span \o end
<1>1. end \in Seq({"log", "end"}) /\ Len(end) = 2 /\ end[1] = "log" /\ end[2] = "end"
  OBVIOUS
<1> HIDE DEF end
<1>2. /\ new \in Seq({"log", "end"}) /\ Len(new) = Len(span) + 2
      /\ \A i \in 1..(Len(span) + 2) :
           new[i] = IF i <= Len(span) THEN span[i] ELSE end[i - Len(span)]
  <2>1. /\ new \in Seq({"log", "end"}) /\ Len(new) = Len(span) + Len(end)
        /\ \A i \in 1..(Len(span) + Len(end)) :
             new[i] = IF i <= Len(span) THEN span[i] ELSE end[i - Len(span)]
    BY <1>1, ConcatProperties
  <2> QED
    BY <1>1, <2>1
<1>3. DOMAIN new = 1..(Len(span) + 2) /\ DOMAIN span = 1..Len(span) /\ Len(span) \in Nat
  BY <1>2, LenProperties
<1> HIDE DEF new
<1>4. ASSUME NEW i \in DOMAIN new PROVE new[i] = "end" <=> i = Len(new)
  <2>1. CASE i <= Len(span)
    BY <1>2, <1>3, <2>1 DEF LogsOnly
  <2>2. CASE i = Len(span) + 1
    <3>1. new[i] = end[1]
      BY <1>2, <1>3, <2>2
    <3> QED
      BY <1>1, <1>2, <1>3, <2>2, <3>1
  <2>3. CASE i = Len(span) + 2
    <3>1. new[i] = end[2]
      BY <1>2, <1>3, <2>3
    <3> QED
      BY <1>1, <1>2, <1>3, <2>3, <3>1
  <2> QED
    BY <1>3, <2>1, <2>2, <2>3
<1>5. EndsOnce(new)
  BY <1>2, <1>3, <1>4 DEF EndsOnce
<1> QED
  BY <1>2, <1>5 DEF new, end

(* A case goes on before it is taken. *)
LEMMA GoesOnSummary ==
  ASSUME TypeOK, SummaryInv, NEW c \in 1..Len(cases), NEW new \in Case, Becomes(c, new),
         cases[c].step \notin {"fetched", "taken"}, new.step \notin {"fetched", "taken"},
         Shape(new), pc \in {"drain", "collect"}, UNCHANGED <<runner, run, failures>>
  PROVE  SummaryInv'
<1>1. /\ cases' \in Seq(Case) /\ Len(cases') = Len(cases)
      /\ \A d \in 1..Len(cases) : cases'[d] = IF d = c THEN new ELSE cases[d]
  BY CaseChanges DEF TypeOK
<1>2. DOMAIN cases = 1..Len(cases) /\ DOMAIN cases' = 1..Len(cases)
  BY <1>1, LenProperties DEF TypeOK
<1>3. UNCHANGED <<all_passed, pc, root, results, failures>>
  BY DEF runner, run
<1>4. Shapes'
  BY <1>1, <1>2 DEF SummaryInv, Shapes
<1>5. Collected'
  <2>1. \A d \in DOMAIN cases : /\ cases'[d].step = "taken" <=> cases[d].step = "taken"
                                /\ cases[d].step = "taken" => cases'[d] = cases[d]
    BY <1>1, <1>2
  <2> QED
    BY <1>2, <1>3, <2>1 DEF SummaryInv, Collected, OfTaken
<1>6. AllTaken'
  BY <1>1, <1>2, <1>3 DEF SummaryInv, AllTaken
<1>7. Remembered'
  BY <1>3 DEF SummaryInv, Remembered, Failed
<1> QED
  BY <1>4, <1>5, <1>6, <1>7 DEF SummaryInv

(* A case that is done adds its result to the others. *)
LEMMA TakenSummary ==
  ASSUME TypeOK, SummaryInv, NEW c \in 1..Len(cases), NEW new \in Case, Becomes(c, new),
         cases[c].step \notin {"fetched", "taken"}, new.step = "taken",
         new.scores = cases[c].scores, Shape(new), pc \in {"drain", "collect"},
         NEW error \in BOOLEAN, error => cases[c].scores = {},
         failures' <=> failures \/ error,
         Take(c, error)
  PROVE  SummaryInv'
<1>1. /\ cases' \in Seq(Case) /\ Len(cases') = Len(cases)
      /\ \A d \in 1..Len(cases) : cases'[d] = IF d = c THEN new ELSE cases[d]
  BY CaseChanges DEF TypeOK
<1>2. DOMAIN cases = 1..Len(cases) /\ DOMAIN cases' = 1..Len(cases)
  BY <1>1, LenProperties DEF TypeOK
<1>3. UNCHANGED <<all_passed, pc, root>>
  BY DEF Take, runner
<1>4. Shapes'
  BY <1>1, <1>2 DEF SummaryInv, Shapes
<1> DEFINE r == [case |-> c, error |-> error, scores |-> cases[c].scores]
<1>5. r \in EvalResult
  <2>1. cases[c] \in Case
    BY ElementOfSeq DEF TypeOK
  <2>2. c \in 1..MaxCases
    BY LenProperties, EvalAssumption DEF EvalAssumption, TypeOK
  <2> QED
    BY <2>1, <2>2 DEF Case, EvalResult
<1>6. /\ results' = Append(results, r) /\ results' \in Seq(EvalResult)
      /\ Len(results') = Len(results) + 1
      /\ \A n \in 1..Len(results) : results'[n] = results[n]
      /\ results'[Len(results) + 1] = r
  BY <1>5, AppendProperties DEF Take, TypeOK
<1>7. /\ DOMAIN results = 1..Len(results) /\ DOMAIN results' = 1..(Len(results) + 1)
      /\ Len(results) \in Nat
  BY <1>6, LenProperties DEF TypeOK
<1>8. r.case = c /\ r.error = error /\ r.scores = cases[c].scores
  OBVIOUS
<1> HIDE DEF r
<1>9. PICK last : last = Len(results) + 1
  OBVIOUS
<1>10. DOMAIN results' = DOMAIN results \cup {last} /\ last \notin DOMAIN results
      /\ results'[last] = r /\ \A n \in DOMAIN results : results'[n] = results[n]
  BY <1>6, <1>7, <1>9
<1>11. \A n \in DOMAIN results : results[n].case # c
  BY DEF SummaryInv, Collected, OfTaken
<1>12. Collected'
  <2>1. ASSUME NEW n \in DOMAIN results PROVE OfTaken(n)'
    <3>1. OfTaken(n) /\ results[n].case # c /\ results'[n] = results[n]
      BY <1>10, <1>11 DEF SummaryInv, Collected
    <3> QED
      BY <1>1, <1>2, <3>1 DEF OfTaken
  <2>2. OfTaken(last)'
    <3>1. cases'[c] = new /\ c \in DOMAIN cases'
      BY <1>1, <1>2
    <3>2. results'[last].case = c /\ results'[last].error = error
          /\ results'[last].scores = cases[c].scores
      BY <1>8, <1>10
    <3>3. error => cases'[c].scores = cases[c].scores /\ cases[c].scores = {}
      BY <3>1
    <3>4. error => results'[last].scores = {}
      BY <3>2, <3>3
    <3>5. results'[last].error => results'[last].scores = {}
      BY <3>2, <3>4, Zenon
    <3> QED
      BY <3>1, <3>2, <3>5 DEF OfTaken
  <2>3. \A m, n \in DOMAIN results' : results'[m].case = results'[n].case => m = n
    <3> SUFFICES ASSUME NEW m \in DOMAIN results', NEW n \in DOMAIN results',
                        results'[m].case = results'[n].case
                 PROVE  m = n
      OBVIOUS
    <3>1. CASE m \in DOMAIN results /\ n \in DOMAIN results
      BY <1>10, <3>1 DEF SummaryInv, Collected
    <3>2. CASE m = last \/ n = last
      BY <1>8, <1>10, <1>11, <3>2
    <3> QED
      BY <1>10, <3>1, <3>2
  <2>4. ASSUME NEW d \in DOMAIN cases', cases'[d].step = "taken"
        PROVE  \E n \in DOMAIN results' : results'[n].case = d
    <3>1. CASE d = c
      BY <1>8, <1>10, <3>1
    <3>2. CASE d # c
      <4>1. PICK n \in DOMAIN results : results[n].case = d
        BY <1>1, <1>2, <2>4, <3>2 DEF SummaryInv, Collected
      <4> QED
        BY <1>10, <4>1
    <3> QED
      BY <3>1, <3>2
  <2>5. ASSUME NEW n \in DOMAIN results' PROVE OfTaken(n)'
    BY <1>10, <2>1, <2>2, Zenon
  <2> QED
    BY <2>3, <2>4, <2>5 DEF Collected
<1>13. AllTaken'
  BY <1>1, <1>2, <1>3 DEF SummaryInv, AllTaken
<1>14. Remembered'
  <2>1. Failed' <=> Failed \/ error
    BY <1>8, <1>10 DEF Failed
  <2> QED
    BY <1>3, <2>1 DEF SummaryInv, Remembered
<1> QED
  BY <1>4, <1>12, <1>13, <1>14 DEF SummaryInv

LEMMA ProcessCaseSummary ==
  ASSUME TypeOK, SummaryInv, NEW c \in DOMAIN cases, ProcessCase(c) PROVE SummaryInv'
<1>1. c \in 1..Len(cases) /\ cases[c] \in Case /\ Shape(cases[c])
  BY LenProperties, ElementOfSeq DEF TypeOK, SummaryInv, Shapes
<1>2. failures \in BOOLEAN /\ cases[c].span \in Seq({"log", "end"})
  BY <1>1 DEF TypeOK, Case
<1> DEFINE ended == cases[c].span \o <<"log", "end">>
<1>3. cases[c].step # "taken" => ended \in Seq({"log", "end"}) /\ EndsOnce(ended)
  BY <1>1, <1>2, EndAdded DEF Shape
<1> HIDE DEF ended
<1>4. CASE Begin(c)
  <2> DEFINE span == <<"log">>
             new  == [cases[c] EXCEPT !.step = "task", !.span = span]
  <2>1. Becomes(c, new) /\ cases[c].step = "pushed" /\ pc \in {"drain", "collect"}
        /\ UNCHANGED <<runner, run, failures>>
    BY <1>4 DEF Begin, Polled
  <2>2. span \in Seq({"log", "end"}) /\ LogsOnly(span)
    BY DEF LogsOnly
  <2> HIDE DEF span
  <2>3. new \in Case /\ new.step = "task" /\ new.span = span /\ new.scores = cases[c].scores
    BY <1>1, <2>2 DEF Case
  <2> HIDE DEF new
  <2>4. Shape(new)
    BY <1>1, <2>1, <2>2, <2>3 DEF Shape
  <2> QED
    BY <1>1, <2>1, <2>3, <2>4, GoesOnSummary
<1>5. CASE TaskFails(c) \/ Finish(c)
  <2> DEFINE new == [cases[c] EXCEPT !.step = "taken", !.span = ended]
  <2>1. PICK error \in BOOLEAN :
          /\ Take(c, error) /\ failures' = (failures \/ error)
          /\ IF error THEN cases[c].step = "task" ELSE cases[c].step = "score"
    BY <1>2, <1>5 DEF TaskFails, Finish, Polled
  <2>2. Becomes(c, new) /\ cases[c].step \in {"task", "score"} /\ pc \in {"drain", "collect"}
    BY <1>5 DEF TaskFails, Finish, Polled, ended
  <2>3. /\ new \in Case /\ new.step = "taken" /\ new.span = ended
        /\ new.scores = cases[c].scores
    BY <1>1, <1>3, <2>2 DEF Case
  <2> HIDE DEF new
  <2>4. Shape(new)
    BY <1>3, <2>2, <2>3 DEF Shape
  <2>5. error => cases[c].scores = {}
    BY <1>1, <2>1 DEF Shape
  <2>6. failures' <=> failures \/ error
    BY <2>1, Zenon
  <2>7. cases[c].step \notin {"fetched", "taken"}
    BY <2>2
  <2> QED
    BY <1>1, <2>1, <2>2, <2>3, <2>4, <2>5, <2>6, <2>7, TakenSummary
<1>6. CASE TaskSucceeds(c)
  <2> DEFINE span == Append(cases[c].span, "log")
             new  == [cases[c] EXCEPT !.step = "score", !.scoring = Scorers, !.span = span]
  <2>1. Becomes(c, new) /\ cases[c].step = "task" /\ pc \in {"drain", "collect"}
        /\ UNCHANGED <<runner, run, failures>>
    BY <1>6 DEF TaskSucceeds, Polled
  <2>2. LogsOnly(cases[c].span)
    BY <1>1, <2>1 DEF Shape
  <2>3. span \in Seq({"log", "end"}) /\ LogsOnly(span)
    BY <1>2, <2>2, LogAdded
  <2> HIDE DEF span
  <2>4. new \in Case /\ new.step = "score" /\ new.span = span
    BY <1>1, <2>3 DEF Case
  <2> HIDE DEF new
  <2>5. Shape(new)
    BY <2>3, <2>4 DEF Shape
  <2> QED
    BY <1>1, <2>1, <2>4, <2>5, GoesOnSummary
<1>7. ASSUME NEW s \in Scorers, ScorerEnds(c, s) PROVE SummaryInv'
  <2>1. PICK scores \in SUBSET {s} :
          Becomes(c, [cases[c] EXCEPT !.scoring = @ \ {s}, !.scores = @ \cup scores])
    BY <1>7 DEF ScorerEnds
  <2> DEFINE new == [cases[c] EXCEPT !.scoring = @ \ {s}, !.scores = @ \cup scores]
  <2>2. cases[c].step = "score" /\ pc \in {"drain", "collect"} /\ UNCHANGED <<runner, run, failures>>
    BY <1>7 DEF ScorerEnds, Polled
  <2>3. new \in Case /\ new.step = "score" /\ new.span = cases[c].span
    BY <1>1, <2>2 DEF Case
  <2>4. Becomes(c, new)
    BY <2>1
  <2> HIDE DEF new
  <2>5. Shape(new)
    BY <1>1, <2>2, <2>3 DEF Shape
  <2> QED
    BY <1>1, <2>2, <2>3, <2>4, <2>5, GoesOnSummary
<1> QED
  BY <1>4, <1>5, <1>6, <1>7 DEF ProcessCase

(* Steps that leave the cases and the results alone. *)
LEMMA SameCases ==
  ASSUME SummaryInv, UNCHANGED <<cases, results>>
  PROVE  Shapes' /\ Collected' /\ (Failed' <=> Failed)
BY DEF SummaryInv, Shapes, Collected, OfTaken, Failed

LEMMA FirstNumbers ==
  ASSUME NEW n \in Nat
  PROVE  IsFiniteSet(1..n) /\ Cardinality(1..n) = n
<1>1. IsFiniteSet(1..n) /\ Cardinality(1..n) = IF 1 > n THEN 0 ELSE n - 1 + 1
  BY FS_Interval
<1> QED
  BY <1>1

(* The successful results and the failed ones are all the results. *)
LEMMA SuccessfulAre ==
  ASSUME TypeOK
  PROVE  /\ IsFiniteSet(Successful) /\ Cardinality(Successful) \in Nat
         /\ Summary.failed_cases > 0 <=> Failed
<1>1. DOMAIN results = 1..Len(results) /\ Len(results) \in Nat
  BY SequencesIndexed DEF Indexed
<1>2. IsFiniteSet(DOMAIN results) /\ Cardinality(DOMAIN results) = Len(results)
  BY <1>1, FirstNumbers
<1>3. Successful \in SUBSET DOMAIN results
  BY DEF Successful
<1>4. /\ IsFiniteSet(Successful) /\ Cardinality(Successful) <= Len(results)
      /\ Len(results) = Cardinality(Successful) => Successful = DOMAIN results
  BY <1>2, <1>3, FS_Subset
<1>5. Cardinality(Successful) \in Nat
  BY <1>4, FS_CardinalityType
<1>6. Summary.failed_cases = Len(results) - Cardinality(Successful)
  BY DEF Summary
<1>7. Failed <=> Successful # DOMAIN results
  BY DEF Failed, Successful
<1> QED
  BY <1>1, <1>2, <1>4, <1>5, <1>6, <1>7

LEMMA EvalCallSummary == TypeOK /\ SummaryInv /\ EvalCall => SummaryInv'
<1> SUFFICES ASSUME TypeOK, SummaryInv, EvalCall PROVE SummaryInv'
  OBVIOUS
<1>1. /\ cases' = <<>> /\ results' = <<>> /\ root' = "none" /\ pc' \in {"idle", "root"}
      /\ pc = "idle" /\ UNCHANGED <<all_passed, failures>>
  BY DEF EvalCall
<1>2. DOMAIN cases' = {} /\ DOMAIN results' = {}
  BY <1>1
<1>3. Shapes' /\ Collected' /\ AllTaken'
  BY <1>1, <1>2 DEF Shapes, Collected, AllTaken
<1>4. Remembered'
  BY <1>1, <1>2 DEF SummaryInv, Remembered, Failed
<1> QED
  BY <1>3, <1>4 DEF SummaryInv

LEMMA BuildRootSummary == TypeOK /\ SummaryInv /\ BuildRoot => SummaryInv'
<1> SUFFICES ASSUME TypeOK, SummaryInv, BuildRoot PROVE SummaryInv'
  OBVIOUS
<1>1. /\ pc = "root" /\ UNCHANGED <<cases, results, all_passed>>
      /\ \/ pc' = "fetch" /\ root' = "open" /\ failures' = failures
         \/ pc' = "error" /\ root' = "none" /\ failures' = TRUE
  BY DEF BuildRoot, runner
<1>2. Shapes' /\ Collected' /\ (Failed' <=> Failed)
  BY <1>1, SameCases
<1>3. AllTaken' /\ Remembered'
  BY <1>1, <1>2 DEF SummaryInv, AllTaken, Remembered
<1> QED
  BY <1>2, <1>3 DEF SummaryInv

LEMMA FetchSummary == TypeOK /\ SummaryInv /\ Fetch => SummaryInv'
<1> SUFFICES ASSUME TypeOK, SummaryInv, Fetch PROVE SummaryInv'
  OBVIOUS
<1>1. pc = "fetch" /\ UNCHANGED <<results, all_passed, root, failures>>
  BY DEF Fetch, runner
<1>2. CASE cases' = cases /\ pc' = "collect"
  <2>1. Shapes' /\ Collected' /\ (Failed' <=> Failed)
    BY <1>1, <1>2, SameCases
  <2>2. AllTaken' /\ Remembered'
    BY <1>1, <1>2, <2>1 DEF SummaryInv, AllTaken, Remembered
  <2> QED
    BY <2>1, <2>2 DEF SummaryInv
<1>3. ASSUME cases' = Append(cases, [step |-> "fetched", scoring |-> {}, scores |-> {},
                                     span |-> <<>>]),
             pc' = "acquire"
      PROVE  SummaryInv'
  <2> DEFINE new == [step |-> "fetched", scoring |-> {}, scores |-> {}, span |-> <<>>]
  <2>1. new \in Case
    BY DEF Case
  <2>2. /\ cases' \in Seq(Case) /\ Len(cases') = Len(cases) + 1
        /\ \A d \in 1..Len(cases) : cases'[d] = cases[d]
        /\ cases'[Len(cases) + 1] = new
    BY <1>3, <2>1, AppendProperties DEF TypeOK
  <2>3. DOMAIN cases = 1..Len(cases) /\ DOMAIN cases' = 1..(Len(cases) + 1) /\ Len(cases) \in Nat
    BY <2>2, LenProperties DEF TypeOK
  <2>4. new.step = "fetched" /\ Shape(new)
    BY DEF Shape, LogsOnly
  <2> HIDE DEF new
  <2>5. /\ \A d \in DOMAIN cases' : d \in DOMAIN cases \/ (d = Len(cases') /\ cases'[d] = new)
        /\ \A d \in DOMAIN cases : d \in DOMAIN cases' /\ cases'[d] = cases[d]
    BY <2>2, <2>3
  <2>6. Shapes'
    BY <2>4, <2>5 DEF SummaryInv, Shapes
  <2>7. Collected'
    <3>1. \A n \in DOMAIN results : OfTaken(n)'
      BY <1>1, <2>5 DEF SummaryInv, Collected, OfTaken
    <3>2. \A d \in DOMAIN cases' : cases'[d].step = "taken" =>
            \E n \in DOMAIN results : results[n].case = d
      BY <2>4, <2>5 DEF SummaryInv, Collected
    <3> QED
      BY <1>1, <3>1, <3>2 DEF SummaryInv, Collected
  <2>8. AllTaken'
    BY <1>1, <1>3, <2>5 DEF SummaryInv, AllTaken
  <2>9. Remembered'
    BY <1>1, <1>3 DEF SummaryInv, Remembered, Failed
  <2> QED
    BY <2>6, <2>7, <2>8, <2>9 DEF SummaryInv
<1> QED
  BY <1>2, <1>3 DEF Fetch

LEMMA AcquireSummary == IInv /\ SummaryInv /\ Acquire => SummaryInv'
<1> SUFFICES ASSUME IInv, SummaryInv, Acquire PROVE SummaryInv'
  OBVIOUS
<1> DEFINE new == [cases[Len(cases)] EXCEPT !.step = "pushed"]
<1>1. pc = "acquire" /\ pc' = "drain" /\ UNCHANGED <<results, all_passed, root, failures>>
  BY DEF Acquire, runner
<1>2. Len(cases) \in 1..Len(cases) /\ cases[Len(cases)].step = "fetched"
  <2>1. cases # <<>> /\ cases[Len(cases)].step = "fetched" /\ cases \in Seq(Case)
    BY DEF Acquire, IInv, FetchedLast, TypeOK
  <2> QED
    BY <2>1, EmptySeq, LenProperties
<1>3. cases[Len(cases)] \in Case
  BY <1>2, ElementOfSeq DEF IInv, TypeOK
<1>4. /\ new \in Case /\ new.step = "pushed" /\ new.span = cases[Len(cases)].span
      /\ new.scores = cases[Len(cases)].scores
  BY <1>3 DEF Case
<1>5. Becomes(Len(cases), new)
  BY DEF Acquire, Becomes
<1> HIDE DEF new
<1>6. /\ cases' \in Seq(Case) /\ Len(cases') = Len(cases)
      /\ \A d \in 1..Len(cases) : cases'[d] = IF d = Len(cases) THEN new ELSE cases[d]
  BY <1>2, <1>4, <1>5, CaseChanges DEF IInv, TypeOK
<1>7. DOMAIN cases = 1..Len(cases) /\ DOMAIN cases' = 1..Len(cases)
  BY <1>6, LenProperties DEF IInv, TypeOK
<1>8. Shape(cases[Len(cases)])
  BY <1>2, <1>7 DEF SummaryInv, Shapes
<1>9. Shape(new)
  BY <1>2, <1>4, <1>8 DEF Shape
<1>10. Shapes'
  BY <1>6, <1>7, <1>9 DEF SummaryInv, Shapes
<1>11. Collected'
  <2>1. \A d \in DOMAIN cases : /\ cases'[d].step = "taken" <=> cases[d].step = "taken"
                                /\ cases[d].step = "taken" => cases'[d] = cases[d]
    BY <1>2, <1>4, <1>6, <1>7
  <2>2. results' = results /\ DOMAIN cases' = DOMAIN cases
    BY <1>1, <1>6, <1>7
  <2>3. Collected
    BY DEF SummaryInv
  <2>4. \A n \in DOMAIN results : OfTaken(n)'
    <3>1. \A n \in DOMAIN results : OfTaken(n)
      BY <2>3 DEF Collected
    <3> QED
      BY <2>1, <2>2, <3>1 DEF OfTaken
  <2>5. \A m, n \in DOMAIN results' : results'[m].case = results'[n].case => m = n
    BY <2>2, <2>3 DEF Collected
  <2>6. \A c \in DOMAIN cases' : cases'[c].step = "taken" => \E n \in DOMAIN results' : results'[n].case = c
    BY <2>1, <2>2, <2>3 DEF Collected
  <2> QED
    BY <2>2, <2>4, <2>5, <2>6 DEF Collected
<1>12. AllTaken'
  BY <1>1, <1>2, <1>4, <1>6, <1>7 DEF SummaryInv, AllTaken
<1>13. Remembered'
  BY <1>1 DEF SummaryInv, Remembered, Failed
<1> QED
  BY <1>10, <1>11, <1>12, <1>13 DEF SummaryInv

LEMMA DrainedSummary == TypeOK /\ SummaryInv /\ Drained => SummaryInv'
<1> SUFFICES ASSUME TypeOK, SummaryInv, Drained PROVE SummaryInv'
  OBVIOUS
<1>1. pc = "drain" /\ pc' = "fetch" /\ UNCHANGED <<cases, results, all_passed, root, failures>>
  BY DEF Drained, runner
<1>2. Shapes' /\ Collected' /\ (Failed' <=> Failed)
  BY <1>1, SameCases
<1>3. AllTaken' /\ Remembered'
  BY <1>1, <1>2 DEF SummaryInv, AllTaken, Remembered
<1> QED
  BY <1>2, <1>3 DEF SummaryInv

(* No case is in flight, and none waits for a permit. *)
LEMMA EndRootSummary == TypeOK /\ SummaryInv /\ EndRoot => SummaryInv'
<1> SUFFICES ASSUME TypeOK, SummaryInv, EndRoot PROVE SummaryInv'
  OBVIOUS
<1>1. /\ pc = "collect" /\ Inflight = {} /\ pc' = "summary"
      /\ UNCHANGED <<cases, results, all_passed, failures>>
  BY DEF EndRoot, runner
<1>2. Shapes' /\ Collected' /\ (Failed' <=> Failed)
  BY <1>1, SameCases
<1>3. \A c \in DOMAIN cases : cases[c].step = "taken"
  BY <1>1 DEF SummaryInv, AllTaken, Inflight
<1>4. AllTaken' /\ Remembered'
  BY <1>1, <1>2, <1>3 DEF SummaryInv, AllTaken, Remembered
<1> QED
  BY <1>2, <1>4 DEF SummaryInv

LEMMA ReportSummary == TypeOK /\ SummaryInv /\ Report => SummaryInv'
<1> SUFFICES ASSUME TypeOK, SummaryInv, Report PROVE SummaryInv'
  OBVIOUS
<1>1. /\ pc \in {"summary", "error"} /\ pc' = "idle"
      /\ UNCHANGED <<cases, results, root, failures>>
  BY DEF Report
<1>2. Shapes' /\ Collected' /\ (Failed' <=> Failed)
  BY <1>1, SameCases
<1>3. AllTaken'
  BY <1>1 DEF SummaryInv, AllTaken
<1>4. Remembered'
  <2>1. all_passed' = (all_passed /\ ~ (pc = "error" \/ Summary.failed_cases > 0))
    BY DEF Report
  <2>2. Summary.failed_cases > 0 <=> Failed
    BY SuccessfulAre
  <2>3. all_passed' <=> all_passed /\ pc # "error" /\ ~ Failed
    BY <2>1, <2>2, Zenon
  <2> QED
    BY <1>1, <2>3 DEF SummaryInv, Remembered
<1> QED
  BY <1>2, <1>3, <1>4 DEF SummaryInv

LEMMA SummaryInit == Init => SummaryInv
<1> SUFFICES ASSUME Init PROVE SummaryInv
  OBVIOUS
<1>1. /\ cases = <<>> /\ results = <<>> /\ root = "none" /\ pc = "idle"
      /\ all_passed = TRUE /\ failures = FALSE
  BY DEF Init
<1>2. DOMAIN cases = {} /\ DOMAIN results = {}
  BY <1>1
<1>3. Shapes /\ Collected /\ AllTaken
  BY <1>1, <1>2 DEF Shapes, Collected, AllTaken
<1>4. Remembered
  BY <1>1 DEF Remembered
<1> QED
  BY <1>3, <1>4 DEF SummaryInv

LEMMA SummaryNext == IInv /\ SummaryInv /\ [Next]_vars => SummaryInv'
<1> SUFFICES ASSUME IInv, SummaryInv, [Next]_vars PROVE SummaryInv'
  OBVIOUS
<1>1. TypeOK
  BY DEF IInv
<1>2. CASE UNCHANGED vars
  <2>1. UNCHANGED <<cases, results, all_passed, failures, root, pc>>
    BY <1>2 DEF vars, runner, run
  <2>2. Shapes' /\ Collected' /\ (Failed' <=> Failed)
    BY <2>1, SameCases
  <2>3. AllTaken' /\ Remembered'
    BY <2>1, <2>2 DEF SummaryInv, AllTaken, Remembered
  <2> QED
    BY <2>2, <2>3 DEF SummaryInv
<1>3. CASE Run
  BY <1>1, <1>3, BuildRootSummary, FetchSummary, AcquireSummary, DrainedSummary, EndRootSummary,
     ReportSummary DEF Run
<1>4. ASSUME NEW c \in DOMAIN cases, ProcessCase(c) PROVE SummaryInv'
  BY <1>1, <1>4, ProcessCaseSummary
<1> QED
  BY <1>1, <1>2, <1>3, <1>4, EvalCallSummary DEF Next

-----------------------------------------------------------------------------
(* The counts of a summary.                                                *)

(* Results that f takes to cases, one to one and onto all of a set. *)
LEMMA AsManyResults ==
  ASSUME TypeOK, Collected, NEW R \in SUBSET DOMAIN results, NEW C \in SUBSET DOMAIN cases,
         \A n \in R : results[n].case \in C,
         \A c \in C : \E n \in R : results[n].case = c
  PROVE  Cardinality(R) = Cardinality(C)
<1> DEFINE f == [n \in R |-> results[n].case]
<1>1. f \in [R -> C]
  OBVIOUS
<1>2. \A m, n \in R : f[m] = f[n] => m = n
  BY DEF Collected
<1>3. \A c \in C : \E n \in R : f[n] = c
  OBVIOUS
<1>4. f \in Bijection(R, C)
  BY <1>1, <1>2, <1>3, Fun_IsBij
<1>5. IsFiniteSet(R)
  <2>1. DOMAIN results = 1..Len(results) /\ Len(results) \in Nat
    BY SequencesIndexed DEF Indexed
  <2>2. IsFiniteSet(DOMAIN results)
    BY <2>1, FS_Interval
  <2> QED
    BY <2>2, FS_Subset
<1>6. ExistsBijection(R, C)
  BY <1>4 DEF ExistsBijection
<1> QED
  BY <1>5, <1>6, FS_Bijection

LEMMA SummaryIsComplete == TypeOK /\ SummaryInv => SummaryComplete
<1> SUFFICES ASSUME TypeOK, SummaryInv, root = "ended"
             PROVE  /\ \A c \in DOMAIN cases :
                         /\ Cardinality({n \in DOMAIN results : results[n].case = c}) = 1
                         /\ cases[c].span # <<>> /\ Last(cases[c].span) = "end"
                         /\ Cardinality({n \in DOMAIN cases[c].span : cases[c].span[n] = "end"}) = 1
                    /\ Summary.total_cases = Summary.successful_cases + Summary.failed_cases
                    /\ \A s \in Scorers :
                         LET scored == {c \in DOMAIN cases : s \in cases[c].scores} IN
                         IF s \in DOMAIN Summary.score_stats
                         THEN Summary.score_stats[s] = Cardinality(scored)
                         ELSE scored = {}
  BY DEF SummaryComplete
<1>1. Collected /\ Shapes /\ \A c \in DOMAIN cases : cases[c].step = "taken"
  BY DEF SummaryInv, AllTaken
<1>2. \A c \in DOMAIN cases : \E n \in DOMAIN results : results[n].case = c
  BY <1>1 DEF Collected
<1>3. \A n \in DOMAIN results : OfTaken(n)
  BY <1>1 DEF Collected
<1>4. ASSUME NEW c \in DOMAIN cases
      PROVE  /\ Cardinality({n \in DOMAIN results : results[n].case = c}) = 1
             /\ cases[c].span # <<>> /\ Last(cases[c].span) = "end"
             /\ Cardinality({n \in DOMAIN cases[c].span : cases[c].span[n] = "end"}) = 1
  <2>1. PICK n \in DOMAIN results : results[n].case = c
    BY <1>2
  <2>2. {m \in DOMAIN results : results[m].case = c} = {n}
    BY <1>1, <2>1 DEF Collected
  <2>3. EndsOnce(cases[c].span)
    BY <1>1 DEF Shapes, Shape
  <2>4. {i \in DOMAIN cases[c].span : cases[c].span[i] = "end"} = {Len(cases[c].span)}
    BY <2>3 DEF EndsOnce
  <2>5. Len(cases[c].span) \in DOMAIN cases[c].span /\ cases[c].span[Len(cases[c].span)] = "end"
    BY <2>3 DEF EndsOnce
  <2>6. cases[c].span # <<>> /\ Last(cases[c].span) = "end"
    BY <2>5 DEF Last
  <2> QED
    BY <2>2, <2>4, <2>6, FS_Singleton
<1>5. Summary.total_cases = Summary.successful_cases + Summary.failed_cases
  <2>1. Cardinality(DOMAIN results) = Cardinality(DOMAIN cases)
    BY <1>1, <1>2, <1>3, AsManyResults DEF OfTaken
  <2>2. Len(results) = Len(cases) /\ Len(results) \in Nat
    <3>1. /\ DOMAIN cases = 1..Len(cases) /\ Len(cases) \in Nat
          /\ DOMAIN results = 1..Len(results) /\ Len(results) \in Nat
      BY SequencesIndexed DEF Indexed
    <3>2. Cardinality(DOMAIN results) = Len(results) /\ Cardinality(DOMAIN cases) = Len(cases)
      BY <3>1, FirstNumbers
    <3> QED
      BY <2>1, <3>1, <3>2
  <2>3. Cardinality(Successful) \in Nat
    BY SuccessfulAre
  <2> QED
    BY <2>2, <2>3 DEF Summary
<1>6. ASSUME NEW s \in Scorers
      PROVE  LET scored == {c \in DOMAIN cases : s \in cases[c].scores} IN
             IF s \in DOMAIN Summary.score_stats
             THEN Summary.score_stats[s] = Cardinality(scored)
             ELSE scored = {}
  <2> DEFINE scored  == {c \in DOMAIN cases : s \in cases[c].scores}
             counted == {n \in Successful : s \in results[n].scores}
  <2>1. Summary.score_stats = ComputeStats
    BY DEF Summary
  <2>2. \A n \in DOMAIN results : s \in results[n].scores => n \in counted
    BY <1>3 DEF OfTaken, Successful
  <2>3. \A c \in scored : \E n \in counted : results[n].case = c
    <3> SUFFICES ASSUME NEW c \in DOMAIN cases, s \in cases[c].scores
                 PROVE  \E n \in counted : results[n].case = c
      OBVIOUS
    <3>1. PICK n \in DOMAIN results : results[n].case = c
      BY <1>2
    <3>2. s \in results[n].scores
      BY <1>3, <3>1 DEF OfTaken
    <3> QED
      BY <2>2, <3>1, <3>2
  <2>4. \A n \in counted : results[n].case \in scored
    BY <1>3 DEF OfTaken, Successful
  <2>5. CASE s \in DOMAIN ComputeStats
    <3>1. ComputeStats[s] = Cardinality(counted)
      BY <2>5 DEF ComputeStats
    <3>2. counted \in SUBSET DOMAIN results /\ scored \in SUBSET DOMAIN cases
      BY DEF Successful
    <3> HIDE DEF counted, scored
    <3>3. Cardinality(counted) = Cardinality(scored)
      BY <1>1, <2>3, <2>4, <3>2, AsManyResults
    <3> QED
      BY <2>1, <2>5, <3>1, <3>3 DEF scored
  <2>6. CASE s \notin DOMAIN ComputeStats
    <3>1. counted = {}
      BY <2>6 DEF ComputeStats
    <3>2. scored = {}
      BY <2>3, <3>1
    <3> QED
      BY <2>1, <2>6, <3>2
  <2> QED
    BY <2>5, <2>6
<1> QED
  BY <1>4, <1>5, <1>6

(* A summary has a result for every case, once; every span has its one     *)
(* end; the counts and the statistics are those of all that was returned.  *)
THEOREM SummariesComplete == Spec => []SummaryComplete
<1>1. IInv /\ SummaryInv => SummaryComplete
  BY SummaryIsComplete DEF IInv
<1> QED
  BY <1>1, InitIInv, StepIInv, SummaryInit, SummaryNext, PTL DEF Spec

(* A runner that says that all passed has seen no failure. *)
THEOREM PassedHonestly == Spec => []PassedIsHonest
<1>1. IInv /\ SummaryInv => PassedIsHonest
  <2> SUFFICES ASSUME TypeOK, SummaryInv, pc = "idle" PROVE all_passed = ~failures
    BY DEF IInv, PassedIsHonest
  <2>1. all_passed \in BOOLEAN /\ failures \in BOOLEAN
    BY DEF TypeOK
  <2>2. failures <=> ~all_passed
    BY DEF SummaryInv, Remembered
  <2> QED
    BY <2>1, <2>2
<1> QED
  BY <1>1, InitIInv, StepIInv, SummaryInit, SummaryNext, PTL DEF Spec
=============================================================================
