--------------------------------- MODULE Eval ---------------------------------
(***************************************************************************)
(* Evaluations: BtEvalRunner (src/src/eval/bt_runner.rs) runs one after    *)
(* another, Evaluator::run and process_case (src/src/eval/runner.rs) run   *)
(* the cases of one concurrently, and yet in a single task: the futures of *)
(* the cases are polled only while run waits for one of them.              *)
(*                                                                         *)
(* Tasks, scorers and datasets are the program's: they succeed or fail     *)
(* after any time.                                                         *)
(***************************************************************************)
EXTENDS Naturals, SequencesExt

CONSTANTS
  Scorers,         \* scorers of an evaluation
  MaxConcurrency,  \* max_concurrency
  MaxCases,        \* bound: cases of a dataset
  MaxCalls         \* bound: calls of BtEvalRunner::eval

(* With no permit at all the first case would wait for ever. *)
ASSUME EvalAssumption ==
  /\ MaxConcurrency \in Nat \ {0} /\ MaxCases \in Nat /\ MaxCalls \in Nat

VARIABLES
  config,            \* RunnerConfig: [list, terminate_on_failure]
  calls,             \* calls of eval so far
  registered_names,  \* calls that list mode has registered
  all_passed,
  returned,          \* what the last call of eval returned: "none", "ok" or "err"
  pc,                \* "idle", or where run is: "root", "fetch", "acquire", "drain",
                     \* "collect", "summary" or "error"
  root,              \* the root span: "none", "open" or "ended"
  cases,             \* the cases fetched, [step, scoring, scores, span]
  permits,           \* of the semaphore
  results,           \* [case, error, scores]
  failures           \* whether a task or a whole evaluation has ever failed

runner == <<config, calls, registered_names, all_passed, returned>>
run    == <<pc, root, permits, results>>
vars   == <<runner, run, cases, failures>>

(* What the environment says; the other switches are about the output. *)
RunnerConfig == [list : BOOLEAN, terminate_on_failure : BOOLEAN]

Init ==
  /\ config \in RunnerConfig
  /\ calls = 0 /\ registered_names = <<>>
  /\ all_passed = TRUE
  /\ returned = "none"
  /\ pc = "idle" /\ root = "none"
  /\ cases = <<>> /\ permits = MaxConcurrency /\ results = <<>>
  /\ failures = FALSE

-----------------------------------------------------------------------------
(* The summary of an evaluation.                                           *)

Successful == {n \in DOMAIN results : ~results[n].error}

(* The statistics of a scorer are over the results of cases whose task     *)
(* succeeded and that it scored.  Of them the count is kept: mean, least   *)
(* and greatest are those of the scores that are counted.                  *)
ComputeStats ==
  [s \in UNION {results[n].scores : n \in Successful} |->
     Cardinality({n \in Successful : s \in results[n].scores})]

Summary ==
  [total_cases |-> Len(cases), successful_cases |-> Cardinality(Successful),
   failed_cases |-> Len(results) - Cardinality(Successful), score_stats |-> ComputeStats]

-----------------------------------------------------------------------------
(* The runner.                                                             *)

(* eval is called; the name may not pass the filters, and list mode only   *)
(* takes it down.                                                          *)
EvalCall ==
  /\ pc = "idle"
  /\ calls < MaxCalls
  /\ calls' = calls + 1
  /\ \/ returned' = "ok" /\ pc' = "idle" /\ UNCHANGED registered_names
     \/ /\ config.list
        /\ registered_names' = Append(registered_names, calls')
        /\ returned' = "ok" /\ pc' = "idle"
     \/ ~config.list /\ pc' = "root" /\ UNCHANGED <<registered_names, returned>>
  /\ root' = "none" /\ cases' = <<>> /\ results' = <<>> /\ permits' = MaxConcurrency
  /\ UNCHANGED <<config, all_passed, failures>>

(* Mutant: an evaluation that ends in an error is only reported. *)
ReportErrorOnly ==
  /\ pc \in {"summary", "error"}
  /\ all_passed' = (all_passed /\ Summary.failed_cases = 0)
  /\ returned' = IF (pc = "error" \/ Summary.failed_cases > 0) /\ config.terminate_on_failure
                 THEN "err" ELSE "ok"
  /\ pc' = "idle"
  /\ UNCHANGED <<config, calls, registered_names, root, permits, results, cases, failures>>

(* What eval makes of the result of run. *)
Report ==
  /\ pc \in {"summary", "error"}
  /\ LET bad == pc = "error" \/ Summary.failed_cases > 0 IN
     /\ all_passed' = (all_passed /\ ~bad)
     /\ returned' = IF bad /\ config.terminate_on_failure THEN "err" ELSE "ok"
  /\ pc' = "idle"
  /\ UNCHANGED <<config, calls, registered_names, root, permits, results, cases, failures>>

-----------------------------------------------------------------------------
(* Evaluator::run.                                                         *)

(* The root span is built and logged, unless the login fails. *)
BuildRoot ==
  /\ pc = "root"
  /\ \/ pc' = "fetch" /\ root' = "open" /\ UNCHANGED failures
     \/ pc' = "error" /\ root' = "none" /\ failures' = TRUE
  /\ UNCHANGED <<runner, permits, results, cases>>

(* dataset.next: an error ends the cases just as their end does. *)
Fetch ==
  /\ pc = "fetch"
  /\ \/ /\ Len(cases) < MaxCases
        /\ cases' = Append(cases, [step |-> "fetched", scoring |-> {}, scores |-> {},
                                   span |-> <<>>])
        /\ pc' = "acquire"
     \/ cases' = cases /\ pc' = "collect"
  /\ UNCHANGED <<runner, root, permits, results, failures>>

Inflight == {c \in DOMAIN cases : cases[c].step \notin {"fetched", "taken"}}

(* acquire_owned, while nobody polls the cases; then the case is pushed. *)
Acquire ==
  /\ pc = "acquire"
  /\ permits > 0
  /\ permits' = permits - 1
  /\ cases' = [cases EXCEPT ![Len(cases)] = [@ EXCEPT !.step = "pushed"]]
  /\ pc' = "drain"
  /\ UNCHANGED <<runner, root, results, failures>>

(* Mutant: one case more may be pending. *)
DrainedLate ==
  /\ pc = "drain"
  /\ Cardinality(Inflight) <= MaxConcurrency
  /\ pc' = "fetch"
  /\ UNCHANGED <<runner, root, permits, results, cases, failures>>

(* `while futures.len() >= max_concurrency` is over. *)
Drained ==
  /\ pc = "drain"
  /\ Cardinality(Inflight) < MaxConcurrency
  /\ pc' = "fetch"
  /\ UNCHANGED <<runner, root, permits, results, cases, failures>>

(* All the cases are done: the root span ends. *)
EndRoot ==
  /\ pc = "collect"
  /\ Inflight = {}
  /\ root' = "ended"
  /\ pc' = "summary"
  /\ UNCHANGED <<runner, permits, results, cases, failures>>

-----------------------------------------------------------------------------
(* process_case, polled by futures.next().                                 *)

Polled(c, step) == pc \in {"drain", "collect"} /\ cases[c].step = step
Becomes(c, new) == cases' = [cases EXCEPT ![c] = new]

(* The span of the case.  The login that the root span found stays (Login),*)
(* so that span_builder does not fail here.                                *)
Begin(c) ==
  /\ Polled(c, "pushed")
  /\ Becomes(c, [cases[c] EXCEPT !.step = "task", !.span = <<"log">>])
  /\ UNCHANGED <<runner, run, failures>>

(* The future is ready: its permit returns, its result is collected. *)
Take(c, error) ==
  /\ permits' = permits + 1
  /\ results' = Append(results, [case |-> c, error |-> error, scores |-> cases[c].scores])
  /\ UNCHANGED <<runner, pc, root>>

(* Mutant: the span is not ended when the task fails. *)
TaskFailsUnended(c) ==
  /\ Polled(c, "task")
  /\ Becomes(c, [cases[c] EXCEPT !.step = "taken", !.span = @ \o <<"log">>])
  /\ Take(c, TRUE)
  /\ failures' = TRUE

(* The error is logged, the span ends, there are no scores. *)
TaskFails(c) ==
  /\ Polled(c, "task")
  /\ Becomes(c, [cases[c] EXCEPT !.step = "taken", !.span = @ \o <<"log", "end">>])
  /\ Take(c, TRUE)
  /\ failures' = TRUE

(* The output is logged and all the scorers are started.                   *)
TaskSucceeds(c) ==
  /\ Polled(c, "task")
  /\ Becomes(c, [cases[c] EXCEPT !.step = "score", !.scoring = Scorers,
                                 !.span = Append(@, "log")])
  /\ UNCHANGED <<runner, run, failures>>

(* A scorer ends, in any order; one that fails gives no scores. *)
ScorerEnds(c, s) ==
  /\ Polled(c, "score")
  /\ s \in cases[c].scoring
  /\ \E scores \in SUBSET {s} :
       Becomes(c, [cases[c] EXCEPT !.scoring = @ \ {s}, !.scores = @ \cup scores])
  /\ UNCHANGED <<runner, run, failures>>

(* The scores are logged, and the span ends. *)
Finish(c) ==
  /\ Polled(c, "score")
  /\ cases[c].scoring = {}
  /\ Becomes(c, [cases[c] EXCEPT !.step = "taken", !.span = @ \o <<"log", "end">>])
  /\ Take(c, FALSE)
  /\ UNCHANGED failures

Run == BuildRoot \/ Fetch \/ Acquire \/ Drained \/ EndRoot \/ Report

ProcessCase(c) ==
  \/ Begin(c) \/ TaskFails(c) \/ TaskSucceeds(c) \/ Finish(c)
  \/ \E s \in Scorers : ScorerEnds(c, s)

Next == EvalCall \/ Run \/ \E c \in DOMAIN cases : ProcessCase(c)

Spec == Init /\ [][Next]_vars

(* Datasets, tasks and scorers answer; the caller need not call again. *)
FairSpec == Spec /\ WF_vars(Run) /\ WF_vars(\E c \in DOMAIN cases : ProcessCase(c))

-----------------------------------------------------------------------------
(* The type invariant. *)
Case ==
  [step : {"fetched", "pushed", "task", "score", "taken"},
   scoring : SUBSET Scorers, scores : SUBSET Scorers, span : Seq({"log", "end"})]

EvalResult == [case : 1..MaxCases, error : BOOLEAN, scores : SUBSET Scorers]

TypeOK ==
  /\ calls \in 0..MaxCalls
  /\ all_passed \in BOOLEAN
  /\ returned \in {"none", "ok", "err"}
  /\ pc \in {"idle", "root", "fetch", "acquire", "drain", "collect", "summary", "error"}
  /\ root \in {"none", "open", "ended"}
  /\ cases \in Seq(Case) /\ Len(cases) <= MaxCases
  /\ permits \in 0..MaxConcurrency
  /\ results \in Seq(EvalResult)
  /\ failures \in BOOLEAN

(* A summary has one result for every case of the dataset, in whatever     *)
(* order the cases were done, with an output or an error.  Every span of a *)
(* case was ended, once and after its last log, and before the root span.  *)
(* Its counts add up, and its statistics have all that scorers returned.   *)
SummaryComplete ==
  root = "ended" =>
    /\ \A c \in DOMAIN cases :
         /\ Cardinality({n \in DOMAIN results : results[n].case = c}) = 1
         /\ cases[c].span # <<>> /\ Last(cases[c].span) = "end"
         /\ Cardinality({n \in DOMAIN cases[c].span : cases[c].span[n] = "end"}) = 1
    /\ Summary.total_cases = Summary.successful_cases + Summary.failed_cases
    /\ \A s \in Scorers :
         LET scored == {c \in DOMAIN cases : s \in cases[c].scores} IN
         IF s \in DOMAIN Summary.score_stats
         THEN Summary.score_stats[s] = Cardinality(scored)
         ELSE scored = {}

(* "Returns true if all evals passed, false if any failed": however the    *)
(* calls went on after a failure, the runner never forgets it.             *)
PassedIsHonest == pc = "idle" => all_passed = ~failures

(* An evaluation never waits for itself: run gives the cases a permit only *)
(* when there is one, and returns when the tasks and scorers do.           *)
EvalReturns == pc # "idle" ~> pc = "idle"
=============================================================================
