-------------------------------- MODULE Login --------------------------------
(***************************************************************************)
(* Login of a client (src/src/logger.rs): the login request, blocking or   *)
(* in a background task with retries, the write-once LoginState, and the   *)
(* operations that wait for it.                                            *)
(*                                                                         *)
(* experiment_builder_with_credentials writes the LoginState too, and      *)
(* wakes nobody.  Time-outs may strike at any moment of a wait.            *)
(***************************************************************************)
EXTENDS Naturals

CONSTANTS
  Waiters,      \* operations that need the LoginState
  MaxAttempts,  \* MAX_ATTEMPTS of the background task
  None          \* LoginState is empty

ASSUME LoginAssumption ==
  /\ MaxAttempts \in Nat \ {0}
  /\ None \notin {"login", "explicit"}

VARIABLES
  mode,      \* how the client is built: "background", "blocking" or "skip"
  state,     \* LoginState: None, or whose credentials it holds
  task,      \* "request", "set", "notify", "sleep", "done", "failed" or "off"
  attempt,   \* login attempts begun
  waiting,   \* waiting[w]: "start", "register", "check", "wait", "ok" or "err"
  notified   \* the waiters whose Notified future has been woken

vars == <<mode, state, task, attempt, waiting, notified>>

Init ==
  /\ mode \in {"background", "blocking", "skip"}
  /\ state = None
  /\ task = IF mode = "skip" THEN "off" ELSE "request"
  /\ attempt = 1
  /\ waiting = [w \in Waiters |-> "start"]
  /\ notified = {}

IsLoggedIn == state # None

-----------------------------------------------------------------------------
(* The login task.                                                         *)

(* Mutant: the last attempt is followed by one more, for ever. *)
AttemptFailsForever ==
  IF mode = "background"
  THEN task' = "sleep" /\ attempt' = IF attempt < MaxAttempts THEN attempt + 1 ELSE attempt
  ELSE task' = "failed" /\ attempt' = attempt

(* An attempt fails: build returns the error, the background task sleeps   *)
(* and tries again, MaxAttempts times in all.                              *)
AttemptFails ==
  IF mode = "background" /\ attempt < MaxAttempts
  THEN task' = "sleep" /\ attempt' = attempt + 1
  ELSE task' = "failed" /\ attempt' = attempt

(* perform_login up to the answer, which names the organisation, or not. *)
Request ==
  /\ task = "request"
  /\ \/ task' = "set" /\ attempt' = attempt
     \/ AttemptFails
  /\ UNCHANGED <<mode, state, waiting, notified>>

(* login_state.set, which fails when the state is already set. *)
Set ==
  /\ task = "set"
  /\ IF IsLoggedIn THEN state' = state /\ AttemptFails
     ELSE state' = "login" /\ task' = "notify" /\ attempt' = attempt
  /\ UNCHANGED <<mode, waiting, notified>>

(* notify_waiters reaches every Notified future that exists by now. *)
NotifyWaiters ==
  /\ task = "notify"
  /\ notified' = notified \cup {w \in Waiters : waiting[w] \in {"check", "wait"}}
  /\ task' = "done"
  /\ UNCHANGED <<mode, state, attempt, waiting>>

Sleep ==
  /\ task = "sleep"
  /\ task' = "request"
  /\ UNCHANGED <<mode, state, attempt, waiting, notified>>

LoginTask == Request \/ Set \/ NotifyWaiters \/ Sleep

-----------------------------------------------------------------------------
(* The operations that wait, and the one that does not.                    *)

Move(w, to) ==
  /\ waiting' = [waiting EXCEPT ![w] = to]
  /\ UNCHANGED <<mode, state, task, attempt, notified>>

(* build waits for a blocking login, so there is no client before it ends. *)
HasClient == mode = "blocking" => task = "done"

(* span_builder, wait_for_login and update_span refuse to wait when login  *)
(* is skipped; update_span looks at the state first, dataset_builder does  *)
(* not refuse.                                                             *)
Begin(w) ==
  /\ waiting[w] = "start"
  /\ HasClient
  /\ \/ mode = "skip" /\ Move(w, "err")
     \/ Move(w, IF IsLoggedIn THEN "ok" ELSE "register")

(* `let notified = login_notify.notified()` *)
Register(w) ==
  /\ waiting[w] = "register"
  /\ Move(w, "check")

(* Mutant: no second look at the state. *)
CheckAgainSkipped(w) ==
  /\ waiting[w] = "check"
  /\ Move(w, "wait")

CheckAgain(w) ==
  /\ waiting[w] = "check"
  /\ Move(w, IF IsLoggedIn THEN "ok" ELSE "wait")

Woken(w) ==
  /\ waiting[w] = "wait"
  /\ w \in notified
  /\ Move(w, IF IsLoggedIn THEN "ok" ELSE "err")

(* LOGIN_TIMEOUT is over; the state is not looked at again. *)
TimeOut(w) ==
  /\ waiting[w] = "wait"
  /\ Move(w, "err")

Wait(w) == Begin(w) \/ Register(w) \/ CheckAgain(w) \/ Woken(w) \/ TimeOut(w)

(* experiment_builder_with_credentials: set, whose failure is ignored, and *)
(* no notification.                                                        *)
ExperimentBuilderWithCredentials ==
  /\ HasClient
  /\ ~IsLoggedIn
  /\ state' = "explicit"
  /\ UNCHANGED <<mode, task, attempt, waiting, notified>>

Next ==
  \/ LoginTask
  \/ ExperimentBuilderWithCredentials
  \/ \E w \in Waiters : Wait(w)

Spec == Init /\ [][Next]_vars

(* The task is polled, and its requests and sleeps end. *)
FairSpec == Spec /\ WF_vars(LoginTask)

-----------------------------------------------------------------------------
(* The type invariant. *)
TypeOK ==
  /\ mode \in {"background", "blocking", "skip"}
  /\ state \in {None, "login", "explicit"}
  /\ task \in {"request", "set", "notify", "sleep", "done", "failed", "off"}
  /\ attempt \in 1..MaxAttempts
  /\ waiting \in [Waiters -> {"start", "register", "check", "wait", "ok", "err"}]
  /\ notified \in SUBSET Waiters

(* "Get notification future BEFORE checking state to avoid race condition":*)
(* nobody sleeps towards its time-out once the login has set the state,    *)
(* unless the wake-up is on its way.                                       *)
NoLostWakeup ==
  \A w \in Waiters :
    waiting[w] = "wait" /\ state = "login" => w \in notified \/ task = "notify"

(* A login comes to an end, and a background one ends without a LoginState *)
(* only after every attempt.                                               *)
LoginSettles == <>[](\/ task \in {"done", "off"}
                     \/ task = "failed" /\ (mode = "background" => attempt = MaxAttempts))
=============================================================================
