------------------------------ MODULE Transfer ------------------------------
(***************************************************************************)
(* What a caller relies on when it hands rows 1..n to upload_rows: at any  *)
(* time the server holds the first rows of the call, also when some arrive *)
(* after the error, and Ok is returned only when it holds all of them.     *)
(***************************************************************************)
EXTENDS Naturals

VARIABLES n,      \* rows of the call
          held,   \* the rows the server holds
          result  \* what the caller was told: "none", "ok" or "err"

TransferInit == n \in Nat /\ held = {} /\ result = "none"

(* More rows arrive, or none, before or with an error or after it. *)
Arrive ==
  /\ result # "ok"
  /\ \E r \in 0..n : held' = 1..r /\ held \subseteq held'
  /\ result' \in {result, "err"}

Complete ==
  /\ result = "none"
  /\ held = 1..n
  /\ held' = held
  /\ result' = "ok"

TransferNext == n' = n /\ (Arrive \/ Complete)

TransferSpec == TransferInit /\ [][TransferNext]_<<n, held, result>>
=============================================================================
