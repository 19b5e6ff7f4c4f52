----------------------------- MODULE Delivery ------------------------------
(***************************************************************************)
(* What a flush relies on when it hands a batch to send_batch_with_retry:  *)
(* the batch reaches the server any number of times, and Ok is returned    *)
(* only if it did.  Err promises nothing: the server may have the batch.   *)
(***************************************************************************)
VARIABLES stored,  \* the server holds the batch
          result   \* what the sender returned

DeliveryInit == stored = FALSE /\ result = "none"

(* A request is processed, or processed late, whatever the sender learns.  *)
Store ==
  /\ stored' = TRUE
  /\ result' = result

(* The acknowledgement of a request that was, or just now is, processed. *)
Acknowledge ==
  /\ result = "none"
  /\ stored' = TRUE
  /\ result' = "ok"

(* The sender gives up, with a last request that may have been processed. *)
GiveUp ==
  /\ result = "none"
  /\ stored' \in {stored, TRUE}
  /\ result' = "err"

DeliveryNext == Store \/ Acknowledge \/ GiveUp

DeliverySpec == DeliveryInit /\ [][DeliveryNext]_<<stored, result>>
=============================================================================
