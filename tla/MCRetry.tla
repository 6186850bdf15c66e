------------------------------ MODULE MCRetry ------------------------------
(***************************************************************************)
(* Instances of Retry for TLC: two units make a millisecond and the cap is *)
(* two milliseconds, so that the cap, saturation and truncation are all    *)
(* reached within a few retries.                                           *)
(***************************************************************************)
EXTENDS Retry

Once == [retry_count |-> 1, retry_delay |-> 2, retry_backoff |-> 1, fd |-> TRUE]

BaseConfigs ==
  { Once,
    [Once EXCEPT !.retry_count = 0],
    [Once EXCEPT !.retry_count = 2, !.retry_delay = 0],
    [Once EXCEPT !.retry_count = 7, !.retry_backoff = 3],
    [Once EXCEPT !.retry_count = 2, !.fd = FALSE, !.retry_delay = 1],
    [Once EXCEPT !.retry_delay = 6, !.retry_backoff = 2] }  \* above the cap of the back-off
=============================================================================
