--------------------------- MODULE MCRetryBackoff ---------------------------
(***************************************************************************)
(* RetryBackoff on six-bit integers (-32..31): every combination of unset, *)
(* usual, large and negative settings.                                     *)
(***************************************************************************)
EXTENDS RetryBackoff

SomeConfigs ==
  [attempts : {-1, 0, 2, 7}, base : {-1, 0, 1, 5, 30}, cap : {-1, 0, 3, 12, 31},
   multiplier : {-1, 0, 1, 2, 3}, jitter : {-1, 0, 1, 2, 4, 5}]

SomeHTTPConfigs == [maxRetries : {0, 3, 6, 31}, waitMin : {0, 1, 3, 30}, waitMax : {0, 1, 3, 31}]
=============================================================================
