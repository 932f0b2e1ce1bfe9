----------------------------- MODULE MCPresets -----------------------------
(***************************************************************************)
(* A small instance of Presets: settings that are unset, negative and      *)
(* usual, retry settings on both sides of those of the presets.            *)
(***************************************************************************)
EXTENDS Presets

Retry(e, n, low, high) == [enabled |-> e, maxRetries |-> n, waitMin |-> low, waitMax |-> high]

\* Unset, disabled but with a hint, enabled, waits above and below those of
\* the preset, and two that NormalizeAndValidate refuses.
SomeRetries ==
  {NoRetryConfig, Retry(FALSE, 1, 0, 0), Retry(TRUE, 0, 0, 0), Retry(TRUE, 4, 0, 20),
   Retry(FALSE, 0, 400, 0), Retry(TRUE, 1, 9, 3), Retry(TRUE, -1, 0, 0)}

SomeGiven == [p \in Kinds |->
  [settings : {[f \in Fields(p) |-> 0], [f \in Fields(p) |-> 700],
               [f \in Fields(p) |-> IF f \in {"dial", "timeout"} THEN -1 ELSE 0],
               [f \in Fields(p) |-> IF f = "write" THEN 60 ELSE 0]},
   retry : IF p = "edgeHTTP" THEN SomeRetries ELSE {NoRetryConfig}]]

Raw == {<<>>, <<[type |-> "limit", value |-> 2]>>, <<[type |-> "user", value |-> 0]>>,
        <<[type |-> "timeout", value |-> 10]>>, <<[type |-> "retry", value |-> 2]>>}

SomeOptions == [p \in Kinds |->
  {[op |-> "set", field |-> f, value |-> n] : f \in Fields(p) \ {"keepAlive"}, n \in {-1, 0}}
    \cup [op : {"guard", "limit"}, value : {0, 40}]
    \cup [op : {"raw"}, policies : Raw]
    \cup (CASE p = "edgeHTTP" ->
                 [op : {"disableRetry"}] \cup [op : {"retry"}, config : SomeRetries]
            [] p = "internalRPC" ->
                 [op : {"disableRetry"}] \cup [op : {"retry"}, config : {0, 5}]
            [] p = "lowLatencyUDP" -> {})]
=============================================================================
