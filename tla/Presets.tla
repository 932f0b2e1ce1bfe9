------------------------------ MODULE Presets ------------------------------
(***************************************************************************)
(* The presets (package preset): NewEdgeHTTP, NewInternalRPC and           *)
(* NewLowLatencyUDP apply the caller's preset options in order, fill what  *)
(* the caller's configuration leaves unset, and construct the client with  *)
(* the policies of the preset and then the raw options.  Construction is   *)
(* that of http.New, tcp.New and udp.New: the configuration is normalised, *)
(* perhaps refused, and options append policies.  Durations are in         *)
(* milliseconds.                                                           *)
(***************************************************************************)
EXTENDS Integers, Sequences

CONSTANTS
  Given,       \* Given[p]: configurations callers pass to preset p
  Options,     \* Options[p]: preset options callers choose from
  MaxOptions   \* how many options a caller passes

Kinds == {"edgeHTTP", "internalRPC", "lowLatencyUDP"}

Fields(p) ==
  CASE p = "edgeHTTP" -> {"timeout"}
    [] p = "internalRPC" -> {"dial", "read", "write", "keepAlive"}
    [] p = "lowLatencyUDP" -> {"dial", "read", "write"}

\* A RetryConfig; NewInternalRPC has a RetryPolicyConfig, which is its
\* MaxAttempts here.  The UDP preset has no retry settings.
RetryConfig == [enabled : BOOLEAN, maxRetries : Int, waitMin : Int, waitMax : Int]
NoRetryConfig == [enabled |-> FALSE, maxRetries |-> 0, waitMin |-> 0, waitMax |-> 0]
RetrySettings(p) ==
  CASE p = "edgeHTTP" -> RetryConfig
    [] p = "internalRPC" -> Int
    [] p = "lowLatencyUDP" -> {0}

\* A policy of a client, with the timeout, capacity or attempts it was given.
Policy == [type : {"timeout", "limit", "retry", "user"}, value : Int]
Config(p) == [settings : [Fields(p) -> Int], retry : RetryConfig]

\* The preset options; a raw option is the policies it appends to the client,
\* none if it is nil or sets something else.
Option(p) ==
  [op : {"set"}, field : Fields(p), value : Int]
    \cup [op : {"guard", "limit"}, value : Int]
    \cup [op : {"raw"}, policies : Seq(Policy)]
    \cup (IF p = "lowLatencyUDP" THEN {}
          ELSE [op : {"disableRetry"}] \cup [op : {"retry"}, config : RetrySettings(p)])

ASSUME PresetAssumption ==
  /\ \A p \in Kinds : Given[p] \subseteq Config(p) /\ \A o \in Options[p] : o \in Option(p)
  /\ MaxOptions \in Nat

VARIABLES
  kind,     \* the preset
  given,    \* the configuration the caller passes
  preset,   \* the preset struct the options change
  stage,    \* "options", then "built" or "refused"
  client,   \* the settings and policies of the client that was built
  asked     \* history: the options so far
vars == <<kind, given, preset, stage, client, asked>>

-----------------------------------------------------------------------------

DefaultEdgeHTTPPreset ==
  [settings |-> [f \in {"timeout"} |-> 5000], guard |-> 4000, limit |-> 256,
   retry |-> [enabled |-> TRUE, maxRetries |-> 2, waitMin |-> 50, waitMax |-> 250],
   disableRetry |-> FALSE, options |-> <<>>]

DefaultInternalRPCPreset ==
  [settings |-> [dial |-> 1500, read |-> 2000, write |-> 2000, keepAlive |-> 30000],
   guard |-> 2000, limit |-> 512, retry |-> 3, disableRetry |-> FALSE, options |-> <<>>]

DefaultLowLatencyUDPPreset ==
  [settings |-> [dial |-> 300, read |-> 150, write |-> 150],
   guard |-> 200, limit |-> 1024, retry |-> 0, disableRetry |-> TRUE, options |-> <<>>]

NoClient == [settings |-> <<>>, policies |-> <<>>]

Init ==
  /\ kind \in Kinds
  /\ given \in Given[kind]
  /\ preset = CASE kind = "edgeHTTP" -> DefaultEdgeHTTPPreset
                [] kind = "internalRPC" -> DefaultInternalRPCPreset
                [] kind = "lowLatencyUDP" -> DefaultLowLatencyUDPPreset
  /\ stage = "options"
  /\ client = NoClient
  /\ asked = <<>>

-----------------------------------------------------------------------------
(* The preset options.                                                     *)

Apply(o) ==
  /\ stage = "options"
  /\ Len(asked) < MaxOptions
  /\ asked' = Append(asked, o)
  /\ UNCHANGED <<kind, given, stage, client>>

SetTimeout(o) ==
  /\ o.op = "set"
  /\ preset' = [preset EXCEPT !.settings[o.field] = o.value]

SetGuard(o) == o.op = "guard" /\ preset' = [preset EXCEPT !.guard = o.value]
SetLimit(o) == o.op = "limit" /\ preset' = [preset EXCEPT !.limit = o.value]

\* Faulty variant: retries that were disabled stay disabled.
SetRetryOnly(o) == o.op = "retry" /\ preset' = [preset EXCEPT !.retry = o.config]

SetRetry(o) ==
  /\ o.op = "retry"
  /\ preset' = [preset EXCEPT !.retry = o.config, !.disableRetry = FALSE]

DisableRetry(o) ==
  /\ o.op = "disableRetry"
  /\ preset' = [preset EXCEPT !.disableRetry = TRUE]

AppendOption(o) ==
  /\ o.op = "raw"
  /\ preset' = [preset EXCEPT !.options = @ \o o.policies]

-----------------------------------------------------------------------------
(* Tuning.                                                                 *)

Fill(settings) ==
  [f \in DOMAIN settings |-> IF settings[f] = 0 THEN preset.settings[f] ELSE settings[f]]

HasRetryHint(r) == r.maxRetries > 0 \/ r.waitMin > 0 \/ r.waitMax > 0

\* Faulty variant: the retry settings are filled one by one.
TuneRetryFieldwise ==
  IF preset.disableRetry THEN given.retry
  ELSE LET pick(x, y) == IF x = 0 THEN y ELSE x
           r == [enabled |-> given.retry.enabled \/ preset.retry.enabled,
                 maxRetries |-> pick(given.retry.maxRetries, preset.retry.maxRetries),
                 waitMin |-> pick(given.retry.waitMin, preset.retry.waitMin),
                 waitMax |-> pick(given.retry.waitMax, preset.retry.waitMax)]
       IN  [r EXCEPT !.enabled = @ \/ HasRetryHint(r)]

\* The retry settings of the caller or of the preset, one of them as a whole;
\* settings that are there but not enabled are taken for a wish to retry.
TuneRetry ==
  IF preset.disableRetry THEN given.retry
  ELSE LET r == IF given.retry = NoRetryConfig THEN preset.retry ELSE given.retry
       IN  [r EXCEPT !.enabled = @ \/ HasRetryHint(r)]

Tuned ==
  [settings |-> Fill(given.settings),
   retry |-> IF kind = "edgeHTTP" THEN TuneRetry ELSE NoRetryConfig]

-----------------------------------------------------------------------------
(* Construction.                                                           *)

\* NormalizeAndValidate of the three configurations.
Normalized(c) ==
  [c EXCEPT !.settings =
     [f \in DOMAIN @ |->
        IF @[f] # 0 THEN @[f]
        ELSE IF f = "timeout" THEN 30000 ELSE IF f = "dial" THEN 5000 ELSE 0]]

\* Faulty variant: only the retry settings are looked at.
ValidRetry(c) ==
  /\ c.retry.maxRetries >= 0 /\ c.retry.waitMin >= 0 /\ c.retry.waitMax >= 0
  /\ c.retry.waitMax > 0 => c.retry.waitMin <= c.retry.waitMax

Valid(c) ==
  /\ \A f \in DOMAIN c.settings : c.settings[f] >= 0
  /\ c.retry.maxRetries >= 0 /\ c.retry.waitMin >= 0 /\ c.retry.waitMax >= 0
  /\ c.retry.waitMax > 0 => c.retry.waitMin <= c.retry.waitMax

One(condition, type, value) ==
  IF condition THEN <<[type |-> type, value |-> value]>> ELSE <<>>

\* http.New puts the retry policy before those of its options.
HTTPRetry(c) ==
  One(kind = "edgeHTTP" /\ c.retry.enabled, "retry",
      IF c.retry.maxRetries >= 0 THEN c.retry.maxRetries + 1 ELSE 1)

\* NewRetryPolicy's default for MaxAttempts.
RPCRetry ==
  One(kind = "internalRPC" /\ ~preset.disableRetry, "retry",
      IF kind # "internalRPC" \/ preset.retry <= 0 THEN 3 ELSE preset.retry)

Guard == One(preset.guard > 0, "timeout", preset.guard)
Limit == One(preset.limit > 0, "limit", preset.limit)

\* Faulty variant: raw options, then the limit, then the guard.
BuildOptionsReversed == preset.options \o RPCRetry \o Limit \o Guard

BuildOptions == Guard \o Limit \o RPCRetry \o preset.options

Build ==
  /\ stage = "options"
  /\ IF Valid(Tuned)
     THEN /\ stage' = "built"
          /\ client' = [settings |-> Normalized(Tuned).settings,
                        policies |-> HTTPRetry(Tuned) \o BuildOptions]
     ELSE stage' = "refused" /\ UNCHANGED client
  /\ UNCHANGED <<kind, given, preset, asked>>

ApplyOption(o) ==
  /\ Apply(o)
  /\ \/ SetTimeout(o) \/ SetGuard(o) \/ SetLimit(o)
     \/ SetRetry(o) \/ DisableRetry(o) \/ AppendOption(o)

Returned == stage # "options" /\ UNCHANGED vars

Next == (\E o \in Options[kind] : ApplyOption(o)) \/ Build \/ Returned

Spec == Init /\ [][Next]_vars

-----------------------------------------------------------------------------

TypeOK ==
  /\ kind \in Kinds
  /\ given \in Config(kind)
  /\ preset.settings \in [Fields(kind) -> Int]
  /\ preset.guard \in Int /\ preset.limit \in Int
  /\ preset.retry \in RetrySettings(kind)
  /\ preset.disableRetry \in BOOLEAN
  /\ preset.options \in Seq(Policy)
  /\ stage \in {"options", "built", "refused"}
  /\ stage = "built" =>
       /\ client.settings \in [Fields(kind) -> Nat]
       /\ client.policies \in Seq(Policy)
  /\ asked \in Seq(Option(kind))

Built == stage = "built"
OptionsOf(ops) == {i \in 1..Len(asked) : asked[i].op \in ops}
Last(ops) == CHOOSE i \in OptionsOf(ops) : \A j \in OptionsOf(ops) : j <= i

\* Whatever options follow, a guard of the preset is in front of every limiter
\* of the client: no call waits for a slot without a deadline (what Terminates
\* of PolicyChain needs).  It is the guard of the last guard option.
GuardBeforeLimits ==
  Built /\ preset.guard > 0 =>
    \E i \in 1..Len(client.policies) :
      /\ client.policies[i] =
           [type |-> "timeout",
            value |-> IF OptionsOf({"guard"}) = {} THEN preset.guard
                      ELSE asked[Last({"guard"})].value]
      /\ \A j \in 1..(i - 1) : client.policies[j].type \notin {"limit", "user"}

\* A preset refuses no configuration that the client itself accepts, unless an
\* option brought in the setting that is refused: settings of the preset are
\* never mixed with the caller's into something invalid.
RefusesNothingMore ==
  stage = "refused" /\ Valid(given) =>
    \E i \in 1..Len(asked) :
      \/ asked[i].op = "set" /\ asked[i].value < 0
      \/ kind = "edgeHTTP" /\ asked[i].op = "retry"
           /\ ~Valid([given EXCEPT !.retry = asked[i].config])

\* The client has the retries that the configuration and the last of the retry
\* options ask for, and one retry policy at most from them: settings of the
\* caller stand unless they are unset as a whole; disabling leaves retries only
\* where the configuration itself enables them.
RetriesAsked ==
  LET ops == {"retry", "disableRetry"}
      managed == OptionsOf(ops) = {} \/ asked[Last(ops)].op = "retry"
      default == IF kind = "edgeHTTP" THEN DefaultEdgeHTTPPreset.retry
                 ELSE DefaultInternalRPCPreset.retry
      own == IF OptionsOf({"retry"}) = {} THEN default ELSE asked[Last({"retry"})].config
      wanted == IF given.retry = NoRetryConfig /\ managed THEN own ELSE given.retry
      attempts ==
        CASE kind = "edgeHTTP" -> IF wanted.enabled \/ (managed /\ HasRetryHint(wanted))
                                  THEN wanted.maxRetries + 1 ELSE 0
          [] kind = "internalRPC" -> IF ~managed THEN 0 ELSE IF own <= 0 THEN 3 ELSE own
          [] kind = "lowLatencyUDP" -> 0
      retrying == {i \in 1..Len(client.policies) : client.policies[i].type = "retry"}
  IN  Built /\ (\A i \in 1..Len(preset.options) : preset.options[i].type # "retry") =>
        IF attempts = 0 THEN retrying = {}
        ELSE \E i \in retrying : retrying = {i} /\ client.policies[i].value = attempts
=============
