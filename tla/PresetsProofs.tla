--------------------------- MODULE PresetsProofs ---------------------------
(***************************************************************************)
(* What holds of the presets for all configurations and all sequences of   *)
(* options: the guard of a preset stands before every limiter, nothing     *)
(* valid is refused, and the retries are those that were asked for.        *)
(***************************************************************************)
EXTENDS Presets, SequenceTheorems, TLAPS

-----------------------------------------------------------------------------
(***************************************************************************)
(* The options so far and the last of some kind.                           *)
(***************************************************************************)

\* Place m is the last of s with an option of the given kinds.
IsLast(s, ops, m) ==
  m \in 1..Len(s) /\ s[m].op \in ops /\ \A j \in 1..Len(s) : s[j].op \in ops => j <= m

\* The option at the last place, or what holds if there is none.
Newest(s, ops, none) ==
  IF \E i \in 1..Len(s) : s[i].op \in ops THEN s[CHOOSE m \in 1..Len(s) : IsLast(s, ops, m)]
  ELSE none

HasLast(s, ops) == (\E i \in 1..Len(s) : s[i].op \in ops) => \E m \in 1..Len(s) : IsLast(s, ops, m)

LEMMA LastIsOne ==
  ASSUME NEW s, Len(s) \in Nat, NEW ops, NEW m, IsLast(s, ops, m), NEW none
  PROVE  Newest(s, ops, none) = s[m]
<1> DEFINE k == CHOOSE n \in 1..Len(s) : IsLast(s, ops, n)
<1>1. IsLast(s, ops, k) /\ m \in 1..Len(s) /\ s[m].op \in ops
  BY DEF IsLast
<1> HIDE DEF k
<1>2. k \in 1..Len(s) /\ m <= k /\ k <= m
  BY <1>1 DEF IsLast
<1>3. k = m
  BY <1>1, <1>2
<1> QED BY <1>1, <1>3 DEF Newest, k

\* One option more: it is the last of its kind and leaves the others alone.
LEMMA NewestOfMore ==
  ASSUME NEW S, NEW s \in Seq(S), NEW o \in S, NEW ops, HasLast(s, ops), NEW none
  PROVE  /\ HasLast(Append(s, o), ops)
         /\ Newest(Append(s, o), ops, none) = IF o.op \in ops THEN o ELSE Newest(s, ops, none)
<1> DEFINE t == Append(s, o)
           n == Len(s) + 1
<1>1. /\ Len(s) \in Nat /\ Len(t) = n /\ t[n] = o /\ n \in 1..n
      /\ \A i \in 1..Len(s) : t[i] = s[i] /\ i \in 1..n
      /\ \A i \in 1..n : i \in 1..Len(s) \/ i = n
  BY AppendProperties
<1> HIDE DEF t, n
<1>2. CASE o.op \in ops
  <2>1. IsLast(t, ops, n)
    BY <1>1, <1>2 DEF IsLast
  <2>2. Newest(t, ops, none) = o
    BY <1>1, <2>1, LastIsOne
  <2> QED BY <1>1, <1>2, <2>1, <2>2 DEF HasLast, t
<1>3. CASE o.op \notin ops
  <2>1. CASE \E i \in 1..Len(s) : s[i].op \in ops
    <3>1. PICK m \in 1..Len(s) : IsLast(s, ops, m)
      BY <2>1 DEF HasLast
    <3>2. IsLast(t, ops, m) /\ t[m] = s[m]
      BY <1>1, <1>3, <3>1 DEF IsLast
    <3>3. Newest(t, ops, none) = s[m] /\ Newest(s, ops, none) = s[m]
      BY <1>1, <3>1, <3>2, LastIsOne
    <3> QED BY <1>1, <1>3, <3>1, <3>2, <3>3 DEF HasLast, t
  <2>2. CASE ~(\E i \in 1..Len(s) : s[i].op \in ops)
    <3>1. ~(\E i \in 1..Len(t) : t[i].op \in ops)
      BY <1>1, <1>3, <2>2
    <3> QED BY <1>3, <2>2, <3>1 DEF HasLast, Newest, t
  <2> QED BY <2>1, <2>2
<1> QED BY <1>2, <1>3

LEMMA NewestOfNone ==
  ASSUME NEW ops, NEW none
  PROVE  HasLast(<<>>, ops) /\ Newest(<<>>, ops, none) = none
BY DEF HasLast, Newest

\* What the properties say with OptionsOf and Last.
LEMMA LastOption ==
  ASSUME asked \in Seq(Option(kind)), NEW ops, HasLast(asked, ops), NEW none
  PROVE  /\ OptionsOf(ops) = {} => Newest(asked, ops, none) = none
         /\ OptionsOf(ops) # {} => /\ Newest(asked, ops, none) = asked[Last(ops)]
                                   /\ Last(ops) \in 1..Len(asked)
                                   /\ asked[Last(ops)].op \in ops
<1>1. CASE OptionsOf(ops) = {}
  BY <1>1 DEF OptionsOf, Newest
<1>2. CASE OptionsOf(ops) # {}
  <2>1. PICK m \in 1..Len(asked) : IsLast(asked, ops, m)
    BY <1>2 DEF OptionsOf, HasLast
  <2>2. Len(asked) \in Nat
    OBVIOUS
  <2>3. Newest(asked, ops, none) = asked[m]
    BY <2>1, <2>2, LastIsOne
  <2>4. m \in OptionsOf(ops) /\ \A j \in OptionsOf(ops) : j <= m
    BY <2>1 DEF OptionsOf, IsLast
  <2>5. Last(ops) \in OptionsOf(ops) /\ \A j \in OptionsOf(ops) : j <= Last(ops)
    BY <2>4 DEF Last
  <2>6. Last(ops) = m
    <3>1. Last(ops) \in 1..Len(asked) /\ Last(ops) <= m /\ m <= Last(ops)
      BY <2>4, <2>5 DEF OptionsOf
    <3> QED BY <2>2, <3>1
  <2> QED BY <1>2, <2>1, <2>3, <2>6 DEF IsLast
<1> QED BY <1>1, <1>2

-----------------------------------------------------------------------------
(***************************************************************************)
(* The inductive invariant: what the preset is after the options so far,   *)
(* and what was made of it.                                                *)
(***************************************************************************)

UDP == "lowLatencyUDP"
DefaultOf(p) ==
  CASE p = "edgeHTTP" -> DefaultEdgeHTTPPreset
    [] p = "internalRPC" -> DefaultInternalRPCPreset
    [] p = "lowLatencyUDP" -> DefaultLowLatencyUDPPreset

PresetType(p) ==
  [settings : [Fields(p) -> Int], guard : Int, limit : Int, retry : RetrySettings(p),
   disableRetry : BOOLEAN, options : Seq(Policy)]

RetryOps == {"retry", "disableRetry"}

\* The last retry option, or one that stands for the default.
NewestRetry == Newest(asked, {"retry"}, [config |-> DefaultOf(kind).retry])
Managed == Newest(asked, RetryOps, [op |-> "retry"]).op = "retry"

OptionsInv ==
  /\ kind \in Kinds /\ given \in Config(kind)
  /\ preset \in PresetType(kind) /\ asked \in Seq(Option(kind))
  /\ HasLast(asked, {"guard"}) /\ HasLast(asked, {"retry"}) /\ HasLast(asked, RetryOps)
  /\ preset.guard = Newest(asked, {"guard"}, [value |-> DefaultOf(kind).guard]).value
  /\ kind # UDP => preset.retry = NewestRetry.config
  /\ preset.disableRetry <=> kind = UDP \/ ~Managed
  /\ \A f \in Fields(kind) :
       preset.settings[f] >= 0 \/ \E i \in 1..Len(asked) : asked[i].op = "set" /\ asked[i].value < 0

StageInv ==
  \/ stage = "options"
  \/ stage = "refused" /\ ~Valid(Tuned)
  \/ /\ stage = "built" /\ Valid(Tuned)
     /\ client = [settings |-> Normalized(Tuned).settings,
                  policies |-> HTTPRetry(Tuned) \o BuildOptions]

PresetInv == OptionsInv /\ StageInv

LEMMA DefaultType ==
  ASSUME NEW p \in Kinds
  PROVE  DefaultOf(p) \in PresetType(p) /\ \A f \in Fields(p) : DefaultOf(p).settings[f] >= 0
<1>1. <<>> \in Seq(Policy)
  OBVIOUS
<1>2. CASE p = "edgeHTTP"
  BY <1>1, <1>2 DEF DefaultOf, DefaultEdgeHTTPPreset, PresetType, Fields, RetrySettings, RetryConfig
<1>3. CASE p = "internalRPC"
  BY <1>1, <1>3 DEF DefaultOf, DefaultInternalRPCPreset, PresetType, Fields, RetrySettings
<1>4. CASE p = "lowLatencyUDP"
  BY <1>1, <1>4 DEF DefaultOf, DefaultLowLatencyUDPPreset, PresetType, Fields, RetrySettings
<1> QED BY <1>2, <1>3, <1>4 DEF Kinds

LEMMA OptionFacts ==
  ASSUME kind \in Kinds, NEW o \in Option(kind)
  PROVE  /\ o.op = "set" => o.field \in Fields(kind) /\ o.value \in Int
         /\ o.op \in {"guard", "limit"} => o.value \in Int
         /\ o.op = "raw" => o.policies \in Seq(Policy)
         /\ o.op = "retry" => kind # UDP /\ o.config \in RetrySettings(kind)
         /\ o.op = "disableRetry" => kind # UDP
<1>1. CASE o \in [op : {"set"}, field : Fields(kind), value : Int]
  BY <1>1
<1>2. CASE o \in [op : {"guard", "limit"}, value : Int]
  BY <1>2
<1>3. CASE o \in [op : {"raw"}, policies : Seq(Policy)]
  BY <1>3
<1>4. CASE kind # UDP /\ o \in [op : {"disableRetry"}]
  BY <1>4
<1>5. CASE kind # UDP /\ o \in [op : {"retry"}, config : RetrySettings(kind)]
  BY <1>5
<1> QED BY <1>1, <1>2, <1>3, <1>4, <1>5 DEF Option, UDP

LEMMA PresetInit == Init => PresetInv
<1> SUFFICES ASSUME Init PROVE PresetInv
  OBVIOUS
<1>1. /\ kind \in Kinds /\ given \in Config(kind) /\ preset = DefaultOf(kind)
      /\ stage = "options" /\ asked = <<>>
  BY PresetAssumption DEF Init, DefaultOf
<1>2. preset \in PresetType(kind) /\ \A f \in Fields(kind) : preset.settings[f] >= 0
  BY <1>1, DefaultType
<1>3. asked \in Seq(Option(kind))
  BY <1>1
<1>4. HasLast(asked, {"guard"}) /\ HasLast(asked, {"retry"}) /\ HasLast(asked, RetryOps)
  BY <1>1, NewestOfNone
<1>5. preset.guard = Newest(asked, {"guard"}, [value |-> DefaultOf(kind).guard]).value
  BY <1>1, NewestOfNone
<1>6. preset.retry = NewestRetry.config
  BY <1>1, NewestOfNone DEF NewestRetry
<1>7. Managed
  BY <1>1, NewestOfNone DEF Managed
<1>8. preset.disableRetry <=> kind = UDP
  BY <1>1 DEF DefaultOf, DefaultEdgeHTTPPreset, DefaultInternalRPCPreset, DefaultLowLatencyUDPPreset,
              Kinds, UDP
<1>9. OptionsInv
  BY <1>1, <1>2, <1>3, <1>4, <1>5, <1>6, <1>7, <1>8 DEF OptionsInv
<1> QED BY <1>1, <1>9 DEF PresetInv, StageInv

\* What one more option does to the history.
LEMMA AskedMore ==
  ASSUME OptionsInv, NEW o \in Option(kind), Apply(o)
  PROVE  /\ UNCHANGED <<kind, given, stage>> /\ asked' \in Seq(Option(kind))
         /\ HasLast(asked, {"guard"})' /\ HasLast(asked, {"retry"})' /\ HasLast(asked, RetryOps)'
         /\ Newest(asked', {"guard"}, [value |-> DefaultOf(kind).guard]) =
              IF o.op = "guard" THEN o ELSE Newest(asked, {"guard"}, [value |-> DefaultOf(kind).guard])
         /\ NewestRetry' = IF o.op = "retry" THEN o ELSE NewestRetry
         /\ Managed' <=> IF o.op \in RetryOps THEN o.op = "retry" ELSE Managed
         /\ \A i \in 1..Len(asked) : i \in 1..Len(asked') /\ asked'[i] = asked[i]
         /\ \E i \in 1..Len(asked') : asked'[i] = o
<1>1. asked' = Append(asked, o) /\ UNCHANGED <<kind, given, stage>> /\ asked \in Seq(Option(kind))
  BY DEF Apply, OptionsInv
<1>2. /\ asked' \in Seq(Option(kind)) /\ Len(asked) \in Nat /\ Len(asked') = Len(asked) + 1
      /\ asked'[Len(asked) + 1] = o /\ \A i \in 1..Len(asked) : asked'[i] = asked[i]
  BY <1>1, AppendProperties
<1>3. HasLast(asked, {"guard"}) /\ HasLast(asked, {"retry"}) /\ HasLast(asked, RetryOps)
  BY DEF OptionsInv
<1>4. ASSUME NEW ops, HasLast(asked, ops), NEW none
      PROVE  /\ HasLast(asked', ops)
             /\ Newest(asked', ops, none) = IF o.op \in ops THEN o ELSE Newest(asked, ops, none)
  BY <1>1, <1>4, NewestOfMore
<1>5. HasLast(asked', {"guard"}) /\ HasLast(asked', {"retry"}) /\ HasLast(asked', RetryOps)
  BY <1>3, <1>4
<1>6. Newest(asked', {"guard"}, [value |-> DefaultOf(kind).guard]) =
        IF o.op = "guard" THEN o ELSE Newest(asked, {"guard"}, [value |-> DefaultOf(kind).guard])
  BY <1>3, <1>4
<1>7. NewestRetry' = IF o.op = "retry" THEN o ELSE NewestRetry
  <2>1. NewestRetry' = Newest(asked', {"retry"}, [config |-> DefaultOf(kind).retry])
    BY <1>1 DEF NewestRetry
  <2> QED BY <1>3, <1>4, <2>1 DEF NewestRetry
<1>8. Managed' <=> IF o.op \in RetryOps THEN o.op = "retry" ELSE Managed
  <2>1. Newest(asked', RetryOps, [op |-> "retry"]) =
          IF o.op \in RetryOps THEN o ELSE Newest(asked, RetryOps, [op |-> "retry"])
    BY <1>3, <1>4
  <2> QED BY <2>1 DEF Managed
<1>9. \A i \in 1..Len(asked) : i \in 1..Len(asked') /\ asked'[i] = asked[i]
  BY <1>2
<1>10. \E i \in 1..Len(asked') : asked'[i] = o
  <2>1. Len(asked) + 1 \in 1..Len(asked')
    BY <1>2
  <2> QED BY <1>2, <2>1
<1> QED BY <1>1, <1>2, <1>5, <1>6, <1>7, <1>8, <1>9, <1>10

\* An option leaves a preset that its caller could have meant.
LEMMA OptionStep ==
  ASSUME OptionsInv, NEW o \in Option(kind), ApplyOption(o)
  PROVE  OptionsInv' /\ stage' = "options"
<1> DEFINE negative == \E i \in 1..Len(asked) : asked[i].op = "set" /\ asked[i].value < 0
<1>1. Apply(o) /\ stage = "options"
  BY DEF ApplyOption, Apply
<1>2. /\ kind \in Kinds /\ given \in Config(kind) /\ preset \in PresetType(kind)
      /\ preset.guard = Newest(asked, {"guard"}, [value |-> DefaultOf(kind).guard]).value
      /\ kind # UDP => preset.retry = NewestRetry.config
      /\ preset.disableRetry <=> kind = UDP \/ ~Managed
      /\ \A f \in Fields(kind) : preset.settings[f] >= 0 \/ negative
  BY DEF OptionsInv
<1>3. /\ UNCHANGED <<kind, given, stage>> /\ asked' \in Seq(Option(kind))
      /\ HasLast(asked, {"guard"})' /\ HasLast(asked, {"retry"})' /\ HasLast(asked, RetryOps)'
      /\ Newest(asked', {"guard"}, [value |-> DefaultOf(kind).guard]) =
              IF o.op = "guard" THEN o ELSE Newest(asked, {"guard"}, [value |-> DefaultOf(kind).guard])
      /\ NewestRetry' = IF o.op = "retry" THEN o ELSE NewestRetry
      /\ Managed' <=> IF o.op \in RetryOps THEN o.op = "retry" ELSE Managed
  BY <1>1, AskedMore
<1>4. negative => negative'
  BY <1>1, AskedMore
<1>5. SUFFICES /\ preset' \in PresetType(kind)
               /\ preset'.guard = Newest(asked', {"guard"}, [value |-> DefaultOf(kind).guard]).value
               /\ kind # UDP => preset'.retry = NewestRetry'.config
               /\ preset'.disableRetry <=> kind = UDP \/ ~Managed'
               /\ \A f \in Fields(kind) : preset'.settings[f] >= 0 \/ negative'
  BY <1>1, <1>2, <1>3 DEF OptionsInv
<1> HIDE DEF negative
<1>6. CASE SetTimeout(o)
  <2>1. /\ o.op = "set" /\ preset' = [preset EXCEPT !.settings[o.field] = o.value]
        /\ o.field \in Fields(kind) /\ o.value \in Int
    BY <1>2, <1>6, OptionFacts DEF SetTimeout
  <2>2. o.value < 0 => negative'
    BY <1>1, <2>1, AskedMore DEF negative
  <2>3. /\ preset' \in PresetType(kind) /\ preset'.guard = preset.guard
        /\ preset'.retry = preset.retry /\ preset'.disableRetry = preset.disableRetry
        /\ preset'.settings = [preset.settings EXCEPT ![o.field] = o.value]
        /\ preset.settings \in [Fields(kind) -> Int]
    BY <1>2, <2>1 DEF PresetType
  <2>4. \A f \in Fields(kind) : preset'.settings[f] >= 0 \/ negative'
    BY <1>2, <1>4, <2>1, <2>2, <2>3
  <2> QED BY <1>2, <1>3, <2>1, <2>3, <2>4 DEF RetryOps
<1>7. ASSUME /\ preset' \in PresetType(kind) /\ preset'.settings = preset.settings
             /\ preset'.guard = (IF o.op = "guard" THEN o.value ELSE preset.guard)
             /\ preset'.retry = (IF o.op = "retry" THEN o.config ELSE preset.retry)
             /\ preset'.disableRetry <=> IF o.op \in RetryOps THEN o.op = "disableRetry"
                                         ELSE preset.disableRetry
             /\ o.op \in RetryOps => kind # UDP
      PROVE  /\ preset' \in PresetType(kind)
             /\ preset'.guard = Newest(asked', {"guard"}, [value |-> DefaultOf(kind).guard]).value
             /\ kind # UDP => preset'.retry = NewestRetry'.config
             /\ preset'.disableRetry <=> kind = UDP \/ ~Managed'
             /\ \A f \in Fields(kind) : preset'.settings[f] >= 0 \/ negative'
  BY <1>2, <1>3, <1>4, <1>7 DEF RetryOps
<1>8. CASE SetGuard(o) \/ SetLimit(o)
  <2>1. o.op \in {"guard", "limit"} /\ o.value \in Int
    BY <1>2, <1>8, OptionFacts DEF SetGuard, SetLimit
  <2>2. /\ preset' \in PresetType(kind) /\ preset'.settings = preset.settings
        /\ preset'.guard = (IF o.op = "guard" THEN o.value ELSE preset.guard)
        /\ preset'.retry = preset.retry /\ preset'.disableRetry = preset.disableRetry
    BY <1>2, <1>8, <2>1 DEF SetGuard, SetLimit, PresetType
  <2> QED BY <1>7, <2>1, <2>2 DEF RetryOps
<1>9. CASE SetRetry(o) \/ DisableRetry(o)
  <2>1. o.op \in RetryOps /\ kind # UDP /\ (o.op = "retry" => o.config \in RetrySettings(kind))
    BY <1>2, <1>9, OptionFacts DEF SetRetry, DisableRetry, RetryOps
  <2>2. /\ preset' \in PresetType(kind) /\ preset'.settings = preset.settings
        /\ preset'.guard = preset.guard
        /\ preset'.retry = (IF o.op = "retry" THEN o.config ELSE preset.retry)
        /\ preset'.disableRetry <=> o.op = "disableRetry"
    BY <1>2, <1>9, <2>1 DEF SetRetry, DisableRetry, PresetType
  <2>3. o.op # "guard"
    BY <2>1 DEF RetryOps
  <2> QED BY <1>7, <2>1, <2>2, <2>3
<1>10. CASE AppendOption(o)
  <2>1. o.op = "raw" /\ o.policies \in Seq(Policy) /\ preset.options \in Seq(Policy)
    BY <1>2, <1>10, OptionFacts DEF AppendOption, PresetType
  <2>2. preset.options \o o.policies \in Seq(Policy)
    BY <2>1, ConcatProperties
  <2>3. /\ preset' \in PresetType(kind) /\ preset'.settings = preset.settings
        /\ preset'.guard = preset.guard
        /\ preset'.retry = preset.retry /\ preset'.disableRetry = preset.disableRetry
    BY <1>2, <1>10, <2>2 DEF AppendOption, PresetType
  <2> QED BY <1>7, <2>1, <2>3 DEF RetryOps
<1> QED BY <1>6, <1>8, <1>9, <1>10 DEF ApplyOption

LEMMA PresetStep == PresetInv /\ [Next]_vars => PresetInv'
<1> SUFFICES ASSUME PresetInv, [Next]_vars PROVE PresetInv'
  OBVIOUS
<1>1. ASSUME NEW o \in Options[kind], ApplyOption(o) PROVE PresetInv'
  <2>1. o \in Option(kind)
    BY PresetAssumption DEF PresetInv, OptionsInv
  <2> QED BY <1>1, <2>1, OptionStep DEF PresetInv, StageInv
<1>2. CASE Build
  <2>1. UNCHANGED <<kind, given, preset, asked>>
    BY <1>2 DEF Build
  <2>2. Tuned' = Tuned
    BY <2>1 DEF Tuned, Fill, TuneRetry
  <2>3. (HTTPRetry(Tuned) \o BuildOptions)' = HTTPRetry(Tuned) \o BuildOptions
    BY <2>1, <2>2 DEF HTTPRetry, BuildOptions, Guard, Limit, RPCRetry
  <2>4. OptionsInv'
    BY <2>1 DEF PresetInv, OptionsInv, NewestRetry, Managed
  <2>5. StageInv'
    BY <1>2, <2>2, <2>3 DEF Build, StageInv
  <2> QED BY <2>4, <2>5 DEF PresetInv
<1>3. CASE UNCHANGED vars
  <2>1. UNCHANGED <<kind, given, preset, stage, client, asked>>
    BY <1>3 DEF vars
  <2>2. Tuned' = Tuned
    BY <2>1 DEF Tuned, Fill, TuneRetry
  <2>3. (HTTPRetry(Tuned) \o BuildOptions)' = HTTPRetry(Tuned) \o BuildOptions
    BY <2>1, <2>2 DEF HTTPRetry, BuildOptions, Guard, Limit, RPCRetry
  <2>4. OptionsInv'
    BY <2>1 DEF PresetInv, OptionsInv, NewestRetry, Managed
  <2>5. StageInv'
    BY <2>1, <2>2, <2>3 DEF PresetInv, StageInv
  <2> QED BY <2>4, <2>5 DEF PresetInv
<1> QED BY <1>1, <1>2, <1>3 DEF Next, Returned

-----------------------------------------------------------------------------
(***************************************************************************)
(* The configuration.                                                      *)
(***************************************************************************)

LEMMA TunedType ==
  ASSUME OptionsInv
  PROVE  /\ Tuned.settings \in [Fields(kind) -> Int]
         /\ \A f \in Fields(kind) :
              Tuned.settings[f] = IF given.settings[f] = 0 THEN preset.settings[f]
                                  ELSE given.settings[f]
         /\ Tuned.retry = IF kind = "edgeHTTP" THEN TuneRetry ELSE NoRetryConfig
<1>1. given.settings \in [Fields(kind) -> Int] /\ preset.settings \in [Fields(kind) -> Int]
  BY DEF OptionsInv, Config, PresetType
<1> QED BY <1>1 DEF Tuned, Fill

\* The retry settings of the caller or the preset's, but for what enables them.
LEMMA TunedRetry ==
  ASSUME OptionsInv, kind = "edgeHTTP"
  PROVE  /\ preset.retry \in RetryConfig /\ given.retry \in RetryConfig
         /\ TuneRetry \in RetryConfig
         /\ preset.disableRetry => TuneRetry = given.retry
         /\ ~preset.disableRetry =>
              LET r == IF given.retry = NoRetryConfig THEN preset.retry ELSE given.retry
              IN  TuneRetry = [r EXCEPT !.enabled = r.enabled \/ HasRetryHint(r)]
<1>1. preset.retry \in RetryConfig /\ given.retry \in RetryConfig
  BY DEF OptionsInv, PresetType, RetrySettings, Config
<1> DEFINE r == IF given.retry = NoRetryConfig THEN preset.retry ELSE given.retry
<1>2. r \in RetryConfig
  BY <1>1
<1>3. r.enabled \in BOOLEAN /\ HasRetryHint(r) \in BOOLEAN
  BY <1>2 DEF RetryConfig, HasRetryHint
<1>4. ASSUME NEW c \in RetryConfig, NEW b \in BOOLEAN PROVE [c EXCEPT !.enabled = b] \in RetryConfig
  BY <1>4 DEF RetryConfig
<1>5. (r.enabled \/ HasRetryHint(r)) \in BOOLEAN
  BY <1>3
<1>6. [r EXCEPT !.enabled = r.enabled \/ HasRetryHint(r)] \in RetryConfig
  BY <1>2, <1>4, <1>5
<1>7. TuneRetry = IF preset.disableRetry THEN given.retry
                  ELSE [r EXCEPT !.enabled = r.enabled \/ HasRetryHint(r)]
  BY DEF TuneRetry
<1> QED BY <1>1, <1>6, <1>7

LEMMA OneType ==
  ASSUME NEW condition, NEW type \in {"timeout", "limit", "retry"}, NEW value \in Int
  PROVE  One(condition, type, value) \in Seq(Policy)
<1>1. ASSUME NEW S, NEW x \in S PROVE <<x>> \in Seq(S)
  OBVIOUS
<1>2. [type |-> type, value |-> value] \in Policy
  BY DEF Policy
<1>3. <<[type |-> type, value |-> value]>> \in Seq(Policy)
  BY <1>1, <1>2
<1>4. CASE condition
  BY <1>3, <1>4 DEF One
<1>5. CASE ~condition
  BY <1>5 DEF One
<1> QED BY <1>4, <1>5

\* The parts of the list of policies.
LEMMA PartsType ==
  ASSUME OptionsInv
  PROVE  /\ HTTPRetry(Tuned) \in Seq(Policy) /\ Guard \in Seq(Policy) /\ Limit \in Seq(Policy)
         /\ RPCRetry \in Seq(Policy) /\ preset.options \in Seq(Policy)
<1>1. /\ preset.guard \in Int /\ preset.limit \in Int /\ preset.options \in Seq(Policy)
      /\ preset.retry \in RetrySettings(kind)
  BY DEF OptionsInv, PresetType
<1>2. HTTPRetry(Tuned) \in Seq(Policy)
  <2>1. CASE kind # "edgeHTTP"
    BY <2>1 DEF HTTPRetry, One
  <2>2. CASE kind = "edgeHTTP"
    <3>1. Tuned.retry = TuneRetry
      BY <2>2, TunedType
    <3>2. Tuned.retry.maxRetries \in Int
      BY <2>2, <3>1, TunedRetry DEF RetryConfig
    <3>3. (IF Tuned.retry.maxRetries >= 0 THEN Tuned.retry.maxRetries + 1 ELSE 1) \in Int
      BY <3>2
    <3> QED BY <3>3, OneType DEF HTTPRetry
  <2> QED BY <2>1, <2>2
<1>3. RPCRetry \in Seq(Policy)
  <2>1. (IF kind # "internalRPC" \/ preset.retry <= 0 THEN 3 ELSE preset.retry) \in Int
    BY <1>1 DEF RetrySettings
  <2> QED BY <2>1, OneType DEF RPCRetry
<1>4. Guard \in Seq(Policy) /\ Limit \in Seq(Policy)
  BY <1>1, OneType DEF Guard, Limit
<1> QED BY <1>1, <1>2, <1>3, <1>4

LEMMA PoliciesType ==
  ASSUME OptionsInv
  PROVE  HTTPRetry(Tuned) \o BuildOptions \in Seq(Policy)
BY PartsType, ConcatProperties DEF BuildOptions

\* The history is typed, and what is built has no negative setting and none
\* but policies.
THEOREM PresetsTyped == Spec => []TypeOK
<1>1. PresetInv => TypeOK
  <2> SUFFICES ASSUME PresetInv PROVE TypeOK
    OBVIOUS
  <2>1. /\ kind \in Kinds /\ given \in Config(kind) /\ preset \in PresetType(kind)
        /\ asked \in Seq(Option(kind)) /\ stage \in {"options", "built", "refused"}
    BY DEF PresetInv, OptionsInv, StageInv
  <2>2. ASSUME stage = "built"
        PROVE  client.settings \in [Fields(kind) -> Nat] /\ client.policies \in Seq(Policy)
    <3>1. /\ Valid(Tuned) /\ client.settings = Normalized(Tuned).settings
          /\ client.policies = HTTPRetry(Tuned) \o BuildOptions
      BY <2>2 DEF PresetInv, StageInv
    <3>2. Tuned.settings \in [Fields(kind) -> Int]
      BY TunedType DEF PresetInv
    <3>3. \A f \in Fields(kind) : Tuned.settings[f] \in Nat
      BY <3>1, <3>2 DEF Valid
    <3>4. client.settings = [f \in Fields(kind) |->
            IF Tuned.settings[f] # 0 THEN Tuned.settings[f]
            ELSE IF f = "timeout" THEN 30000 ELSE IF f = "dial" THEN 5000 ELSE 0]
      BY <3>1, <3>2 DEF Normalized, Tuned
    <3>5. client.settings \in [Fields(kind) -> Nat]
      BY <3>3, <3>4
    <3>6. client.policies \in Seq(Policy)
      BY <3>1, PoliciesType DEF PresetInv
    <3> QED BY <3>5, <3>6
  <2> QED BY <2>1, <2>2 DEF TypeOK, PresetType
<1> QED BY <1>1, PresetInit, PresetStep, PTL DEF Spec

\* RefusesNothingMore: tuning keeps a valid configuration valid.
THEOREM NothingMoreRefused == Spec => []RefusesNothingMore
<1>1. PresetInv => RefusesNothingMore
  <2> SUFFICES ASSUME PresetInv, stage = "refused", Valid(given),
                      \A i \in 1..Len(asked) :
                        /\ ~(asked[i].op = "set" /\ asked[i].value < 0)
                        /\ ~(kind = "edgeHTTP" /\ asked[i].op = "retry"
                               /\ ~Valid([given EXCEPT !.retry = asked[i].config]))
               PROVE  FALSE
    BY DEF RefusesNothingMore
  <2>1. OptionsInv /\ ~Valid(Tuned)
    BY DEF PresetInv, StageInv
  <2>2. /\ given \in Config(kind) /\ preset.settings \in [Fields(kind) -> Int]
        /\ given.settings \in [Fields(kind) -> Int] /\ DOMAIN given.settings = Fields(kind)
    BY <2>1 DEF OptionsInv, Config, PresetType
  <2>3. Tuned.settings \in [Fields(kind) -> Int] /\ DOMAIN Tuned.settings = Fields(kind)
    BY <2>1, TunedType
  <2>4. ASSUME NEW f \in Fields(kind) PROVE Tuned.settings[f] >= 0
    <3>1. given.settings[f] >= 0 /\ preset.settings[f] >= 0
      BY <2>1, <2>2 DEF Valid, OptionsInv
    <3> QED BY <2>1, <3>1, TunedType
  <2> DEFINE Good(r) == /\ r.maxRetries >= 0 /\ r.waitMin >= 0 /\ r.waitMax >= 0
                        /\ r.waitMax > 0 => r.waitMin <= r.waitMax
  <2>5. ~Good(Tuned.retry)
    BY <2>1, <2>3, <2>4 DEF Valid
  <2>6. Good(given.retry)
    BY DEF Valid
  <2>7. CASE kind # "edgeHTTP"
    <3>1. Tuned.retry = NoRetryConfig
      BY <2>1, <2>7, TunedType
    <3> QED BY <2>5, <3>1 DEF NoRetryConfig
  <2>8. CASE kind = "edgeHTTP"
    <3>1. Tuned.retry = TuneRetry /\ preset.retry \in RetryConfig /\ given.retry \in RetryConfig
      BY <2>1, <2>8, TunedType, TunedRetry
    <3>2. Good(preset.retry)
      <4>1. HasLast(asked, {"retry"}) /\ asked \in Seq(Option(kind)) /\ kind # UDP
            /\ preset.retry = NewestRetry.config
        BY <2>1, <2>8 DEF OptionsInv, UDP
      <4>2. CASE OptionsOf({"retry"}) = {}
        <5>1. preset.retry = DefaultOf(kind).retry
          BY <4>1, <4>2, LastOption DEF NewestRetry
        <5>2. DefaultOf(kind) = DefaultEdgeHTTPPreset
          BY <2>8 DEF DefaultOf
        <5> QED BY <5>1, <5>2 DEF DefaultEdgeHTTPPreset
      <4>3. CASE OptionsOf({"retry"}) # {}
        <5>1. PICK i \in 1..Len(asked) : asked[i].op = "retry" /\ preset.retry = asked[i].config
          BY <4>1, <4>3, LastOption DEF NewestRetry
        <5>2. Valid([given EXCEPT !.retry = preset.retry])
          BY <2>8, <5>1
        <5>3. [given EXCEPT !.retry = preset.retry].retry = preset.retry
          BY <2>2 DEF Config
        <5> HIDE DEF Good
        <5> QED BY <5>2, <5>3 DEF Valid, Good
      <4> QED BY <4>2, <4>3
    <3>3. CASE preset.disableRetry
      BY <2>1, <2>5, <2>6, <2>8, <3>1, <3>3, TunedRetry
    <3>4. CASE ~preset.disableRetry
      <4> DEFINE r == IF given.retry = NoRetryConfig THEN preset.retry ELSE given.retry
      <4>1. r \in RetryConfig /\ Good(r)
        BY <2>6, <3>1, <3>2
      <4>2. Tuned.retry = [r EXCEPT !.enabled = r.enabled \/ HasRetryHint(r)]
        BY <2>1, <2>8, <3>1, <3>4, TunedRetry
      <4> HIDE DEF r
      <4>3. /\ Tuned.retry.maxRetries = r.maxRetries /\ Tuned.retry.waitMin = r.waitMin
            /\ Tuned.retry.waitMax = r.waitMax
        BY <4>1, <4>2 DEF RetryConfig
      <4> QED BY <2>5, <4>1, <4>3
    <3> QED BY <3>3, <3>4
  <2> QED BY <2>7, <2>8
<1> QED BY <1>1, PresetInit, PresetStep, PTL DEF Spec

-----------------------------------------------------------------------------
(***************************************************************************)
(* The policies.                                                           *)
(***************************************************************************)

\* A list without retry policies, and one with a single retry policy that
\* makes v attempts.
NoRetry(s) == \A i \in 1..Len(s) : s[i].type # "retry"
OneRetry(s, v) ==
  \E i \in 1..Len(s) : /\ s[i].type = "retry" /\ s[i].value = v
                       /\ \A j \in 1..Len(s) : s[j].type = "retry" => j = i

\* Places in a list made of two.
LEMMA Places ==
  ASSUME NEW S, NEW s \in Seq(S), NEW t \in Seq(S)
  PROVE  /\ s \o t \in Seq(S) /\ Len(s) \in Nat /\ Len(t) \in Nat
         /\ \A i \in 1..Len(s) : i \in 1..Len(s \o t) /\ (s \o t)[i] = s[i]
         /\ \A i \in 1..Len(t) : Len(s) + i \in 1..Len(s \o t) /\ (s \o t)[Len(s) + i] = t[i]
         /\ \A i \in 1..Len(s \o t) :
              \/ i \in 1..Len(s)
              \/ (i - Len(s) \in 1..Len(t) /\ (s \o t)[i] = t[i - Len(s)])
<1>1. /\ s \o t \in Seq(S) /\ Len(s) \in Nat /\ Len(t) \in Nat
      /\ Len(s \o t) = Len(s) + Len(t)
      /\ \A i \in 1..Len(s) + Len(t) :
           (s \o t)[i] = IF i <= Len(s) THEN s[i] ELSE t[i - Len(s)]
  BY ConcatProperties
<1> DEFINE u == s \o t
           m == Len(s)
           n == Len(t)
<1>2. /\ m \in Nat /\ n \in Nat /\ Len(u) = m + n
      /\ \A i \in 1..m + n : u[i] = IF i <= m THEN s[i] ELSE t[i - m]
  BY <1>1
<1> HIDE DEF u, m, n
<1>3. \A i \in 1..m : i \in 1..Len(u) /\ u[i] = s[i]
  BY <1>2
<1>4. ASSUME NEW i \in 1..n PROVE m + i \in 1..Len(u) /\ u[m + i] = t[i]
  <2>1. m + i \in 1..(m + n) /\ ~(m + i <= m) /\ (m + i) - m = i
    BY <1>2
  <2> QED BY <1>2, <2>1
<1>5. ASSUME NEW i \in 1..Len(u) PROVE i \in 1..m \/ (i - m \in 1..n /\ u[i] = t[i - m])
  <2>1. i \in 1..(m + n) /\ (i <= m => i \in 1..m) /\ (~(i <= m) => i - m \in 1..n)
    BY <1>2
  <2> QED BY <1>2, <2>1
<1> QED BY <1>1, <1>3, <1>4, <1>5 DEF u, m, n

LEMMA FirstOfBoth ==
  ASSUME NEW s \in Seq(Policy), NEW t \in Seq(Policy), 1 \in 1..Len(s)
  PROVE  s \o t \in Seq(Policy) /\ 1 \in 1..Len(s \o t) /\ (s \o t)[1] = s[1]
BY Places

LEMMA RetriesOfBoth ==
  ASSUME NEW s \in Seq(Policy), NEW t \in Seq(Policy), NEW v
  PROVE  /\ s \o t \in Seq(Policy)
         /\ NoRetry(s) /\ NoRetry(t) => NoRetry(s \o t)
         /\ OneRetry(s, v) /\ NoRetry(t) => OneRetry(s \o t, v)
         /\ NoRetry(s) /\ OneRetry(t, v) => OneRetry(s \o t, v)
<1> DEFINE u == s \o t
           m == Len(s)
<1>1. /\ u \in Seq(Policy) /\ m \in Nat /\ Len(t) \in Nat
      /\ \A i \in 1..m : i \in 1..Len(u) /\ u[i] = s[i]
      /\ \A i \in 1..Len(t) : m + i \in 1..Len(u) /\ u[m + i] = t[i]
      /\ \A i \in 1..Len(u) : i \in 1..m \/ (i - m \in 1..Len(t) /\ u[i] = t[i - m])
  BY Places
<1> HIDE DEF u
<1>2. ASSUME NoRetry(s), NoRetry(t) PROVE NoRetry(u)
  BY <1>1, <1>2 DEF NoRetry
<1>3. ASSUME OneRetry(s, v), NoRetry(t) PROVE OneRetry(u, v)
  <2>1. PICK i \in 1..m : /\ s[i].type = "retry" /\ s[i].value = v
                          /\ \A j \in 1..m : s[j].type = "retry" => j = i
    BY <1>3 DEF OneRetry
  <2>2. i \in 1..Len(u) /\ u[i] = s[i]
    BY <1>1
  <2>3. ASSUME NEW j \in 1..Len(u), u[j].type = "retry" PROVE j = i
    BY <1>1, <1>3, <2>1, <2>3 DEF NoRetry
  <2> QED BY <2>1, <2>2, <2>3 DEF OneRetry
<1>4. ASSUME NoRetry(s), OneRetry(t, v) PROVE OneRetry(u, v)
  <2>1. PICK i \in 1..Len(t) : /\ t[i].type = "retry" /\ t[i].value = v
                               /\ \A j \in 1..Len(t) : t[j].type = "retry" => j = i
    BY <1>4 DEF OneRetry
  <2>2. m + i \in 1..Len(u) /\ u[m + i] = t[i]
    BY <1>1
  <2>3. ASSUME NEW j \in 1..Len(u), u[j].type = "retry" PROVE j = m + i
    <3>1. j - m \in 1..Len(t) /\ u[j] = t[j - m]
      BY <1>1, <1>4, <2>3 DEF NoRetry
    <3>2. j - m = i
      BY <2>1, <2>3, <3>1
    <3> QED BY <1>1, <3>2
  <2> QED BY <2>1, <2>2, <2>3 DEF OneRetry
<1> QED BY <1>1, <1>2, <1>3, <1>4 DEF u

\* A policy that is there alone.
LEMMA OneIs ==
  ASSUME NEW condition \in BOOLEAN, NEW type, NEW value
  PROVE  /\ ~condition => One(condition, type, value) = <<>>
         /\ condition => /\ Len(One(condition, type, value)) = 1
                         /\ One(condition, type, value)[1] = [type |-> type, value |-> value]
         /\ \A i \in 1..Len(One(condition, type, value)) : One(condition, type, value)[i].type = type
BY DEF One

LEMMA OneRetries ==
  ASSUME NEW condition \in BOOLEAN, NEW type, NEW value
  PROVE  /\ ~condition \/ type # "retry" => NoRetry(One(condition, type, value))
         /\ condition /\ type = "retry" => OneRetry(One(condition, type, value), value)
<1> DEFINE one == One(condition, type, value)
<1>1. /\ ~condition => one = <<>>
      /\ condition => Len(one) = 1 /\ one[1] = [type |-> type, value |-> value]
      /\ \A i \in 1..Len(one) : one[i].type = type
  BY OneIs
<1> HIDE DEF one
<1>2. ~condition => NoRetry(one)
  BY <1>1 DEF NoRetry
<1>3. type # "retry" => NoRetry(one)
  BY <1>1 DEF NoRetry
<1>4. ASSUME condition, type = "retry" PROVE OneRetry(one, value)
  <2>1. Len(one) = 1 /\ one[1] = [type |-> type, value |-> value]
    BY <1>1, <1>4, Zenon
  <2>2. 1 \in 1..Len(one) /\ \A j \in 1..Len(one) : j = 1
    BY <2>1
  <2>3. one[1].type = "retry" /\ one[1].value = value
    BY <1>4, <2>1
  <2> QED BY <2>2, <2>3 DEF OneRetry
<1> QED BY <1>2, <1>3, <1>4 DEF one

\* GuardBeforeLimits: only the retries of the configuration stand before the
\* guard, and the guard is that of the last guard option.
THEOREM GuardStandsFirst == Spec => []GuardBeforeLimits
<1>1. PresetInv => GuardBeforeLimits
  <2> SUFFICES ASSUME PresetInv, Built, preset.guard > 0
               PROVE  \E i \in 1..Len(client.policies) :
                        /\ client.policies[i] =
                             [type |-> "timeout",
                              value |-> IF OptionsOf({"guard"}) = {} THEN preset.guard
                                        ELSE asked[Last({"guard"})].value]
                        /\ \A j \in 1..(i - 1) : client.policies[j].type \notin {"limit", "user"}
    BY DEF GuardBeforeLimits
  <2> DEFINE first == HTTPRetry(Tuned)
             rest == BuildOptions
             n == Len(first)
  <2>1. OptionsInv /\ client.policies = first \o rest
    BY DEF PresetInv, StageInv, Built
  <2>2. /\ first \in Seq(Policy) /\ Guard \in Seq(Policy) /\ Limit \in Seq(Policy)
        /\ RPCRetry \in Seq(Policy) /\ preset.options \in Seq(Policy)
    BY <2>1, PartsType
  <2>3. \A j \in 1..n : first[j].type = "retry"
    <3>1. CASE first = <<>>
      BY <3>1
    <3>2. CASE first # <<>>
      <4>1. PICK value : first = <<[type |-> "retry", value |-> value]>>
        BY <3>2 DEF HTTPRetry, One
      <4> HIDE DEF first
      <4> QED BY <4>1
    <3> QED BY <3>1, <3>2
  <2>4. Len(Guard) = 1 /\ Guard[1] = [type |-> "timeout", value |-> preset.guard]
    BY OneIs DEF Guard
  <2>5. rest \in Seq(Policy) /\ 1 \in 1..Len(rest) /\ rest[1] = Guard[1]
    <3> DEFINE two == Guard \o Limit
               three == two \o RPCRetry
               options == preset.options
    <3>1. 1 \in 1..Len(Guard) /\ options \in Seq(Policy)
      BY <2>2, <2>4
    <3>2. rest = three \o options
      BY DEF BuildOptions
    <3> HIDE DEF options, rest
    <3>3. two \in Seq(Policy) /\ 1 \in 1..Len(two) /\ two[1] = Guard[1]
      BY <2>2, <3>1, FirstOfBoth
    <3> HIDE DEF two
    <3>4. three \in Seq(Policy) /\ 1 \in 1..Len(three) /\ three[1] = Guard[1]
      BY <2>2, <3>3, FirstOfBoth
    <3> HIDE DEF three
    <3>5. /\ three \o options \in Seq(Policy) /\ 1 \in 1..Len(three \o options)
          /\ (three \o options)[1] = Guard[1]
      BY <3>1, <3>4, FirstOfBoth
    <3> QED BY <3>2, <3>5
  <2> HIDE DEF first, rest
  <2>6. /\ n \in Nat /\ n + 1 \in 1..Len(first \o rest) /\ (first \o rest)[n + 1] = rest[1]
        /\ \A j \in 1..n : (first \o rest)[j] = first[j]
    BY <2>2, <2>5, Places
  <2>7. preset.guard = IF OptionsOf({"guard"}) = {} THEN preset.guard
                       ELSE asked[Last({"guard"})].value
    BY <2>1, LastOption DEF OptionsInv
  <2>8. \A j \in 1..(n + 1 - 1) : (first \o rest)[j].type \notin {"limit", "user"}
    BY <2>3, <2>6
  <2>9. (first \o rest)[n + 1] =
          [type |-> "timeout", value |-> IF OptionsOf({"guard"}) = {} THEN preset.guard
                                         ELSE asked[Last({"guard"})].value]
    BY <2>4, <2>5, <2>6, <2>7
  <2> QED BY <2>1, <2>6, <2>8, <2>9
<1> QED BY <1>1, PresetInit, PresetStep, PTL DEF Spec

\* The retries of the client are those of its first or its third part, where
\* the raw options bring none.
LEMMA RetriesOfClient ==
  ASSUME OptionsInv, NoRetry(preset.options), NEW v
  PROVE  /\ NoRetry(HTTPRetry(Tuned)) /\ NoRetry(RPCRetry) => NoRetry(HTTPRetry(Tuned) \o BuildOptions)
         /\ OneRetry(HTTPRetry(Tuned), v) /\ NoRetry(RPCRetry)
              => OneRetry(HTTPRetry(Tuned) \o BuildOptions, v)
         /\ NoRetry(HTTPRetry(Tuned)) /\ OneRetry(RPCRetry, v)
              => OneRetry(HTTPRetry(Tuned) \o BuildOptions, v)
<1> DEFINE first == HTTPRetry(Tuned)
           two == Guard \o Limit
           rpc == RPCRetry
           three == two \o rpc
           options == preset.options
           rest == BuildOptions
<1>1. /\ first \in Seq(Policy) /\ Guard \in Seq(Policy) /\ Limit \in Seq(Policy)
      /\ rpc \in Seq(Policy) /\ options \in Seq(Policy) /\ NoRetry(options)
  BY PartsType
<1>2. NoRetry(Guard) /\ NoRetry(Limit)
  <2>1. (preset.guard > 0) \in BOOLEAN /\ (preset.limit > 0) \in BOOLEAN
    BY DEF OptionsInv, PresetType
  <2> QED BY <2>1, OneRetries DEF Guard, Limit
<1>3. rest = three \o options
  BY DEF BuildOptions
<1>4. two \in Seq(Policy) /\ NoRetry(two)
  BY <1>1, <1>2, RetriesOfBoth
<1> HIDE DEF first, two, rpc, options, rest
<1>5. /\ three \in Seq(Policy)
      /\ NoRetry(rpc) => NoRetry(three)
      /\ OneRetry(rpc, v) => OneRetry(three, v)
  BY <1>1, <1>4, RetriesOfBoth
<1> HIDE DEF three
<1>6. /\ rest \in Seq(Policy)
      /\ NoRetry(rpc) => NoRetry(rest)
      /\ OneRetry(rpc, v) => OneRetry(rest, v)
  BY <1>1, <1>3, <1>5, RetriesOfBoth
<1>7. /\ NoRetry(first) /\ NoRetry(rpc) => NoRetry(first \o rest)
      /\ OneRetry(first, v) /\ NoRetry(rpc) => OneRetry(first \o rest, v)
      /\ NoRetry(first) /\ OneRetry(rpc, v) => OneRetry(first \o rest, v)
  BY <1>1, <1>6, RetriesOfBoth
<1> QED BY <1>7 DEF first, rpc, rest

\* RetriesAsked: the preset knows what the options ask for, and its list has
\* room for one retry policy.
THEOREM RetriesAreAsked == Spec => []RetriesAsked
<1> DEFINE managed == OptionsOf(RetryOps) = {} \/ asked[Last(RetryOps)].op = "retry"
           default == IF kind = "edgeHTTP" THEN DefaultEdgeHTTPPreset.retry
                      ELSE DefaultInternalRPCPreset.retry
           own == IF OptionsOf({"retry"}) = {} THEN default ELSE asked[Last({"retry"})].config
           wanted == IF given.retry = NoRetryConfig /\ managed THEN own ELSE given.retry
           attempts ==
             CASE kind = "edgeHTTP" -> IF wanted.enabled \/ (managed /\ HasRetryHint(wanted))
                                       THEN wanted.maxRetries + 1 ELSE 0
               [] kind = "internalRPC" -> IF ~managed THEN 0 ELSE IF own <= 0 THEN 3 ELSE own
               [] kind = "lowLatencyUDP" -> 0
           policies == HTTPRetry(Tuned) \o BuildOptions
           first == HTTPRetry(Tuned)
           rpc == RPCRetry
<1>1. ASSUME PresetInv, Built, NoRetry(preset.options)
      PROVE  IF attempts = 0 THEN NoRetry(policies) ELSE OneRetry(policies, attempts)
  <2>1. OptionsInv /\ Valid(Tuned) /\ client.policies = policies /\ kind \in Kinds
    BY <1>1 DEF PresetInv, StageInv, Built, OptionsInv
  <2>2. Managed <=> managed
    BY <2>1, LastOption DEF OptionsInv, Managed
  <2>3. kind # UDP => preset.retry = own
    <3>1. kind # UDP => DefaultOf(kind).retry = default
      BY <2>1 DEF DefaultOf, Kinds, UDP
    <3>2. NewestRetry.config = IF OptionsOf({"retry"}) = {} THEN DefaultOf(kind).retry
                               ELSE asked[Last({"retry"})].config
      BY <2>1, LastOption DEF OptionsInv, NewestRetry
    <3> QED BY <2>1, <3>1, <3>2 DEF OptionsInv
  <2>4. (preset.disableRetry <=> (kind = UDP \/ ~managed)) /\ preset.disableRetry \in BOOLEAN
    BY <2>1, <2>2 DEF OptionsInv, PresetType
  <2> HIDE DEF managed, own, policies, first, rpc
  <2>5. /\ NoRetry(first) /\ NoRetry(rpc) => NoRetry(policies)
        /\ \A v : OneRetry(first, v) /\ NoRetry(rpc) => OneRetry(policies, v)
        /\ \A v : NoRetry(first) /\ OneRetry(rpc, v) => OneRetry(policies, v)
    BY <1>1, <2>1, RetriesOfClient DEF policies, first, rpc
  <2>6. kind # "edgeHTTP" => NoRetry(first)
    BY DEF NoRetry, first, HTTPRetry, One
  <2>7. kind # "internalRPC" => NoRetry(rpc)
    BY DEF NoRetry, rpc, RPCRetry, One
  <2>8. CASE kind = "edgeHTTP"
    <3>1. /\ Tuned.retry = TuneRetry /\ given.retry \in RetryConfig /\ preset.retry \in RetryConfig
          /\ (~preset.disableRetry <=> managed) /\ preset.retry = own
      BY <2>1, <2>3, <2>4, <2>8, TunedType, TunedRetry DEF UDP
    <3> DEFINE hint == HasRetryHint(wanted)
    <3>2. wanted \in RetryConfig /\ hint \in BOOLEAN
      BY <3>1 DEF HasRetryHint
    <3>3. Tuned.retry = IF managed THEN [wanted EXCEPT !.enabled = wanted.enabled \/ hint]
                        ELSE wanted
      BY <2>1, <2>8, <3>1, TunedRetry
    <3> HIDE DEF wanted, hint
    <3>4. /\ Tuned.retry.enabled <=> wanted.enabled \/ (managed /\ hint)
          /\ Tuned.retry.enabled \in BOOLEAN /\ Tuned.retry.maxRetries = wanted.maxRetries
      BY <2>4, <3>2, <3>3 DEF RetryConfig
    <3>5. Tuned.retry.maxRetries \in Nat
      BY <2>1, <3>2, <3>4 DEF Valid, RetryConfig
    <3>6. first = One(Tuned.retry.enabled, "retry", Tuned.retry.maxRetries + 1)
      BY <2>8, <3>5 DEF first, HTTPRetry, One
    <3>7. attempts = IF Tuned.retry.enabled THEN Tuned.retry.maxRetries + 1 ELSE 0
      BY <2>8, <3>4 DEF hint
    <3>8. /\ Tuned.retry.enabled => OneRetry(first, Tuned.retry.maxRetries + 1)
          /\ ~Tuned.retry.enabled => NoRetry(first)
      BY <3>4, <3>6, OneRetries
    <3>9. NoRetry(rpc) /\ Tuned.retry.maxRetries + 1 # 0
      BY <2>7, <2>8, <3>5
    <3> HIDE DEF attempts
    <3> QED BY <2>5, <3>7, <3>8, <3>9
  <2>9. CASE kind = "internalRPC"
    <3>1. (~preset.disableRetry <=> managed) /\ preset.retry = own
      BY <2>3, <2>4, <2>9 DEF UDP
    <3>2. own \in Int
      BY <2>1, <2>9, <3>1 DEF OptionsInv, PresetType, RetrySettings
    <3> DEFINE n == IF own <= 0 THEN 3 ELSE own
    <3>3. rpc = One(~preset.disableRetry, "retry", n)
      BY <2>9, <3>1 DEF rpc, RPCRetry, One
    <3>4. attempts = (IF ~preset.disableRetry THEN n ELSE 0) /\ n # 0
      BY <2>9, <3>1, <3>2
    <3> HIDE DEF n, attempts
    <3>5. /\ ~preset.disableRetry => OneRetry(rpc, n)
          /\ preset.disableRetry => NoRetry(rpc)
      BY <2>4, <3>3, OneRetries
    <3> QED BY <2>5, <2>6, <2>9, <3>4, <3>5
  <2>10. CASE kind = "lowLatencyUDP"
    BY <2>5, <2>6, <2>7, <2>10
  <2> QED BY <2>1, <2>8, <2>9, <2>10 DEF Kinds
<1>2. ASSUME PresetInv, Built, NoRetry(preset.options)
      PROVE  LET retrying == {i \in 1..Len(client.policies) : client.policies[i].type = "retry"}
             IN  IF attempts = 0 THEN retrying = {}
                 ELSE \E i \in retrying : retrying = {i} /\ client.policies[i].value = attempts
  <2> DEFINE retrying == {i \in 1..Len(client.policies) : client.policies[i].type = "retry"}
  <2>1. client.policies = policies
    BY <1>2 DEF PresetInv, StageInv, Built
  <2> HIDE DEF attempts, policies
  <2>2. CASE attempts = 0
    BY <1>1, <1>2, <2>1, <2>2 DEF NoRetry
  <2>3. CASE attempts # 0
    <3>1. PICK i \in 1..Len(policies) :
            /\ policies[i].type = "retry" /\ policies[i].value = attempts
            /\ \A j \in 1..Len(policies) : policies[j].type = "retry" => j = i
      BY <1>1, <1>2, <2>3 DEF OneRetry
    <3>2. i \in retrying /\ retrying = {i} /\ client.policies[i].value = attempts
      BY <2>1, <3>1
    <3> QED BY <2>3, <3>2
  <2> QED BY <2>2, <2>3
<1>3. PresetInv => RetriesAsked
  BY <1>2 DEF RetriesAsked, NoRetry, RetryOps
<1> QED BY <1>3, PresetInit, PresetStep, PTL DEF Spec
=============================================================================
