---------------------------- MODULE RetryBackoff ----------------------------
(***************************************************************************)
(* How long a retry waits: NewRetryPolicy's defaults, the exponential      *)
(* back-off with its cap and jitter (policy_retry.go), and the policy that  *)
(* http.New makes of a RetryConfig.  Durations are integers of Width bits.  *)
(* The code computes in float64 and converts back; a float too large for   *)
(* the integer type converts to whatever the platform makes of it: the     *)
(* least integer on amd64, the greatest on arm64.                          *)
(***************************************************************************)
EXTENDS Integers

CONSTANTS
  Width,           \* bits of a time.Duration and of an int
  DefaultAttempts, DefaultBase, DefaultCap,  \* 3, 100ms and 2s in the code
  Ratio,           \* the unit of JitterRatio: Ratio stands for 1.0
  PolicyConfigs,   \* RetryPolicyConfigs passed to NewRetryPolicy
  HTTPConfigs      \* the RetryConfigs passed to http.New, Enabled

MaxInt == 2^(Width - 1) - 1
MinInt == -MaxInt - 1
Ints == MinInt..MaxInt

Config == [attempts : Ints, base : Ints, cap : Ints, multiplier : Int, jitter : Int]
RetryConfig == [maxRetries : 0..MaxInt, waitMin : 0..MaxInt, waitMax : 0..MaxInt]

ASSUME BackoffAssumption ==
  /\ Width \in Nat \ {0} /\ MaxInt \in Nat
  /\ DefaultAttempts \in 1..MaxInt /\ DefaultBase \in 1..MaxInt /\ DefaultCap \in 1..MaxInt
  /\ Ratio \in Nat \ {0}
  /\ PolicyConfigs \subseteq Config
  /\ HTTPConfigs \subseteq RetryConfig

VARIABLES
  given,    \* the RetryConfig, if the policy was made from one
  policy,   \* the retry policy
  attempt,  \* the attempt that has just failed, 0 before the first
  wait      \* the wait decided upon after it

vars == <<given, policy, attempt, wait>>

Larger(x, y) == IF x >= y THEN x ELSE y

-----------------------------------------------------------------------------

\* NewRetryPolicy
OrDefault(x, default) == IF x <= 0 THEN default ELSE x

\* Faulty variant: a cap below the base delay is kept.
NewRetryPolicyLowCap(c) ==
  [attempts |-> OrDefault(c.attempts, DefaultAttempts),
   base |-> OrDefault(c.base, DefaultBase),
   cap |-> OrDefault(c.cap, DefaultCap),
   multiplier |-> IF c.multiplier < 1 THEN 2 ELSE c.multiplier,
   jitter |-> IF c.jitter < 0 THEN 0 ELSE IF c.jitter > Ratio THEN Ratio ELSE c.jitter]

NewRetryPolicy(c) ==
  LET base == OrDefault(c.base, DefaultBase)
  IN  [attempts |-> OrDefault(c.attempts, DefaultAttempts),
       base |-> base,
       cap |-> Larger(OrDefault(c.cap, DefaultCap), base),
       multiplier |-> IF c.multiplier < 1 THEN 2 ELSE c.multiplier,
       jitter |-> IF c.jitter < 0 THEN 0 ELSE IF c.jitter > Ratio THEN Ratio ELSE c.jitter]

\* NormalizeAndValidate of package http rejects the other configurations.
Valid(h) == h.waitMax > 0 => h.waitMin <= h.waitMax

\* MaxRetries+1 wraps around.
Increment(n) == IF n = MaxInt THEN MinInt ELSE n + 1

\* Faulty variant: WaitMax is not handed on.
FromHTTPNoMax(h) ==
  [attempts |-> Larger(1, Increment(h.maxRetries)), base |-> h.waitMin, cap |-> 0,
   multiplier |-> 0, jitter |-> 0]

\* The multiplier and the jitter are left zero.
FromHTTP(h) ==
  [attempts |-> Larger(1, Increment(h.maxRetries)), base |-> h.waitMin, cap |-> h.waitMax,
   multiplier |-> 0, jitter |-> 0]

-----------------------------------------------------------------------------
(* backoffDelay: a set of durations, for the jitter and for the platforms. *)

ToDuration(x) == IF x \in Ints THEN {x} ELSE {MinInt, MaxInt}

\* Faulty variant: a delay beyond the cap starts again from the base.
CappedReset(d, p) == IF d < 0 \/ d > p.cap THEN p.base ELSE d
Capped(d, p) == IF d < 0 \/ d > p.cap THEN p.cap ELSE d

\* p.base * p.multiplier^n
Growth(p) ==
  LET delay[n \in Nat] == IF n = 0 THEN p.base ELSE delay[n - 1] * p.multiplier IN delay

Exponential(n, p) == {Capped(d, p) : d \in ToDuration(Growth(p)[n - 1])}

\* Faulty variant: the jitter is added after the cap and not capped again.
JitteredUncapped(d, p) ==
  IF d * p.jitter = 0 THEN {d}
  ELSE UNION {ToDuration(x) : x \in ((d * (Ratio - p.jitter)) \div Ratio) ..
                                    ((d * (Ratio + p.jitter)) \div Ratio)}

\* Any duration of the interval around d, none above the cap.  Only the upper
\* bound is checked: a value too large for the type may come out negative.
Jittered(d, p) ==
  IF d * p.jitter = 0 THEN {d}
  ELSE {IF y > p.cap THEN p.cap ELSE y :
          y \in UNION {ToDuration(x) : x \in ((d * (Ratio - p.jitter)) \div Ratio) ..
                                             ((d * (Ratio + p.jitter)) \div Ratio)}}

Backoff(n, p) == UNION {Jittered(d, p) : d \in Exponential(n, p)}

-----------------------------------------------------------------------------

NoConfig == [maxRetries |-> 0, waitMin |-> 0, waitMax |-> 0]

Init ==
  /\ attempt = 0
  /\ wait = 0
  /\ \/ \E c \in PolicyConfigs : given = NoConfig /\ policy = NewRetryPolicy(c)
     \/ \E h \in HTTPConfigs : Valid(h) /\ given = h /\ policy = NewRetryPolicy(FromHTTP(h))

\* Another attempt fails and decideRetry asks the policy.
Decide ==
  /\ attempt + 1 < policy.attempts
  /\ attempt' = attempt + 1
  /\ \E d \in Backoff(attempt + 1, policy) : wait' = Larger(d, 0)
  /\ UNCHANGED <<given, policy>>

Spec == Init /\ [][Decide]_vars

-----------------------------------------------------------------------------

PolicyTypeOK ==
  /\ given \in RetryConfig
  /\ policy.attempts \in 1..MaxInt
  /\ policy.base \in 1..MaxInt
  /\ policy.cap \in policy.base..MaxInt
  /\ policy.multiplier \in Nat \ {0}
  /\ policy.jitter \in 0..Ratio
  /\ attempt \in Nat
  /\ wait \in Int

\* No wait is negative or above the cap, overflow and jitter notwithstanding.
WaitBounded == wait \in 0..policy.cap

\* No retry is hot: a wait is at least the shortest the jitter allows around
\* the base delay, provided the jitter cannot take the cap out of the range
\* of time.Duration (where the wait would drop to zero on amd64).
NeverHot ==
  attempt > 0 /\ policy.cap * (Ratio + policy.jitter) <= MaxInt * Ratio =>
    wait * Ratio > policy.base * (Ratio - policy.jitter) - Ratio

\* Every wait is within the policy's bounds: not above its cap, and not so short
\* that retries run hot.
WaitInRange == WaitBounded /\ NeverHot

\* Without jitter the waits never get shorter, also where the power overflows.
NeverShorter == [][policy.jitter = 0 => wait' >= wait]_vars

\* An HTTP client's retries wait at least WaitMin and at most WaitMax.  Only an
\* unset WaitMin has them exceed a WaitMax below the default base delay, which
\* then is what they all wait.
WithinConfigured ==
  /\ attempt > 0 => wait >= given.waitMin
  /\ given.waitMax > 0 /\ wait > given.waitMax =>
       given.waitMin = 0 /\ given.waitMax < DefaultBase /\ wait = DefaultBase
=============================================================================
