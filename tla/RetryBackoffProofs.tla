------------------------- MODULE RetryBackoffProofs -------------------------
(***************************************************************************)
(* What holds of RetryBackoff for every width, every default and every     *)
(* configuration: policies have sensible settings, no wait is negative,    *)
(* exceeds the cap or is hot, and without jitter none is shorter than the   *)
(* one before.                                                             *)
(***************************************************************************)
EXTENDS RetryBackoff, WellFoundedInduction, TLAPS

PolicyInv ==
  /\ policy.cap \in Nat
  /\ wait \in 0..policy.cap

\* What a float converts to is an integer of the type.
LEMMA ConversionType ==
  ASSUME NEW x, NEW y \in ToDuration(x)
  PROVE  y \in Int
<1>1. MinInt \in Int /\ MaxInt \in Int /\ Ints \subseteq Int
  BY BackoffAssumption DEF MinInt, Ints
<1> HIDE DEF MinInt, MaxInt
<1> QED BY <1>1 DEF ToDuration

\* The cap of a new policy is a positive duration.
LEMMA CapPositive ==
  ASSUME NEW c, c.base \in Int, c.cap \in Int
  PROVE  NewRetryPolicy(c).cap \in Nat
<1>1. DefaultBase \in Nat /\ DefaultCap \in Nat
  BY BackoffAssumption
<1> QED BY <1>1 DEF NewRetryPolicy, Larger, OrDefault

\* The power may overflow, but what is used of it lies within the cap.
LEMMA ExponentialBounded ==
  ASSUME NEW p, p.cap \in Nat, NEW n, NEW d \in Exponential(n, p)
  PROVE  d \in 0..p.cap
<1>1. PICK e \in ToDuration(Growth(p)[n - 1]) : d = Capped(e, p)
  BY DEF Exponential
<1>2. e \in Int
  BY ConversionType
<1> QED BY <1>1, <1>2 DEF Capped

\* So does what the jitter makes of it, except that it may come out negative.
LEMMA BackoffBounded ==
  ASSUME NEW p, p.cap \in Nat, NEW n, NEW y \in Backoff(n, p)
  PROVE  y \in Int /\ y <= p.cap
<1>1. PICK d \in Exponential(n, p) : y \in Jittered(d, p)
  BY DEF Backoff
<1>2. d \in 0..p.cap
  BY ExponentialBounded
<1>3. CASE y = d
  BY <1>2, <1>3
<1>4. CASE y # d
  <2>1. PICK x, z : z \in ToDuration(x) /\ y = (IF z > p.cap THEN p.cap ELSE z)
    BY <1>1, <1>4 DEF Jittered
  <2>2. z \in Int
    BY <2>1, ConversionType
  <2> QED BY <2>1, <2>2
<1> QED BY <1>3, <1>4

LEMMA PolicyInit == Init => PolicyInv
<1> SUFFICES ASSUME Init PROVE PolicyInv
  OBVIOUS
<1>1. MinInt \in Int /\ MaxInt \in Nat
  BY BackoffAssumption DEF MinInt
<1> HIDE DEF MinInt, MaxInt
<1>2. CASE \E c \in PolicyConfigs : policy = NewRetryPolicy(c)
  <2>1. PICK c \in PolicyConfigs : policy = NewRetryPolicy(c)
    BY <1>2
  <2>2. c.base \in Int /\ c.cap \in Int
    BY <1>1, BackoffAssumption DEF Config, Ints
  <2>3. policy.cap \in Nat
    BY <2>1, <2>2, CapPositive
  <2> QED BY <2>3 DEF Init, PolicyInv
<1>3. CASE \E h \in HTTPConfigs : policy = NewRetryPolicy(FromHTTP(h))
  <2>1. PICK h \in HTTPConfigs : policy = NewRetryPolicy(FromHTTP(h))
    BY <1>3
  <2>2. FromHTTP(h).base \in Int /\ FromHTTP(h).cap \in Int
    BY <1>1, BackoffAssumption DEF FromHTTP, RetryConfig
  <2>3. policy.cap \in Nat
    BY <2>1, <2>2, CapPositive
  <2> QED BY <2>3 DEF Init, PolicyInv
<1> QED BY <1>2, <1>3 DEF Init

LEMMA PolicyStep == PolicyInv /\ [Decide]_vars => PolicyInv'
<1> SUFFICES ASSUME PolicyInv, [Decide]_vars PROVE PolicyInv'
  OBVIOUS
<1>1. CASE Decide
  <2>1. PICK d \in Backoff(attempt + 1, policy) : wait' = Larger(d, 0)
    BY <1>1 DEF Decide
  <2>2. d \in Int /\ d <= policy.cap
    BY BackoffBounded DEF PolicyInv
  <2> QED BY <1>1, <2>1, <2>2 DEF Decide, Larger, PolicyInv
<1>2. CASE UNCHANGED vars
  BY <1>2 DEF vars, PolicyInv
<1> QED BY <1>1, <1>2

\* Whatever overflows and whatever the jitter draws, decideRetry never waits a
\* negative time nor longer than the policy's cap.
THEOREM WaitsBounded == Spec => []WaitBounded
<1>1. PolicyInv => WaitBounded
  BY DEF PolicyInv, WaitBounded
<1> QED BY <1>1, PolicyInit, PolicyStep, PTL DEF Spec

-----------------------------------------------------------------------------

\* What NewRetryPolicy makes of any settings.
PolicyTyped(p) ==
  /\ p.attempts \in 1..MaxInt /\ p.base \in 1..MaxInt /\ p.cap \in p.base..MaxInt
  /\ p.multiplier \in Nat \ {0} /\ p.jitter \in 0..Ratio

LEMMA NewPolicyTyped ==
  ASSUME NEW c, c.attempts \in Int, c.base \in Int, c.cap \in Int,
         c.multiplier \in Int, c.jitter \in Int,
         c.attempts <= MaxInt, c.base <= MaxInt, c.cap <= MaxInt
  PROVE  PolicyTyped(NewRetryPolicy(c))
<1> DEFINE p == NewRetryPolicy(c)
<1>1. /\ MaxInt \in Nat /\ Ratio \in Nat \ {0} /\ DefaultAttempts \in 1..MaxInt
      /\ DefaultBase \in 1..MaxInt /\ DefaultCap \in 1..MaxInt
  BY BackoffAssumption
<1> HIDE DEF MaxInt
<1>2. ASSUME NEW x \in Int, x <= MaxInt, NEW d \in 1..MaxInt PROVE OrDefault(x, d) \in 1..MaxInt
  BY <1>1, <1>2 DEF OrDefault
<1>3. /\ p.attempts = OrDefault(c.attempts, DefaultAttempts)
      /\ p.base = OrDefault(c.base, DefaultBase)
      /\ p.cap = Larger(OrDefault(c.cap, DefaultCap), p.base)
      /\ p.multiplier = IF c.multiplier < 1 THEN 2 ELSE c.multiplier
      /\ p.jitter = IF c.jitter < 0 THEN 0 ELSE IF c.jitter > Ratio THEN Ratio ELSE c.jitter
  BY DEF NewRetryPolicy
<1> HIDE DEF p
<1>4. p.attempts \in 1..MaxInt /\ p.base \in 1..MaxInt /\ OrDefault(c.cap, DefaultCap) \in 1..MaxInt
  BY <1>1, <1>2, <1>3
<1>5. p.cap \in p.base..MaxInt
  BY <1>1, <1>3, <1>4 DEF Larger
<1>6. p.multiplier \in Nat \ {0} /\ p.jitter \in 0..Ratio
  BY <1>1, <1>3
<1> QED BY <1>4, <1>5, <1>6 DEF PolicyTyped, p

TypedInv ==
  /\ given \in RetryConfig /\ PolicyTyped(policy)
  /\ attempt \in Nat /\ wait \in Int

\* The attempts of an HTTP client, the largest MaxRetries included.
LEMMA FromHTTPTyped ==
  ASSUME NEW h \in RetryConfig
  PROVE  PolicyTyped(NewRetryPolicy(FromHTTP(h)))
<1>1. MaxInt \in Nat /\ MinInt = -MaxInt - 1 /\ 1 <= MaxInt
  BY BackoffAssumption DEF MinInt
<1> HIDE DEF MaxInt, MinInt
<1>2. h.maxRetries \in 0..MaxInt /\ h.waitMin \in 0..MaxInt /\ h.waitMax \in 0..MaxInt
  BY DEF RetryConfig
<1>3. Increment(h.maxRetries) \in Int /\ Increment(h.maxRetries) <= MaxInt
  BY <1>1, <1>2 DEF Increment
<1>4. Larger(1, Increment(h.maxRetries)) \in Int /\ Larger(1, Increment(h.maxRetries)) <= MaxInt
  BY <1>1, <1>3 DEF Larger
<1>5. /\ FromHTTP(h).attempts = Larger(1, Increment(h.maxRetries))
      /\ FromHTTP(h).base = h.waitMin /\ FromHTTP(h).cap = h.waitMax
      /\ FromHTTP(h).multiplier = 0 /\ FromHTTP(h).jitter = 0
  BY DEF FromHTTP
<1> HIDE DEF FromHTTP
<1>6. FromHTTP(h).base \in Int /\ FromHTTP(h).base <= MaxInt
      /\ FromHTTP(h).cap \in Int /\ FromHTTP(h).cap <= MaxInt
  BY <1>1, <1>2, <1>5
<1> QED BY <1>4, <1>5, <1>6, NewPolicyTyped

LEMMA TypedInit == Init => TypedInv
<1> SUFFICES ASSUME Init PROVE TypedInv
  OBVIOUS
<1>1. MaxInt \in Nat /\ MinInt \in Int /\ Ints = MinInt..MaxInt
  BY BackoffAssumption DEF MinInt, Ints
<1> HIDE DEF MaxInt, MinInt, Ints
<1>2. NoConfig \in RetryConfig
  BY <1>1 DEF NoConfig, RetryConfig
<1>3. ASSUME NEW c \in PolicyConfigs, given = NoConfig, policy = NewRetryPolicy(c)
      PROVE  given \in RetryConfig /\ PolicyTyped(policy)
  <2>1. /\ c.attempts \in Ints /\ c.base \in Ints /\ c.cap \in Ints
        /\ c.multiplier \in Int /\ c.jitter \in Int
    BY BackoffAssumption DEF Config
  <2>2. /\ c.attempts \in Int /\ c.attempts <= MaxInt /\ c.base \in Int /\ c.base <= MaxInt
        /\ c.cap \in Int /\ c.cap <= MaxInt
    BY <1>1, <2>1
  <2> QED BY <1>2, <1>3, <2>1, <2>2, NewPolicyTyped
<1>4. ASSUME NEW h \in HTTPConfigs, given = h, policy = NewRetryPolicy(FromHTTP(h))
      PROVE  given \in RetryConfig /\ PolicyTyped(policy)
  BY <1>4, BackoffAssumption, FromHTTPTyped
<1> QED BY <1>3, <1>4 DEF Init, TypedInv

LEMMA TypedStep == TypedInv /\ [Decide]_vars => TypedInv'
<1> SUFFICES ASSUME TypedInv, [Decide]_vars PROVE TypedInv'
  OBVIOUS
<1>1. CASE Decide
  <2>1. PICK d \in Backoff(attempt + 1, policy) : wait' = Larger(d, 0)
    BY <1>1 DEF Decide
  <2>2. policy.cap \in Nat
    <3>1. MaxInt \in Nat
      BY BackoffAssumption
    <3> HIDE DEF MaxInt
    <3> QED BY <3>1 DEF TypedInv, PolicyTyped
  <2>3. d \in Int
    BY <2>2, BackoffBounded
  <2> QED BY <1>1, <2>1, <2>3 DEF Decide, Larger, TypedInv
<1>2. CASE UNCHANGED vars
  BY <1>2 DEF vars, TypedInv
<1> QED BY <1>1, <1>2

\* Every policy that can be made has at least one attempt, a positive base
\* delay, a cap not below it and a jitter of at most 1, the settings that
\* overflow included.
THEOREM PoliciesTyped == Spec => []PolicyTypeOK
<1>1. TypedInv => PolicyTypeOK
  BY DEF TypedInv, PolicyTyped, PolicyTypeOK
<1> QED BY <1>1, TypedInit, TypedStep, PTL DEF Spec

-----------------------------------------------------------------------------
(* The exponential: a function defined by recursion over the naturals is   *)
(* there because all its starts are, and they agree.                       *)

\* Induction, for a set.
LEMMA CountingUp ==
  ASSUME NEW S, 0 \in S, \A n \in Nat : n \in S => n + 1 \in S
  PROVE  Nat \subseteq S
<1> DEFINE R == OpToRel(<, Nat)
           T == Nat \ S
<1>1. IsWellFoundedOn(R, Nat)
  BY NatLessThanWellFounded
<1> HIDE DEF R
<1> SUFFICES ASSUME T # {} PROVE FALSE
  OBVIOUS
<1>2. PICK m \in T : \A n \in T : ~ (<<n, m>> \in R)
  BY <1>1, WFMin, T \subseteq Nat
<1>3. m \in Nat /\ m # 0 /\ m - 1 \in Nat
  OBVIOUS
<1>4. <<m - 1, m>> \in R
  BY <1>3 DEF R, OpToRel
<1>5. m - 1 \in S
  BY <1>2, <1>3, <1>4
<1>6. (m - 1) + 1 \in S
  BY <1>3, <1>5
<1> QED BY <1>3, <1>6

\* A start of the sequence of delays.
Start(p, h, n) ==
  /\ h \in [0..n -> Nat] /\ h[0] = p.base
  /\ \A i \in 1..n : h[i] = h[i - 1] * p.multiplier

LEMMA StartsExist ==
  ASSUME NEW p, p.base \in Nat, p.multiplier \in Nat, NEW n \in Nat
  PROVE  \E h : Start(p, h, n)
<1> DEFINE S == {k \in Nat : \E h : Start(p, h, k)}
<1>1. 0 \in S
  <2>1. Start(p, [i \in 0..0 |-> p.base], 0)
    BY DEF Start
  <2> QED BY <2>1
<1>2. ASSUME NEW k \in Nat, k \in S PROVE k + 1 \in S
  <2>1. PICK h : Start(p, h, k)
    BY <1>2
  <2> DEFINE g == [i \in 0..(k + 1) |-> IF i <= k THEN h[i] ELSE h[k] * p.multiplier]
  <2>2. h \in [0..k -> Nat] /\ h[k] * p.multiplier \in Nat
    BY <2>1 DEF Start
  <2>3. g \in [0..(k + 1) -> Nat] /\ g[0] = p.base
    BY <2>1, <2>2 DEF Start
  <2>4. ASSUME NEW i \in 1..(k + 1) PROVE g[i] = g[i - 1] * p.multiplier
    <3>1. i - 1 \in 0..k /\ g[i - 1] = h[i - 1]
      OBVIOUS
    <3>2. CASE i <= k
      BY <2>1, <3>1, <3>2 DEF Start
    <3>3. CASE i = k + 1
      BY <3>1, <3>3
    <3> QED BY <3>2, <3>3
  <2>5. Start(p, g, k + 1)
    BY <2>3, <2>4 DEF Start
  <2> QED BY <2>5
<1> HIDE DEF S
<1>3. n \in S
  BY <1>1, <1>2, CountingUp
<1> QED BY <1>3 DEF S

LEMMA StartsAgree ==
  ASSUME NEW p, NEW n \in Nat, NEW m \in Nat, NEW g, NEW h, Start(p, g, n), Start(p, h, m),
         NEW i \in Nat, i <= n, i <= m
  PROVE  g[i] = h[i]
<1> DEFINE S == {k \in Nat : k <= n /\ k <= m => g[k] = h[k]}
<1>1. 0 \in S
  BY DEF Start
<1>2. ASSUME NEW k \in Nat, k \in S PROVE k + 1 \in S
  <2>1. SUFFICES ASSUME k + 1 <= n, k + 1 <= m PROVE g[k + 1] = h[k + 1]
    OBVIOUS
  <2>2. k + 1 \in 1..n /\ k + 1 \in 1..m /\ (k + 1) - 1 = k /\ g[k] = h[k]
    BY <1>2, <2>1
  <2> QED BY <2>2 DEF Start
<1> HIDE DEF S
<1>3. i \in S
  BY <1>1, <1>2, CountingUp
<1> QED BY <1>3 DEF S

\* Growth(p) is what its definition says it is.
LEMMA GrowthDef ==
  ASSUME NEW p, p.base \in Nat, p.multiplier \in Nat
  PROVE  /\ Growth(p)[0] = p.base
         /\ \A n \in Nat : /\ Growth(p)[n] \in Nat
                           /\ Growth(p)[n + 1] = Growth(p)[n] * p.multiplier
<1> DEFINE h(n) == CHOOSE g : Start(p, g, n)
           f == [n \in Nat |-> h(n)[n]]
           Def(g) == [n \in Nat |-> IF n = 0 THEN p.base ELSE g[n - 1] * p.multiplier]
<1>1. ASSUME NEW n \in Nat PROVE Start(p, h(n), n)
  BY StartsExist
<1> HIDE DEF h
<1>2. f[0] = p.base /\ \A n \in Nat : f[n] \in Nat
  BY <1>1 DEF Start
<1>3. ASSUME NEW n \in Nat, n # 0 PROVE f[n] = f[n - 1] * p.multiplier
  <2>1. n - 1 \in Nat /\ n \in 1..n /\ f[n] = h(n)[n] /\ f[n - 1] = h(n - 1)[n - 1]
    BY <1>3
  <2>2. h(n)[n] = h(n)[n - 1] * p.multiplier
    BY <1>1, <2>1 DEF Start
  <2>3. h(n)[n - 1] = h(n - 1)[n - 1]
    <3>1. Start(p, h(n), n) /\ Start(p, h(n - 1), n - 1)
      BY <1>1, <2>1
    <3> QED BY <2>1, <3>1, StartsAgree
  <2> QED BY <2>1, <2>2, <2>3
<1>4. f = Def(f)
  <2>1. \A n \in Nat : f[n] = Def(f)[n]
    BY <1>2, <1>3
  <2> HIDE DEF h
  <2> QED BY <2>1
<1> DEFINE G == Growth(p)
<1>5. G = CHOOSE g : g = Def(g)
  BY DEF Growth
<1>6. G = Def(G)
  <2> HIDE DEF f, Def, G
  <2> QED BY <1>4, <1>5
<1>7. \A n \in Nat : G[n] = IF n = 0 THEN p.base ELSE G[n - 1] * p.multiplier
  <2> HIDE DEF G
  <2> QED BY <1>6
<1> HIDE DEF G
<1>8. ASSUME NEW n \in Nat PROVE G[n + 1] = G[n] * p.multiplier
  <2>1. n + 1 \in Nat /\ n + 1 # 0 /\ (n + 1) - 1 = n
    OBVIOUS
  <2> QED BY <1>7, <2>1
<1>9. Nat \subseteq {n \in Nat : G[n] \in Nat}
  <2> DEFINE S == {n \in Nat : G[n] \in Nat}
  <2>1. 0 \in S
    BY <1>7
  <2>2. ASSUME NEW n \in Nat, n \in S PROVE n + 1 \in S
    BY <1>8, <2>2
  <2> HIDE DEF S
  <2>3. Nat \subseteq S
    BY <2>1, <2>2, CountingUp
  <2> QED BY <2>3 DEF S
<1>10. G[0] = p.base
  BY <1>7
<1> QED BY <1>8, <1>9, <1>10 DEF G

LEMMA GrowthRises ==
  ASSUME NEW p, p.base \in Nat \ {0}, p.multiplier \in Nat \ {0}, NEW n \in Nat
  PROVE  Growth(p)[n] \in Nat /\ Growth(p)[n] >= p.base /\ Growth(p)[n + 1] >= Growth(p)[n]
<1> DEFINE G == Growth(p)
           S == {k \in Nat : G[k] >= p.base}
<1>1. G[0] = p.base /\ \A k \in Nat : G[k] \in Nat /\ G[k + 1] = G[k] * p.multiplier
  BY GrowthDef
<1> HIDE DEF G
<1>2. ASSUME NEW x \in Nat, NEW y \in Nat \ {0} PROVE x * y >= x
  OBVIOUS
<1>3. ASSUME NEW k \in Nat PROVE G[k + 1] >= G[k]
  BY <1>1, <1>2
<1>4. 0 \in S
  BY <1>1
<1>5. ASSUME NEW k \in Nat, k \in S PROVE k + 1 \in S
  <2>1. G[k] >= p.base /\ G[k + 1] >= G[k] /\ G[k] \in Nat /\ G[k + 1] \in Nat
    BY <1>1, <1>3, <1>5
  <2> QED BY <2>1
<1> HIDE DEF S
<1>6. n \in S
  BY <1>4, <1>5, CountingUp
<1> QED BY <1>1, <1>3, <1>6 DEF S, G

-----------------------------------------------------------------------------
(* The shortest wait.                                                      *)

LEMMA WidthFacts ==
  /\ MaxInt \in Nat /\ MinInt = -MaxInt - 1 /\ MinInt \in Int /\ Ints = MinInt..MaxInt
  /\ Ratio \in Nat \ {0}
  /\ DefaultBase \in 1..MaxInt /\ DefaultCap \in 1..MaxInt
BY BackoffAssumption DEF MinInt, Ints

LEMMA PolicyRanges ==
  ASSUME NEW p, PolicyTyped(p)
  PROVE  /\ p.base \in Nat \ {0} /\ p.cap \in Nat \ {0} /\ p.base <= p.cap /\ p.cap <= MaxInt
         /\ p.multiplier \in Nat \ {0} /\ p.jitter \in 0..Ratio
<1>1. MaxInt \in Nat
  BY WidthFacts
<1> HIDE DEF MaxInt
<1> QED BY <1>1 DEF PolicyTyped

\* What becomes of the power: itself, or the cap if that is smaller.  Where the
\* power overflows both conversions end up at the cap.
LEMMA ExponentialIs ==
  ASSUME NEW p, PolicyTyped(p), NEW n \in Nat \ {0}, NEW d \in Exponential(n, p)
  PROVE  d = IF Growth(p)[n - 1] <= p.cap THEN Growth(p)[n - 1] ELSE p.cap
<1> DEFINE g == Growth(p)[n - 1]
<1>1. n - 1 \in Nat /\ p.base \in Nat \ {0} /\ p.multiplier \in Nat \ {0}
      /\ p.cap \in Nat \ {0} /\ p.cap <= MaxInt
  BY PolicyRanges
<1>2. g \in Nat
  BY <1>1, GrowthRises
<1>3. PICK e \in ToDuration(g) : d = Capped(e, p)
  BY DEF Exponential
<1>4. MaxInt \in Nat /\ MinInt = -MaxInt - 1 /\ Ints = MinInt..MaxInt
  BY WidthFacts
<1> HIDE DEF g, MaxInt, MinInt, Ints
<1>5. CASE g \in Ints
  BY <1>1, <1>2, <1>3, <1>5 DEF ToDuration, Capped, g
<1>6. CASE g \notin Ints
  <2>1. g > p.cap /\ d = p.cap
    BY <1>1, <1>2, <1>3, <1>4, <1>6 DEF ToDuration, Capped
  <2> QED BY <1>1, <1>2, <2>1 DEF g
<1> QED BY <1>5, <1>6

LEMMA ExponentialWithin ==
  ASSUME NEW p, PolicyTyped(p), NEW n \in Nat \ {0}, NEW d \in Exponential(n, p)
  PROVE  d \in p.base..p.cap
<1>1. /\ n - 1 \in Nat /\ p.base \in Nat \ {0} /\ p.multiplier \in Nat \ {0}
      /\ p.cap \in Nat /\ p.base <= p.cap
  BY PolicyRanges
<1>2. Growth(p)[n - 1] \in Nat /\ Growth(p)[n - 1] >= p.base
  BY <1>1, GrowthRises
<1> QED BY <1>1, <1>2, ExponentialIs

LEMMA ExponentialRises ==
  ASSUME NEW p, PolicyTyped(p), NEW n \in Nat \ {0},
         NEW d \in Exponential(n, p), NEW e \in Exponential(n + 1, p)
  PROVE  d <= e
<1>1. /\ n - 1 \in Nat /\ p.base \in Nat \ {0} /\ p.multiplier \in Nat \ {0} /\ p.cap \in Nat
      /\ (n - 1) + 1 = n /\ (n + 1) - 1 = n /\ n \in Nat /\ n + 1 \in Nat \ {0}
  BY PolicyRanges
<1> DEFINE g == Growth(p)[n - 1]
           h == Growth(p)[n]
<1>2. g \in Nat /\ h \in Nat /\ h >= g
  BY <1>1, GrowthRises
<1>3. d = IF g <= p.cap THEN g ELSE p.cap
  BY ExponentialIs
<1>4. e = IF h <= p.cap THEN h ELSE p.cap
  BY <1>1, ExponentialIs
<1> HIDE DEF g, h
<1> QED BY <1>1, <1>2, <1>3, <1>4

LEMMA DivisionBounds ==
  ASSUME NEW a \in Nat, NEW r \in Nat \ {0}
  PROVE  a \div r \in Nat /\ (a \div r) * r <= a /\ a < (a \div r) * r + r
OBVIOUS

LEMMA ProductsGrow ==
  ASSUME NEW a \in Nat, NEW b \in Nat, NEW r \in Nat, a <= b
  PROVE  a * r \in Nat /\ b * r \in Nat /\ a * r <= b * r
OBVIOUS

\* The jitter takes at most its share off the delay.
LEMMA JitterShare ==
  ASSUME NEW p, PolicyTyped(p), p.cap * (Ratio + p.jitter) <= MaxInt * Ratio,
         NEW d \in p.base..p.cap, NEW y \in Jittered(d, p)
  PROVE  y \in Nat /\ y * Ratio > p.base * (Ratio - p.jitter) - Ratio
<1> DEFINE low == Ratio - p.jitter
           high == Ratio + p.jitter
<1>1. MaxInt \in Nat /\ MinInt = -MaxInt - 1 /\ Ratio \in Nat \ {0} /\ Ints = MinInt..MaxInt
  BY WidthFacts
<1>2. /\ p.base \in Nat \ {0} /\ p.cap \in Nat \ {0} /\ p.base <= p.cap
      /\ p.jitter \in 0..Ratio /\ d \in Nat \ {0} /\ p.base <= d /\ d <= p.cap
  BY PolicyRanges
<1>3. low \in Nat /\ high \in Nat /\ low <= Ratio
  BY <1>1, <1>2
<1> HIDE DEF MaxInt, MinInt, Ints, low, high
<1>4. p.base * low \in Nat /\ p.base * low <= d * low /\ d * low \in Nat
  BY <1>2, <1>3, ProductsGrow
<1>5. p.base * low <= p.base * Ratio
  <2>1. low * p.base <= Ratio * p.base
    BY <1>1, <1>2, <1>3, ProductsGrow
  <2> QED BY <1>1, <1>2, <1>3, <2>1
<1>6. ASSUME NEW x \in Nat, p.base <= x PROVE x * Ratio > p.base * low - Ratio
  <2>1. p.base * Ratio <= x * Ratio /\ p.base * Ratio \in Nat /\ x * Ratio \in Nat
    BY <1>1, <1>2, <1>6, ProductsGrow
  <2> QED BY <1>1, <1>4, <1>5, <2>1
<1>7. CASE d * p.jitter = 0
  <2>1. y = d
    BY <1>7 DEF Jittered
  <2> QED BY <1>2, <1>6, <2>1 DEF low
<1>8. CASE d * p.jitter # 0
  <2> DEFINE L == (d * low) \div Ratio
             U == (d * high) \div Ratio
  <2>1. PICK x \in L..U : \E z \in ToDuration(x) : y = IF z > p.cap THEN p.cap ELSE z
    BY <1>8 DEF Jittered, low, high
  <2>2. L \in Nat /\ d * low < L * Ratio + Ratio
    BY <1>1, <1>4, DivisionBounds
  <2>3. d * high \in Nat /\ d * high <= p.cap * high
    BY <1>2, <1>3, ProductsGrow
  <2>4. U \in Nat /\ U * Ratio <= d * high
    BY <1>1, <2>3, DivisionBounds
  <2> HIDE DEF L, U
  <2>5. U <= MaxInt
    <3>1. SUFFICES ASSUME MaxInt + 1 <= U PROVE FALSE
      BY <1>1, <2>4
    <3>2. (MaxInt + 1) * Ratio <= U * Ratio /\ U * Ratio \in Nat
      BY <1>1, <2>4, <3>1, ProductsGrow
    <3>3. p.cap * high <= MaxInt * Ratio /\ MaxInt * Ratio \in Nat
      BY <1>1, ProductsGrow DEF high
    <3>4. (MaxInt + 1) * Ratio = MaxInt * Ratio + Ratio
      BY <1>1
    <3>5. p.cap * high \in Nat
      BY <1>2, <1>3, ProductsGrow
    <3> QED BY <1>1, <2>3, <2>4, <3>2, <3>3, <3>4, <3>5
  <2>6. x \in Nat /\ x \in Ints /\ L <= x
    BY <1>1, <2>1, <2>2, <2>4, <2>5
  <2>7. y = IF x > p.cap THEN p.cap ELSE x
    BY <2>1, <2>6 DEF ToDuration
  <2>8. x * Ratio > p.base * low - Ratio
    <3>1. L * Ratio <= x * Ratio /\ L * Ratio \in Nat /\ x * Ratio \in Nat
      BY <1>1, <2>2, <2>6, ProductsGrow
    <3> QED BY <1>1, <1>4, <2>2, <3>1
  <2>9. CASE x > p.cap
    BY <1>2, <1>6, <2>7, <2>9 DEF low
  <2>10. CASE ~(x > p.cap)
    BY <2>6, <2>7, <2>8, <2>10 DEF low
  <2> QED BY <2>9, <2>10
<1> QED BY <1>7, <1>8

\* A wait without jitter is just the exponential; where the policy was made for
\* an HTTP client there is none.
WaitInv ==
  /\ TypedInv /\ PolicyInv
  /\ attempt = 0 => wait = 0
  /\ attempt > 0 => NeverHot
  /\ attempt > 0 /\ policy.jitter = 0 => wait \in Exponential(attempt, policy)
  /\ given = NoConfig \/ (Valid(given) /\ policy = NewRetryPolicy(FromHTTP(given)))

LEMMA WaitStep == WaitInv /\ [Decide]_vars => WaitInv'
<1> SUFFICES ASSUME WaitInv, [Decide]_vars PROVE WaitInv'
  OBVIOUS
<1>1. TypedInv' /\ PolicyInv'
  BY TypedStep, PolicyStep DEF WaitInv
<1>2. CASE UNCHANGED vars
  BY <1>1, <1>2 DEF WaitInv, vars, NeverHot
<1>3. CASE Decide
  <2> DEFINE n == attempt + 1
  <2>1. n \in Nat \ {0} /\ PolicyTyped(policy) /\ policy.cap \in Nat
    BY DEF WaitInv, TypedInv, PolicyInv
  <2>2. PICK y \in Backoff(n, policy) : wait' = Larger(y, 0)
    BY <1>3 DEF Decide
  <2>3. attempt' = n /\ UNCHANGED <<given, policy>>
    BY <1>3 DEF Decide
  <2>4. PICK d \in Exponential(n, policy) : y \in Jittered(d, policy)
    BY <2>2 DEF Backoff
  <2>5. d \in policy.base..policy.cap
    BY <2>1, <2>4, ExponentialWithin
  <2>6. policy.base \in Nat
    BY <2>1, PolicyRanges
  <2> HIDE DEF n
  <2>7. ASSUME policy.cap * (Ratio + policy.jitter) <= MaxInt * Ratio
        PROVE  wait' * Ratio > policy.base * (Ratio - policy.jitter) - Ratio
    <3>1. y \in Nat /\ y * Ratio > policy.base * (Ratio - policy.jitter) - Ratio
      BY <2>1, <2>4, <2>5, <2>7, JitterShare
    <3>2. wait' = y
      BY <2>2, <3>1 DEF Larger
    <3> QED BY <3>1, <3>2
  <2>8. NeverHot'
    BY <2>3, <2>7 DEF NeverHot
  <2>9. ASSUME policy.jitter = 0 PROVE wait' \in Exponential(n, policy)
    <3>1. d * policy.jitter = 0
      BY <2>5, <2>6, <2>1, <2>9
    <3>2. y = d
      BY <2>4, <3>1 DEF Jittered
    <3>3. d \in Nat
      BY <2>1, <2>5, <2>6
    <3>4. wait' = d
      BY <2>2, <3>2, <3>3 DEF Larger
    <3> QED BY <2>4, <3>4
  <2>10. attempt' # 0
    BY <2>1, <2>3
  <2> QED BY <1>1, <2>3, <2>8, <2>9, <2>10 DEF WaitInv, NoConfig, Valid
<1> QED BY <1>2, <1>3

LEMMA WaitInit == Init => WaitInv
<1> SUFFICES ASSUME Init PROVE WaitInv
  OBVIOUS
<1>1. TypedInv /\ PolicyInv
  BY TypedInit, PolicyInit
<1>2. attempt = 0 /\ wait = 0
  BY DEF Init
<1>3. given = NoConfig \/ (Valid(given) /\ policy = NewRetryPolicy(FromHTTP(given)))
  BY DEF Init
<1> QED BY <1>1, <1>2, <1>3 DEF WaitInv

\* No retry is hot: the jitter takes no more than its share off the base delay.
THEOREM NoHotRetry == Spec => []NeverHot
<1>1. WaitInv => NeverHot
  BY DEF WaitInv, NeverHot
<1> QED BY <1>1, WaitInit, WaitStep, PTL DEF Spec

\* WaitInRange: both bounds on every wait of decideRetry.
THEOREM WaitsInRange == Spec => []WaitInRange
<1>1. WaitBounded /\ NeverHot => WaitInRange
  BY DEF WaitInRange
<1> QED BY <1>1, WaitsBounded, NoHotRetry, PTL

\* Without jitter no wait is shorter than the one before, however far the power
\* overflows and whatever the platform makes of it.
THEOREM WaitsNeverShrink == Spec => NeverShorter
<1>1. WaitInv /\ [Decide]_vars => [policy.jitter = 0 => wait' >= wait]_vars
  <2> SUFFICES ASSUME WaitInv, Decide, policy.jitter = 0 PROVE wait' >= wait
    OBVIOUS
  <2>1. WaitInv'
    BY WaitStep
  <2>2. /\ attempt \in Nat /\ attempt' = attempt + 1 /\ policy' = policy
        /\ wait' \in Exponential(attempt + 1, policy)
    <3>1. attempt \in Nat /\ attempt' = attempt + 1 /\ policy' = policy
      BY DEF WaitInv, TypedInv, Decide
    <3>2. wait' \in Exponential(attempt', policy')
      BY <2>1, <3>1 DEF WaitInv
    <3> QED BY <3>1, <3>2
  <2>3. PolicyTyped(policy) /\ wait \in Int /\ wait' \in Int
    BY <2>1 DEF WaitInv, TypedInv
  <2>4. CASE attempt = 0
    <3>1. wait = 0 /\ wait' \in 0..policy'.cap
      BY <2>1, <2>4 DEF WaitInv, PolicyInv
    <3>2. policy'.cap \in Nat
      BY <2>1 DEF WaitInv, PolicyInv
    <3> QED BY <3>1, <3>2
  <2>5. CASE attempt # 0
    <3>1. attempt \in Nat \ {0} /\ attempt > 0
      BY <2>2, <2>5
    <3>2. wait \in Exponential(attempt, policy)
      BY <3>1 DEF WaitInv
    <3>3. wait <= wait'
      BY <2>2, <2>3, <3>1, <3>2, ExponentialRises
    <3> QED BY <2>3, <3>3
  <2> QED BY <2>4, <2>5
<1> QED BY <1>1, WaitInit, WaitStep, PTL DEF Spec, NeverShorter

\* The settings of an HTTP client bound its waits from both sides, up to the
\* default base delay where that stands for an unset WaitMin.
THEOREM ConfiguredBoundsHold == Spec => []WithinConfigured
<1>1. WaitInv => WithinConfigured
  <2> SUFFICES ASSUME WaitInv PROVE WithinConfigured
    OBVIOUS
  <2>1. /\ PolicyTyped(policy) /\ attempt \in Nat /\ given \in RetryConfig
        /\ wait \in 0..policy.cap /\ policy.cap \in Nat
    BY DEF WaitInv, TypedInv, PolicyInv
  <2>2. CASE given = NoConfig
    BY <2>1, <2>2 DEF NoConfig, WithinConfigured
  <2>3. CASE Valid(given) /\ policy = NewRetryPolicy(FromHTTP(given))
    <3>1. given.waitMin \in Nat /\ given.waitMax \in Nat
      <4>1. MaxInt \in Nat
        BY WidthFacts
      <4> HIDE DEF MaxInt
      <4> QED BY <2>1, <4>1 DEF RetryConfig
    <3>2. DefaultBase \in Nat \ {0} /\ DefaultCap \in Nat
      BY WidthFacts
    <3>3. /\ policy.base = IF given.waitMin = 0 THEN DefaultBase ELSE given.waitMin
          /\ policy.cap = Larger(IF given.waitMax = 0 THEN DefaultCap ELSE given.waitMax,
                                 policy.base)
          /\ policy.jitter = 0
      <4>1. Ratio \in Nat \ {0}
        BY WidthFacts
      <4> QED BY <2>3, <3>1, <4>1 DEF NewRetryPolicy, FromHTTP, OrDefault
    <3>4. ASSUME attempt > 0 PROVE wait >= policy.base
      <4>1. wait \in policy.base..policy.cap
        BY <2>1, <3>3, <3>4, ExponentialWithin DEF WaitInv
      <4>2. policy.base \in Nat
        BY <2>1, PolicyRanges
      <4> QED BY <2>1, <4>1, <4>2
    <3>5. policy.base >= given.waitMin /\ policy.base \in Nat
      BY <3>1, <3>2, <3>3
    <3>6. attempt > 0 => wait >= given.waitMin
      BY <2>1, <3>1, <3>4, <3>5
    <3>7. ASSUME given.waitMax > 0, wait > given.waitMax
          PROVE  given.waitMin = 0 /\ given.waitMax < DefaultBase /\ wait = DefaultBase
      <4>1. policy.cap = Larger(given.waitMax, policy.base)
        BY <3>3, <3>7
      <4>2. policy.cap = policy.base /\ given.waitMax < policy.base
        BY <2>1, <3>1, <3>5, <3>7, <4>1 DEF Larger
      <4>3. given.waitMin = 0 /\ policy.base = DefaultBase
        BY <2>3, <3>1, <3>2, <3>3, <3>7, <4>2 DEF Valid
      <4>4. attempt > 0
        BY <2>1, <3>1, <3>7 DEF WaitInv
      <4> QED BY <2>1, <3>2, <3>4, <4>2, <4>3, <4>4
    <3> QED BY <3>6, <3>7 DEF WithinConfigured
  <2> QED BY <2>2, <2>3 DEF WaitInv
<1> QED BY <1>1, WaitInit, WaitStep, PTL DEF Spec
=============================================================================
