--------------------------- MODULE MCPolicyChain ---------------------------
(***************************************************************************)
(* Small instances of PolicyChain for TLC: two calls, their policies and   *)
(* the chains the configurations choose from.                              *)
(***************************************************************************)
EXTENDS PolicyChain, TLC

CONSTANTS a, b,                      \* the calls
          guard, off, limit, limit2, retry, user  \* the policy values

AB == {a, b}
AllPolicies == {guard, off, limit, limit2, retry, user}
KindOfPolicy ==
  guard :> "timeout" @@ off :> "disabled" @@ limit :> "limit" @@ limit2 :> "limit" @@
  retry :> "retry" @@ user :> "user"

OneSlot == [p \in AllPolicies |-> 1]
TwoAttempts == [p \in AllPolicies |-> 2]

\* A user policy between the limiter and a guard.
UserChain == a :> <<limit, user, guard>> @@ b :> <<limit, user, retry>>

\* The order of the presets (guard, limiter, retry) with two limiters, taken in
\* opposite orders by the two calls; one call has a disabled guard behind its own.
CrossedChain == a :> <<guard, limit, limit2, retry>> @@ b :> <<guard, off, limit2, limit, retry>>

\* A user policy in front of everything else.
UserFirstChain == [c \in AB |-> <<user>>]

Deadlines == [c \in AB |-> "deadline"]
OneDeadline == a :> "deadline" @@ b :> "cancel"
OneCancels == a :> "cancel" @@ b :> "background"
=============================================================================
