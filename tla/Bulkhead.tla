------------------------------ MODULE Bulkhead ------------------------------
(***************************************************************************)
(* What a concurrency-limit policy promises, without saying how: at any    *)
(* time at most Capacity[l] of the calls that go through limiter l are     *)
(* inside the guarded function.  (NewConcurrencyLimitPolicy: "limits       *)
(* concurrent executions to maxInFlight".)                                 *)
(***************************************************************************)
EXTENDS Naturals, FiniteSets

CONSTANTS
  Callers,    \* the calls that may want to run
  Uses,       \* Uses[c]: the limiters call c goes through
  Capacity    \* Capacity[l]: how many calls limiter l lets in

VARIABLE running   \* the calls inside the guarded function

Load(l) == Cardinality({c \in running : l \in Uses[c]})

Init == running = {}

Enter(c) ==
  /\ c \notin running
  /\ \A l \in Uses[c] : Load(l) < Capacity[l]
  /\ running' = running \cup {c}

Leave(c) ==
  /\ c \in running
  /\ running' = running \ {c}

Next == \E c \in Callers : Enter(c) \/ Leave(c)

Spec == Init /\ [][Next]_running

\* What users are told: a limiter never lets more calls run than it has slots.
WithinCapacity == \A c \in running : \A l \in Uses[c] : Load(l) <= Capacity[l]
=============================================================================
