---------------------------- MODULE TimeoutConn ----------------------------
(***************************************************************************)
(* timeoutConn of package tcp (and its twins of package udp): every Read   *)
(* and Write sets the deadline of its direction and then runs the call of  *)
(* the connection underneath.  A deadline belongs to the connection and    *)
(* not to a call: goroutines that use one direction share it, and the last *)
(* one to set it decides for all that wait.                                *)
(*                                                                         *)
(* Time is kept by countdown, so that calls may go on for ever: a deadline *)
(* is the set of the ticks left until it passes, empty when none is set.   *)
(***************************************************************************)
EXTENDS Integers, FiniteSets

CONSTANTS
  Callers,     \* the goroutines that use the connection
  Direction,   \* Direction[o]: "read" or "write"
  Timeout      \* Timeout[d]: readTimeout and writeTimeout, 0 when unset

Directions == {"read", "write"}

ASSUME ConnAssumption ==
  /\ Direction \in [Callers -> Directions]
  /\ Timeout \in [Directions -> Nat]

VARIABLES
  pc,        \* where each goroutine is in runIO
  target,    \* ticks left until the deadline it has computed
  age,       \* ticks since it computed it
  deadline,  \* the deadline of each direction of the connection
  open,      \* FALSE once the connection is closed
  outcome,   \* how its last call ended: the error of the event the hooks get
  (* history *)
  setter     \* the goroutine that set the deadline of a direction, {} if none

vars == <<pc, target, age, deadline, open, outcome, setter>>

\* "untyped" is an error that wraps no *clientx.Error.
Outcomes == {"none", "ok", "timeout", "closed", "peer", "untyped"}
T(o) == Timeout[Direction[o]]

Init ==
  /\ pc = [o \in Callers |-> "idle"]
  /\ target = [o \in Callers |-> 0]
  /\ age = [o \in Callers |-> 0]
  /\ deadline = [d \in Directions |-> {}]
  /\ open = TRUE
  /\ outcome = [o \in Callers |-> "none"]
  /\ setter = [d \in Directions |-> {}]

-----------------------------------------------------------------------------
(* runIO                                                                   *)

\* Every return tells the hooks (emitIO) and returns what it told them.
Ends(o, how) ==
  /\ pc' = [pc EXCEPT ![o] = "idle"]
  /\ target' = [target EXCEPT ![o] = 0]
  /\ age' = [age EXCEPT ![o] = 0]
  /\ outcome' = [outcome EXCEPT ![o] = how]

\* applyDeadline: time.Now().Add(timeout), unless there is no timeout.
Call(o) ==
  /\ pc[o] = "idle"
  /\ pc' = [pc EXCEPT ![o] = IF T(o) = 0 THEN "io" ELSE "arming"]
  /\ target' = [target EXCEPT ![o] = T(o)]
  /\ outcome' = [outcome EXCEPT ![o] = "none"]
  /\ UNCHANGED <<age, deadline, open, setter>>

Arms(o, deadlines) ==
  /\ pc[o] = "arming" /\ open
  /\ pc' = [pc EXCEPT ![o] = "io"]
  /\ target' = [target EXCEPT ![o] = 0]
  /\ deadline' = deadlines
  /\ setter' = [setter EXCEPT ![Direction[o]] = {o}]
  /\ UNCHANGED <<age, open, outcome>>

\* Faulty variants: SetDeadline for SetReadDeadline and SetWriteDeadline; a
\* deadline that is set already is never moved back.
SetBothDeadlines(o) == Arms(o, [d \in Directions |-> {target[o]}])
SetDeadlineEarlier(o) ==
  LET both == deadline[Direction[o]] \cup {target[o]}
  IN  Arms(o, [deadline EXCEPT ![Direction[o]] = {n \in both : \A m \in both : n <= m}])

SetDeadline(o) == Arms(o, [deadline EXCEPT ![Direction[o]] = {target[o]}])

\* Setting the deadline fails on a closed connection; the error is returned
\* as "set tcp deadline", without the wrapping of the other errors.
SetDeadlineFails(o) ==
  /\ pc[o] = "arming" /\ ~open
  /\ Ends(o, "untyped")
  /\ UNCHANGED <<deadline, open, setter>>

\* The connection's own Read or Write: bytes, an error of the peer or of the
\* network, the deadline, or the end of the connection.
Expired(o) == 0 \in deadline[Direction[o]]

\* Faulty variant: a call that is through clears the deadline.
TransferDisarms(o) ==
  /\ pc[o] = "io" /\ open
  /\ Ends(o, "ok")
  /\ deadline' = [deadline EXCEPT ![Direction[o]] = {}]
  /\ UNCHANGED <<open, setter>>

Transfer(o) ==
  /\ pc[o] = "io" /\ open
  /\ Ends(o, "ok")
  /\ UNCHANGED <<deadline, open, setter>>

PeerFails(o) ==
  /\ pc[o] = "io" /\ open
  /\ Ends(o, "peer")
  /\ UNCHANGED <<deadline, open, setter>>

TimesOut(o) ==
  /\ pc[o] = "io" /\ open
  /\ Expired(o)
  /\ Ends(o, "timeout")
  /\ UNCHANGED <<deadline, open, setter>>

FindsClosed(o) ==
  /\ pc[o] = "io" /\ ~open
  /\ Ends(o, "closed")
  /\ UNCHANGED <<deadline, open, setter>>

\* Close of the connection underneath, at any time and by any goroutine.
Close ==
  /\ open
  /\ open' = FALSE
  /\ UNCHANGED <<pc, target, age, deadline, outcome, setter>>

Down(n) == IF n = 0 THEN 0 ELSE n - 1
\* A tick; a call whose deadline has passed is woken before the next.
Tick ==
  /\ \A o \in Callers : ~(pc[o] = "io" /\ open /\ Expired(o))
  /\ deadline' = [d \in Directions |-> {Down(n) : n \in deadline[d]}]
  /\ target' = [o \in Callers |-> Down(target[o])]
  /\ age' = [o \in Callers |->
               IF pc[o] # "idle" /\ age[o] < T(o) THEN age[o] + 1 ELSE age[o]]
  /\ UNCHANGED <<pc, open, outcome, setter>>

Fails(o) == SetDeadlineFails(o) \/ PeerFails(o) \/ TimesOut(o) \/ FindsClosed(o)
Wakes(o) ==
  SetDeadline(o) \/ SetDeadlineFails(o) \/ TimesOut(o) \/ FindsClosed(o)

Next ==
  \/ \E o \in Callers : Call(o) \/ SetDeadline(o) \/ Fails(o) \/ Transfer(o)
  \/ Close \/ Tick

Spec == Init /\ [][Next]_vars

-----------------------------------------------------------------------------

TypeOK ==
  /\ pc \in [Callers -> {"idle", "arming", "io"}]
  /\ target \in [Callers -> Nat]
  /\ age \in [Callers -> Nat]
  /\ deadline \in [Directions -> SUBSET Nat]
  /\ open \in BOOLEAN
  /\ outcome \in [Callers -> Outcomes]
  /\ setter \in [Directions -> SUBSET Callers]

\* The goroutine that waits under its own deadline: no other that uses its
\* direction of the connection has set one since.
InForce(o) == setter[Direction[o]] = {o}

\* A call with a timeout waits under a deadline that is at most that timeout
\* away, whoever of the goroutines that share the direction has set it; and
\* when its own deadline is in force and its timeout is over, the call is over:
\* it is woken before the clock moves again.
BlocksAtMostTimeout ==
  \A o \in Callers :
    T(o) > 0 /\ pc[o] = "io" =>
      /\ \E n \in deadline[Direction[o]] : n <= T(o)
      /\ InForce(o) /\ age[o] >= T(o) => Expired(o)

\* Nor does one time out before its own timeout is over, unless another
\* goroutine has set the deadline they share: the deadline of an earlier call,
\* or of the other direction, is never taken for its own.
NoEarlyTimeout ==
  [][\A o \in Callers :
       InForce(o) /\ pc[o] = "io" /\ pc'[o] = "idle" /\ outcome'[o] = "timeout"
         => age[o] >= T(o)]_vars

\* With a timeout every call returns although the peer stays silent, unless
\* other goroutines go on for ever setting the deadline it shares with them.
CallsReturn ==
  \A o \in Callers :
    T(o) > 0 =>
      \/ pc[o] = "io" ~> pc[o] = "idle"
      \/ []<>(\E v \in Callers \ {o} : Direction[v] = Direction[o] /\ pc[v] = "arming")
=============================================================================
