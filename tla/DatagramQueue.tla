--------------------------- MODULE DatagramQueue ---------------------------
(***************************************************************************)
(* What a datagram codec connection promises its users: a value is handed  *)
(* to one call, whole and with the address it came from, in the order in   *)
(* which the datagrams lie in the socket; only a datagram that is no value *)
(* is skipped, and the call that meets it says so; a call that fails any   *)
(* other way takes nothing; every failure has a kind.  Nothing is promised *)
(* of datagrams on their way: the network loses, repeats and reorders.     *)
(***************************************************************************)
EXTENDS Naturals, Sequences

CONSTANTS
  Users,      \* goroutines
  Readers,    \* those that read; the others write
  Datagrams,  \* what may arrive: a sender's address and a payload
  Values,     \* the datagrams whose payload is a value
  Capacity    \* how many datagrams the socket keeps

VARIABLES queued, open, handed

Nothing == [kind |-> "none", got |-> {}]
Gives(u, kind, got) == handed' = [handed EXCEPT ![u] = [kind |-> kind, got |-> got]]

Init ==
  /\ queued = <<>>
  /\ open = TRUE
  /\ handed = [u \in Users |-> Nothing]

Begin(u) == Gives(u, "none", {}) /\ UNCHANGED <<queued, open>>

Arrive(d) ==
  /\ open /\ Len(queued) < Capacity
  /\ queued' = Append(queued, d)
  /\ UNCHANGED <<open, handed>>

Hand(u) ==
  /\ u \in Readers /\ queued # <<>> /\ Head(queued) \in Values
  /\ Gives(u, "ok", {Head(queued)})
  /\ queued' = Tail(queued)
  /\ UNCHANGED open

Skip(u) ==
  /\ u \in Readers /\ queued # <<>> /\ Head(queued) \notin Values
  /\ Gives(u, "codec", {})
  /\ queued' = Tail(queued)
  /\ UNCHANGED open

Send(u) == u \notin Readers /\ open /\ Gives(u, "ok", {}) /\ UNCHANGED <<queued, open>>

Fail(u, kind) ==
  /\ kind = "closed" => ~open
  /\ kind = "codec" => u \notin Readers
  /\ Gives(u, kind, {})
  /\ UNCHANGED <<queued, open>>

Close == open' = FALSE /\ queued' = <<>> /\ UNCHANGED handed

Next ==
  \/ \E u \in Users :
       \/ Begin(u) \/ Hand(u) \/ Skip(u) \/ Send(u)
       \/ \E kind \in {"timeout", "closed", "peer", "codec"} : Fail(u, kind)
  \/ \E d \in Datagrams : Arrive(d)
  \/ Close

Spec == Init /\ [][Next]_<<queued, open, handed>>
=============================================================================
