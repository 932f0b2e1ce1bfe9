----------------------------- MODULE Datagrams -----------------------------
(***************************************************************************)
(* CodecPacketConn and CodecConn of package udp over a timeoutPacketConn   *)
(* (TimeoutConn) and one UDP socket: a value is a datagram.  The network   *)
(* loses, repeats and reorders datagrams, the kernel drops those it has no *)
(* room for.  A CodecConn is the case of one peer whose address its        *)
(* callers do not ask for.                                                 *)
(***************************************************************************)
EXTENDS TimeoutConn, Sequences

CONSTANTS
  Peers,      \* the addresses datagrams come from
  Payloads,
  Length,     \* Length[p]: the bytes of a payload
  Decodable,  \* the payloads that Unmarshal takes
  Incoming,   \* the datagrams that may arrive
  InboxCap    \* how many the kernel keeps

Datagrams == [from : Peers, payload : Payloads]
MaxPayload == 65507  \* of a UDP datagram over IPv4

ASSUME DatagramAssumption ==
  /\ Length \in [Payloads -> 0..MaxPayload]
  /\ Decodable \subseteq Payloads
  /\ Incoming \subseteq Datagrams
  /\ "cut" \notin Payloads
  /\ InboxCap \in Nat \ {0}

VARIABLES
  inbox,   \* the datagrams in the socket, in order of arrival
  result   \* what the last call of a goroutine gave it: the kind of its error
           \* ("ok" for nil) and the datagram whose value it got

allVars == <<pc, target, age, deadline, open, outcome, setter, inbox, result>>

DatagramInit ==
  /\ Init
  /\ inbox = <<>>
  /\ result = [o \in Callers |-> [kind |-> "none", got |-> {}]]

Gives(o, kind, got) == result' = [result EXCEPT ![o] = [kind |-> kind, got |-> got]]

-----------------------------------------------------------------------------
(* ReadValueFrom and WriteValueTo.                                         *)

\* What is checked before (nil codec, nil connection) is set for good.
ValueCall(o) == Call(o) /\ Gives(o, "none", {}) /\ UNCHANGED inbox

\* WriteValueTo of a value the codec does not take: no I/O, no event.
MarshalFails(o) ==
  /\ pc[o] = "idle" /\ Direction[o] = "write"
  /\ Gives(o, "codec", {})
  /\ UNCHANGED <<vars, inbox>>

\* Faulty variant: an error of the connection is passed on as it is.
SurfacedBare(how) == how

\* wrapClientError of the codec connection: what has a kind keeps it, and the
\* untyped error of the deadline is that of a closed connection.
Surfaced(how) == IF how = "untyped" THEN "closed" ELSE how

\* Any failure of the connection's call: no datagram is taken.
ValueFails(o) ==
  /\ Fails(o)
  /\ Gives(o, Surfaced(outcome'[o]), {})
  /\ UNCHANGED inbox

\* Faulty variant: 64 decimal kilobytes.
DecimalPacketSize == 64 * 1000

maxUDPPacketSize == 64 * 1024

\* ReadFrom cuts a datagram to the buffer and says nothing; a codec may take
\* what is left for a value.
Read(d) == IF Length[d.payload] <= maxUDPPacketSize THEN d ELSE [d EXCEPT !.payload = "cut"]

\* The value with its sender's address; without it if Unmarshal fails.
ReadsValue(o) ==
  /\ Direction[o] = "read" /\ inbox # <<>>
  /\ Transfer(o)
  /\ inbox' = Tail(inbox)
  /\ LET d == Read(Head(inbox))
     IN  \/ d.payload \in Decodable \cup {"cut"} /\ Gives(o, "ok", {d})
         \/ d.payload \notin Decodable /\ Gives(o, "codec", {})

WritesValue(o) ==
  /\ Direction[o] = "write"
  /\ Transfer(o)
  /\ Gives(o, "ok", {})
  /\ UNCHANGED inbox

-----------------------------------------------------------------------------
(* The socket.                                                             *)

\* A datagram that comes may have come before or out of order, or never.
Arrives(d) ==
  /\ open /\ Len(inbox) < InboxCap
  /\ inbox' = Append(inbox, d)
  /\ UNCHANGED <<vars, result>>

CloseSocket == Close /\ inbox' = <<>> /\ UNCHANGED result

ValueStep(o) ==
  \/ ValueCall(o) \/ MarshalFails(o) \/ ValueFails(o) \/ ReadsValue(o) \/ WritesValue(o)
  \/ SetDeadline(o) /\ UNCHANGED <<inbox, result>>

DatagramNext ==
  \/ \E o \in Callers : ValueStep(o)
  \/ \E d \in Incoming : Arrives(d)
  \/ CloseSocket
  \/ Tick /\ UNCHANGED <<inbox, result>>

ConnectionSpec == DatagramInit /\ [][DatagramNext]_allVars

\* Time passes, and goroutines that can go on or are to be woken do; nothing
\* makes a datagram arrive.
DatagramFairSpec ==
  /\ ConnectionSpec
  /\ WF_allVars(Tick /\ UNCHANGED <<inbox, result>>)
  /\ \A o \in Callers : WF_allVars(Wakes(o) /\ ValueStep(o))

-----------------------------------------------------------------------------

DatagramTypeOK ==
  /\ TypeOK
  /\ inbox \in Seq(Incoming) /\ Len(inbox) <= InboxCap
  /\ result \in [Callers -> [kind : (Outcomes \ {"untyped"}) \cup {"codec"},
                             got : SUBSET [from : Peers, payload : Payloads \cup {"cut"}]]]

\* The codec connection keeps the promise of DatagramQueue.
Promise ==
  INSTANCE DatagramQueue
    WITH Users <- Callers, Readers <- {o \in Callers : Direction[o] = "read"},
         Datagrams <- Incoming, Values <- {d \in Incoming : d.payload \in Decodable},
         Capacity <- InboxCap, queued <- inbox, handed <- result

DatagramSpec == Promise!Spec
=============================================================================
