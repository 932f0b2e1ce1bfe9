-------------------------- MODULE ConnectionProofs --------------------------
(***************************************************************************)
(* What holds of TimeoutConn for any number of goroutines, in whatever     *)
(* directions, with whatever timeouts: a call blocks at most its timeout,  *)
(* and its own deadline never ends it before.  And what holds of Datagrams *)
(* for every set of datagrams, every codec and any room in the socket: it  *)
(* is a TimeoutConn, whose theorems it inherits, and it keeps the promise  *)
(* of DatagramQueue.                                                       *)
(***************************************************************************)
EXTENDS Datagrams, TLAPS

\* The steps of a goroutine.
Moves(o) == Call(o) \/ SetDeadline(o) \/ Fails(o) \/ Transfer(o)

LEMMA TimeoutIsNatural ==
  ASSUME NEW o \in Callers
  PROVE  T(o) \in Nat /\ Direction[o] \in Directions
BY ConnAssumption DEF T

-----------------------------------------------------------------------------
(* Type correctness.                                                       *)

LEMMA ConnTypeInit == Init => TypeOK
BY DEF Init, TypeOK, Outcomes

LEMMA EndsType ==
  ASSUME TypeOK, NEW o \in Callers, NEW how \in Outcomes, Ends(o, how),
         UNCHANGED <<deadline, open, setter>>
  PROVE  TypeOK'
BY DEF TypeOK, Ends

LEMMA ConnTypeStep == TypeOK /\ [Next]_vars => TypeOK'
<1> SUFFICES ASSUME TypeOK, [Next]_vars PROVE TypeOK'
  OBVIOUS
<1>1. CASE UNCHANGED vars
  BY <1>1 DEF vars, TypeOK
<1>2. ASSUME NEW o \in Callers, Call(o) PROVE TypeOK'
  BY <1>2, TimeoutIsNatural DEF TypeOK, Call, Outcomes
<1>3. ASSUME NEW o \in Callers, SetDeadline(o) PROVE TypeOK'
  <2>1. deadline' = [deadline EXCEPT ![Direction[o]] = {target[o]}] /\ target[o] \in Nat
    BY <1>3 DEF SetDeadline, Arms, TypeOK
  <2>2. deadline' \in [Directions -> SUBSET Nat]
    BY <2>1, TimeoutIsNatural DEF TypeOK
  <2>3. setter' \in [Directions -> SUBSET Callers]
    BY <1>3, TimeoutIsNatural DEF SetDeadline, Arms, TypeOK
  <2> QED BY <1>3, <2>2, <2>3 DEF SetDeadline, Arms, TypeOK
<1>4. ASSUME NEW o \in Callers, Fails(o) \/ Transfer(o) PROVE TypeOK'
  <2>1. UNCHANGED <<deadline, open, setter>> /\ \E how \in Outcomes : Ends(o, how)
    BY <1>4 DEF Fails, SetDeadlineFails, PeerFails, TimesOut, FindsClosed, Transfer, Outcomes
  <2> QED BY <2>1, EndsType
<1>5. CASE Close
  BY <1>5 DEF Close, TypeOK
<1>6. CASE Tick
  <2>1. \A n \in Nat : Down(n) \in Nat
    BY DEF Down
  <2>2. deadline' \in [Directions -> SUBSET Nat] /\ target' \in [Callers -> Nat]
    BY <1>6, <2>1 DEF Tick, TypeOK
  <2>3. age' \in [Callers -> Nat]
    BY <1>6 DEF Tick, TypeOK
  <2> QED BY <1>6, <2>2, <2>3 DEF Tick, TypeOK
<1> QED BY <1>1, <1>2, <1>3, <1>4, <1>5, <1>6 DEF Next

-----------------------------------------------------------------------------
(* The deadline.  A goroutine that has computed its deadline and not set it *)
(* yet knows what is left of its timeout; one that waits does so under one  *)
(* deadline, at most its timeout away, and exactly what is left of its      *)
(* timeout if it is the one who set it.                                     *)

Left(o) == T(o) - age[o]

DeadlineInv(o) ==
  /\ age[o] <= T(o)
  /\ pc[o] = "idle" => age[o] = 0
  /\ pc[o] = "arming" => T(o) > 0 /\ target[o] = Left(o)
  /\ pc[o] = "io" /\ T(o) > 0 =>
       \E n \in Nat :
         /\ deadline[Direction[o]] = {n} /\ n <= T(o)
         /\ InForce(o) => n = Left(o)

ConnInv == TypeOK /\ \A o \in Callers : DeadlineInv(o)

\* What the calls of another goroutine do to a call.
LEMMA OthersDeadline ==
  ASSUME ConnInv, NEW o \in Callers, Moves(o), NEW v \in Callers, v # o
  PROVE  DeadlineInv(v)'
<1> USE DEF ConnInv, TypeOK
<1>1. pc'[v] = pc[v] /\ age'[v] = age[v] /\ target'[v] = target[v]
  BY DEF Moves, Call, SetDeadline, Arms, Fails, SetDeadlineFails, PeerFails, TimesOut,
         FindsClosed, Transfer, Ends
<1>2. CASE UNCHANGED <<deadline, setter>>
  BY <1>1, <1>2 DEF DeadlineInv, Left, InForce, T
<1>3. CASE SetDeadline(o)
  <2>1. /\ deadline' = [deadline EXCEPT ![Direction[o]] = {target[o]}]
        /\ setter' = [setter EXCEPT ![Direction[o]] = {o}]
        /\ pc[o] = "arming"
    BY <1>3 DEF SetDeadline, Arms
  <2>2. CASE Direction[v] = Direction[o]
    <3>1. target[o] \in Nat /\ target[o] <= T(v)
      BY <2>1, <2>2, TimeoutIsNatural DEF DeadlineInv, Left, T
    <3>2. deadline'[Direction[v]] = {target[o]} /\ setter'[Direction[v]] = {o}
      BY <2>1, <2>2, TimeoutIsNatural
    <3> QED BY <1>1, <3>1, <3>2 DEF DeadlineInv, Left, InForce, T
  <2>3. CASE Direction[v] # Direction[o]
    <3>1. /\ deadline'[Direction[v]] = deadline[Direction[v]]
          /\ setter'[Direction[v]] = setter[Direction[v]]
      BY <2>1, <2>3, TimeoutIsNatural
    <3> QED BY <1>1, <3>1 DEF DeadlineInv, Left, InForce, T
  <2> QED BY <2>2, <2>3
<1> QED BY <1>2, <1>3 DEF Moves, Call, Fails, SetDeadlineFails, PeerFails, TimesOut,
                          FindsClosed, Transfer

LEMMA OwnDeadline ==
  ASSUME ConnInv, NEW o \in Callers, Moves(o)
  PROVE  DeadlineInv(o)'
<1> USE DEF ConnInv, TypeOK
<1>0. T(o) \in Nat /\ Direction[o] \in Directions /\ T(o)' = T(o) /\ age[o] \in Nat
  BY TimeoutIsNatural DEF T
<1>1. CASE Call(o)
  <2>1. /\ pc[o] = "idle" /\ pc'[o] = IF T(o) = 0 THEN "io" ELSE "arming"
        /\ target'[o] = T(o) /\ age'[o] = age[o]
    BY <1>1 DEF Call
  <2>2. age[o] = 0
    BY <2>1 DEF DeadlineInv
  <2> QED BY <1>0, <2>1, <2>2 DEF DeadlineInv, Left
<1>2. CASE SetDeadline(o)
  <2>1. /\ pc[o] = "arming" /\ pc'[o] = "io" /\ age'[o] = age[o]
        /\ deadline'[Direction[o]] = {target[o]}
    BY <1>0, <1>2 DEF SetDeadline, Arms
  <2>2. target[o] \in Nat /\ target[o] = Left(o)
    BY <2>1 DEF DeadlineInv
  <2> QED BY <1>0, <2>1, <2>2 DEF DeadlineInv, Left
<1>3. CASE Fails(o) \/ Transfer(o)
  <2>1. pc'[o] = "idle" /\ age'[o] = 0
    BY <1>3 DEF Fails, SetDeadlineFails, PeerFails, TimesOut, FindsClosed, Transfer, Ends
  <2> QED BY <1>0, <2>1 DEF DeadlineInv
<1> QED BY <1>1, <1>2, <1>3 DEF Moves

LEMMA TickDeadline ==
  ASSUME ConnInv, Tick, NEW o \in Callers
  PROVE  DeadlineInv(o)'
<1> USE DEF ConnInv, TypeOK
<1>0. /\ T(o) \in Nat /\ Direction[o] \in Directions /\ T(o)' = T(o)
      /\ age[o] \in Nat /\ target[o] \in Nat
  BY TimeoutIsNatural DEF T
<1>1. /\ UNCHANGED <<pc, setter>>
      /\ target'[o] = Down(target[o])
      /\ age'[o] = IF pc[o] # "idle" /\ age[o] < T(o) THEN age[o] + 1 ELSE age[o]
      /\ deadline'[Direction[o]] = {Down(n) : n \in deadline[Direction[o]]}
  BY <1>0 DEF Tick
<1>2. CASE pc[o] = "idle"
  BY <1>0, <1>1, <1>2 DEF DeadlineInv
<1>3. CASE pc[o] = "arming"
  BY <1>0, <1>1, <1>3 DEF DeadlineInv, Left, Down
<1>4. CASE pc[o] = "io" /\ T(o) > 0
  <2>1. PICK n \in Nat : /\ deadline[Direction[o]] = {n} /\ n <= T(o)
                         /\ InForce(o) => n = Left(o)
    BY <1>4 DEF DeadlineInv
  <2>2. deadline'[Direction[o]] = {Down(n)} /\ Down(n) \in Nat /\ Down(n) <= n
    BY <1>1, <2>1 DEF Down
  <2>3. InForce(o)' => Down(n) = Left(o)'
    BY <1>0, <1>1, <1>4, <2>1 DEF InForce, Left, Down, DeadlineInv
  <2>4. age'[o] <= T(o)
    BY <1>0, <1>1 DEF DeadlineInv
  <2> QED BY <1>0, <1>1, <1>4, <2>1, <2>2, <2>3, <2>4 DEF DeadlineInv
<1>5. CASE pc[o] = "io" /\ T(o) = 0
  BY <1>0, <1>1, <1>5 DEF DeadlineInv
<1> QED BY <1>0, <1>2, <1>3, <1>4, <1>5

LEMMA ConnInvInit == Init => ConnInv
BY ConnTypeInit, TimeoutIsNatural DEF Init, ConnInv, DeadlineInv

LEMMA ConnInvStep == ConnInv /\ [Next]_vars => ConnInv'
<1> SUFFICES ASSUME ConnInv, [Next]_vars PROVE ConnInv'
  OBVIOUS
<1>1. TypeOK'
  BY ConnTypeStep DEF ConnInv
<1>2. ASSUME NEW v \in Callers PROVE DeadlineInv(v)'
  <2>1. CASE UNCHANGED vars \/ Close
    BY <2>1 DEF ConnInv, vars, Close, DeadlineInv, Left, InForce, T
  <2>2. CASE Tick
    BY <2>2, TickDeadline
  <2>3. ASSUME NEW o \in Callers, Moves(o) PROVE DeadlineInv(v)'
    BY <2>3, OwnDeadline, OthersDeadline
  <2> QED BY <2>1, <2>2, <2>3 DEF Next, Moves
<1> QED BY <1>1, <1>2 DEF ConnInv

THEOREM ConnInvariant == Spec => []ConnInv
<1> QED BY ConnInvInit, ConnInvStep, PTL DEF Spec

\* A call with a timeout waits under a deadline at most that timeout away,
\* however many goroutines share the connection, and is woken at its own.
THEOREM CallsAreBounded == Spec => []BlocksAtMostTimeout
<1>1. ConnInv => BlocksAtMostTimeout
  <2> SUFFICES ASSUME ConnInv, NEW o \in Callers, T(o) > 0, pc[o] = "io"
               PROVE  /\ \E n \in deadline[Direction[o]] : n <= T(o)
                      /\ InForce(o) /\ age[o] >= T(o) => Expired(o)
    BY DEF BlocksAtMostTimeout
  <2>1. PICK n \in Nat : /\ deadline[Direction[o]] = {n} /\ n <= T(o)
                         /\ InForce(o) => n = Left(o)
    BY DEF ConnInv, DeadlineInv
  <2>2. age[o] \in Nat /\ age[o] <= T(o) /\ T(o) \in Nat
    BY TimeoutIsNatural DEF ConnInv, TypeOK, DeadlineInv
  <2> QED BY <2>1, <2>2 DEF Left, Expired
<1> QED BY <1>1, ConnInvariant, PTL

\* No call whose deadline is in force times out before its timeout is over.
THEOREM TimeoutsAreDue == Spec => NoEarlyTimeout
<1> DEFINE Due == \A o \in Callers :
             InForce(o) /\ pc[o] = "io" /\ pc'[o] = "idle" /\ outcome'[o] = "timeout"
               => age[o] >= T(o)
<1>1. ConnInv /\ [Next]_vars => [Due]_vars
  <2> SUFFICES ASSUME ConnInv, Next, NEW o \in Callers, InForce(o), pc[o] = "io",
                      pc'[o] = "idle", outcome'[o] = "timeout"
               PROVE  age[o] >= T(o)
    BY DEF NoEarlyTimeout
  <2> USE DEF ConnInv, TypeOK
  <2>1. PICK v \in Callers : Moves(v)
    BY DEF Next, Moves, Close, Tick
  <2>2. v = o
    BY <2>1 DEF Moves, Call, SetDeadline, Arms, Fails, SetDeadlineFails, PeerFails, TimesOut,
                FindsClosed, Transfer, Ends
  <2>3. TimesOut(o)
    BY <2>1, <2>2 DEF Moves, Call, SetDeadline, Arms, Fails, SetDeadlineFails, PeerFails,
                      FindsClosed, Transfer, Ends
  <2>4. age[o] \in Nat /\ T(o) \in Nat
    BY TimeoutIsNatural
  <2>5. CASE T(o) > 0
    BY <2>3, <2>4, <2>5 DEF TimesOut, Expired, DeadlineInv, Left
  <2> QED BY <2>4, <2>5
<1> QED BY <1>1, ConnInvariant, PTL DEF Spec, NoEarlyTimeout

-----------------------------------------------------------------------------
(***************************************************************************)
(* Codec connections over datagrams.                                       *)
(***************************************************************************)

\* Every step of the codec connection is one of the connection underneath, or
\* none.
LEMMA StepsOfConnection == [DatagramNext]_allVars => [Next]_vars
<1> SUFFICES ASSUME [DatagramNext]_allVars PROVE [Next]_vars
  OBVIOUS
<1>1. CASE UNCHANGED allVars
  BY <1>1 DEF allVars, vars
<1>2. ASSUME NEW o \in Callers, ValueStep(o) PROVE [Next]_vars
  BY <1>2 DEF ValueStep, ValueCall, MarshalFails, ValueFails, ReadsValue, WritesValue, Next
<1>3. ASSUME NEW d \in Incoming, Arrives(d) PROVE [Next]_vars
  BY <1>3 DEF Arrives
<1>4. CASE CloseSocket \/ (Tick /\ UNCHANGED <<inbox, result>>)
  BY <1>4 DEF CloseSocket, Next
<1> QED BY <1>1, <1>2, <1>3, <1>4 DEF DatagramNext

THEOREM IsTimeoutConn == ConnectionSpec => Spec
<1>1. DatagramInit => Init
  BY DEF DatagramInit
<1> QED BY <1>1, StepsOfConnection, PTL DEF ConnectionSpec, Spec

\* The bounds of TimeoutConn hold of the calls of a codec connection.
THEOREM ValueCallsAreBounded == ConnectionSpec => []BlocksAtMostTimeout /\ NoEarlyTimeout
<1> QED BY IsTimeoutConn, CallsAreBounded, TimeoutsAreDue, PTL

-----------------------------------------------------------------------------
(* Type correctness.  No error leaves the codec connection without a kind.  *)

Results == [kind : (Outcomes \ {"untyped"}) \cup {"codec"},
            got : SUBSET [from : Peers, payload : Payloads \cup {"cut"}]]

\* How a call fails, and what is left alone when it does.
LEMMA HowItFails ==
  ASSUME TypeOK, NEW o \in Callers, Fails(o)
  PROVE  /\ \/ outcome'[o] \in {"untyped", "closed"} /\ ~open
            \/ outcome'[o] \in {"peer", "timeout"}
         /\ open' = open
BY DEF TypeOK, Fails, SetDeadlineFails, PeerFails, TimesOut, FindsClosed, Ends

LEMMA SurfacedKind ==
  ASSUME TypeOK, NEW o \in Callers, Fails(o)
  PROVE  \/ Surfaced(outcome'[o]) = "closed" /\ ~open
         \/ Surfaced(outcome'[o]) \in {"peer", "timeout"}
BY HowItFails DEF Surfaced

\* The buffer is longer than any datagram.
LEMMA ReadsWhole ==
  ASSUME NEW d \in Incoming
  PROVE  Read(d) = d /\ d \in Datagrams /\ d.payload # "cut"
<1>1. d \in Datagrams /\ d.payload \in Payloads
  BY DatagramAssumption DEF Datagrams
<1>2. d.payload # "cut"
  BY <1>1, DatagramAssumption
<1>3. MaxPayload <= maxUDPPacketSize
  BY DEF MaxPayload, maxUDPPacketSize
<1>4. Length[d.payload] \in 0..MaxPayload
  <2>1. Length \in [Payloads -> 0..MaxPayload]
    BY DatagramAssumption
  <2> QED BY <1>1, <2>1
<1>5. Length[d.payload] <= maxUDPPacketSize
  <2>1. MaxPayload \in Nat /\ maxUDPPacketSize \in Nat
    BY DEF MaxPayload, maxUDPPacketSize
  <2> QED BY <1>3, <1>4, <2>1
<1> QED BY <1>1, <1>2, <1>5 DEF Read

LEMMA FirstDatagram ==
  ASSUME inbox \in Seq(Incoming), inbox # <<>>
  PROVE  /\ Head(inbox) \in Incoming
         /\ Tail(inbox) \in Seq(Incoming) /\ Len(Tail(inbox)) = Len(inbox) - 1
OBVIOUS

LEMMA ResultType ==
  ASSUME DatagramTypeOK, NEW o \in Callers, NEW kind, NEW got,
         [kind |-> kind, got |-> got] \in Results, Gives(o, kind, got)
  PROVE  result' \in [Callers -> Results]
<1>1. result \in [Callers -> Results]
  BY DEF DatagramTypeOK, Results
<1> QED BY <1>1 DEF Gives

LEMMA DatagramTypeStep == DatagramTypeOK /\ [DatagramNext]_allVars => DatagramTypeOK'
<1> SUFFICES ASSUME DatagramTypeOK, [DatagramNext]_allVars PROVE DatagramTypeOK'
  OBVIOUS
<1>0. /\ TypeOK /\ inbox \in Seq(Incoming) /\ Len(inbox) <= InboxCap
      /\ result \in [Callers -> Results] /\ InboxCap \in Nat
  BY DatagramAssumption DEF DatagramTypeOK, Results
<1>1. TypeOK'
  BY <1>0, StepsOfConnection, ConnTypeStep
<1>2. SUFFICES /\ inbox' \in Seq(Incoming) /\ Len(inbox)' <= InboxCap
               /\ result' \in [Callers -> Results]
  BY <1>1 DEF DatagramTypeOK, Results
<1>3. CASE UNCHANGED <<inbox, result>>
  BY <1>0, <1>3
<1>4. ASSUME NEW o \in Callers, NEW kind \in {"none", "ok", "codec"},
             UNCHANGED inbox, Gives(o, kind, {})
      PROVE  /\ inbox' \in Seq(Incoming) /\ Len(inbox)' <= InboxCap
             /\ result' \in [Callers -> Results]
  <2>1. [kind |-> kind, got |-> {}] \in Results
    BY DEF Results, Outcomes
  <2> QED BY <1>0, <1>4, <2>1, ResultType
<1>5. ASSUME NEW o \in Callers, ValueFails(o)
      PROVE  /\ inbox' \in Seq(Incoming) /\ Len(inbox)' <= InboxCap
             /\ result' \in [Callers -> Results]
  <2>1. Surfaced(outcome'[o]) \in {"closed", "peer", "timeout"}
    BY <1>0, <1>5, SurfacedKind DEF ValueFails
  <2>2. [kind |-> Surfaced(outcome'[o]), got |-> {}] \in Results
    BY <2>1 DEF Results, Outcomes
  <2> QED BY <1>0, <1>5, <2>2, ResultType DEF ValueFails
<1>6. ASSUME NEW o \in Callers, ReadsValue(o)
      PROVE  /\ inbox' \in Seq(Incoming) /\ Len(inbox)' <= InboxCap
             /\ result' \in [Callers -> Results]
  <2>1. inbox # <<>> /\ inbox' = Tail(inbox)
    BY <1>6 DEF ReadsValue
  <2>2. inbox' \in Seq(Incoming) /\ Len(inbox)' <= InboxCap
    BY <1>0, <2>1, FirstDatagram
  <2> DEFINE d == Read(Head(inbox))
  <2>3. d \in Datagrams
    BY <1>0, <2>1, FirstDatagram, ReadsWhole
  <2>4. [kind |-> "ok", got |-> {d}] \in Results /\ [kind |-> "codec", got |-> {}] \in Results
    BY <2>3 DEF Results, Outcomes, Datagrams
  <2>5. Gives(o, "ok", {d}) \/ Gives(o, "codec", {})
    BY <1>6 DEF ReadsValue
  <2> QED BY <2>2, <2>4, <2>5, ResultType
<1>7. ASSUME NEW d \in Incoming, Arrives(d)
      PROVE  /\ inbox' \in Seq(Incoming) /\ Len(inbox)' <= InboxCap
             /\ result' \in [Callers -> Results]
  BY <1>0, <1>7 DEF Arrives
<1>8. CASE CloseSocket
  BY <1>0, <1>8 DEF CloseSocket
<1> QED BY <1>3, <1>4, <1>5, <1>6, <1>7, <1>8
        DEF allVars, DatagramNext, ValueStep, ValueCall, MarshalFails, WritesValue

\* The codec connection is well typed: no error without a kind leaves it, that
\* of a deadline set on a closed connection included.
THEOREM DatagramsTyped == ConnectionSpec => []DatagramTypeOK
<1>1. DatagramInit => DatagramTypeOK
  <2>1. DatagramInit => TypeOK
    BY ConnTypeInit DEF DatagramInit
  <2> QED BY <2>1, DatagramAssumption DEF DatagramInit, DatagramTypeOK, Outcomes
<1> QED BY <1>1, DatagramTypeStep, PTL DEF ConnectionSpec

-----------------------------------------------------------------------------
(* The refinement.                                                         *)

LEMMA PromiseInit == DatagramInit => Promise!Init
BY DEF DatagramInit, Init, Promise!Init, Promise!Nothing

LEMMA PromiseFails ==
  ASSUME TypeOK, NEW o \in Callers, ValueFails(o)
  PROVE  Promise!Next
<1>1. PICK kind \in {"timeout", "closed", "peer", "codec"} :
        kind = Surfaced(outcome'[o]) /\ kind # "codec" /\ (kind = "closed" => ~open)
  BY SurfacedKind DEF ValueFails
<1>2. Promise!Fail(o, kind)
  BY <1>1, HowItFails DEF ValueFails, Gives, Promise!Fail, Promise!Gives
<1> QED BY <1>2 DEF Promise!Next

LEMMA PromiseReads ==
  ASSUME DatagramTypeOK, NEW o \in Callers, ReadsValue(o)
  PROVE  Promise!Next
<1>1. /\ Direction[o] = "read" /\ inbox # <<>> /\ inbox' = Tail(inbox) /\ open' = open
      /\ LET d == Read(Head(inbox))
         IN  \/ d.payload \in Decodable \cup {"cut"} /\ Gives(o, "ok", {d})
             \/ d.payload \notin Decodable /\ Gives(o, "codec", {})
  BY DEF ReadsValue, Transfer
<1>2. Head(inbox) \in Incoming /\ Read(Head(inbox)) = Head(inbox) /\ Head(inbox).payload # "cut"
  BY <1>1, FirstDatagram, ReadsWhole DEF DatagramTypeOK
<1>3. CASE Head(inbox).payload \in Decodable /\ Gives(o, "ok", {Head(inbox)})
  <2>1. Promise!Hand(o)
    BY <1>1, <1>2, <1>3 DEF Promise!Hand, Promise!Gives, Gives
  <2> QED BY <2>1 DEF Promise!Next
<1>4. CASE Head(inbox).payload \notin Decodable /\ Gives(o, "codec", {})
  <2>1. Promise!Skip(o)
    BY <1>1, <1>2, <1>4 DEF Promise!Skip, Promise!Gives, Gives
  <2> QED BY <2>1 DEF Promise!Next
<1> QED BY <1>1, <1>2, <1>3, <1>4

LEMMA PromiseStep ==
  DatagramTypeOK /\ [DatagramNext]_allVars => [Promise!Next]_<<inbox, open, result>>
<1> SUFFICES ASSUME DatagramTypeOK, [DatagramNext]_allVars
             PROVE  [Promise!Next]_<<inbox, open, result>>
  OBVIOUS
<1>0. TypeOK
  BY DEF DatagramTypeOK
<1>1. CASE UNCHANGED allVars
  BY <1>1 DEF allVars
<1>2. ASSUME NEW o \in Callers, ValueStep(o) PROVE [Promise!Next]_<<inbox, open, result>>
  <2>1. CASE ValueCall(o)
    <3>1. Promise!Begin(o)
      BY <2>1 DEF ValueCall, Call, Gives, Promise!Begin, Promise!Gives
    <3> QED BY <3>1 DEF Promise!Next
  <2>2. CASE MarshalFails(o)
    <3>1. Promise!Fail(o, "codec")
      BY <2>2 DEF MarshalFails, vars, Gives, Promise!Fail, Promise!Gives
    <3> QED BY <3>1 DEF Promise!Next
  <2>3. CASE WritesValue(o)
    <3>1. Promise!Send(o)
      BY <2>3 DEF WritesValue, Transfer, Gives, Promise!Send, Promise!Gives
    <3> QED BY <3>1 DEF Promise!Next
  <2>4. CASE SetDeadline(o) /\ UNCHANGED <<inbox, result>>
    BY <2>4 DEF SetDeadline, Arms
  <2> QED BY <1>0, <1>2, <2>1, <2>2, <2>3, <2>4, PromiseFails, PromiseReads DEF ValueStep
<1>3. ASSUME NEW d \in Incoming, Arrives(d) PROVE [Promise!Next]_<<inbox, open, result>>
  <2>1. Promise!Arrive(d)
    BY <1>3 DEF Arrives, vars, Promise!Arrive
  <2> QED BY <2>1 DEF Promise!Next
<1>4. CASE CloseSocket
  <2>1. Promise!Close
    BY <1>4 DEF CloseSocket, Close, Promise!Close
  <2> QED BY <2>1 DEF Promise!Next
<1>5. CASE Tick /\ UNCHANGED <<inbox, result>>
  BY <1>5 DEF Tick
<1> QED BY <1>1, <1>2, <1>3, <1>4, <1>5 DEF DatagramNext

\* A codec connection keeps the promise of DatagramQueue: values are handed out
\* whole, once, in order and with their sender, and failures take nothing.
THEOREM KeepsPromise == ConnectionSpec => DatagramSpec
<1> QED BY PromiseInit, PromiseStep, DatagramsTyped, PTL
        DEF ConnectionSpec, DatagramSpec, Promise!Spec
=============================================================================
