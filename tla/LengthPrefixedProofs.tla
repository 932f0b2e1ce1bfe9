------------------------ MODULE LengthPrefixedProofs ------------------------
(***************************************************************************)
(* Proofs about LengthPrefixed: on a connection with careful users the     *)
(* stream stays in step, and frames come out whole, in order and at most   *)
(* once (the refinement of FrameChannel), for all frames, scripts, header  *)
(* lengths and buffers.                                                    *)
(***************************************************************************)
EXTENDS LengthPrefixed, SequenceTheorems, FiniteSetTheorems, TLAPS

(***************************************************************************)
(* Sequences of bytes.                                                     *)
(***************************************************************************)

Ordered(s) == \A i \in 1..(Len(s) - 1) : Follows(s[i], s[i + 1])

\* Moving the first element of a sequence to the end of the one before it.
LEMMA MoveHead ==
  ASSUME NEW S, NEW s \in Seq(S), NEW t \in Seq(S), t # <<>>
  PROVE  /\ Append(s, Head(t)) \o Tail(t) = s \o t
         /\ Append(s, Head(t)) \in Seq(S) /\ Tail(t) \in Seq(S)
<1>1. /\ Head(t) \in S /\ Tail(t) \in Seq(S)
      /\ t = <<Head(t)>> \o Tail(t)
  <2>1. Head(t) \in S /\ Tail(t) \in Seq(S) /\ Len(t) > 0
    BY HeadTailProperties, EmptySeq
  <2>2. <<Head(t)>> \o Tail(t) \in Seq(S)
    BY <2>1
  <2>3. Len(<<Head(t)>> \o Tail(t)) = Len(t)
    BY <2>1
  <2>4. \A i \in 1..Len(t) : (<<Head(t)>> \o Tail(t))[i] = t[i]
    BY <2>1
  <2> QED BY <2>1, <2>2, <2>3, <2>4, SeqEqual
<1>2. Append(s, Head(t)) = s \o <<Head(t)>>
  BY <1>1, AppendIsConcat
<1>3. (s \o <<Head(t)>>) \o Tail(t) = s \o (<<Head(t)>> \o Tail(t))
  BY <1>1, ConcatAssociative
<1> QED BY <1>1, <1>2, <1>3

\* Two ordered sequences make one if the joint is in order.
LEMMA OrderedJoin ==
  ASSUME NEW s \in Seq(Bytes), NEW t \in Seq(Bytes), Ordered(s), Ordered(t),
         s # <<>> /\ t # <<>> => Follows(s[Len(s)], t[1])
  PROVE  Ordered(s \o t)
<1> DEFINE u == s \o t
<1>1. Len(u) = Len(s) + Len(t) /\ Len(s) \in Nat /\ Len(t) \in Nat
  BY ConcatProperties
<1>2. \A i \in 1..Len(u) : u[i] = IF i <= Len(s) THEN s[i] ELSE t[i - Len(s)]
  BY ConcatProperties
<1> SUFFICES ASSUME NEW i \in 1..(Len(u) - 1) PROVE Follows(u[i], u[i + 1])
  BY DEF Ordered
<1> HIDE DEF u
<1>3. CASE i + 1 <= Len(s)
  BY <1>1, <1>2, <1>3 DEF Ordered
<1>4. CASE i = Len(s)
  BY <1>1, <1>2, <1>4
<1>5. CASE i > Len(s)
  <2>1. u[i] = t[i - Len(s)] /\ u[i + 1] = t[(i - Len(s)) + 1]
    BY <1>1, <1>2, <1>5
  <2>2. i - Len(s) \in 1..(Len(t) - 1)
    BY <1>1, <1>5
  <2> QED BY <2>1, <2>2 DEF Ordered
<1> QED BY <1>1, <1>3, <1>4, <1>5

LEMMA BytesAssociate ==
  ASSUME NEW s \in Seq(Bytes), NEW t \in Seq(Bytes), NEW u \in Seq(Bytes)
  PROVE  (s \o t) \o u = s \o (t \o u)
BY ConcatAssociative

\* The parts of an ordered sequence are ordered, and so is their joint.
LEMMA OrderedSplit ==
  ASSUME NEW s \in Seq(Bytes), NEW t \in Seq(Bytes), Ordered(s \o t)
  PROVE  /\ Ordered(s) /\ Ordered(t)
         /\ s # <<>> /\ t # <<>> => Follows(s[Len(s)], t[1])
<1> DEFINE u == s \o t
<1>1. Len(u) = Len(s) + Len(t) /\ Len(s) \in Nat /\ Len(t) \in Nat
  BY ConcatProperties
<1>2. \A i \in 1..Len(u) : u[i] = IF i <= Len(s) THEN s[i] ELSE t[i - Len(s)]
  BY ConcatProperties
<1>3. \A i \in 1..(Len(u) - 1) : Follows(u[i], u[i + 1])
  BY DEF Ordered
<1> HIDE DEF u
<1>4. Ordered(s)
  BY <1>1, <1>2, <1>3 DEF Ordered
<1>5. ASSUME NEW i \in 1..(Len(t) - 1) PROVE Follows(t[i], t[i + 1])
  <2>1. Len(s) + i \in 1..(Len(u) - 1)
    BY <1>1
  <2>2. u[Len(s) + i] = t[i]
    BY <1>1, <1>2
  <2>3. u[(Len(s) + i) + 1] = t[i + 1]
    <3>1. (Len(s) + i) + 1 \in 1..Len(u) /\ ~((Len(s) + i) + 1 <= Len(s))
      BY <1>1, <2>1
    <3>2. ((Len(s) + i) + 1) - Len(s) = i + 1
      BY <1>1
    <3> QED BY <1>2, <3>1, <3>2
  <2> QED BY <1>3, <2>1, <2>2, <2>3
<1>6. s # <<>> /\ t # <<>> => Follows(s[Len(s)], t[1])
  <2> SUFFICES ASSUME s # <<>>, t # <<>> PROVE Follows(s[Len(s)], t[1])
    OBVIOUS
  <2>1. Len(s) > 0 /\ Len(t) > 0
    BY <1>1, EmptySeq
  <2>2. u[Len(s)] = s[Len(s)] /\ u[Len(s) + 1] = t[1] /\ Len(s) \in 1..(Len(u) - 1)
    BY <1>1, <1>2, <2>1
  <2> QED BY <1>3, <2>2
<1> QED BY <1>4, <1>5, <1>6 DEF Ordered

\* The bytes of a frame.
LEMMA FrameBytes ==
  ASSUME NEW f \in Frames
  PROVE  /\ Header(f) \in Seq(Bytes) /\ Len(Header(f)) = HdrLen /\ Header(f) # <<>>
         /\ Payload(f) \in Seq(Bytes) /\ Len(Payload(f)) = Size[f]
         /\ \A i \in 1..HdrLen : Header(f)[i] = <<f, i - 1>>
         /\ \A i \in 1..Size[f] : Payload(f)[i] = <<f, HdrLen + i - 1>>
         /\ Ordered(Header(f)) /\ Ordered(Payload(f))
<1> USE FrameAssumption
<1>1. Size[f] \in Nat /\ HdrLen \in Nat \ {0}
  OBVIOUS
<1>2. Header(f) \in Seq(Bytes) /\ Len(Header(f)) = HdrLen
  BY <1>1, IsASeq DEF Header, Bytes
<1>3. Payload(f) \in Seq(Bytes) /\ Len(Payload(f)) = Size[f]
  BY <1>1, IsASeq DEF Payload, Bytes
<1>4. \A i \in 1..HdrLen : Header(f)[i] = <<f, i - 1>>
  BY DEF Header
<1>5. \A i \in 1..Size[f] : Payload(f)[i] = <<f, HdrLen + i - 1>>
  BY DEF Payload
<1>6. Header(f) # <<>>
  BY <1>1, <1>2
<1>7. ASSUME NEW i \in 1..(HdrLen - 1) PROVE Follows(Header(f)[i], Header(f)[i + 1])
  BY <1>1, <1>4 DEF Follows
<1>8. ASSUME NEW i \in 1..(Size[f] - 1) PROVE Follows(Payload(f)[i], Payload(f)[i + 1])
  BY <1>1, <1>5 DEF Follows
<1> QED BY <1>2, <1>3, <1>4, <1>5, <1>6, <1>7, <1>8 DEF Ordered

-----------------------------------------------------------------------------
(***************************************************************************)
(* The writing end.  What a writer has left is the end of the header or of *)
(* the payload of its frame.                                               *)
(***************************************************************************)

\* The end of the part that starts at place n of frame f and is k bytes long.
EndOf(s, f, n, k) ==
  /\ Len(s) <= k
  /\ \A i \in 1..Len(s) : s[i] = <<f, n + k - Len(s) + i - 1>>

WriterInv(w) ==
  IF wpc[w] = "idle" THEN left[w] = <<>>
  ELSE /\ left[w] # <<>>
       /\ next[w] \in 1..Len(Script[w])
       /\ IF wpc[w] = "header" THEN EndOf(left[w], Frame(w), 0, HdrLen)
          ELSE EndOf(left[w], Frame(w), HdrLen, Size[Frame(w)])

WritersInv == \A w \in Writers : WriterInv(w)

LEMMA FrameOfWriter ==
  ASSUME NEW w \in Writers, next[w] \in 1..Len(Script[w])
  PROVE  Frame(w) \in Frames
<1>1. Script[w] \in Seq(Frames)
  BY FrameAssumption
<1> QED BY <1>1 DEF Frame

LEMMA EndOfTail ==
  ASSUME NEW s \in Seq(Bytes), NEW f, NEW n \in Nat, NEW k \in Nat, EndOf(s, f, n, k), s # <<>>
  PROVE  EndOf(Tail(s), f, n, k)
<1>1. Tail(s) \in Seq(Bytes) /\ Len(Tail(s)) = Len(s) - 1 /\ Len(s) \in Nat \ {0}
      /\ \A i \in 1..Len(Tail(s)) : Tail(s)[i] = s[i + 1]
  BY HeadTailProperties, EmptySeq
<1>2. ASSUME NEW i \in 1..Len(Tail(s))
      PROVE  Tail(s)[i] = <<f, n + k - Len(Tail(s)) + i - 1>>
  <2>1. i + 1 \in 1..Len(s) /\ Tail(s)[i] = s[i + 1]
    BY <1>1
  <2>2. s[i + 1] = <<f, n + k - Len(s) + (i + 1) - 1>>
    BY <2>1 DEF EndOf
  <2>3. n + k - Len(s) + (i + 1) - 1 = n + k - Len(Tail(s)) + i - 1
    BY <1>1
  <2> QED BY <2>1, <2>2, <2>3
<1> QED BY <1>1, <1>2 DEF EndOf

LEMMA EndOfParts ==
  ASSUME NEW f \in Frames
  PROVE  EndOf(Header(f), f, 0, HdrLen) /\ EndOf(Payload(f), f, HdrLen, Size[f])
<1>1. HdrLen \in Nat /\ Size[f] \in Nat
  BY FrameAssumption
<1>2. Len(Header(f)) = HdrLen /\ Len(Payload(f)) = Size[f]
  BY FrameBytes
<1>3. \A i \in 1..HdrLen : 0 + HdrLen - HdrLen + i - 1 = i - 1
  BY <1>1
<1>4. \A i \in 1..Size[f] : HdrLen + Size[f] - Size[f] + i - 1 = HdrLen + i - 1
  BY <1>1
<1>5. \A i \in 1..HdrLen : Header(f)[i] = <<f, i - 1>>
  BY FrameBytes
<1>6. \A i \in 1..Size[f] : Payload(f)[i] = <<f, HdrLen + i - 1>>
  BY FrameBytes
<1> QED BY <1>1, <1>2, <1>3, <1>4, <1>5, <1>6 DEF EndOf

-----------------------------------------------------------------------------
(***************************************************************************)
(* Type correctness.                                                       *)
(***************************************************************************)

WireInv == TypeOK /\ WritersInv

LEMMA WireInit == Init => WireInv
<1> SUFFICES ASSUME Init PROVE WireInv
  OBVIOUS
<1>1. <<>> \in Seq(Bytes) /\ <<>> \in Seq(Frames) /\ <<>> \in Seq(Frames \cup {garbage})
  OBVIOUS
<1>2. TypeOK
  <2>1. habit \in Habit /\ need \in Nat
    BY FrameAssumption DEF Init
  <2>2. /\ wpc \in [Writers -> {"idle", "header", "payload"}]
        /\ next \in [Writers -> Nat \ {0}]
        /\ left \in [Writers -> Seq(Bytes)]
    BY <1>1 DEF Init
  <2>3. /\ fdLock \in Writers \cup {nobody} /\ closed \in BOOLEAN /\ wire \in Seq(Bytes)
        /\ rpc \in {"header", "payload", "stopped"} /\ buf \in Seq(Bytes)
        /\ sent \in Seq(Frames)
    BY <1>1 DEF Init
  <2>4. delivered \in Seq(Frames \cup {garbage})
    BY <1>1 DEF Init
  <2> QED BY <2>1, <2>2, <2>3, <2>4 DEF TypeOK
<1>3. WritersInv
  BY DEF Init, WritersInv, WriterInv
<1> QED BY <1>2, <1>3 DEF WireInv

\* What Accept does to the wire.
LEMMA AcceptTyped ==
  ASSUME WireInv, NEW w \in Writers, Accept(w)
  PROVE  /\ left[w] \in Seq(Bytes) /\ left[w] # <<>>
         /\ next[w] \in 1..Len(Script[w]) /\ Frame(w) \in Frames
         /\ wire' = Append(wire, Head(left[w])) /\ wire' \in Seq(Bytes)
         /\ fdLock' \in Writers \cup {nobody}
         /\ UNCHANGED <<habit, closed, rvars, delivered>>
<1>1. left[w] \in Seq(Bytes) /\ left[w] # <<>> /\ next[w] \in 1..Len(Script[w])
  BY DEF WireInv, TypeOK, WritersInv, WriterInv, Accept
<1>2. Head(left[w]) \in Bytes
  BY <1>1
<1>3. wire' = Append(wire, Head(left[w])) /\ wire \in Seq(Bytes)
  BY DEF Accept, WireInv, TypeOK
<1>4. wire' \in Seq(Bytes)
  BY <1>2, <1>3, AppendProperties
<1>5. Frame(w) \in Frames
  BY <1>1, FrameOfWriter
<1> QED BY <1>1, <1>3, <1>4, <1>5 DEF Accept, nobody

LEMMA WireOfWriter ==
  ASSUME WireInv, NEW w \in Writers, WriterStep(w) \/ WriteFails(w)
  PROVE  WireInv'
<1> USE DEF WireInv
<1>0. /\ Script[w] \in Seq(Frames) /\ next[w] \in Nat \ {0} /\ left[w] \in Seq(Bytes)
      /\ HdrLen \in Nat \ {0} /\ Size \in [Frames -> Nat] /\ <<>> \in Seq(Bytes)
      /\ UNCHANGED <<habit, rvars, delivered>>
  BY FrameAssumption DEF TypeOK, WriterStep, WriteFails, WriteValue, WriteRefused, PutByte,
                         HeaderOut, FrameOut, Accept, rvars
<1>1. ASSUME TypeOK', WriterInv(w)',
             \A v \in Writers \ {w} : wpc'[v] = wpc[v] /\ left'[v] = left[v] /\ next'[v] = next[v]
      PROVE  WireInv'
  BY <1>1 DEF WritersInv, WriterInv, Frame
<1>2. CASE WriteValue(w)
  <2>1. next[w] \in 1..Len(Script[w]) /\ Frame(w) \in Frames
    <3>1. next[w] \in 1..Len(Script[w])
      BY <1>0, <1>2 DEF WriteValue, HasFrame
    <3> QED BY <3>1, FrameOfWriter
  <2>2. Header(Frame(w)) \in Seq(Bytes) /\ Header(Frame(w)) # <<>>
        /\ EndOf(Header(Frame(w)), Frame(w), 0, HdrLen)
    BY <2>1, FrameBytes, EndOfParts
  <2>3. TypeOK'
    BY <1>0, <1>2, <2>2 DEF WriteValue, TypeOK, rvars
  <2>4. wpc'[w] = "header" /\ left'[w] = Header(Frame(w)) /\ next' = next /\ Frame(w)' = Frame(w)
    BY <1>2 DEF WriteValue, TypeOK, Frame
  <2>5. WriterInv(w)'
    BY <2>1, <2>2, <2>4 DEF WriterInv
  <2> QED BY <1>1, <1>2, <2>3, <2>5 DEF WriteValue, TypeOK
<1>3. CASE WriteRefused(w)
  <2>1. TypeOK'
    BY <1>0, <1>3 DEF WriteRefused, TypeOK, rvars
  <2>2. WriterInv(w)'
    BY <1>3 DEF WriteRefused, HasFrame, WritersInv, WriterInv
  <2> QED BY <1>1, <1>3, <2>1, <2>2 DEF WriteRefused, TypeOK
<1>4. CASE PutByte(w)
  <2>1. Accept(w) /\ Len(left[w]) > 1 /\ left' = [left EXCEPT ![w] = Tail(left[w])]
        /\ UNCHANGED <<wpc, next, sent>>
    BY <1>4 DEF PutByte
  <2>2. Tail(left[w]) \in Seq(Bytes) /\ Tail(left[w]) # <<>> /\ left[w] # <<>>
    <3>1. left[w] # <<>>
      BY <2>1, AcceptTyped
    <3>2. Tail(left[w]) \in Seq(Bytes) /\ Len(Tail(left[w])) = Len(left[w]) - 1
      BY <1>0, <3>1, HeadTailProperties
    <3>3. Len(left[w]) \in Nat
      BY <1>0
    <3> QED BY <2>1, <3>1, <3>2, <3>3, EmptySeq
  <2>3. TypeOK'
    BY <1>0, <2>1, <2>2, AcceptTyped DEF TypeOK, rvars
  <2>4. wpc[w] # "idle" /\ left'[w] = Tail(left[w]) /\ Frame(w)' = Frame(w)
    BY <2>1 DEF Accept, TypeOK, Frame
  <2>5. Frame(w) \in Frames /\ Size[Frame(w)] \in Nat
    BY <1>0, <2>1, AcceptTyped
  <2>6. WriterInv(w)'
    <3>1. WriterInv(w)
      BY DEF WritersInv
    <3>2. CASE wpc[w] = "header"
      BY <1>0, <2>1, <2>2, <2>4, <2>5, <3>1, <3>2, EndOfTail DEF WriterInv
    <3>3. CASE wpc[w] # "header"
      BY <1>0, <2>1, <2>2, <2>4, <2>5, <3>1, <3>3, EndOfTail DEF WriterInv
    <3> QED BY <3>2, <3>3
  <2> QED BY <1>1, <2>1, <2>3, <2>6 DEF TypeOK
<1>5. CASE HeaderOut(w)
  <2>1. Accept(w) /\ left' = [left EXCEPT ![w] = Payload(Frame(w))] /\ Size[Frame(w)] > 0
        /\ wpc' = [wpc EXCEPT ![w] = "payload"] /\ UNCHANGED <<next, sent>>
    BY <1>5 DEF HeaderOut
  <2>2. Frame(w) \in Frames /\ next[w] \in 1..Len(Script[w])
    BY <2>1, AcceptTyped
  <2>3. Payload(Frame(w)) \in Seq(Bytes) /\ Payload(Frame(w)) # <<>>
        /\ EndOf(Payload(Frame(w)), Frame(w), HdrLen, Size[Frame(w)])
    BY <2>1, <2>2, FrameBytes, EndOfParts
  <2>4. TypeOK'
    BY <1>0, <2>1, <2>3, AcceptTyped DEF TypeOK, rvars
  <2>5. wpc'[w] = "payload" /\ left'[w] = Payload(Frame(w)) /\ Frame(w)' = Frame(w)
    BY <2>1 DEF TypeOK, Frame
  <2>6. WriterInv(w)'
    BY <2>1, <2>2, <2>3, <2>5 DEF WriterInv
  <2> QED BY <1>1, <2>1, <2>4, <2>6 DEF TypeOK
<1>6. CASE FrameOut(w)
  <2>1. Accept(w) /\ left' = [left EXCEPT ![w] = <<>>] /\ wpc' = [wpc EXCEPT ![w] = "idle"]
        /\ next' = [next EXCEPT ![w] = next[w] + 1] /\ sent' = Append(sent, Frame(w))
    BY <1>6 DEF FrameOut
  <2>2. Frame(w) \in Frames
    BY <2>1, AcceptTyped
  <2>3. sent' \in Seq(Frames)
    BY <2>1, <2>2 DEF TypeOK
  <2>4. TypeOK'
    BY <1>0, <2>1, <2>3, AcceptTyped DEF TypeOK, rvars
  <2>5. WriterInv(w)'
    BY <2>1 DEF WriterInv, TypeOK
  <2> QED BY <1>1, <2>1, <2>4, <2>5 DEF TypeOK
<1>7. CASE WriteFails(w)
  <2>1. TypeOK'
    BY <1>0, <1>7 DEF WriteFails, TypeOK, rvars, nobody, Habit
  <2>2. WriterInv(w)'
    BY <1>7 DEF WriteFails, WriterInv, TypeOK
  <2> QED BY <1>1, <1>7, <2>1, <2>2 DEF WriteFails, TypeOK
<1> QED BY <1>2, <1>3, <1>4, <1>5, <1>6, <1>7 DEF WriterStep

\* What the reader may do that is neither a byte taken nor a value returned.
Refills ==
  /\ \/ \E n \in Decoded : n \in 1..habit.readMax /\ Fill("payload", n)
     \/ Fill("header", HdrLen) \/ Fill("stopped", HdrLen)
  /\ UNCHANGED <<wvars, wire, sent, delivered>>

LEMMA ReaderSteps ==
  ASSUME Reader \/ ReadTimesOut
  PROVE  TakeByte \/ EmptyFrameIn \/ PayloadIn \/ Refills
<1>1. CASE HeaderIn
  BY <1>1 DEF HeaderIn, Refills
<1>2. CASE FrameTooLarge \/ UnmarshalFails \/ ReadTimesOut
  BY <1>2 DEF FrameTooLarge, UnmarshalFails, ReadTimesOut, ReadFails, Refills, Fill
<1>3. CASE ReadEOF
  BY <1>3 DEF ReadEOF, Refills
<1> QED BY <1>1, <1>2, <1>3 DEF Reader

LEMMA ByteTaken ==
  ASSUME WireInv, TakeByte
  PROVE  /\ buf \in Seq(Bytes) /\ wire \in Seq(Bytes) /\ wire # <<>>
         /\ buf' \in Seq(Bytes) /\ wire' \in Seq(Bytes)
         /\ buf' \o wire' = buf \o wire
         /\ Len(buf') = Len(buf) + 1 /\ Len(buf) < need
         /\ \A i \in 1..Len(buf) : buf'[i] = buf[i]
         /\ UNCHANGED <<wvars, rpc, need, sent, delivered>>
<1>1. /\ buf \in Seq(Bytes) /\ wire \in Seq(Bytes) /\ wire # <<>>
      /\ buf' = Append(buf, Head(wire)) /\ wire' = Tail(wire)
      /\ Len(buf) < need /\ UNCHANGED <<wvars, rpc, need, sent, delivered>>
  BY DEF WireInv, TypeOK, TakeByte
<1>2. Head(wire) \in Bytes
  BY <1>1
<1>3. Len(buf') = Len(buf) + 1 /\ \A i \in 1..Len(buf) : buf'[i] = buf[i]
  BY <1>1, <1>2, AppendProperties
<1>4. buf' \o wire' = buf \o wire /\ buf' \in Seq(Bytes) /\ wire' \in Seq(Bytes)
  BY <1>1, MoveHead
<1> QED BY <1>1, <1>3, <1>4

LEMMA WireOfReader ==
  ASSUME WireInv, Reader \/ ReadTimesOut
  PROVE  WireInv'
<1> USE DEF WireInv
<1>0. <<>> \in Seq(Bytes) /\ HdrLen \in Nat
  BY FrameAssumption
<1>1. UNCHANGED wvars /\ TypeOK' => WireInv'
  BY DEF wvars, WritersInv, WriterInv, Frame
<1>2. CASE TakeByte
  BY <1>1, <1>2, ByteTaken DEF TypeOK, wvars
<1>3. ASSUME NEW x \in Frames \cup {garbage}, Return(x) PROVE WireInv'
  <2>1. delivered' \in Seq(Frames \cup {garbage})
    BY <1>3 DEF Return, TypeOK
  <2> QED BY <1>0, <1>1, <1>3, <2>1 DEF Return, Fill, TypeOK, wvars
<1>4. CASE EmptyFrameIn \/ PayloadIn
  BY <1>3, <1>4 DEF EmptyFrameIn, PayloadIn, Decodes
<1>5. CASE Refills
  <2>1. rpc' \in {"header", "payload", "stopped"} /\ need' \in Nat /\ buf' = <<>>
    BY <1>0, <1>5 DEF Refills, Fill, TypeOK, Habit
  <2> QED BY <1>0, <1>1, <1>5, <2>1 DEF Refills, TypeOK, wvars
<1> QED BY <1>2, <1>4, <1>5, ReaderSteps

LEMMA WireStep == WireInv /\ [Next]_vars => WireInv'
<1> SUFFICES ASSUME WireInv, [Next]_vars PROVE WireInv'
  OBVIOUS
<1>1. ASSUME NEW w \in Writers, WriterStep(w) \/ WriteFails(w) PROVE WireInv'
  BY <1>1, WireOfWriter
<1>2. CASE Close
  BY <1>2 DEF Close, WireInv, TypeOK, WritersInv, WriterInv, Frame, rvars
<1>3. CASE UNCHANGED vars
  BY <1>3 DEF vars, wvars, rvars, WireInv, TypeOK, WritersInv, WriterInv, Frame
<1> QED BY <1>1, <1>2, <1>3, WireOfReader DEF Next, Finished

\* TypeOK: the variables keep their types, whoever interleaves and fails.
THEOREM BytesTyped == Spec => []TypeOK
<1>1. Init => WireInv
  BY WireInit
<1>2. WireInv /\ [Next]_vars => WireInv'
  BY WireStep
<1>3. WireInv => TypeOK
  BY DEF WireInv
<1> QED BY <1>1, <1>2, <1>3, PTL DEF Spec

-----------------------------------------------------------------------------
(***************************************************************************)
(* The stream of a connection with careful users.                          *)
(***************************************************************************)

Alone(w) == \A v \in Writers \ {w} : wpc[v] = "idle"
Quiet == \A w \in Writers : wpc[w] = "idle"

TurnsInv == habit.takeTurns => Quiet \/ \E w \in Writers : Alone(w)

\* In step: the first byte is the expected one, and the bytes are in order.
InStep(s) ==
  /\ s # <<>> => s[1][2] = Expected /\ need = (IF rpc = "payload" THEN Size[s[1][1]] ELSE HdrLen)
  /\ Ordered(s)

\* What has been read of the current part is its beginning.
ReadInv ==
  /\ Len(buf) <= need /\ need > 0
  /\ rpc = "header" => need = HdrLen
  /\ \A i \in 1..Len(buf) : buf[i] = <<buf[1][1], Expected + i - 1>>

\* Nobody is writing: the bytes end with the last one of a frame, unless the
\* writing end has given up.
Whole(s) ==
  \/ closed
  \/ s = <<>> /\ rpc = "header"
  \/ s # <<>> /\ s[Len(s)][2] + 1 = HdrLen + Size[s[Len(s)][1]]

SyncInv ==
  Careful /\ rpc # "stopped" =>
    /\ ReadInv
    /\ \A w \in Writers : Alone(w) => InStep(Stream(w))
    /\ Quiet => InStep(buf \o wire) /\ Whole(buf \o wire)

LEMMA TurnsInit == Init => TurnsInv
BY DEF Init, TurnsInv, Quiet

LEMMA TurnsStep == WireInv /\ TurnsInv /\ [Next]_vars => TurnsInv'
<1> SUFFICES ASSUME WireInv, TurnsInv, [Next]_vars PROVE TurnsInv'
  OBVIOUS
<1> USE DEF TurnsInv, Quiet, Alone, WireInv, TypeOK
<1>1. ASSUME NEW w \in Writers, WriteValue(w) PROVE TurnsInv'
  BY <1>1 DEF WriteValue
<1>2. ASSUME NEW w \in Writers, PutByte(w) \/ WriteRefused(w) PROVE TurnsInv'
  BY <1>2 DEF PutByte, WriteRefused, Accept
<1>3. ASSUME NEW w \in Writers, HeaderOut(w) PROVE TurnsInv'
  BY <1>3 DEF HeaderOut, Accept
<1>4. ASSUME NEW w \in Writers, FrameOut(w) PROVE TurnsInv'
  BY <1>4 DEF FrameOut, Accept
<1>5. ASSUME NEW w \in Writers, WriteFails(w) PROVE TurnsInv'
  BY <1>5 DEF WriteFails
<1>6. CASE Close \/ UNCHANGED vars
  BY <1>6 DEF Close, vars, wvars
<1>7. CASE Reader \/ ReadTimesOut
  <2>1. UNCHANGED wvars
    BY <1>7, ReaderSteps DEF TakeByte, EmptyFrameIn, PayloadIn, Return, Refills
  <2> QED BY <2>1 DEF wvars
<1> QED BY <1>1, <1>2, <1>3, <1>4, <1>5, <1>6, <1>7 DEF Next, WriterStep, Finished

LEMMA StreamsTyped ==
  ASSUME WireInv
  PROVE  /\ buf \in Seq(Bytes) /\ wire \in Seq(Bytes) /\ buf \o wire \in Seq(Bytes)
         /\ \A w \in Writers : left[w] \in Seq(Bytes) /\ Stream(w) \in Seq(Bytes)
         /\ \A w \in Writers : Stream(w) = (buf \o wire) \o left[w]
         /\ \A w \in Writers : Stream(w) = buf \o (wire \o left[w])
         /\ \A w \in Writers : wire \o left[w] \in Seq(Bytes)
<1>1. buf \in Seq(Bytes) /\ wire \in Seq(Bytes) /\ \A w \in Writers : left[w] \in Seq(Bytes)
  BY DEF WireInv, TypeOK
<1>2. buf \o wire \in Seq(Bytes) /\ \A w \in Writers : wire \o left[w] \in Seq(Bytes)
  BY <1>1, ConcatProperties
<1>3. \A w \in Writers : Stream(w) = (buf \o wire) \o left[w]
  BY DEF Stream
<1>4. \A w \in Writers : Stream(w) \in Seq(Bytes)
  BY <1>1, <1>2, <1>3, ConcatProperties
<1>5. ASSUME NEW w \in Writers PROVE (buf \o wire) \o left[w] = buf \o (wire \o left[w])
  <2>1. left[w] \in Seq(Bytes)
    BY <1>1
  <2> QED BY <1>1, <2>1, BytesAssociate
<1> QED BY <1>1, <1>2, <1>3, <1>4, <1>5

\* The front of a stream in step is in step, and so is what grows at its end.
LEMMA InStepFront ==
  ASSUME NEW s \in Seq(Bytes), NEW t \in Seq(Bytes), InStep(s \o t)
  PROVE  InStep(s)
<1>1. Ordered(s)
  BY OrderedSplit DEF InStep
<1>2. CASE s = <<>>
  BY <1>1, <1>2 DEF InStep
<1>3. CASE s # <<>>
  <2>1. s \o t # <<>> /\ (s \o t)[1] = s[1]
    <3>1. Len(s) \in Nat /\ Len(s) > 0 /\ Len(t) \in Nat
      BY <1>3, EmptySeq
    <3>2. Len(s \o t) = Len(s) + Len(t) /\ s \o t \in Seq(Bytes)
      BY ConcatProperties
    <3>3. (s \o t)[1] = s[1]
      BY <3>1, ConcatProperties
    <3> QED BY <3>1, <3>2, <3>3, EmptySeq
  <2> QED BY <1>1, <1>3, <2>1 DEF InStep
<1> QED BY <1>2, <1>3

LEMMA InStepGrows ==
  ASSUME NEW s \in Seq(Bytes), NEW t \in Seq(Bytes), InStep(s), Ordered(t),
         s # <<>> /\ t # <<>> => Follows(s[Len(s)], t[1]),
         s = <<>> /\ t # <<>> =>
           t[1][2] = Expected /\ need = (IF rpc = "payload" THEN Size[t[1][1]] ELSE HdrLen)
  PROVE  InStep(s \o t)
<1>1. Ordered(s \o t)
  BY OrderedJoin DEF InStep
<1>2. CASE s = <<>>
  <2>1. s \o t = t
    BY <1>2, ConcatEmptySeq
  <2> QED BY <1>1, <1>2, <2>1 DEF InStep
<1>3. CASE s # <<>>
  <2>1. (s \o t)[1] = s[1]
    BY <1>3, EmptySeq, ConcatProperties
  <2> QED BY <1>1, <1>3, <2>1 DEF InStep
<1> QED BY <1>2, <1>3

LEMMA ReadSide ==
  ASSUME WireInv, TurnsInv, SyncInv, Careful, rpc # "stopped"
  PROVE  InStep(buf \o wire) /\ ReadInv
<1>1. Quiet \/ \E w \in Writers : Alone(w)
  BY DEF TurnsInv, Careful
<1>2. ASSUME NEW w \in Writers, Alone(w) PROVE InStep(buf \o wire)
  BY <1>2, StreamsTyped, InStepFront DEF SyncInv
<1> QED BY <1>1, <1>2 DEF SyncInv

\* While nobody writes all streams are the bytes on their way.
LEMMA QuietStreams ==
  ASSUME WireInv, Quiet, NEW w \in Writers
  PROVE  Stream(w) = buf \o wire
<1>1. left[w] = <<>>
  BY DEF WireInv, WritersInv, WriterInv, Quiet
<1> QED BY <1>1, StreamsTyped, ConcatEmptySeq

\* The only active writer is the one that is alone.
LEMMA ActiveAlone ==
  ASSUME WireInv, TurnsInv, Careful, NEW w \in Writers, wpc[w] # "idle"
  PROVE  Alone(w) /\ ~Quiet /\ \A v \in Writers \ {w} : ~Alone(v)
BY DEF TurnsInv, Careful, Quiet, Alone

LEMMA AcceptMoves ==
  ASSUME WireInv, NEW w \in Writers, Accept(w)
  PROVE  /\ (buf' \o wire') \o Tail(left[w]) = Stream(w)
         /\ Len(left[w]) = 1 => /\ buf' \o wire' = Stream(w)
                                /\ Stream(w) # <<>>
                                /\ Stream(w)[Len(Stream(w))] = left[w][1]
         /\ rpc' = rpc /\ need' = need /\ buf' = buf /\ closed' = closed
<1>1. /\ left[w] \in Seq(Bytes) /\ left[w] # <<>>
      /\ wire' = Append(wire, Head(left[w])) /\ buf' = buf /\ rpc' = rpc /\ need' = need
      /\ closed' = closed
  BY AcceptTyped DEF rvars
<1>2. wire \in Seq(Bytes) /\ buf \in Seq(Bytes) /\ Stream(w) = buf \o (wire \o left[w])
      /\ Stream(w) = (buf \o wire) \o left[w] /\ buf \o wire \in Seq(Bytes)
  BY StreamsTyped
<1>3. /\ wire' \o Tail(left[w]) = wire \o left[w]
      /\ wire' \in Seq(Bytes) /\ Tail(left[w]) \in Seq(Bytes)
  <2>1. /\ Append(wire, Head(left[w])) \o Tail(left[w]) = wire \o left[w]
        /\ Append(wire, Head(left[w])) \in Seq(Bytes) /\ Tail(left[w]) \in Seq(Bytes)
    BY <1>1, <1>2, MoveHead
  <2> QED BY <1>1, <2>1
<1>4. (buf' \o wire') \o Tail(left[w]) = Stream(w)
  <2>1. (buf \o wire') \o Tail(left[w]) = buf \o (wire' \o Tail(left[w]))
    BY <1>2, <1>3, BytesAssociate
  <2> QED BY <1>1, <1>2, <1>3, <2>1
<1>5. ASSUME Len(left[w]) = 1
      PROVE  /\ buf' \o wire' = Stream(w) /\ Stream(w) # <<>>
             /\ Stream(w)[Len(Stream(w))] = left[w][1]
  <2>1. Tail(left[w]) = <<>>
    <3>1. Len(Tail(left[w])) = 0
      BY <1>1, <1>5, HeadTailProperties
    <3> QED BY <1>3, <3>1, EmptySeq
  <2>2. buf' \o wire' \in Seq(Bytes)
    BY <1>1, <1>2, <1>3, ConcatProperties
  <2>3. buf' \o wire' = Stream(w)
    BY <1>4, <2>1, <2>2, ConcatEmptySeq
  <2>4. Len(Stream(w)) = Len(buf \o wire) + 1 /\ Len(buf \o wire) \in Nat
    <3>1. Len((buf \o wire) \o left[w]) = Len(buf \o wire) + Len(left[w])
      BY <1>1, <1>2, ConcatProperties
    <3> QED BY <1>2, <1>5, <3>1
  <2>5. Stream(w)[Len(Stream(w))] = left[w][1]
    BY <1>1, <1>2, <1>5, <2>4, ConcatProperties
  <2>6. Stream(w) # <<>>
    BY <2>4
  <2> QED BY <2>3, <2>5, <2>6
<1> QED BY <1>1, <1>4, <1>5

LEMMA SyncInit == Init => SyncInv
<1> SUFFICES ASSUME Init PROVE SyncInv
  OBVIOUS
<1>1. Quiet /\ buf \o wire = <<>> /\ \A w \in Writers : Stream(w) = <<>>
  BY DEF Init, Quiet, Stream
<1>2. rpc = "header" /\ need = HdrLen /\ buf = <<>>
  BY DEF Init
<1>3. Ordered(<<>>)
  BY DEF Ordered
<1>4. ReadInv
  BY <1>2, FrameAssumption DEF ReadInv
<1> QED BY <1>1, <1>2, <1>3, <1>4 DEF SyncInv, InStep, Whole

\* The invariant after a step that leaves nobody writing.
LEMMA SyncWhenQuiet ==
  ASSUME WireInv, Quiet, ReadInv, InStep(buf \o wire), Whole(buf \o wire)
  PROVE  SyncInv
BY QuietStreams DEF SyncInv

LEMMA SyncOfWrite ==
  ASSUME WireInv, TurnsInv, SyncInv, Careful, rpc # "stopped",
         NEW w \in Writers, WriteValue(w)
  PROVE  SyncInv'
<1> DEFINE f == Frame(w)
           R == buf \o wire
<1>1. /\ wpc'[w] = "header" /\ left'[w] = Header(f)
      /\ UNCHANGED <<habit, buf, wire, rpc, need, closed>>
      /\ Quiet /\ ~closed
  BY DEF WriteValue, Careful, Quiet, WireInv, TypeOK, rvars
<1>2. f \in Frames
  <2>1. next[w] \in 1..Len(Script[w])
    BY FrameAssumption DEF WriteValue, HasFrame, WireInv, TypeOK
  <2> QED BY <2>1, FrameOfWriter
<1>3. /\ R \in Seq(Bytes) /\ InStep(R) /\ ReadInv /\ Whole(R)
  BY <1>1, StreamsTyped, ReadSide DEF SyncInv
<1>4. /\ Header(f) \in Seq(Bytes) /\ Ordered(Header(f)) /\ Header(f)[1] = <<f, 0>>
  <2>1. 1 \in 1..HdrLen /\ HdrLen \in Nat
    BY FrameAssumption
  <2> QED BY <1>2, <2>1, FrameBytes
<1>5. R # <<>> => Follows(R[Len(R)], Header(f)[1])
  <2> SUFFICES ASSUME R # <<>> PROVE Follows(R[Len(R)], Header(f)[1])
    OBVIOUS
  <2>1. R[Len(R)][2] + 1 = HdrLen + Size[R[Len(R)][1]]
    BY <1>1, <1>3 DEF Whole
  <2>2. R[Len(R)] \in Bytes
    BY <1>3, EmptySeq
  <2>3. HdrLen + Size[R[Len(R)][1]] \in Nat
    BY <2>2, FrameAssumption DEF Bytes
  <2> QED BY <1>4, <2>1, <2>3 DEF Follows
<1>6. R = <<>> => rpc = "header" /\ need = HdrLen
  BY <1>1, <1>3 DEF Whole, ReadInv
<1>7. InStep(R \o Header(f))
  <2>1. R = <<>> => Header(f)[1][2] = Expected
                    /\ need = (IF rpc = "payload" THEN Size[Header(f)[1][1]] ELSE HdrLen)
    BY <1>4, <1>6 DEF Expected
  <2> QED BY <1>3, <1>4, <1>5, <2>1, InStepGrows
<1>8. Stream(w)' = R \o Header(f)
  BY <1>1 DEF Stream
<1>9. InStep(Stream(w))' /\ ReadInv'
  BY <1>1, <1>3, <1>7, <1>8 DEF InStep, Ordered, Expected, ReadInv, Follows
<1>10. ~Quiet' /\ \A v \in Writers \ {w} : ~Alone(v)'
  BY <1>1 DEF Quiet, Alone
<1> QED BY <1>9, <1>10 DEF SyncInv

LEMMA SyncOfPut ==
  ASSUME WireInv, TurnsInv, SyncInv, Careful, rpc # "stopped",
         NEW w \in Writers, PutByte(w)
  PROVE  SyncInv'
<1>1. Accept(w) /\ wpc[w] # "idle" /\ wpc' = wpc /\ left'[w] = Tail(left[w])
  BY DEF PutByte, Accept, WireInv, TypeOK
<1>2. Stream(w)' = Stream(w) /\ rpc' = rpc /\ need' = need /\ buf' = buf
  BY <1>1, AcceptMoves DEF Stream
<1>3. Alone(w) /\ ~Quiet /\ \A v \in Writers \ {w} : ~Alone(v)
  BY <1>1, ActiveAlone
<1>4. ReadInv /\ InStep(Stream(w))
  BY <1>3 DEF SyncInv
<1>5. InStep(Stream(w))' /\ ReadInv'
  BY <1>2, <1>4 DEF InStep, Ordered, Expected, ReadInv, Follows
<1>6. ~Quiet' /\ \A v \in Writers \ {w} : ~Alone(v)'
  BY <1>1, <1>3 DEF Quiet, Alone
<1> QED BY <1>5, <1>6 DEF SyncInv

LEMMA SyncOfHeaderOut ==
  ASSUME WireInv, TurnsInv, SyncInv, Careful, rpc # "stopped",
         NEW w \in Writers, HeaderOut(w)
  PROVE  SyncInv'
<1> DEFINE f == Frame(w)
<1>1. /\ Accept(w) /\ wpc[w] = "header" /\ Len(left[w]) = 1 /\ Size[f] > 0
      /\ wpc' = [wpc EXCEPT ![w] = "payload"] /\ left'[w] = Payload(f)
  BY DEF HeaderOut, WireInv, TypeOK
<1>2. f \in Frames /\ HdrLen \in Nat \ {0} /\ Size[f] \in Nat
  BY <1>1, AcceptTyped, FrameAssumption
<1>3. left[w][1] = <<f, HdrLen - 1>>
  <2>1. EndOf(left[w], f, 0, HdrLen)
    BY <1>1 DEF WireInv, WritersInv, WriterInv
  <2>2. 1 \in 1..Len(left[w]) /\ 0 + HdrLen - 1 + 1 - 1 = HdrLen - 1
    BY <1>1, <1>2
  <2> QED BY <1>1, <2>1, <2>2 DEF EndOf
<1>4. /\ buf' \o wire' = Stream(w) /\ Stream(w) # <<>>
      /\ Stream(w)[Len(Stream(w))] = <<f, HdrLen - 1>>
      /\ rpc' = rpc /\ need' = need /\ buf' = buf
  BY <1>1, <1>3, AcceptMoves
<1>5. Alone(w) /\ ~Quiet /\ \A v \in Writers \ {w} : ~Alone(v)
  BY <1>1, ActiveAlone
<1>6. ReadInv /\ InStep(Stream(w)) /\ Stream(w) \in Seq(Bytes)
  BY <1>5, StreamsTyped DEF SyncInv
<1>7. Payload(f) \in Seq(Bytes) /\ Ordered(Payload(f)) /\ Payload(f)[1] = <<f, HdrLen>>
  <2>1. Payload(f)[1] = <<f, HdrLen + 1 - 1>>
    BY <1>1, <1>2, FrameBytes
  <2>2. HdrLen + 1 - 1 = HdrLen
    BY <1>2
  <2> QED BY <1>2, <2>1, <2>2, FrameBytes
<1>8. Follows(<<f, HdrLen - 1>>, <<f, HdrLen>>)
  BY <1>1, <1>2 DEF Follows
<1>9. InStep(Stream(w) \o Payload(f))
  BY <1>4, <1>6, <1>7, <1>8, InStepGrows
<1>10. Stream(w)' = Stream(w) \o Payload(f)
  BY <1>1, <1>4 DEF Stream
<1>11. InStep(Stream(w))' /\ ReadInv'
  BY <1>4, <1>6, <1>9, <1>10 DEF InStep, Ordered, Expected, ReadInv, Follows
<1>12. ~Quiet' /\ \A v \in Writers \ {w} : ~Alone(v)'
  BY <1>1, <1>5 DEF Quiet, Alone, WireInv, TypeOK
<1> QED BY <1>11, <1>12 DEF SyncInv

\* The last byte of a frame.
LEMMA LastByte ==
  ASSUME WireInv, NEW w \in Writers, FrameOut(w)
  PROVE  /\ Frame(w) \in Frames
         /\ left[w][1] = <<Frame(w), HdrLen + Size[Frame(w)] - 1>>
<1> DEFINE f == Frame(w)
<1>1. /\ Accept(w) /\ wpc[w] # "idle" /\ Len(left[w]) = 1
      /\ wpc[w] = "payload" \/ Size[f] = 0
  BY DEF FrameOut, Accept
<1>2. f \in Frames /\ HdrLen \in Nat /\ Size[f] \in Nat /\ 1 \in 1..Len(left[w])
  BY <1>1, AcceptTyped, FrameAssumption
<1>3. CASE wpc[w] = "header"
  <2>1. EndOf(left[w], f, 0, HdrLen)
    BY <1>3 DEF WireInv, WritersInv, WriterInv
  <2>2. left[w][1] = <<f, 0 + HdrLen - 1 + 1 - 1>>
    BY <1>1, <1>2, <2>1 DEF EndOf
  <2>3. 0 + HdrLen - 1 + 1 - 1 = HdrLen + Size[f] - 1
    BY <1>1, <1>2, <1>3
  <2> QED BY <1>2, <2>2, <2>3
<1>4. CASE wpc[w] # "header"
  <2>1. EndOf(left[w], f, HdrLen, Size[f])
    BY <1>1, <1>4 DEF WireInv, WritersInv, WriterInv
  <2>2. left[w][1] = <<f, HdrLen + Size[f] - 1 + 1 - 1>>
    BY <1>1, <1>2, <2>1 DEF EndOf
  <2>3. HdrLen + Size[f] - 1 + 1 - 1 = HdrLen + Size[f] - 1
    BY <1>2
  <2> QED BY <1>2, <2>2, <2>3
<1> QED BY <1>3, <1>4

LEMMA SyncOfFrameOut ==
  ASSUME WireInv, WireInv', TurnsInv, SyncInv, Careful, rpc # "stopped",
         NEW w \in Writers, FrameOut(w)
  PROVE  SyncInv'
<1> DEFINE f == Frame(w)
<1>1. /\ Accept(w) /\ wpc[w] # "idle" /\ Len(left[w]) = 1
      /\ wpc' = [wpc EXCEPT ![w] = "idle"]
  BY DEF FrameOut, Accept
<1>2. /\ buf' \o wire' = Stream(w) /\ Stream(w) # <<>>
      /\ Stream(w)[Len(Stream(w))] = <<f, HdrLen + Size[f] - 1>>
      /\ rpc' = rpc /\ need' = need /\ buf' = buf
  BY <1>1, LastByte, AcceptMoves
<1>3. Alone(w) /\ ReadInv /\ InStep(Stream(w))
  BY <1>1, ActiveAlone DEF SyncInv
<1>4. Quiet'
  BY <1>1, <1>3 DEF Quiet, Alone, WireInv, TypeOK
<1>5. ReadInv' /\ InStep(buf \o wire)'
  BY <1>2, <1>3 DEF InStep, Ordered, Expected, ReadInv, Follows
<1>6. Whole(buf \o wire)'
  <2>1. HdrLen + Size[f] - 1 + 1 = HdrLen + Size[f]
    BY LastByte, FrameAssumption
  <2> QED BY <1>2, <2>1 DEF Whole
<1>7. (WireInv /\ Quiet /\ ReadInv /\ InStep(buf \o wire) /\ Whole(buf \o wire) => SyncInv)'
  BY SyncWhenQuiet, PTL
<1> QED BY <1>4, <1>5, <1>6, <1>7

LEMMA SyncOfFailure ==
  ASSUME WireInv, WireInv', TurnsInv, SyncInv, Careful, rpc # "stopped",
         NEW w \in Writers, WriteFails(w)
  PROVE  SyncInv'
<1>1. /\ wpc[w] # "idle" /\ wpc' = [wpc EXCEPT ![w] = "idle"] /\ closed'
      /\ UNCHANGED <<buf, wire, rpc, need>>
  BY DEF WriteFails, Careful, rvars
<1>2. Alone(w) /\ ReadInv /\ InStep(buf \o wire)
  BY <1>1, ActiveAlone, ReadSide
<1>3. Quiet'
  BY <1>1, <1>2 DEF Quiet, Alone, WireInv, TypeOK
<1>4. ReadInv' /\ InStep(buf \o wire)' /\ Whole(buf \o wire)'
  BY <1>1, <1>2 DEF InStep, Ordered, Expected, ReadInv, Follows, Whole
<1>5. (WireInv /\ Quiet /\ ReadInv /\ InStep(buf \o wire) /\ Whole(buf \o wire) => SyncInv)'
  BY SyncWhenQuiet, PTL
<1> QED BY <1>3, <1>4, <1>5

\* A step that leaves the bytes and the reader alone, and closed as it is or TRUE.
LEMMA SyncUntouched ==
  ASSUME SyncInv, UNCHANGED <<habit, wpc, left, wire, buf, need, rpc>>, closed => closed'
  PROVE  SyncInv'
BY DEF SyncInv, Careful, ReadInv, Expected, Alone, Quiet, InStep, Stream, Ordered, Follows, Whole

LEMMA SyncOfByte ==
  ASSUME WireInv, TurnsInv, SyncInv, Careful, rpc # "stopped", TakeByte
  PROVE  SyncInv'
<1> DEFINE R == buf \o wire
<1>1. /\ buf \in Seq(Bytes) /\ wire' \in Seq(Bytes) /\ buf' \in Seq(Bytes)
      /\ buf' \o wire' = R /\ Len(buf') = Len(buf) + 1 /\ Len(buf) < need
      /\ \A i \in 1..Len(buf) : buf'[i] = buf[i]
      /\ UNCHANGED <<habit, wpc, left, closed, rpc, need>>
  BY ByteTaken DEF wvars
<1>2. ReadInv /\ InStep(R)
  BY ReadSide
<1>3. \A i \in 1..Len(buf') : R[i] = buf'[i] /\ i \in 1..Len(R)
  <2>1. Len(R) = Len(buf') + Len(wire') /\ Len(wire') \in Nat /\ Len(buf') \in Nat
    BY <1>1, ConcatProperties
  <2> QED BY <1>1, <2>1, ConcatProperties
<1>4. Len(buf) \in Nat /\ HdrLen \in Nat /\ need \in Nat /\ Len(buf') \in 1..Len(R)
  BY <1>1, <1>3, FrameAssumption DEF WireInv, TypeOK
<1>5. \A i \in 1..Len(buf') : buf'[i] \in Frames \X Nat
  BY <1>1, ElementOfSeq DEF Bytes
<1> DEFINE g == buf'[1][1]
<1>6. g \in Frames /\ R # <<>> /\ R[1] = buf'[1] /\ Size[g] \in Nat
  BY <1>1, <1>3, <1>4, <1>5, FrameAssumption
<1>7. buf'[1][2] = Expected /\ need = (IF rpc = "payload" THEN Size[g] ELSE HdrLen)
  BY <1>2, <1>6 DEF InStep
<1>8. buf'[Len(buf')] = <<g, Expected + Len(buf') - 1>>
  <2>1. CASE Len(buf) = 0
    <3>1. Len(buf') = 1 /\ buf'[1] = <<g, Expected>> /\ Expected + 1 - 1 = Expected
      BY <1>1, <1>4, <1>5, <1>7, <2>1 DEF Expected
    <3> QED BY <3>1
  <2>2. CASE Len(buf) > 0
    <3> DEFINE k == Len(buf)
    <3>1. k \in 1..Len(buf) /\ 1 \in 1..Len(buf) /\ k + 1 = Len(buf')
          /\ k \in 1..(Len(R) - 1)
      BY <1>1, <1>4, <2>2
    <3>2. buf'[k] = <<g, Expected + k - 1>>
      BY <1>1, <1>2, <3>1 DEF ReadInv
    <3>3. Follows(R[k], R[k + 1]) /\ R[k] = buf'[k] /\ R[k + 1] = buf'[k + 1]
      BY <1>2, <1>3, <1>4, <3>1 DEF InStep, Ordered
    <3>4. Expected + k - 1 + 1 < HdrLen + Size[g]
      BY <1>1, <1>4, <1>6, <1>7, <2>2 DEF Expected
    <3>5. buf'[k + 1] = <<g, Expected + k - 1 + 1>>
      BY <3>2, <3>3, <3>4 DEF Follows
    <3>6. Expected + k - 1 + 1 = Expected + (k + 1) - 1
      BY <1>4 DEF Expected
    <3> QED BY <3>1, <3>5, <3>6
  <2> QED BY <1>4, <2>1, <2>2
<1>9. \A i \in 1..Len(buf') : buf'[i] = <<g, Expected + i - 1>>
  <2> SUFFICES ASSUME NEW i \in 1..Len(buf') PROVE buf'[i] = <<g, Expected + i - 1>>
    OBVIOUS
  <2>1. CASE i = Len(buf')
    BY <1>8, <2>1
  <2>2. CASE i # Len(buf')
    <3>1. i \in 1..Len(buf) /\ 1 \in 1..Len(buf)
      BY <1>1, <1>4, <2>2
    <3> QED BY <1>1, <1>2, <3>1 DEF ReadInv
  <2> QED BY <2>1, <2>2
<1>10. ReadInv'
  <2>1. rpc' = "header" => need' = HdrLen
    BY <1>1, <1>2 DEF ReadInv
  <2>2. Len(buf') <= need' /\ need' > 0
    BY <1>1, <1>4
  <2>3. Expected' = Expected
    BY <1>1 DEF Expected
  <2> QED BY <1>9, <2>1, <2>2, <2>3 DEF ReadInv
<1>11. \A w \in Writers : Stream(w)' = Stream(w)
  BY <1>1 DEF Stream
<1>12. ASSUME NEW w \in Writers, Alone(w)' PROVE InStep(Stream(w))'
  <2>1. InStep(Stream(w))
    BY <1>1, <1>12 DEF SyncInv, Alone
  <2> QED BY <1>1, <1>11, <2>1 DEF InStep, Ordered, Expected, Follows
<1>13. ASSUME Quiet' PROVE InStep(buf \o wire)' /\ Whole(buf \o wire)'
  <2>1. Whole(R)
    BY <1>1, <1>13 DEF SyncInv, Quiet
  <2> QED BY <1>1, <1>2, <2>1 DEF InStep, Ordered, Expected, Follows, Whole
<1> QED BY <1>10, <1>12, <1>13 DEF SyncInv

\* A part that has been read in full is that of a frame, and the bytes behind
\* it go on with the next place of the frame or with a new frame.
FrameOfBuf == buf[1][1]

LEMMA FullPart ==
  ASSUME WireInv, ReadInv, InStep(buf \o wire), rpc # "stopped", Len(buf) = need
  PROVE  /\ FrameOfBuf \in Frames
         /\ rpc = "header" => buf = Header(FrameOfBuf) /\ Decoded = {Size[FrameOfBuf]}
         /\ rpc = "payload" => buf = Payload(FrameOfBuf) /\ need = Size[FrameOfBuf]
         /\ buf # <<>> /\ buf[Len(buf)] = <<FrameOfBuf, Expected + need - 1>>
         /\ \A f \in Frames : buf = Header(f) \/ (buf = Payload(f) /\ Size[f] > 0)
                                => f = FrameOfBuf
<1> DEFINE g == FrameOfBuf
<1>1. /\ buf \in Seq(Bytes) /\ wire \in Seq(Bytes) /\ need \in Nat /\ need > 0
      /\ 1 \in 1..Len(buf) /\ rpc \in {"header", "payload"}
      /\ HdrLen \in Nat \ {0}
  BY FrameAssumption DEF WireInv, TypeOK, ReadInv
<1>2. buf[1] \in Frames \X Nat
  BY <1>1, ElementOfSeq DEF Bytes
<1>3. g \in Frames /\ Size[g] \in Nat
  BY <1>2, FrameAssumption DEF FrameOfBuf
<1>4. \A i \in 1..Len(buf) : buf[i] = <<g, Expected + i - 1>>
  BY DEF ReadInv, FrameOfBuf
<1>5. buf \o wire # <<>> /\ (buf \o wire)[1] = buf[1]
  <2>1. Len(buf \o wire) = Len(buf) + Len(wire) /\ buf \o wire \in Seq(Bytes)
    BY <1>1, ConcatProperties
  <2>2. (buf \o wire)[1] = buf[1]
    BY <1>1, ConcatProperties
  <2>3. Len(buf) \in Nat /\ Len(wire) \in Nat /\ Len(buf) > 0
    BY <1>1
  <2> QED BY <2>1, <2>2, <2>3, EmptySeq
<1>6. rpc = "payload" => need = Size[g]
  BY <1>5 DEF InStep, FrameOfBuf
<1>7. CASE rpc = "header"
  <2>1. need = HdrLen /\ Expected = 0
    BY <1>7 DEF ReadInv, Expected
  <2>2. /\ Header(g) \in Seq(Bytes) /\ Len(Header(g)) = HdrLen
        /\ \A i \in 1..HdrLen : Header(g)[i] = <<g, i - 1>>
    BY <1>3, FrameBytes
  <2>3. ASSUME NEW i \in 1..Len(buf) PROVE buf[i] = Header(g)[i]
    <3>1. i \in 1..HdrLen /\ Expected + i - 1 = i - 1
      BY <1>1, <2>1
    <3> QED BY <1>4, <2>2, <3>1
  <2>4. buf = Header(g)
    BY <1>1, <2>1, <2>2, <2>3, SeqEqual
  <2>5. ASSUME NEW f \in Frames, buf = Header(f) PROVE f = g
    <3>1. buf[1] = <<f, 1 - 1>>
      BY <1>1, <2>5, FrameBytes
    <3> QED BY <3>1 DEF FrameOfBuf
  <2>6. Decoded = {Size[g]}
    BY <1>3, <2>4, <2>5 DEF Decoded
  <2>7. ASSUME NEW f \in Frames, buf = Payload(f), Size[f] > 0 PROVE f = g
    <3>1. Size[f] \in Nat /\ 1 \in 1..Size[f]
      BY <2>7, FrameAssumption
    <3>2. buf[1] = <<f, HdrLen + 1 - 1>>
      BY <2>7, <3>1, FrameBytes
    <3> QED BY <3>2 DEF FrameOfBuf
  <2> QED BY <1>1, <1>3, <1>4, <1>7, <2>4, <2>5, <2>6, <2>7
<1>8. CASE rpc = "payload"
  <2>1. need = Size[g] /\ Expected = HdrLen
    BY <1>6, <1>8 DEF Expected
  <2>2. /\ Payload(g) \in Seq(Bytes) /\ Len(Payload(g)) = Size[g]
        /\ \A i \in 1..Size[g] : Payload(g)[i] = <<g, HdrLen + i - 1>>
    BY <1>3, FrameBytes
  <2>3. \A i \in 1..Len(buf) : buf[i] = Payload(g)[i]
    BY <1>1, <1>4, <2>1, <2>2
  <2>4. buf = Payload(g)
    BY <1>1, <2>1, <2>2, <2>3, SeqEqual
  <2>5. ASSUME NEW f \in Frames, buf = Header(f) PROVE f = g
    <3>1. buf[1] = <<f, 1 - 1>>
      BY <1>1, <2>5, FrameBytes
    <3> QED BY <3>1 DEF FrameOfBuf
  <2>6. ASSUME NEW f \in Frames, buf = Payload(f), Size[f] > 0 PROVE f = g
    <3>1. Size[f] \in Nat /\ 1 \in 1..Size[f]
      BY <2>6, FrameAssumption
    <3>2. buf[1] = <<f, HdrLen + 1 - 1>>
      BY <2>6, <3>1, FrameBytes
    <3> QED BY <3>2 DEF FrameOfBuf
  <2> QED BY <1>1, <1>3, <1>4, <1>8, <2>1, <2>4, <2>5, <2>6
<1> QED BY <1>1, <1>7, <1>8

\* A full part is dropped and the next one expected.
PartDone(n) ==
  /\ rpc # "stopped" /\ Len(buf) = need
  /\ buf' = <<>>
  /\ \/ rpc = "header" /\ n > 0 /\ rpc' = "payload" /\ need' = n
     \/ rpc = "header" /\ n = 0 /\ rpc' = "header" /\ need' = HdrLen
     \/ rpc = "payload" /\ rpc' = "header" /\ need' = HdrLen
  /\ UNCHANGED <<habit, wpc, left, closed, wire>>

LEMMA SyncOfPart ==
  ASSUME WireInv, WireInv', TurnsInv, SyncInv, Careful, rpc # "stopped",
         PartDone(Size[FrameOfBuf])
  PROVE  SyncInv'
<1> DEFINE g == FrameOfBuf
           R == buf \o wire
<1>1. ReadInv /\ InStep(R)
  BY ReadSide
<1>2. /\ g \in Frames /\ buf # <<>> /\ buf[Len(buf)] = <<g, Expected + need - 1>>
      /\ rpc = "payload" => need = Size[g]
      /\ rpc = "header" => need = HdrLen
  BY <1>1, FullPart DEF PartDone, ReadInv
<1>3. Size[g] \in Nat /\ HdrLen \in Nat \ {0} /\ buf \in Seq(Bytes) /\ need \in Nat
      /\ rpc \in {"header", "payload"}
  BY <1>2, FrameAssumption DEF WireInv, TypeOK
<1> DEFINE Next1(t) ==
      /\ t # <<>> => /\ t[1][2] = Expected'
                     /\ need' = (IF rpc' = "payload" THEN Size[t[1][1]] ELSE HdrLen)
      /\ Ordered(t)
<1>4. ASSUME NEW t \in Seq(Bytes), InStep(buf \o t)
      PROVE  Next1(t)
  <2>1. Ordered(t) /\ (t # <<>> => Follows(buf[Len(buf)], t[1]))
    BY <1>2, <1>3, <1>4, OrderedSplit DEF InStep
  <2>3. ASSUME t # <<>>
        PROVE  t[1][2] = Expected' /\ need' = (IF rpc' = "payload" THEN Size[t[1][1]] ELSE HdrLen)
    <3>1. Follows(<<g, Expected + need - 1>>, t[1])
      BY <1>2, <2>1, <2>3
    <3>2. CASE rpc = "header" /\ Size[g] > 0
      <4>1. Expected + need - 1 + 1 < HdrLen + Size[g] /\ Expected + need - 1 + 1 = HdrLen
        BY <1>2, <1>3, <3>2 DEF Expected
      <4>2. t[1] = <<g, HdrLen>>
        BY <3>1, <4>1 DEF Follows
      <4> QED BY <1>3, <3>2, <4>2 DEF PartDone, Expected
    <3>3. CASE rpc = "payload" \/ Size[g] = 0
      <4>1. ~(Expected + need - 1 + 1 < HdrLen + Size[g])
        BY <1>2, <1>3, <3>3 DEF Expected
      <4>2. t[1][2] = 0
        BY <3>1, <4>1 DEF Follows
      <4>3. rpc' = "header" /\ need' = HdrLen
        BY <1>3, <3>3 DEF PartDone
      <4> QED BY <4>2, <4>3 DEF Expected
    <3> QED BY <1>3, <3>2, <3>3
  <2> QED BY <2>1, <2>3
<1>5. ReadInv'
  <2>1. Len(buf') = 0 /\ need' \in Nat /\ need' > 0 /\ (rpc' = "header" => need' = HdrLen)
    BY <1>3 DEF PartDone
  <2>2. Len(buf') <= need' /\ \A i \in 1..Len(buf') : FALSE
    BY <2>1
  <2> QED BY <2>1, <2>2 DEF ReadInv
<1>6. wire \in Seq(Bytes) /\ (buf \o wire)' = wire
  BY ConcatEmptySeq DEF WireInv, TypeOK, PartDone
<1>7. InStep(buf \o wire)'
  <2>1. Next1(wire)
    BY <1>1, <1>4, <1>6
  <2> QED BY <1>6, <2>1 DEF InStep, Ordered, Follows
<1>8. ASSUME NEW w \in Writers, Alone(w)' PROVE InStep(Stream(w))'
  <2>1. InStep(Stream(w))
    BY <1>8 DEF SyncInv, Alone, PartDone
  <2>2. Stream(w) = buf \o (wire \o left[w]) /\ wire \o left[w] \in Seq(Bytes)
    BY StreamsTyped
  <2>3. Stream(w)' = wire \o left[w]
    <3>1. Stream(w)' = (<<>> \o wire) \o left[w]
      BY DEF Stream, PartDone
    <3> QED BY <1>6, <3>1, ConcatEmptySeq
  <2>4. Next1(wire \o left[w])
    BY <1>4, <2>1, <2>2
  <2> QED BY <2>3, <2>4 DEF InStep, Ordered, Follows
<1>9. ASSUME Quiet' PROVE Whole(buf \o wire)'
  <2>1. Whole(R)
    BY <1>9 DEF SyncInv, Quiet, PartDone
  <2>2. CASE closed
    BY <2>2 DEF Whole, PartDone
  <2>3. CASE ~closed /\ wire # <<>>
    <3>1. R # <<>> /\ R[Len(R)] = wire[Len(wire)]
      <4>1. Len(R) = Len(buf) + Len(wire) /\ Len(buf) \in Nat /\ Len(wire) \in Nat
            /\ Len(wire) > 0
        BY <1>3, <1>6, <2>3, ConcatProperties, EmptySeq
      <4>2. R[Len(R)] = wire[Len(R) - Len(buf)]
        BY <1>3, <1>6, <4>1, ConcatProperties
      <4> QED BY <4>1, <4>2
    <3> QED BY <1>6, <2>1, <2>3, <3>1 DEF Whole
  <2>4. CASE ~closed /\ wire = <<>>
    <3>1. R = buf
      BY <1>3, <2>4, ConcatEmptySeq
    <3>2. Expected + need - 1 + 1 = HdrLen + Size[g]
      BY <1>2, <2>1, <2>4, <3>1 DEF Whole
    <3>3. rpc' = "header"
      BY <1>2, <1>3, <3>2 DEF PartDone, Expected
    <3> QED BY <1>6, <2>4, <3>3 DEF Whole
  <2> QED BY <2>2, <2>3, <2>4
<1> QED BY <1>5, <1>7, <1>8, <1>9 DEF SyncInv

\* What the reader does on a connection with careful users before it stops: it
\* takes a byte, or is done with a part, and returns the frame of the part if
\* that was all of it.
Returns(x) == delivered' = Append(delivered, x)

LEMMA CarefulReader ==
  ASSUME WireInv, TurnsInv, SyncInv, Careful, Reader \/ ReadTimesOut
  PROVE  \/ rpc' = "stopped" /\ UNCHANGED <<habit, sent, delivered>>
         \/ rpc # "stopped" /\ TakeByte
         \/ /\ PartDone(Size[FrameOfBuf]) /\ UNCHANGED sent
            /\ \/ rpc = "header" /\ Size[FrameOfBuf] > 0 /\ UNCHANGED delivered
               \/ (rpc = "payload" \/ Size[FrameOfBuf] = 0) /\ Returns(FrameOfBuf)
<1> DEFINE g == FrameOfBuf
<1>1. CASE TakeByte
  BY <1>1 DEF TakeByte
<1>2. CASE FrameTooLarge \/ UnmarshalFails \/ ReadTimesOut \/ ReadEOF
  BY <1>2 DEF FrameTooLarge, UnmarshalFails, ReadTimesOut, ReadEOF, ReadFails, Fill, Careful, wvars
<1>3. ASSUME rpc # "stopped", Len(buf) = need
      PROVE  /\ g \in Frames /\ Size[g] \in Nat
             /\ rpc = "header" => buf = Header(g) /\ Decoded = {Size[g]}
             /\ rpc = "payload" => buf = Payload(g)
             /\ \A f \in Frames : buf = Header(f) \/ (buf = Payload(f) /\ Size[f] > 0) => f = g
  BY <1>3, ReadSide, FullPart, FrameAssumption
<1>4. CASE HeaderIn
  <2>1. rpc = "header" /\ rpc # "stopped" /\ Len(buf) = need
    BY <1>4 DEF HeaderIn
  <2>2. Size[g] \in 1..habit.readMax /\ Fill("payload", Size[g])
    BY <1>3, <1>4, <2>1 DEF HeaderIn
  <2>3. Size[g] > 0
    BY <1>3, <2>1, <2>2
  <2> QED BY <1>4, <2>1, <2>2, <2>3 DEF HeaderIn, Fill, PartDone, wvars
<1>5. CASE EmptyFrameIn
  <2>1. PICK x : Return(x) /\ ((\E f \in Frames : buf = Header(f) /\ x = f)
                               \/ (\A f \in Frames : buf # Header(f)))
    BY <1>5 DEF EmptyFrameIn, Decodes
  <2>2. rpc = "header" /\ rpc # "stopped" /\ Len(buf) = need /\ 0 \in Decoded
    BY <1>5, <2>1 DEF EmptyFrameIn, Return
  <2>3. Size[g] = 0 /\ x = g
    BY <1>3, <2>1, <2>2
  <2> QED BY <2>1, <2>2, <2>3 DEF Return, Fill, PartDone, Returns, wvars
<1>6. CASE PayloadIn
  <2>1. PICK x : Return(x) /\ ((\E f \in Frames : buf = Payload(f) /\ x = f)
                               \/ (\A f \in Frames : buf # Payload(f)))
    BY <1>6 DEF PayloadIn, Decodes
  <2>2. rpc = "payload" /\ rpc # "stopped" /\ Len(buf) = need
    BY <1>6, <2>1 DEF PayloadIn, Return
  <2>3. need > 0 /\ \A f \in Frames : buf = Payload(f) => Size[f] > 0
    <3>1. need > 0
      BY <2>2, ReadSide DEF ReadInv
    <3> QED BY <2>2, <3>1, FrameBytes
  <2>4. x = g
    BY <1>3, <2>1, <2>2, <2>3
  <2> QED BY <2>1, <2>2, <2>4 DEF Return, Fill, PartDone, Returns, wvars
<1> QED BY <1>1, <1>2, <1>4, <1>5, <1>6 DEF Reader

SafeInv == WireInv /\ TurnsInv /\ SyncInv

LEMMA HabitStays ==
  ASSUME [Next]_vars
  PROVE  habit' = habit /\ (rpc = "stopped" => rpc' = "stopped")
<1>1. ASSUME NEW w \in Writers, WriterStep(w) \/ WriteFails(w)
      PROVE  habit' = habit /\ rpc' = rpc
  BY <1>1 DEF WriterStep, WriteFails, WriteValue, WriteRefused, PutByte, HeaderOut, FrameOut,
              Accept, rvars
<1>2. CASE Close \/ Finished \/ UNCHANGED vars
  BY <1>2 DEF Close, Finished, vars, wvars, rvars
<1>3. CASE Reader \/ ReadTimesOut
  BY <1>3 DEF Reader, TakeByte, HeaderIn, EmptyFrameIn, PayloadIn, Return, Fill, FrameTooLarge,
              UnmarshalFails, ReadTimesOut, ReadFails, ReadEOF, wvars
<1> QED BY <1>1, <1>2, <1>3 DEF Next

LEMMA SyncStep == SafeInv /\ [Next]_vars => SyncInv'
<1> SUFFICES ASSUME SafeInv, [Next]_vars PROVE SyncInv'
  OBVIOUS
<1>1. WireInv /\ TurnsInv /\ SyncInv /\ WireInv'
  BY WireStep DEF SafeInv
<1>2. habit' = habit /\ (rpc = "stopped" => rpc' = "stopped")
  BY HabitStays
<1>3. CASE ~Careful \/ rpc = "stopped"
  BY <1>2, <1>3 DEF SyncInv, Careful
<1>4. ASSUME Careful, rpc # "stopped", NEW w \in Writers, WriterStep(w) \/ WriteFails(w)
      PROVE  SyncInv'
  <2>1. CASE WriteRefused(w)
    BY <1>1, <2>1, SyncUntouched DEF WriteRefused, rvars
  <2> QED BY <1>1, <1>4, <2>1, SyncOfWrite, SyncOfPut, SyncOfHeaderOut, SyncOfFrameOut,
             SyncOfFailure DEF WriterStep
<1>5. CASE Close \/ Finished \/ UNCHANGED vars
  BY <1>1, <1>5, SyncUntouched DEF Close, Finished, vars, wvars, rvars
<1>6. ASSUME Careful, rpc # "stopped", Reader \/ ReadTimesOut
      PROVE  SyncInv'
  <2>1. CASE rpc' = "stopped"
    BY <2>1 DEF SyncInv
  <2> QED BY <1>1, <1>6, <2>1, CarefulReader, SyncOfByte, SyncOfPart
<1> QED BY <1>3, <1>4, <1>5, <1>6 DEF Next

LEMMA SafeStep == SafeInv /\ [Next]_vars => SafeInv'
BY WireStep, TurnsStep, SyncStep DEF SafeInv

LEMMA SafeInit == Init => SafeInv
BY WireInit, TurnsInit, SyncInit DEF SafeInv

\* InSync: with careful users what ReadValue reads next is always the beginning
\* of a frame, or of the payload whose header it has read, whatever times out,
\* fails or is closed.
THEOREM StreamInSync == Spec => []InSync
<1>1. SafeInv => InSync
  <2> SUFFICES ASSUME SafeInv, Careful, rpc # "stopped", NEW w \in Writers, Alone(w)
               PROVE  LET s == Stream(w)
                      IN  /\ s # <<>> => /\ s[1][2] = Expected
                                         /\ need = IF rpc = "payload" THEN Size[s[1][1]] ELSE HdrLen
                          /\ \A i \in 1..(Len(s) - 1) : Follows(s[i], s[i + 1])
    BY DEF InSync, Alone
  <2>1. InStep(Stream(w))
    BY DEF SafeInv, SyncInv
  <2> QED BY <2>1 DEF InStep, Ordered
<1> QED BY <1>1, SafeInit, SafeStep, PTL DEF Spec
-----------------------------------------------------------------------------
(***************************************************************************)
(* The promise of FrameChannel.  The frames sent and not yet delivered are *)
(* those whose last byte is on the wire or has just been read: count[i] is *)
(* how many frames have been sent up to the i-th byte of the wire.         *)
(***************************************************************************)

IsLast(b) == b[2] + 1 = HdrLen + Size[b[1]]
BufDone == buf # <<>> /\ IsLast(buf[Len(buf)])

Counts(count) ==
  /\ count \in [0..Len(wire) -> 0..Len(sent)]
  /\ count[Len(wire)] = Len(sent)
  /\ count[0] = Len(delivered) + (IF BufDone THEN 1 ELSE 0)
  /\ BufDone => sent[count[0]] = FrameOfBuf
  /\ \A i \in 1..Len(wire) :
       IF IsLast(wire[i])
       THEN count[i] = count[i - 1] + 1 /\ sent[count[i]] = wire[i][1]
       ELSE count[i] = count[i - 1]

OrderInv == Careful /\ rpc # "stopped" => \E count : Counts(count)

LEMMA OrderInit == Init => OrderInv
<1> SUFFICES ASSUME Init PROVE Counts([i \in 0..0 |-> 0])
  BY DEF OrderInv
<1>1. Len(wire) = 0 /\ Len(sent) = 0 /\ Len(delivered) = 0 /\ ~BufDone
  BY DEF Init, BufDone
<1> QED BY <1>1 DEF Counts

\* A step that moves no byte and returns nothing.
LEMMA OrderUntouched ==
  ASSUME OrderInv, UNCHANGED <<habit, wire, buf, rpc, sent, delivered>>
  PROVE  OrderInv'
BY DEF OrderInv, Careful, Counts, BufDone, IsLast, FrameOfBuf

\* Which places end a part, and which a frame.
LEMMA PartEnds ==
  ASSUME WireInv, ReadInv, InStep(buf \o wire), rpc # "stopped", buf # <<>>
  PROVE  /\ FrameOfBuf \in Frames
         /\ Len(buf) < need => ~BufDone
         /\ Len(buf) = need => (BufDone <=> rpc = "payload" \/ Size[FrameOfBuf] = 0)
<1> DEFINE g == FrameOfBuf
           k == Len(buf)
<1>1. /\ buf \in Seq(Bytes) /\ wire \in Seq(Bytes) /\ k \in Nat /\ k > 0 /\ need \in Nat
      /\ rpc \in {"header", "payload"} /\ HdrLen \in Nat \ {0}
      /\ rpc = "header" => need = HdrLen
  BY FrameAssumption, EmptySeq DEF WireInv, TypeOK, ReadInv
<1>2. buf[1] \in Frames \X Nat
  BY <1>1, ElementOfSeq DEF Bytes
<1>3. g \in Frames /\ Size[g] \in Nat
  BY <1>2, FrameAssumption DEF FrameOfBuf
<1>4. buf[k] = <<g, Expected + k - 1>>
  BY <1>1 DEF ReadInv, FrameOfBuf
<1>5. rpc = "payload" => need = Size[g]
  <2>1. buf \o wire # <<>> /\ (buf \o wire)[1] = buf[1]
    <3>1. Len(buf \o wire) = k + Len(wire) /\ Len(wire) \in Nat
          /\ (buf \o wire)[1] = buf[1]
      BY <1>1, ConcatProperties
    <3>2. Len(buf \o wire) # 0
      BY <1>1, <3>1
    <3> QED BY <3>1, <3>2
  <2> QED BY <2>1 DEF InStep, FrameOfBuf
<1>6. IsLast(buf[k]) <=> Expected + k - 1 + 1 = HdrLen + Size[g]
  BY <1>4 DEF IsLast
<1> HIDE DEF g, k
<1>7. CASE rpc = "header"
  BY <1>1, <1>3, <1>6, <1>7 DEF Expected, BufDone, k, g
<1>8. CASE rpc = "payload"
  BY <1>1, <1>3, <1>5, <1>6, <1>8 DEF Expected, BufDone, k, g
<1> QED BY <1>1, <1>7, <1>8

\* The connection accepts a byte, of which only the last of a frame ends a
\* WriteValue.
LEMMA OrderOfAccept ==
  ASSUME WireInv, OrderInv, Careful, rpc # "stopped", NEW b \in Bytes,
         wire' = Append(wire, b),
         sent' = IF IsLast(b) THEN Append(sent, b[1]) ELSE sent,
         UNCHANGED <<habit, rpc, buf, delivered>>
  PROVE  OrderInv'
<1>1. PICK c : Counts(c)
  BY DEF OrderInv
<1>2. /\ wire \in Seq(Bytes) /\ sent \in Seq(Frames) /\ delivered \in Seq(Frames \cup {garbage})
      /\ Len(wire) \in Nat /\ Len(sent) \in Nat /\ Len(delivered) \in Nat /\ b[1] \in Frames
  BY DEF WireInv, TypeOK, Bytes
<1> DEFINE n == Len(wire)
           m == Len(sent)
           m1 == IF IsLast(b) THEN m + 1 ELSE m
           c1 == [i \in 0..(n + 1) |-> IF i = n + 1 THEN m1 ELSE c[i]]
<1>3. /\ Len(wire') = n + 1 /\ wire'[n + 1] = b /\ \A i \in 1..n : wire'[i] = wire[i]
  BY <1>2, AppendProperties
<1>4. /\ Len(sent') = m1 /\ \A i \in 1..m : sent'[i] = sent[i]
      /\ IsLast(b) => sent'[m1] = b[1]
  BY <1>2, AppendProperties
<1>5. /\ c \in [0..n -> 0..m] /\ c[n] = m
      /\ c[0] = Len(delivered) + (IF BufDone THEN 1 ELSE 0)
      /\ BufDone => sent[c[0]] = FrameOfBuf
      /\ \A i \in 1..n : IF IsLast(wire[i])
                         THEN c[i] = c[i - 1] + 1 /\ sent[c[i]] = wire[i][1]
                         ELSE c[i] = c[i - 1]
  BY <1>1 DEF Counts
<1>6. BufDone' = BufDone /\ FrameOfBuf' = FrameOfBuf /\ Careful' = Careful
  BY DEF BufDone, IsLast, FrameOfBuf, Careful
<1> HIDE DEF n, m, c1, m1
<1>7. n \in Nat /\ m \in Nat /\ m1 \in Nat /\ m <= m1 /\ m1 = IF IsLast(b) THEN m + 1 ELSE m
  BY <1>2 DEF n, m, m1
<1>8. c1 \in [0..(n + 1) -> 0..m1] /\ c1[n + 1] = m1 /\ \A i \in 0..n : c1[i] = c[i]
  BY <1>5, <1>7 DEF c1
<1>9. BufDone => sent'[c1[0]] = FrameOfBuf
  <2> SUFFICES ASSUME BufDone PROVE sent'[c1[0]] = FrameOfBuf
    OBVIOUS
  <2>1. c[0] \in 1..m /\ c1[0] = c[0]
    BY <1>2, <1>5, <1>7, <1>8
  <2> QED BY <1>4, <1>5, <2>1
<1>10. ASSUME NEW i \in 1..(n + 1)
       PROVE  IF IsLast(wire'[i])
              THEN c1[i] = c1[i - 1] + 1 /\ sent'[c1[i]] = wire'[i][1]
              ELSE c1[i] = c1[i - 1]
  <2>1. CASE i = n + 1
    <3>1. wire'[i] = b /\ c1[i] = m1 /\ c1[i - 1] = m
      BY <1>3, <1>5, <1>7, <1>8, <2>1
    <3> QED BY <1>4, <1>7, <3>1
  <2>2. CASE i # n + 1
    <3>1. i \in 1..n /\ i \in 0..n /\ i - 1 \in 0..n
      BY <1>7, <2>2
    <3>2. wire'[i] = wire[i] /\ c1[i] = c[i] /\ c1[i - 1] = c[i - 1]
      BY <1>3, <1>8, <3>1
    <3>3. CASE IsLast(wire[i])
      <4>1. c[i] = c[i - 1] + 1 /\ sent[c[i]] = wire[i][1]
        BY <1>5, <3>1, <3>3
      <4>2. c[i] \in 1..m
        BY <1>5, <1>7, <3>1, <4>1
      <4> QED BY <1>4, <3>2, <3>3, <4>1, <4>2
    <3>4. CASE ~IsLast(wire[i])
      BY <1>5, <3>1, <3>2, <3>4
    <3> QED BY <3>3, <3>4
  <2> QED BY <2>1, <2>2
<1>11. c1[0] = Len(delivered') + (IF BufDone THEN 1 ELSE 0)
  BY <1>5, <1>7, <1>8
<1>12. PICK d : d = c1
  OBVIOUS
<1>13. Counts(d)'
  BY <1>3, <1>4, <1>6, <1>8, <1>9, <1>10, <1>11, <1>12 DEF Counts, IsLast
<1> QED BY <1>13 DEF OrderInv

\* A byte moves from the wire to the buffer: the count of what is before it
\* stays.
LEMMA OrderOfByte ==
  ASSUME WireInv, WireInv', TurnsInv, SyncInv, SyncInv', OrderInv, Careful, rpc # "stopped",
         TakeByte
  PROVE  OrderInv'
<1>1. PICK c : Counts(c)
  BY DEF OrderInv
<1>2. /\ buf \in Seq(Bytes) /\ wire \in Seq(Bytes) /\ wire # <<>> /\ Len(buf) < need
      /\ buf' = Append(buf, Head(wire)) /\ wire' = Tail(wire) /\ Len(buf') = Len(buf) + 1
      /\ UNCHANGED <<habit, rpc, need, sent, delivered>>
  BY ByteTaken DEF TakeByte, wvars
<1> DEFINE n == Len(wire)
           c1 == [i \in 0..(n - 1) |-> c[i + 1]]
<1>3. /\ n \in Nat \ {0} /\ Len(wire') = n - 1
      /\ \A i \in 1..(n - 1) : wire'[i] = wire[i + 1]
      /\ Head(wire) = wire[1] /\ Len(sent) \in Nat /\ Len(delivered) \in Nat
  <2>1. n \in Nat \ {0} /\ Len(wire') = n - 1 /\ Head(wire) = wire[1]
    BY <1>2, HeadTailProperties, EmptySeq
  <2>2. \A i \in 1..(n - 1) : wire'[i] = wire[i + 1]
    BY <1>2, <2>1, HeadTailProperties
  <2> QED BY <2>1, <2>2 DEF WireInv, TypeOK
<1>4. /\ c \in [0..n -> 0..Len(sent)] /\ c[n] = Len(sent)
      /\ c[0] = Len(delivered) + (IF BufDone THEN 1 ELSE 0)
      /\ \A i \in 1..n : IF IsLast(wire[i])
                         THEN c[i] = c[i - 1] + 1 /\ sent[c[i]] = wire[i][1]
                         ELSE c[i] = c[i - 1]
  BY <1>1 DEF Counts
<1>5. ~BufDone
  <2>1. CASE buf = <<>>
    BY <2>1 DEF BufDone
  <2>2. CASE buf # <<>>
    BY <1>2, <2>2, ReadSide, PartEnds
  <2> QED BY <2>1, <2>2
<1>6. BufDone' <=> IsLast(wire[1])
  <2>1. buf'[Len(buf')] = wire[1] /\ buf' # <<>>
    BY <1>2, <1>3, AppendProperties
  <2> QED BY <2>1 DEF BufDone, IsLast
<1>7. BufDone' => wire[1][1] = FrameOfBuf'
  <2>1. buf'[Len(buf')] = wire[1] /\ buf' # <<>> /\ Len(buf') \in 1..Len(buf')
    BY <1>2, <1>3, AppendProperties
  <2>2. Careful' /\ rpc' # "stopped"
    BY <1>2 DEF Careful
  <2>3. ReadInv'
    BY <2>2 DEF SyncInv
  <2>4. buf'[Len(buf')] = <<buf'[1][1], Expected' + Len(buf') - 1>>
    BY <2>1, <2>3 DEF ReadInv
  <2> QED BY <2>1, <2>4 DEF FrameOfBuf
<1> HIDE DEF n, c1
<1>8. c1 \in [0..(n - 1) -> 0..Len(sent)] /\ \A i \in 0..(n - 1) : c1[i] = c[i + 1]
  BY <1>3, <1>4 DEF c1
<1>9. c1[n - 1] = Len(sent)
  BY <1>3, <1>4, <1>8
<1>10. c1[0] = c[1] /\ c[1 - 1] = Len(delivered) /\ 1 \in 1..n
  BY <1>3, <1>4, <1>5, <1>8
<1>11. /\ c1[0] = Len(delivered) + (IF IsLast(wire[1]) THEN 1 ELSE 0)
       /\ IsLast(wire[1]) => sent[c1[0]] = wire[1][1]
  BY <1>3, <1>4, <1>10
<1>12. ASSUME NEW i \in 1..(n - 1)
       PROVE  IF IsLast(wire'[i])
              THEN c1[i] = c1[i - 1] + 1 /\ sent[c1[i]] = wire'[i][1]
              ELSE c1[i] = c1[i - 1]
  <2>1. i + 1 \in 1..n /\ i \in 0..(n - 1) /\ i - 1 \in 0..(n - 1) /\ i - 1 + 1 = i
        /\ (i + 1) - 1 = i
    BY <1>3
  <2>2. wire'[i] = wire[i + 1] /\ c1[i] = c[i + 1] /\ c1[i - 1] = c[(i + 1) - 1]
    BY <1>3, <1>8, <2>1
  <2> QED BY <1>4, <2>1, <2>2
<1>13. PICK d : d = c1
  OBVIOUS
<1>14. Counts(d)'
  BY <1>2, <1>3, <1>6, <1>7, <1>8, <1>9, <1>11, <1>12, <1>13 DEF Counts, IsLast
<1> QED BY <1>14 DEF OrderInv

\* The reader is done with a part: a frame is returned just when the part ends
\* one, and it is the next of those sent.
LEMMA OrderOfPart ==
  ASSUME WireInv, TurnsInv, SyncInv, OrderInv, Careful, rpc # "stopped",
         PartDone(Size[FrameOfBuf]), UNCHANGED sent,
         \/ rpc = "header" /\ Size[FrameOfBuf] > 0 /\ UNCHANGED delivered
         \/ (rpc = "payload" \/ Size[FrameOfBuf] = 0) /\ Returns(FrameOfBuf)
  PROVE  /\ OrderInv'
         /\ \/ UNCHANGED delivered
            \/ /\ Len(delivered) < Len(sent)
               /\ delivered' = Append(delivered, sent[Len(delivered) + 1])
<1>1. PICK c : Counts(c)
  BY DEF OrderInv
<1>2. /\ Len(buf) = need /\ buf' = <<>> /\ UNCHANGED <<habit, wire, sent>>
      /\ ReadInv /\ InStep(buf \o wire) /\ buf # <<>>
      /\ rpc \in {"header", "payload"}
  BY ReadSide DEF PartDone, ReadInv, WireInv, TypeOK
<1>3. /\ FrameOfBuf \in Frames /\ Size[FrameOfBuf] \in Nat
      /\ BufDone <=> rpc = "payload" \/ Size[FrameOfBuf] = 0
  BY <1>2, PartEnds, FrameAssumption
<1>4. /\ Len(sent) \in Nat /\ Len(delivered) \in Nat /\ Len(wire) \in Nat
      /\ delivered \in Seq(Frames \cup {garbage})
  BY DEF WireInv, TypeOK
<1>5. ~BufDone'
  BY <1>2 DEF BufDone
<1>6. c \in [0..Len(wire) -> 0..Len(sent)]
      /\ c[0] = Len(delivered) + (IF BufDone THEN 1 ELSE 0)
      /\ (BufDone => sent[c[0]] = FrameOfBuf)
  BY <1>1 DEF Counts
<1>7. c[0] = Len(delivered')
  <2>1. CASE BufDone
    <3>1. delivered' = Append(delivered, FrameOfBuf)
      BY <1>3, <2>1 DEF Returns
    <3>2. Len(delivered') = Len(delivered) + 1
      BY <1>3, <1>4, <3>1, AppendProperties
    <3> QED BY <1>6, <2>1, <3>2
  <2>2. CASE ~BufDone
    BY <1>3, <1>4, <1>6, <2>2
  <2> QED BY <2>1, <2>2
<1>8. c[0] = Len(delivered') + (IF BufDone' THEN 1 ELSE 0)
  <2>1. Len(delivered') \in Nat
    BY <1>4, <1>6, <1>7
  <2> QED BY <1>5, <1>7, <2>1
<1>9. Counts(c)'
  BY <1>1, <1>2, <1>5, <1>8 DEF Counts, IsLast
<1>10. OrderInv'
  BY <1>9 DEF OrderInv
<1>11. CASE BufDone
  <2>1. delivered' = Append(delivered, FrameOfBuf)
    BY <1>3, <1>11 DEF Returns
  <2>2. c[0] = Len(delivered) + 1 /\ c[0] \in 0..Len(sent) /\ sent[c[0]] = FrameOfBuf
    BY <1>4, <1>6, <1>11
  <2> QED BY <1>4, <1>10, <2>1, <2>2
<1>12. CASE ~BufDone
  BY <1>3, <1>10, <1>12
<1> QED BY <1>11, <1>12

LEMMA MoreToCome ==
  ASSUME NEW h \in Nat, NEW s \in Nat, NEW n \in Nat, NEW x,
         (x = h - n /\ n + s > 1) \/ (x = h + s - n /\ n > 1)
  PROVE  x + 1 # h + s
OBVIOUS

\* Of the steps of a writer only the last byte of a frame counts as sent.
LEMMA OrderOfWriter ==
  ASSUME WireInv, OrderInv, Careful, rpc # "stopped",
         NEW w \in Writers, WriterStep(w) \/ WriteFails(w)
  PROVE  OrderInv'
<1> DEFINE f == Frame(w)
           b == Head(left[w])
<1>1. CASE WriteValue(w) \/ WriteRefused(w) \/ WriteFails(w)
  BY <1>1, OrderUntouched DEF WriteValue, WriteRefused, WriteFails, rvars
<1>2. ASSUME Accept(w)
      PROVE  /\ f \in Frames /\ b \in Bytes /\ b = left[w][1] /\ Len(left[w]) \in Nat \ {0}
             /\ wire' = Append(wire, b) /\ UNCHANGED <<habit, rpc, buf, delivered>>
             /\ HdrLen \in Nat /\ Size[f] \in Nat
             /\ b[1] = f
             /\ wpc[w] = "header" => b[2] = HdrLen - Len(left[w])
             /\ wpc[w] # "header" => b[2] = HdrLen + Size[f] - Len(left[w])
  <2>1. /\ f \in Frames /\ left[w] \in Seq(Bytes) /\ left[w] # <<>> /\ wpc[w] # "idle"
        /\ wire' = Append(wire, b) /\ UNCHANGED <<habit, rpc, buf, delivered>>
    BY <1>2, AcceptTyped DEF rvars, Accept
  <2>2. b \in Bytes /\ b = left[w][1] /\ Len(left[w]) \in Nat \ {0} /\ 1 \in 1..Len(left[w])
    BY <2>1, EmptySeq
  <2>3. HdrLen \in Nat /\ Size[f] \in Nat
    BY <2>1, FrameAssumption
  <2>4. ASSUME wpc[w] = "header" PROVE b = <<f, HdrLen - Len(left[w])>>
    <3>1. EndOf(left[w], f, 0, HdrLen)
      BY <2>1, <2>4 DEF WireInv, WritersInv, WriterInv
    <3>2. left[w][1] = <<f, 0 + HdrLen - Len(left[w]) + 1 - 1>>
      BY <2>2, <3>1 DEF EndOf
    <3>3. 0 + HdrLen - Len(left[w]) + 1 - 1 = HdrLen - Len(left[w])
      BY <2>2, <2>3
    <3> QED BY ONLY <2>2, <3>2, <3>3
  <2>5. ASSUME wpc[w] # "header" PROVE b = <<f, HdrLen + Size[f] - Len(left[w])>>
    <3>1. EndOf(left[w], f, HdrLen, Size[f])
      BY <2>1, <2>5 DEF WireInv, WritersInv, WriterInv
    <3>2. left[w][1] = <<f, HdrLen + Size[f] - Len(left[w]) + 1 - 1>>
      BY <2>2, <3>1 DEF EndOf
    <3>3. HdrLen + Size[f] - Len(left[w]) + 1 - 1 = HdrLen + Size[f] - Len(left[w])
      BY <2>2, <2>3
    <3> QED BY ONLY <2>2, <3>2, <3>3
  <2>6. b[1] = f
    BY <2>4, <2>5
  <2>7. wpc[w] = "header" => b[2] = HdrLen - Len(left[w])
    BY <2>4
  <2>8. wpc[w] # "header" => b[2] = HdrLen + Size[f] - Len(left[w])
    BY <2>5
  <2> QED BY <2>1, <2>2, <2>3, <2>6, <2>7, <2>8
<1>3. ASSUME Accept(w), NEW n \in Nat, n = Len(left[w]),
             (wpc[w] = "header" /\ n + Size[f] > 1) \/ n > 1
      PROVE  ~IsLast(b)
  <2>1. HdrLen \in Nat /\ Size[f] \in Nat /\ b[1] = f
    BY <1>2, <1>3
  <2>2. \/ b[2] = HdrLen - n /\ n + Size[f] > 1
        \/ b[2] = HdrLen + Size[f] - n /\ n > 1
    <3>1. CASE wpc[w] = "header"
      <4>1. b[2] = HdrLen - n
        BY <1>2, <1>3, <3>1
      <4>2. n + Size[f] > 1
        BY <1>3, <2>1
      <4> QED BY <4>1, <4>2
    <3>2. CASE wpc[w] # "header"
      <4>1. b[2] = HdrLen + Size[f] - n
        BY <1>2, <1>3, <3>2
      <4>2. n > 1
        BY <1>3, <3>2
      <4> QED BY <4>1, <4>2
    <3> QED BY <3>1, <3>2
  <2>3. b[2] + 1 # HdrLen + Size[f]
    BY <1>3, <2>1, <2>2, MoreToCome
  <2> QED BY <2>1, <2>3, Zenon DEF IsLast
<1>4. CASE PutByte(w) \/ HeaderOut(w)
  <2>1. /\ Accept(w) /\ sent' = sent
        /\ (Len(left[w]) = 1 /\ wpc[w] = "header" /\ Size[f] > 0) \/ Len(left[w]) > 1
    BY <1>4 DEF PutByte, HeaderOut
  <2>2. Len(left[w]) \in Nat /\ Size[f] \in Nat
    BY <1>2, <2>1
  <2>3. ~IsLast(b)
    BY <1>3, <2>1, <2>2
  <2> QED BY <1>2, <2>1, <2>3, OrderOfAccept
<1>5. CASE FrameOut(w)
  <2>1. Accept(w) /\ sent' = Append(sent, f)
    BY <1>5 DEF FrameOut
  <2>2. IsLast(b) /\ b[1] = f
    BY <1>2, <1>5, <2>1, LastByte DEF IsLast
  <2> QED BY <1>2, <2>1, <2>2, OrderOfAccept
<1> QED BY <1>1, <1>4, <1>5 DEF WriterStep

LEMMA OrderOfReader ==
  ASSUME WireInv, WireInv', TurnsInv, SyncInv, SyncInv', OrderInv, Careful,
         Reader \/ ReadTimesOut
  PROVE  /\ OrderInv' /\ UNCHANGED <<habit, sent>>
         /\ \/ UNCHANGED delivered
            \/ /\ Len(delivered) < Len(sent)
               /\ delivered' = Append(delivered, sent[Len(delivered) + 1])
<1>1. CASE rpc' = "stopped" /\ UNCHANGED <<habit, sent, delivered>>
  BY <1>1 DEF OrderInv
<1>2. CASE rpc # "stopped" /\ TakeByte
  BY <1>2, OrderOfByte DEF TakeByte, wvars
<1>3. ASSUME PartDone(Size[FrameOfBuf]), UNCHANGED sent,
             \/ rpc = "header" /\ Size[FrameOfBuf] > 0 /\ UNCHANGED delivered
             \/ (rpc = "payload" \/ Size[FrameOfBuf] = 0) /\ Returns(FrameOfBuf)
      PROVE  /\ OrderInv' /\ UNCHANGED <<habit, sent>>
             /\ \/ UNCHANGED delivered
                \/ /\ Len(delivered) < Len(sent)
                   /\ delivered' = Append(delivered, sent[Len(delivered) + 1])
  <2>1. rpc # "stopped" /\ habit' = habit
    BY <1>3 DEF PartDone
  <2> QED BY <1>3, <2>1, OrderOfPart
<1> QED BY <1>1, <1>2, <1>3, CarefulReader

KeptInv == SafeInv /\ OrderInv

\* What a step does to the frames sent and delivered.
LEMMA PromiseStep ==
  ASSUME KeptInv, [Next]_vars
  PROVE  /\ OrderInv' /\ habit' = habit
         /\ Careful =>
              \/ UNCHANGED <<sent, delivered>>
              \/ (\E f \in Frames : sent' = Append(sent, f)) /\ UNCHANGED delivered
              \/ /\ Len(delivered) < Len(sent) /\ UNCHANGED sent
                 /\ delivered' = Append(delivered, sent[Len(delivered) + 1])
<1>1. WireInv /\ TurnsInv /\ SyncInv /\ OrderInv /\ WireInv' /\ SyncInv'
  BY SafeStep DEF KeptInv, SafeInv
<1>2. habit' = habit /\ (rpc = "stopped" => rpc' = "stopped")
  BY HabitStays
<1>3. ASSUME NEW w \in Writers, WriterStep(w) \/ WriteFails(w)
      PROVE  /\ UNCHANGED delivered
             /\ UNCHANGED sent \/ \E f \in Frames : sent' = Append(sent, f)
  <2>1. CASE FrameOut(w)
    BY <1>1, <2>1, AcceptTyped DEF FrameOut
  <2> QED BY <1>3, <2>1 DEF WriterStep, WriteValue, WriteRefused, PutByte, HeaderOut, WriteFails,
                            Accept, rvars
<1>4. ASSUME NEW w \in Writers, WriterStep(w) \/ WriteFails(w) PROVE OrderInv'
  <2>1. CASE ~Careful \/ rpc = "stopped"
    BY <1>2, <2>1 DEF OrderInv, Careful
  <2> QED BY <1>1, <1>4, <2>1, OrderOfWriter
<1>5. CASE Close \/ Finished \/ UNCHANGED vars
  BY <1>1, <1>5, OrderUntouched DEF Close, Finished, vars, wvars, rvars
<1>6. CASE Reader \/ ReadTimesOut
  <2>1. CASE ~Careful
    BY <1>2, <2>1 DEF OrderInv, Careful
  <2> QED BY <1>1, <1>2, <1>6, <2>1, OrderOfReader
<1> QED BY <1>2, <1>3, <1>4, <1>5, <1>6 DEF Next

\* ChannelSpec: to careful users a connection keeps the promise of FrameChannel,
\* whatever fails, times out or is closed: what ReadValue returns are the
\* values written, whole, in the order of their last bytes, each at most once.
THEOREM ImplementsChannel == Spec => ChannelSpec
<1>1. Init => KeptInv /\ Channel!Init
  BY SafeInit, OrderInit DEF KeptInv, Init, Channel!Init, Promised
<1>2. KeptInv /\ [Next]_vars => KeptInv' /\ [Channel!Next]_<<Promised(sent), Promised(delivered)>>
  <2> SUFFICES ASSUME KeptInv, [Next]_vars
               PROVE  KeptInv' /\ [Channel!Next]_<<Promised(sent), Promised(delivered)>>
    OBVIOUS
  <2>1. KeptInv'
    BY SafeStep, PromiseStep DEF KeptInv
  <2>2. habit' = habit /\ (Careful' <=> Careful)
    BY PromiseStep DEF Careful
  <2>3. CASE ~Careful
    BY <2>1, <2>2, <2>3 DEF Promised
  <2>4. CASE Careful
    <3>1. /\ Promised(sent) = sent /\ Promised(delivered) = delivered
          /\ Promised(sent)' = sent' /\ Promised(delivered)' = delivered'
      BY <2>2, <2>4 DEF Promised
    <3> QED BY <2>1, <2>4, <3>1, PromiseStep DEF Channel!Next, Channel!Write, Channel!Read
  <2> QED BY <2>3, <2>4
<1> QED BY <1>1, <1>2, PTL DEF Spec, ChannelSpec, Channel!Spec

\* One step of a channel leaves what was read the beginning of what was written.
LEMMA ChannelKeepsOrder ==
  ASSUME NEW V, NEW s \in Seq(V), NEW r \in Seq(V), NEW s1, NEW r1,
         Len(r) <= Len(s) /\ \A i \in 1..Len(r) : r[i] = s[i],
         \/ s1 = s /\ r1 = r
         \/ (\E f \in V : s1 = Append(s, f)) /\ r1 = r
         \/ Len(r) < Len(s) /\ r1 = Append(r, s[Len(r) + 1]) /\ s1 = s
  PROVE  Len(r1) <= Len(s1) /\ \A i \in 1..Len(r1) : r1[i] = s1[i]
<1>1. CASE \E f \in V : s1 = Append(s, f) /\ r1 = r
  <2>1. PICK f \in V : s1 = Append(s, f) /\ r1 = r
    BY <1>1
  <2>2. Len(s1) = Len(s) + 1 /\ \A i \in 1..Len(s) : s1[i] = s[i]
    BY <2>1
  <2> QED BY <2>1, <2>2
<1>2. CASE Len(r) < Len(s) /\ r1 = Append(r, s[Len(r) + 1]) /\ s1 = s
  <2>1. s[Len(r) + 1] \in V
    BY <1>2
  <2>2. /\ Len(r1) = Len(r) + 1 /\ r1[Len(r) + 1] = s[Len(r) + 1]
        /\ \A i \in 1..Len(r) : r1[i] = r[i]
    BY <1>2, <2>1
  <2> QED BY <1>2, <2>2
<1> QED BY <1>1, <1>2

\* Channel!InOrder: to careful users, what ReadValue has returned are the first
\* of the values written, in their order; nothing is skipped, repeated or made
\* up.  A consequence of the promise alone.
THEOREM FramesInOrder == Spec => []Channel!InOrder
<1>1. Channel!Init => Channel!InOrder
  BY DEF Channel!Init, Channel!InOrder
<1>2. TypeOK /\ Channel!InOrder /\ [Channel!Next]_<<Promised(sent), Promised(delivered)>>
      => Channel!InOrder'
  <2> SUFFICES ASSUME TypeOK, Channel!InOrder,
                      [Channel!Next]_<<Promised(sent), Promised(delivered)>>
               PROVE  Channel!InOrder'
    OBVIOUS
  <2> DEFINE V == Frames \cup {garbage}
  <2>1. Promised(sent) \in Seq(V) /\ Promised(delivered) \in Seq(V)
    <3>1. sent \in Seq(V) /\ delivered \in Seq(V) /\ <<>> \in Seq(V)
      BY DEF TypeOK
    <3> QED BY <3>1 DEF Promised
  <2>2. \/ Promised(sent)' = Promised(sent) /\ Promised(delivered)' = Promised(delivered)
        \/ /\ \E f \in V : Promised(sent)' = Append(Promised(sent), f)
           /\ Promised(delivered)' = Promised(delivered)
        \/ /\ Len(Promised(delivered)) < Len(Promised(sent))
           /\ Promised(delivered)' = Append(Promised(delivered),
                                            Promised(sent)[Len(Promised(delivered)) + 1])
           /\ Promised(sent)' = Promised(sent)
    BY DEF Channel!Next, Channel!Write, Channel!Read
  <2> QED BY <2>1, <2>2, ChannelKeepsOrder DEF Channel!InOrder
<1> QED BY <1>1, <1>2, BytesTyped, ImplementsChannel, PTL DEF ChannelSpec, Channel!Spec
=============================================================================
