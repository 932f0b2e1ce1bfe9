--------------------------- MODULE LengthPrefixed ---------------------------
(***************************************************************************)
(* One direction of a tcp.CodecConn with a LengthPrefixedFramer: goroutines *)
(* that call WriteValue on one end, a goroutine that calls ReadValue on the *)
(* other, and the byte stream between them (codec/framer.go,               *)
(* tcp/codec_conn.go, tcp/conn.go).                                        *)
(*                                                                         *)
(* A byte on the wire is the pair of the frame it was written for and its  *)
(* place there: places below HdrLen are the length header, the others the  *)
(* payload.  Four header bytes read from the start of a frame decode to    *)
(* its length; any other bytes decode to any number at all.  net.Conn      *)
(* serialises whole Write calls, so header and payload are each contiguous *)
(* and two goroutines can only interleave between the two calls.           *)
(***************************************************************************)
EXTENDS Integers, Sequences, FiniteSets

CONSTANTS
  Frames,        \* the marshalled values, all different
  Size,          \* Size[f]: len of the payload
  Writers,       \* goroutines that call WriteValue
  Script,        \* Script[w]: the frames w writes, in this order
  HdrLen,        \* bytes of the length header (4 in the code)
  WriteMax,      \* MaxFrameBytes of the writing end
  Buffer,        \* bytes the connection holds between the two ends
  Habits         \* ways to use the connection, see Habit

\* How the two ends use a connection.
Habit == [
  takeTurns : BOOLEAN,    \* one WriteValue runs at a time
  writesFail : BOOLEAN,   \* a Write may fail (its deadline, a broken connection)
  stopWriting : BOOLEAN,  \* the writing end closes after a failed Write
  readsFail : BOOLEAN,    \* a Read may run into its deadline
  stopReading : BOOLEAN,  \* the reading end stops after a failed ReadValue
  readMax : Nat,          \* MaxFrameBytes of the reading end
  rejects : SUBSET Frames] \* frames that are no value of the reader's T

ASSUME FrameAssumption ==
  /\ Size \in [Frames -> Nat]
  /\ Script \in [Writers -> Seq(Frames)]
  /\ HdrLen \in Nat \ {0} /\ Buffer \in Nat \ {0}
  /\ WriteMax \in Nat
  /\ Habits \subseteq Habit

VARIABLES
  habit,     \* how this connection is used
  wpc,       \* the stage of WriteFrame each writer is in
  next,      \* the position of each writer in its script
  left,      \* bytes of the current Write call still to be accepted
  fdLock,    \* the writer whose Write call holds the connection
  closed,    \* TRUE iff the writing end has closed the connection
  wire,      \* bytes accepted and not yet read
  rpc,       \* the stage of ReadFrame the reader is in
  need,      \* len of the buffer io.ReadFull is filling
  buf,       \* what it has filled
  (* history *)
  sent,      \* frames whose WriteValue has put everything on the wire
  delivered  \* what ReadValue has returned, "garbage" for a misread payload

wvars == <<habit, wpc, next, left, fdLock, closed>>
rvars == <<rpc, need, buf>>
vars == <<wvars, wire, rvars, sent, delivered>>

nobody == "nobody"
garbage == "garbage"

Bytes == Frames \X Nat
Header(f) == [i \in 1..HdrLen |-> <<f, i - 1>>]
Payload(f) == [i \in 1..Size[f] |-> <<f, HdrLen + i - 1>>]

Init ==
  /\ habit \in Habits
  /\ wpc = [w \in Writers |-> "idle"]
  /\ next = [w \in Writers |-> 1]
  /\ left = [w \in Writers |-> <<>>]
  /\ fdLock = nobody
  /\ closed = FALSE
  /\ wire = <<>>
  /\ rpc = "header"
  /\ need = HdrLen
  /\ buf = <<>>
  /\ sent = <<>>
  /\ delivered = <<>>

-----------------------------------------------------------------------------
(* WriteValue: Marshal, the size check, a Write for the header and one for  *)
(* the payload.                                                            *)

Frame(w) == Script[w][next[w]]
HasFrame(w) == wpc[w] = "idle" /\ next[w] <= Len(Script[w])

WriteValue(w) ==
  /\ HasFrame(w)
  /\ ~closed
  /\ Size[Frame(w)] <= WriteMax
  /\ habit.takeTurns => \A v \in Writers : wpc[v] = "idle"
  /\ wpc' = [wpc EXCEPT ![w] = "header"]
  /\ left' = [left EXCEPT ![w] = Header(Frame(w))]
  /\ UNCHANGED <<habit, next, fdLock, closed, wire, rvars, sent, delivered>>

\* "frame too large", or a Write on a closed connection: nothing is written.
WriteRefused(w) ==
  /\ HasFrame(w)
  /\ Size[Frame(w)] > WriteMax \/ closed
  /\ next' = [next EXCEPT ![w] = @ + 1]
  /\ UNCHANGED <<habit, wpc, left, fdLock, closed, wire, rvars, sent, delivered>>

\* The Write call of w, which holds the connection from its first byte to its
\* last, gets one more byte into the buffer.
Accept(w) ==
  /\ wpc[w] # "idle"
  /\ ~closed
  /\ fdLock \in {nobody, w}
  /\ Len(wire) < Buffer
  /\ wire' = Append(wire, Head(left[w]))
  /\ fdLock' = IF Len(left[w]) = 1 THEN nobody ELSE w
  /\ UNCHANGED <<habit, closed, rvars, delivered>>

PutByte(w) ==
  /\ Accept(w)
  /\ Len(left[w]) > 1
  /\ left' = [left EXCEPT ![w] = Tail(@)]
  /\ UNCHANGED <<wpc, next, sent>>

\* The Write call for the header returns and the one for the payload follows.
HeaderOut(w) ==
  /\ Accept(w)
  /\ Len(left[w]) = 1
  /\ wpc[w] = "header" /\ Size[Frame(w)] > 0
  /\ wpc' = [wpc EXCEPT ![w] = "payload"]
  /\ left' = [left EXCEPT ![w] = Payload(Frame(w))]
  /\ UNCHANGED <<next, sent>>

\* The last byte of the frame: WriteValue returns nil.
FrameOut(w) ==
  /\ Accept(w)
  /\ Len(left[w]) = 1
  /\ wpc[w] = "payload" \/ Size[Frame(w)] = 0
  /\ wpc' = [wpc EXCEPT ![w] = "idle"]
  /\ left' = [left EXCEPT ![w] = <<>>]
  /\ next' = [next EXCEPT ![w] = @ + 1]
  /\ sent' = Append(sent, Frame(w))

\* A Write fails with part of its bytes on the wire.
WriteFails(w) ==
  /\ wpc[w] # "idle"
  /\ fdLock \in {nobody, w}
  /\ habit.writesFail \/ closed \/ rpc = "stopped"
  /\ wpc' = [wpc EXCEPT ![w] = "idle"]
  /\ left' = [left EXCEPT ![w] = <<>>]
  /\ next' = [next EXCEPT ![w] = @ + 1]
  /\ fdLock' = nobody
  /\ closed' = (closed \/ habit.stopWriting)
  /\ UNCHANGED <<habit, wire, rvars, sent, delivered>>

\* (*CodecConn).Close, when everything has been written or given up.
Close ==
  /\ ~closed
  /\ \A w \in Writers : wpc[w] = "idle" /\ next[w] > Len(Script[w])
  /\ closed' = TRUE
  /\ UNCHANGED <<habit, wpc, next, left, fdLock, wire, rvars, sent, delivered>>

-----------------------------------------------------------------------------
(* ReadValue: io.ReadFull for the header and for the payload.  The reading  *)
(* end calls it in a loop.                                                 *)

\* A Read inside io.ReadFull returns one more byte.
TakeByte ==
  /\ rpc # "stopped"
  /\ Len(buf) < need
  /\ wire # <<>>
  /\ buf' = Append(buf, Head(wire))
  /\ wire' = Tail(wire)
  /\ UNCHANGED <<wvars, rpc, need, sent, delivered>>

\* What the header decodes to; anything up to "too large" if misread.
Decoded == IF \E f \in Frames : buf = Header(f)
           THEN {Size[f] : f \in {g \in Frames : buf = Header(g)}}
           ELSE 0..(habit.readMax + 1)

Fill(stage, n) == rpc' = stage /\ need' = n /\ buf' = <<>>

\* Faulty variant: the length is taken to count the header too.
HeaderInInclusive ==
  /\ rpc = "header"
  /\ Len(buf) = need
  /\ \E n \in Decoded : n \in 1..habit.readMax /\ Fill("payload", n - HdrLen)
  /\ UNCHANGED <<wvars, wire, sent, delivered>>

\* Faulty variant: one Read in place of io.ReadFull, which need not give the
\* whole header.
HeaderInShort ==
  /\ rpc = "header"
  /\ buf # <<>>
  /\ \E n \in Decoded : n \in 1..habit.readMax /\ Fill("payload", n)
  /\ UNCHANGED <<wvars, wire, sent, delivered>>

\* The header announces a payload that is not too large.
HeaderIn ==
  /\ rpc = "header"
  /\ Len(buf) = need
  /\ \E n \in Decoded : n \in 1..habit.readMax /\ Fill("payload", n)
  /\ UNCHANGED <<wvars, wire, sent, delivered>>

\* ReadFrame and Unmarshal return x, and the next ReadValue begins.
Return(x) ==
  /\ Len(buf) = need
  /\ delivered' = Append(delivered, x)
  /\ Fill("header", HdrLen)
  /\ UNCHANGED <<wvars, wire, sent>>

\* The codec makes a value of the reader's T of the frame.
Decodes(f) == f \in Frames \ habit.rejects

EmptyFrameIn ==
  /\ rpc = "header"
  /\ 0 \in Decoded
  /\ \/ \E f \in Frames : Decodes(f) /\ buf = Header(f) /\ Return(f)
     \/ (\A f \in Frames : buf # Header(f)) /\ Return(garbage)

PayloadIn ==
  /\ rpc = "payload"
  /\ \/ \E f \in Frames : Decodes(f) /\ buf = Payload(f) /\ Return(f)
     \/ (\A f \in Frames : buf # Payload(f)) /\ Return(garbage)

\* ReadValue fails: what it has read of the frame is lost.
ReadFails ==
  /\ Fill(IF habit.stopReading THEN "stopped" ELSE "header", HdrLen)
  /\ UNCHANGED <<wvars, wire, sent, delivered>>

\* Faulty variants: ReadFrame goes on after the oversized header; a frame of
\* the largest size allowed is refused.
FrameTooLargeResumes ==
  /\ rpc = "header"
  /\ Len(buf) = need
  /\ \E n \in Decoded : n > habit.readMax
  /\ Fill("header", HdrLen)
  /\ UNCHANGED <<wvars, wire, sent, delivered>>
FrameTooLargeOffByOne ==
  /\ rpc = "header"
  /\ Len(buf) = need
  /\ \E n \in Decoded : n >= habit.readMax
  /\ ReadFails

\* The header is consumed and the payload stays on the wire.
FrameTooLarge ==
  /\ rpc = "header"
  /\ Len(buf) = need
  /\ \E n \in Decoded : n > habit.readMax
  /\ ReadFails

\* The whole frame is in, and the codec makes no value of it: a frame of
\* another type, an empty one, or bytes that were never a payload.
UnmarshalFails ==
  /\ Len(buf) = need
  /\ \/ rpc = "payload" /\ \A f \in Frames : Decodes(f) => buf # Payload(f)
     \/ rpc = "header" /\ 0 \in Decoded /\ \A f \in Frames : Decodes(f) => buf # Header(f)
  /\ ReadFails

ReadTimesOut ==
  /\ habit.readsFail
  /\ rpc # "stopped"
  /\ Len(buf) < need
  /\ ReadFails

\* Faulty variant: the end of the stream inside a frame is waited out.
ReadEOFBetweenFrames ==
  /\ closed /\ wire = <<>>
  /\ rpc = "header" /\ buf = <<>>
  /\ Fill("stopped", HdrLen)
  /\ UNCHANGED <<wvars, wire, sent, delivered>>

\* io.EOF between frames, io.ErrUnexpectedEOF inside one.
ReadEOF ==
  /\ closed /\ wire = <<>>
  /\ rpc # "stopped"
  /\ Len(buf) < need
  /\ Fill("stopped", HdrLen)
  /\ UNCHANGED <<wvars, wire, sent, delivered>>

-----------------------------------------------------------------------------

WriterStep(w) ==
  WriteValue(w) \/ WriteRefused(w) \/ PutByte(w) \/ HeaderOut(w) \/ FrameOut(w)

Reader ==
  \/ TakeByte \/ HeaderIn \/ EmptyFrameIn \/ PayloadIn
  \/ FrameTooLarge \/ UnmarshalFails \/ ReadEOF

\* Both ends are through.
Finished == closed /\ rpc = "stopped" /\ (\A w \in Writers : ~HasFrame(w)) /\ UNCHANGED vars

Next ==
  \/ \E w \in Writers : WriterStep(w) \/ WriteFails(w)
  \/ Close \/ Reader \/ ReadTimesOut \/ Finished

Spec == Init /\ [][Next]_vars

\* Both ends go on while they can; nothing forces a timeout.
FairSpec ==
  /\ Spec
  /\ \A w \in Writers : WF_vars(WriterStep(w))
  /\ WF_vars(Close) /\ WF_vars(Reader)

-----------------------------------------------------------------------------

TypeOK ==
  /\ habit \in Habit
  /\ wpc \in [Writers -> {"idle", "header", "payload"}]
  /\ next \in [Writers -> Nat \ {0}]
  /\ left \in [Writers -> Seq(Bytes)]
  /\ fdLock \in Writers \cup {nobody}
  /\ closed \in BOOLEAN
  /\ wire \in Seq(Bytes)
  /\ rpc \in {"header", "payload", "stopped"}
  /\ need \in Nat
  /\ buf \in Seq(Bytes)
  /\ sent \in Seq(Frames)
  /\ delivered \in Seq(Frames \cup {garbage})

\* The callers write one value at a time and give the connection up at the
\* first failure.
Careful == habit.takeTurns /\ habit.stopWriting /\ habit.stopReading

\* Nothing fails, and what one end may write the other may read and decode.
Undisturbed ==
  /\ habit.takeTurns /\ ~habit.writesFail /\ ~habit.readsFail
  /\ WriteMax <= habit.readMax /\ habit.rejects = {}

\* Every payload ReadValue returns is the payload of one WriteValue.
PayloadsIntact == \A i \in 1..Len(delivered) : delivered[i] # garbage

\* On a connection with careful users the bytes read for the current part, the
\* wire and what the writer at work has to write are whole frames on end: the
\* first is where ReadFrame expects it, and each is followed by the next place
\* of its frame or, if it is the last of its frame, by a new frame.  ReadFrame
\* then asks for just the bytes of the frame it is in.
Stream(w) == buf \o wire \o left[w]
Follows(b, d) ==
  IF b[2] + 1 < HdrLen + Size[b[1]] THEN d = <<b[1], b[2] + 1>> ELSE d[2] = 0
Expected == IF rpc = "payload" THEN HdrLen ELSE 0
InSync ==
  Careful /\ rpc # "stopped" =>
    \A w \in Writers : (\A v \in Writers \ {w} : wpc[v] = "idle") =>
      LET s == Stream(w)
      IN  /\ s # <<>> => /\ s[1][2] = Expected
                         /\ need = IF rpc = "payload" THEN Size[s[1][1]] ELSE HdrLen
          /\ \A i \in 1..(Len(s) - 1) : Follows(s[i], s[i + 1])

\* Whatever is misread, timed out or interleaved, nobody waits for ever while
\* the reading end goes on: the writers get their bytes out or an error, and
\* the reader meets the end.
EveryoneReturns == <>[](~habit.stopReading => closed /\ rpc = "stopped")

\* On an undisturbed connection every frame small enough for both ends arrives,
\* and the others are refused by the writing end.
AllDelivered ==
  <>[](Undisturbed =>
       /\ \A w \in Writers : ~HasFrame(w)
       /\ delivered = sent
       /\ \A w \in Writers : \A k \in 1..Len(Script[w]) :
            Size[Script[w][k]] <= WriteMax =>
              \E i \in 1..Len(delivered) : delivered[i] = Script[w][k])

-----------------------------------------------------------------------------

\* A connection with careful users keeps the promise of FrameChannel; nothing
\* is promised to others.
Promised(s) == IF Careful THEN s ELSE <<>>

Channel == INSTANCE FrameChannel
             WITH sent <- Promised(sent), received <- Promised(delivered)

ChannelSpec == Channel!Spec
=============================================================================
