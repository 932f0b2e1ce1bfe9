---------------------------- MODULE FrameChannel ----------------------------
(***************************************************************************)
(* What one direction of a codec connection promises: the frames that were *)
(* written come out whole, in the order they were written, each at most    *)
(* once.  ("WriteValue encodes v and writes it as one framed payload",     *)
(* "ReadValue reads one framed payload and decodes it".)                   *)
(***************************************************************************)
EXTENDS Naturals, Sequences

CONSTANT Frames      \* the frames that may be written

VARIABLES sent,      \* the frames written so far, in order
          received   \* the frames read so far, in order

Init == sent = <<>> /\ received = <<>>

Write(f) == sent' = Append(sent, f) /\ UNCHANGED received

Read ==
  /\ Len(received) < Len(sent)
  /\ received' = Append(received, sent[Len(received) + 1])
  /\ UNCHANGED sent

Next == (\E f \in Frames : Write(f)) \/ Read

Spec == Init /\ [][Next]_<<sent, received>>

\* What users see: the frames read are the first of those written.
InOrder ==
  /\ Len(received) <= Len(sent)
  /\ \A i \in 1..Len(received) : received[i] = sent[i]
=============================================================================
