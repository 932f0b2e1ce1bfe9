-------------------------- MODULE MCLengthPrefixed --------------------------
(***************************************************************************)
(* Small instances of LengthPrefixed for TLC: an empty, a short, a long    *)
(* and an oversized frame, and the scripts the configurations choose from. *)
(***************************************************************************)
EXTENDS LengthPrefixed, TLC

CONSTANTS empty, short, long, big,   \* the frames
          w1, w2                     \* the writers

FourFrames == {empty, short, long, big}
Sizes == empty :> 0 @@ short :> 1 @@ long :> 2 @@ big :> 3

TwoWriters == w1 :> <<empty, long, big>> @@ w2 :> <<short>>
OneWriter == w1 :> <<long, short, empty>>

\* Everything may fail; the reader accepts less than the writers send, and
\* the short frame is no value of the type it asks for.
CarefulUsers ==
  [takeTurns |-> TRUE, writesFail |-> TRUE, stopWriting |-> TRUE,
   readsFail |-> TRUE, stopReading |-> TRUE, readMax |-> 1, rejects |-> {short}]

\* ... and nobody minds; here the empty frame does not decode.
CarelessUsers ==
  [takeTurns |-> FALSE, writesFail |-> TRUE, stopWriting |-> FALSE,
   readsFail |-> TRUE, stopReading |-> FALSE, readMax |-> 1, rejects |-> {empty}]

LuckyUsers ==
  [takeTurns |-> TRUE, writesFail |-> FALSE, stopWriting |-> FALSE,
   readsFail |-> FALSE, stopReading |-> FALSE, readMax |-> 2, rejects |-> {}]

\* The reading end goes on after a timeout.
ReadsAgain ==
  [takeTurns |-> TRUE, writesFail |-> FALSE, stopWriting |-> TRUE,
   readsFail |-> TRUE, stopReading |-> FALSE, readMax |-> 2, rejects |-> {}]

AllHabits == {CarefulUsers, CarelessUsers, LuckyUsers}
PatientReader == {ReadsAgain}
=============================================================================
