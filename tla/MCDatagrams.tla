---------------------------- MODULE MCDatagrams ----------------------------
(***************************************************************************)
(* A small instance of Datagrams: two goroutines that read one socket and  *)
(* one that writes, datagrams of two peers, a value in a short and in the  *)
(* longest of datagrams and one that is no value.                          *)
(***************************************************************************)
EXTENDS Datagrams, TLC

CONSTANTS r1, r2, w,          \* the goroutines
          p, q,               \* the peers
          small, large, junk  \* the payloads

Three == {r1, r2, w}
TwoReaders == r1 :> "read" @@ r2 :> "read" @@ w :> "write"
WritesFaster == [d \in Directions |-> IF d = "read" THEN 2 ELSE 1]
Lengths == small :> 8 @@ large :> MaxPayload @@ junk :> 8
FromBoth ==
  {[from |-> p, payload |-> small], [from |-> q, payload |-> large],
   [from |-> q, payload |-> junk]}
=============================================================================
