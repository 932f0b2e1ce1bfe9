---------------------------- MODULE MCClientCall ----------------------------
(***************************************************************************)
(* A small instance of ClientCall: two Executes that use one request one   *)
(* after the other, next to a DialCodec whose codec two goroutines         *)
(* register under different spellings of its name, and a DialCodec that    *)
(* has a codec and no framer.                                              *)
(***************************************************************************)
EXTENDS ClientCall, TLC

CONSTANTS get, put, dial, bare,     \* the calls
          r,                        \* the request get and put share
          json, mine, rev, rev2, mute, \* the codecs
          g1, g2, g3, g4, g5        \* the goroutines that register them

Four == {get, put, dial, bare}
Ops == get :> "execute" @@ put :> "execute" @@ dial :> "dial" @@ bare :> "dial"
\* The two Executes are of one kind.
Alike == Permutations({get, put})
Shared == get :> {r} @@ put :> {r} @@ dial :> {} @@ bare :> {}
Asks == get :> {} @@ put :> {} @@ dial :> {" reverse"} @@ bare :> {"json"}

AllSpellings == {"json", "JSON", "Reverse", " reverse", " "}
Normalised == [s \in AllSpellings |->
  CASE s \in {"json", "JSON"} -> "json" [] s = " " -> "" [] OTHER -> "reverse"]
CodecNames ==
  json :> "json" @@ mine :> "JSON" @@ rev :> " reverse" @@ rev2 :> "Reverse" @@ mute :> " "
Offers == g1 :> {rev} @@ g2 :> {rev2} @@ g3 :> {mute} @@ g4 :> {} @@ g5 :> {mine}
=============================================================================
