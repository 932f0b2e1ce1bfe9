---------------------------- MODULE MCErrorClass ----------------------------
(***************************************************************************)
(* The errors of the libraries for TLC: every cause bare, in a *net.OpError *)
(* (a connection's Read or Write, a dial), in a *url.Error (an HTTP request *)
(* whose cause has no envelope of its own) and in both; failures of the TLS *)
(* handshake as crypto/tls and net/http give them (a certificate bare or in *)
(* a *url.Error, an alert in a *net.OpError); and a *Error that the        *)
(* caller's own function made with a kind of its own.                      *)
(***************************************************************************)
EXTENDS ErrorClass

InEnvelopes(t) ==
  {<<Lib(t)>>, <<Lib("op"), Lib(t)>>, <<Lib("url"), Lib(t)>>,
   <<Lib("url"), Lib("op"), Lib(t)>>}

AllLibraryErrors ==
  UNION {InEnvelopes(t) : t \in Causes \ {"cert", "alert"}}
    \cup {<<Lib("cert")>>, <<Lib("url"), Lib("cert")>>}
    \cup {<<Lib("op"), Lib("alert")>>, <<Lib("url"), Lib("op"), Lib("alert")>>}
    \cup {<<Client("custom", 1), Lib(t)>> : t \in {"osTimeout", "eof"}}

\* What After and sleepWithContext return.
SomeJoinedErrors ==
  {<<Lib("canceled")>>, <<Lib("deadline")>>, <<Lib("eof")>>,
   <<Client("network", 1), Lib("errno")>>}
=============================================================================
