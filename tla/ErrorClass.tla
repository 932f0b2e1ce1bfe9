----------------------------- MODULE ErrorClass -----------------------------
(***************************************************************************)
(* How errors are classified (error.go) and which are retried              *)
(* (defaultRetryable in policy_retry.go), while an error travels from the  *)
(* library it comes from through the wrappers of the clients and the joins *)
(* of InvokeWithPolicies.                                                  *)
(*                                                                         *)
(* An error is the sequence of the nodes of its tree in the order in which *)
(* errors.Is and errors.As visit them: wrapping puts a node in front,      *)
(* errors.Join puts two errors on end.  Nodes that match nothing anybody   *)
(* asks for (oops errors, os.SyscallError, the joins) are left out.        *)
(***************************************************************************)
EXTENDS Naturals, Sequences, FiniteSets

CONSTANTS
  LibraryErrors,   \* the errors the transports and codecs return
  JoinedErrors,    \* errors of After and of the back-off, joined to others
  MaxNodes         \* bound on the size of an error

VARIABLES
  err,      \* the error
  origin    \* history: what the library returned
vars == <<err, origin>>

Causes == {"canceled", "deadline", "osTimeout", "closed", "refused", "errno",
           "dns", "dnsTimeout", "cert", "alert", "eof", "saysClosed", "saysNetwork"}
Envelopes == {"op", "url"}   \* *net.OpError and *url.Error

Kinds == {"unknown", "canceled", "timeout", "temporary", "conn_refused", "dns", "tls",
          "closed", "network", "codec", "custom"}

\* A *clientx.Error has a kind and a number of nodes below it.
Lib(t) == [type |-> t, kind |-> "none", below |-> 0]
Client(k, n) == [type |-> "client", kind |-> k, below |-> n]
Nodes == {Lib(t) : t \in Causes \cup Envelopes}
           \cup [type : {"client"}, kind : Kinds, below : 0..MaxNodes]

ASSUME ErrorAssumption ==
  /\ MaxNodes \in Nat
  /\ \A e \in LibraryErrors \cup JoinedErrors :
       /\ e \in Seq(Nodes) /\ e # <<>> /\ e[Len(e)].type \notin Envelopes
       /\ \A i \in 1..Len(e) : e[i].type = "client" => i + e[i].below <= Len(e)

-----------------------------------------------------------------------------
(* errors.Is and errors.As                                                 *)

Has(e, types) == \E i \in 1..Len(e) : e[i].type \in types

FirstAt(e, types) ==
  CHOOSE i \in 1..Len(e) : e[i].type \in types /\ \A j \in 1..(i - 1) : e[j].type \notin types

\* The library types that implement net.Error.  An envelope reports a timeout
\* if the error it holds does.
NetTypes == Envelopes \cup
  {"deadline", "osTimeout", "closed", "refused", "errno", "dns", "dnsTimeout"}
Held(e, i) == e[CHOOSE j \in i..Len(e) : e[j].type \notin Envelopes
                                          /\ \A k \in i..(j - 1) : e[k].type \in Envelopes]
LibraryTimeout(e) ==
  Has(e, NetTypes) /\ Held(e, FirstAt(e, NetTypes)).type \in {"deadline", "osTimeout", "dnsTimeout"}

Below(e, i) == SubSeq(e, i + 1, i + e[i].below)

\* (*Error).Timeout
Timeout(e, i) == e[i].kind = "timeout" \/ LibraryTimeout(Below(e, i))

\* The first net.Error of e, which a *clientx.Error is too, is a timeout.
NetTimeout(e) ==
  LET types == NetTypes \cup {"client"}
      i == FirstAt(e, types)
  IN  Has(e, types) /\ IF e[i].type = "client" THEN Timeout(e, i)
                       ELSE LibraryTimeout(SubSeq(e, i, Len(e)))

-----------------------------------------------------------------------------

Typed(e) == Has(e, {"client"})
KindOf(e) == IF Typed(e) THEN e[FirstAt(e, {"client"})].kind ELSE "unknown"

\* classifyMessageError: the text of an error is that of all its nodes.
KindOfMessage(e) ==
  IF Has(e, {"cert", "alert"}) THEN "tls"
  ELSE IF Has(e, {"saysClosed"}) THEN "closed"
  ELSE IF Has(e, {"saysNetwork"}) THEN "network"
  ELSE "unknown"

\* classifyTypedNetworkError.  An envelope is found before what it holds; only
\* what the first *net.OpError holds is looked at for a refused connection.
KindOfNetError(e) ==
  IF Has(e, {"dns", "dnsTimeout"}) THEN "dns"
  ELSE IF LibraryTimeout(e) THEN "timeout"
  ELSE IF Has(e, {"op"}) /\ Held(e, FirstAt(e, {"op"})).type = "refused" THEN "conn_refused"
  ELSE IF Has(e, {"op"}) THEN "network"
  ELSE IF Has(e, {"refused"}) THEN "conn_refused"
  ELSE "network"

\* Faulty variants: net.ErrClosed, a net.Error too, is asked for too late; the
\* text is looked at only if nothing is there to be found by type.
ClassifyClosedLate(e) ==
  IF Has(e, {"canceled"}) THEN "canceled"
  ELSE IF Has(e, {"deadline"}) THEN "timeout"
  ELSE IF Has(e, NetTypes) THEN KindOfNetError(e)
  ELSE KindOfMessage(e)

\* classifyErrorKind
Classify(e) ==
  IF Has(e, {"canceled"}) THEN "canceled"
  ELSE IF Has(e, {"deadline"}) THEN "timeout"
  ELSE IF Has(e, {"closed"}) THEN "closed"
  ELSE IF Has(e, NetTypes) THEN KindOfNetError(e)
  ELSE KindOfMessage(e)

Transient == {"timeout", "temporary", "conn_refused", "dns", "network"}
Permanent == {"unknown", "canceled", "closed", "tls", "codec"}

\* Faulty variant: a deadline anywhere in the error wins.
RetryableDeadlineFirst(e) ==
  \/ Has(e, {"deadline"})
  \/ /\ ~Has(e, {"canceled"})
     /\ \/ KindOf(e) \in Transient
        \/ KindOf(e) \notin Transient \cup Permanent /\ NetTimeout(e)

\* defaultRetryable; the last line is for kinds the package does not define.
Retryable(e) ==
  /\ ~Has(e, {"canceled"})
  /\ \/ Has(e, {"deadline"})
     \/ KindOf(e) \in Transient
     \/ KindOf(e) \notin Transient \cup Permanent /\ NetTimeout(e)

-----------------------------------------------------------------------------

Init == err \in LibraryErrors /\ origin = err

\* Faulty variant: an error that has a kind gets another.
WrapAgain(kind) ==
  /\ Len(err) < MaxNodes
  /\ err' = <<Client(kind, Len(err))>> \o err
  /\ UNCHANGED origin

\* WrapErrorWithKind: the error is wrapped unless a *clientx.Error is in it.
Wrap(kind) ==
  /\ Len(err) < MaxNodes
  /\ ~Typed(err)
  /\ err' = <<Client(kind, Len(err))>> \o err
  /\ UNCHANGED origin

\* Faulty variant: the empty kind is not replaced.
WrapErrorUnclassified == Wrap("")
WrapError == Wrap(Classify(err))       \* wrapClientError of a transport
WrapCodecError == Wrap("codec")        \* wrapCodecError

\* errors.Join(aggErr, afterErr) and errors.Join(execErr, sleepErr)
Join(e) ==
  /\ Len(err) + Len(e) <= MaxNodes
  /\ err' = err \o e
  /\ UNCHANGED origin

Next == WrapError \/ WrapCodecError \/ \E e \in JoinedErrors : Join(e)

Spec == Init /\ [][Next]_vars

-----------------------------------------------------------------------------

TypeOK == err \in Seq(Nodes) /\ origin \in LibraryErrors

\* What an error means survives every wrapper and every error joined to it
\* later: the kind it was given stays the kind IsKind finds, and
\* "timeout-shaped errors remain compatible with net.Error timeout checks".
MeaningSticks ==
  [][/\ Typed(err) => KindOf(err') = KindOf(err)
     /\ NetTimeout(err) => NetTimeout(err')]_vars

\* Once a cancellation is part of an error nothing joined to it or wrapped
\* around it has it retried, not even a deadline or a transient kind.
CancelIsFinal == [][Has(err, {"canceled"}) => ~Retryable(err) /\ ~Retryable(err')]_vars

\* The kinds the comments of the ErrorKind constants give to the causes,
\* whatever envelopes the libraries put around them.
DocumentedKind(cause) ==
  CASE cause = "canceled" -> "canceled"
    [] cause \in {"deadline", "osTimeout"} -> "timeout"
    [] cause = "refused" -> "conn_refused"
    [] cause \in {"dns", "dnsTimeout"} -> "dns"
    [] cause \in {"closed", "saysClosed"} -> "closed"
    [] cause \in {"cert", "alert"} -> "tls"
    [] cause \in {"errno", "saysNetwork"} -> "network"
    [] OTHER -> "unknown"

\* The errors of transports and codecs: a cause in any number of envelopes.
Cause(e) == e[Len(e)].type
OneCause(e) == Cause(e) \in Causes /\ \A i \in 1..(Len(e) - 1) : e[i].type \in Envelopes
Wrapped == err = <<Client(Classify(origin), Len(origin))>> \o origin

\* Causes without a type of their own, told by their text alone.
KnownByText == {"cert", "alert", "saysClosed", "saysNetwork", "eof"}

\* A failure of the transport is given the kind documented for its cause,
\* whatever envelope it comes in.  A cause that is known by its text alone must
\* come bare: the type of an envelope is found before the text is looked at.
\* Nothing is claimed of such a cause in an envelope: a TLS failure is then of
\* kind "network", against what error.go documents for "tls".
CauseKept ==
  /\ Wrapped /\ OneCause(origin)
  /\ Cause(origin) \in KnownByText => ~Has(origin, Envelopes)
  => KindOf(err) = DocumentedKind(Cause(origin))
=============================================================================
