----------------------------- MODULE ClientCall -----------------------------
(***************************************************************************)
(* The operations of the three clients around InvokeWithPolicies: Execute  *)
(* of the HTTP client, Dial of the TCP client, Dial and ListenPacket of    *)
(* the UDP client, with their codec variants, and the hooks they report    *)
(* every attempt to (hook.go).  Of the policies only what a client sees is *)
(* kept: attempts begin, end and may be repeated (PolicyChain has the      *)
(* rest).  Each attempt has a context of its own, as under a timeout guard.*)
(* The caller of DialCodec or ListenPacketCodec takes its codec from the   *)
(* registry, where goroutines go on registering codecs (CodecRegistry).    *)
(***************************************************************************)
EXTENDS CodecRegistry, Sequences

CONSTANTS
  Calls,        \* the calls, each made once
  Operation,    \* Operation[c]: "execute", "dial" or "listen"
  Asked,        \* Asked[c]: the name of the codec c asks for, {} for no codec
  NoFramer,     \* the calls of DialCodec whose framer is nil
  Requests,     \* the requests callers make themselves
  Request,      \* Request[c]: {} (Execute makes one) or the one passed
  Hooks,        \* how many hooks the client has
  Panicking,    \* the hooks that panic on every event
  MaxAttempts   \* attempts of one call

ASSUME CallAssumption ==
  /\ Operation \in [Calls -> {"execute", "dial", "listen"}]
  /\ Asked \in [Calls -> SUBSET Spellings]
  /\ \A c \in Calls : AtMostOne(Asked[c]) /\ AtMostOne(Request[c])
  /\ \A c \in NoFramer : c \in Calls /\ Operation[c] = "dial" /\ Asked[c] # {}
  /\ Request \in [Calls -> SUBSET Requests]
  /\ \A c \in Calls : IF Operation[c] = "execute" THEN Asked[c] = {} ELSE Request[c] = {}
  /\ Hooks \in Nat /\ Panicking \subseteq 1..Hooks
  /\ MaxAttempts \in Nat \ {0}

VARIABLES
  pc,          \* where each call stands
  codec,       \* the codec its caller passes, {} for a nil one
  attempt,     \* its attempts so far
  setContext,  \* the contexts that SetContext has put into a request, {} or one
  over,        \* contexts that have ended
  informed,    \* how many hooks have been given the event of the attempt
  open,        \* the connections that are open, named for their attempts
  returned,    \* the connection a call has returned, {} if none
  (* history *)
  outcomes,    \* outcomes[c]: how the attempts of c ended, TRUE if well
  heard,       \* heard[h][c]: what hook h was told of them
  vetoed       \* attempts that ended well and were failed by an After

callVars == <<attempt, setContext, over, informed, open, returned, outcomes, heard, vetoed>>
registry == <<codecs, registered>>
vars == <<pc, codec, callVars, registry>>

PCs == {"idle", "ready", "policies", "transport", "emit", "after", "done", "panicked"}
Attempts == Calls \X (0..MaxAttempts)
Running(c) == pc[c] \notin {"idle", "ready", "done", "panicked"}
Now(c) == <<c, attempt[c]>>

Init ==
  /\ RegistryInit
  /\ pc = [c \in Calls |-> "idle"]
  /\ codec = [c \in Calls |-> {}]
  /\ attempt = [c \in Calls |-> 0]
  /\ setContext = [r \in Requests |-> {}]
  /\ over = {}
  /\ informed = [c \in Calls |-> 0]
  /\ open = {}
  /\ returned = [c \in Calls |-> {}]
  /\ outcomes = [c \in Calls |-> <<>>]
  /\ heard = [h \in 1..Hooks |-> [c \in Calls |-> <<>>]]
  /\ vetoed = {}

-----------------------------------------------------------------------------

\* The caller looks its codec up by name, with Get or with Must; Must panics
\* where Get returns nil.
LookUp(c) ==
  /\ pc[c] = "idle"
  /\ \E s \in Asked[c] :
       \/ /\ codec' = [codec EXCEPT ![c] = Get(s)]
          /\ pc' = [pc EXCEPT ![c] = "ready"]
       \/ /\ Get(s) = {}
          /\ pc' = [pc EXCEPT ![c] = "panicked"]
          /\ UNCHANGED codec
  /\ UNCHANGED <<callVars, registry>>

\* Everything the call asks for has been found, if it asks for anything.
Prepared(c) == pc[c] = (IF Asked[c] = {} THEN "idle" ELSE "ready")

\* Faulty variant: a nil codec is not looked for.
InvokeUnchecked(c) ==
  /\ Prepared(c)
  /\ c \notin NoFramer
  /\ \A b \in Calls : Running(b) => Request[b] \cap Request[c] = {}
  /\ pc' = [pc EXCEPT ![c] = "policies"]
  /\ UNCHANGED <<codec, callVars, registry>>

\* The caller has a request to itself while it is being executed.
Invoke(c) ==
  /\ Prepared(c)
  /\ Asked[c] # {} => codec[c] # {}
  /\ c \notin NoFramer
  /\ \A b \in Calls : Running(b) => Request[b] \cap Request[c] = {}
  /\ pc' = [pc EXCEPT ![c] = "policies"]
  /\ UNCHANGED <<codec, callVars, registry>>

\* Faulty variant: DialCodec looks at codec and framer when it has dialled.
RefuseLate(c) ==
  /\ pc[c] = "ready"
  /\ codec[c] = {} \/ c \in NoFramer
  /\ pc' = [pc EXCEPT ![c] = "done"]
  /\ open' = open \cup {Now(c)}
  /\ UNCHANGED <<codec, attempt, setContext, over, informed, returned, outcomes, heard, vetoed,
                 registry>>

\* DialCodec and ListenPacketCodec without a codec, DialCodec without a framer.
Refuse(c) ==
  /\ pc[c] = "ready"
  /\ codec[c] = {} \/ c \in NoFramer
  /\ pc' = [pc EXCEPT ![c] = "done"]
  /\ UNCHANGED <<codec, callVars, registry>>

\* A Before fails: nothing is done and no hook is told.
BeforeFails(c) ==
  /\ pc[c] = "policies"
  /\ pc' = [pc EXCEPT ![c] = "done"]
  /\ UNCHANGED <<codec, callVars, registry>>

\* Faulty variant: a request that has a context keeps it.
BeginAttemptKeepsContext(c) ==
  /\ pc[c] = "policies"
  /\ pc' = [pc EXCEPT ![c] = "transport"]
  /\ attempt' = [attempt EXCEPT ![c] = @ + 1]
  /\ setContext' = [r \in Requests |->
       IF r \in Request[c] /\ setContext[r] = {} THEN {<<c, attempt[c] + 1>>} ELSE setContext[r]]
  /\ UNCHANGED <<codec, over, informed, open, returned, outcomes, heard, vetoed, registry>>

\* The guarded function begins with the context of the attempt; Execute puts
\* it into the request, whichever attempt or call the request has been through.
BeginAttempt(c) ==
  /\ pc[c] = "policies"
  /\ pc' = [pc EXCEPT ![c] = "transport"]
  /\ attempt' = [attempt EXCEPT ![c] = @ + 1]
  /\ setContext' = [r \in Requests |->
       IF r \in Request[c] THEN {<<c, attempt[c] + 1>>} ELSE setContext[r]]
  /\ UNCHANGED <<codec, over, informed, open, returned, outcomes, heard, vetoed, registry>>

\* The context the transport watches.
Watched(c) ==
  IF Request[c] = {} THEN {Now(c)} ELSE UNION {setContext[r] : r \in Request[c]}

TransportEnds(c, well) ==
  /\ pc[c] = "transport"
  /\ pc' = [pc EXCEPT ![c] = "emit"]
  /\ outcomes' = [outcomes EXCEPT ![c] = Append(@, well)]
  /\ UNCHANGED <<codec, attempt, setContext, over, informed, returned, heard, vetoed, registry>>

\* Execute of the request: a response, of whatever status, or an error.
ExecuteEnds(c) ==
  /\ Operation[c] = "execute"
  /\ \E well \in BOOLEAN : TransportEnds(c, well)
  /\ UNCHANGED open

\* DialContext and ListenPacket: a connection or an error.
Connects(c) ==
  /\ Operation[c] # "execute"
  /\ TransportEnds(c, TRUE)
  /\ open' = open \cup {Now(c)}

ConnectFails(c) ==
  /\ Operation[c] # "execute"
  /\ TransportEnds(c, FALSE)
  /\ UNCHANGED open

\* Faulty variant: the panic of a hook ends the loop over the hooks.
EmitUnsafe(c) ==
  /\ pc[c] = "emit"
  /\ informed[c] < Hooks
  /\ LET h == informed[c] + 1
     IN  /\ heard' = [heard EXCEPT ![h][c] = Append(@, outcomes[c][attempt[c]])]
         /\ informed' = [informed EXCEPT ![c] = IF h \in Panicking THEN Hooks ELSE h]
  /\ UNCHANGED <<pc, codec, attempt, setContext, over, open, returned, outcomes, vetoed, registry>>

\* EmitDial and EmitIO: the hooks in turn; a panic is recovered in each.
Emit(c) ==
  /\ pc[c] = "emit"
  /\ informed[c] < Hooks
  /\ LET h == informed[c] + 1
     IN  /\ heard' = [heard EXCEPT ![h][c] = Append(@, outcomes[c][attempt[c]])]
         /\ informed' = [informed EXCEPT ![c] = h]
  /\ UNCHANGED <<pc, codec, attempt, setContext, over, open, returned, outcomes, vetoed, registry>>

\* The guarded function returns; After of the guard ends the context.
FnReturns(c) ==
  /\ pc[c] = "emit"
  /\ informed[c] = Hooks
  /\ pc' = [pc EXCEPT ![c] = "after"]
  /\ informed' = [informed EXCEPT ![c] = 0]
  /\ over' = over \cup {Now(c)}
  /\ UNCHANGED <<codec, attempt, setContext, open, returned, outcomes, heard, vetoed, registry>>

\* Nil error: the connection is the caller's, inside a CodecConn or bare.
Succeed(c) ==
  /\ pc[c] = "after"
  /\ outcomes[c][attempt[c]]
  /\ pc' = [pc EXCEPT ![c] = "done"]
  /\ returned' = [returned EXCEPT ![c] = open \cap {Now(c)}]
  /\ UNCHANGED <<codec, attempt, setContext, over, informed, open, outcomes, heard, vetoed, registry>>

\* The attempt failed, or an After failed it: the client returns a nil
\* connection or response whatever InvokeWithPolicies holds.
Failed(c) ==
  /\ pc[c] = "after"
  /\ vetoed' = IF outcomes[c][attempt[c]] THEN vetoed \cup {Now(c)} ELSE vetoed
  /\ UNCHANGED <<codec, attempt, setContext, over, informed, open, returned, outcomes, heard, registry>>

GiveUp(c) == Failed(c) /\ pc' = [pc EXCEPT ![c] = "done"]

\* Faulty variant: one attempt too many.
RetryOnceMore(c) ==
  /\ Failed(c)
  /\ attempt[c] <= MaxAttempts
  /\ pc' = [pc EXCEPT ![c] = "policies"]

\* The retry policy of the client asks for another attempt.
Retry(c) ==
  /\ Failed(c)
  /\ attempt[c] < MaxAttempts
  /\ pc' = [pc EXCEPT ![c] = "policies"]

\* The caller closes the connection it was given.
CloseConn(c) ==
  /\ returned[c] \cap open # {}
  /\ open' = open \ returned[c]
  /\ UNCHANGED <<pc, codec, attempt, setContext, over, informed, returned, outcomes, heard, vetoed, registry>>

RegisterCodec(g) == Register(g) /\ UNCHANGED <<pc, codec, callVars>>

AllDone == (\A c \in Calls : pc[c] \in {"done", "panicked"}) /\ UNCHANGED vars

Step(c) ==
  \/ LookUp(c) \/ Invoke(c) \/ Refuse(c) \/ BeforeFails(c) \/ BeginAttempt(c)
  \/ ExecuteEnds(c) \/ Connects(c) \/ ConnectFails(c) \/ Emit(c) \/ FnReturns(c)
  \/ Succeed(c) \/ GiveUp(c) \/ Retry(c) \/ CloseConn(c)

Next == (\E c \in Calls : Step(c)) \/ (\E g \in Registrars : RegisterCodec(g)) \/ AllDone

Spec == Init /\ [][Next]_vars

-----------------------------------------------------------------------------

TypeOK ==
  /\ RegistryTypeOK
  /\ pc \in [Calls -> PCs]
  /\ codec \in [Calls -> SUBSET Codecs]
  /\ attempt \in [Calls -> 0..MaxAttempts]
  /\ setContext \in [Requests -> SUBSET Attempts]
  /\ over \in SUBSET Attempts
  /\ informed \in [Calls -> 0..Hooks]
  /\ open \in SUBSET Attempts
  /\ returned \in [Calls -> SUBSET Attempts]
  /\ outcomes \in [Calls -> Seq(BOOLEAN)]
  /\ heard \in [1..Hooks -> [Calls -> Seq(BOOLEAN)]]
  /\ vetoed \in SUBSET Attempts

\* The transport of an attempt watches the context of that attempt, which is
\* still going on: a retry or a reused request is not dead on arrival, and a
\* cancelled attempt is not one that nobody can cancel.
WatchesOwnContext ==
  \A c \in Calls : pc[c] = "transport" => Watched(c) = {Now(c)} /\ Now(c) \notin over

\* When the guarded function returns, every hook has been told of every
\* attempt that reached the transport, once, in order and with its outcome,
\* although other hooks panic; and no hook of anything else.
HooksAgree ==
  \A c \in Calls : pc[c] # "emit" => \A h \in 1..Hooks : heard[h][c] = outcomes[c]

\* A connection is in the hands of the attempt that made it or of the caller
\* it was returned to, unless an After failed that attempt: nothing else
\* leaves one open that nobody can close.
NoStrayConnection ==
  \A k \in open :
    \/ k \in vetoed
    \/ k \in returned[k[1]]
    \/ k = Now(k[1]) /\ pc[k[1]] \in {"emit", "after"}

\* A codec connection has a framer and a codec, the one that is bound to the name its caller
\* asked for: whoever registers codecs between the look-up and the end of the
\* call, or later, both ends that use the name use the same codec.
CodecIsRegistered ==
  \A c \in Calls : \A s \in Asked[c] :
    returned[c] # {} => c \notin NoFramer /\ codec[c] # {} /\ codec[c] = Get(s)
=============================================================================
