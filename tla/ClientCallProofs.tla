-------------------------- MODULE ClientCallProofs --------------------------
(***************************************************************************)
(* What holds of ClientCall for any number of calls, requests, hooks,      *)
(* attempts and registrars, whichever hooks panic.                         *)
(***************************************************************************)
EXTENDS ClientCall, TLAPS

-----------------------------------------------------------------------------
(* The registry.  What is bound to a name bears that name and stays.        *)

BoundInv ==
  /\ RegistryTypeOK
  /\ \A n \in Names : \A k \in codecs[n] : NameOf(k) = n
  /\ \A b \in Builtins : codecs[NameOf(b)] # {}

WinnerInv ==
  \A g \in Registrars : \A k \in Registers[g] :
    /\ registered[g] = "ok" =>
         /\ codecs[NameOf(k)] = {k}
         /\ \A b \in Builtins : NameOf(b) # NameOf(k)
         /\ \A h \in Registrars \ {g} : \A j \in Registers[h] :
              registered[h] = "ok" => NameOf(j) # NameOf(k)
    /\ registered[g] = "exists" => codecs[NameOf(k)] # {}

RegistryInv == BoundInv /\ WinnerInv

LEMMA CodecName ==
  ASSUME NEW k \in Codecs
  PROVE  NameOf(k) \in Names
BY RegistryAssumption DEF NameOf, Names

LEMMA Found ==
  ASSUME RegistryTypeOK, NEW s \in Spellings
  PROVE  Normal[s] \in Names /\ Get(s) = codecs[Normal[s]] /\ Get(s) \in SUBSET Codecs
BY DEF RegistryTypeOK, Get, Names

LEMMA RegistryInvInit == RegistryInit => RegistryInv
<1> SUFFICES ASSUME RegistryInit PROVE RegistryInv
  OBVIOUS
<1>1. BoundInv
  BY RegistryAssumption, CodecName
     DEF RegistryInit, BoundInv, RegistryTypeOK, AtMostOne, Results
<1>2. WinnerInv
  BY DEF RegistryInit, WinnerInv
<1> QED BY <1>1, <1>2 DEF RegistryInv

\* What Register may do: answer, or bind a free name.
LEMMA RegisterCases ==
  ASSUME RegistryTypeOK, NEW g \in Registrars, Register(g)
  PROVE  \/ \E why \in {"nil", "empty"} : Refuses(g, why)
         \/ \E k \in Registers[g] :
              /\ codecs[NameOf(k)] # {} /\ UNCHANGED codecs
              /\ registered' = [registered EXCEPT ![g] = "exists"]
         \/ \E k \in Registers[g] :
              /\ codecs[NameOf(k)] = {}
              /\ codecs' = [codecs EXCEPT ![NameOf(k)] = {k}]
              /\ registered' = [registered EXCEPT ![g] = "ok"]
<1>1. CASE Registers[g] = {} /\ Refuses(g, "nil")
  BY <1>1
<1>2. ASSUME NEW k \in Registers[g], NameOf(k) = Blank, Refuses(g, "empty")
      PROVE  \E why \in {"nil", "empty"} : Refuses(g, why)
  BY <1>2
<1>3. ASSUME NEW k \in Registers[g], GetOrStore(k),
             registered' = [registered EXCEPT
               ![g] = IF codecs[NameOf(k)] = {} THEN "ok" ELSE "exists"]
      PROVE  \/ /\ codecs[NameOf(k)] # {} /\ UNCHANGED codecs
                /\ registered' = [registered EXCEPT ![g] = "exists"]
             \/ /\ codecs[NameOf(k)] = {}
                /\ codecs' = [codecs EXCEPT ![NameOf(k)] = {k}]
                /\ registered' = [registered EXCEPT ![g] = "ok"]
  <2>1. CASE codecs[NameOf(k)] = {}
    BY <1>3, <2>1 DEF GetOrStore
  <2>2. CASE codecs[NameOf(k)] # {}
    BY <1>3, <2>2 DEF GetOrStore, RegistryTypeOK
  <2> QED BY <2>1, <2>2
<1> QED BY <1>1, <1>2, <1>3 DEF Register

\* A binding is never replaced: what Get has found it finds for good.
LEMMA BindingsStay ==
  ASSUME RegistryTypeOK, NEW g \in Registrars, Register(g), NEW n \in Names, codecs[n] # {}
  PROVE  codecs'[n] = codecs[n]
BY RegisterCases DEF RegistryTypeOK, Refuses

LEMMA RegistryInvStep ==
  ASSUME RegistryInv, NEW g \in Registrars, Register(g)
  PROVE  RegistryInv'
<1> USE DEF RegistryInv, BoundInv, RegistryTypeOK
<1>0. Registers[g] \subseteq Codecs /\ AtMostOne(Registers[g])
  BY RegistryAssumption
<1>1. CASE \E why \in {"nil", "empty"} : Refuses(g, why)
  BY <1>1 DEF Refuses, Results, WinnerInv
<1>2. ASSUME NEW k \in Registers[g], codecs[NameOf(k)] # {}, UNCHANGED codecs,
             registered' = [registered EXCEPT ![g] = "exists"]
      PROVE  RegistryInv'
  <2>1. BoundInv'
    BY <1>2 DEF Results
  <2>2. WinnerInv'
    BY <1>0, <1>2 DEF WinnerInv, AtMostOne
  <2> QED BY <2>1, <2>2
<1>3. ASSUME NEW k \in Registers[g], codecs[NameOf(k)] = {},
             codecs' = [codecs EXCEPT ![NameOf(k)] = {k}],
             registered' = [registered EXCEPT ![g] = "ok"]
      PROVE  RegistryInv'
  <2>1. k \in Codecs /\ NameOf(k) \in Names
    BY <1>0, CodecName
  <2>2. \A n \in Names : codecs'[n] = IF n = NameOf(k) THEN {k} ELSE codecs[n]
    BY <1>3
  <2>3. codecs' \in [Names -> SUBSET Codecs]
    BY <1>3, <2>1
  <2>4. \A n \in Names : AtMostOne(codecs'[n])
    BY <2>2 DEF AtMostOne
  <2>5. BoundInv'
    <3>1. \A n \in Names : \A j \in codecs'[n] : NameOf(j) = n
      BY <2>2
    <3>2. \A b \in Builtins : codecs'[NameOf(b)] # {}
      BY <2>2, CodecName, RegistryAssumption
    <3>3. registered' \in [Registrars -> Results]
      BY <1>3 DEF Results
    <3> QED BY <2>3, <2>4, <3>1, <3>2, <3>3
  <2>6. WinnerInv'
    <3>1. ASSUME NEW h \in Registrars, NEW j \in Registers[h], h # g
          PROVE  /\ registered'[h] = registered[h]
                 /\ registered[h] = "ok" => NameOf(j) # NameOf(k) /\ codecs'[NameOf(j)] = {j}
                 /\ registered[h] = "exists" => codecs'[NameOf(j)] # {}
      <4>1. NameOf(j) \in Names
        BY <3>1, CodecName, RegistryAssumption
      <4> QED BY <1>3, <2>2, <3>1, <4>1 DEF WinnerInv
    <3>2. codecs'[NameOf(k)] = {k} /\ registered'[g] = "ok"
      BY <1>3, <2>1, <2>2
    <3>3. \A b \in Builtins : NameOf(b) # NameOf(k)
      BY <1>3
    <3> QED BY <1>0, <3>1, <3>2, <3>3 DEF WinnerInv, AtMostOne
  <2> QED BY <2>5, <2>6
<1> QED BY <1>1, <1>2, <1>3, RegisterCases

LEMMA RegistryInvHolds == Spec => []RegistryInv
<1>1. Init => RegistryInv
  BY RegistryInvInit DEF Init
<1>2. RegistryInv /\ [Next]_vars => RegistryInv'
  <2> SUFFICES ASSUME RegistryInv, [Next]_vars PROVE RegistryInv'
    OBVIOUS
  <2>1. CASE UNCHANGED registry
    BY <2>1 DEF registry, RegistryInv, BoundInv, WinnerInv, RegistryTypeOK
  <2>2. ASSUME NEW g \in Registrars, RegisterCodec(g) PROVE RegistryInv'
    BY <2>2, RegistryInvStep DEF RegisterCodec
  <2> QED BY <2>1, <2>2 DEF vars, registry, Next, AllDone, Step, LookUp, Invoke, Refuse, BeforeFails,
        BeginAttempt, ExecuteEnds, Connects, ConnectFails, TransportEnds, Emit, FnReturns,
        Succeed, GiveUp, Failed, Retry, CloseConn
<1> QED BY <1>1, <1>2, PTL DEF Spec

\* However many goroutines register codecs of one name at once, one wins at
\* most, none against a built-in, and everyone finds the winner's codec.
THEOREM FirstRegistrationWins == Spec => []FirstWins
<1>1. RegistryInv => FirstWins
  BY DEF RegistryInv, WinnerInv, FirstWins, Get, NameOf
<1> QED BY <1>1, RegistryInvHolds, PTL

-----------------------------------------------------------------------------
(* A call by itself: where it stands tells how many attempts it has made   *)
(* and how many of them have ended.                                        *)

PlaceInv(c) ==
  /\ pc[c] \in {"idle", "ready"} => attempt[c] = 0
  /\ pc[c] = "policies" => attempt[c] < MaxAttempts
  /\ pc[c] \in {"transport", "emit", "after"} => attempt[c] > 0
  /\ Len(outcomes[c]) = IF pc[c] = "transport" THEN attempt[c] - 1 ELSE attempt[c]
  /\ pc[c] # "emit" => informed[c] = 0
  /\ returned[c] # {} => pc[c] = "done"

CallInv == TypeOK /\ \A c \in Calls : PlaceInv(c)

\* The steps of a call, without what it does to the registry: nothing.
LEMMA StepsLeaveRegistry ==
  ASSUME NEW c \in Calls, Step(c)
  PROVE  UNCHANGED registry
BY DEF registry, Step, LookUp, Invoke, Refuse, BeforeFails, BeginAttempt, ExecuteEnds, Connects,
       ConnectFails, TransportEnds, Emit, FnReturns, Succeed, GiveUp, Failed, Retry, CloseConn

LEMMA TypesOfConstants ==
  ASSUME NEW c \in Calls
  PROVE  /\ MaxAttempts \in Nat /\ MaxAttempts > 0 /\ Hooks \in Nat
         /\ Asked[c] \subseteq Spellings /\ AtMostOne(Asked[c]) /\ Request[c] \subseteq Requests
         /\ Asked[c] = {} \/ Request[c] = {}
BY CallAssumption

LEMMA CallInvInit == Init => CallInv
<1> SUFFICES ASSUME Init PROVE CallInv
  OBVIOUS
<1>1. TypeOK
  BY RegistryInvInit, CallAssumption
     DEF Init, TypeOK, RegistryInv, BoundInv, PCs, Attempts
<1>2. \A c \in Calls : PlaceInv(c)
  BY CallAssumption DEF Init, PlaceInv
<1> QED BY <1>1, <1>2 DEF CallInv

\* A step of one call leaves what the others have of their own alone.
LEMMA OthersAlone ==
  ASSUME TypeOK, NEW c \in Calls, Step(c), NEW d \in Calls, d # c
  PROVE  /\ pc'[d] = pc[d] /\ codec'[d] = codec[d] /\ attempt'[d] = attempt[d]
         /\ informed'[d] = informed[d] /\ returned'[d] = returned[d]
         /\ outcomes'[d] = outcomes[d]
         /\ \A h \in 1..Hooks : heard'[h][d] = heard[h][d]
<1> USE DEF TypeOK, callVars
<1>1. CASE LookUp(c) \/ Invoke(c) \/ Refuse(c) \/ BeforeFails(c) \/ BeginAttempt(c)
  BY <1>1 DEF LookUp, Invoke, Refuse, BeforeFails, BeginAttempt
<1>2. CASE ExecuteEnds(c) \/ Connects(c) \/ ConnectFails(c) \/ FnReturns(c)
  BY <1>2 DEF ExecuteEnds, Connects, ConnectFails, TransportEnds, FnReturns
<1>3. CASE Emit(c)
  BY <1>3 DEF Emit
<1>4. CASE Succeed(c) \/ GiveUp(c) \/ Retry(c) \/ CloseConn(c)
  BY <1>4 DEF Succeed, GiveUp, Failed, Retry, CloseConn
<1> QED BY <1>1, <1>2, <1>3, <1>4 DEF Step

LEMMA CallInvOfStep ==
  ASSUME CallInv, NEW c \in Calls, Step(c)
  PROVE  TypeOK' /\ PlaceInv(c)'
<1> USE DEF TypeOK, callVars
<1>0. /\ PlaceInv(c) /\ MaxAttempts \in Nat /\ MaxAttempts > 0 /\ Hooks \in Nat
      /\ attempt[c] \in 0..MaxAttempts /\ Now(c) \in Attempts
  BY TypesOfConstants DEF CallInv, Now, Attempts
<1>R. RegistryTypeOK'
  BY StepsLeaveRegistry DEF registry, RegistryTypeOK, CallInv
<1>1. CASE LookUp(c)
  <2>1. codec' \in [Calls -> SUBSET Codecs]
    <3>1. UNCHANGED codec \/ \E s \in Asked[c] : codec' = [codec EXCEPT ![c] = Get(s)]
      BY <1>1 DEF LookUp
    <3>2. \A s \in Asked[c] : Get(s) \in SUBSET Codecs
      BY TypesOfConstants, Found DEF CallInv
    <3> QED BY <3>1, <3>2 DEF CallInv
  <2> QED BY <1>0, <1>1, <1>R, <2>1 DEF LookUp, PlaceInv, PCs, CallInv
<1>2. CASE Invoke(c) \/ Refuse(c) \/ BeforeFails(c)
  BY <1>0, <1>2, <1>R DEF Invoke, Prepared, Refuse, BeforeFails, PlaceInv, PCs, CallInv
<1>3. CASE BeginAttempt(c)
  <2>1. attempt[c] + 1 \in 0..MaxAttempts
    BY <1>0, <1>3 DEF BeginAttempt, PlaceInv
  <2>2. <<c, attempt[c] + 1>> \in Attempts
    BY <2>1 DEF Attempts
  <2>3. setContext' \in [Requests -> SUBSET Attempts]
    BY <1>3, <2>2 DEF BeginAttempt, CallInv
  <2>4. TypeOK'
    BY <1>0, <1>3, <1>R, <2>1, <2>3 DEF BeginAttempt, PCs, CallInv
  <2>5. PlaceInv(c)'
    BY <1>0, <1>3, <2>1 DEF BeginAttempt, PlaceInv, CallInv
  <2> QED BY <2>4, <2>5
<1>4. ASSUME NEW well \in BOOLEAN, TransportEnds(c, well), open' \subseteq open \cup {Now(c)}
      PROVE  TypeOK' /\ PlaceInv(c)'
  <2>1. /\ outcomes'[c] = Append(outcomes[c], well) /\ outcomes[c] \in Seq(BOOLEAN)
        /\ pc[c] = "transport" /\ pc'[c] = "emit" /\ attempt' = attempt /\ returned' = returned
        /\ informed' = informed
    BY <1>4 DEF TransportEnds, CallInv
  <2>2. Len(outcomes'[c]) = attempt[c]
    BY <1>0, <2>1 DEF PlaceInv
  <2>3. outcomes' \in [Calls -> Seq(BOOLEAN)]
    BY <1>4, <2>1 DEF TransportEnds, CallInv
  <2>4. TypeOK'
    BY <1>0, <1>4, <1>R, <2>3 DEF TransportEnds, PCs, CallInv
  <2> QED BY <1>0, <2>1, <2>2, <2>4 DEF PlaceInv
<1>5. CASE ExecuteEnds(c) \/ Connects(c) \/ ConnectFails(c)
  BY <1>4, <1>5 DEF ExecuteEnds, Connects, ConnectFails
<1>6. CASE Emit(c)
  <2>1. /\ pc[c] = "emit" /\ informed[c] + 1 \in 0..Hooks /\ informed[c] + 1 \in 1..Hooks
    BY <1>0, <1>6 DEF Emit, CallInv
  <2>2. outcomes[c] \in Seq(BOOLEAN) /\ attempt[c] \in 1..Len(outcomes[c])
    BY <1>0, <2>1 DEF PlaceInv, CallInv
  <2>3. outcomes[c][attempt[c]] \in BOOLEAN
    BY <2>2
  <2>4. heard' \in [1..Hooks -> [Calls -> Seq(BOOLEAN)]]
    <3> DEFINE h == informed[c] + 1
               x == outcomes[c][attempt[c]]
    <3>1. heard' = [heard EXCEPT ![h][c] = Append(@, x)]
      BY <1>6 DEF Emit
    <3>2. heard[h] \in [Calls -> Seq(BOOLEAN)] /\ h \in 1..Hooks /\ x \in BOOLEAN
      BY <2>1, <2>3 DEF CallInv
    <3>3. Append(heard[h][c], x) \in Seq(BOOLEAN)
      BY <3>2
    <3> HIDE DEF h, x
    <3>4. [heard[h] EXCEPT ![c] = Append(@, x)] \in [Calls -> Seq(BOOLEAN)]
      BY <3>2, <3>3
    <3> QED BY <3>1, <3>2, <3>4 DEF CallInv
  <2>5. TypeOK'
    BY <1>0, <1>6, <1>R, <2>1, <2>4 DEF Emit, CallInv
  <2> QED BY <1>0, <1>6, <2>1, <2>5 DEF Emit, PlaceInv
<1>7. CASE FnReturns(c)
  BY <1>0, <1>7, <1>R DEF FnReturns, PlaceInv, PCs, CallInv
<1>8. CASE Succeed(c)
  <2>1. returned' \in [Calls -> SUBSET Attempts]
    BY <1>0, <1>8 DEF Succeed, CallInv
  <2> QED BY <1>0, <1>8, <1>R, <2>1 DEF Succeed, PlaceInv, PCs, CallInv
<1>9. CASE GiveUp(c) \/ Retry(c)
  BY <1>0, <1>9, <1>R DEF GiveUp, Retry, Failed, PlaceInv, PCs, CallInv
<1>10. CASE CloseConn(c)
  BY <1>0, <1>10, <1>R DEF CloseConn, PlaceInv, CallInv
<1> QED BY <1>1, <1>2, <1>3, <1>5, <1>6, <1>7, <1>8, <1>9, <1>10 DEF Step

LEMMA CallInvStep == RegistryInv /\ CallInv /\ [Next]_vars => CallInv'
<1> SUFFICES ASSUME RegistryInv, CallInv, [Next]_vars PROVE CallInv'
  OBVIOUS
<1>1. CASE UNCHANGED vars
  BY <1>1 DEF vars, callVars, registry, CallInv, TypeOK, RegistryTypeOK, PlaceInv
<1>2. ASSUME NEW c \in Calls, Step(c) PROVE CallInv'
  BY <1>2, CallInvOfStep, OthersAlone DEF CallInv, PlaceInv
<1>3. ASSUME NEW g \in Registrars, RegisterCodec(g) PROVE CallInv'
  <2>1. RegistryTypeOK'
    BY <1>3, RegistryInvStep DEF RegisterCodec, RegistryInv, BoundInv
  <2> QED BY <1>3, <2>1 DEF RegisterCodec, callVars, CallInv, TypeOK, PlaceInv
<1> QED BY <1>1, <1>2, <1>3 DEF Next, AllDone

LEMMA CallInvHolds == Spec => []CallInv
<1> QED BY CallInvInit, CallInvStep, RegistryInvHolds, PTL DEF Spec

\* Every variable keeps its type; no call makes more attempts than its policy
\* allows.
THEOREM CallsTyped == Spec => []TypeOK
<1>1. CallInv => TypeOK
  BY DEF CallInv
<1> QED BY <1>1, CallInvHolds, PTL

-----------------------------------------------------------------------------
(* The codec.  What a call has looked up is what is bound to the name, and  *)
(* no call goes on without the codec it asked for.                          *)

CodecInv(c) ==
  \A s \in Asked[c] :
    /\ codec[c] # {} => codec[c] = Get(s)
    /\ Running(c) \/ returned[c] # {} => c \notin NoFramer /\ codec[c] # {}

LEMMA CodecOfStep ==
  ASSUME RegistryInv, CallInv, NEW c \in Calls, CodecInv(c), Step(c)
  PROVE  CodecInv(c)'
<1> USE DEF TypeOK, CallInv, callVars
<1>0. UNCHANGED codecs /\ \A s \in Asked[c] : Get(s)' = Get(s)
  BY StepsLeaveRegistry DEF registry, Get
<1>1. CASE LookUp(c)
  <2>1. AtMostOne(Asked[c])
    BY TypesOfConstants
  <2>2. pc[c] = "idle" /\ returned' = returned /\ pc'[c] \in {"ready", "panicked"}
    BY <1>1 DEF LookUp
  <2>3. UNCHANGED codec \/ \E s \in Asked[c] : codec'[c] = Get(s)
    BY <1>1 DEF LookUp
  <2>4. returned[c] = {}
    BY <2>2 DEF PlaceInv
  <2> QED BY <1>0, <2>1, <2>2, <2>3, <2>4 DEF CodecInv, AtMostOne, Running
<1>2. CASE Invoke(c)
  BY <1>0, <1>2 DEF Invoke, CodecInv, Running
<1>3. CASE Refuse(c) \/ BeforeFails(c) \/ BeginAttempt(c) \/ FnReturns(c) \/ Emit(c)
           \/ ExecuteEnds(c) \/ Connects(c) \/ ConnectFails(c) \/ GiveUp(c) \/ Retry(c)
  BY <1>0, <1>3 DEF Refuse, BeforeFails, BeginAttempt, FnReturns, Emit, ExecuteEnds, Connects,
        ConnectFails, TransportEnds, GiveUp, Retry, Failed, CodecInv, Running
<1>4. CASE Succeed(c) \/ CloseConn(c)
  BY <1>0, <1>4 DEF Succeed, CloseConn, CodecInv, Running
<1> QED BY <1>1, <1>2, <1>3, <1>4 DEF Step

LEMMA CodecOfRegister ==
  ASSUME RegistryInv, NEW g \in Registrars, RegisterCodec(g), NEW c \in Calls, CodecInv(c)
  PROVE  CodecInv(c)'
<1>1. ASSUME NEW s \in Asked[c], Get(s) # {} PROVE Get(s)' = Get(s)
  <2>1. s \in Spellings /\ Normal[s] \in Names /\ Get(s)' = codecs'[Normal[s]]
    BY <1>1, TypesOfConstants, Found DEF RegistryInv, BoundInv, Get
  <2> QED BY <1>1, <2>1, BindingsStay DEF RegisterCodec, RegistryInv, BoundInv, Get
<1> QED BY <1>1 DEF RegisterCodec, callVars, CodecInv, Running

\* Whoever registers codecs meanwhile, a codec connection has a framer and the
\* codec that is bound to the name its caller asked for, and never none.
THEOREM RegisteredCodecIsUsed == Spec => []CodecIsRegistered
<1> DEFINE Inv == \A c \in Calls : CodecInv(c)
<1>1. Init => Inv
  BY DEF Init, CodecInv, Running
<1>2. RegistryInv /\ CallInv /\ Inv /\ [Next]_vars => Inv'
  <2> SUFFICES ASSUME RegistryInv, CallInv, Inv, [Next]_vars, NEW d \in Calls
               PROVE  CodecInv(d)'
    OBVIOUS
  <2>1. CASE UNCHANGED vars
    BY <2>1 DEF vars, callVars, registry, CodecInv, Running, Get
  <2>2. ASSUME NEW c \in Calls, Step(c) PROVE CodecInv(d)'
    <3>1. CASE d = c
      BY <2>2, <3>1, CodecOfStep
    <3>2. CASE d # c
      <4>1. pc'[d] = pc[d] /\ codec'[d] = codec[d] /\ returned'[d] = returned[d]
        BY <2>2, <3>2, OthersAlone DEF CallInv
      <4>2. codecs' = codecs
        BY <2>2, StepsLeaveRegistry DEF registry
      <4> QED BY <4>1, <4>2 DEF CodecInv, Running, Get
    <3> QED BY <3>1, <3>2
  <2>3. ASSUME NEW g \in Registrars, RegisterCodec(g) PROVE CodecInv(d)'
    BY <2>3, CodecOfRegister
  <2> QED BY <2>1, <2>2, <2>3 DEF Next, AllDone
<1>3. Inv => CodecIsRegistered
  BY DEF CodecInv, CodecIsRegistered
<1> QED BY <1>1, <1>2, <1>3, RegistryInvHolds, CallInvHolds, PTL DEF Spec

-----------------------------------------------------------------------------
(* The context.  A request is of one running call at a time, so the context *)
(* its attempt has put there is still there while the transport runs.       *)

ContextInv(c) ==
  /\ pc[c] = "transport" => \A r \in Request[c] : setContext[r] = {Now(c)}
  /\ \A n \in Nat : <<c, n>> \in over =>
       n <= attempt[c] /\ (pc[c] \in {"transport", "emit"} => n # attempt[c])
  /\ \A b \in Calls : b # c /\ Running(b) /\ Running(c) => Request[b] \cap Request[c] = {}

\* A call that begins to run has its request to itself; the others run on.
LEMMA StaysRunning ==
  ASSUME TypeOK, NEW c \in Calls, Step(c), ~Invoke(c), Running(c)'
  PROVE  Running(c)
BY DEF TypeOK, Running, Step, LookUp, Refuse, BeforeFails, BeginAttempt, ExecuteEnds, Connects,
       ConnectFails, TransportEnds, Emit, FnReturns, Succeed, GiveUp, Failed, Retry, CloseConn

LEMMA WhoTouchesContexts ==
  ASSUME NEW c \in Calls, Step(c)
  PROVE  \/ BeginAttempt(c) \/ FnReturns(c) \/ UNCHANGED <<setContext, over, attempt>>
BY DEF Step, LookUp, Invoke, Refuse, BeforeFails, ExecuteEnds, Connects, callVars,
       ConnectFails, TransportEnds, Emit, Succeed, GiveUp, Failed, Retry, CloseConn

LEMMA ReachesTransport ==
  ASSUME TypeOK, NEW c \in Calls, Step(c), pc'[c] \in {"transport", "emit"}
  PROVE  BeginAttempt(c) \/ pc[c] \in {"transport", "emit"}
BY DEF TypeOK, Step, LookUp, Invoke, Refuse, BeforeFails, ExecuteEnds, Connects, callVars,
       ConnectFails, TransportEnds, Emit, FnReturns, Succeed, GiveUp, Failed, Retry, CloseConn

LEMMA StaysInTransport ==
  ASSUME TypeOK, NEW c \in Calls, Step(c), pc'[c] = "transport"
  PROVE  BeginAttempt(c) \/ pc[c] = "transport"
BY DEF TypeOK, Step, LookUp, Invoke, Refuse, BeforeFails, ExecuteEnds, Connects, callVars,
       ConnectFails, TransportEnds, Emit, FnReturns, Succeed, GiveUp, Failed, Retry, CloseConn

LEMMA ContextOfStep ==
  ASSUME CallInv, \A d \in Calls : ContextInv(d), NEW c \in Calls, Step(c)
  PROVE  \A d \in Calls : ContextInv(d)'
<1> USE DEF CallInv
<1>0. attempt[c] \in Nat /\ PlaceInv(c) /\ ContextInv(c) /\ Request[c] \subseteq Requests
  BY TypesOfConstants DEF TypeOK
<1>1. ASSUME NEW d \in Calls, NEW b \in Calls, b # d, Running(b)', Running(d)'
      PROVE  Request[b] \cap Request[d] = {}
  <2>1. CASE Invoke(c)
    <3>1. \A e \in Calls : e # c => (Running(e)' <=> Running(e))
      BY <2>1 DEF Invoke, TypeOK, Running
    <3> QED BY <1>1, <2>1, <3>1 DEF Invoke, ContextInv
  <2>2. CASE ~Invoke(c)
    <3>1. Running(b) /\ Running(d)
      BY <1>1, <2>2, StaysRunning, OthersAlone DEF Running
    <3> QED BY <1>1, <3>1 DEF ContextInv
  <2> QED BY <2>1, <2>2
<1>2. ASSUME NEW d \in Calls, pc'[d] = "transport", NEW r \in Request[d]
      PROVE  setContext'[r] = {Now(d)'}
  <2>0. r \in Requests
    BY TypesOfConstants
  <2>1. CASE d = c /\ BeginAttempt(c)
    <3>1. setContext'[r] = {<<c, attempt[c] + 1>>} /\ attempt'[c] = attempt[c] + 1
      BY <2>0, <2>1, <1>2 DEF BeginAttempt, TypeOK
    <3> QED BY <2>1, <3>1 DEF Now
  <2>2. CASE d = c /\ ~BeginAttempt(c)
    <3>1. pc[c] = "transport"
      BY <1>2, <2>2, StaysInTransport
    <3>2. UNCHANGED <<setContext, attempt>>
      BY <2>2, <3>1, WhoTouchesContexts DEF FnReturns
    <3> QED BY <1>2, <2>2, <3>1, <3>2 DEF ContextInv, Now
  <2>3. CASE d # c
    <3>1. pc[d] = "transport" /\ attempt'[d] = attempt[d]
      BY <1>2, <2>3, OthersAlone
    <3>2. setContext[r] = {Now(d)}
      BY <3>1 DEF ContextInv
    <3>3. BeginAttempt(c) => r \notin Request[c]
      BY <2>3, <3>1 DEF BeginAttempt, ContextInv, Running
    <3>4. setContext'[r] = setContext[r]
      BY <2>0, <3>3, WhoTouchesContexts DEF BeginAttempt, FnReturns
    <3> QED BY <3>1, <3>2, <3>4 DEF Now
  <2> QED BY <2>1, <2>2, <2>3
<1>3. ASSUME NEW d \in Calls, NEW n \in Nat, <<d, n>> \in over'
      PROVE  n <= attempt'[d] /\ (pc'[d] \in {"transport", "emit"} => n # attempt'[d])
  <2>1. CASE d # c
    <3>1. <<d, n>> \in over
      BY <1>3, <2>1, WhoTouchesContexts DEF BeginAttempt, FnReturns, Now
    <3> QED BY <2>1, <3>1, OthersAlone DEF ContextInv
  <2>2. CASE d = c /\ BeginAttempt(c)
    <3>1. over' = over /\ attempt'[c] = attempt[c] + 1
      BY <2>2 DEF BeginAttempt, TypeOK
    <3> QED BY <1>0, <1>3, <2>2, <3>1 DEF ContextInv
  <2>3. CASE d = c /\ FnReturns(c)
    <3>1. over' = over \cup {<<c, attempt[c]>>} /\ attempt' = attempt /\ pc'[c] = "after"
      BY <2>3 DEF FnReturns, TypeOK, Now
    <3> QED BY <1>0, <1>3, <2>3, <3>1 DEF ContextInv
  <2>4. CASE d = c /\ ~BeginAttempt(c) /\ ~FnReturns(c)
    <3>1. UNCHANGED <<over, attempt>>
      BY <2>4, WhoTouchesContexts
    <3>2. pc'[c] \in {"transport", "emit"} => pc[c] \in {"transport", "emit"}
      BY <2>4, ReachesTransport
    <3> QED BY <1>0, <1>3, <2>4, <3>1, <3>2 DEF ContextInv
  <2> QED BY <2>1, <2>2, <2>3, <2>4
<1> QED BY <1>1, <1>2, <1>3 DEF ContextInv

\* Through retries and requests that are used again, the transport of an
\* attempt watches the context of that attempt, and that one is not over.
THEOREM AttemptsWatchTheirContext == Spec => []WatchesOwnContext
<1> DEFINE Inv == \A c \in Calls : ContextInv(c)
<1>1. Init => Inv
  BY DEF Init, ContextInv, Running
<1>2. CallInv /\ Inv /\ [Next]_vars => Inv'
  <2> SUFFICES ASSUME CallInv, Inv, [Next]_vars PROVE Inv'
    OBVIOUS
  <2>1. CASE UNCHANGED <<pc, callVars>>
    BY <2>1 DEF callVars, ContextInv, Running, Now
  <2>2. ASSUME NEW c \in Calls, Step(c) PROVE Inv'
    BY <2>2, ContextOfStep
  <2> QED BY <2>1, <2>2 DEF vars, Next, AllDone, RegisterCodec
<1>3. CallInv /\ Inv => WatchesOwnContext
  <2> SUFFICES ASSUME CallInv, Inv, NEW c \in Calls, pc[c] = "transport"
               PROVE  Watched(c) = {Now(c)} /\ Now(c) \notin over
    BY DEF WatchesOwnContext
  <2>1. attempt[c] \in Nat /\ ContextInv(c)
    BY DEF CallInv, TypeOK
  <2>2. Now(c) \notin over
    BY <2>1 DEF ContextInv, Now
  <2>3. Watched(c) = {Now(c)}
    <3>1. CASE Request[c] = {}
      BY <3>1 DEF Watched
    <3>2. CASE Request[c] # {}
      <4>1. {setContext[r] : r \in Request[c]} = {{Now(c)}}
        BY <2>1, <3>2 DEF ContextInv
      <4> QED BY <3>2, <4>1 DEF Watched
    <3> QED BY <3>1, <3>2
  <2> QED BY <2>2, <2>3
<1> QED BY <1>1, <1>2, <1>3, CallInvHolds, PTL DEF Spec

-----------------------------------------------------------------------------
(* Connections.  One that is open is that of a vetoed attempt, the caller's *)
(* or that of the attempt the call is in, which then has ended well.        *)

OpenInv(c) ==
  \A n \in Nat : <<c, n>> \in open =>
    /\ n <= attempt[c]
    /\ \/ <<c, n>> \in vetoed
       \/ <<c, n>> \in returned[c]
       \/ n = attempt[c] /\ pc[c] \in {"emit", "after"} /\ outcomes[c][n]

LEMMA OpenOfStep ==
  ASSUME CallInv, NEW c \in Calls, OpenInv(c), Step(c)
  PROVE  OpenInv(c)'
<1> USE DEF CallInv, TypeOK, callVars
<1>0. attempt[c] \in Nat /\ PlaceInv(c) /\ outcomes[c] \in Seq(BOOLEAN)
  OBVIOUS
<1>1. CASE LookUp(c) \/ Invoke(c) \/ Refuse(c) \/ BeforeFails(c)
  BY <1>0, <1>1 DEF LookUp, Invoke, Prepared, Refuse, BeforeFails, OpenInv
<1>2. CASE BeginAttempt(c)
  BY <1>0, <1>2 DEF BeginAttempt, OpenInv
<1>3. ASSUME NEW well \in BOOLEAN, TransportEnds(c, well),
             open' = IF well THEN open \cup {Now(c)} ELSE open
      PROVE  OpenInv(c)'
  <2>1. /\ pc[c] = "transport" /\ pc'[c] = "emit" /\ outcomes'[c] = Append(outcomes[c], well)
        /\ attempt' = attempt /\ vetoed' = vetoed /\ returned' = returned
    BY <1>3 DEF TransportEnds
  <2>2. outcomes'[c][attempt[c]] = well
    BY <1>0, <2>1 DEF PlaceInv
  <2>3. ASSUME NEW n \in Nat, <<c, n>> \in open'
        PROVE  /\ n <= attempt'[c]
               /\ \/ <<c, n>> \in vetoed'
                  \/ <<c, n>> \in returned'[c]
                  \/ n = attempt'[c] /\ pc'[c] \in {"emit", "after"} /\ outcomes'[c][n]
    <3>1. CASE <<c, n>> \in open
      BY <2>1, <2>3, <3>1 DEF OpenInv
    <3>2. CASE <<c, n>> \notin open
      <4>1. n = attempt[c] /\ well
        BY <1>3, <2>3, <3>2 DEF Now
      <4>2. outcomes'[c][n]
        BY <2>2, <4>1, Zenon
      <4>3. n <= attempt'[c] /\ n = attempt'[c] /\ pc'[c] \in {"emit", "after"}
        BY <1>0, <2>1, <4>1
      <4> QED BY <4>2, <4>3, Zenon
    <3> QED BY <3>1, <3>2
  <2> QED BY <2>3 DEF OpenInv
<1>4. CASE ExecuteEnds(c)
  BY <1>0, <1>4 DEF ExecuteEnds, TransportEnds, OpenInv
<1>5. CASE Connects(c) \/ ConnectFails(c)
  BY <1>3, <1>5 DEF Connects, ConnectFails
<1>6. CASE Emit(c) \/ FnReturns(c)
  BY <1>0, <1>6 DEF Emit, FnReturns, OpenInv
<1>7. CASE Succeed(c)
  <2>1. returned[c] = {} /\ returned'[c] = open \cap {<<c, attempt[c]>>}
    BY <1>0, <1>7 DEF Succeed, PlaceInv, Now
  <2> QED BY <1>0, <1>7, <2>1 DEF Succeed, OpenInv
<1>8. CASE GiveUp(c) \/ Retry(c)
  <2>1. /\ pc[c] = "after" /\ UNCHANGED <<open, attempt, returned, outcomes>>
        /\ vetoed' = IF outcomes[c][attempt[c]] THEN vetoed \cup {<<c, attempt[c]>>} ELSE vetoed
    BY <1>8 DEF GiveUp, Retry, Failed, Now
  <2> QED BY <1>0, <2>1 DEF OpenInv
<1>9. CASE CloseConn(c)
  BY <1>0, <1>9 DEF CloseConn, OpenInv
<1> QED BY <1>1, <1>2, <1>4, <1>5, <1>6, <1>7, <1>8, <1>9 DEF Step

\* What another call does to a call's connections.
LEMMA OpenOfOthers ==
  ASSUME CallInv, \A e \in Calls : OpenInv(e), NEW c \in Calls, Step(c),
         NEW d \in Calls, d # c
  PROVE  OpenInv(d)'
<1>1. /\ pc'[d] = pc[d] /\ attempt'[d] = attempt[d] /\ returned'[d] = returned[d]
      /\ outcomes'[d] = outcomes[d]
  BY OthersAlone DEF CallInv
<1>2. \A n \in Nat : <<d, n>> \in open' => <<d, n>> \in open
  <2>1. open' \subseteq open \cup {Now(c)}
    BY DEF Step, LookUp, Invoke, Refuse, BeforeFails, BeginAttempt, ExecuteEnds, Connects,
           callVars, ConnectFails, TransportEnds, Emit, FnReturns, Succeed, GiveUp, Failed, Retry,
           CloseConn
  <2>2. \A n \in Nat : <<d, n>> # Now(c)
    BY DEF Now
  <2> QED BY <2>1, <2>2
<1>3. vetoed \subseteq vetoed'
  BY DEF Step, LookUp, Invoke, Refuse, BeforeFails, BeginAttempt, ExecuteEnds, Connects, callVars,
         ConnectFails, TransportEnds, Emit, FnReturns, Succeed, GiveUp, Failed, Retry, CloseConn
<1> QED BY <1>1, <1>2, <1>3 DEF OpenInv

\* A client leaves no connection open that nobody can close, but for those of
\* attempts that the After of a policy has failed.
THEOREM ConnectionsAreOwned == Spec => []NoStrayConnection
<1> DEFINE Inv == \A c \in Calls : OpenInv(c)
<1>1. Init => Inv
  BY DEF Init, OpenInv
<1>2. CallInv /\ Inv /\ [Next]_vars => Inv'
  <2> SUFFICES ASSUME CallInv, Inv, [Next]_vars, NEW d \in Calls PROVE OpenInv(d)'
    OBVIOUS
  <2>1. CASE UNCHANGED <<pc, callVars>>
    BY <2>1 DEF callVars, OpenInv
  <2>2. ASSUME NEW c \in Calls, Step(c) PROVE OpenInv(d)'
    BY <2>2, OpenOfStep, OpenOfOthers
  <2> QED BY <2>1, <2>2 DEF vars, Next, AllDone, RegisterCodec
<1>3. CallInv /\ Inv => NoStrayConnection
  <2> SUFFICES ASSUME CallInv, Inv, NEW k \in open
               PROVE  \/ k \in vetoed
                      \/ k \in returned[k[1]]
                      \/ k = Now(k[1]) /\ pc[k[1]] \in {"emit", "after"}
    BY DEF NoStrayConnection
  <2>1. PICK c \in Calls, n \in 0..MaxAttempts : k = <<c, n>>
    BY DEF CallInv, TypeOK, Attempts
  <2> QED BY <2>1, TypesOfConstants DEF OpenInv, Now
<1> QED BY <1>1, <1>2, <1>3, CallInvHolds, PTL DEF Spec

-----------------------------------------------------------------------------
(* Hooks.  While an attempt is reported the hooks so far have heard of it   *)
(* and the others of all but it.                                            *)

HookInv(c) ==
  \A h \in 1..Hooks :
    IF pc[c] = "emit" /\ informed[c] < h
    THEN outcomes[c] = Append(heard[h][c], outcomes[c][attempt[c]])
    ELSE heard[h][c] = outcomes[c]

LEMMA HookOfStep ==
  ASSUME CallInv, NEW c \in Calls, HookInv(c), Step(c)
  PROVE  HookInv(c)'
<1> USE DEF CallInv, TypeOK, callVars
<1>0. /\ attempt[c] \in Nat /\ informed[c] \in 0..Hooks /\ Hooks \in Nat
      /\ PlaceInv(c) /\ outcomes[c] \in Seq(BOOLEAN)
  BY TypesOfConstants
<1>1. CASE LookUp(c) \/ Invoke(c) \/ Refuse(c) \/ BeforeFails(c) \/ BeginAttempt(c)
  <2>1. pc[c] # "emit" /\ pc'[c] # "emit" /\ UNCHANGED <<heard, outcomes>>
    BY <1>1 DEF LookUp, Invoke, Prepared, Refuse, BeforeFails, BeginAttempt
  <2> QED BY <2>1 DEF HookInv
<1>2. CASE ExecuteEnds(c) \/ Connects(c) \/ ConnectFails(c)
  <2>1. PICK well \in BOOLEAN : TransportEnds(c, well)
    BY <1>2 DEF ExecuteEnds, Connects, ConnectFails
  <2>2. /\ pc[c] = "transport" /\ pc'[c] = "emit" /\ outcomes'[c] = Append(outcomes[c], well)
        /\ UNCHANGED <<heard, informed, attempt>>
    BY <2>1 DEF TransportEnds
  <2>3. outcomes'[c][attempt[c]] = well /\ informed[c] = 0
    BY <1>0, <2>2 DEF PlaceInv
  <2> QED BY <1>0, <2>2, <2>3 DEF HookInv
<1>3. CASE Emit(c)
  <2>1. /\ pc[c] = "emit" /\ pc'[c] = "emit" /\ informed[c] < Hooks
        /\ informed'[c] = informed[c] + 1 /\ UNCHANGED <<attempt, outcomes>>
        /\ \A h \in 1..Hooks : heard'[h][c] =
             IF h = informed[c] + 1 THEN Append(heard[h][c], outcomes[c][attempt[c]])
             ELSE heard[h][c]
    BY <1>3 DEF Emit
  <2> DEFINE x == outcomes[c][attempt[c]]
  <2>2. ASSUME NEW h \in 1..Hooks
        PROVE  IF informed[c] + 1 < h THEN outcomes[c] = Append(heard'[h][c], x)
               ELSE heard'[h][c] = outcomes[c]
    <3>1. IF informed[c] < h THEN outcomes[c] = Append(heard[h][c], x) ELSE heard[h][c] = outcomes[c]
      BY <2>1 DEF HookInv
    <3>2. heard'[h][c] = IF h = informed[c] + 1 THEN Append(heard[h][c], x) ELSE heard[h][c]
      BY <2>1
    <3>3. informed[c] \in Nat /\ h \in Nat
      BY <1>0
    <3> HIDE DEF x, TypeOK, CallInv
    <3>4. CASE h = informed[c] + 1
      <4>1. informed[c] < h /\ ~(informed[c] + 1 < h)
        BY <3>3, <3>4
      <4> QED BY <3>1, <3>2, <3>4, <4>1, Zenon
    <3>5. CASE h # informed[c] + 1
      <4>1. informed[c] < h <=> informed[c] + 1 < h
        BY <3>3, <3>5
      <4> QED BY <3>1, <3>2, <3>5, <4>1, Zenon
    <3> QED BY <3>4, <3>5
  <2> QED BY <1>0, <2>1, <2>2 DEF HookInv
<1>4. CASE FnReturns(c)
  <2>1. /\ pc[c] = "emit" /\ informed[c] = Hooks /\ pc'[c] = "after"
        /\ UNCHANGED <<heard, outcomes>>
    BY <1>4 DEF FnReturns
  <2> QED BY <1>0, <2>1 DEF HookInv
<1>5. CASE Succeed(c) \/ GiveUp(c) \/ Retry(c)
  <2>1. pc[c] # "emit" /\ pc'[c] # "emit" /\ UNCHANGED <<heard, outcomes>>
    BY <1>5 DEF Succeed, GiveUp, Retry, Failed
  <2> QED BY <2>1 DEF HookInv
<1>6. CASE CloseConn(c)
  BY <1>6 DEF CloseConn, HookInv
<1> QED BY <1>1, <1>2, <1>3, <1>4, <1>5, <1>6 DEF Step

\* Every hook has heard of every attempt that reached the transport when the
\* guarded function returns, whichever hooks panic.
THEOREM HooksHearAll == Spec => []HooksAgree
<1> DEFINE Inv == \A c \in Calls : HookInv(c)
<1>1. Init => Inv
  BY DEF Init, HookInv
<1>2. CallInv /\ Inv /\ [Next]_vars => Inv'
  <2> SUFFICES ASSUME CallInv, Inv, [Next]_vars, NEW d \in Calls PROVE HookInv(d)'
    OBVIOUS
  <2>1. CASE UNCHANGED <<pc, callVars>>
    BY <2>1 DEF callVars, HookInv
  <2>2. ASSUME NEW c \in Calls, Step(c) PROVE HookInv(d)'
    <3>1. CASE d = c
      BY <2>2, <3>1, HookOfStep
    <3>2. CASE d # c
      BY <2>2, <3>2, OthersAlone DEF HookInv, CallInv
    <3> QED BY <3>1, <3>2
  <2> QED BY <2>1, <2>2 DEF vars, Next, AllDone, RegisterCodec
<1>3. Inv => HooksAgree
  BY DEF HookInv, HooksAgree
<1> QED BY <1>1, <1>2, <1>3, CallInvHolds, PTL DEF Spec
=============================================================================
