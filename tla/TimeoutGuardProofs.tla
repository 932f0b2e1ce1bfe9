------------------------- MODULE TimeoutGuardProofs -------------------------
(***************************************************************************)
(* What holds of TimeoutGuard for every depth, every choice of timeouts    *)
(* and every run of the clock.                                             *)
(***************************************************************************)
EXTENDS TimeoutGuard, TLAPS

\* Every guarded level has a deadline soon enough, the contexts of the running
\* levels grow by what their guards add, a level's guards are at or around it,
\* and the key of a level that derived its context is its own.
NestInv ==
  /\ \A n \in 1..top : Timeout[n] > 0 =>
       \E d \in ctx[n].deadlines : d <= entered[n] + Timeout[n]
  /\ \A n \in 1..top : \A m \in 1..n :
       ctx[m].deadlines \subseteq ctx[n].deadlines /\ ctx[m].guards \subseteq ctx[n].guards
  /\ \A n \in Levels : ctx[n].guards \subseteq 1..n
  /\ \A n \in Levels : n \in ctx[n].guards => ctx[n].key = n
  /\ looked => top < Depth
  /\ CancelledOnReturn

GuardInv == TypeOK /\ NestInv

LEMMA GuardInit == Init => GuardInv
<1> SUFFICES ASSUME Init PROVE GuardInv
  OBVIOUS
<1>1. TypeOK
  <2>1. CallerCtx \in Contexts
    BY GuardAssumption DEF Contexts, CallerCtx
  <2>2. ctx \in [Levels -> Contexts] /\ entered \in [Levels -> Nat]
    BY <2>1 DEF Init
  <2>3. top \in 0..Depth /\ now \in Nat
    BY GuardAssumption DEF Init
  <2> QED BY <2>2, <2>3 DEF Init, TypeOK
<1>2. NestInv
  BY GuardAssumption DEF Init, NestInv, CancelledOnReturn, CallerCtx, Levels
<1> QED BY <1>1, <1>2 DEF GuardInv

\* Before of level top + 1 hands on a context.
LEMMA EnterKeepsType ==
  ASSUME TypeOK, top < Depth, NEW x \in Contexts, Enter(x), cancelled' \subseteq cancelled
  PROVE  TypeOK'
<1>1. top + 1 \in Levels /\ top' = top + 1
  BY GuardAssumption DEF TypeOK, Enter, Levels
<1>2. top' \in 0..Depth
  BY <1>1, GuardAssumption DEF Levels
<1>3. ctx' \in [Levels -> Contexts] /\ entered' \in [Levels -> Nat]
  BY <1>1 DEF TypeOK, Enter
<1> QED BY <1>2, <1>3 DEF TypeOK, Enter

LEMMA GuardTypeStep == GuardInv /\ [Next]_vars => TypeOK'
<1> SUFFICES ASSUME GuardInv, [Next]_vars PROVE TypeOK'
  OBVIOUS
<1> USE DEF GuardInv
<1>1. Parent \in Contexts
  BY GuardAssumption DEF Parent, CallerCtx, TypeOK, Contexts, Levels
<1>2. CASE Keep
  BY <1>1, <1>2, EnterKeepsType DEF Keep
<1>3. CASE Look
  BY <1>3 DEF Look, TypeOK
<1>4. CASE Derive
  <2>1. top < Depth /\ top + 1 \in Levels /\ now + Timeout[top + 1] \in Nat
    BY <1>4, GuardAssumption DEF Derive, NestInv, TypeOK, Levels
  <2>2. [deadlines |-> Parent.deadlines \cup {now + Timeout[top + 1]},
         guards |-> Parent.guards \cup {top + 1}, key |-> top + 1] \in Contexts
    BY <1>1, <2>1, GuardAssumption DEF Contexts, Levels
  <2> QED BY <1>4, <2>1, <2>2, EnterKeepsType DEF Derive
<1>5. CASE Return
  <2>1. top \in Levels /\ top' \in 0..Depth
    BY <1>5, GuardAssumption DEF Return, TypeOK, Levels
  <2>2. ctx[top].key \in 0..Depth
    BY <2>1 DEF TypeOK, Contexts
  <2>3. cancelled' \subseteq Levels
    <3>1. {ctx[top].key} \ {0} \subseteq Levels
      BY <2>2, GuardAssumption DEF Levels
    <3> QED BY <1>5, <3>1 DEF Return, TypeOK
  <2> QED BY <1>5, <2>1, <2>3 DEF Return, TypeOK
<1>6. CASE Tick
  BY <1>6 DEF Tick, TypeOK
<1>7. CASE UNCHANGED vars
  BY <1>7 DEF vars, TypeOK
<1> QED BY <1>2, <1>3, <1>4, <1>5, <1>6, <1>7 DEF Next

\* Before of level top + 1 hands on x, which adds to the parent's context only
\* what the guard of that level adds.
LEMMA EnterKeepsNest ==
  ASSUME GuardInv, top < Depth, NEW x \in Contexts, Enter(x),
         Parent.deadlines \subseteq x.deadlines, Parent.guards \subseteq x.guards,
         x.guards \subseteq Parent.guards \cup {top + 1},
         top + 1 \in x.guards => x.key = top + 1,
         Timeout[top + 1] > 0 => \E d \in x.deadlines : d <= now + Timeout[top + 1],
         cancelled \ {top + 1} \subseteq cancelled'
  PROVE  NestInv'
<1> USE GuardAssumption DEF GuardInv, Levels
<1>1. /\ top \in Nat /\ top + 1 \in Levels /\ top' = top + 1 /\ ~looked'
      /\ ctx' = [ctx EXCEPT ![top + 1] = x] /\ entered' = [entered EXCEPT ![top + 1] = now]
      /\ ctx \in [Levels -> Contexts] /\ entered \in [Levels -> Nat]
  BY DEF Enter, TypeOK
<1>2. ctx'[top + 1] = x /\ entered'[top + 1] = now
      /\ \A n \in Levels \ {top + 1} : ctx'[n] = ctx[n] /\ entered'[n] = entered[n]
  BY <1>1
<1>3. Parent.guards \subseteq 1..top
  BY <1>1 DEF Parent, CallerCtx, NestInv
<1>4. ASSUME NEW m \in 1..top
      PROVE  ctx[m].deadlines \subseteq x.deadlines /\ ctx[m].guards \subseteq x.guards
  <2>1. top \in 1..top /\ m \in 1..top /\ Parent = ctx[top]
    BY <1>1 DEF Parent
  <2>2. ctx[m].deadlines \subseteq ctx[top].deadlines /\ ctx[m].guards \subseteq ctx[top].guards
    BY <2>1 DEF NestInv
  <2> QED BY <2>1, <2>2
<1>5. ASSUME NEW n \in 1..top', Timeout[n] > 0
      PROVE  \E d \in ctx'[n].deadlines : d <= entered'[n] + Timeout[n]
  <2>1. CASE n = top + 1
    BY <1>2, <1>5, <2>1
  <2>2. CASE n # top + 1
    <3>1. n \in 1..top /\ n \in Levels \ {top + 1}
      BY <1>1, <2>2 DEF TypeOK
    <3> QED BY <1>2, <1>5, <3>1 DEF NestInv
  <2> QED BY <2>1, <2>2
<1>6. ASSUME NEW n \in 1..top', NEW m \in 1..n
      PROVE  ctx'[m].deadlines \subseteq ctx'[n].deadlines /\ ctx'[m].guards \subseteq ctx'[n].guards
  <2>1. CASE m = n
    BY <2>1
  <2>2. CASE m # n
    <3>1. m \in 1..top /\ m \in Levels \ {top + 1}
      BY <1>1, <2>2 DEF TypeOK
    <3>2. CASE n = top + 1
      BY <1>2, <1>4, <3>1, <3>2
    <3>3. CASE n # top + 1
      <4>1. n \in 1..top /\ n \in Levels \ {top + 1}
        BY <1>1, <3>3 DEF TypeOK
      <4> QED BY <1>2, <3>1, <4>1 DEF NestInv
    <3> QED BY <3>2, <3>3
  <2> QED BY <2>1, <2>2
<1>7. ASSUME NEW n \in Levels
      PROVE  ctx'[n].guards \subseteq 1..n
  <2>1. CASE n = top + 1
    BY <1>1, <1>2, <1>3, <2>1
  <2>2. CASE n # top + 1
    BY <1>2, <2>2 DEF NestInv
  <2> QED BY <2>1, <2>2
<1>8. \A n \in Levels : n \in ctx'[n].guards => ctx'[n].key = n
  BY <1>1, <1>2 DEF NestInv
<1>9. CancelledOnReturn'
  BY <1>1, <1>2 DEF CancelledOnReturn, NestInv
<1> QED BY <1>1, <1>5, <1>6, <1>7, <1>8, <1>9 DEF NestInv

LEMMA NestStep == GuardInv /\ [Next]_vars => NestInv'
<1> SUFFICES ASSUME GuardInv, [Next]_vars PROVE NestInv'
  OBVIOUS
<1> USE GuardAssumption DEF GuardInv, Levels
<1>1. Parent \in Contexts /\ Parent.guards \subseteq 1..top
  BY DEF Parent, CallerCtx, TypeOK, Contexts, NestInv
<1>2. CASE Keep
  BY <1>1, <1>2, EnterKeepsNest DEF Keep, Keeps, TypeOK
<1>3. CASE Look
  BY <1>3 DEF Look, NestInv, CancelledOnReturn
<1>4. CASE Derive
  <2> DEFINE x == [deadlines |-> Parent.deadlines \cup {now + Timeout[top + 1]},
                   guards |-> Parent.guards \cup {top + 1}, key |-> top + 1]
  <2>1. top < Depth /\ top + 1 \in Levels /\ Timeout[top + 1] \in Nat /\ now \in Nat
    BY <1>4 DEF Derive, NestInv, TypeOK
  <2>2. x \in Contexts
    BY <1>1, <2>1 DEF Contexts
  <2>3. Enter(x) /\ cancelled' = cancelled \ {top + 1}
    BY <1>4 DEF Derive
  <2>4. \E d \in x.deadlines : d <= now + Timeout[top + 1]
    <3> DEFINE d == now + Timeout[top + 1]
    <3>1. d \in x.deadlines /\ d <= now + Timeout[top + 1]
      BY <2>1
    <3> QED BY <3>1
  <2> QED BY <2>1, <2>2, <2>3, <2>4, EnterKeepsNest
<1>5. CASE Return
  <2>1. /\ top \in Levels /\ top' = top - 1 /\ UNCHANGED <<ctx, entered, looked>>
        /\ cancelled' = cancelled \cup ({ctx[top].key} \ {0})
    BY <1>5 DEF Return, TypeOK
  <2>2. CancelledOnReturn'
    BY <2>1 DEF CancelledOnReturn, NestInv
  <2> QED BY <2>1, <2>2 DEF NestInv
<1>6. CASE Tick
  BY <1>6 DEF Tick, NestInv, CancelledOnReturn
<1>7. CASE UNCHANGED vars
  BY <1>7 DEF vars, NestInv, CancelledOnReturn
<1> QED BY <1>2, <1>3, <1>4, <1>5, <1>6, <1>7 DEF Next

LEMMA GuardInvariant == Spec => []GuardInv
<1>1. GuardInv /\ [Next]_vars => GuardInv'
  BY GuardTypeStep, NestStep DEF GuardInv
<1> QED BY <1>1, GuardInit, PTL DEF Spec

\* The bookkeeping of the guards stays well formed: After never calls a cancel
\* function that is not there.
THEOREM GuardTypeCorrect == Spec => []TypeOK
<1>1. GuardInv => TypeOK
  BY DEF GuardInv
<1> QED BY <1>1, GuardInvariant, PTL

\* A guarded function never runs past its guard's timeout with a live context.
THEOREM GuardsHold == Spec => []Guarded
<1>1. ASSUME GuardInv, NEW n \in 1..top, Timeout[n] > 0, now >= entered[n] + Timeout[n]
      PROVE  Done(ctx[n])
  <2>1. PICK d \in ctx[n].deadlines : d <= entered[n] + Timeout[n]
    BY <1>1 DEF GuardInv, NestInv
  <2>2. n \in Levels /\ now \in Nat
    BY <1>1, GuardAssumption DEF GuardInv, TypeOK, Levels
  <2>3. ctx[n] \in Contexts /\ entered[n] \in Nat /\ Timeout[n] \in Nat
    BY <1>1, <2>2, GuardAssumption DEF GuardInv, TypeOK
  <2>4. d \in Nat
    BY <2>1, <2>3 DEF Contexts
  <2>5. d <= now
    BY <1>1, <2>1, <2>2, <2>3, <2>4
  <2> QED BY <2>1, <2>5 DEF Done, Expired
<1>2. GuardInv => Guarded
  BY <1>1 DEF Guarded
<1> QED BY <1>2, GuardInvariant, PTL

\* When a context ends, those of all the calls nested in it have ended too.
THEOREM NestedCallsEnd == Spec => []EndsWithParent
<1>1. GuardInv => EndsWithParent
  BY DEF GuardInv, NestInv, EndsWithParent, Done, Expired
<1> QED BY <1>1, GuardInvariant, PTL

\* A derived context has been cancelled when the call that derived it returns.
THEOREM NoTimerOutlives == Spec => []CancelledOnReturn
<1>1. GuardInv => CancelledOnReturn
  BY DEF GuardInv, NestInv
<1> QED BY <1>1, GuardInvariant, PTL
=============================================================================
