------------------------- MODULE PolicyChainProofs -------------------------
(***************************************************************************)
(* What holds of PolicyChain for every set of calls, every choice of       *)
(* chains, capacities and attempt limits: it is well typed, and the        *)
(* semaphores count exactly the slots in use.                              *)
(***************************************************************************)
EXTENDS PolicyChain, FiniteSetTheorems, TLAPS

-----------------------------------------------------------------------------
(* Small facts about the operators the actions are built from.             *)

\* The policy at a position of a chain is one of the policies.
LEMMA ChainElement ==
  ASSUME NEW c \in Calls, NEW k \in 1..Len(Chain[c])
  PROVE  /\ Chain[c] \in Seq(Policies)
         /\ Chain[c][k] \in Policies
         /\ Len(Chain[c]) \in Nat
         /\ k \in 1..MaxChain
<1>1. Chain[c] \in Seq(Policies) /\ Len(Chain[c]) <= MaxChain /\ MaxChain \in Nat
  BY ChainAssumption
<1> QED BY <1>1

\* A normalised context is a context.
LEMMA NormalizeType ==
  ASSUME NEW x \in Contexts
  PROVE  Normalize(x) \in Contexts
BY DEF Normalize, Contexts

\* A guard extends a context to a context.
LEMMA GuardType ==
  ASSUME NEW x \in Contexts, NEW k \in 1..MaxChain
  PROVE  [x EXCEPT !.guards = @ \cup {k}] \in Contexts
BY DEF Contexts

\* A context error is one of the two of package context.
LEMMA CtxErrType ==
  ASSUME TypeOK, NEW c \in Calls, NEW x
  PROVE  CtxErr(c, x) \in SUBSET Errors
BY DEF CtxErr, TypeOK, Errors

-----------------------------------------------------------------------------
(* Type correctness.                                                       *)

LEMMA TypeInit == Init => TypeOK
BY ChainAssumption
   DEF Init, TypeOK, PCs, Final, Contexts, CallerContext

\* The start of an attempt, in Invoke, RetryNow and WakeUp.
LEMMA StartAttemptType ==
  ASSUME TypeOK, NEW c \in Calls, StartAttempt(c)
  PROVE  TypeOK'
BY DEF TypeOK, StartAttempt, PCs, Final, Contexts, CallerContext

\* A policy is applied and hands on a context.
LEMMA AppliedType ==
  ASSUME TypeOK, NEW c \in Calls, depth[c] < Len(Chain[c]),
         NEW x \in Contexts, Applied(c, x),
         inFlight' \in [Policies -> Nat],
         timers' \in [Calls -> SUBSET (Nat \X (1..MaxChain))]
  PROVE  TypeOK'
<1>1. depth[c] + 1 \in 0..MaxChain
  BY ChainAssumption DEF TypeOK
<1>2. depth' \in [Calls -> 0..MaxChain]
  BY <1>1 DEF TypeOK, Applied
<1>3. ctx' \in [Calls -> Contexts]
  BY DEF TypeOK, Applied
<1> QED BY <1>2, <1>3 DEF TypeOK, Applied, history

LEMMA BeforeFailsType ==
  ASSUME TypeOK, NEW c \in Calls, NEW e \in SUBSET Errors, BeforeFails(c, e)
  PROVE  TypeOK'
BY DEF TypeOK, BeforeFails, PCs, Final, history

LEMMA FnEndsType ==
  ASSUME TypeOK, NEW c \in Calls, NEW v \in BOOLEAN, NEW e \in SUBSET Errors, FnEnds(c, v, e)
  PROVE  TypeOK'
BY DEF TypeOK, FnEnds, PCs, Final

LEMMA ReturnType ==
  ASSUME TypeOK, NEW c \in Calls, NEW e \in SUBSET Errors, Return(c, e)
  PROVE  TypeOK'
BY DEF TypeOK, Return, PCs, Final, history

\* A policy is left; only err, inFlight, timers and vetoed may change too.
LEMMA UnapplyType ==
  ASSUME TypeOK, NEW c \in Calls, depth[c] > 0, Unapply(c),
         err' \in [Calls -> SUBSET Errors],
         inFlight' \in [Policies -> Nat],
         timers' \in [Calls -> SUBSET (Nat \X (1..MaxChain))],
         vetoed' \in [Calls -> BOOLEAN]
  PROVE  TypeOK'
<1>1. depth' \in [Calls -> 0..MaxChain]
  BY ChainAssumption DEF TypeOK, Unapply
<1> QED BY <1>1 DEF TypeOK, Unapply

\* The kinds of Before and After, as the positions they act on.
LEMMA NextPosition ==
  ASSUME TypeOK, NEW c \in Calls, NEW kind, NextKind(c, kind)
  PROVE  /\ depth[c] \in Nat /\ depth[c] < Len(Chain[c])
         /\ depth[c] + 1 \in 1..Len(Chain[c])
         /\ Chain[c][depth[c] + 1] \in Policies
         /\ Kind[Chain[c][depth[c] + 1]] = kind
<1>1. depth[c] \in Nat /\ depth[c] < Len(Chain[c])
  BY ChainAssumption DEF TypeOK, NextKind
<1>2. Len(Chain[c]) \in Nat
  BY ChainAssumption
<1>3. depth[c] + 1 \in 1..Len(Chain[c])
  BY <1>1, <1>2
<1> QED BY <1>1, <1>3, ChainElement DEF NextKind

LEMMA LastPosition ==
  ASSUME TypeOK, NEW c \in Calls, NEW kind, LastKind(c, kind)
  PROVE  /\ depth[c] \in 1..MaxChain
         /\ Kind[Chain[c][depth[c]]] = kind
BY ChainAssumption DEF TypeOK, LastKind

LEMMA BeforeType ==
  ASSUME TypeOK, NEW c \in Calls, Before(c)
  PROVE  TypeOK'
<1>1. CASE RetryBefore(c)
  <2>1. ctx[c] \in Contexts /\ inFlight' \in [Policies -> Nat]
        /\ timers' \in [Calls -> SUBSET (Nat \X (1..MaxChain))]
    BY <1>1 DEF RetryBefore, TypeOK
  <2> QED BY <1>1, <2>1, NextPosition, AppliedType DEF RetryBefore
<1>2. CASE TimeoutBeforeKeeps(c) \/ TimeoutBeforeDisabled(c)
  <2>1. ctx[c] \in Contexts /\ inFlight' \in [Policies -> Nat]
        /\ timers' \in [Calls -> SUBSET (Nat \X (1..MaxChain))]
    BY <1>2 DEF TimeoutBeforeKeeps, TimeoutBeforeDisabled, TypeOK
  <2> QED BY <1>2, <2>1, NextPosition, NormalizeType, AppliedType
      DEF TimeoutBeforeKeeps, TimeoutBeforeDisabled
<1>3. CASE TimeoutBeforeInstalls(c)
  <2> DEFINE x == Normalize(ctx[c])
             k == depth[c] + 1
  <2>1. depth[c] < Len(Chain[c]) /\ k \in 1..MaxChain
    BY <1>3, NextPosition, ChainElement DEF TimeoutBeforeInstalls
  <2>2. [x EXCEPT !.guards = @ \cup {k}] \in Contexts
    <3>1. x \in Contexts
      BY NormalizeType DEF TypeOK
    <3> QED BY <3>1, <2>1, GuardType
  <2>3. attempt[c] \in Nat /\ timers \in [Calls -> SUBSET (Nat \X (1..MaxChain))]
    BY DEF TypeOK
  <2>4. timers' = [timers EXCEPT ![c] = @ \cup {<<attempt[c], k>>}]
        /\ inFlight' \in [Policies -> Nat]
        /\ Applied(c, [x EXCEPT !.guards = @ \cup {k}])
    BY <1>3 DEF TimeoutBeforeInstalls, TypeOK
  <2>5. timers' \in [Calls -> SUBSET (Nat \X (1..MaxChain))]
    BY <2>1, <2>3, <2>4
  <2> QED BY <2>1, <2>2, <2>4, <2>5, AppliedType
<1>4. CASE AcquireSlot(c)
  <2>1. inFlight' \in [Policies -> Nat]
        /\ timers' \in [Calls -> SUBSET (Nat \X (1..MaxChain))]
    <3>1. Chain[c][depth[c] + 1] \in Policies
      BY <1>4, NextPosition DEF AcquireSlot
    <3> QED BY <1>4, <3>1 DEF AcquireSlot, TypeOK
  <2>2. Normalize(ctx[c]) \in Contexts
    BY NormalizeType DEF TypeOK
  <2> QED BY <1>4, <2>1, <2>2, NextPosition, AppliedType DEF AcquireSlot
<1>5. CASE AcquireCanceled(c)
  BY <1>5, CtxErrType, BeforeFailsType DEF AcquireCanceled
<1>6. CASE UserBefore(c)
  <2>1. CASE BeforeFails(c, {"policy"})
    BY <2>1, BeforeFailsType DEF Errors
  <2>2. CASE Applied(c, ctx[c]) /\ UNCHANGED <<inFlight, timers>>
    <3>1. ctx[c] \in Contexts /\ inFlight' \in [Policies -> Nat]
          /\ timers' \in [Calls -> SUBSET (Nat \X (1..MaxChain))]
      BY <2>2 DEF TypeOK
    <3> QED BY <1>6, <2>2, <3>1, NextPosition, AppliedType DEF UserBefore
  <2>3. CASE Applied(c, NilContext) /\ UNCHANGED <<inFlight, timers>>
    <3>1. NilContext \in Contexts /\ inFlight' \in [Policies -> Nat]
          /\ timers' \in [Calls -> SUBSET (Nat \X (1..MaxChain))]
      BY <2>3 DEF TypeOK, NilContext, Contexts
    <3> QED BY <1>6, <2>3, <3>1, NextPosition, AppliedType DEF UserBefore
  <2> QED BY <1>6, <2>1, <2>2, <2>3 DEF UserBefore
<1> QED BY <1>1, <1>2, <1>3, <1>4, <1>5, <1>6 DEF Before

LEMMA AfterType ==
  ASSUME TypeOK, NEW c \in Calls, After(c)
  PROVE  TypeOK'
<1>1. depth[c] > 0 /\ Unapply(c)
  BY DEF After, RetryAfter, TimeoutAfter, ReleaseSlot, UserAfter, LastKind
<1>2. err' \in [Calls -> SUBSET Errors]
  BY DEF After, RetryAfter, TimeoutAfter, ReleaseSlot, UserAfter, TypeOK, Errors
<1>3. inFlight' \in [Policies -> Nat]
  BY DEF After, RetryAfter, TimeoutAfter, ReleaseSlot, UserAfter, TypeOK
<1>4. timers' \in [Calls -> SUBSET (Nat \X (1..MaxChain))]
  <2>1. timers \in [Calls -> SUBSET (Nat \X (1..MaxChain))]
    BY DEF TypeOK
  <2>2. UNCHANGED timers \/ \E S : timers' = [timers EXCEPT ![c] = @ \ S]
    BY DEF After, RetryAfter, TimeoutAfter, ReleaseSlot, UserAfter
  <2> QED BY <2>1, <2>2
<1>5. vetoed' \in [Calls -> BOOLEAN]
  <2>1. UNCHANGED vetoed \/ vetoed' = [vetoed EXCEPT ![c] = @ \/ result[c]]
    BY DEF After, RetryAfter, TimeoutAfter, ReleaseSlot, UserAfter
  <2> QED BY <2>1 DEF TypeOK
<1> QED BY <1>1, <1>2, <1>3, <1>4, <1>5, UnapplyType

LEMMA TypeStep == TypeOK /\ [Next]_vars => TypeOK'
<1> SUFFICES ASSUME TypeOK, [Next]_vars PROVE TypeOK'
  OBVIOUS
<1>1. CASE UNCHANGED vars
  BY <1>1 DEF vars, TypeOK
<1>2. ASSUME NEW c \in Calls, Progress(c) PROVE TypeOK'
  <2>1. CASE Execute(c) \/ RetryLater(c) \/ FnPanics(c)
    BY <2>1 DEF Execute, RetryLater, FnPanics, TypeOK, PCs, Final, history
  <2>2. CASE FnReturns(c)
    <3>1. CASE "ok" \in FnOutcomes /\ FnEnds(c, TRUE, {})
      BY <3>1, FnEndsType
    <3>2. CASE \E e \in FnOutcomes \ {"ok"} : FnEnds(c, FALSE, {e})
      BY <3>2, FnEndsType, EnvironmentAssumption DEF Errors
    <3>3. CASE FnEnds(c, FALSE, CtxErr(c, ctx[c]))
      BY <3>3, FnEndsType, CtxErrType
    <3> QED BY <2>2, <3>1, <3>2, <3>3 DEF FnReturns
  <2>3. CASE Finish(c)
    BY <2>3, ReturnType DEF Finish, TypeOK
  <2>4. CASE RetryNow(c) \/ WakeUp(c)
    BY <2>4, StartAttemptType DEF RetryNow, WakeUp
  <2>5. CASE SleepCanceled(c)
    <3>1. err[c] \cup {callerDone[c]} \in SUBSET Errors
      BY <2>5 DEF SleepCanceled, TypeOK, Errors
    <3> QED BY <2>5, <3>1, ReturnType DEF SleepCanceled
  <2> QED BY <1>2, <2>1, <2>2, <2>3, <2>4, <2>5, BeforeType, AfterType DEF Progress
<1>3. ASSUME NEW c \in Calls, Environment(c) PROVE TypeOK'
  <2>1. CASE Invoke(c)
    BY <2>1, StartAttemptType DEF Invoke
  <2>2. CASE CallerEnds(c, "canceled") \/ CallerEnds(c, "deadline")
    BY <2>2 DEF CallerEnds, TypeOK, history
  <2>3. CASE FireTimer(c)
    BY <2>3 DEF FireTimer, TypeOK, history
  <2> QED BY <1>3, <2>1, <2>2, <2>3 DEF Environment
<1> QED BY <1>1, <1>2, <1>3 DEF Next, AllReturned

\* Every variable keeps its type: the errors stay inside the error tree's
\* leaves, the positions inside the chain, the counters natural numbers.
THEOREM TypeCorrect == Spec => []TypeOK
<1> QED BY TypeInit, TypeStep, PTL DEF Spec

-----------------------------------------------------------------------------
(* Slot conservation.  The inductive invariant adds to the typing what ties *)
(* the depth of a call to its place in the code: the chain bounds it, it    *)
(* is the whole chain inside the guarded function and nothing at rest.      *)

DepthInv ==
  \A c \in Calls :
    /\ depth[c] <= Len(Chain[c])
    /\ pc[c] = "exec" => depth[c] = Len(Chain[c])
    /\ pc[c] \in {"idle", "sleep", "done"} => depth[c] = 0

SlotInv == TypeOK /\ DepthInv /\ SlotConservation

LEMMA HoldersFinite == \A p : IsFiniteSet(Holders(p))
<1>1. IsFiniteSet(1..MaxChain)
  BY FS_Interval, ChainAssumption
<1>2. IsFiniteSet(Calls \X (1..MaxChain))
  BY <1>1, CallsAssumption, FS_Product
<1> QED BY <1>2, FS_Subset DEF Holders

\* Applying a policy adds exactly the next position to its holders.
LEMMA HoldersApply ==
  ASSUME TypeOK, NEW c \in Calls, depth[c] < Len(Chain[c]), NEW p,
         depth' = [depth EXCEPT ![c] = @ + 1]
  PROVE  /\ <<c, depth[c] + 1>> \notin Holders(p)
         /\ Chain[c][depth[c] + 1] = p => Holders(p)' = Holders(p) \cup {<<c, depth[c] + 1>>}
         /\ Chain[c][depth[c] + 1] # p => Holders(p)' = Holders(p)
<1>1. depth \in [Calls -> Nat] /\ depth[c] + 1 \in 1..MaxChain
  BY ChainAssumption DEF TypeOK
<1>2. <<c, depth[c] + 1>> \notin Holders(p)
  BY <1>1 DEF Holders
<1>3. ASSUME NEW h \in Calls \X (1..MaxChain)
      PROVE  h[2] <= depth'[h[1]] <=> h[2] <= depth[h[1]] \/ h = <<c, depth[c] + 1>>
  <2>1. h[1] \in Calls /\ h[2] \in Nat /\ h = <<h[1], h[2]>>
    BY <1>3, ChainAssumption
  <2>2. CASE h[1] = c
    BY <1>1, <2>1, <2>2
  <2>3. CASE h[1] # c
    BY <1>1, <2>1, <2>3
  <2> QED BY <2>2, <2>3
<1>4. Holders(p)' = {h \in Calls \X (1..MaxChain) : h[2] <= depth'[h[1]] /\ Chain[h[1]][h[2]] = p}
  BY DEF Holders
<1>5. <<c, depth[c] + 1>> \in Calls \X (1..MaxChain)
  BY <1>1
<1> QED BY <1>2, <1>3, <1>4, <1>5 DEF Holders

\* Leaving a policy removes exactly the last position from its holders.
LEMMA HoldersUnapply ==
  ASSUME TypeOK, NEW c \in Calls, depth[c] > 0, NEW p,
         depth' = [depth EXCEPT ![c] = @ - 1]
  PROVE  /\ Chain[c][depth[c]] = p => /\ <<c, depth[c]>> \in Holders(p)
                                     /\ Holders(p)' = Holders(p) \ {<<c, depth[c]>>}
         /\ Chain[c][depth[c]] # p => Holders(p)' = Holders(p)
<1>1. depth \in [Calls -> Nat] /\ depth[c] \in 1..MaxChain
  BY ChainAssumption DEF TypeOK
<1>2. ASSUME NEW h \in Calls \X (1..MaxChain)
      PROVE  h[2] <= depth'[h[1]] <=> h[2] <= depth[h[1]] /\ h # <<c, depth[c]>>
  <2>1. h[1] \in Calls /\ h[2] \in Nat /\ h = <<h[1], h[2]>>
    BY <1>2, ChainAssumption
  <2>2. CASE h[1] = c
    BY <1>1, <2>1, <2>2
  <2>3. CASE h[1] # c
    BY <1>1, <2>1, <2>3
  <2> QED BY <2>2, <2>3
<1>3. Holders(p)' = {h \in Calls \X (1..MaxChain) : h[2] <= depth'[h[1]] /\ Chain[h[1]][h[2]] = p}
  BY DEF Holders
<1>4. <<c, depth[c]>> \in Calls \X (1..MaxChain)
  BY <1>1
<1>5. Chain[c][depth[c]] = p => <<c, depth[c]>> \in Holders(p)
  BY <1>1, <1>4 DEF Holders
<1> QED BY <1>2, <1>3, <1>4, <1>5 DEF Holders

\* A step that leaves the positions and the semaphores alone.
LEMMA SlotsUntouched ==
  ASSUME SlotConservation, UNCHANGED <<depth, inFlight>>
  PROVE  SlotConservation'
BY DEF SlotConservation, Holders

\* A step of call c leaves the locals and the history of the others alone.
LEMMA CallStaysPrivate ==
  ASSUME TypeOK, NEW c \in Calls, Progress(c) \/ Environment(c), NEW d \in Calls, d # c
  PROVE  /\ pc'[d] = pc[d] /\ depth'[d] = depth[d] /\ attempt'[d] = attempt[d]
         /\ ctx'[d] = ctx[d] /\ err'[d] = err[d] /\ result'[d] = result[d]
         /\ timers'[d] = timers[d] /\ callerDone'[d] = callerDone[d]
         /\ opened'[d] = opened[d] /\ vetoed'[d] = vetoed[d] /\ late'[d] = late[d]
<1> USE DEF TypeOK, history
<1>1. CASE Before(c)
  BY <1>1 DEF Before, RetryBefore, TimeoutBeforeKeeps, TimeoutBeforeDisabled,
              TimeoutBeforeInstalls, AcquireSlot,
              AcquireCanceled, UserBefore, Applied, BeforeFails
<1>2. CASE After(c)
  BY <1>2 DEF After, RetryAfter, TimeoutAfter, ReleaseSlot, UserAfter, Unapply
<1>3. CASE Execute(c) \/ FnReturns(c) \/ FnPanics(c)
  BY <1>3 DEF Execute, FnReturns, FnEnds, FnPanics
<1>4. CASE Finish(c) \/ RetryNow(c) \/ RetryLater(c) \/ WakeUp(c) \/ SleepCanceled(c)
  BY <1>4 DEF Finish, RetryNow, RetryLater, WakeUp, SleepCanceled, StartAttempt, Return
<1>5. CASE Environment(c)
  BY <1>5 DEF Environment, Invoke, StartAttempt, CallerEnds, FireTimer
<1> QED BY <1>1, <1>2, <1>3, <1>4, <1>5 DEF Progress

\* What it does to their places.
LEMMA OthersStay ==
  ASSUME TypeOK, NEW c \in Calls, Progress(c) \/ Environment(c)
  PROVE  \A d \in Calls : d # c => pc'[d] = pc[d] /\ depth'[d] = depth[d]
BY CallStaysPrivate

LEMMA DepthInit == Init => DepthInv
BY ChainAssumption DEF Init, DepthInv

LEMMA DepthStep == TypeOK /\ DepthInv /\ [Next]_vars => DepthInv'
<1> SUFFICES ASSUME TypeOK, DepthInv, [Next]_vars PROVE DepthInv'
  OBVIOUS
<1>1. CASE UNCHANGED vars
  BY <1>1 DEF vars, DepthInv
<1>2. ASSUME NEW c \in Calls, Progress(c) \/ Environment(c) PROVE DepthInv'
  <2> DEFINE Good(d) == /\ depth'[d] <= Len(Chain[d])
                        /\ pc'[d] = "exec" => depth'[d] = Len(Chain[d])
                        /\ pc'[d] \in {"idle", "sleep", "done"} => depth'[d] = 0
  <2> SUFFICES Good(c)
    <3>1. ASSUME NEW d \in Calls, d # c PROVE Good(d)
      BY <1>2, <3>1, OthersStay DEF DepthInv
    <3> QED BY <3>1 DEF DepthInv
  <2>0. /\ pc[c] \in PCs /\ depth[c] \in Nat /\ Len(Chain[c]) \in Nat
        /\ depth \in [Calls -> 0..MaxChain] /\ pc \in [Calls -> PCs]
        /\ depth[c] <= Len(Chain[c])
        /\ pc[c] = "exec" => depth[c] = Len(Chain[c])
        /\ pc[c] \in {"idle", "sleep", "done"} => depth[c] = 0
    BY ChainAssumption DEF TypeOK, DepthInv
  <2>1. CASE Before(c)
    <3>1. pc[c] = "before" /\ depth[c] < Len(Chain[c])
      BY <2>1 DEF Before, RetryBefore, TimeoutBeforeKeeps, TimeoutBeforeDisabled,
                  TimeoutBeforeInstalls, AcquireSlot,
                  AcquireCanceled, UserBefore, NextKind
    <3>2. \/ UNCHANGED pc /\ depth' = [depth EXCEPT ![c] = @ + 1]
          \/ UNCHANGED depth /\ pc' = [pc EXCEPT ![c] = "unwind"]
      BY <2>1 DEF Before, RetryBefore, TimeoutBeforeKeeps, TimeoutBeforeDisabled,
                  TimeoutBeforeInstalls, AcquireSlot,
                  AcquireCanceled, UserBefore, Applied, BeforeFails
    <3> QED BY <2>0, <3>1, <3>2
  <2>2. CASE After(c)
    <3>1. pc[c] \in {"after", "unwind"} /\ depth[c] > 0
      BY <2>2 DEF After, RetryAfter, TimeoutAfter, ReleaseSlot, UserAfter, LastKind
    <3>2. UNCHANGED pc /\ depth' = [depth EXCEPT ![c] = @ - 1]
      BY <2>2 DEF After, RetryAfter, TimeoutAfter, ReleaseSlot, UserAfter, Unapply
    <3> QED BY <2>0, <3>1, <3>2
  <2>3. CASE Execute(c)
    BY <2>0, <2>3 DEF Execute
  <2>4. CASE FnReturns(c) \/ FnPanics(c)
    <3>1. UNCHANGED depth /\ \E x \in {"after", "panicked"} : pc' = [pc EXCEPT ![c] = x]
      BY <2>4 DEF FnReturns, FnEnds, FnPanics
    <3> QED BY <2>0, <3>1
  <2>5. CASE Finish(c) \/ RetryLater(c) \/ SleepCanceled(c)
    <3>1. depth[c] = 0 /\ UNCHANGED depth /\ \E x \in {"done", "sleep"} : pc' = [pc EXCEPT ![c] = x]
      BY <2>0, <2>5 DEF Finish, RetryLater, SleepCanceled, WantsRetry, AttemptOver, Return
    <3> QED BY <2>0, <3>1
  <2>6. CASE RetryNow(c) \/ WakeUp(c) \/ Invoke(c)
    <3>1. UNCHANGED depth /\ pc' = [pc EXCEPT ![c] = "before"]
      BY <2>6 DEF RetryNow, WakeUp, Invoke, StartAttempt
    <3> QED BY <2>0, <3>1
  <2>7. CASE CallerEnds(c, "canceled") \/ CallerEnds(c, "deadline") \/ FireTimer(c)
    BY <2>0, <2>7 DEF CallerEnds, FireTimer
  <2> QED BY <1>2, <2>1, <2>2, <2>3, <2>4, <2>5, <2>6, <2>7 DEF Progress, Environment
<1> QED BY <1>1, <1>2 DEF Next, AllReturned

LEMMA SlotInit == Init => SlotConservation
<1> SUFFICES ASSUME Init PROVE SlotConservation
  OBVIOUS
<1>1. \A p : Holders(p) = {}
  BY ChainAssumption DEF Init, Holders
<1>2. \A p \in Policies : inFlight[p] = 0 /\ Limit[p] \in Nat
  BY PolicyAssumption DEF Init
<1> QED BY <1>1, <1>2, FS_EmptySet DEF SlotConservation, Limiters

LEMMA SlotStep == TypeOK /\ DepthInv /\ SlotConservation /\ [Next]_vars => SlotConservation'
<1> SUFFICES ASSUME TypeOK, DepthInv, SlotConservation, [Next]_vars PROVE SlotConservation'
  OBVIOUS
<1>1. CASE UNCHANGED vars
  BY <1>1, SlotsUntouched DEF vars
<1>2. ASSUME NEW c \in Calls, Before(c) PROVE SlotConservation'
  <2>1. CASE AcquireSlot(c)
    <3> PICK q \in Limiters : q = Chain[c][depth[c] + 1]
      BY <2>1, NextPosition DEF AcquireSlot, Limiters
    <3>1. /\ depth[c] < Len(Chain[c])
          /\ depth' = [depth EXCEPT ![c] = @ + 1]
          /\ inFlight[q] < Limit[q]
          /\ inFlight' = [inFlight EXCEPT ![q] = @ + 1]
      BY <2>1, NextPosition DEF AcquireSlot, Applied
    <3>2. Holders(q)' = Holders(q) \cup {<<c, depth[c] + 1>>}
          /\ <<c, depth[c] + 1>> \notin Holders(q)
      BY <3>1, HoldersApply
    <3>3. Cardinality(Holders(q)') = Cardinality(Holders(q)) + 1
      BY <3>2, HoldersFinite, FS_AddElement
    <3>4. inFlight'[q] = Cardinality(Holders(q)') /\ inFlight'[q] <= Limit[q]
      <4>1. /\ inFlight \in [Policies -> Nat] /\ q \in Policies /\ Limit[q] \in Nat
            /\ inFlight[q] = Cardinality(Holders(q)) /\ inFlight[q] <= Limit[q]
        BY PolicyAssumption DEF SlotConservation, TypeOK, Limiters
      <4>2. inFlight'[q] = inFlight[q] + 1
        BY <3>1, <4>1
      <4> QED BY <3>1, <3>3, <4>1, <4>2
    <3>5. ASSUME NEW p \in Limiters, p # q
          PROVE  inFlight'[p] = inFlight[p] /\ Holders(p)' = Holders(p)
      BY <3>1, <3>5, HoldersApply DEF TypeOK, Limiters
    <3> QED BY <3>4, <3>5 DEF SlotConservation
  <2>2. CASE UNCHANGED <<depth, inFlight>>
    BY <2>2, SlotsUntouched
  <2>3. CASE \/ RetryBefore(c) \/ UserBefore(c)
             \/ TimeoutBeforeDisabled(c) \/ TimeoutBeforeKeeps(c) \/ TimeoutBeforeInstalls(c)
    <3>1. \E kind \in Kinds \ {"limit"} : NextKind(c, kind)
      BY <2>3 DEF RetryBefore, TimeoutBeforeKeeps, TimeoutBeforeDisabled,
                  TimeoutBeforeInstalls, UserBefore, Kinds
    <3>2. depth[c] < Len(Chain[c]) /\ Chain[c][depth[c] + 1] \notin Limiters
      BY <3>1, NextPosition DEF Limiters
    <3>3. UNCHANGED inFlight /\ (UNCHANGED depth \/ depth' = [depth EXCEPT ![c] = @ + 1])
      BY <2>3 DEF RetryBefore, TimeoutBeforeKeeps, TimeoutBeforeDisabled,
                  TimeoutBeforeInstalls, UserBefore,
                  Applied, BeforeFails
    <3>4. CASE depth' = [depth EXCEPT ![c] = @ + 1]
      <4>1. \A p \in Limiters : Holders(p)' = Holders(p)
        BY <3>2, <3>4, HoldersApply
      <4> QED BY <3>3, <4>1 DEF SlotConservation
    <3> QED BY <2>2, <3>3, <3>4
  <2>4. CASE AcquireCanceled(c)
    BY <2>2, <2>4 DEF AcquireCanceled, BeforeFails
  <2> QED BY <1>2, <2>1, <2>3, <2>4 DEF Before
<1>3. ASSUME NEW c \in Calls, After(c) PROVE SlotConservation'
  <2>1. CASE ReleaseSlot(c)
    <3>0. depth[c] > 0 /\ depth[c] \in 1..Len(Chain[c]) /\ Kind[Chain[c][depth[c]]] = "limit"
      BY <2>1, ChainAssumption DEF ReleaseSlot, LastKind, TypeOK, DepthInv
    <3> PICK q \in Limiters : q = Chain[c][depth[c]]
      BY <3>0, ChainElement DEF Limiters
    <3>1. /\ depth[c] > 0
          /\ depth' = [depth EXCEPT ![c] = @ - 1]
          /\ inFlight' = [inFlight EXCEPT ![q] = IF @ > 0 THEN @ - 1 ELSE 0]
      BY <2>1, <3>0 DEF ReleaseSlot, Unapply
    <3>3. <<c, depth[c]>> \in Holders(q) /\ Holders(q)' = Holders(q) \ {<<c, depth[c]>>}
      BY <3>1, HoldersUnapply
    <3>4. Cardinality(Holders(q)') = Cardinality(Holders(q)) - 1
      BY <3>3, HoldersFinite, FS_RemoveElement
    <3>5. inFlight[q] \in Nat /\ inFlight[q] > 0
      <4>1. inFlight[q] \in Nat /\ inFlight[q] = Cardinality(Holders(q))
        BY DEF SlotConservation, TypeOK, Limiters
      <4>2. Cardinality(Holders(q)) # 0
        BY <3>3, HoldersFinite, FS_EmptySet
      <4> QED BY <4>1, <4>2
    <3>6. inFlight'[q] = Cardinality(Holders(q)') /\ inFlight'[q] <= Limit[q]
      <4>1. /\ inFlight \in [Policies -> Nat] /\ q \in Policies /\ Limit[q] \in Nat
            /\ inFlight[q] = Cardinality(Holders(q)) /\ inFlight[q] <= Limit[q]
        BY PolicyAssumption DEF SlotConservation, TypeOK, Limiters
      <4>2. inFlight'[q] = inFlight[q] - 1
        BY <3>1, <3>5, <4>1
      <4> QED BY <3>4, <3>5, <4>1, <4>2
    <3>7. ASSUME NEW p \in Limiters, p # q
          PROVE  inFlight'[p] = inFlight[p] /\ Holders(p)' = Holders(p)
      BY <3>1, <3>7, HoldersUnapply DEF TypeOK, Limiters
    <3> QED BY <3>6, <3>7 DEF SlotConservation
  <2>2. CASE RetryAfter(c) \/ TimeoutAfter(c) \/ UserAfter(c)
    <3>1. \E kind \in Kinds \ {"limit"} : LastKind(c, kind)
      BY <2>2 DEF RetryAfter, TimeoutAfter, UserAfter, Kinds
    <3>2. depth[c] > 0 /\ Chain[c][depth[c]] \notin Limiters
      BY <3>1 DEF LastKind, Limiters
    <3>3. UNCHANGED inFlight /\ depth' = [depth EXCEPT ![c] = @ - 1]
      BY <2>2 DEF RetryAfter, TimeoutAfter, UserAfter, Unapply
    <3>4. \A p \in Limiters : Holders(p)' = Holders(p)
      BY <3>2, <3>3, HoldersUnapply
    <3> QED BY <3>3, <3>4 DEF SlotConservation
  <2> QED BY <1>3, <2>1, <2>2 DEF After
<1>4. ASSUME NEW c \in Calls, Progress(c) \/ Environment(c), ~Before(c), ~After(c)
      PROVE  UNCHANGED <<depth, inFlight>>
  BY <1>4 DEF Progress, Environment, Execute, FnReturns, FnEnds, FnPanics, Finish, RetryNow,
              RetryLater, WakeUp, SleepCanceled, StartAttempt, Return, Invoke, CallerEnds, FireTimer
<1> QED BY <1>1, <1>2, <1>3, <1>4, SlotsUntouched DEF Next, AllReturned

\* The conjunction is inductive.
LEMMA SlotInvariant == Spec => []SlotInv
<1>1. Init => SlotInv
  BY TypeInit, DepthInit, SlotInit DEF SlotInv
<1>2. SlotInv /\ [Next]_vars => SlotInv'
  BY TypeStep, DepthStep, SlotStep DEF SlotInv
<1> QED BY <1>1, <1>2, PTL DEF Spec

\* Every semaphore counts exactly the slots in use and never exceeds its
\* capacity, whatever fails, panics or is cancelled on the way.
THEOREM SlotsConserved == Spec => []SlotConservation
<1>1. SlotInv => SlotConservation
  BY DEF SlotInv
<1> QED BY <1>1, SlotInvariant, PTL

-----------------------------------------------------------------------------
(* What a call leaves behind: nothing at rest.  With one guard in a chain   *)
(* the timers of a call are those of the attempt, of its guard while that   *)
(* is applied, and the context of the attempt knows the guard.              *)

Careful(c) == "panic" \notin BeforeOutcomes /\ OneGuard(c)
IsGuard(c, k) == k \in 1..Len(Chain[c]) /\ Kind[Chain[c][k]] = "timeout"

TimersKnown(c) ==
  /\ \A t \in timers[c] :
       t[1] = attempt[c] /\ IsGuard(c, t[2]) /\ t[2] <= depth[c] /\ t[2] \in ctx[c].guards
  /\ \A g \in ctx[c].guards : IsGuard(c, g)

TimerInv == \A c \in Calls : Careful(c) => TimersKnown(c)

\* The start of an attempt: nothing is applied, so no timer goes on.
LEMMA TimersAtStart ==
  ASSUME TypeOK, NEW c \in Calls, TimersKnown(c), depth[c] = 0, StartAttempt(c)
  PROVE  TimersKnown(c)'
<1>1. timers[c] = {}
  <2>1. \A t \in timers[c] : t[2] \in Nat /\ t[2] >= 1 /\ t[2] <= 0
    BY ChainElement DEF TimersKnown, IsGuard
  <2> QED BY <2>1
<1>2. timers'[c] = {} /\ ctx'[c].guards = {}
  BY <1>1 DEF StartAttempt, CallerContext, TypeOK
<1> QED BY <1>2 DEF TimersKnown

\* A Before: only a guard adds a timer, its own, and to the context too.
LEMMA TimersBefore ==
  ASSUME TypeOK, NEW c \in Calls, Careful(c), TimersKnown(c), Before(c)
  PROVE  TimersKnown(c)'
<1>0. /\ depth[c] \in Nat /\ attempt' = attempt
      /\ depth \in [Calls -> 0..MaxChain] /\ ctx \in [Calls -> Contexts]
      /\ timers \in [Calls -> SUBSET (Nat \X (1..MaxChain))]
  BY ChainAssumption
     DEF TypeOK, Before, RetryBefore, TimeoutBeforeKeeps, TimeoutBeforeDisabled,
         TimeoutBeforeInstalls, AcquireSlot,
         AcquireCanceled, UserBefore, Applied, BeforeFails
<1>1. CASE TimeoutBeforeInstalls(c)
  <2> DEFINE k == depth[c] + 1
  <2>1. IsGuard(c, k)
    BY <1>1, NextPosition DEF TimeoutBeforeInstalls, IsGuard
  <2>2. ctx'[c].guards = ctx[c].guards \cup {k}
    BY <1>0, <1>1 DEF TimeoutBeforeInstalls, Applied, Normalize, Contexts
  <2>3. timers'[c] = timers[c] \cup {<<attempt[c], k>>} /\ depth'[c] = k
    BY <1>0, <1>1 DEF TimeoutBeforeInstalls, Applied
  <2>4. \A t \in timers[c] : t[2] <= k
    BY <1>0, ChainElement DEF TimersKnown, IsGuard
  <2>5. k <= k
    BY <1>0
  <2> HIDE DEF k
  <2> QED BY <1>0, <2>1, <2>2, <2>3, <2>4, <2>5 DEF TimersKnown, IsGuard
<1>2. CASE ~TimeoutBeforeInstalls(c)
  <2>1. UNCHANGED timers /\ ctx'[c].guards = ctx[c].guards
    BY <1>0, <1>2
       DEF Careful, Before, RetryBefore, TimeoutBeforeKeeps, TimeoutBeforeDisabled,
           AcquireSlot, AcquireCanceled,
           UserBefore, Applied, BeforeFails, Normalize, Contexts
  <2>2. depth'[c] = depth[c] \/ depth'[c] = depth[c] + 1
    BY <1>0, <1>2
       DEF Before, RetryBefore, TimeoutBeforeKeeps, TimeoutBeforeDisabled, AcquireSlot,
           AcquireCanceled, UserBefore,
           Applied, BeforeFails
  <2>3. \A t \in timers[c] : t[2] <= depth'[c]
    BY <1>0, <2>2, ChainElement DEF TimersKnown, IsGuard
  <2> QED BY <1>0, <2>1, <2>3 DEF TimersKnown, IsGuard
<1> QED BY <1>1, <1>2

\* An After: that of the guard stops the timer, the others are not the guard's.
LEMMA TimersAfter ==
  ASSUME TypeOK, DepthInv, NEW c \in Calls, Careful(c), TimersKnown(c), After(c)
  PROVE  TimersKnown(c)'
<1>0. /\ depth[c] \in 1..Len(Chain[c]) /\ depth'[c] = depth[c] - 1
      /\ attempt' = attempt /\ ctx' = ctx
      /\ timers \in [Calls -> SUBSET (Nat \X (1..MaxChain))]
  BY ChainAssumption
     DEF TypeOK, DepthInv, After, RetryAfter, TimeoutAfter, ReleaseSlot, UserAfter, Unapply,
         LastKind
<1>1. CASE TimeoutAfter(c) /\ LastKind(c, "timeout")
  <2>1. IsGuard(c, depth[c])
    BY <1>0, <1>1 DEF LastKind, IsGuard
  <2>2. \A k : IsGuard(c, k) => k = depth[c]
    BY <2>1 DEF Careful, OneGuard, IsGuard
  <2>3. \A t \in timers[c] : t = <<attempt[c], depth[c]>> /\ depth[c] \in ctx[c].guards
    BY <1>0, <2>2, ChainElement DEF TimersKnown
  <2>4. \A h \in ctx[c].guards : h <= depth[c]
    BY <1>0, <2>2 DEF TimersKnown
  <2>5. timers'[c] = timers[c] \ {<<attempt[c], g>> :
                                   g \in {g \in ctx[c].guards : \A h \in ctx[c].guards : h <= g}}
    BY <1>0, <1>1 DEF TimeoutAfter
  <2>6. timers'[c] = {}
    BY <2>3, <2>4, <2>5
  <2> QED BY <1>0, <2>6 DEF TimersKnown, IsGuard
<1>2. CASE \/ RetryAfter(c) \/ ReleaseSlot(c) \/ UserAfter(c)
           \/ TimeoutAfter(c) /\ LastKind(c, "disabled")
  <2>1. ~IsGuard(c, depth[c]) /\ timers'[c] \subseteq timers[c]
    BY <1>0, <1>2 DEF RetryAfter, ReleaseSlot, UserAfter, TimeoutAfter, LastKind, IsGuard
  <2>2. \A t \in timers[c] : t[2] <= depth[c] - 1
    BY <1>0, <2>1, ChainElement DEF TimersKnown, IsGuard
  <2> QED BY <1>0, <2>1, <2>2 DEF TimersKnown, IsGuard
<1> QED BY <1>1, <1>2 DEF After, TimeoutAfter

LEMMA TimerInit == Init => TimerInv
BY DEF Init, TimerInv, TimersKnown, CallerContext

LEMMA TimerStep == TypeOK /\ DepthInv /\ TimerInv /\ [Next]_vars => TimerInv'
<1> SUFFICES ASSUME TypeOK, DepthInv, TimerInv, [Next]_vars PROVE TimerInv'
  OBVIOUS
<1>1. CASE UNCHANGED vars
  BY <1>1 DEF vars, TimerInv, TimersKnown, IsGuard, Careful, OneGuard
<1>2. ASSUME NEW c \in Calls, Progress(c) \/ Environment(c) PROVE TimerInv'
  <2>1. ASSUME NEW d \in Calls, d # c
        PROVE  /\ timers'[d] = timers[d] /\ ctx'[d] = ctx[d]
               /\ attempt'[d] = attempt[d] /\ depth'[d] = depth[d]
    BY <1>2, <2>1, CallStaysPrivate
  <2>2. Careful(c) => TimersKnown(c)'
    <3> SUFFICES ASSUME Careful(c) PROVE TimersKnown(c)'
      OBVIOUS
    <3>1. TimersKnown(c)
      BY DEF TimerInv
    <3>2. CASE Before(c)
      BY <3>1, <3>2, TimersBefore
    <3>3. CASE After(c)
      BY <3>1, <3>3, TimersAfter
    <3>4. CASE Invoke(c) \/ RetryNow(c) \/ WakeUp(c)
      BY <3>1, <3>4, TimersAtStart DEF Invoke, RetryNow, WakeUp, WantsRetry, AttemptOver,
                                       DepthInv
    <3>5. CASE FireTimer(c)
      <4>1. timers'[c] \subseteq timers[c] /\ UNCHANGED <<attempt, ctx, depth>>
        BY <3>5 DEF FireTimer, TypeOK
      <4> QED BY <3>1, <4>1 DEF TimersKnown, IsGuard
    <3>6. CASE UNCHANGED <<timers, ctx, attempt, depth>>
      BY <3>1, <3>6 DEF TimersKnown, IsGuard
    <3> QED BY <1>2, <3>2, <3>3, <3>4, <3>5, <3>6
            DEF Progress, Environment, Execute, FnReturns, FnEnds, FnPanics, Finish, Return,
                RetryLater, SleepCanceled, CallerEnds, history
  <2> QED BY <2>1, <2>2 DEF TimerInv, TimersKnown, IsGuard, Careful, OneGuard
<1> QED BY <1>1, <1>2 DEF Next, AllReturned

\* A call at rest has run the After of every policy it had applied, and the
\* timer of its guard is stopped.
THEOREM RestIsClean == Spec => []NothingHeldAtRest
<1>1. Init => TimerInv
  BY TimerInit
<1>2. SlotInv /\ TimerInv /\ [Next]_vars => TimerInv'
  BY TimerStep DEF SlotInv
<1>3. SlotInv /\ TimerInv => NothingHeldAtRest
  <2> SUFFICES ASSUME SlotInv, TimerInv, NEW c \in Calls, pc[c] \in {"idle", "sleep", "done"}
               PROVE  depth[c] = 0 /\ (Careful(c) => timers[c] = {})
    BY DEF NothingHeldAtRest, Careful
  <2>1. depth[c] = 0
    BY DEF SlotInv, DepthInv
  <2>2. ASSUME Careful(c) PROVE timers[c] = {}
    <3>1. \A t \in timers[c] : t[2] \in Nat /\ t[2] >= 1 /\ t[2] <= 0
      BY <2>1, <2>2, ChainElement DEF TimerInv, TimersKnown, IsGuard
    <3> QED BY <3>1
  <2> QED BY <2>1, <2>2
<1> QED BY <1>1, <1>2, <1>3, SlotInvariant, PTL DEF Spec

-----------------------------------------------------------------------------
(* Retries end.  A call that waits for its next attempt has a policy that  *)
(* allows it; a call whose caller's context was over at the start of an    *)
(* attempt asks for no other, unless a user policy does.                   *)

Allows(p, n) ==
  \/ Kind[p] = "retry" /\ n <= MaxAttempts[p]
  \/ Kind[p] = "user" /\ n <= UserRetryCap

AttemptInv(c) ==
  /\ pc[c] = "idle" => attempt[c] = 0
  /\ attempt[c] > 1 => \E p \in InChain(c) : Allows(p, attempt[c])
  /\ pc[c] = "sleep" => \E p \in InChain(c) : Allows(p, attempt[c] + 1)

LateInv(c) ==
  /\ callerDone[c] = "live" \/ pc[c] \in {"idle", "sleep"} => late[c] = 0
  /\ late[c] <= 1

EndInv == \A c \in Calls : AttemptInv(c) /\ (UserRetryCap = 0 => LateInv(c))

LEMMA WantedIsAllowed ==
  ASSUME TypeOK, NEW c \in Calls, WantsRetry(c)
  PROVE  /\ \E p \in InChain(c) : Allows(p, attempt[c] + 1)
         /\ UserRetryCap = 0 => callerDone[c] = "live"
<1>1. PICK p \in InChain(c) : ShouldRetry(c, p) \/ UserMayRetry(c, p)
  BY DEF WantsRetry
<1>2. p \in Policies
  BY ChainElement DEF InChain
<1>3. attempt[c] \in Nat /\ MaxAttempts[p] \in Nat /\ UserRetryCap \in Nat
  BY <1>2, PolicyAssumption DEF TypeOK
<1>4. Allows(p, attempt[c] + 1)
  BY <1>1, <1>3 DEF ShouldRetry, UserMayRetry, Allows
<1>5. UserRetryCap = 0 => callerDone[c] = "live"
  BY <1>1, <1>3 DEF ShouldRetry, UserMayRetry
<1> QED BY <1>4, <1>5

\* Attempts are started by a new call, after a back-off or at once.
LEMMA StartsFrom ==
  ASSUME TypeOK, NEW c \in Calls, Progress(c) \/ Environment(c), pc'[c] = "before",
         attempt'[c] = attempt[c] + 1
  PROVE  pc[c] \in {"idle", "sleep"} \/ WantsRetry(c)
<1>1. attempt[c] \in Nat
  BY DEF TypeOK
<1>2. attempt' # attempt
  BY <1>1
<1> QED BY <1>2 DEF Progress, Environment, Before, RetryBefore, TimeoutBeforeKeeps,
                    TimeoutBeforeDisabled,
            TimeoutBeforeInstalls, AcquireSlot, AcquireCanceled, UserBefore, Applied,
            BeforeFails,
            After, RetryAfter, TimeoutAfter, ReleaseSlot, UserAfter, Unapply, Execute, FnReturns,
            FnEnds, FnPanics, Finish, Return, RetryNow, RetryLater, WakeUp, SleepCanceled, Invoke,
            CallerEnds, FireTimer, history

\* A step that starts no attempt and no back-off brings no call to rest.
LEMMA StaysAtRest ==
  ASSUME TypeOK, NEW c \in Calls, Progress(c) \/ Environment(c),
         ~StartAttempt(c), ~RetryLater(c)
  PROVE  pc'[c] \in {"idle", "sleep"} => pc'[c] = pc[c]
BY DEF TypeOK, Progress, Environment, Before, RetryBefore, TimeoutBeforeKeeps,
       TimeoutBeforeDisabled,
       TimeoutBeforeInstalls, AcquireSlot, AcquireCanceled, UserBefore, Applied, BeforeFails,
       After, RetryAfter, TimeoutAfter, ReleaseSlot, UserAfter, Unapply, Execute, FnReturns,
       FnEnds, FnPanics, Finish, Return, RetryNow, WakeUp, SleepCanceled, Invoke,
       CallerEnds, FireTimer, history

\* Only these steps touch the attempts, the callers' contexts or late.
LEMMA WhoCounts ==
  ASSUME NEW c \in Calls, Progress(c) \/ Environment(c)
  PROVE  \/ StartAttempt(c) \/ RetryLater(c)
         \/ CallerEnds(c, "canceled") \/ CallerEnds(c, "deadline")
         \/ UNCHANGED <<attempt, callerDone, late>>
BY DEF Progress, Environment, Before, RetryBefore, TimeoutBeforeKeeps, TimeoutBeforeDisabled,
       TimeoutBeforeInstalls, AcquireSlot, AcquireCanceled, UserBefore, Applied, BeforeFails,
       After, RetryAfter, TimeoutAfter, ReleaseSlot, UserAfter, Unapply, Execute, FnReturns,
       FnEnds, FnPanics, Finish, Return, RetryNow, WakeUp, SleepCanceled, Invoke,
       FireTimer, history

LEMMA EndInit == Init => EndInv
BY DEF Init, EndInv, AttemptInv, LateInv

LEMMA EndStep == TypeOK /\ EndInv /\ [Next]_vars => EndInv'
<1> SUFFICES ASSUME TypeOK, EndInv, [Next]_vars PROVE EndInv'
  OBVIOUS
<1>1. CASE UNCHANGED vars
  BY <1>1 DEF vars, EndInv, AttemptInv, LateInv, InChain, Allows
<1>2. ASSUME NEW c \in Calls, Progress(c) \/ Environment(c) PROVE EndInv'
  <2>1. ASSUME NEW d \in Calls, d # c
        PROVE  /\ pc'[d] = pc[d] /\ attempt'[d] = attempt[d]
               /\ callerDone'[d] = callerDone[d] /\ late'[d] = late[d]
    BY <1>2, <2>1, CallStaysPrivate
  <2>2. /\ attempt[c] \in Nat /\ late[c] \in Nat /\ AttemptInv(c)
        /\ UserRetryCap = 0 => LateInv(c)
    BY DEF TypeOK, EndInv
  <2>3. AttemptInv(c)' /\ (UserRetryCap = 0 => LateInv(c)')
    <3>1. CASE StartAttempt(c)
      <4>1. /\ attempt'[c] = attempt[c] + 1 /\ pc'[c] = "before" /\ callerDone' = callerDone
            /\ late'[c] = IF callerDone[c] = "live" THEN late[c] ELSE late[c] + 1
        BY <3>1 DEF StartAttempt, TypeOK
      <4>2. attempt[c] = 0 \/ \E p \in InChain(c) : Allows(p, attempt[c] + 1)
        BY <1>2, <2>2, <3>1, <4>1, StartsFrom, WantedIsAllowed DEF AttemptInv
      <4>3. AttemptInv(c)'
        BY <2>2, <4>1, <4>2 DEF AttemptInv, InChain, Allows
      <4>4. UserRetryCap = 0 => late[c] = 0
        BY <1>2, <2>2, <3>1, <4>1, StartsFrom, WantedIsAllowed DEF LateInv
      <4> QED BY <2>2, <4>1, <4>3, <4>4 DEF LateInv
    <3>2. CASE RetryLater(c)
      <4>1. /\ pc'[c] = "sleep" /\ UNCHANGED <<attempt, callerDone, late>>
            /\ \E p \in InChain(c) : Allows(p, attempt[c] + 1)
            /\ UserRetryCap = 0 => callerDone[c] = "live"
        BY <3>2, WantedIsAllowed DEF RetryLater, TypeOK, history
      <4> QED BY <2>2, <4>1 DEF AttemptInv, LateInv, InChain, Allows
    <3>3. CASE CallerEnds(c, "canceled") \/ CallerEnds(c, "deadline")
      <4>1. UNCHANGED <<pc, attempt, late>> /\ callerDone[c] = "live"
        BY <3>3 DEF CallerEnds, history
      <4> QED BY <2>2, <4>1 DEF AttemptInv, LateInv, InChain, Allows
    <3>4. CASE ~StartAttempt(c) /\ ~RetryLater(c) /\ UNCHANGED <<attempt, callerDone, late>>
      <4>1. pc'[c] \in {"idle", "sleep"} => pc'[c] = pc[c]
        BY <1>2, <3>4, StaysAtRest
      <4> QED BY <2>2, <3>4, <4>1 DEF AttemptInv, LateInv, InChain, Allows
    <3> QED BY <1>2, <3>1, <3>2, <3>3, <3>4, WhoCounts
  <2> QED BY <2>1, <2>3 DEF EndInv, AttemptInv, LateInv, InChain, Allows
<1> QED BY <1>1, <1>2 DEF Next, AllReturned

\* Retries end: with the attempts the policies of the chain allow, and without
\* user deciders at most one attempt starts after the caller's context is over.
THEOREM RetriesStop == Spec => []RetriesEnd
<1>1. Init => EndInv
  BY EndInit
<1>2. TypeOK /\ EndInv /\ [Next]_vars => EndInv'
  BY EndStep
<1>3. EndInv => RetriesEnd
  BY DEF EndInv, AttemptInv, LateInv, RetriesEnd, AttemptsBounded, AtMostOneLateAttempt, Allows
<1> QED BY <1>1, <1>2, <1>3, TypeCorrect, PTL DEF Spec

-----------------------------------------------------------------------------
(* Values.  An attempt that has not ended holds no value; one that holds a  *)
(* value has no error unless an After has failed it, so that no retry, and  *)
(* no start of an attempt, meets a value nobody has failed.                 *)

DropInv(c) ==
  /\ pc[c] \in {"idle", "before", "exec", "unwind", "panicked"} => ~result[c]
  /\ pc[c] = "sleep" => err[c] # {}
  /\ ~vetoed[c] => opened[c] <= (IF result[c] THEN 1 ELSE 0)
  /\ ~vetoed[c] /\ result[c] => err[c] = {}

LEMMA DropInit == Init => \A c \in Calls : DropInv(c)
BY DEF Init, DropInv

LEMMA StartDropsNothing ==
  ASSUME TypeOK, NEW c \in Calls, DropInv(c), StartAttempt(c),
         pc[c] = "idle" \/ pc[c] = "sleep" \/ err[c] # {}
  PROVE  DropInv(c)'
<1>1. ~vetoed[c] => ~result[c]
  BY DEF DropInv
<1>2. pc'[c] = "before" /\ ~result'[c] /\ opened' = opened /\ vetoed' = vetoed
  BY DEF StartAttempt, TypeOK
<1> QED BY <1>1, <1>2 DEF DropInv

LEMMA DropStepOfCall ==
  ASSUME TypeOK, NEW c \in Calls, DropInv(c), Progress(c) \/ Environment(c)
  PROVE  DropInv(c)'
<1> USE DEF TypeOK, DropInv, history
<1>1. CASE Before(c)
  BY <1>1 DEF Before, RetryBefore, TimeoutBeforeKeeps, TimeoutBeforeDisabled,
              TimeoutBeforeInstalls, AcquireSlot,
              AcquireCanceled, UserBefore, Applied, BeforeFails, NextKind
<1>2. CASE After(c)
  <2>1. pc[c] \in {"after", "unwind"} /\ UNCHANGED <<pc, result, opened>>
    BY <1>2 DEF After, RetryAfter, TimeoutAfter, ReleaseSlot, UserAfter, Unapply, LastKind
  <2>2. \/ UNCHANGED <<err, vetoed>>
        \/ vetoed' = [vetoed EXCEPT ![c] = @ \/ result[c]]
    BY <1>2 DEF After, RetryAfter, TimeoutAfter, ReleaseSlot, UserAfter
  <2>3. CASE UNCHANGED <<err, vetoed>>
    BY <2>1, <2>3
  <2>4. CASE vetoed' = [vetoed EXCEPT ![c] = @ \/ result[c]]
    <3>1. vetoed'[c] <=> vetoed[c] \/ result[c]
      BY <2>4
    <3> QED BY <2>1, <3>1
  <2> QED BY <2>2, <2>3, <2>4
<1>3. CASE Execute(c) \/ FnPanics(c)
  BY <1>3 DEF Execute, FnPanics
<1>4. CASE FnReturns(c)
  <2>1. PICK value \in BOOLEAN : \E e : FnEnds(c, value, e) /\ (value => e = {})
    BY <1>4 DEF FnReturns
  <2>2. /\ pc'[c] = "after" /\ result'[c] = value /\ vetoed' = vetoed
        /\ value => err'[c] = {}
        /\ opened'[c] = IF value THEN opened[c] + 1 ELSE opened[c]
        /\ ~result[c]
    BY <2>1 DEF FnEnds
  <2>3. opened[c] \in Nat
    OBVIOUS
  <2> QED BY <2>1, <2>2, <2>3
<1>5. CASE Finish(c) \/ RetryLater(c)
  BY <1>5 DEF Finish, Return, RetryLater, WantsRetry, AttemptOver
<1>6. CASE SleepCanceled(c)
  BY <1>6 DEF SleepCanceled, Return
<1>7. CASE RetryNow(c) \/ WakeUp(c) \/ Invoke(c)
  BY <1>7, StartDropsNothing DEF RetryNow, WakeUp, Invoke, WantsRetry
<1>8. CASE CallerEnds(c, "canceled") \/ CallerEnds(c, "deadline") \/ FireTimer(c)
  BY <1>8 DEF CallerEnds, FireTimer
<1> QED BY <1>1, <1>2, <1>3, <1>4, <1>5, <1>6, <1>7, <1>8 DEF Progress, Environment

LEMMA DropStep ==
  TypeOK /\ (\A c \in Calls : DropInv(c)) /\ [Next]_vars => (\A c \in Calls : DropInv(c))'
<1> SUFFICES ASSUME TypeOK, \A c \in Calls : DropInv(c), [Next]_vars, NEW d \in Calls
             PROVE  DropInv(d)'
  OBVIOUS
<1>1. CASE UNCHANGED vars
  BY <1>1 DEF vars, DropInv
<1>2. ASSUME NEW c \in Calls, Progress(c) \/ Environment(c) PROVE DropInv(d)'
  <2>1. CASE d = c
    BY <1>2, <2>1, DropStepOfCall
  <2>2. CASE d # c
    BY <1>2, <2>2, CallStaysPrivate DEF DropInv
  <2> QED BY <2>1, <2>2
<1> QED BY <1>1, <1>2 DEF Next, AllReturned

\* A value of the guarded function is dropped only when the After of a user
\* policy has failed its attempt: no retry redoes a success, and no failed
\* Before, cancelled back-off or timeout throws a connection away.
THEOREM ValuesAreKept == Spec => []DroppedOnlyIfVetoed
<1>1. Init => \A c \in Calls : DropInv(c)
  BY DropInit
<1>2. TypeOK /\ (\A c \in Calls : DropInv(c)) /\ [Next]_vars => (\A c \in Calls : DropInv(c))'
  BY DropStep
<1>3. TypeOK /\ (\A c \in Calls : DropInv(c)) => DroppedOnlyIfVetoed
  BY DEF TypeOK, DropInv, DroppedOnlyIfVetoed
<1> QED BY <1>1, <1>2, <1>3, TypeCorrect, PTL DEF Spec

-----------------------------------------------------------------------------
(* Waiting for a slot.  A guard leaves a context with a deadline, its own   *)
(* or that of the parent it kept, and no policy behind it takes that away.  *)

Guarded(c) == \E k \in 1..depth[c] : Kind[Chain[c][k]] = "timeout"
DeadlineInv(c) == pc[c] = "before" /\ Guarded(c) => HasDeadline(c, ctx[c])

LEMMA DeadlineBefore ==
  ASSUME TypeOK, NEW c \in Calls, DeadlineInv(c), Before(c), "panic" \notin BeforeOutcomes
  PROVE  DeadlineInv(c)'
<1>0. /\ depth[c] \in Nat /\ pc \in [Calls -> PCs] /\ depth \in [Calls -> 0..MaxChain]
      /\ ctx \in [Calls -> Contexts] /\ ctx[c] \in Contexts
  BY ChainAssumption DEF TypeOK
<1>1. HasDeadline(c, Normalize(ctx[c])) <=> HasDeadline(c, ctx[c])
  BY <1>0 DEF HasDeadline, Normalize, Contexts
<1>2. CASE pc'[c] # "before"
  BY <1>2 DEF DeadlineInv
<1>3. CASE TimeoutBeforeInstalls(c)
  <2>1. ctx'[c].guards # {}
    BY <1>0, <1>3 DEF TimeoutBeforeInstalls, Applied, Normalize, Contexts
  <2> QED BY <2>1 DEF DeadlineInv, HasDeadline
<1>4. CASE TimeoutBeforeKeeps(c)
  <2>1. ctx'[c] = Normalize(ctx[c]) /\ HasDeadline(c, Normalize(ctx[c]))
    BY <1>0, <1>4 DEF TimeoutBeforeKeeps, TimeoutBeforeDisabled, Applied
  <2> QED BY <2>1 DEF DeadlineInv, HasDeadline
<1>5. ASSUME Applied(c, ctx[c]) \/ Applied(c, Normalize(ctx[c])), NEW kind, NextKind(c, kind),
             kind # "timeout"
      PROVE  DeadlineInv(c)'
  <2> SUFFICES ASSUME pc'[c] = "before", Guarded(c)' PROVE HasDeadline(c, ctx[c])'
    BY DEF DeadlineInv
  <2>1. /\ depth'[c] = depth[c] + 1 /\ pc' = pc
        /\ ctx'[c] = ctx[c] \/ ctx'[c] = Normalize(ctx[c])
    BY <1>0, <1>5 DEF Applied
  <2>2. PICK k \in 1..depth'[c] : Kind[Chain[c][k]] = "timeout"
    BY DEF Guarded
  <2>3. k # depth[c] + 1
    BY <1>5, <2>2 DEF NextKind
  <2>4. k \in 1..depth[c]
    BY <1>0, <2>1, <2>2, <2>3
  <2>5. HasDeadline(c, ctx[c])
    BY <2>1, <2>2, <2>4 DEF DeadlineInv, Guarded
  <2>6. HasDeadline(c, ctx'[c])
    BY <1>1, <2>1, <2>5
  <2> QED BY <2>6 DEF HasDeadline
<1>6. CASE RetryBefore(c) \/ TimeoutBeforeDisabled(c) \/ AcquireSlot(c)
  BY <1>5, <1>6 DEF RetryBefore, TimeoutBeforeDisabled, AcquireSlot
<1>7. CASE UserBefore(c) /\ pc'[c] = "before"
  <2>1. NextKind(c, "user") /\ Applied(c, ctx[c])
    BY <1>0, <1>7 DEF UserBefore, BeforeFails
  <2> QED BY <1>5, <2>1
<1>8. AcquireCanceled(c) => pc'[c] # "before"
  BY <1>0 DEF AcquireCanceled, BeforeFails
<1> QED BY <1>2, <1>3, <1>4, <1>6, <1>7, <1>8 DEF Before

LEMMA DeadlineStep ==
  ASSUME TypeOK, DepthInv, [Next]_vars, "panic" \notin BeforeOutcomes,
         \A c \in Calls : DeadlineInv(c)
  PROVE  \A c \in Calls : DeadlineInv(c)'
<1>1. CASE UNCHANGED vars
  BY <1>1 DEF vars, DeadlineInv, Guarded, HasDeadline
<1>2. ASSUME NEW c \in Calls, Progress(c) \/ Environment(c) PROVE \A d \in Calls : DeadlineInv(d)'
  <2>1. ASSUME NEW d \in Calls, d # c PROVE DeadlineInv(d)'
    <3>1. pc'[d] = pc[d] /\ depth'[d] = depth[d] /\ ctx'[d] = ctx[d]
      BY <1>2, <2>1, CallStaysPrivate
    <3> QED BY <3>1 DEF DeadlineInv, Guarded, HasDeadline
  <2>2. DeadlineInv(c)'
    <3>0. pc \in [Calls -> PCs] /\ depth \in [Calls -> 0..MaxChain]
      BY DEF TypeOK
    <3>1. CASE Before(c)
      BY <3>1, DeadlineBefore
    <3>2. CASE Invoke(c) \/ RetryNow(c) \/ WakeUp(c)
      <4>1. depth'[c] = 0
        BY <3>2 DEF Invoke, RetryNow, WakeUp, WantsRetry, AttemptOver, StartAttempt, DepthInv
      <4> QED BY <4>1 DEF DeadlineInv, Guarded
    <3>3. CASE UNCHANGED <<pc, depth, ctx>>
      BY <3>3 DEF DeadlineInv, Guarded, HasDeadline
    <3>4. CASE pc'[c] # "before"
      BY <3>4 DEF DeadlineInv
    <3>5. ASSUME After(c) PROVE pc'[c] # "before"
      BY <3>5 DEF After, RetryAfter, TimeoutAfter, ReleaseSlot, UserAfter, Unapply, LastKind
    <3> QED BY <1>2, <3>0, <3>1, <3>2, <3>3, <3>4, <3>5
            DEF Progress, Environment, Execute, FnReturns, FnEnds, FnPanics, Finish, Return,
                RetryLater, SleepCanceled, CallerEnds, FireTimer
  <2> QED BY <2>1, <2>2
<1> QED BY <1>1, <1>2 DEF Next, AllReturned

\* WaitsAreTimed: a wait for a slot behind a guard that is not disabled has an
\* end in sight, for any number of calls and limiters in any order.
THEOREM WaitsHaveAnEnd == Spec => []WaitsAreTimed
<1> DEFINE Inv == "panic" \notin BeforeOutcomes => \A c \in Calls : DeadlineInv(c)
<1>1. Init => Inv
  BY DEF Init, DeadlineInv
<1>2. SlotInv /\ Inv /\ [Next]_vars => Inv'
  BY DeadlineStep DEF SlotInv
<1>3. SlotInv /\ Inv => WaitsAreTimed
  <2> SUFFICES ASSUME SlotInv, Inv, NEW c \in Calls, "panic" \notin BeforeOutcomes,
                      NextKind(c, "limit"), Guarded(c), CtxErr(c, ctx[c]) = {}
               PROVE  \/ \E g \in ctx[c].guards : <<attempt[c], g>> \in timers[c]
                      \/ /\ ctx[c].root = "caller" /\ callerDone[c] = "live"
                         /\ CallerCtx[c] = "deadline"
    BY DEF WaitsAreTimed, Guarded
  <2>1. HasDeadline(c, ctx[c])
    BY DEF DeadlineInv, NextKind
  <2>2. \A g \in ctx[c].guards : <<attempt[c], g>> \in timers[c]
    BY DEF CtxErr
  <2>3. ctx[c].root = "caller" => callerDone[c] = "live"
    BY <2>2 DEF CtxErr
  <2> QED BY <2>1, <2>2, <2>3 DEF HasDeadline
<1> HIDE DEF Inv
<1> QED BY <1>1, <1>2, <1>3, SlotInvariant, PTL DEF Spec

-----------------------------------------------------------------------------
(* The limiters implement Bulkhead.  A call that runs, and one about to,    *)
(* each hold a slot of every limiter they use, at a position of their own,  *)
(* so there are at most as many of them as slots in use.                    *)

LEMMA FreeSlotToEnter ==
  ASSUME SlotInv, NEW c \in Calls, pc[c] # "exec", depth[c] = Len(Chain[c]),
         NEW l \in UsesOf[c]
  PROVE  Promise!Load(l) < Limit[l]
<1> DEFINE others == {d \in Running : l \in UsesOf[d]}
           S == others \cup {c}
           position(d) == CHOOSE k \in 1..Len(Chain[d]) : Chain[d][k] = l
           f == [d \in S |-> <<d, position(d)>>]
<1>1. l \in Limiters /\ l \in Policies /\ Limit[l] \in Nat /\ c \notin others
  BY PolicyAssumption DEF UsesOf, Limiters, Running
<1>2. S \subseteq Calls
  BY DEF Running
<1>3. ASSUME NEW d \in S
      PROVE  f[d] \in Holders(l) /\ f[d][1] = d
  <2>1. depth[d] = Len(Chain[d]) /\ l \in InChain(d)
    BY <1>2 DEF SlotInv, DepthInv, Running, UsesOf
  <2>2. PICK k \in 1..Len(Chain[d]) : Chain[d][k] = l
    BY <2>1 DEF InChain
  <2>3. position(d) \in 1..Len(Chain[d]) /\ Chain[d][position(d)] = l
    BY <2>2
  <2> HIDE DEF position
  <2>4. position(d) \in 1..MaxChain /\ position(d) <= depth[d]
    BY <1>2, <2>1, <2>3, ChainElement
  <2>5. f[d] = <<d, position(d)>>
    OBVIOUS
  <2> QED BY <1>2, <2>3, <2>4, <2>5 DEF Holders
<1>4. f \in Injection(S, Holders(l))
  <2>1. f \in [S -> Holders(l)]
    BY <1>3
  <2>2. \A d, e \in S : f[d] = f[e] => d = e
    BY <1>3
  <2> HIDE DEF f
  <2> QED BY <2>1, <2>2 DEF Injection, IsInjective
<1>5. IsFiniteSet(S) /\ Cardinality(S) <= Cardinality(Holders(l))
  <2> HIDE DEF f, S
  <2> QED BY <1>4, HoldersFinite, FS_Injection
<1>6. IsFiniteSet(others) /\ Cardinality(S) = Cardinality(others) + 1
  <2>1. IsFiniteSet(others)
    BY <1>5, FS_Subset
  <2> QED BY <1>1, <2>1, FS_AddElement
<1>7. Cardinality(Holders(l)) <= Limit[l] /\ Cardinality(Holders(l)) \in Nat
  BY <1>1, HoldersFinite, FS_CardinalityType DEF SlotInv, SlotConservation
<1>8. Cardinality(others) \in Nat
  BY <1>6, FS_CardinalityType
<1>9. Cardinality(others) < Limit[l]
  BY <1>1, <1>5, <1>6, <1>7, <1>8
<1> QED BY <1>9 DEF Promise!Load, Promise!Cardinality, Cardinality

\* A call enters the guarded function in Execute only.
LEMMA EntersByExecute ==
  ASSUME TypeOK, NEW c \in Calls, Progress(c) \/ Environment(c),
         pc[c] # "exec", pc'[c] = "exec"
  PROVE  Execute(c)
<1>1. ~Before(c)
  BY DEF TypeOK, Before, RetryBefore, TimeoutBeforeKeeps, TimeoutBeforeDisabled,
         TimeoutBeforeInstalls, AcquireSlot,
         AcquireCanceled, UserBefore, Applied, BeforeFails
<1>2. ~After(c)
  BY DEF TypeOK, After, RetryAfter, TimeoutAfter, ReleaseSlot, UserAfter, Unapply
<1>3. ~(FnReturns(c) \/ FnPanics(c) \/ Finish(c) \/ SleepCanceled(c))
  BY DEF TypeOK, FnReturns, FnEnds, FnPanics, Finish, SleepCanceled, Return
<1>4. ~(RetryNow(c) \/ RetryLater(c) \/ WakeUp(c) \/ Environment(c))
  BY DEF TypeOK, RetryNow, RetryLater, WakeUp, StartAttempt, Environment, Invoke, CallerEnds,
         FireTimer
<1> QED BY <1>1, <1>2, <1>3, <1>4 DEF Progress

LEMMA BulkheadStep == SlotInv /\ [Next]_vars => [Promise!Next]_Running
<1> SUFFICES ASSUME SlotInv, [Next]_vars PROVE [Promise!Next]_Running
  OBVIOUS
<1>1. CASE UNCHANGED vars
  BY <1>1 DEF vars, Running
<1>2. ASSUME NEW c \in Calls, Progress(c) \/ Environment(c) PROVE [Promise!Next]_Running
  <2>1. TypeOK /\ \A d \in Calls : d # c => pc'[d] = pc[d]
    BY <1>2, OthersStay DEF SlotInv
  <2>2. CASE pc[c] = "exec" <=> pc'[c] = "exec"
    BY <2>1, <2>2 DEF Running
  <2>3. CASE pc[c] = "exec" /\ pc'[c] # "exec"
    <3>1. c \in Running /\ Running' = Running \ {c}
      BY <2>1, <2>3 DEF Running
    <3>2. Promise!Leave(c)
      BY <3>1 DEF Promise!Leave
    <3> QED BY <3>2 DEF Promise!Next
  <2>4. CASE pc[c] # "exec" /\ pc'[c] = "exec"
    <3>1. c \notin Running /\ Running' = Running \cup {c}
      BY <2>1, <2>4 DEF Running
    <3>2. Execute(c)
      BY <1>2, <2>1, <2>4, EntersByExecute
    <3>3. \A l \in UsesOf[c] : Promise!Load(l) < Limit[l]
      BY <2>4, <3>2, FreeSlotToEnter DEF Execute
    <3>4. Promise!Enter(c)
      BY <3>1, <3>3 DEF Promise!Enter
    <3> QED BY <3>4 DEF Promise!Next
  <2> QED BY <2>2, <2>3, <2>4
<1> QED BY <1>1, <1>2 DEF Next, AllReturned

\* InvokeWithPolicies implements the promise of the concurrency limit: never
\* more than maxInFlight executions through one limiter, in any composition
\* of guards, limiters, retries and user policies, panicking ones included.
THEOREM ImplementsBulkhead == Spec => BulkheadSpec
<1>1. Init => Promise!Init
  BY DEF Init, Promise!Init, Running
<1>2. SlotInv /\ [Next]_vars => [Promise!Next]_Running
  BY BulkheadStep
<1> QED BY <1>1, <1>2, SlotInvariant, PTL DEF Spec, BulkheadSpec, Promise!Spec

\* What the promise says to users: no limiter lets more calls run than it has
\* slots.
THEOREM NeverOverLimit == Spec => []Promise!WithinCapacity
<1>1. Promise!Init => Promise!WithinCapacity
  BY DEF Promise!Init, Promise!WithinCapacity
<1>2. Promise!WithinCapacity /\ [Promise!Next]_Running => Promise!WithinCapacity'
  <2> SUFFICES ASSUME Promise!WithinCapacity, [Promise!Next]_Running,
                      NEW c \in Running', NEW l \in UsesOf[c]
               PROVE  Promise!Load(l)' <= Limit[l]
    BY DEF Promise!WithinCapacity, UsesOf
  <2>1. c \in Calls /\ l \in Policies /\ Limit[l] \in Nat
    <3>1. c \in Calls
      BY DEF Running
    <3> QED BY <3>1, PolicyAssumption DEF UsesOf, Limiters
  <2> DEFINE now == {d \in Running : l \in UsesOf[d]}
             next == {d \in Running' : l \in UsesOf[d]}
  <2>2. IsFiniteSet(now) /\ Cardinality(now) \in Nat
    <3>1. now \subseteq Calls
      BY DEF Running
    <3> QED BY <3>1, CallsAssumption, FS_Subset, FS_CardinalityType
  <2>3. Promise!Load(l) = Cardinality(now)
    BY DEF Promise!Load, Promise!Cardinality, Cardinality
  <2>4. Promise!Load(l)' = Cardinality(next)
    BY DEF Promise!Load, Promise!Cardinality, Cardinality
  <2>5. c \in Running => Cardinality(now) <= Limit[l]
    BY <2>3 DEF Promise!WithinCapacity
  <2>6. CASE UNCHANGED Running
    BY <2>3, <2>4, <2>5, <2>6
  <2>7. ASSUME NEW d \in Calls, Promise!Enter(d) PROVE Cardinality(next) <= Limit[l]
    <3>1. Running' = Running \cup {d} /\ d \notin Running
      BY <2>7 DEF Promise!Enter
    <3>2. CASE l \in UsesOf[d]
      <4>1. next = now \cup {d} /\ d \notin now
        BY <3>1, <3>2
      <4>2. Cardinality(next) = Cardinality(now) + 1
        BY <2>2, <4>1, FS_AddElement
      <4>3. Cardinality(now) < Limit[l]
        BY <2>3, <2>7, <3>2 DEF Promise!Enter
      <4> QED BY <2>1, <2>2, <4>2, <4>3
    <3>3. CASE l \notin UsesOf[d]
      <4>1. next = now /\ c \in Running
        BY <3>1, <3>3
      <4> QED BY <2>5, <4>1
    <3> QED BY <3>2, <3>3
  <2>8. ASSUME NEW d \in Calls, Promise!Leave(d) PROVE Cardinality(next) <= Limit[l]
    <3>1. Running' = Running \ {d}
      BY <2>8 DEF Promise!Leave
    <3>2. next \subseteq now /\ c \in Running
      BY <3>1
    <3>3. Cardinality(next) <= Cardinality(now) /\ Cardinality(next) \in Nat
      BY <2>2, <3>2, FS_Subset, FS_CardinalityType
    <3> QED BY <2>1, <2>2, <2>5, <3>2, <3>3
  <2> QED BY <2>4, <2>6, <2>7, <2>8 DEF Promise!Next
<1> QED BY <1>1, <1>2, ImplementsBulkhead, PTL DEF BulkheadSpec, Promise!Spec
=============================================================================
