---------------------------- MODULE PolicyChain ----------------------------
(***************************************************************************)
(* InvokeWithPolicies (policy.go) with the three built-in policies: the    *)
(* timeout guard (policy_timeout.go), the concurrency limit                *)
(* (policy_bulkhead.go) and the retry policy (policy_retry.go), next to    *)
(* user policies that may fail or panic.  Every call is a goroutine; calls *)
(* that share a client share its policy values, hence its semaphores.      *)
(*                                                                         *)
(* One Before, one After, the start and the end of the guarded function,   *)
(* the retry decision and the end of the back-off are one step each, so    *)
(* calls interleave at each of them, and a context may end between any     *)
(* two.                                                                    *)
(*                                                                         *)
(* Errors are the set of the leaves of the error tree that errors.Join and *)
(* the wrappers build: {} is nil, "canceled" and "deadline" are the two    *)
(* context errors, "transient" a typed error of a retryable kind, "fatal"  *)
(* any other error of the guarded function, "policy" an error a user       *)
(* policy returned.                                                        *)
(***************************************************************************)
EXTENDS Naturals, Sequences, FiniteSets

CONSTANTS
  Calls,           \* the concurrent calls of InvokeWithPolicies
  Policies,        \* the policy values the calls share
  Kind,            \* Kind[p]: which policy p is, "disabled" a guard whose timeout is not positive
  Chain,           \* Chain[c]: the active (non-nil) policies of call c
  MaxChain,        \* no chain is longer than this
  Limit,           \* Limit[p]: the capacity of limiter p
  MaxAttempts,     \* MaxAttempts[p]: maxAttempts of retry policy p
  CallerCtx,       \* CallerCtx[c]: what the context the caller passes can do
  FnOutcomes,      \* how the guarded function may end of its own accord
  BeforeOutcomes,  \* how a user policy's Before may end
  AfterOutcomes,   \* how a user policy's After may end
  UserRetryCap,    \* user policies ask for a retry only below this attempt
  PanicsOnNilCtx   \* calls whose guarded function panics on a nil context

Kinds == {"timeout", "disabled", "limit", "retry", "user"}
Errors == {"canceled", "deadline", "transient", "fatal", "policy"}
Limiters == {p \in Policies : Kind[p] = "limit"}

ASSUME CallsAssumption == IsFiniteSet(Calls)
ASSUME ChainAssumption ==
  /\ MaxChain \in Nat
  /\ Chain \in [Calls -> Seq(Policies)]
  /\ \A c \in Calls : Len(Chain[c]) <= MaxChain
ASSUME PolicyAssumption ==
  /\ Kind \in [Policies -> Kinds]
  /\ Limit \in [Policies -> Nat \ {0}]        \* NewConcurrencyLimitPolicy
  /\ MaxAttempts \in [Policies -> Nat \ {0}]  \* NewRetryPolicy
  /\ UserRetryCap \in Nat
ASSUME EnvironmentAssumption ==
  /\ CallerCtx \in [Calls -> {"background", "cancel", "deadline"}]
  /\ FnOutcomes \subseteq {"ok", "transient", "fatal"}
  /\ BeforeOutcomes \subseteq {"ok", "err", "panic"}
  /\ AfterOutcomes \subseteq {"ok", "err", "panic"}
  /\ PanicsOnNilCtx \subseteq Calls

VARIABLES
  pc,          \* where each call stands
  depth,       \* how many policies are applied and wait for their After
  attempt,     \* the attempt the call is in, 0 before the first
  ctx,         \* the context of the attempt
  err,         \* the error aggregated so far in the attempt
  result,      \* TRUE iff the attempt holds a value of the guarded function
  inFlight,    \* len(sem) of every limiter
  timers,      \* timers of derived contexts that nobody has stopped yet
  callerDone,  \* the state of the context the caller passed
  (* history *)
  opened,      \* how many values the guarded function has produced
  vetoed,      \* TRUE iff an After has failed an attempt that had a value
  late         \* attempts started when the caller's context was over

vars == <<pc, depth, attempt, ctx, err, result, inFlight, timers, callerDone,
          opened, vetoed, late>>
history == <<opened, vetoed, late>>

Final == {"done", "panicked"}
PCs == {"idle", "before", "exec", "after", "unwind", "sleep"} \cup Final

\* A context is nil, or derives from the caller's context or from the
\* background context through the guards installed at some chain positions.
Contexts == [root : {"caller", "background", "nil"}, guards : SUBSET (1..MaxChain)]
CallerContext == [root |-> "caller", guards |-> {}]
NilContext == [root |-> "nil", guards |-> {}]

Normalize(x) == IF x.root = "nil" THEN [x EXCEPT !.root = "background"] ELSE x

\* A guard whose timer is gone while the attempt is running has fired.  Once
\* the caller's context is over the timers below it are stopped (FireTimer),
\* so a fired guard is the first cause and ctx.Err() stays DeadlineExceeded.
CtxErr(c, x) ==
  IF \E g \in x.guards : <<attempt[c], g>> \notin timers[c] THEN {"deadline"}
  ELSE IF x.root = "caller" /\ callerDone[c] # "live" THEN {callerDone[c]}
  ELSE {}

HasDeadline(c, x) ==
  x.guards # {} \/ (x.root = "caller" /\ CallerCtx[c] = "deadline")

Init ==
  /\ pc = [c \in Calls |-> "idle"]
  /\ depth = [c \in Calls |-> 0]
  /\ attempt = [c \in Calls |-> 0]
  /\ ctx = [c \in Calls |-> CallerContext]
  /\ err = [c \in Calls |-> {}]
  /\ result = [c \in Calls |-> FALSE]
  /\ inFlight = [p \in Policies |-> 0]
  /\ timers = [c \in Calls |-> {}]
  /\ callerDone = [c \in Calls |-> "live"]
  /\ opened = [c \in Calls |-> 0]
  /\ vetoed = [c \in Calls |-> FALSE]
  /\ late = [c \in Calls |-> 0]

-----------------------------------------------------------------------------
(* The head of the loop: every attempt starts from the caller's context.   *)

\* Faulty variant: the attempt counter is never advanced.
StartAttemptUncounted(c) ==
  /\ pc' = [pc EXCEPT ![c] = "before"]
  /\ ctx' = [ctx EXCEPT ![c] = CallerContext]
  /\ err' = [err EXCEPT ![c] = {}]
  /\ result' = [result EXCEPT ![c] = FALSE]
  /\ late' = [late EXCEPT ![c] = IF callerDone[c] = "live" THEN @ ELSE @ + 1]
  /\ UNCHANGED <<depth, attempt, inFlight, timers, callerDone, opened, vetoed>>

StartAttempt(c) ==
  /\ pc' = [pc EXCEPT ![c] = "before"]
  /\ attempt' = [attempt EXCEPT ![c] = @ + 1]
  /\ ctx' = [ctx EXCEPT ![c] = CallerContext]
  /\ err' = [err EXCEPT ![c] = {}]
  /\ result' = [result EXCEPT ![c] = FALSE]
  /\ late' = [late EXCEPT ![c] = IF callerDone[c] = "live" THEN @ ELSE @ + 1]
  /\ UNCHANGED <<depth, inFlight, timers, callerDone, opened, vetoed>>

Invoke(c) == pc[c] = "idle" /\ StartAttempt(c)

-----------------------------------------------------------------------------
(* applyBeforePolicies: one Before after the other, in chain order.        *)

NextKind(c, kind) ==
  /\ pc[c] = "before"
  /\ depth[c] < Len(Chain[c])
  /\ Kind[Chain[c][depth[c] + 1]] = kind

\* The policy is applied and x is the context it hands on.
Applied(c, x) ==
  /\ depth' = [depth EXCEPT ![c] = @ + 1]
  /\ ctx' = [ctx EXCEPT ![c] = x]
  /\ UNCHANGED <<pc, attempt, err, result, callerDone, history>>

\* Faulty variant: a policy whose Before failed counts as applied.
BeforeFailsApplied(c, e) ==
  /\ pc' = [pc EXCEPT ![c] = "unwind"]
  /\ depth' = [depth EXCEPT ![c] = @ + 1]
  /\ err' = [err EXCEPT ![c] = e]
  /\ UNCHANGED <<attempt, ctx, result, inFlight, timers, callerDone, history>>

\* Before returned an error: the policy is not applied, its context is
\* dropped, and the applied ones are unwound without a retry decision.
BeforeFails(c, e) ==
  /\ pc' = [pc EXCEPT ![c] = "unwind"]
  /\ err' = [err EXCEPT ![c] = e]
  /\ UNCHANGED <<depth, attempt, ctx, result, inFlight, timers, callerDone, history>>

RetryBefore(c) ==
  /\ NextKind(c, "retry")
  /\ Applied(c, ctx[c])
  /\ UNCHANGED <<inFlight, timers>>

\* A guard without a timeout leaves the context as it is.
TimeoutBeforeDisabled(c) ==
  /\ NextKind(c, "disabled")
  /\ Applied(c, Normalize(ctx[c]))
  /\ UNCHANGED <<inFlight, timers>>

\* Faulty variant: the second result of ctx.Deadline is not asked, and the zero
\* time of a parent without a deadline is taken for one that is long past.
TimeoutBeforeKeepsAny(c) ==
  /\ NextKind(c, "timeout")
  /\ Applied(c, Normalize(ctx[c]))
  /\ UNCHANGED <<inFlight, timers>>

\* The parent's own deadline is at most the guard's timeout away: keep it.
TimeoutBeforeKeeps(c) ==
  /\ NextKind(c, "timeout")
  /\ HasDeadline(c, Normalize(ctx[c]))
  /\ Applied(c, Normalize(ctx[c]))
  /\ UNCHANGED <<inFlight, timers>>

\* The parent is looser or has no deadline: derive a context with a timer.
TimeoutBeforeInstalls(c) ==
  /\ NextKind(c, "timeout")
  /\ LET x == Normalize(ctx[c])
         k == depth[c] + 1
     IN  /\ Applied(c, [x EXCEPT !.guards = @ \cup {k}])
         /\ timers' = [timers EXCEPT ![c] = @ \cup {<<attempt[c], k>>}]
  /\ UNCHANGED inFlight

\* Faulty variant: one slot too many.
AcquireSlotOffByOne(c) ==
  /\ NextKind(c, "limit")
  /\ LET p == Chain[c][depth[c] + 1]
     IN  /\ inFlight[p] <= Limit[p]
         /\ inFlight' = [inFlight EXCEPT ![p] = @ + 1]
  /\ Applied(c, Normalize(ctx[c]))
  /\ UNCHANGED timers

\* select: a free slot of the semaphore ...
AcquireSlot(c) ==
  /\ NextKind(c, "limit")
  /\ LET p == Chain[c][depth[c] + 1]
     IN  /\ inFlight[p] < Limit[p]
         /\ inFlight' = [inFlight EXCEPT ![p] = @ + 1]
  /\ Applied(c, Normalize(ctx[c]))
  /\ UNCHANGED timers

\* ... or the end of the context; Go picks either when both are ready.
AcquireCanceled(c) ==
  /\ NextKind(c, "limit")
  /\ CtxErr(c, Normalize(ctx[c])) # {}
  /\ BeforeFails(c, CtxErr(c, Normalize(ctx[c])))

\* callPolicyBefore has unnamed results, so a recovered panic makes it return
\* (nil, nil): the policy counts as applied and the context is lost.
UserBefore(c) ==
  /\ NextKind(c, "user")
  /\ \/ /\ "ok" \in BeforeOutcomes
        /\ Applied(c, ctx[c])
        /\ UNCHANGED <<inFlight, timers>>
     \/ /\ "err" \in BeforeOutcomes
        /\ BeforeFails(c, {"policy"})
     \/ /\ "panic" \in BeforeOutcomes
        /\ Applied(c, NilContext)
        /\ UNCHANGED <<inFlight, timers>>

-----------------------------------------------------------------------------
(* The guarded function.                                                   *)

Execute(c) ==
  /\ pc[c] = "before"
  /\ depth[c] = Len(Chain[c])
  /\ pc' = [pc EXCEPT ![c] = "exec"]
  /\ UNCHANGED <<depth, attempt, ctx, err, result, inFlight, timers, callerDone, history>>

FnEnds(c, value, e) ==
  /\ pc[c] = "exec"
  /\ ~(c \in PanicsOnNilCtx /\ ctx[c].root = "nil")
  /\ pc' = [pc EXCEPT ![c] = "after"]
  /\ result' = [result EXCEPT ![c] = value]
  /\ err' = [err EXCEPT ![c] = e]
  /\ opened' = [opened EXCEPT ![c] = IF value THEN @ + 1 ELSE @]
  /\ UNCHANGED <<depth, attempt, ctx, inFlight, timers, callerDone, vetoed, late>>

FnReturns(c) ==
  \/ "ok" \in FnOutcomes /\ FnEnds(c, TRUE, {})
  \/ \E e \in FnOutcomes \ {"ok"} : FnEnds(c, FALSE, {e})
  \/ CtxErr(c, ctx[c]) # {} /\ FnEnds(c, FALSE, CtxErr(c, ctx[c]))

\* A panic of the guarded function is not recovered: no After runs.
FnPanics(c) ==
  /\ pc[c] = "exec"
  /\ c \in PanicsOnNilCtx
  /\ ctx[c].root = "nil"
  /\ pc' = [pc EXCEPT ![c] = "panicked"]
  /\ UNCHANGED <<depth, attempt, ctx, err, result, inFlight, timers, callerDone, history>>

-----------------------------------------------------------------------------
(* applyAfterPolicies: the applied policies in reverse order, every one of *)
(* them whatever the others return, all with the context of the attempt.   *)

LastKind(c, kind) ==
  /\ pc[c] \in {"after", "unwind"}
  /\ depth[c] > 0
  /\ Kind[Chain[c][depth[c]]] = kind

Unapply(c) ==
  /\ depth' = [depth EXCEPT ![c] = @ - 1]
  /\ UNCHANGED <<pc, attempt, ctx, result, callerDone, opened, late>>

RetryAfter(c) ==
  /\ LastKind(c, "retry")
  /\ Unapply(c)
  /\ UNCHANGED <<err, inFlight, timers, vetoed>>

\* Faulty variant: After forgets to call the cancel function.
TimeoutAfterKeepsTimer(c) ==
  /\ LastKind(c, "timeout")
  /\ Unapply(c)
  /\ UNCHANGED <<err, inFlight, timers, vetoed>>

\* ctx.Value finds the cancel function of the innermost guard that has derived
\* a context, if any, be it another than this one.
TimeoutAfter(c) ==
  /\ LastKind(c, "timeout") \/ LastKind(c, "disabled")
  /\ Unapply(c)
  /\ timers' = [timers EXCEPT ![c] =
       @ \ {<<attempt[c], g>> : g \in {g \in ctx[c].guards : \A h \in ctx[c].guards : h <= g}}]
  /\ UNCHANGED <<err, inFlight, vetoed>>

\* select with a default: releasing an empty semaphore does nothing.
ReleaseSlot(c) ==
  /\ LastKind(c, "limit")
  /\ Unapply(c)
  /\ LET p == Chain[c][depth[c]]
     IN  inFlight' = [inFlight EXCEPT ![p] = IF @ > 0 THEN @ - 1 ELSE 0]
  /\ UNCHANGED <<err, timers, vetoed>>

\* callPolicyAfter swallows a panic and joins an error to the others.
UserAfter(c) ==
  /\ LastKind(c, "user")
  /\ Unapply(c)
  /\ \/ /\ AfterOutcomes \cap {"ok", "panic"} # {}
        /\ UNCHANGED <<err, vetoed>>
     \/ /\ "err" \in AfterOutcomes
        /\ err' = [err EXCEPT ![c] = @ \cup {"policy"}]
        /\ vetoed' = [vetoed EXCEPT ![c] = @ \/ result[c]]
  /\ UNCHANGED <<inFlight, timers>>

-----------------------------------------------------------------------------
(* The retry decision and the back-off.                                    *)

\* defaultRetryable: a cancellation anywhere in the error tree wins.
Retryable(e) == "canceled" \notin e /\ e \cap {"deadline", "transient"} # {}

\* Faulty variant: the caller's context is not asked.
ShouldRetryBlind(c, p) ==
  /\ Kind[p] = "retry"
  /\ attempt[c] < MaxAttempts[p]
  /\ Retryable(err[c])

\* (*retryPolicy).ShouldRetry, on the caller's context.
ShouldRetry(c, p) ==
  /\ Kind[p] = "retry"
  /\ attempt[c] < MaxAttempts[p]
  /\ callerDone[c] = "live"
  /\ Retryable(err[c])

\* A user policy may be a RetryDecider too; one that panics asks for nothing.
UserMayRetry(c, p) == Kind[p] = "user" /\ attempt[c] < UserRetryCap

InChain(c) == {Chain[c][k] : k \in 1..Len(Chain[c])}

AttemptOver(c) == pc[c] \in {"after", "unwind"} /\ depth[c] = 0

Return(c, e) ==
  /\ pc' = [pc EXCEPT ![c] = "done"]
  /\ err' = [err EXCEPT ![c] = e]
  /\ UNCHANGED <<depth, attempt, ctx, result, inFlight, timers, callerDone, history>>

\* Nil error, failed Before, or no policy asks for a retry.
Finish(c) ==
  /\ AttemptOver(c)
  /\ \/ pc[c] = "unwind"
     \/ err[c] = {}
     \/ \A p \in InChain(c) : ~ShouldRetry(c, p)
  /\ Return(c, err[c])

\* Faulty variant: the deciders are asked after a success too.
WantsRetryOnSuccess(c) ==
  /\ AttemptOver(c)
  /\ pc[c] = "after"
  /\ \E p \in InChain(c) : ShouldRetry(c, p) \/ UserMayRetry(c, p)

WantsRetry(c) ==
  /\ AttemptOver(c)
  /\ pc[c] = "after"
  /\ err[c] # {}
  /\ \E p \in InChain(c) : ShouldRetry(c, p) \/ UserMayRetry(c, p)

\* sleepWithContext does not look at the context when the delay is zero.
RetryNow(c) == WantsRetry(c) /\ StartAttempt(c)

RetryLater(c) ==
  /\ WantsRetry(c)
  /\ pc' = [pc EXCEPT ![c] = "sleep"]
  /\ UNCHANGED <<depth, attempt, ctx, err, result, inFlight, timers, callerDone, history>>

\* Faulty variant: the wait reports ctx.Err() of a context that lives on.
SleepCanceledAnyway(c) ==
  /\ pc[c] = "sleep"
  /\ Return(c, err[c] \cup {callerDone[c]})

\* select: the timer, or the end of the caller's context; either if both.
WakeUp(c) == pc[c] = "sleep" /\ StartAttempt(c)

SleepCanceled(c) ==
  /\ pc[c] = "sleep"
  /\ callerDone[c] # "live"
  /\ Return(c, err[c] \cup {callerDone[c]})

-----------------------------------------------------------------------------
(* The environment: time passes and callers give up.                       *)

CallerEnds(c, why) ==
  /\ pc[c] \notin Final
  /\ callerDone[c] = "live"
  /\ CallerCtx[c] \in (IF why = "deadline" THEN {"deadline"} ELSE {"cancel", "deadline"})
  /\ callerDone' = [callerDone EXCEPT ![c] = why]
  /\ UNCHANGED <<pc, depth, attempt, ctx, err, result, inFlight, timers, history>>

\* A timer fires, unless the end of the parent context has stopped it.
FireTimer(c) ==
  /\ ctx[c].root = "caller" => callerDone[c] = "live"
  /\ \E t \in timers[c] : timers' = [timers EXCEPT ![c] = @ \ {t}]
  /\ UNCHANGED <<pc, depth, attempt, ctx, err, result, inFlight, callerDone, history>>

-----------------------------------------------------------------------------

Before(c) ==
  \/ RetryBefore(c)
  \/ TimeoutBeforeDisabled(c) \/ TimeoutBeforeKeeps(c) \/ TimeoutBeforeInstalls(c)
  \/ AcquireSlot(c) \/ AcquireCanceled(c) \/ UserBefore(c)

After(c) == RetryAfter(c) \/ TimeoutAfter(c) \/ ReleaseSlot(c) \/ UserAfter(c)

\* The steps of the goroutine itself.
Progress(c) ==
  \/ Before(c) \/ Execute(c) \/ FnReturns(c) \/ FnPanics(c) \/ After(c)
  \/ Finish(c) \/ RetryNow(c) \/ RetryLater(c) \/ WakeUp(c) \/ SleepCanceled(c)

Environment(c) ==
  Invoke(c) \/ CallerEnds(c, "canceled") \/ CallerEnds(c, "deadline") \/ FireTimer(c)

\* Every call has returned: the system may rest.
AllReturned == (\A c \in Calls : pc[c] \in Final) /\ UNCHANGED vars

Next == (\E c \in Calls : Progress(c) \/ Environment(c)) \/ AllReturned

Spec == Init /\ [][Next]_vars

\* A goroutine that can move moves; a timer that is not stopped fires, that of
\* a deadline the caller has set too.  A blocked sender of a Go channel is
\* served in FIFO order, so one that finds a slot free again and again gets it
\* (strong fairness).
Fairness ==
  \A c \in Calls :
    /\ WF_vars(Progress(c))
    /\ SF_vars(AcquireSlot(c))
    /\ WF_vars(FireTimer(c)) /\ WF_vars(CallerEnds(c, "deadline"))

FairSpec == Spec /\ Fairness

-----------------------------------------------------------------------------

TypeOK ==
  /\ pc \in [Calls -> PCs]
  /\ depth \in [Calls -> 0..MaxChain]
  /\ attempt \in [Calls -> Nat]
  /\ ctx \in [Calls -> Contexts]
  /\ err \in [Calls -> SUBSET Errors]
  /\ result \in [Calls -> BOOLEAN]
  /\ inFlight \in [Policies -> Nat]
  /\ timers \in [Calls -> SUBSET (Nat \X (1..MaxChain))]
  /\ callerDone \in [Calls -> {"live", "canceled", "deadline"}]
  /\ opened \in [Calls -> Nat]
  /\ vetoed \in [Calls -> BOOLEAN]
  /\ late \in [Calls -> Nat]

\* The slots of limiter p in use: one for every applied chain position that
\* is p and whose After has not run.
Holders(p) ==
  {h \in Calls \X (1..MaxChain) : h[2] <= depth[h[1]] /\ Chain[h[1]][h[2]] = p}

\* The semaphore counts exactly the slots in use, through failed Befores,
\* retries and panics: no slot is released twice (the select default in After
\* hides that) and none without its holder.
SlotConservation ==
  \A p \in Limiters : inFlight[p] = Cardinality(Holders(p)) /\ inFlight[p] <= Limit[p]

\* Chains with at most one timeout guard that is not disabled.
OneGuard(c) ==
  \A j, k \in 1..Len(Chain[c]) :
    Kind[Chain[c][j]] = "timeout" /\ Kind[Chain[c][k]] = "timeout" => j = k

\* A call that waits for its next attempt or has returned holds no slot, and
\* no policy waits for its After: a back-off never starves the other calls.
\* Nor does a timer of its guard go on, as long as no panic has lost the
\* context the guard had put its cancel function into.
NothingHeldAtRest ==
  \A c \in Calls : pc[c] \in {"idle", "sleep", "done"} =>
    /\ depth[c] = 0
    /\ "panic" \notin BeforeOutcomes /\ OneGuard(c) => timers[c] = {}

\* The call goes through at most this many attempts.
AttemptsBounded ==
  \A c \in Calls :
    attempt[c] > 1 =>
      \E p \in InChain(c) :
        \/ Kind[p] = "retry" /\ attempt[c] <= MaxAttempts[p]
        \/ Kind[p] = "user" /\ attempt[c] <= UserRetryCap

\* Cancelling the caller's context stops the retries: without user deciders
\* at most one attempt starts afterwards (the timer of the back-off may win
\* the race against the cancellation once).
AtMostOneLateAttempt == UserRetryCap = 0 => \A c \in Calls : late[c] <= 1

\* Retries end: with the attempts the policies allow, and soon after the
\* caller's context whatever they allow.
RetriesEnd == AttemptsBounded /\ AtMostOneLateAttempt

\* Behind a guard that is not disabled no call waits for a slot without an end
\* in sight: its wait is over, or a timer of this attempt or the deadline of its
\* caller will end it.  So limiters that calls take in different orders cannot
\* block for ever what stands behind such a guard (unless a panic has lost the
\* guard's context).  A disabled guard promises nothing.
WaitsAreTimed ==
  \A c \in Calls :
    /\ "panic" \notin BeforeOutcomes
    /\ NextKind(c, "limit")
    /\ \E k \in 1..depth[c] : Kind[Chain[c][k]] = "timeout"
    => \/ CtxErr(c, ctx[c]) # {}
       \/ \E g \in ctx[c].guards : <<attempt[c], g>> \in timers[c]
       \/ ctx[c].root = "caller" /\ callerDone[c] = "live" /\ CallerCtx[c] = "deadline"

\* A value of the guarded function (a connection, say) is dropped only if an
\* After failed the attempt that produced it: a retry never redoes a success.
DroppedOnlyIfVetoed ==
  \A c \in Calls :
    /\ opened[c] > (IF result[c] THEN 1 ELSE 0) => vetoed[c]
    /\ pc[c] = "done" /\ result[c] /\ err[c] # {} => vetoed[c]

\* The guarded function gets a context that ends when the caller's does, even
\* if the Before of a user policy panicked on the way.
FnKeepsCallerContext == \A c \in Calls : pc[c] = "exec" => ctx[c].root = "caller"

\* Every call that starts returns.
Terminates == \A c \in Calls : pc[c] = "before" ~> pc[c] = "done"

-----------------------------------------------------------------------------

\* The limiters keep the promise of Bulkhead.
Running == {c \in Calls : pc[c] = "exec"}
UsesOf == [c \in Calls |-> InChain(c) \cap Limiters]

Promise == INSTANCE Bulkhead
             WITH Callers <- Calls, Uses <- UsesOf, Capacity <- Limit, running <- Running

BulkheadSpec == Promise!Spec
=============================================================================
