---------------------------- MODULE TimeoutGuard ----------------------------
(***************************************************************************)
(* The timeout guard (policy_timeout.go) when guarded calls are nested: the *)
(* function of one InvokeWithPolicies calls InvokeWithPolicies again with   *)
(* the context it was given (a client used inside another client's call).  *)
(* Level n is the call nested n - 1 deep; each has a guard of its own and  *)
(* may be called again and again.  Time is a counter, and it may advance   *)
(* between the guard's look at the parent's deadline and the derivation.   *)
(***************************************************************************)
EXTENDS Naturals, FiniteSets

CONSTANTS
  Depth,           \* how deep calls are nested
  Timeout,         \* Timeout[n]: the guard's timeout, 0 when it is disabled
  CallerDeadlines, \* {} or the deadline of the context the caller passes
  MaxTime          \* bound on the clock

Levels == 1..Depth

ASSUME GuardAssumption ==
  /\ Depth \in Nat \ {0}
  /\ Timeout \in [Levels -> Nat]
  /\ CallerDeadlines \in SUBSET Nat
  /\ MaxTime \in Nat

VARIABLES
  now,        \* the clock
  top,        \* the level whose function is running, 0 for the caller
  looked,     \* TRUE iff the next guard has found its parent looser
  ctx,        \* ctx[n]: the context the function of level n runs with
  entered,    \* when Before of level n returned
  cancelled   \* the guards whose derived context has been cancelled

vars == <<now, top, looked, ctx, entered, cancelled>>

\* A context is known by the deadlines set on it and on its parents (Deadline
\* is the least of them), by the guards that derived it, and by the guard
\* whose cancel function ctx.Value(timeoutCancelKey{}) finds, 0 if none does.
Contexts == [deadlines : SUBSET Nat, guards : SUBSET Levels, key : 0..Depth]

CallerCtx == [deadlines |-> CallerDeadlines, guards |-> {}, key |-> 0]
Parent == IF top = 0 THEN CallerCtx ELSE ctx[top]

Expired(x) == \E d \in x.deadlines : d <= now
Done(x) == Expired(x) \/ x.guards \cap cancelled # {}

Init ==
  /\ now = 0
  /\ top = 0
  /\ looked = FALSE
  /\ ctx = [n \in Levels |-> CallerCtx]
  /\ entered = [n \in Levels |-> 0]
  /\ cancelled = {}

\* Before returns x and the function of the next level starts.
Enter(x) ==
  /\ top' = top + 1
  /\ ctx' = [ctx EXCEPT ![top + 1] = x]
  /\ entered' = [entered EXCEPT ![top + 1] = now]
  /\ looked' = FALSE
  /\ UNCHANGED now

\* The guard is disabled, or the parent's deadline is at most Timeout away.
Keeps(n) == Timeout[n] = 0 \/ \E d \in Parent.deadlines : d <= now + Timeout[n]

\* Faulty variant: a parent with a deadline is kept however far it is.
KeepAnyDeadline ==
  /\ top < Depth /\ ~looked
  /\ Timeout[top + 1] = 0 \/ Parent.deadlines # {}
  /\ Enter(Parent)
  /\ UNCHANGED cancelled

Keep ==
  /\ top < Depth /\ ~looked
  /\ Keeps(top + 1)
  /\ Enter(Parent)
  /\ UNCHANGED cancelled

Look ==
  /\ top < Depth /\ ~looked
  /\ ~Keeps(top + 1)
  /\ looked' = TRUE
  /\ UNCHANGED <<now, top, ctx, entered, cancelled>>

\* Faulty variant: the new context is derived from the background context.
DeriveDetached ==
  /\ looked
  /\ Enter([deadlines |-> {now + Timeout[top + 1]}, guards |-> {top + 1}, key |-> top + 1])
  /\ cancelled' = cancelled \ {top + 1}

\* context.WithTimeout, and the cancel function put under the key.
Derive ==
  /\ looked
  /\ Enter([deadlines |-> Parent.deadlines \cup {now + Timeout[top + 1]},
            guards |-> Parent.guards \cup {top + 1},
            key |-> top + 1])
  /\ cancelled' = cancelled \ {top + 1}

\* Faulty variants: After cancels only a context that has expired; it
\* calls what it finds without the nil check.
ReturnExpired ==
  /\ top > 0 /\ ~looked
  /\ top' = top - 1
  /\ cancelled' = IF Expired(ctx[top]) THEN cancelled \cup ({ctx[top].key} \ {0}) ELSE cancelled
  /\ UNCHANGED <<now, looked, ctx, entered>>

ReturnUnchecked ==
  /\ top > 0 /\ ~looked
  /\ top' = top - 1
  /\ cancelled' = cancelled \cup {ctx[top].key}
  /\ UNCHANGED <<now, looked, ctx, entered>>

\* The function of the innermost call returns and After cancels what it finds.
Return ==
  /\ top > 0 /\ ~looked
  /\ top' = top - 1
  /\ cancelled' = cancelled \cup ({ctx[top].key} \ {0})
  /\ UNCHANGED <<now, looked, ctx, entered>>

Tick ==
  /\ now < MaxTime
  /\ now' = now + 1
  /\ UNCHANGED <<top, looked, ctx, entered, cancelled>>

Next == Keep \/ Look \/ Derive \/ Return \/ Tick

Spec == Init /\ [][Next]_vars

-----------------------------------------------------------------------------

TypeOK ==
  /\ now \in Nat
  /\ top \in 0..Depth
  /\ looked \in BOOLEAN
  /\ ctx \in [Levels -> Contexts]
  /\ entered \in [Levels -> Nat]
  /\ cancelled \in SUBSET Levels

\* A guarded function never runs longer than the guard's timeout with a live
\* context, whatever the deadlines around it and wherever the clock moved.
Guarded ==
  \A n \in 1..top :
    Timeout[n] > 0 /\ now >= entered[n] + Timeout[n] => Done(ctx[n])

\* A context ends no later than the one it was derived from: a nested call
\* cannot outlive the calls around it.
EndsWithParent ==
  \A n \in 1..top : \A m \in 1..n : Done(ctx[m]) => Done(ctx[n])

\* No derived context, hence no timer, outlives the call that derived it.
CancelledOnReturn ==
  \A n \in Levels : n > top /\ n \in ctx[n].guards => n \in cancelled

\* A running function's context is ended by a deadline alone: the guard of a
\* nested call that left a tighter parent alone does not end the parent.
OwnCancelOnly == \A n \in 1..top : ctx[n].guards \cap cancelled = {}
=============================================================================
