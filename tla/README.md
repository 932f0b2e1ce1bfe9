# clientx in TLA+

A verification development for `github.com/arcgolabs/clientx`, a Go library that
gives HTTP, TCP and UDP clients one set of policies (timeout, concurrency limit,
retry), one error type, one set of hooks and typed codec connections.

The modules are specifications of the code under `src/`; `MC*.tla` and `*.cfg`
instantiate them for TLC, `*Proofs.tla` holds proofs that TLAPS checks.
`PROJECT.json` maps every definition to the lines it stands for and lists the
runs, the hazards of the code and the theorems.

    tlc -config chain_crossed.cfg MCPolicyChain.tla     # model-check a run
    tlapm PolicyChainProofs.tla                         # check proofs

## 1. Inventory

| Component | Code | State it keeps | Operations |
|---|---|---|---|
| policy chain | `policy.go`, `append.go` | per call: attempt number, contexts, applied policies, aggregated error | `InvokeWithPolicies`: Before in order, the guarded function, After in reverse order, retry decision, back-off |
| concurrency limit | `policy_bulkhead.go` | a semaphore channel shared by all calls of a client | Before sends (blocking, or until the context ends), After receives with a `default` branch |
| timeout guard | `policy_timeout.go` | a cancel function inside the context | Before derives a context unless the parent is tighter, After calls the cancel function it finds |
| retry policy | `policy_retry.go`, `cfg.go`, part of `http/cfg.go` | immutable settings | ShouldRetry, exponential back-off with cap and jitter, `defaultRetryable` |
| error model | `error.go` | errors are immutable trees | classify, wrap, `KindOf`, `IsKind`, `Timeout` |
| hooks | `hook.go`, `hook_logging.go`, `hook_observability.go` | a list of hooks per client | emit a dial or I/O event to each, recovering panics |
| clients | `http/client.go`, `tcp/client.go`, `udp/client.go` | configuration, hooks, policies | `Execute`, `Dial`, `DialCodec`, `ListenPacket`, `ListenPacketCodec`, `Close` |
| deadline connections | `tcp/conn.go`, `udp/conn.go` | the deadlines of the connection underneath | `Read`, `Write`, `ReadFrom`, `WriteTo`, each setting its deadline first |
| framing | `codec/framer.go`, `tcp/codec_conn.go` | none of its own: the position in the byte stream is implicit | `WriteFrame`, `ReadFrame`, `WriteValue`, `ReadValue`, `Close` |
| datagram codecs | `udp/codec_conn.go` | none | `ReadValueFrom`, `WriteValueTo`, `ReadValue`, `WriteValue`, `Close`: one value per datagram |
| codec registry | `codec/registry.go` and the codecs | a concurrent map from normalised names to codecs | `Register`, `Get`, `GetOption`, `Must`, `Names` |
| presets | `preset/` | options | three ready-made clients: defaults, option hooks, the policy chain |
| configuration, options | `*/cfg.go`, `*/options.go`, `apply.go`, `capability.go` | configuration records | normalise and validate, set fields |
| examples | `examples/` | | demonstration programs |

**How they interact.** A client operation calls `InvokeWithPolicies` with its
policies and a function. The function runs once per attempt, with the context
the Befores made; it reaches the transport, wraps its error (`WrapError`) and
tells the hooks. Policies talk to each other through the context (the guard's
cancel function is a context value), through the error (an After may fail an
attempt, `defaultRetryable` reads the kind of the error) and, between
goroutines, through the limiter's semaphore. A dialled connection is wrapped in
a deadline connection and, in the codec variants, in a `CodecConn` over a framer.

**What is hard.** Calls of many goroutines meet at the limiters while contexts
end and timers fire at any moment; a Before, an After or the function may fail
or panic between two acquisitions; the end of a context races the back-off;
contexts of nested guards are found by the wrong guard; deadlines belong to
connections and not to calls, and goroutines share them; codecs are registered
while others look them up; a frame is two writes and at least two reads, each
of which may fail half way; an error is wrapped and joined many times before
someone asks for its kind; powers, jitter and `MaxRetries+1` overflow.

**What makes each component correct.**

- chain: what was applied is unapplied, exactly once and in reverse; attempts
  are bounded; a success is not repeated; nothing is held during a back-off; a
  call returns, and soon after its caller's context has ended
- limiter: never more than its capacity inside; the semaphore counts its holders
- guard: no function outlasts its timeout with a live context; a call ends no
  context but its own; no timer outlives its call
- retry: waits between zero and the cap, never hot, never shorter than before
- errors: the kind fits the cause and survives wrapping and joining; a
  cancellation is final
- hooks: all hear the same; a panic silences nobody
- clients: the transport watches the attempt's context; no connection is lost
- deadline connections: a call waits under a deadline never further away than its
  timeout, and does not time out before that under a deadline of its own
- datagram codecs: a value is handed to one call, whole, with its sender's address
  and in the order of the socket; a failed call takes nothing; every error has a kind
- codec registry: the first registration of a name wins, the others are told so, and
  what a name means never changes
- framing: the stream stays in step, frames come out whole and in order

## 2. Modules

| Module | Models | State and how it corresponds to the code |
|---|---|---|
| `PolicyChain` | `InvokeWithPolicies` of several goroutines with guard, limiter, retry and user policies | `pc` is the place in the loop, `depth` is `len(applied)`, `attempt`, `ctx`, `err`, `result` are the locals `attempt`, `opCtx`, `aggErr`, `result`; `inFlight` is `len(sem)`; `timers` are the runtime timers of derived contexts; `callerDone` is `ctx.Err()` of the caller's context |
| `Bulkhead` | what a concurrency limit promises | `running`: the calls inside the guarded function. `PolicyChain` implements it (`BulkheadSpec`) |
| `TimeoutGuard` | guards of nested calls, with a clock | `ctx[n]`: the context of the function at depth n, with all deadlines set on it, the guards that derived it, and the guard that `ctx.Value(timeoutCancelKey{})` finds |
| `RetryBackoff` | `NewRetryPolicy`, `backoffDelay`, the policy of `http.New` | `policy` is the `retryPolicy` struct; `wait` the delay of the last decision |
| `ErrorClass` | `error.go` and `defaultRetryable` | `err` is the error tree as the sequence of nodes in the order of `errors.Is`/`errors.As` |
| `CodecRegistry` | `codec/registry.go`: the concurrent map and what `Register` answers | `codecs`: the codec bound to each normalised name; `registered`: the result of each Register |
| `ClientCall` | Execute, Dial, ListenPacket with codecs, hooks and retries; EXTENDS `CodecRegistry`, where goroutines go on registering while callers look their codec up | `setContext` is what `req.SetContext` left in a request; `codec` what the look-up gave the caller; `open` the open connections; `heard` what every hook was told |
| `TimeoutConn` | `runIO`/`applyDeadline` of tcp and udp, any number of goroutines in each direction | `deadline` is the connection's read and write deadline, as ticks left; `setter` (history) the goroutine that set it last |
| `Datagrams` | `CodecPacketConn` and `CodecConn` of udp over `TimeoutConn`, which it EXTENDS, and a socket | `inbox` is the socket's receive buffer; `result` the kind of the error and the value a call gave |
| `DatagramQueue` | what a datagram codec connection promises | `queued`, `open`, `handed`. `Datagrams` implements it (`DatagramSpec`) |
| `LengthPrefixed` | `WriteFrame`/`ReadFrame` and the codec connection over a bounded byte stream | `left` is the rest of the current Write call, `fdLock` the write lock that net.Conn holds for a call, `wire` the kernel buffers, `need` and `buf` the state of `io.ReadFull` |
| `Presets` | `NewEdgeHTTP`, `NewInternalRPC`, `NewLowLatencyUDP` with their options, tuning, validation and the policies the client ends up with | `preset` is the preset struct that options change, `given` the caller's configuration, `client` the timeouts and the policy list of the client |
| `FrameChannel` | what a codec connection promises | frames `sent` and `received`. `LengthPrefixed` implements it (`ChannelSpec`) |

`MCPolicyChain`, `MCTimeoutGuard`, `MCRetryBackoff`, `MCErrorClass`,
`MCClientCall`, `MCDatagrams`, `MCLengthPrefixed` and `MCPresets` hold the instances;
`PolicyChainProofs`, `TimeoutGuardProofs`, `RetryBackoffProofs`, `ErrorClassProofs`,
`ConnectionProofs` (of `TimeoutConn` and `Datagrams`), `LengthPrefixedProofs`,
`ClientCallProofs` and `PresetsProofs` the theorems.
Next to the definitions that model code some modules have *faulty variants*, so
commented: the same definition with a plausible bug. Nothing uses them; put in
the place of the real definition each makes the property it is listed with in
`PROJECT.json` fail.

**Granularity.** A step is a stretch of code between two points where another
goroutine, a timer or the caller can be noticed: each Before, each After, start
and end of the guarded function, the decision after the Afters, the end of the
back-off; in the framer one byte accepted or read; in a deadline connection the
computing of the deadline, the setting of it and the end of the call underneath;
in a client one hook told of an event; in the registry one `GetOrStore` or `Get`.
What lies between touches only locals.

**Abstractions worth knowing.**

- Errors in `PolicyChain` are the set of the leaves of the joined error; the
  nodes and their order are in `ErrorClass`.
- `PolicyChain` has no clock: a timer or a context ends at any time.
  `TimeoutGuard` has one, and there `timeout <= 0` and the look at the parent's
  deadline are exact. In `PolicyChain` a guard with `timeout <= 0` is a policy of
  its own kind, `disabled`: its Before leaves the context alone, and its After
  still calls whatever cancel function the context carries. Nil policies are
  filtered before `Chain` begins.
- A user policy's Before may succeed, fail or panic, its After may succeed, fail
  or panic (recovered), its decider may ask for a retry below a bound
  (`UserRetryCap`): the code sets none, and without one a call need not end.
- The functions of `RetryBackoff` are on integers of `Width` bits; what a float
  too large for the type converts to is left to the platform (least or greatest
  integer). Multipliers are whole; NaN and rounding are not modelled.
- Message text in `ErrorClass` is reduced to which phrases `classifyMessageError`
  looks for. Nothing in the package makes an error of kind `temporary`.
- `LengthPrefixed` has one reader per connection and no nil framers (`ClientCall`
  refuses them). A header read out of step decodes to any length. Which frames the
  codec makes a value of is the reader's choice of T (`rejects` of a `Habit`): a
  whole frame, an empty one too, may fail to decode, and it is consumed then.
- `ClientCall` keeps of the policies that attempts begin, end and repeat; a
  request belongs to one call at a time, as resty requires.
- In `Datagrams` the network is an action that puts any datagram of `Incoming`
  into the socket whenever it has room: loss, repetition and reordering are all
  among the choices. A `CodecConn` is the case of one peer. A payload longer than
  the buffer of `ReadValueFrom` would come out as the payload `cut`, which no
  datagram of UDP is long enough for.
- Time in `TimeoutConn` is a countdown, so connections may be used for ever. A call
  whose deadline has passed is woken before the next tick.

## 3. Runs

| Run | Instance | What it shows |
|---|---|---|
| `chain_crossed` | two calls, chain guard-limiter-limiter-retry with the one-slot limiters crossed, a disabled guard behind the enabled one in one of the chains, two attempts (196,000 states) | `NothingHeldAtRest` (no slot, no applied policy, no timer), `RetriesEnd` (attempts are bounded and at most one begins after the caller has gone), `WaitsAreTimed` (what waits for a slot behind an enabled guard has a timer or a deadline of its caller); the limiters implement `Bulkhead`; `Terminates`: the deadlock of the crossed limiters is ended by the guard in front |
| `chain_user` | limiter and user policy before a guard or a retry policy; Before may fail or panic, After may fail, the user decider retries, the function may panic on a nil context | `SlotConservation` through all of these; `DroppedOnlyIfVetoed`: a success is repeated or dropped only if an After failed it |
| `chain_panic` (violation) | a user policy in front | `FnKeepsCallerContext` fails, see section 6 |
| `guard_nested` | guards of 3, 2 and 0 ticks nested, caller's deadline at 5, clock up to 6 | `Guarded`, `EndsWithParent`, `CancelledOnReturn` |
| `guard_cancels` (violation) | a looser guard nested in a tighter one | `OwnCancelOnly` fails, see section 6 |
| `backoff_bounds` | six-bit integers, about 1,800 configurations | `WaitInRange` (`WaitBounded`: not above the cap; `NeverHot`: not below the least that the jitter allows), `NeverShorter`, `WithinConfigured` |
| `errors_travel` | 13 causes, bare and in `*net.OpError`/`*url.Error`, up to six nodes | `CauseKept` (the documented kind, if the cause has a type of its own or comes bare), `MeaningSticks`, `CancelIsFinal` |
| `presets_built` | up to three options per preset; timeouts unset, negative or given, seven retry settings (unset, a hint without Enabled, enabled, invalid), raw options that append a guard, a limiter, a retry policy, a user policy or nothing | `GuardBeforeLimits`, `RefusesNothingMore`, `RetriesAsked` |
| `client_calls` | two Executes sharing a request one after the other a DialCodec that asks for " reverse", and one whose codec is there and whose framer is nil; two hooks of which the first always panics; two attempts; five goroutines that register codecs: two for that name in different spellings, one for a built-in's, one with a blank name, one nil (2 million states; the two Executes are symmetric) | `WatchesOwnContext`, `HooksAgree`, `NoStrayConnection`, `FirstWins`, `CodecIsRegistered` |
| `datagrams` | two readers with a timeout of 2 that share the read deadline and a writer with 1, on one socket with room for two; a value in a short datagram, one in the longest that UDP has, and one datagram that is no value, of two peers; Close at any time (156,000 states) | `BlocksAtMostTimeout`, `NoEarlyTimeout`, `CallsReturn`; the codec connections implement `DatagramQueue` |
| `framing_whole` | two writers, frames of 0, 1, 2 and (too large) 3 bytes, 2-byte headers, a 2-byte buffer; careful, careless and undisturbed users; the careful ones meet a frame that does not decode, the careless ones an empty frame that does not | `InSync` and `ChannelSpec` for careful users, `EveryoneReturns` for all whose reading end goes on, `AllDelivered` on undisturbed connections |
| `framing_resume` (violation) | a reading end that calls ReadValue after a timeout | `PayloadsIntact` fails, see section 6 |

Each module's type invariant is checked in one run, that of `PolicyChain` in
`chain_user`.

**Deadlock** is checked except in `backoff_bounds` and `errors_travel`: a retry
loop ends with its last attempt, and errors have a bounded size. `PolicyChain`,
`ClientCall`, `LengthPrefixed` and `Presets` have an explicit step for the state in which
all is done, so any other state without a successor is an error.

**Bounds, and why they are enough.**

- *Two calls, one slot per limiter.* Mutual exclusion, a wait, a release to the
  other and a cycle of waits need two calls and no more; `SlotConservation` and
  `BulkheadSpec` are proved for any number.
- *Two attempts.* An attempt after a failure, after a success that was vetoed, and
  the refusal of another are all there; the properties relate an attempt to the
  one before.
- *MaxChain = 5 in `chain_crossed`, 4 elsewhere.* Every kind of policy stands before
  and behind every other one that it can interfere with in some run.
- *Six-bit durations.* The defaults (2, 10) are in the range as 100 ms and 2 s
  are in int64: the power, the cap and the jitter each leave it in some
  configuration. All that the run checks is proved for every width.
- *HdrLen 2, Buffer 2.* The header can be torn (two bytes), the payload can be
  torn, and a frame does not fit into the buffer, so writers block in the middle.
- *Depth 3, MaxTime 6.* The deepest instance has a guard inside a tighter one
  inside a looser one. `Guarded`, `EndsWithParent` and `CancelledOnReturn` are
  proved for any depth and any timeouts.
- *MaxNodes 6.* The longest library error has three nodes; one wrapper and a joined
  error of two complete it.
- *Three options.* An option, one that overrides it and one that undoes that; raw
  options in front of and behind each other. The properties speak of the last
  option of a kind; they are proved for any number of options.
- *Two hooks, the first panicking.* The second is behind the panic.
- *Two readers, timeouts 2 and 1, inbox of 2.* With a timeout of 2 a reader can set
  the shared deadline after the other has waited for a tick, which extends that
  one's wait; the writer's shorter timeout would show if the directions were mixed
  up. Two datagrams in the socket have an order. The theorems are for any number
  of goroutines, timeouts and datagrams.
- *Five registrations.* Every answer of `Register` occurs, and two goroutines race
  for one name while a third looks it up.

**Fairness, and why the code justifies it.**

- `PolicyChain`: a goroutine that can move moves (weak fairness of `Progress`).
  `AcquireSlot` is strongly fair: a blocked sender on a Go channel queues in FIFO
  order, so it gets a slot that is free again and again. A timer that nobody
  stops fires, and so does the deadline the caller set. Cancelling is never
  forced. The guarded function ends, by itself or because its context does.
- `Datagrams` (`DatagramFairSpec`): the clock runs, and a goroutine that has to set
  its deadline, or that is to be woken because the deadline has passed or the
  connection is closed (`Wakes`), goes on: the runtime's poller does that. Nothing
  makes a datagram arrive or a peer take one. `CallsReturn` excepts calls whose
  deadline other goroutines go on setting for ever: the code has no defence.
- `LengthPrefixed`: writers, the reader and the final Close go on while they can;
  nothing forces a timeout or a failure.

## 4. Proofs

All theorems are for every value of the constants that satisfies the named
assumptions of the module.

| Theorem | States |
|---|---|
| `PolicyChainProofs!TypeCorrect` | `Spec => []TypeOK` |
| `PolicyChainProofs!SlotsConserved` | the semaphore of every limiter counts exactly the applied positions that hold it, and stays within its capacity |
| `PolicyChainProofs!RestIsClean` | a call that sleeps or has returned has no policy applied, and no timer of its guard goes on |
| `PolicyChainProofs!RetriesStop` | attempts stay within the policy's, and at most one begins after the caller's context has ended |
| `PolicyChainProofs!ValuesAreKept` | a success is dropped or redone only if an After failed it |
| `PolicyChainProofs!ImplementsBulkhead` | `Spec => BulkheadSpec` (refinement) |
| `PolicyChainProofs!NeverOverLimit` | no more calls are inside than a limiter of theirs has slots |
| `PolicyChainProofs!WaitsHaveAnEnd` | a wait for a slot behind a guard that is not disabled, where no Before panics, has a running timer or a deadline of its caller |
| `TimeoutGuardProofs!GuardTypeCorrect` | `Spec => []TypeOK`, which includes that After finds only guards that exist |
| `TimeoutGuardProofs!GuardsHold` | no function runs past its guard's timeout with a live context |
| `TimeoutGuardProofs!NestedCallsEnd` | when a context ends, so have those of the calls nested in it |
| `TimeoutGuardProofs!NoTimerOutlives` | a derived context is cancelled when its call has returned |
| `RetryBackoffProofs!PoliciesTyped` | every policy has an attempt, a positive base, a cap not below it, a jitter of at most one |
| `RetryBackoffProofs!WaitsInRange` | every wait is between zero and the cap (`WaitsBounded`), and none is shorter than the jitter allows around the base delay, unless the jitter can leave the type (`NoHotRetry`), for every width |
| `RetryBackoffProofs!WaitsNeverShrink` | without jitter no wait is shorter than the one before it, overflow of the power included |
| `RetryBackoffProofs!ConfiguredBoundsHold` | an HTTP client's retries wait between WaitMin and WaitMax; with WaitMin unset and WaitMax below the default base delay they wait exactly that delay instead |
| `ErrorClassProofs!ErrorsTyped` | errors end with a cause |
| `ErrorClassProofs!CancellationIsFinal` | nothing makes an error with a cancellation in it retryable |
| `ErrorClassProofs!MeaningIsKept` | kind and timeout nature outlive every wrapper and join |
| `ErrorClassProofs!CausesAreKept` | an error with one cause is given the documented kind of the cause: in any number of envelopes if the cause is told by its type, bare if it is told by its text alone |
| `ConnectionProofs!CallsAreBounded` | a call waits under a deadline at most its timeout away, however many share the connection |
| `ConnectionProofs!TimeoutsAreDue` | none times out before its timeout under its own deadline |
| `ConnectionProofs!IsTimeoutConn` | `ConnectionSpec => Spec` of `TimeoutConn`: every step of a codec connection is one of the deadline connection or none |
| `ConnectionProofs!DatagramsTyped` | `ConnectionSpec => []DatagramTypeOK`, which includes that no error without a kind leaves a codec connection |
| `ConnectionProofs!KeepsPromise` | `ConnectionSpec => DatagramSpec` (refinement) |
| `LengthPrefixedProofs!BytesTyped` | `Spec => []TypeOK`: the variables keep their types |
| `LengthPrefixedProofs!StreamInSync` | with careful users the bytes on their way are whole frames on end |
| `LengthPrefixedProofs!ImplementsChannel` | `Spec => ChannelSpec` (refinement) |
| `LengthPrefixedProofs!FramesInOrder` | with careful users the values read are the first of those written, in order |
| `ClientCallProofs!CallsTyped` | `Spec => []TypeOK` |
| `ClientCallProofs!FirstRegistrationWins` | of any number of registrations of a name at most one wins, for good |
| `ClientCallProofs!RegisteredCodecIsUsed` | a codec connection has a framer and the codec its name is bound to |
| `ClientCallProofs!AttemptsWatchTheirContext` | an attempt watches its own context, which is alive |
| `ClientCallProofs!ConnectionsAreOwned` | an open connection is its attempt's or its caller's, unless an After failed the attempt |
| `ClientCallProofs!HooksHearAll` | all hooks are told of every attempt once, in order |
| `PresetsProofs!PresetsTyped` | what is built has no negative timeout and a list of policies |
| `PresetsProofs!GuardStandsFirst` | only retry policies of the configuration stand before the guard, which is that of the last guard option |
| `PresetsProofs!NothingMoreRefused` | a configuration the client accepts is refused only for a setting that an option brought in |
| `PresetsProofs!RetriesAreAsked` | the client has exactly the retry policy its configuration and the last retry option ask for |

*PolicyChain.* Conservation is not inductive alone: a release by a call whose
`depth` says nothing about `pc` could be anybody's. The inductive invariant is
`SlotInv == TypeOK /\ DepthInv /\ SlotConservation`, where `DepthInv` ties
`depth` to `pc`: zero at rest, all of the chain in `exec`, at most the chain
elsewhere. A Before that acquires adds exactly one element to `Holders(p)`
(`HoldersApply`), an After removes exactly one (`HoldersUnapply`), every other
step leaves the set as it is (`SlotsUntouched`). For the refinement, a call that
is entering has its own position in `Holders` and is not yet running, so the
runners are at most capacity minus one (`FreeSlotToEnter`); this uses that a
chain goes through each limiter it uses, and finiteness of `Calls`.
The other theorems have invariants of their own: `TimerInv` (every timer of a call
is that of an applied guard of this attempt, and the context knows the guard, so
that the After finds its cancel function), `EndInv` (a call that sleeps has been
allowed the attempt it waits for, and sleeps only while its caller is there or has
just gone), and `DropInv` (a value that nobody failed goes with an empty error, so
no retry and no new attempt meets it). `DeadlineInv` is behind `WaitsHaveAnEnd`: from
the Before of an enabled guard to the guarded function the context has a deadline, the guard's
or that of the parent it kept, and its timer is set as long as the context lives.
With `GuardStandsFirst` of `PresetsProofs` this is the safety side of `Terminates`: in
a preset's client, whose guard is never a disabled one, no wait for a slot is
without an end. A panic in a user's Before
resets the context and is excepted. `NeverOverLimit` is what `Bulkhead` says to its
users, proved from its steps and carried over by the refinement, as is `FramesInOrder`
from those of `FrameChannel`; neither looks at the detailed modules' actions again.

*TimeoutGuard.* `GuardInv == TypeOK /\ NestInv`. `NestInv` says of every two
levels on the stack that the inner context has all deadlines and guards of the
outer one (so it ends with it), of every running level that its context has a
deadline no later than its entry plus its timeout, which guards a context may
carry and which key it answers with, and that a guard whose call has returned is
cancelled. `Guarded` and `EndsWithParent` speak of a moment only; what carries
them over a step is where the deadlines and guards of a context come from.

*RetryBackoff.* `PolicyInv` adds to `WaitBounded` that the policy's cap is a
natural number, which `NewRetryPolicy` establishes whatever it is given; then
`Exponential` and `Jittered` stay under the cap by cases on the conversion (`ExponentialBounded`, `BackoffBounded`).
`PoliciesTyped` (of `PolicyTypeOK`) follows `NewRetryPolicy` field by field.

The other three need what the exponential is. `Growth(p)` is a function defined by
recursion, that is, a CHOOSE: that there is such a function has to be shown before
anything follows from its equation. `CountingUp` is induction for a *set* of
naturals (its least element outside would have a predecessor outside), so no
operator is passed to a theorem. With it starts of the sequence exist for every
length (`StartsExist`) and agree where they overlap (`StartsAgree`); the function
made of their ends satisfies the equation (`GrowthDef`) and, as the multiplier is at
least one, never falls (`GrowthRises`). The delay before the jitter is then the
lesser of that and the cap, also where the power leaves the type, because the value
the platform converts it to is negative or above the cap (`ExponentialIs`,
`ExponentialWithin`, `ExponentialRises`); `JitterShare` bounds from below what the
jitter leaves of it. The invariant `WaitInv` remembers that a wait without jitter is
the exponential of its attempt, which relates it to the next one, and that the policy
of an HTTP client is that of its configuration. The back-off of the model has whole
multipliers, and so have the theorems.

*ErrorClass.* `ErrInv` says that the error ends with a cause and that a
`*clientx.Error` holds no more than what follows it. What `errors.As` finds is a
CHOOSE of the first node of some types; `FirstFound` shows with the
well-foundedness of the naturals that there is one when there is any, `FirstIsOne`
that it is unique, so it stays where it is when more is joined (`FirstStays`) and
is the wrapper when one is put in front (`WrappedError`). For timeouts the same is
shown of what an envelope holds (`HeldFound`, `HeldIsOne`); an error whose first
net.Error is a timeout is one as a whole (`TimeoutFromFirst`), which is what the
wrapper's `Timeout` asks. The assumption is on the errors of the libraries and on
those that are joined: an envelope holds something. `CauseKept` is about errors with
one cause behind envelopes (`OneCause`; joined errors have several and no single
kind to expect); `OnlyCause` shows that such an error answers every question of the
classifier as its cause does, but for being a net.Error, which the envelope is.

*TimeoutConn and Datagrams.* `DeadlineInv` knows what is left of a call's timeout
(`T(o) - age[o]`): a goroutine that has computed its deadline and not set it has
exactly that in `target`, and one that waits has a deadline at most `T(o)` away,
exactly what is left if the deadline is its own. That a codec connection's steps
are those of `TimeoutConn` (`IsTimeoutConn`) carries the theorems over to it
(`ValueCallsAreBounded`). The refinement of `DatagramQueue` goes action by action;
it needs that no payload is longer than the buffer, and that the kindless error
occurs on closed connections only.

*LengthPrefixed.* `WireInv` ties what a writer has left to the frame it is writing
(`EndOf`), `TurnsInv` says that at most one careful writer is at work. `SyncInv`
states `InSync` for the bytes read, the bytes on the wire and those the writer has
left as one sequence in which every byte is followed by the next place of its frame
or by a new frame, and adds what the reader may rely on: the buffer holds the
beginning of one part (`ReadInv`), and when nobody writes the bytes end with a whole
frame or the connection is closed (`Whole`). A full buffer is then the header or the
payload of a frame (`FullPart`), so the length that `ReadFrame` decodes is that of
the frame. For the refinement `OrderInv` counts, along the wire, the frames whose
last byte has been accepted: they are those sent and not yet delivered, in order.
A step of a careful connection sends a frame, delivers the next one, or does
neither (`PromiseStep`).

*ClientCall.* `RegistryInv` says who bound every name (`BoundInv`) and that no two
winners share one; `CodecInv` that what was found under a name is what it is bound
to, which needs that a binding never changes; `PlaceInv` ties `attempt`, `outcomes`
and `returned` to `pc`; `ContextInv` says that a running call's contexts have not
ended and that the request it uses carries the current one; `OpenInv` and `HookInv`
say the same as the properties for every place a call can be in.

*Presets.* What the properties say of the last option of a kind is a CHOOSE in a
history; `Newest(asked, ops, none)` is that option or a default, and one option more
makes it that option or leaves it as it was (`NewestOfMore`). `OptionsInv` says with
it what the preset is after any options: its guard is that of the newest guard
option, its retry settings those of the newest retry option, retries are disabled
exactly if the newest of the options that enable or disable is one that disables,
and a setting below zero was brought in by an option. `StageInv` says that the client is
what `Build` made of that. The rest is about lists: the policies are five lists on
end, so a place in them is a place in one of these (`Places`); a guard is the first of
the second list and the first list has retry policies only; a list with one retry
policy stays one next to lists without (`RetriesOfBoth`, `RetriesOfClient`).
`RetriesAsked` covers the three presets: the attempts that are expected are those of
the caller's settings, the preset's or the last option's for HTTP, of the last option
or the default for RPC, and none for UDP; raw options that append a retry policy of
their own are excepted.

**Only model-checked:** liveness (`Terminates`, `CallsReturn`, `EveryoneReturns`,
`AllDelivered`), which is outside what the prover does: it has no rule for ENABLED
and so none for fairness. Every other property of the runs that pass is a
theorem. The three properties of the violation runs are false.

## 5. Not modelled

- Message texts, log lines, metrics and their attributes; `temporary` errors.
- NaN, fractional multipliers, rounding of the floating-point back-off.
- Byte counts of partial reads and writes. The event of an I/O call is its
  `outcome`; that every hook gets it is shown of the client's events, which go
  through the same `emit`.
- Construction of the HTTP transport (TLS settings, resty), address parsing.
- What the codecs compute, and `Names` of the registry, which only reads.
- A bound on how long a whole value takes: `LengthPrefixed` has no clock, see 6.9.
- Answers on a datagram connection are not tied to requests: a late answer is the
  next value. The code promises nothing else and neither does `DatagramQueue`.
- Writers that return `(0, nil)`, on which `writeFull` would not end: no net.Conn
  does that.
- Two goroutines that Execute one request at the same time: resty requests are not
  made for it, and `Invoke` of `ClientCall` excludes it.
- User agents, headers, networks and addresses in `Presets`; of a
  `RetryPolicyConfig` it keeps `MaxAttempts`, the rest is in `RetryBackoff`.
- A slot lost to a guarded function that panics: the code leaves such panics to
  the caller and runs no After. The step is in the model (`FnPanics`) and the
  slot stays counted as held.

## 6. Where code and documentation disagree

Shown by runs (counterexamples of the violation runs; details in `findings`):

1. `policy.go:206`: `callPolicyBefore` returns a nil context after a recovered
   panic although the code behind it says that the former context is kept; the
   guarded function then runs without the caller's context (`chain_panic`).
2. `policy_timeout.go:37`: After of a nested call whose guard derived nothing finds
   the cancel function of the enclosing guard and cancels the enclosing call
   (`guard_cancels`).
3. `codec/framer.go:43`: a read that times out inside a frame loses the place in the
   stream; the next ReadValue returns bytes that were never a payload
   (`framing_resume`).

Seen while modelling, visible in the models but not a run of their own:

4. `error.go:238`, `error.go:250`: a failure of TLS in an envelope (an alert in a
   `*net.OpError`, a certificate error in the `*url.Error` of an HTTP request) is of
   kind `network` and hence retried, although `error.go:45` has a kind for failed
   "TLS negotiation or certificate validation". `CauseKept` and `CausesAreKept`
   therefore speak of TLS failures, and of the other causes that are told by their
   text alone (`KnownByText`), only when they come bare; in an envelope nothing is
   claimed of their kind.
5. `codec/framer.go:84`: nothing serialises two concurrent WriteValue calls between
   their header and payload writes (`LengthPrefixed` with `takeTurns` false).
6. `tcp/conn.go:35`, `udp/conn.go`: the error of setting a deadline goes out without
   a kind (`SetDeadlineFails`, outcome `untyped`), unlike "transport errors are
   wrapped" in the repository's README. The codec connections give it the kind
   `closed` (`Surfaced`); users of a bare connection get it as it is.
7. `policy_retry.go:47`: with WaitMin unset, a WaitMax below 100 ms is exceeded by
   every wait, because the default base delay raises the cap: `WithinConfigured`
   says that they all wait 100 ms then.
8. `policy_timeout.go:37`: with two guards in one chain both Afters find the inner
   cancel function, and the timer of the outer one runs on until it fires.
   `NothingHeldAtRest` claims stopped timers for chains with one guard that is not
   disabled (`OneGuard`).
9. `codec/framer.go:43`: `ReadTimeout` bounds each Read and not a value: a peer that
   sends a byte now and then keeps ReadValue waiting for as long as it likes.
10. `tcp/conn.go:35`: goroutines that share a direction extend each other's deadline,
   so a call may wait for longer than its timeout (`InForce` in
   `BlocksAtMostTimeout`, the exception in `CallsReturn`).

## 7. Plan

Written in this order, the most important behaviour first: the chain and its
limiters, framing, the guard, deadline connections, back-off, errors, clients,
presets; then the datagram codecs over the deadline connection, the registry
composed with the calls that use it, and the proofs, ending with those of `Presets`
and of the exponential in `RetryBackoff`.
Still to come, as far as it is within reach:

1. That finitely many attempts leave a call no way to go on for ever: a variant that
   every step of the call decreases, next to `WaitsHaveAnEnd` for the waits.
2. Nil receivers of the codec connections, and framers other than the length-prefixed
   one.
3. The codec connection of tcp over `TimeoutConn`, with a clock, to state how long a
   value may take at most (a bound on each byte).
4. Fractional multipliers in `RetryBackoff`, as rationals with rounding.
