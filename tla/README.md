# A TLA+ development of lean-capnproto's runtimes

lean-capnproto gives Lean 4 a Cap'n Proto code generator, a wire-format library and, through a C++
bridge (`ffi/`), Cap'n Proto RPC and KJ async I/O.  The part worth a model is the bridge: Lean
threads, one worker thread per runtime, promises, capability ids and connections, with lifetimes
that no single test exercises together.  This directory models that part, checks it with TLC and
proves what matters most with TLAPS.

Paths below are relative to `src/`; `runtime.cpp` is `ffi/rpc_bridge_runtime.cpp`, `bridge.cpp` is
`ffi/rpc_bridge.cpp`, `common.cpp` is `ffi/rpc_bridge_common.cpp`, `kj.cpp` is
`ffi/kj_async_bridge.cpp`.

## The system

| Component | State it keeps | Operations | What makes it hard |
|---|---|---|---|
| RPC runtime (`RuntimeLoop`, `runtime.cpp`) | `queue_`, `stopping_`, `eventPort_`, a `kj::TaskSet`, the registry `gRuntimes` | look up, enqueue, wake, wait, dispatch, complete, release, drain, tear down | Lean threads against the worker; Lean handlers that run on the worker; blocking waits in a branch; the loop itself failing |
| Capability ids (`targets_`) and connection ownership | `nextTargetId_`, `targets_`, per table peers, owner of each id, reference count | register, receive, connect, retain, forward, release, batch release | counts shared by several operations, batches that fail half-way, a 32-bit counter |
| Promised capabilities | fulfillers, their promise ids, the hold, the held deque and its id set | new, fulfill, reject, release, hold, flush | a resolve accepted now and applied later; a flush that throws half-way |
| Pending calls and deferred handlers | `pendingCalls_`, one promise chain per call, Lean tasks, `activeCancelableDeferredTasks_` | start, await, release, defer, poll, cancel | Lean threads, cancellation racing completion, one deque for all calls |
| Handler dispatch | ids of request capabilities, cleanup state | call, decode, respond, forward, throw | cleanup on every error path |
| Promise tables (register, unit, KJ) | promises by id, cancelers, retired ids, task sets | add, take, await, cancel, release, then, catch, all, race | partial failure, await against cancel, retired ids |
| Clients, servers, listeners, transports | tables by id, accept promises, drain promises | connect, listen, accept, drain, release | release while accepting |
| Multi-vat network (`rpc_bridge_generic_vat`) | vats, connections, message queues, blocks, third-party exchanges | attach, connect, block, send, receive, introduce, disconnect | reordering, blocked delivery, reference cycles |
| Payload references | one process-wide table by id | register, retain, release, release with the runtime | threads against release |
| KJ async runtime (`KjAsyncRuntimeLoop`, `kj.cpp`) | `gKjAsyncRuntimes`, `queue_`, `stopping_`, the completions | look up, enqueue, serve, wait, release, drain, tear down | one operation at a time to its end; a wait that never ends stops everybody |
| KJ async resources | `promises_` and `retiredPromiseIds_`, seven typed promise tables, eleven object tables with wrapping 32-bit counters, task sets | sleep, await, cancel, release, then, catch, all, race, listen, accept, connect, read, write, datagrams, pipes, TLS | promises taken one by one by a combinator that fails, timeouts, a fulfiller dropped with its set |
| HTTP and WebSockets in the KJ runtime | `httpServers_` with `requestQueue`, `pendingResponses` and the listen promise; client and server body tables; `webSockets_` | request, stream, listen, poll, respond, upgrade, drain, release | clients that leave between poll and respond; body handles into KJ's stack frames |
| Mixed handles (`lean/Capnp/RpcKjAsync.lean`) | an RPC runtime id used as a KJ async handle | borrow, release | two owners of one runtime |
| Lean API (`lean/Capnp/*.lean`) | references and `Task`s | wrappers, `Async` combinators | release on every path |
| Wire format (`lean/Capnp/Runtime.lean`), code generator (`plugin/`) | segments, pointers; none | pure functions | boundaries |

A call goes: Lean thread → extern function in `bridge.cpp` → `getRuntime` → `enqueueX` under
`queueMutex_` → `notifyWorker` → wait on the completion.  The worker pops, dispatches one branch of
`run()`, completes at once or adds a task to its `TaskSet`, turns the KJ loop once, and goes round.
Lean handlers are called back on the worker from a turn of the loop.  Release takes the runtime out
of the registry, sets `stopping_`, wakes and joins; the worker drains the queue and the tasks first.
The KJ async runtime has the same callers and the same release, but its thread serves one operation
to its end before it pops the next, and turns the KJ event loop only while an operation waits for a
promise: between operations nothing it holds makes progress.

Correctness, per component: *runtime*: every accepted call is answered once, in order, and every
caller and release returns; *ownership*: a connection lives exactly as long as an id that holds it;
*promised capabilities*: what was accepted is applied, once, and no promise is left without a
fulfiller; *pending calls*: cancellation reaches the released call and only it; *KJ async*: a promise
is owned once, a spent id is not served again, nothing is kept that nobody was told of, and the
thread waits only for what can still happen; *HTTP*: whoever asked can be answered, a body handle
never outlives its exchange, an exchange can end, and the promise that accepts connections goes with
its server.

## Modules

| Module | What it is |
|---|---|
| `CallService` | Abstract: what the runtime promises its callers. |
| `RuntimeLoop` | The runtime: callers, release, worker, tasks, handlers. |
| `MCRuntimeLoop` | Symmetry of calls and of releases for TLC. |
| `RuntimeLoopProofs` | `IInv` is an invariant; the safety properties follow. |
| `RuntimeLoopRefinement` | `RuntimeLoop` implements `CallService`. |
| `PeerSharing` | Abstract: a connection is up while some id holds it. |
| `TargetTable` | `targets_` and the two peer tables. |
| `TargetTableProofs` | The ownership invariants for every size, without a wrap; `TargetTable` implements `PeerSharing`. |
| `DeferredCalls` | Pending calls answered by deferred Lean tasks. |
| `DeferredCallsProofs` | Its safety properties for every number of calls and stages. |
| `PromiseCapability` | Promised capabilities and the hold. |
| `PromiseCapabilityProofs` | Its properties for every number of promises. |
| `KjLoop` | The KJ thread as its callers see it: registry, queue, completions, release. |
| `KjTables` | The tables of promises and objects, and the KJ promises behind them. |
| `KjStreams` | The operations on promises, task sets, streams and datagrams. |
| `KjAsync`, `MCKjAsync` | The specification made of the three, and client programs for TLC. |
| `KjHttp`, `MCKjHttp` | HTTP client, HTTP server and WebSockets on the same tables, and client programs. |
| `KjStreamsProofs` | What every operation keeps, shared by the two specifications. |
| `KjAsyncProofs`, `KjHttpProofs` | Their invariants, that a wait and an exchange can end, and that both implement `CallService`. |

`KjAsync` and `KjHttp` are two specifications over one set of components, as the code has one thread
and one set of tables: `KjLoop` is extended by `KjTables`, `KjTables` by `KjStreams`, and `KjStreams`
by both.

Definitions whose comment begins with "Faulty:" are not part of any specification.  Each is a
plausible mistake in the definition that follows it; replacing that definition by it breaks the
property named with it in `PROJECT.json`, which is how we know that the property can fail.

### RuntimeLoop and the code

The queued extern functions all have one shape and differ only in what the worker does with the
operation, so a call is a member of `Calls` with a `kind`: completed in its branch (`plain`,
`aware`), by a task (`async`), by a task that runs a Lean handler (`handler`), or after a wait
inside the branch (`blocking`).  `aware` functions test `isWorkerThread` and run inline there.
`trace` calls are `plain` but for one thing: `failPendingCalls` has no branch for them.  The constant
`Asked` says which kinds of calls a run makes.

| Model | Code |
|---|---|
| `registered` | presence in `gRuntimes` |
| `stopping`, `queue`, `port` | `stopping_`, `queue_`, `eventPort_ != nullptr` |
| `worker`, `cur` | the place in `run()` and the popped `op` |
| `tasks` | completions captured by continuations in the `TaskSet` |
| `handling`, `nested` | the Lean handler on the worker's stack, the extern function it is in |
| `pc`, `reply` | the caller's place; `completion->done` and `ok` |
| `GetRuntime`, `Enqueue`, `LoadPort`, `Wake`, `Return` | the extern function, the critical section, the two halves of `notifyWorker`, the wait |
| `Unregister`, `Shutdown`, `Join` | `capnp_lean_rpc_runtime_release` and `shutdown()` |
| `Pop`, `Idle`, `Leave`, `Dispatch*`, `Turn`, `Teardown` | the loop and the end of `run()` |
| `CompleteTask`, `StartHandler`, `EndHandler`, `Unblock` | continuations run by a turn of the KJ loop |
| `LoopThrows` | the `catch` clauses of `run()` after startup (constant `LoopMayThrow`) |
| `FailPendingCalls`, `Failable` | `failPendingCalls`, which fails what is queued up to the first operation it has no branch for |
| `Terminate` | an exception out of a `catch` clause of the thread's function: `std::terminate` |

A branch that throws completes its operation with the error, so `answer` stands for a result or an
error of the operation and `refused` for the error of a stopping runtime.  `HandlersQueue` says
whether Lean handlers may call functions that queue from the worker: nothing in the code prevents
it, and such a call never returns.  `Wake` changes nothing: the worker also polls every
millisecond (millisecond (`runtime.cpp:6327`), so no property relies on the wake.

The worker ends in one of three ways.  `exited`: `run()` reached its end, with the queue empty and no
task left.  `failed`: an exception left the loop, its tasks were unwound with their completions unset,
and what was queued was failed.  `terminated`: the same, but `failPendingCalls` met an operation
without a branch and threw itself; the process is gone, and no thread takes a step any more.

### TargetTable and the code

`Fresh` and `AddTarget` are `addTarget`, with `IdSpace` for 2^32.  `RetainPeerOwnership` and
`ReleasePeerOwnership` are the functions of the same names applied to both tables, with `emplace`
kept as what it is: no effect when the key exists.  `ReleaseTargets` and `ReleaseNext` are the loop of
`releaseTargets`, ended by its exception.  `route` is a history variable: the connection the id's
capability goes through, against which the tables are judged.

### DeferredCalls and the code

`caller` is the call's entry in `pendingCalls_` or its await; `chain` is the promise chain built by
`dispatchDecodedAction`; a state is a `DeferredLeanTaskState`, one for each deferral of a call.
`TaskEnds` is the Lean task on its own thread; `Continue` is `waitLeanActionTask` and its continuation.
`Drop` is Cap'n Proto dropping the chain of a canceled call that allows it, which is external.

### PromiseCapability and the code

Each operation is one step, because all run on the worker.  `Flush` is the whole loop: the resolves
in front of the first that throws are applied, that one is gone, the rest stay held.

### KjAsync and the code

| Model | Code |
|---|---|
| `program` | the client: how many threads call, and which requests the k-th call may make |
| `pc`, `req`, `reply` | the caller's place, its queued operation, its completion and the handles in it |
| `registered`, `releaser`, `stopping`, `queue` | `gKjAsyncRuntimes`, the place in `runtime_release`, `stopping_`, `queue_` |
| `cur`, `worker` | the operation `run()` is in, whether it has returned |
| `Begin`, `Call*`, `Submit` | `getKjAsyncRuntime`, the extern functions and their `enqueueX` |
| `nodes` | every KJ promise made; a promise that a combinator took over has the outermost combinator as its `root` and all those it is under in `above`: KJ drops what hangs under a combinator that has settled, also when that is itself part of a larger one |
| `promises`, `retired`, `objects`, `sets`, `nextId` | the promise tables, `retiredPromiseIds_`, the object tables, `taskSets_`, the counters |
| `wait` | the promise in `promise.wait(waitScope)` and what the branch does with its result |
| `Serving(op)` with the action of that name | one branch of `run()` and the member function it calls |
| `Start`, `StartAndAwait`, `WaitFor` | the three shapes of an operation: keep the promise under an id; enter it and await it at once, which spends the id; wait without an id |
| `AwaitId`, `CancelId`, `ReleaseId` | `awaitX`, `cancelX`, `releaseX` of each table; only `promises_` retires ids |
| `Combine` | then, catch, all and race, which take their promises in order until one is missing |
| `SettleSure`, `SettlePeer` | the event loop settles a promise by itself, or because the other end acted |
| `ReapTask` | a `kj::TaskSet` lets a finished task go and fulfills `onEmpty` |
| `TimeOut`, `Resume` | the timeout of a timed wait; the rest of the branch once the promise is settled |
| `Teardown` | the end of `run()`: the tables are cleared |

A request is an operation with its arguments; byte counts are classes (empty, some, a minimum above
the maximum) because the code branches on them.  `Room` is a bound: with all 2^32 ids in use the
search for a free id would not return.

### KjHttp and the code

An exchange is one call of `RuntimeHttpService::request`, that is, the promise it returned.  Its status
goes from `asked` (its fulfiller is in `pendingResponses`) to `told` (an answer was fulfilled, its
continuation has not run), to `writing`, `streaming` or `upgraded`, to `finishing` once its body or socket
was let go, to `gone`.  `server[s]` is the `HttpServerState`; `holder` says which exchange a server body
or a WebSocket belongs to.

| Model | Code |
|---|---|
| `Arrive` | `RuntimeHttpService::request`: number, queue entry, fulfiller, request body |
| `HttpServerPollRequest`, `Answers` | the poll, and the three responses that take a fulfiller out of `pendingResponses` |
| `Continue` | the continuation of the exchange: send, hand out a response body, or accept the WebSocket |
| `Pump` | the loop that serves an upgrade or a streamed response until its completion is set |
| `Ends`, `ClientLeaves` | the `kj::defer` of the exchange when it ends or is dropped |
| `WithoutBodies`, `Gone` | what that cleanup does: it erases the bodies of every request with the exchange's number, and rejects the `doneFulfiller` of each response body it erases, so that another exchange of that number ends with an error |
| `SettleStream` | the response headers of a streaming client request arrive |
| `HttpServerRelease`, `Teardown` | the server with its exchanges, bodies, queue and listen promise |

## Runs

| Run | Bounds | What it shows |
|---|---|---|
| `loop_safety` | 3 calls, 2 releases, handlers may queue, the loop may fail | one owner, one answer, FIFO; up to a failure of the loop no call lost and `CallService` implemented; nobody left waiting by a regular exit |
| `loop_live` | 2 calls, 1 release, handlers keep off the queue, the loop does not fail | every call and release returns |
| `loop_unhandled` | 2 calls, 1 release, the loop may fail | finding: `failPendingCalls` has no branch for two queued operations |
| `target_share` | 6 ids, 4 registrations, 2 connections, batches of 2, both tables | exact counts, no lost and no leaked connection, `PeerSharing` implemented |
| `target_wrap` | 3 ids, 5 registrations | finding: ownership is lost after the counter wraps |
| `deferred_cancel` | 2 calls, 2 deferrals each | cancellation reaches the right states and never an answered call |
| `deferred_carry` | 2 calls, 1 deferral | finding: releasing one call cancels another |
| `promise_hold` | 4 ids, 3 promises | the hold loses, repeats and reorders nothing |
| `promise_itself` | 2 ids, 1 promise | finding: a promise fulfilled with itself |
| `kj_async` | 11 client programs of up to 6 calls, 3 ids | one owner per promise, retired ids, no unseen handle, no endless wait, `CallService` implemented, every call returns |
| `kj_http` | 8 client programs of up to 6 calls, 4 ids, 3 requests with 2 numbers | bodies, answers and ends of exchanges, the listen promise, `CallService` implemented, every call returns but for the exceptions under *Fairness* |
| `kj_pump` | 1 server program, 1 request | finding: an answer to a client that has left is waited for without end |

Why the bounds are enough.  *RuntimeLoop*: with three calls one can be queued while another is
dispatched and a third is owned by a task or handler; a second release is there to lose the race.
`loop_safety` leaves out the kind `plain`, which is `aware` on a Lean thread and `trace` on the worker,
and `loop_live` the kind `trace`, which is `plain` when the loop does not fail.
*TargetTable*: four registrations make a connection with three holders, or two connections with a
copy each; a batch of two can fail before, between and after.  `IdSpace > MaxAdds + 1` keeps the counter from wrapping in
`target_share`; `target_wrap` is the smallest instance in which it does.  *DeferredCalls*: two calls
of two deferrals put dead, completed and live entries in the deque in every order.
*PromiseCapability*: three held resolves with a released target in any position.
*KjAsync*: there is a program for each family of operations, with the arguments that make it succeed,
fail and meet an unknown id; those with two threads put two calls in flight, so that one is queued
behind a wait; with three ids the fourth promise has id 1 again, which is how a retired id comes back
into use.  *KjHttp*: two requests make one exchange end while another waits for its answer; the third
has the number of the first (`RequestSpace = 2`), which may still be pending or streaming, so that the
cleanup of one meets the other.
All bounds are on how much ever happens; none restricts the order, except that a program fixes which
requests its k-th call may make.

`CHECK_DEADLOCK FALSE` stands where the system comes to an end: a released runtime, a finite set of
calls.

### Fairness

`RuntimeLoop`: weak fairness of every thread and of the worker (the OS schedules them); of the end of
a Lean handler (it makes finitely many calls); strong fairness of each task's continuation and of the
promise a branch waits for, because the KJ event queue is FIFO: a ready event runs although the worker
does other things in between.  In `RuntimeLoop` it is assumed that awaited promises do resolve; where they do not,
the caller, everything queued behind a blocking branch and the release wait with it, and that is the
code's behaviour.  `DeferredCalls`: weak fairness of the worker's own steps only; nothing makes a
Lean task end.

`KjAsync` and `KjHttp`: weak fairness of a caller that has found the runtime, of a release that has
begun, of the thread (take, perform, resume, tear down) and of the event loop's own work (timers,
combinators, finished tasks, continuations of exchanges).  The other end of a connection owes nothing:
`SettlePeer` and `Peer` are not fair.  Nobody has to make a call or a release.  `CallsReturn` therefore
excepts two cases by name: a wait that only a peer can end and does not (`WaitsForPeer`, `Hindered`),
and a table that is full (`TableFull`).  In `KjHttp` it excepts a third one, `PumpsForNobody`: the thread
pumps for the callback of an exchange that is gone.  That one is not up to a peer, it is the runtime's
own hang, finding 4: `kj_pump` shows it, and `kj_http` finds no other.

## What is proved

Every proof holds for all values of the constants under the assumptions the modules name
(`ConstantsAssumption`, `TableAssumption`, `StagesAssumption`, `LoopAssumption`, `IdSpaceAssumption`,
`RequestsAssumption`): any finite or infinite set of calls and releases, any number of ids, connections
and tables, any number of deferrals, any client programs, any number of HTTP requests.

* `RuntimeLoopProofs!Invariance`: `Spec => []IInv`.  `IInv` is `TypeOK`, `OwnedOnce`,
  `WorkerConsistent` and `NoLostCall`, which speaks of the time before an exception leaves the loop.  `OwnedOnce` alone is not
  inductive: that a popped or finished operation is not answered twice needs to know where the
  worker is and that a call that has not been enqueued has no reply, which `WorkerConsistent` says;
  that `Leave` strands nobody needs `NoLostCall` with an empty queue and no tasks.
  From it: `TypeCorrect`, `OneOwner`, `NoneLost`, `NoneLeftWaiting` and the action property
  `AnswersStay`, all without a hypothesis.  Once an exception has left the loop, calls are lost in the
  code too; `NoLostCall` excepts that time (`LoopFailed`), and no other.
* `RuntimeLoopRefinement!Refinement`: `Spec => ImplementsService`, where `ImplementsService` asks of each
  step that it is one of `CallService` or that an exception has left the loop.  `IsService`,
  `~LoopMayThrow => (Spec => Service!Spec)`, is the plain implementation.  The mapping
  reads a call's phase off where its completion is kept; the proof takes `RuntimeLoop` step by step
  and shows the `CallService` step or stutter, using `IInv` and that nothing stops before it is
  unregistered (`ReleaseOrder`).
* `TargetTableProofs`: with `NoWrap == MaxAdds + 1 < IdSpace`, the inductive
  invariant is `RefCountExact`, `OwnedPeerAlive` and `NoOrphanPeer` together with `Unused`: no id
  from `nextId` on is a target, has an owner, a count or a peer.  From it reference counts are
  exact, held connections are alive and the right ones, no peer leaks, and the forwarder comment is
  true.  The hypothesis cannot be dropped: `target_wrap`.
  `Refinement`, `NoWrap => (Spec => ImplementsPeerSharing)`, takes each operation, batches that fail
  half-way included, to the `PeerSharing` step it is.  The mapping names a connection by the number its
  peer object was made with, so the proof needs `SharingInv` beside `IInv`: no two entries of the peer
  tables are the same object (`PeersDistinct`, or one release would close the connection of two owners),
  and every object in them was made before now (`PeersMade`, so that a new connection is one the abstract
  specification has never opened).
* `PromiseCapabilityProofs!Invariance`: `HeldConsistent` and `NotAbandoned` are inductive only with
  `Untouched` (a promise not yet made is not resolved, needed when it is made) and `HeldNotOwn` (a
  held request does not name the promise's own id).  `HeldNotOwn` is what `HeldIsApplied` rests on:
  with it the only reason left for a held resolve to throw is a target that is gone.  The lemmas
  `DropKeeps` and `FlushKeeps` say what erasing one request and flushing leave of the deque
  (`Keeps`).  From them follow the invariants and the action properties `HeldIsApplied` and
  `HeldInOrder`, without a hypothesis.
* `DeferredCallsProofs`: the inductive invariant is `TypeOK`, `StillTracked`, `StagesBegun` (a chain
  that has not begun has no states, and a state allows cancellation only once its handler has deferred)
  and `EarlierCompleted` (only the last stage of a call can be incomplete).  They are what a new
  deferral and an answer need: a deferral must not meet a state of its own number, and an answer
  completes one state, so nothing of the call may be left for a later cancellation.  From it:
  `TypeCorrect`, `RunningStaysTracked` and the action property `AnswerCancelsNothing`.
* `KjStreamsProofs` states once, for both KJ specifications, what each operation keeps.  `LoopInv` is
  `LoopTypeOK`, `NoLostCall`, `ReleaseOrder` and `CallsInOrder`; `HeapInv` is `HeapTypeOK`,
  `RetiredIsGone`, `Single` and `Roots`.  `Single` is `OneOwner` spelled out place by place (tables,
  task sets, the wait); it is not inductive alone, because a combinator moves promises from a table
  into its parts: `Roots` says that what a place holds is its own root, so no place holds a part.  `FreshIsFree` is the fact about the wrapping
  search for an id on which every operation that adds rests.
* `KjAsyncProofs`: `TypeCorrect`, `CallsNotLost`, `PromisesOwnedOnce`, `RetiredStayGone`,
  `NothingKeptUnseen` (every handle in a table was granted in some completion) and `Refinement`
  (`Spec => ImplementsService`, without a hypothesis).
  `WaitsCanEnd`, `Spec => []WaitCanEnd`, says that the thread is never stuck on a promise that nothing
  can settle.  It rests on `WaitInv`: combinators have the parts their outcome is read from
  (`PlainNodes`); a part is under its combinator and whatever that is under, and under nothing
  else (`UnderOne`); a live promise of `onEmpty` is the one its set will fulfill, and the set still has tasks
  (`EmptyBacked`); a set that was released has none (`NoSetNoTasks`); and requests have the number of ids
  their function takes (`AskedWell`).  The argument: suppose nothing can move.  Under every owned pending
  promise the first live one in order of creation is no combinator, since a stuck combinator has a
  pending part that is older, so it is the `onEmpty` of a set that has a task (`StuckOnSet`).  Different
  owners find different sets, so there is an injection from the tasks and the awaited promise into the
  tasks; the tasks are finitely many, which is impossible (`SomethingMoves`).  No induction over the
  depth of combinators is needed, because the oldest live promise exists by itself.
* `KjHttpProofs`: the invariant adds `HttpInv`: `HttpTypeOK`; `ToldHasAnswer` (acting on an answer finds
  one); `OwnNumber` (a fulfiller is kept under the number of its exchange, so that the answer to one
  request does not remove the fulfiller of another); `AskedCanBeAnswered`; `LiveOnServer` (a live
  exchange is on a live server, needed when a server id is used again); `BodiesBacked`; `OneBody` (an
  exchange streams into one body, or letting go of one would leave another dangling); `SocketsBacked`
  (a server's socket is of an upgraded exchange, so that its release ends no stream);
  `ServerOwnsListen`.  From it: `TypeCorrect`, `AskedStaysAnswerable`, `NoBodyDangles`,
  `ListenGoesWithServer` and `Refinement`.
  `ExchangesCanEnd`, `Spec => []ExchangeCanEnd`, needs `EndInv` beside it: `HeldHere` (who streams has its
  body in the table, who is upgraded its socket); `OneTold` and `ToldWaits` (at most one answer is
  waiting to complete its call, and then the thread pumps for it); `PumpInv` (what it pumps for is a
  promise that no other event settles, and that no task of a set can).  It has no hypothesis on the
  number of requests: when `nextRequestId` has wrapped, the cleanup of a request takes the bodies of
  another that has the same number (`kj.cpp:7971`), and rejects what that one waits for
  (`kj.cpp:3756`), so it does not stream any more (`GoneMoves`, `CutStreams`).

Only model-checked: liveness (`CallsReturn` of the three specifications that state it, `ReleasesReturn`,
`ReleasedIsCancelled`), as fairness is beyond the prover.  Every invariant and every safety property of
a passing run is a theorem.

## Findings

1. `deferred_carry`: `releasePendingCall` cancels the oldest cancelable deferred task of the whole
   runtime.  The test `testRuntimeAdvancedHandlerDeferredCancellationDoesNotCarryAcrossCalls` states
   the opposite, but releases before the deferral exists.
2. `promise_itself`: the check "cannot fulfill promise capability with itself" compares ids and
   misses a retained id of the same promise.
3. `target_wrap`: "Keep any underlying peer ownership alive while the forwarder exists" fails once
   the 32-bit id counter has wrapped onto an owner id that is no longer a target.
4. `kj_pump`: the comment at `kj.cpp:7701` says of the answer to an upgrade "pump the KJ loop until that
   callback fires".  When the client has disconnected, KJ has dropped the exchange, but its fulfiller is
   still in `pendingResponses`: the answer is accepted, the callback never fires, and the loop at
   `kj.cpp:7703` (and at 7730 for a streamed response) never ends.  Every later call and the release of
   the runtime wait behind it.

5. `loop_unhandled`: `failPendingCalls` ends in the assertion "unhandled runtime queued operation in
   failPendingCalls" (`runtime.cpp:8504`).  The two operations on the resolve-disembargo trace, queued at
   2326 and 2342, have no branch before it.  When an exception leaves the loop while one of them is
   queued, the assertion throws out of the `catch` clause on the worker thread, and the process ends.

Not a finding, but a boundary: a server takes a `listenPromiseId` of 0 for none (`kj.cpp:5425`).  After
the promise counter has wrapped, 0 is an id like any other, and the listen promise of such a server
stays in `promises_` when the server is released.  `ServerOwnsListen` excepts id 0.

## Not modelled, and the plan

*Not worth a model*: the code generator, error formatting, encodings, the Lean wrappers over the extern
functions.

*Out of reach of a property*: the load of `eventPort_` that is used after the worker may have destroyed
it (both steps are in the model, nothing in the code forbids the order).

*Left out of the KJ modules*: the constructor's handshake and `failOutstanding`, which runs only when
startup or the teardown throws, as every branch of `run()` catches its exceptions; headers, methods
and status codes, which decide only between success and an error; a listen promise that fails.
Releasing an object while a promise still works on it, and a WebSocket that outlives its server, are
undefined behaviour in KJ; the model lets such a promise settle like any other and no property speaks
about it.  Mixed handles (an RPC runtime used through the KJ functions) reach the RPC runtime's own
promise tables.

*Known, and covered by no property*, beside the hazards listed in `PROJECT.json`: the deque of
cancelable tasks (`runtime.cpp:4094`) and `retiredPromiseIds_` (`kj.cpp:4015`) grow without bound; the
request capability ids of a dropped deferred call stay in `targets_` (`runtime.cpp:4121`); a wrapped
`addTarget` may return 0, the null capability (`runtime.cpp:4276`); received capabilities hold no
ownership of their connection (`runtime.cpp:5062`); `block()` on a blocked connection replaces its
waiter (`rpc_bridge_generic_vat.cpp:116`) and a released vat's name stays taken (403); the KJ release
of an RPC handle skips its payload references (`kj.cpp:8127`); a timeout beyond `Int64` loses the
promise it was for (`kj.cpp:4069`); `configureTls` replaces the network that clients still use
(`kj.cpp:4990`); a failed startup destroys a joinable thread (`kj.cpp:666`).

In this order:

1. `PromiseTable`: the three promise tables of the RPC runtime.  They have the design of `KjTables`; what
   differs is that the RPC loop turns KJ between operations, so that await races cancel.
2. `HandlerCaps`: request capability ids across all handler outcomes; property: after a call's
   chain has ended exactly the ids the handler kept are left.
3. `Startup`: constructor handshake, `alive_`, a failed startup, for both runtimes.
4. `PayloadRefs` with mixed handles: threads against release.
5. `GenericVat`: blocked, forwarded and dropped messages; FIFO delivery as an abstract specification.
6. `Connections`: accept, drain and release of RPC clients and servers.
7. `Segments`: allocation and far pointers of the Lean wire format against a reference definition.
