----------------------------- MODULE RuntimeLoop -----------------------------
(***************************************************************************)
(* The RPC runtime of ffi/rpc_bridge_runtime.cpp: one worker thread that   *)
(* owns a KJ event loop, a mutex-protected queue of operations filled by   *)
(* the extern functions of ffi/rpc_bridge.cpp, and the release that stops  *)
(* the worker and joins it.                                                *)
(*                                                                         *)
(* Every extern function that goes through the queue has one shape: look   *)
(* the runtime up in the registry, append an operation with a completion   *)
(* unless the runtime is stopping, wake the worker, block on the           *)
(* completion.  They differ in what the worker does with the operation,    *)
(* and that is the call's kind:                                            *)
(*   "plain"     completed in the dispatch branch (counts, pump, connect)  *)
(*   "aware"     the same, but executed inline when the caller IS the      *)
(*               worker (retain, release, register, promise capabilities)  *)
(*   "async"     the branch starts a KJ task that completes it later       *)
(*   "handler"   as "async", answered by a Lean handler run on the worker  *)
(*   "blocking"  the branch waits on a promise inside the worker           *)
(*   "trace"     as "plain", but without a branch in failPendingCalls (the *)
(*               two resolve-disembargo-trace operations)                  *)
(***************************************************************************)
EXTENDS Naturals, Sequences

CONSTANTS Calls,           \* invocations of a queued extern function
          Releases,        \* invocations of capnp_lean_rpc_runtime_release
          None,            \* no invocation
          Asked,           \* the kinds of calls that are made
          HandlersQueue,   \* Lean handlers may call the functions that do not
                           \* check for the worker thread
          LoopMayThrow     \* the event loop itself may fail (poll, timer)

Invocations == Calls \cup Releases

Kinds == {"plain", "aware", "async", "handler", "blocking", "trace"}

ASSUME ConstantsAssumption ==
    /\ Calls \cap Releases = {}
    /\ None \notin Invocations
    /\ Asked \subseteq Kinds
    /\ HandlersQueue \in BOOLEAN
    /\ LoopMayThrow \in BOOLEAN

VARIABLES
    kind,        \* what each call asks for
    site,        \* where each invocation runs: a Lean thread or the worker
    pc,          \* how far each invocation has come
    reply,       \* each call's completion: "none" until done is set
    registered,  \* the runtime is in gRuntimes
    stopping,    \* stopping_
    port,        \* eventPort_ is not null
    queue,       \* queue_
    worker,      \* where the worker is in run()
    cur,         \* the operation the worker popped
    tasks,       \* calls whose completion is owned by a task of the TaskSet
    handling,    \* the call whose Lean handler is on the worker's stack
    nested       \* the extern function that handler is in

callVars   == <<pc, reply>>
sharedVars == <<registered, stopping, port, queue>>
loopVars   == <<worker, cur, tasks, handling, nested>>
vars       == <<kind, site, callVars, sharedVars, loopVars>>

\* A Lean handler may run "aware" functions and the release on the worker;
\* any other function only if HandlersQueue.
SiteAllowed(k, s) ==
    \A c \in Calls : s[c] = "worker" => k[c] = "aware" \/ HandlersQueue

Init ==
    /\ kind \in [Calls -> Asked]
    /\ site \in [Invocations -> {"thread", "worker"}]
    /\ SiteAllowed(kind, site)
    /\ pc = [x \in Invocations |-> "start"]
    /\ reply = [c \in Calls |-> "none"]
    /\ registered = TRUE
    /\ stopping = FALSE
    /\ port = TRUE
    /\ queue = <<>>
    /\ worker = "check"
    /\ cur = None
    /\ tasks = {}
    /\ handling = None
    /\ nested = None

-----------------------------------------------------------------------------
(* The calling side.                                                       *)

\* The thread that executes x is at x.
Runs(x) == site[x] = "thread" \/ nested = x

\* x has come to l, and its process is still there.
At(x, l) == pc[x] = l /\ worker # "terminated"

QueuedCalls == {queue[i] : i \in DOMAIN queue}

Goto(x, l) == pc' = [pc EXCEPT ![x] = l]
Answer(c, r) == reply' = [reply EXCEPT ![c] = r]

\* getRuntime: a null result is an error; the worker-aware functions run
\* inline on the worker.
GetRuntime(c) ==
    /\ At(c, "start")
    /\ Runs(c)
    /\ \/ /\ ~registered
          /\ Goto(c, "done")
          /\ Answer(c, "refused")
       \/ /\ registered
          /\ kind[c] = "aware" /\ site[c] = "worker"
          /\ Goto(c, "done")
          /\ Answer(c, "answer")
       \/ /\ registered
          /\ ~(kind[c] = "aware" /\ site[c] = "worker")
          /\ Goto(c, "enqueue")
          /\ UNCHANGED reply
    /\ UNCHANGED <<kind, site, sharedVars, loopVars>>

\* Faulty: stopping_ was tested before the lock, so it no longer counts here.
EnqueueUnchecked(c) ==
    /\ At(c, "enqueue")
    /\ queue' = Append(queue, c)
    /\ Goto(c, "notify")
    /\ UNCHANGED <<kind, site, reply, registered, stopping, port, loopVars>>

\* enqueueX: under queueMutex_, fail the completion when stopping, else append.
Enqueue(c) ==
    /\ At(c, "enqueue")
    /\ IF stopping
       THEN /\ Answer(c, "refused")
            /\ Goto(c, "wait")
            /\ UNCHANGED queue
       ELSE /\ queue' = Append(queue, c)
            /\ Goto(c, "notify")
            /\ UNCHANGED reply
    /\ UNCHANGED <<kind, site, registered, stopping, port, loopVars>>

\* notifyWorker runs after the unlock: load eventPort_, then wake what was loaded.
LoadPort(x) ==
    /\ At(x, "notify")
    /\ Goto(x, IF port THEN "wake" ELSE "wait")
    /\ UNCHANGED <<kind, site, reply, sharedVars, loopVars>>

\* The worker also polls every millisecond, so the wake changes no state here.
Wake(x) ==
    /\ At(x, "wake")
    /\ Goto(x, "wait")
    /\ UNCHANGED <<kind, site, reply, sharedVars, loopVars>>

\* completion->cv.wait until done.
Return(c) ==
    /\ At(c, "wait")
    /\ reply[c] # "none"
    /\ Goto(c, "done")
    /\ UNCHANGED <<kind, site, reply, sharedVars, loopVars>>

\* Faulty: the release does not look at the thread it runs on.
UnregisterAnywhere(r) ==
    /\ At(r, "start")
    /\ Runs(r)
    /\ IF registered
       THEN Goto(r, "shutdown") /\ registered' = FALSE
       ELSE Goto(r, "done") /\ UNCHANGED registered
    /\ UNCHANGED <<kind, site, reply, stopping, port, queue, loopVars>>

\* capnp_lean_rpc_runtime_release: rejected on the worker thread; exactly one
\* caller takes the runtime out of the registry and goes on to shutdown().
Unregister(r) ==
    /\ At(r, "start")
    /\ Runs(r)
    /\ IF registered /\ site[r] = "thread"
       THEN Goto(r, "shutdown") /\ registered' = FALSE
       ELSE Goto(r, "done") /\ UNCHANGED registered
    /\ UNCHANGED <<kind, site, reply, stopping, port, queue, loopVars>>

\* shutdown(): only the first one stops the worker and joins it.
Shutdown(r) ==
    /\ At(r, "shutdown")
    /\ stopping' = TRUE
    /\ Goto(r, IF stopping THEN "done" ELSE "notify")
    /\ UNCHANGED <<kind, site, reply, registered, port, queue, loopVars>>

\* worker_.join().
Join(r) ==
    /\ At(r, "wait")
    /\ worker \in {"exited", "failed"}
    /\ Goto(r, "done")
    /\ UNCHANGED <<kind, site, reply, sharedVars, loopVars>>

-----------------------------------------------------------------------------
(* The worker.                                                             *)

\* The worker's own stack is the event loop, not a Lean handler.
LoopOnTop == handling = None

\* Faulty: pop_front is missing.
PopKeepsFront ==
    /\ worker = "check" /\ LoopOnTop
    /\ queue # <<>>
    /\ cur' = Head(queue)
    /\ worker' = "dispatch"
    /\ UNCHANGED <<kind, site, callVars, sharedVars, tasks, handling, nested>>

\* Faulty: the newest operation is taken first.
PopBack ==
    /\ worker = "check" /\ LoopOnTop
    /\ queue # <<>>
    /\ cur' = queue[Len(queue)]
    /\ queue' = SubSeq(queue, 1, Len(queue) - 1)
    /\ worker' = "dispatch"
    /\ UNCHANGED <<kind, site, callVars, registered, stopping, port, tasks, handling, nested>>

Pop ==
    /\ worker = "check" /\ LoopOnTop
    /\ queue # <<>>
    /\ cur' = Head(queue)
    /\ queue' = Tail(queue)
    /\ worker' = "dispatch"
    /\ UNCHANGED <<kind, site, callVars, registered, stopping, port, tasks, handling, nested>>

\* No operation queued and not allowed to leave: poll, or wait 1 ms.
Idle ==
    /\ worker = "check" /\ LoopOnTop
    /\ queue = <<>>
    /\ ~(stopping /\ tasks = {})
    /\ worker' = "poll"
    /\ UNCHANGED <<kind, site, callVars, sharedVars, cur, tasks, handling, nested>>

\* Faulty: the loop does not wait for its tasks.
LeaveEarly ==
    /\ worker = "check" /\ LoopOnTop
    /\ queue = <<>>
    /\ stopping
    /\ worker' = "teardown"
    /\ UNCHANGED <<kind, site, callVars, sharedVars, cur, tasks, handling, nested>>

\* The break of the loop.
Leave ==
    /\ worker = "check" /\ LoopOnTop
    /\ queue = <<>>
    /\ stopping
    /\ tasks = {}
    /\ worker' = "teardown"
    /\ UNCHANGED <<kind, site, callVars, sharedVars, cur, tasks, handling, nested>>

\* A branch that completes its operation, with a result or with what it threw.
DispatchNow ==
    /\ worker = "dispatch"
    /\ Answer(cur, "answer")
    /\ cur' = None
    /\ worker' = "poll"
    /\ UNCHANGED <<kind, site, pc, sharedVars, tasks, handling, nested>>

\* Faulty: the completion is read from the operation after it was moved away.
DispatchMovedFrom ==
    /\ worker = "dispatch"
    /\ kind[cur] \in {"async", "handler"}
    /\ cur' = None
    /\ tasks' = tasks \cup {cur'}
    /\ worker' = "poll"
    /\ UNCHANGED <<kind, site, callVars, sharedVars, handling, nested>>

\* schedule*Completion: the TaskSet owns the completion from now on.
DispatchTask ==
    /\ worker = "dispatch"
    /\ kind[cur] \in {"async", "handler"}
    /\ tasks' = tasks \cup {cur}
    /\ cur' = None
    /\ worker' = "poll"
    /\ UNCHANGED <<kind, site, callVars, sharedVars, handling, nested>>

\* promise.wait(waitScope) in the branch: the event loop turns, the queue does not.
DispatchBlocking ==
    /\ worker = "dispatch"
    /\ kind[cur] = "blocking"
    /\ worker' = "blocked"
    /\ UNCHANGED <<kind, site, callVars, sharedVars, cur, tasks, handling, nested>>

Unblock ==
    /\ worker = "blocked" /\ LoopOnTop
    /\ Answer(cur, "answer")
    /\ cur' = None
    /\ worker' = "poll"
    /\ UNCHANGED <<kind, site, pc, sharedVars, tasks, handling, nested>>

Polls == worker \in {"poll", "blocked"} /\ LoopOnTop

\* Faulty: a task that fails is only logged by its TaskSet.
CompleteSilently(c) ==
    /\ Polls
    /\ c \in tasks
    /\ kind[c] = "async"
    /\ tasks' = tasks \ {c}
    /\ UNCHANGED <<kind, site, callVars, sharedVars, worker, cur, handling, nested>>

\* The continuation of a task runs in a turn of the event loop.
CompleteTask(c) ==
    /\ Polls
    /\ c \in tasks
    /\ kind[c] = "async"
    /\ tasks' = tasks \ {c}
    /\ Answer(c, "answer")
    /\ UNCHANGED <<kind, site, pc, sharedVars, worker, cur, handling, nested>>

\* A Lean handler starts, calls extern functions one after the other, ends.
StartHandler(c) ==
    /\ Polls
    /\ c \in tasks
    /\ kind[c] = "handler"
    /\ handling' = c
    /\ UNCHANGED <<kind, site, callVars, sharedVars, worker, cur, tasks, nested>>

HandlerCalls(x) ==
    /\ handling # None
    /\ nested = None
    /\ site[x] = "worker" /\ pc[x] = "start"
    /\ nested' = x
    /\ UNCHANGED <<kind, site, callVars, sharedVars, worker, cur, tasks, handling>>

HandlerResumes ==
    /\ nested # None
    /\ pc[nested] = "done"
    /\ nested' = None
    /\ UNCHANGED <<kind, site, callVars, sharedVars, worker, cur, tasks, handling>>

EndHandler ==
    /\ handling # None
    /\ nested = None
    /\ tasks' = tasks \ {handling}
    /\ Answer(handling, "answer")
    /\ handling' = None
    /\ UNCHANGED <<kind, site, pc, sharedVars, worker, cur, nested>>

\* Back to the top of the loop.
Turn ==
    /\ worker = "poll" /\ LoopOnTop
    /\ worker' = "check"
    /\ UNCHANGED <<kind, site, callVars, sharedVars, cur, tasks, handling, nested>>

\* Faulty: every completion is failed, the answered ones too.
FailEverybody ==
    /\ reply' = [c \in Calls |-> IF pc[c] \in {"start", "enqueue"} THEN reply[c] ELSE "refused"]
    /\ queue' = <<>>

\* The queued operations that have a branch in failPendingCalls, up to the first
\* that has none: there the function throws.
Failable == {queue[i] : i \in {j \in DOMAIN queue :
                                 \A k \in 1 .. j : kind[queue[k]] # "trace"}}

\* Take the whole queue, and fail the completions one after the other.
FailPendingCalls ==
    /\ reply' = [c \in Calls |-> IF c \in Failable THEN "refused" ELSE reply[c]]
    /\ queue' = <<>>

\* The end of run(): clear every table, null the port, fail what is queued.  What
\* that threw would be caught, and nothing is left to fail then.
Teardown ==
    /\ worker = "teardown"
    /\ port' = FALSE
    /\ FailPendingCalls
    /\ worker' = "exited"
    /\ UNCHANGED <<kind, site, pc, registered, stopping, cur, tasks, handling, nested>>

\* An exception of poll or of the timer wait leaves the loop: unwinding drops
\* the TaskSet with its completions; stopping_ stays as it is.  The catch clause
\* fails what is queued, and what it throws itself leaves the thread.
LoopThrows ==
    /\ LoopMayThrow
    /\ worker = "poll" /\ LoopOnTop
    /\ tasks' = {}
    /\ port' = FALSE
    /\ FailPendingCalls
    /\ worker' = IF QueuedCalls \subseteq Failable THEN "failed" ELSE "unwinding"
    /\ UNCHANGED <<kind, site, pc, registered, stopping, cur, handling, nested>>

\* An exception that leaves a thread ends the process with every thread of it.
Terminate ==
    /\ worker = "unwinding"
    /\ worker' = "terminated"
    /\ UNCHANGED <<kind, site, callVars, sharedVars, cur, tasks, handling, nested>>

-----------------------------------------------------------------------------
CallStep(c) == GetRuntime(c) \/ Enqueue(c) \/ LoadPort(c) \/ Wake(c) \/ Return(c)

ReleaseStep(r) == Unregister(r) \/ Shutdown(r) \/ LoadPort(r) \/ Wake(r) \/ Join(r)

LoopStep == Pop \/ Idle \/ Leave \/ DispatchNow \/ DispatchTask
            \/ DispatchBlocking \/ Turn \/ Teardown

HandlerStep == (\E x \in Invocations : HandlerCalls(x)) \/ HandlerResumes \/ EndHandler

EventStep == Unblock \/ \E c \in Calls : CompleteTask(c) \/ StartHandler(c)

Next == \/ \E c \in Calls : CallStep(c)
        \/ \E r \in Releases : ReleaseStep(r)
        \/ LoopStep
        \/ EventStep
        \/ HandlerStep
        \/ LoopThrows
        \/ Terminate

Spec == Init /\ [][Next]_vars

\* The threads are scheduled; the worker turns its loop; a Lean handler ends
\* (it calls only finitely many functions); what was started is answered, and
\* the KJ event queue is FIFO, so a ready continuation runs although the loop
\* does other things in between.
Fairness ==
    /\ \A c \in Calls : WF_vars(CallStep(c))
    /\ \A r \in Releases : WF_vars(ReleaseStep(r))
    /\ WF_vars(LoopStep)
    /\ WF_vars(HandlerResumes)
    /\ WF_vars(EndHandler)
    /\ SF_vars(Unblock)
    /\ \A c \in Calls : SF_vars(CompleteTask(c)) /\ SF_vars(StartHandler(c))

FairSpec == Spec /\ Fairness

-----------------------------------------------------------------------------
(* Properties.                                                             *)

Labels == {"start", "enqueue", "shutdown", "notify", "wake", "wait", "done"}

\* Every variable has its type.
TypeOK ==
    /\ kind \in [Calls -> Kinds]
    /\ site \in [Invocations -> {"thread", "worker"}]
    /\ pc \in [Invocations -> Labels]
    /\ reply \in [Calls -> {"none", "answer", "refused"}]
    /\ registered \in BOOLEAN /\ stopping \in BOOLEAN /\ port \in BOOLEAN
    /\ queue \in Seq(Calls)
    /\ worker \in {"check", "dispatch", "blocked", "poll", "teardown", "exited"}
                  \cup {"failed", "unwinding", "terminated"}
    /\ cur \in Calls \cup {None}
    /\ tasks \in SUBSET Calls
    /\ handling \in Calls \cup {None}
    /\ nested \in Invocations \cup {None}

\* The thread of c has handed over a completion that is not done yet.
Pending(c) == pc[c] \in {"notify", "wake", "wait"} /\ reply[c] = "none"

\* Where the runtime keeps a completion it has accepted: the queue, the
\* operation the worker popped, or a task.
NoDuplicates ==
    /\ \A i, j \in DOMAIN queue : queue[i] = queue[j] => i = j
    /\ cur \notin QueuedCalls
    /\ cur \notin tasks
    /\ QueuedCalls \cap tasks = {}

\* A completion has one owner and that owner is the only one to set done: an
\* accepted operation is in the queue once, or is the popped one, or is owned by
\* one task, and whatever is owned is still awaited by its thread.
OwnedOnce ==
    /\ NoDuplicates
    /\ \A c \in QueuedCalls \cup tasks \cup ({cur} \ {None}) : Pending(c)

\* An exception has left the loop of run().
LoopFailed == worker \in {"failed", "unwinding", "terminated"}

\* No accepted call is dropped: as long as its thread waits, the runtime still
\* holds the completion somewhere, unless an exception has left the loop.
NoLostCall ==
    LoopFailed \/ \A c \in Calls : Pending(c) => c \in QueuedCalls \cup tasks \cup {cur}

\* A worker that has left its loop the regular way is gone only when no caller of
\* it still waits for an answer: nobody else would set its completion.
NobodyLeftWaiting ==
    worker = "exited" => \A c \in Calls : ~Pending(c)

\* What the worker's own variables say about each other, and when it may be gone.
WorkerConsistent ==
    /\ worker \in {"dispatch", "blocked"} <=> cur # None
    /\ handling # None => handling \in tasks /\ worker \in {"poll", "blocked"}
    /\ nested # None => handling # None
    /\ \A c \in Calls : pc[c] \in {"start", "enqueue"} => reply[c] = "none"
    /\ worker \in {"teardown", "exited"} => stopping /\ queue = <<>> /\ tasks = {}
    /\ LoopFailed => LoopMayThrow

\* Nothing stops before it is unregistered.
ReleaseOrder ==
    /\ stopping => ~registered
    /\ \A r \in Releases : pc[r] = "shutdown" => ~registered

\* The inductive invariant of RuntimeLoopProofs: where every completion is kept,
\* and what the worker's variables say of each other.
IInv == /\ TypeOK
        /\ OwnedOnce
        /\ WorkerConsistent
        /\ NoLostCall

\* done is set once: completeX is never called twice on one completion, which
\* would overwrite the result the thread may be reading.
AnsweredOnce ==
    [][\A c \in Calls : reply[c] # "none" => reply'[c] = reply[c]]_vars

\* When an exception leaves the loop, failPendingCalls fails everything queued: no
\* operation of the queue is left to its last branch, the assertion "unhandled
\* runtime queued operation".
FailsWhatIsQueued ==
    [][LoopFailed' /\ ~LoopFailed => \A c \in QueuedCalls : reply'[c] # "none"]_vars

\* The view of CallService: which phase each call is in.
Phase == [c \in Calls |->
            CASE reply[c] = "refused" -> "away"
              [] reply[c] = "answer" -> "answered"
              [] c \in QueuedCalls -> "waiting"
              [] c = cur \/ c \in tasks -> "started"
              [] OTHER -> "new"]

Gate == CASE worker = "exited" -> "stopped"
          [] worker # "exited" /\ stopping -> "closed"
          [] worker # "exited" /\ ~stopping /\ ~registered -> "closing"
          [] OTHER -> "open"

Service == INSTANCE CallService WITH phase <- Phase, line <- queue, gate <- Gate

\* The queue, the tasks and the release together keep the promise of CallService:
\* operations are dispatched in the order they were accepted, nothing is accepted
\* after stopping_ and the worker stops owing no answer, all of it up to an
\* exception that leaves the loop, after which the service is over.
ImplementsService == Service!Init /\ [][Service!Next \/ LoopFailed']_Service!vars

\* Every call returns, whatever the others and the release do, provided handlers
\* call only the functions that know about the worker thread and the promises the
\* calls wait for are resolved.
CallsReturn ==
    \A c \in Calls : pc[c] \in {"enqueue", "notify", "wake", "wait"} ~> pc[c] = "done"

\* A release returns, once the worker has drained the queue and its tasks.
ReleasesReturn ==
    \A r \in Releases : pc[r] \in {"shutdown", "notify", "wake", "wait"} ~> pc[r] = "done"
=============================================================================
