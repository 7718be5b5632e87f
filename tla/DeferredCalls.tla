---------------------------- MODULE DeferredCalls ----------------------------
(***************************************************************************)
(* Calls answered by a deferred Lean task, and what releasing a pending    *)
(* call does to them (LeanAdvancedCapabilityServer, DeferredLeanTaskState  *)
(* and releasePendingCall in ffi/).  A handler that defers leaves a Lean   *)
(* task running on a thread of its own; a promise chain on the worker      *)
(* polls the task, and its result may be another deferral.                 *)
(*                                                                         *)
(* The chain owns one DeferredLeanTaskState for each deferral.  The states *)
(* that allow cancellation are also listed, weakly, in one deque of the    *)
(* runtime, activeCancelableDeferredTasks_.                                *)
(***************************************************************************)
EXTENDS Naturals, Sequences, SequencesExt

CONSTANTS Calls,
          MaxStages   \* bound on the deferrals of one call

ASSUME StagesAssumption == MaxStages \in Nat \ {0}

States == Calls \X (1 .. MaxStages)      \* DeferredLeanTaskState objects

VARIABLES
    caller,      \* the caller's handle on each call
    chain,       \* the promise chain that answers it on the worker
    stage,       \* how often its handler has deferred
    cancelable,  \* states with allowCancellation
    finished,    \* states whose Lean task has ended
    completed,   \* states with completed set by the worker
    requested,   \* states with cancellationRequested set
    active       \* activeCancelableDeferredTasks_

taskVars == <<stage, cancelable, finished>>
vars == <<caller, chain, taskVars, completed, requested, active>>

Init ==
    /\ caller = [c \in Calls |-> "idle"]
    /\ chain = [c \in Calls |-> "none"]
    /\ stage = [c \in Calls |-> 0]
    /\ cancelable = {}
    /\ finished = {}
    /\ completed = {}
    /\ requested = {}
    /\ active = <<>>

Current(c) == <<c, stage[c]>>
Move(c, to) == caller' = [caller EXCEPT ![c] = to]
Chain(c, to) == chain' = [chain EXCEPT ![c] = to]

\* The chain still owns the state, so a weak pointer to it can be locked.
Alive(s) == chain[s[1]] = "waiting" /\ s[2] <= stage[s[1]]

\* requestCancellation() would return true.
Accepts(s) == s \in cancelable /\ s \notin completed /\ s \notin requested

\* requestCancellation() on each of some, when done are completed: the first
\* request cancels the Lean task, later ones and late ones do nothing.
RequestCancellation(some, done) ==
    requested' = requested \cup ((some \cap cancelable) \ done)

StatesOf(c) == {c} \X (1 .. stage[c])

-----------------------------------------------------------------------------
\* startPendingCall; a raw call has no handle and is awaited from the start.
Start(c) ==
    /\ caller[c] = "idle"
    /\ \E h \in {"pending", "awaited"} : Move(c, h)
    /\ UNCHANGED <<chain, taskVars, completed, requested, active>>

\* awaitPendingCall gives the handle up; the call can no longer be released.
Await(c) ==
    /\ caller[c] = "pending"
    /\ Move(c, IF chain[c] = "settled" THEN "answered" ELSE "awaited")
    /\ UNCHANGED <<chain, taskVars, completed, requested, active>>

\* The chain of c ends; its states are destroyed, and their destructor requests
\* cancellation.
Settle(c) ==
    /\ Chain(c, "settled")
    /\ Move(c, IF caller[c] = "awaited" THEN "answered" ELSE caller[c])
    /\ RequestCancellation(StatesOf(c), completed')
    /\ UNCHANGED <<stage, cancelable, active>>

\* Faulty: the state is listed whatever the handler asked for.
DeferListed(c, allow) ==
    LET s == <<c, stage[c] + 1>>
    IN  /\ stage' = [stage EXCEPT ![c] = @ + 1]
        /\ Chain(c, "waiting")
        /\ cancelable' = IF allow THEN cancelable \cup {s} ELSE cancelable
        /\ active' = Append(active, s)
        /\ UNCHANGED <<caller, requested>>

\* One more deferral: a new state, listed when it allows cancellation.
Defer(c, allow) ==
    LET s == <<c, stage[c] + 1>>
    IN  /\ stage' = [stage EXCEPT ![c] = @ + 1]
        /\ Chain(c, "waiting")
        /\ cancelable' = IF allow THEN cancelable \cup {s} ELSE cancelable
        /\ active' = IF allow THEN Append(active, s) ELSE active
        /\ UNCHANGED <<caller, requested>>

\* dispatchCall: the handler answers, fails or defers.  A call that was released
\* may still be on its way to a handler behind a connection.
Dispatch(c) ==
    /\ chain[c] = "none"
    /\ caller[c] # "idle"
    /\ UNCHANGED <<finished, completed>>
    /\ \/ Settle(c)
       \/ \E allow \in BOOLEAN : Defer(c, allow)

\* The Lean task ends, canceled or not, on its own thread.
TaskEnds(c) ==
    /\ chain[c] # "none"
    /\ stage[c] > 0
    /\ Current(c) \notin finished
    /\ finished' = finished \cup {Current(c)}
    /\ UNCHANGED <<caller, chain, stage, cancelable, completed, requested, active>>

\* Faulty: the worker does not note that the task has ended.
ContinueUnmarked(c) ==
    /\ chain[c] = "waiting"
    /\ Current(c) \in finished
    /\ UNCHANGED <<finished, completed>>
    /\ Settle(c)

\* waitLeanActionTask finds the task ended and marks the state completed; the
\* continuation answers the call, fails it, or dispatches a further deferral, for
\* which allowCancellation must have been given before.
Continue(c) ==
    /\ chain[c] = "waiting"
    /\ Current(c) \in finished
    /\ completed' = completed \cup {Current(c)}
    /\ \/ Settle(c)
       \/ /\ stage[c] < MaxStages
          /\ \E allow \in BOOLEAN : /\ allow => Current(c) \in cancelable
                                    /\ Defer(c, allow)
    /\ UNCHANGED finished

\* Faulty: the front entry is dropped without asking it.
CancelFrontOnly ==
    /\ active' = IF active = <<>> THEN <<>> ELSE Tail(active)
    /\ UNCHANGED requested

\* cancelOneActiveDeferredTask: pop entries until one takes the request.
CancelOneActiveDeferredTask ==
    LET takes == {i \in DOMAIN active : Alive(active[i]) /\ Accepts(active[i])}
        k == CHOOSE i \in takes : \A j \in takes : i <= j
    IN  IF takes = {}
        THEN active' = <<>> /\ UNCHANGED requested
        ELSE /\ active' = SubSeq(active, k + 1, Len(active))
             /\ RequestCancellation({active[k]}, completed)

\* releasePendingCall; the canceler then drops the caller's promise.
Release(c) ==
    /\ caller[c] = "pending"
    /\ Move(c, "released")
    /\ CancelOneActiveDeferredTask
    /\ UNCHANGED <<chain, taskVars, completed>>

\* Faulty: the states go without a request.
DropQuietly(c) ==
    /\ caller[c] = "released"
    /\ chain[c] = "waiting"
    /\ <<c, 1>> \in cancelable
    /\ Chain(c, "settled")
    /\ UNCHANGED <<caller, taskVars, completed, requested, active>>

\* The released call reaches the server: Cap'n Proto drops the chain of a call
\* that allows cancellation and lets any other run to its end.
Drop(c) ==
    /\ caller[c] = "released"
    /\ chain[c] = "waiting"
    /\ <<c, 1>> \in cancelable
    /\ Chain(c, "settled")
    /\ RequestCancellation(StatesOf(c), completed)
    /\ UNCHANGED <<caller, taskVars, completed, active>>

Next == \E c \in Calls : \/ Start(c) \/ Await(c) \/ Release(c)
                         \/ Dispatch(c) \/ TaskEnds(c) \/ Continue(c) \/ Drop(c)

Spec == Init /\ [][Next]_vars

\* The worker runs what is ready; nothing makes a Lean task end.
FairSpec == Spec /\ \A c \in Calls : WF_vars(Continue(c)) /\ WF_vars(Drop(c))

-----------------------------------------------------------------------------
(* Properties.                                                             *)

\* Every variable has its type.
TypeOK ==
    /\ caller \in [Calls -> {"idle", "pending", "awaited", "released", "answered"}]
    /\ chain \in [Calls -> {"none", "waiting", "settled"}]
    /\ stage \in [Calls -> 0 .. MaxStages]
    /\ cancelable \subseteq States /\ finished \subseteq States
    /\ completed \subseteq finished /\ requested \subseteq cancelable
    /\ active \in Seq(cancelable)

\* A running task that allows cancellation and has not been asked to stop is in
\* the deque: releasing calls often enough reaches it, however many dead,
\* completed or refused entries stand before it.
StillTracked ==
    \A s \in cancelable : Alive(s) /\ Accepts(s) => s \in ToSet(active)

\* The end of the chain destroys the states, and their destructor asks once more:
\* a task is asked to stop only while its call is being answered or because the
\* call was released, never because it has just been answered.
NoCancelAfterAnswer ==
    [][\A s \in requested' \ requested :
          chain'[s[1]] = "waiting" \/ caller[s[1]] = "released"]_vars

\* A released call that allows cancellation does not leave its task running
\* unasked: the task is asked to stop or its result is taken.
ReleasedIsCancelled ==
    \A s \in States :
        (caller[s[1]] = "released" /\ Alive(s) /\ Accepts(s)) ~> (~Accepts(s))

\* The test testRuntimeAdvancedHandlerDeferredCancellationDoesNotCarryAcrossCalls:
\* the release of one call does not cancel the deferred task of another.
DoesNotCarryAcrossCalls ==
    \A s \in requested : caller[s[1]] = "released"
=============================================================================
