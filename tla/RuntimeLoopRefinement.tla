------------------------ MODULE RuntimeLoopRefinement ------------------------
(***************************************************************************)
(* RuntimeLoop implements CallService, for every set of calls and releases *)
(* and up to an exception that leaves the event loop: every step of a      *)
(* caller, of a release or of the worker before it is a step of the        *)
(* service or invisible.                                                   *)
(***************************************************************************)
EXTENDS RuntimeLoopProofs

\* registered is cleared before stopping_ is set, and stays cleared.
LEMMA ReleaseOrderInv == Spec => []ReleaseOrder
<1> USE ConstantsAssumption DEF ReleaseOrder, Invocations, At, Goto, Answer,
        sharedVars, loopVars, callVars
<1>1. Init => ReleaseOrder
  BY DEF Init
<1>2. ASSUME IInv, ReleaseOrder, [Next]_vars
      PROVE  ReleaseOrder'
  <2> USE <1>2 DEF IInv, TypeOK
  <2>stutter. CASE UNCHANGED vars
    BY <2>stutter DEF vars
  <2>call. ASSUME NEW c \in Calls, CallStep(c)
           PROVE  ReleaseOrder'
    BY <2>call DEF CallStep, GetRuntime, Enqueue, LoadPort, Wake, Return
  <2>release. ASSUME NEW r \in Releases, ReleaseStep(r)
              PROVE  ReleaseOrder'
    BY <2>release DEF ReleaseStep, Unregister, Shutdown, LoadPort, Wake, Join
  <2>loop. CASE LoopStep \/ LoopThrows \/ Terminate
    BY <2>loop DEF LoopStep, Pop, Idle, Leave, DispatchNow, DispatchTask,
                   DispatchBlocking, Turn, Teardown, LoopThrows, Terminate
  <2>event. CASE EventStep \/ HandlerStep
    BY <2>event DEF EventStep, Unblock, CompleteTask, StartHandler,
                    HandlerStep, HandlerCalls, HandlerResumes, EndHandler
  <2>. QED
    BY <2>stutter, <2>call, <2>release, <2>loop, <2>event DEF Next
<1>3. QED
  BY <1>1, <1>2, Invariance, PTL DEF Spec

\* No step mends a loop that an exception has left.
LEMMA FailedForGood == IInv /\ [Next]_vars /\ LoopFailed => LoopFailed'
<1> USE DEF LoopFailed, LoopOnTop, Polls, sharedVars, loopVars, callVars
<1> SUFFICES ASSUME IInv, [Next]_vars, LoopFailed PROVE LoopFailed'
  OBVIOUS
<1>1. handling = None /\ nested = None /\ cur = None
  BY DEF IInv, WorkerConsistent
<1>2. UNCHANGED worker \/ Terminate
  <2>1. ASSUME NEW c \in Calls, CallStep(c) PROVE UNCHANGED worker
    BY <2>1 DEF CallStep, GetRuntime, Enqueue, LoadPort, Wake, Return
  <2>2. ASSUME NEW r \in Releases, ReleaseStep(r) PROVE UNCHANGED worker
    BY <2>2 DEF ReleaseStep, Unregister, Shutdown, LoadPort, Wake, Join
  <2>3. ~LoopStep /\ ~EventStep /\ ~HandlerStep /\ ~LoopThrows
    BY <1>1 DEF LoopStep, Pop, Idle, Leave, DispatchNow, DispatchTask, DispatchBlocking,
               Turn, Teardown, EventStep, Unblock, CompleteTask, StartHandler,
               HandlerStep, HandlerCalls, HandlerResumes, EndHandler, LoopThrows
  <2>4. QED
    BY <2>1, <2>2, <2>3 DEF Next, vars
<1>3. QED
  BY <1>2 DEF Terminate

\* A step that changes the phase of one call moves that call.
LEMMA OneMoves ==
    ASSUME NEW c \in Calls, NEW p, Phase'[c] = p,
           \A d \in Calls \ {c} : Phase'[d] = Phase[d]
    PROVE  Service!Move(c, p)
<1>1. Phase' = [d \in Calls |-> Phase'[d]] /\ Phase = [d \in Calls |-> Phase[d]]
  BY DEF Phase
<1>2. QED
  BY <1>1 DEF Service!Move

LEMMA NoneMoves ==
    ASSUME \A d \in Calls : Phase'[d] = Phase[d]
    PROVE  Phase' = Phase
<1>1. Phase' = [d \in Calls |-> Phase'[d]] /\ Phase = [d \in Calls |-> Phase[d]]
  BY DEF Phase
<1>2. QED
  BY <1>1

\* What a call's phase depends on.
LEMMA SamePhase ==
    ASSUME NEW d \in Calls,
           reply'[d] = reply[d],
           d \in QueuedCalls' <=> d \in QueuedCalls,
           d = cur' \/ d \in tasks' <=> d = cur \/ d \in tasks
    PROVE  Phase'[d] = Phase[d]
BY DEF Phase

LEMMA NotYetTaken ==
    ASSUME IInv, NEW c \in Calls, pc[c] \in {"start", "enqueue"}
    PROVE  Phase[c] = "new" /\ c \notin QueuedCalls /\ c \notin tasks /\ c # cur /\ reply[c] = "none"
<1>1. c # None
  BY ConstantsAssumption DEF Invocations
<1>2. c \notin QueuedCalls \cup tasks \cup {cur} /\ reply[c] = "none"
  BY <1>1 DEF IInv, OwnedOnce, Pending, WorkerConsistent
<1>3. QED
  BY <1>2 DEF Phase

\* A call that is neither in line nor answered and that the worker holds.
LEMMA Held ==
    ASSUME IInv, NEW c \in Calls, c = cur \/ c \in tasks
    PROVE  Phase[c] = "started" /\ reply[c] = "none" /\ c \notin QueuedCalls
<1>1. c # None
  BY ConstantsAssumption DEF Invocations
<1>2. c \notin QueuedCalls /\ reply[c] = "none"
  BY <1>1 DEF IInv, OwnedOnce, NoDuplicates, Pending
<1>3. QED
  BY <1>2 DEF Phase

\* As long as the worker runs, Gate is what the release has done.
LEMMA GateOfRelease ==
    ASSUME IInv, ReleaseOrder, ~LoopFailed
    PROVE  /\ registered => Gate = "open" /\ ~stopping
           /\ ~stopping => Gate \in {"open", "closing"}
           /\ ~registered /\ ~stopping => Gate = "closing"
           /\ ~registered => Gate # "open"
           /\ stopping => Gate # "open"
BY DEF IInv, TypeOK, ReleaseOrder, WorkerConsistent, Gate

LEMMA CallStepRefines ==
    ASSUME IInv, ReleaseOrder, ~LoopFailed, NEW c \in Calls, CallStep(c)
    PROVE  [Service!Next]_Service!vars
<1> USE ConstantsAssumption DEF Invocations, At, Goto, Answer, sharedVars, loopVars
<1>1. TypeOK
  BY DEF IInv
<1>2. CASE LoadPort(c) \/ Wake(c) \/ Return(c)
  <2>1. UNCHANGED <<reply, queue, cur, tasks, worker, stopping, registered>>
    BY <1>2 DEF LoadPort, Wake, Return
  <2>2. UNCHANGED <<Phase, queue, Gate>>
    BY <2>1 DEF Phase, QueuedCalls, Gate
  <2>3. QED
    BY <2>2 DEF Service!vars
<1>3. CASE GetRuntime(c) \/ (Enqueue(c) /\ stopping)
  <2>1. UNCHANGED <<queue, cur, tasks, worker, stopping, registered>>
    BY <1>3 DEF GetRuntime, Enqueue
  <2>2. Gate' = Gate
    BY <2>1 DEF Gate
  <2>3. ASSUME NEW d \in Calls \ {c} PROVE Phase'[d] = Phase[d]
    <3>1. reply'[d] = reply[d]
      BY <1>1, <1>3 DEF GetRuntime, Enqueue, TypeOK
    <3>2. QED
      BY <2>1, <3>1 DEF Phase, QueuedCalls
  <2>4. /\ Phase[c] = "new" /\ reply[c] = "none"
        /\ c \notin QueuedCalls' /\ c # cur' /\ c \notin tasks'
    BY <1>3, <2>1, NotYetTaken DEF GetRuntime, Enqueue, QueuedCalls
  <2>5. CASE reply'[c] = "refused"
    <3>1. Phase'[c] = "away"
      BY <2>4, <2>5 DEF Phase
    <3>2. Gate # "open"
      BY <1>1, <1>3, <2>4, <2>5, GateOfRelease DEF GetRuntime, Enqueue, TypeOK
    <3>3. Service!TurnAway(c)
      BY <2>1, <2>2, <2>3, <2>4, <3>1, <3>2, OneMoves DEF Service!TurnAway
    <3>4. QED
      BY <3>3 DEF Service!Next
  <2>6. CASE reply'[c] = "answer"
    <3>1. Phase'[c] = "answered"
      BY <2>4, <2>6 DEF Phase
    <3>2. Gate = "open"
      BY <1>1, <1>3, <2>4, <2>6, GateOfRelease DEF GetRuntime, Enqueue, TypeOK
    <3>3. Service!AnswerInline(c)
      BY <2>1, <2>2, <2>3, <2>4, <3>1, <3>2, OneMoves DEF Service!AnswerInline
    <3>4. QED
      BY <3>3 DEF Service!Next
  <2>7. CASE reply'[c] = "none"
    <3>1. reply' = reply
      BY <1>1, <1>3, <2>4, <2>7 DEF GetRuntime, Enqueue, TypeOK
    <3>2. Phase' = Phase
      BY <2>1, <3>1 DEF Phase, QueuedCalls
    <3>3. QED
      BY <2>1, <2>2, <3>2 DEF Service!vars
  <2>8. QED
    BY <1>1, <1>3, <2>4, <2>5, <2>6, <2>7 DEF GetRuntime, Enqueue, TypeOK
<1>4. CASE Enqueue(c) /\ ~stopping
  <2>1. /\ UNCHANGED <<reply, cur, tasks, worker, stopping, registered>>
        /\ queue' = Append(queue, c)
        /\ pc[c] = "enqueue"
    BY <1>4 DEF Enqueue
  <2>2. Gate' = Gate /\ Gate \in {"open", "closing"}
    BY <1>4, <2>1, GateOfRelease DEF Gate
  <2>3. QueuedCalls' = QueuedCalls \cup {c}
    <3>1. Elements(Append(queue, c)) = Elements(queue) \cup {c}
      BY <1>1, AppendKeepsInjective DEF TypeOK
    <3>2. QED
      BY <3>1, <2>1 DEF Elements, QueuedCalls
  <2>4. ASSUME NEW d \in Calls \ {c} PROVE Phase'[d] = Phase[d]
    BY <2>1, <2>3, SamePhase
  <2>5. Phase[c] = "new" /\ Phase'[c] = "waiting"
    BY <2>1, <2>3, NotYetTaken DEF Phase
  <2>6. Service!TakeOn(c)
    BY <2>1, <2>2, <2>4, <2>5, OneMoves DEF Service!TakeOn
  <2>7. QED
    BY <2>6 DEF Service!Next
<1>5. QED
  BY <1>2, <1>3, <1>4 DEF CallStep

LEMMA ReleaseStepRefines ==
    ASSUME IInv, ReleaseOrder, ~LoopFailed, NEW r \in Releases, ReleaseStep(r)
    PROVE  [Service!Next]_Service!vars
<1> USE ConstantsAssumption DEF Invocations, At, Goto, sharedVars, loopVars, callVars
<1>1. UNCHANGED <<reply, queue, cur, tasks, worker>>
  BY DEF ReleaseStep, Unregister, Shutdown, LoadPort, Wake, Join
<1>2. UNCHANGED <<Phase, queue>>
  BY <1>1 DEF Phase, QueuedCalls
<1>3. CASE registered' = registered /\ stopping' = stopping
  <2>1. Gate' = Gate
    BY <1>1, <1>3 DEF Gate
  <2>2. QED
    BY <1>2, <2>1 DEF Service!vars
<1>4. CASE Unregister(r) /\ registered' # registered
  <2>1. registered /\ ~registered' /\ stopping' = stopping
    BY <1>4 DEF Unregister, IInv, TypeOK
  <2>2. Gate = "open" /\ ~stopping
    BY <2>1, GateOfRelease
  <2>3. worker # "exited"
    BY <2>2 DEF IInv, WorkerConsistent
  <2>4. Gate' = "closing"
    BY <1>1, <2>1, <2>2, <2>3 DEF Gate
  <2>5. Service!Close
    BY <1>2, <2>2, <2>4 DEF Service!Close
  <2>6. QED
    BY <2>5 DEF Service!Next
<1>5. CASE Shutdown(r) /\ stopping' # stopping
  <2>1. ~stopping /\ stopping' /\ registered' = registered /\ ~registered
    BY <1>5 DEF Shutdown, ReleaseOrder, IInv, TypeOK
  <2>2. Gate = "closing"
    BY <2>1, GateOfRelease
  <2>3. worker # "exited"
    BY <2>1 DEF IInv, WorkerConsistent
  <2>4. Gate' = "closed"
    BY <1>1, <2>1, <2>3 DEF Gate
  <2>5. Service!Close
    BY <1>2, <2>2, <2>4 DEF Service!Close
  <2>6. QED
    BY <2>5 DEF Service!Next
<1>6. QED
  BY <1>3, <1>4, <1>5 DEF ReleaseStep, Unregister, Shutdown, LoadPort, Wake, Join

\* A held call that is answered leaves the worker; nothing else moves.
LEMMA Finishes ==
    ASSUME IInv, NEW c \in Calls, c = cur \/ c \in tasks,
           c # cur', c \notin tasks',
           reply' = [reply EXCEPT ![c] = "answer"], queue' = queue, Gate' = Gate,
           \A d \in Calls \ {c} : d = cur' \/ d \in tasks' <=> d = cur \/ d \in tasks
    PROVE  Service!Next
<1>1. Phase[c] = "started"
  BY Held
<1>2. Phase'[c] = "answered"
  BY Held DEF Phase, IInv, TypeOK, QueuedCalls
<1>3. ASSUME NEW d \in Calls \ {c} PROVE Phase'[d] = Phase[d]
  BY SamePhase DEF IInv, TypeOK, QueuedCalls
<1>4. Service!Finish(c)
  BY <1>1, <1>2, <1>3, OneMoves DEF Service!Finish
<1>5. QED
  BY <1>4 DEF Service!Next

LEMMA LoopStepRefines ==
    ASSUME IInv, ReleaseOrder, ~LoopFailed, LoopStep
    PROVE  [Service!Next]_Service!vars
<1> USE ConstantsAssumption DEF Invocations, Answer, sharedVars, loopVars, callVars, LoopOnTop
<1>1. CASE Pop
  <2>1. /\ queue # <<>> /\ queue \in Seq(Calls) /\ Injective(queue) /\ cur = None
    BY <1>1 DEF Pop, IInv, TypeOK, OwnedOnce, NoDuplicates, Injective, WorkerConsistent
  <2>2. /\ Head(queue) \in QueuedCalls /\ Head(queue) \in Calls
        /\ Elements(Tail(queue)) = QueuedCalls \ {Head(queue)}
    BY <2>1, TailKeepsInjective DEF Elements, QueuedCalls
  <2>3. /\ cur' = Head(queue) /\ queue' = Tail(queue)
        /\ UNCHANGED <<reply, tasks, registered, stopping>>
        /\ worker = "check" /\ worker' = "dispatch"
    BY <1>1 DEF Pop
  <2>4. QueuedCalls' = QueuedCalls \ {Head(queue)}
    BY <2>2, <2>3 DEF Elements, QueuedCalls
  <2>5. Gate' = Gate
    BY <2>3 DEF Gate
  <2>6. ASSUME NEW d \in Calls \ {Head(queue)} PROVE Phase'[d] = Phase[d]
    BY <2>1, <2>3, <2>4, SamePhase
  <2>7. reply[Head(queue)] = "none"
    BY <2>2 DEF IInv, OwnedOnce, Pending
  <2>8. Phase'[Head(queue)] = "started"
    BY <2>2, <2>3, <2>4, <2>7 DEF Phase
  <2>9. Service!Start
    BY <2>1, <2>2, <2>3, <2>5, <2>6, <2>8, OneMoves DEF Service!Start
  <2>10. QED
    BY <2>9 DEF Service!Next
<1>2. CASE Idle \/ Leave \/ Turn \/ DispatchBlocking
  <2>1. /\ UNCHANGED <<reply, queue, cur, tasks, registered, stopping>>
        /\ worker # "exited" /\ worker' # "exited"
    BY <1>2 DEF Idle, Leave, Turn, DispatchBlocking
  <2>2. UNCHANGED <<Phase, queue, Gate>>
    BY <2>1 DEF Phase, QueuedCalls, Gate
  <2>3. QED
    BY <2>2 DEF Service!vars
<1>3. CASE DispatchTask
  <2>1. /\ UNCHANGED <<reply, queue, registered, stopping>>
        /\ worker # "exited" /\ worker' # "exited"
        /\ cur' = None /\ tasks' = tasks \cup {cur}
    BY <1>3 DEF DispatchTask
  <2>2. \A d \in Calls : Phase'[d] = Phase[d]
    BY <2>1 DEF Phase, QueuedCalls
  <2>3. Gate' = Gate
    BY <2>1 DEF Gate
  <2>4. QED
    BY <2>1, <2>2, <2>3, NoneMoves DEF Service!vars
<1>4. CASE DispatchNow
  <2>1. cur \in Calls /\ cur \notin tasks /\ cur # None
    BY <1>4 DEF DispatchNow, IInv, TypeOK, WorkerConsistent, OwnedOnce, NoDuplicates
  <2>2. /\ UNCHANGED <<queue, tasks, registered, stopping>>
        /\ worker # "exited" /\ worker' # "exited"
        /\ cur' = None /\ reply' = [reply EXCEPT ![cur] = "answer"]
    BY <1>4 DEF DispatchNow
  <2>3. Gate' = Gate
    BY <2>2 DEF Gate
  <2>4. QED
    BY <2>1, <2>2, <2>3, Finishes
<1>5. CASE Teardown
  <2>1. stopping /\ queue = <<>> /\ tasks = {} /\ cur = None /\ worker = "teardown"
    BY <1>5 DEF Teardown, IInv, WorkerConsistent
  <2>2. QueuedCalls = {} /\ Failable = {}
    BY <2>1, EmptySeq DEF QueuedCalls, Failable
  <2>3. /\ UNCHANGED <<reply, queue, tasks, cur, registered, stopping>>
        /\ worker' = "exited"
    BY <1>5, <2>1, <2>2 DEF Teardown, FailPendingCalls, IInv, TypeOK
  <2>4. Gate = "closed" /\ Gate' = "stopped"
    BY <2>1, <2>3 DEF Gate
  <2>5. Phase' = Phase
    BY <2>3 DEF Phase, QueuedCalls
  <2>6. \A c \in Calls : Phase[c] # "started"
    BY <2>1, <2>2 DEF Phase, IInv, TypeOK
  <2>7. Service!Stop
    BY <2>1, <2>3, <2>4, <2>5, <2>6 DEF Service!Stop
  <2>8. QED
    BY <2>7 DEF Service!Next
<1>6. QED
  BY <1>1, <1>2, <1>3, <1>4, <1>5 DEF LoopStep

LEMMA EventStepRefines ==
    ASSUME IInv, ReleaseOrder, ~LoopFailed, EventStep \/ HandlerStep
    PROVE  [Service!Next]_Service!vars
<1> USE ConstantsAssumption DEF Invocations, Answer, sharedVars, loopVars, callVars, LoopOnTop
<1>1. CASE Unblock
  <2>1. cur \in Calls /\ cur \notin tasks /\ cur # None
    BY <1>1 DEF Unblock, IInv, TypeOK, WorkerConsistent, OwnedOnce, NoDuplicates
  <2>2. Gate' = Gate
    BY <1>1 DEF Unblock, Gate
  <2>3. QED
    BY <1>1, <2>1, <2>2, Finishes DEF Unblock
<1>2. ASSUME NEW c \in Calls, CompleteTask(c)
      PROVE  Service!Next
  <2>1. c # cur
    BY <1>2 DEF CompleteTask, IInv, OwnedOnce, NoDuplicates
  <2>2. Gate' = Gate
    BY <1>2 DEF CompleteTask, Gate
  <2>3. QED
    BY <1>2, <2>1, <2>2, Finishes DEF CompleteTask
<1>3. CASE EndHandler
  <2>1. handling \in tasks /\ handling \in Calls /\ handling # cur
    BY <1>3 DEF EndHandler, IInv, TypeOK, WorkerConsistent, OwnedOnce, NoDuplicates
  <2>2. Gate' = Gate
    BY <1>3 DEF EndHandler, Gate
  <2>3. QED
    BY <1>3, <2>1, <2>2, Finishes DEF EndHandler
<1>4. ASSUME \/ \E c \in Calls : StartHandler(c)
             \/ HandlerResumes
             \/ \E x \in Invocations : HandlerCalls(x)
      PROVE  UNCHANGED Service!vars
  <2>1. UNCHANGED <<reply, queue, cur, tasks, worker, registered, stopping>>
    BY <1>4 DEF StartHandler, HandlerResumes, HandlerCalls
  <2>2. UNCHANGED <<Phase, queue, Gate>>
    BY <2>1 DEF Phase, QueuedCalls, Gate
  <2>3. QED
    BY <2>2 DEF Service!vars
<1>5. QED
  BY <1>1, <1>2, <1>3, <1>4 DEF EventStep, HandlerStep

\* Callers, releases and the worker together implement CallService: calls are
\* dispatched in the order they were accepted, each is answered once, only a
\* released runtime turns a call away, and the worker exits owing no answer.  An
\* exception that leaves the loop ends the service, and only that does.
THEOREM Refinement == Spec => ImplementsService
<1>1. Init => Service!Init
  <2>1. SUFFICES ASSUME Init PROVE Service!Init
    OBVIOUS
  <2>2. QueuedCalls = {} /\ queue = <<>>
    BY <2>1, EmptySeq DEF Init, QueuedCalls
  <2>3. Phase = [c \in Calls |-> "new"]
    BY <2>1, <2>2, ConstantsAssumption DEF Init, Phase, Invocations
  <2>4. Gate = "open"
    BY <2>1 DEF Init, Gate
  <2>5. QED
    BY <2>2, <2>3, <2>4 DEF Service!Init
<1>2. IInv /\ ReleaseOrder /\ [Next]_vars => [Service!Next \/ LoopFailed']_Service!vars
  <2>1. SUFFICES ASSUME IInv, ReleaseOrder, [Next]_vars, ~LoopFailed'
                 PROVE  [Service!Next]_Service!vars
    OBVIOUS
  <2>2. ~LoopFailed /\ ~LoopThrows /\ ~Terminate
    BY <2>1, FailedForGood DEF LoopThrows, Terminate, LoopFailed
  <2>3. CASE Next
    BY <2>1, <2>2, <2>3, CallStepRefines, ReleaseStepRefines, LoopStepRefines,
       EventStepRefines DEF Next
  <2>4. CASE UNCHANGED vars
    BY <2>4 DEF vars, callVars, sharedVars, loopVars, Service!vars, Phase, Gate, QueuedCalls
  <2>5. QED
    BY <2>1, <2>3, <2>4
<1>3. QED
  BY <1>1, <1>2, Invariance, ReleaseOrderInv, PTL
     DEF Spec, ImplementsService

\* A runtime whose event loop does not throw is a CallService.
THEOREM IsService == ~LoopMayThrow => (Spec => Service!Spec)
<1> SUFFICES ASSUME ~LoopMayThrow PROVE Spec => Service!Spec
  OBVIOUS
<1>1. IInv => ~LoopFailed
  BY DEF IInv, WorkerConsistent
<1>2. [Service!Next \/ LoopFailed']_Service!vars /\ ~LoopFailed' => [Service!Next]_Service!vars
  OBVIOUS
<1>3. QED
  BY <1>1, <1>2, Refinement, Invariance, PTL DEF ImplementsService, Service!Spec
=============================================================================
