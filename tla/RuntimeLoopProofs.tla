-------------------------- MODULE RuntimeLoopProofs --------------------------
(***************************************************************************)
(* Proofs about RuntimeLoop for every set of calls and releases.  The      *)
(* inductive invariant says where each completion is kept; the properties  *)
(* the runs check follow from it.                                          *)
(***************************************************************************)
EXTENDS RuntimeLoop, SequenceTheorems, TLAPS

Elements(s) == {s[i] : i \in DOMAIN s}
Injective(s) == \A i, j \in DOMAIN s : s[i] = s[j] => i = j

\* Appending a call that is not queued keeps the queue free of duplicates.
LEMMA AppendKeepsInjective ==
    ASSUME NEW S, NEW s \in Seq(S), NEW x \in S
    PROVE  /\ Append(s, x) \in Seq(S)
           /\ Elements(Append(s, x)) = Elements(s) \cup {x}
           /\ Injective(s) /\ x \notin Elements(s) => Injective(Append(s, x))
<1>1. /\ Append(s, x) \in Seq(S)
      /\ Len(Append(s, x)) = Len(s) + 1
      /\ \A i \in 1 .. Len(s) : Append(s, x)[i] = s[i]
      /\ Append(s, x)[Len(s) + 1] = x
  BY AppendProperties
<1>2. DOMAIN s = 1 .. Len(s) /\ Len(s) \in Nat
  BY LenProperties
<1>3. DOMAIN Append(s, x) = 1 .. Len(s) + 1
  BY <1>1, LenProperties
<1>4. Elements(Append(s, x)) = Elements(s) \cup {x}
  <2>1. ASSUME NEW y \in Elements(Append(s, x))
        PROVE  y \in Elements(s) \cup {x}
    <3>1. PICK i \in 1 .. Len(s) + 1 : y = Append(s, x)[i]
      BY <2>1, <1>3 DEF Elements
    <3>2. CASE i = Len(s) + 1
      BY <3>1, <3>2, <1>1
    <3>3. CASE i \in 1 .. Len(s)
      BY <3>1, <3>3, <1>1, <1>2 DEF Elements
    <3>4. QED
      BY <3>2, <3>3, <1>2
  <2>2. ASSUME NEW y \in Elements(s)
        PROVE  y \in Elements(Append(s, x))
    <3>1. PICK i \in 1 .. Len(s) : y = s[i]
      BY <1>2 DEF Elements
    <3>2. i \in DOMAIN Append(s, x) /\ y = Append(s, x)[i]
      BY <3>1, <1>1, <1>2, <1>3
    <3>3. QED
      BY <3>2 DEF Elements
  <2>3. x \in Elements(Append(s, x))
    BY <1>1, <1>2, <1>3 DEF Elements
  <2>4. QED
    BY <2>1, <2>2, <2>3
<1>5. ASSUME Injective(s), x \notin Elements(s),
             NEW i \in DOMAIN Append(s, x), NEW j \in DOMAIN Append(s, x),
             Append(s, x)[i] = Append(s, x)[j]
      PROVE  i = j
  <2>1. i \in 1 .. Len(s) + 1 /\ j \in 1 .. Len(s) + 1
    BY <1>3
  <2>2. CASE i \in 1 .. Len(s) /\ j \in 1 .. Len(s)
    BY <2>2, <1>1, <1>2, <1>5 DEF Injective
  <2>3. CASE i = Len(s) + 1 /\ j \in 1 .. Len(s)
    BY <2>3, <1>1, <1>2, <1>5 DEF Elements
  <2>4. CASE i \in 1 .. Len(s) /\ j = Len(s) + 1
    BY <2>4, <1>1, <1>2, <1>5 DEF Elements
  <2>5. QED
    BY <2>1, <2>2, <2>3, <2>4, <1>2
<1>6. QED
  BY <1>1, <1>4, <1>5 DEF Injective

\* Popping the head removes exactly it from a queue without duplicates.
LEMMA TailKeepsInjective ==
    ASSUME NEW S, NEW s \in Seq(S), s # <<>>, Injective(s)
    PROVE  /\ Head(s) \in Elements(s) /\ Head(s) \in S
           /\ Tail(s) \in Seq(S)
           /\ Elements(Tail(s)) = Elements(s) \ {Head(s)}
           /\ Injective(Tail(s))
<1>1. /\ Head(s) = s[1] /\ Head(s) \in S
      /\ Tail(s) \in Seq(S)
      /\ Len(Tail(s)) = Len(s) - 1
      /\ \A i \in 1 .. Len(Tail(s)) : Tail(s)[i] = s[i + 1]
  BY HeadTailProperties, SMT
<1>2. DOMAIN s = 1 .. Len(s) /\ Len(s) \in Nat /\ Len(s) >= 1
  BY LenProperties, EmptySeq
<1>3. DOMAIN Tail(s) = 1 .. Len(s) - 1
  BY <1>1, LenProperties
<1>4. Head(s) \in Elements(s)
  BY <1>1, <1>2 DEF Elements
<1>5. Elements(Tail(s)) = Elements(s) \ {Head(s)}
  <2>1. ASSUME NEW y \in Elements(Tail(s))
        PROVE  y \in Elements(s) \ {Head(s)}
    <3>1. PICK i \in 1 .. Len(s) - 1 : y = Tail(s)[i]
      BY <1>3 DEF Elements
    <3>2. y = s[i + 1] /\ i + 1 \in DOMAIN s /\ 1 \in DOMAIN s /\ i + 1 # 1
      BY <3>1, <1>1, <1>2, <1>3
    <3>3. QED
      BY <3>2, <1>1 DEF Elements, Injective
  <2>2. ASSUME NEW y \in Elements(s) \ {Head(s)}
        PROVE  y \in Elements(Tail(s))
    <3>1. PICK i \in 1 .. Len(s) : y = s[i]
      BY <1>2 DEF Elements
    <3>2. i - 1 \in DOMAIN Tail(s) /\ y = Tail(s)[i - 1]
      BY <3>1, <2>2, <1>1, <1>2, <1>3
    <3>3. QED
      BY <3>2 DEF Elements
  <2>3. QED
    BY <2>1, <2>2
<1>6. Injective(Tail(s))
  <2>1. SUFFICES ASSUME NEW i \in DOMAIN Tail(s), NEW j \in DOMAIN Tail(s),
                        Tail(s)[i] = Tail(s)[j]
                 PROVE  i = j
    BY DEF Injective
  <2>2. i + 1 \in DOMAIN s /\ j + 1 \in DOMAIN s /\ s[i + 1] = s[j + 1]
    BY <2>1, <1>1, <1>2, <1>3
  <2>3. i + 1 = j + 1
    BY <2>2 DEF Injective
  <2>4. QED
    BY <2>3, <1>3, <1>2
<1>7. QED
  BY <1>1, <1>4, <1>5, <1>6

-----------------------------------------------------------------------------
(* The inductive invariant.                                                *)

LEMMA InitIInv == Init => IInv
<1> SUFFICES ASSUME Init PROVE IInv
  OBVIOUS
<1>1. QueuedCalls = {} /\ queue \in Seq(Calls) /\ DOMAIN queue = {}
  BY EmptySeq DEF Init, QueuedCalls
<1>2. None \notin Calls /\ Calls \subseteq Invocations
  BY ConstantsAssumption DEF Invocations
<1>3. TypeOK
  BY <1>1, <1>2, ConstantsAssumption DEF Init, TypeOK, Labels, SiteAllowed
<1>4. OwnedOnce
  BY <1>1 DEF Init, OwnedOnce, NoDuplicates
<1>5. WorkerConsistent
  BY <1>2 DEF Init, WorkerConsistent, LoopFailed
<1>6. NoLostCall
  BY <1>2 DEF Init, NoLostCall, LoopFailed, Pending
<1>7. QED
  BY <1>3, <1>4, <1>5, <1>6 DEF IInv

LEMMA QueuedAreCalls == TypeOK => QueuedCalls \subseteq Calls
BY LenProperties, ElementOfSeq DEF TypeOK, QueuedCalls

LEMMA FailableAreQueued == Failable \subseteq QueuedCalls
BY DEF Failable, QueuedCalls

LEMMA CallStepIInv ==
    ASSUME IInv, NEW c \in Calls, CallStep(c)
    PROVE  IInv'
<1> USE ConstantsAssumption DEF Invocations
<1> USE DEF IInv, TypeOK, Labels, At, sharedVars, loopVars, callVars, Goto, Answer
<1>1. CASE GetRuntime(c)
  <2>1. TypeOK'
    BY <1>1 DEF GetRuntime
  <2>2. OwnedOnce'
    <3>1. c \notin QueuedCalls \cup tasks \cup ({cur} \ {None})
      BY <1>1 DEF GetRuntime, OwnedOnce, Pending
    <3>2. \A d \in Calls \ {c} : Pending(d) => Pending(d)'
      BY <1>1 DEF GetRuntime, Pending
    <3>3. UNCHANGED <<queue, tasks, cur>>
      BY <1>1 DEF GetRuntime
    <3>4. QueuedCalls \cup tasks \cup ({cur} \ {None}) \subseteq Calls
      BY QueuedAreCalls
    <3>5. QED
      BY <3>1, <3>2, <3>3, <3>4 DEF OwnedOnce, NoDuplicates, QueuedCalls
  <2>3. WorkerConsistent'
    BY <1>1 DEF GetRuntime, WorkerConsistent, LoopFailed
  <2>4. NoLostCall'
    BY <1>1 DEF GetRuntime, NoLostCall, LoopFailed, QueuedCalls, Pending
  <2>5. QED
    BY <2>1, <2>2, <2>3, <2>4
<1>2. CASE Enqueue(c) /\ stopping
  <2>1. TypeOK'
    BY <1>2 DEF Enqueue
  <2>2. OwnedOnce'
    BY <1>2 DEF Enqueue, OwnedOnce, NoDuplicates, QueuedCalls, Pending
  <2>3. WorkerConsistent'
    BY <1>2 DEF Enqueue, WorkerConsistent, LoopFailed
  <2>4. NoLostCall'
    BY <1>2 DEF Enqueue, NoLostCall, LoopFailed, QueuedCalls, Pending
  <2>5. QED
    BY <2>1, <2>2, <2>3, <2>4
<1>3. CASE Enqueue(c) /\ ~stopping
  <2>1. /\ queue' = Append(queue, c) /\ queue' \in Seq(Calls)
        /\ QueuedCalls' = QueuedCalls \cup {c}
        /\ c \notin QueuedCalls
        /\ Injective(queue')
    <3>1. c \notin QueuedCalls /\ Injective(queue)
      BY <1>3 DEF Enqueue, OwnedOnce, NoDuplicates, Pending, Injective
    <3>2. queue' = Append(queue, c)
      BY <1>3 DEF Enqueue
    <3>3. queue \in Seq(Calls) /\ c \notin Elements(queue)
      BY <3>1 DEF Elements, QueuedCalls
    <3>4. /\ queue' \in Seq(Calls)
          /\ Elements(queue') = Elements(queue) \cup {c}
          /\ Injective(queue')
      <4> HIDE DEF IInv, TypeOK
      <4>1. /\ Append(queue, c) \in Seq(Calls)
            /\ Elements(Append(queue, c)) = Elements(queue) \cup {c}
            /\ Injective(Append(queue, c))
        BY <3>1, <3>3, AppendKeepsInjective
      <4>2. QED
        BY <4>1, <3>2
    <3>5. QED
      BY <3>1, <3>2, <3>4 DEF Elements, QueuedCalls
  <2>2. TypeOK'
    BY <1>3, <2>1 DEF Enqueue
  <2>3. OwnedOnce'
    <3>1. NoDuplicates'
      <4>1. c # cur /\ c \notin tasks /\ cur' = cur /\ tasks' = tasks
        BY <1>3, ConstantsAssumption DEF Enqueue, OwnedOnce, Pending
      <4>2. QED
        BY <4>1, <2>1 DEF OwnedOnce, NoDuplicates, Injective
    <3>2. ASSUME NEW d \in QueuedCalls' \cup tasks' \cup ({cur'} \ {None})
          PROVE  Pending(d)'
      <4>1. d \in Calls
        BY <1>3, <2>1, QueuedAreCalls DEF Enqueue
      <4>2. CASE d = c
        BY <1>3, <4>2 DEF Enqueue, Pending, WorkerConsistent
      <4>3. CASE d # c
        BY <1>3, <2>1, <4>1, <4>3 DEF Enqueue, OwnedOnce, Pending
      <4>4. QED
        BY <4>2, <4>3
    <3>3. QED
      BY <3>1, <3>2 DEF OwnedOnce, Pending
  <2>4. WorkerConsistent'
    BY <1>3 DEF Enqueue, WorkerConsistent, LoopFailed
  <2>5. NoLostCall'
    BY <1>3, <2>1 DEF Enqueue, NoLostCall, LoopFailed, Pending
  <2>6. QED
    BY <2>2, <2>3, <2>4, <2>5
<1>4. CASE LoadPort(c) \/ Wake(c) \/ Return(c)
  <2>1. TypeOK'
    BY <1>4 DEF LoadPort, Wake, Return
  <2>2. OwnedOnce'
    BY <1>4 DEF LoadPort, Wake, Return, OwnedOnce, NoDuplicates, QueuedCalls, Pending
  <2>3. WorkerConsistent'
    BY <1>4 DEF LoadPort, Wake, Return, WorkerConsistent, LoopFailed
  <2>4. NoLostCall'
    BY <1>4 DEF LoadPort, Wake, Return, NoLostCall, LoopFailed, QueuedCalls, Pending
  <2>5. QED
    BY <2>1, <2>2, <2>3, <2>4
<1>5. QED
  BY <1>1, <1>2, <1>3, <1>4 DEF CallStep

LEMMA ReleaseStepIInv ==
    ASSUME IInv, NEW r \in Releases, ReleaseStep(r)
    PROVE  IInv'
<1> USE ConstantsAssumption DEF Invocations
<1> USE DEF IInv, TypeOK, Labels, At, sharedVars, loopVars, callVars, Goto, Answer
<1>1. r \in Invocations /\ r \notin Calls
  OBVIOUS
<1>2. /\ \A c \in Calls : pc'[c] = pc[c]
      /\ pc' \in [Invocations -> Labels]
      /\ UNCHANGED <<kind, site, reply, queue, loopVars, port>>
      /\ registered' \in BOOLEAN /\ stopping' \in BOOLEAN
      /\ stopping => stopping'
  BY <1>1 DEF ReleaseStep, Unregister, Shutdown, LoadPort, Wake, Join
<1>3. TypeOK'
  BY <1>2
<1>4. OwnedOnce'
  BY <1>2 DEF OwnedOnce, NoDuplicates, QueuedCalls, Pending
<1>5. WorkerConsistent'
  BY <1>2 DEF WorkerConsistent, LoopFailed
<1>6. NoLostCall'
  BY <1>2 DEF NoLostCall, LoopFailed, QueuedCalls, Pending
<1>7. QED
  BY <1>3, <1>4, <1>5, <1>6

LEMMA LoopStepIInv ==
    ASSUME IInv, LoopStep
    PROVE  IInv'
<1> USE ConstantsAssumption DEF Invocations
<1> USE DEF IInv, TypeOK, Labels, At, sharedVars, loopVars, callVars, Goto, Answer, LoopOnTop
<1>1. CASE Pop
  <2>1. cur = None
    BY <1>1 DEF Pop, WorkerConsistent
  <2>2. /\ cur' \in QueuedCalls /\ cur' \in Calls
        /\ queue' \in Seq(Calls)
        /\ QueuedCalls' = QueuedCalls \ {cur'}
        /\ Injective(queue')
    <3>1. queue \in Seq(Calls) /\ queue # <<>> /\ Injective(queue)
      BY <1>1 DEF Pop, OwnedOnce, NoDuplicates, Injective
    <3>2. /\ Head(queue) \in Elements(queue) /\ Head(queue) \in Calls
          /\ Tail(queue) \in Seq(Calls)
          /\ Elements(Tail(queue)) = Elements(queue) \ {Head(queue)}
          /\ Injective(Tail(queue))
      BY <3>1, TailKeepsInjective
    <3>3. cur' = Head(queue) /\ queue' = Tail(queue)
      BY <1>1 DEF Pop
    <3>4. Injective(queue')
      BY <3>2, <3>3
    <3>5. QED
      BY <3>2, <3>3, <3>4 DEF Elements, QueuedCalls
  <2>3. /\ UNCHANGED <<kind, site, callVars, registered, stopping, port, tasks, handling, nested>>
        /\ worker = "check" /\ worker' = "dispatch"
    BY <1>1 DEF Pop
  <2>4. TypeOK'
    BY <2>2, <2>3
  <2>5. OwnedOnce'
    <3>1. NoDuplicates'
      BY <2>2, <2>3 DEF OwnedOnce, NoDuplicates, Injective
    <3>2. QED
      BY <3>1, <2>2, <2>3 DEF OwnedOnce, Pending
  <2>6. WorkerConsistent'
    BY <2>2, <2>3 DEF WorkerConsistent, LoopFailed
  <2>7. NoLostCall'
    BY <2>1, <2>2, <2>3 DEF NoLostCall, LoopFailed, Pending
  <2>8. QED
    BY <2>4, <2>5, <2>6, <2>7
<1>2. CASE Idle \/ Leave \/ Turn
  <2>1. TypeOK'
    BY <1>2 DEF Idle, Leave, Turn
  <2>2. OwnedOnce'
    BY <1>2 DEF Idle, Leave, Turn, OwnedOnce, NoDuplicates, QueuedCalls, Pending
  <2>3. WorkerConsistent'
    BY <1>2 DEF Idle, Leave, Turn, WorkerConsistent, LoopFailed
  <2>4. NoLostCall'
    BY <1>2 DEF Idle, Leave, Turn, NoLostCall, LoopFailed, QueuedCalls, Pending
  <2>5. QED
    BY <2>1, <2>2, <2>3, <2>4
<1>3. CASE DispatchNow \/ DispatchTask \/ DispatchBlocking
  <2>1. cur \in Calls /\ cur # None
    BY <1>3 DEF DispatchNow, DispatchTask, DispatchBlocking, WorkerConsistent
  <2>2. TypeOK'
    BY <1>3, <2>1 DEF DispatchNow, DispatchTask, DispatchBlocking
  <2>3. OwnedOnce'
    BY <1>3, <2>1 DEF DispatchNow, DispatchTask, DispatchBlocking,
                      OwnedOnce, NoDuplicates, QueuedCalls, Pending
  <2>4. WorkerConsistent'
    BY <1>3, <2>1 DEF DispatchNow, DispatchTask, DispatchBlocking,
                      WorkerConsistent, LoopFailed, OwnedOnce, Pending
  <2>5. NoLostCall'
    BY <1>3, <2>1 DEF DispatchNow, DispatchTask, DispatchBlocking,
                      NoLostCall, LoopFailed, QueuedCalls, Pending
  <2>6. QED
    BY <2>2, <2>3, <2>4, <2>5
<1>4. CASE Teardown
  <2>1. QueuedCalls' = {} /\ queue' = <<>>
    BY <1>4, EmptySeq DEF Teardown, FailPendingCalls, QueuedCalls
  <2>2. cur = None /\ cur' = None /\ tasks' = tasks /\ pc' = pc
    BY <1>4 DEF Teardown, WorkerConsistent
  <2>3. reply' = reply
    <3>1. Failable = {}
      BY <1>4, EmptySeq DEF Teardown, WorkerConsistent, Failable
    <3>2. QED
      BY <1>4, <3>1 DEF Teardown, FailPendingCalls
  <2>4. TypeOK'
    <3>1. queue' \in Seq(Calls)
      BY <2>1, EmptySeq
    <3>2. QED
      BY <1>4, <2>3, <3>1 DEF Teardown
  <2>5. OwnedOnce'
    <3>1. NoDuplicates'
      BY <2>1, <2>2, EmptySeq DEF NoDuplicates
    <3>2. QED
      BY <3>1, <2>1, <2>2, <2>3 DEF OwnedOnce, NoDuplicates, Pending
  <2>6. WorkerConsistent'
    BY <1>4, <2>1, <2>2, <2>3 DEF Teardown, WorkerConsistent, LoopFailed, OwnedOnce, Pending
  <2>7. NoLostCall'
    <3>1. \A d \in Calls : ~Pending(d)
      BY <1>4, <2>2, EmptySeq
         DEF Teardown, WorkerConsistent, NoLostCall, LoopFailed, QueuedCalls
    <3>2. QED
      BY <3>1, <2>2, <2>3 DEF NoLostCall, Pending
  <2>8. QED
    BY <2>4, <2>5, <2>6, <2>7
<1>5. QED
  BY <1>1, <1>2, <1>3, <1>4 DEF LoopStep

LEMMA EventStepIInv ==
    ASSUME IInv, EventStep
    PROVE  IInv'
<1> USE ConstantsAssumption DEF Invocations
<1> USE DEF IInv, TypeOK, Labels, At, sharedVars, loopVars, callVars, Goto, Answer,
            LoopOnTop, Polls
<1>1. CASE Unblock
  <2>1. cur \in Calls /\ cur # None
    BY <1>1 DEF Unblock, WorkerConsistent
  <2>2. TypeOK'
    BY <1>1, <2>1 DEF Unblock
  <2>3. OwnedOnce'
    BY <1>1, <2>1 DEF Unblock, OwnedOnce, NoDuplicates, QueuedCalls, Pending
  <2>4. WorkerConsistent'
    BY <1>1, <2>1 DEF Unblock, WorkerConsistent, LoopFailed, OwnedOnce, Pending
  <2>5. NoLostCall'
    BY <1>1, <2>1 DEF Unblock, NoLostCall, LoopFailed, QueuedCalls, Pending
  <2>6. QED
    BY <2>2, <2>3, <2>4, <2>5
<1>2. ASSUME NEW c \in Calls, CompleteTask(c) \/ StartHandler(c)
      PROVE  IInv'
  <2>1. TypeOK'
    BY <1>2 DEF CompleteTask, StartHandler
  <2>2. OwnedOnce'
    BY <1>2 DEF CompleteTask, StartHandler, OwnedOnce, NoDuplicates, QueuedCalls, Pending
  <2>3. WorkerConsistent'
    BY <1>2 DEF CompleteTask, StartHandler, WorkerConsistent, LoopFailed, OwnedOnce, Pending
  <2>4. NoLostCall'
    BY <1>2 DEF CompleteTask, StartHandler, NoLostCall, LoopFailed, QueuedCalls, Pending
  <2>5. QED
    BY <2>1, <2>2, <2>3, <2>4
<1>3. QED
  BY <1>1, <1>2 DEF EventStep

LEMMA HandlerStepIInv ==
    ASSUME IInv, HandlerStep
    PROVE  IInv'
<1> USE ConstantsAssumption DEF Invocations
<1> USE DEF IInv, TypeOK, Labels, At, sharedVars, loopVars, callVars, Goto, Answer
<1>1. CASE EndHandler
  <2>1. handling \in tasks /\ handling \in Calls /\ handling # cur
    BY <1>1 DEF EndHandler, WorkerConsistent, LoopFailed, OwnedOnce, NoDuplicates
  <2>2. TypeOK'
    BY <1>1, <2>1 DEF EndHandler
  <2>3. OwnedOnce'
    BY <1>1, <2>1 DEF EndHandler, OwnedOnce, NoDuplicates, QueuedCalls, Pending
  <2>4. WorkerConsistent'
    BY <1>1, <2>1 DEF EndHandler, WorkerConsistent, LoopFailed, OwnedOnce, Pending
  <2>5. NoLostCall'
    BY <1>1, <2>1 DEF EndHandler, NoLostCall, LoopFailed, QueuedCalls, Pending
  <2>6. QED
    BY <2>2, <2>3, <2>4, <2>5
<1>2. ASSUME HandlerResumes \/ \E x \in Invocations : HandlerCalls(x)
      PROVE  IInv'
  <2>1. /\ UNCHANGED <<kind, site, callVars, sharedVars, worker, cur, tasks, handling>>
        /\ nested' \in Invocations \cup {None}
        /\ nested' # None => handling # None
    BY <1>2 DEF HandlerResumes, HandlerCalls, WorkerConsistent
  <2>2. TypeOK'
    BY <2>1
  <2>3. OwnedOnce'
    BY <2>1 DEF OwnedOnce, NoDuplicates, QueuedCalls, Pending
  <2>4. WorkerConsistent'
    BY <2>1 DEF WorkerConsistent, LoopFailed
  <2>5. NoLostCall'
    BY <2>1 DEF NoLostCall, LoopFailed, QueuedCalls, Pending
  <2>6. QED
    BY <2>2, <2>3, <2>4, <2>5
<1>3. QED
  BY <1>1, <1>2 DEF HandlerStep

LEMMA LoopThrowsIInv ==
    ASSUME IInv, LoopThrows
    PROVE  IInv'
<1> USE ConstantsAssumption DEF Invocations
<1> USE DEF IInv, TypeOK, Labels, At, sharedVars, loopVars, callVars, LoopOnTop
<1>1. LoopMayThrow /\ QueuedCalls' = {} /\ queue' = <<>> /\ tasks' = {}
  BY EmptySeq DEF LoopThrows, FailPendingCalls, QueuedCalls
<1>2. cur = None /\ cur' = None
  BY DEF LoopThrows, WorkerConsistent
<1>3. \A c \in Calls : reply'[c] = IF c \in Failable THEN "refused" ELSE reply[c]
  BY DEF LoopThrows, FailPendingCalls
<1>4. TypeOK'
  <2>1. queue' \in Seq(Calls)
    BY <1>1, EmptySeq
  <2>2. reply' \in [Calls -> {"none", "answer", "refused"}]
    BY DEF LoopThrows, FailPendingCalls
  <2>3. QED
    BY <1>1, <2>1, <2>2 DEF LoopThrows
<1>5. OwnedOnce'
  <2>1. NoDuplicates'
    BY <1>1, <1>2, EmptySeq DEF NoDuplicates
  <2>2. QED
    BY <2>1, <1>1, <1>2 DEF OwnedOnce
<1>6. WorkerConsistent'
  BY <1>1, <1>2, <1>3, FailableAreQueued
     DEF LoopThrows, WorkerConsistent, LoopFailed, OwnedOnce, Pending
<1>7. NoLostCall'
  BY DEF LoopThrows, NoLostCall, LoopFailed
<1>8. QED
  BY <1>4, <1>5, <1>6, <1>7

LEMMA TerminateIInv ==
    ASSUME IInv, Terminate
    PROVE  IInv'
<1> USE DEF IInv, TypeOK, Terminate, sharedVars, callVars, LoopFailed
<1>1. TypeOK'
  OBVIOUS
<1>2. OwnedOnce'
  BY DEF OwnedOnce, NoDuplicates, QueuedCalls, Pending
<1>3. WorkerConsistent'
  BY DEF WorkerConsistent
<1>4. NoLostCall'
  BY DEF NoLostCall
<1>5. QED
  BY <1>1, <1>2, <1>3, <1>4

LEMMA NextIInv == IInv /\ [Next]_vars => IInv'
<1> SUFFICES ASSUME IInv, [Next]_vars PROVE IInv'
  OBVIOUS
<1>1. CASE UNCHANGED vars
  BY <1>1 DEF IInv, vars, TypeOK, sharedVars, loopVars, callVars, OwnedOnce,
              NoDuplicates, QueuedCalls, Pending, WorkerConsistent, NoLostCall, LoopFailed
<1>2. CASE Next
  BY <1>2, CallStepIInv, ReleaseStepIInv, LoopStepIInv, EventStepIInv,
     HandlerStepIInv, LoopThrowsIInv, TerminateIInv DEF Next
<1>3. QED
  BY <1>1, <1>2

\* Every completion the runtime has accepted is kept in exactly the places the
\* invariant names, in every reachable state of any number of calls and releases.
THEOREM Invariance == Spec => []IInv
<1>1. Init => IInv
  BY InitIInv
<1>2. IInv /\ [Next]_vars => IInv'
  BY NextIInv
<1>3. QED
  BY <1>1, <1>2, PTL DEF Spec

-----------------------------------------------------------------------------
(* The properties.                                                         *)

\* The variables of the runtime keep their types.
THEOREM TypeCorrect == Spec => []TypeOK
<1>1. IInv => TypeOK
  BY DEF IInv
<1>2. QED
  BY <1>1, Invariance, PTL

\* No completion is owned twice, and none is owned after its thread was answered:
\* completeX runs at most once for each accepted operation.
THEOREM OneOwner == Spec => []OwnedOnce
<1>1. IInv => OwnedOnce
  BY DEF IInv
<1>2. QED
  BY <1>1, Invariance, PTL

\* The queue, dispatch, tasks and teardown lose no accepted call: only an exception
\* that leaves the event loop does.
THEOREM NoneLost == Spec => []NoLostCall
<1>1. IInv => NoLostCall
  BY DEF IInv
<1>2. QED
  BY <1>1, Invariance, PTL

\* When the worker has left its loop and exited, the drained queue and TaskSet have
\* answered everybody: no thread is left on its condition variable.
THEOREM NoneLeftWaiting == Spec => []NobodyLeftWaiting
<1>1. IInv => NobodyLeftWaiting
  <2>1. SUFFICES ASSUME IInv, worker = "exited",
                        NEW c \in Calls, Pending(c)
                 PROVE  FALSE
    BY DEF NobodyLeftWaiting
  <2>2. tasks = {} /\ queue = <<>> /\ cur = None
    BY <2>1 DEF IInv, WorkerConsistent
  <2>3. QueuedCalls = {}
    BY <2>2, EmptySeq DEF QueuedCalls
  <2>4. c \in QueuedCalls \cup tasks \cup {cur}
    BY <2>1 DEF IInv, NoLostCall, LoopFailed
  <2>5. QED
    BY <2>2, <2>3, <2>4, ConstantsAssumption DEF Invocations
<1>2. QED
  BY <1>1, Invariance, PTL

\* completeX runs once: no step changes a reply that has been given.
THEOREM AnswersStay == Spec => AnsweredOnce
<1> USE ConstantsAssumption DEF Invocations, At, Goto, Answer, LoopOnTop, Polls,
        sharedVars, loopVars, callVars
<1>1. ASSUME IInv, [Next]_vars, NEW d \in Calls, reply[d] # "none"
      PROVE  reply'[d] = reply[d]
  <2> USE <1>1 DEF IInv, TypeOK, OwnedOnce, Pending, WorkerConsistent
  <2>1. ASSUME NEW c \in Calls, CallStep(c)
        PROVE  reply'[d] = reply[d]
    BY <2>1 DEF CallStep, GetRuntime, Enqueue, LoadPort, Wake, Return
  <2>2. ASSUME NEW r \in Releases, ReleaseStep(r)
        PROVE  reply'[d] = reply[d]
    BY <2>2 DEF ReleaseStep, Unregister, Shutdown, LoadPort, Wake, Join
  <2>3. CASE LoopStep /\ ~Teardown
    BY <2>3 DEF LoopStep, Pop, Idle, Leave, DispatchNow, DispatchTask, DispatchBlocking, Turn
  <2>4. CASE Teardown \/ LoopThrows
    <3>1. d \notin QueuedCalls
      OBVIOUS
    <3>2. QED
      BY <2>4, <3>1, FailableAreQueued DEF Teardown, LoopThrows, FailPendingCalls
  <2>5. CASE EventStep
    BY <2>5 DEF EventStep, Unblock, CompleteTask, StartHandler
  <2>6. CASE HandlerStep
    BY <2>6 DEF HandlerStep, HandlerCalls, HandlerResumes, EndHandler
  <2>7. CASE UNCHANGED vars \/ Terminate
    BY <2>7 DEF vars, Terminate
  <2>8. QED
    BY <1>1, <2>1, <2>2, <2>3, <2>4, <2>5, <2>6, <2>7 DEF Next
<1>2. IInv /\ [Next]_vars => [\A c \in Calls : reply[c] # "none" => reply'[c] = reply[c]]_vars
  BY <1>1
<1>3. QED
  BY <1>2, Invariance, PTL DEF Spec, AnsweredOnce
=============================================================================
