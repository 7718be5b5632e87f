--------------------------- MODULE KjAsyncProofs ----------------------------
(***************************************************************************)
(* The safety properties of the KjAsync runtime for any number of calls,   *)
(* any client programs and any size of the id space.  KjStreamsProofs has  *)
(* one lemma per operation for the tables; here they are put together, and *)
(* the second half shows that the thread never waits in vain.              *)
(***************************************************************************)
EXTENDS KjAsync, KjStreamsProofs

\* NoLostCall needs the order of the release, OneOwner needs to know that what is owned
\* is its own root; EveryHandleGranted needs completions that are written once.
IInv == LoopInv /\ HeapInv /\ EveryHandleGranted

LEMMA PerformKeeps == ASSUME LoopInv, HeapInv, Perform PROVE Kept
BY RunPromisesKeeps, RunArraysKeeps, RunTaskSetsKeeps, RunListenersKeeps, RunAddressesKeeps,
   RunConnectionPromisesKeeps, RunConnectionsKeeps, RunConnectionEndsKeeps, RunWrapsKeeps,
   RunDatagramsKeeps, RunDatagramReceivesKeeps DEF Perform

\* An extern function enqueues and touches no table.
LEMMA CallXKeeps == ASSUME LoopInv, HeapInv, NEW c \in Calls, CallX(c) PROVE Kept
<1>1. \E requests : Enqueue(c, requests) /\ UNCHANGED <<heapVars, wait>>
  BY DEF CallX, Submit, CallSleep, CallPromise, CallThenCatch, CallAllRace, CallTaskSet,
     CallTaskSetState, CallTaskSetErrors, CallListener, CallConnect, CallAddress,
     CallAddressUse, CallConnectionPromise, CallReleaseConnection, CallTransfer,
     CallBytesPromise, CallShutdownWrite, CallConnectionEnds, CallWrap, CallWrapOther,
     CallPipe, CallDatagram, CallUInt32Promise, CallDatagramReceive
<1>2. QED
  BY <1>1, OutsideKeeps

LEMMA NextKeeps == ASSUME LoopInv, HeapInv, [Next]_vars PROVE Kept
<1>1. CASE \E c \in Calls : (Begin(c) /\ UNCHANGED <<heapVars, wait>>) \/ CallX(c)
  BY <1>1, OutsideKeeps, CallXKeeps
<1>2. CASE Release \/ TakeNext \/ UNCHANGED vars
  <2>1. /\ UNCHANGED <<heapVars, wait>>
        /\ Unregister \/ Shutdown \/ Join \/ Pop \/ UNCHANGED loopVars
    BY <1>2 DEF Release, TakeNext, vars
  <2>2. QED
    BY <2>1, OutsideKeeps
<1>3. CASE Perform
  BY <1>3, PerformKeeps
<1>4. CASE SettleSure \/ SettlePeer \/ ReapTask \/ Resume \/ TimeOut
  BY <1>4, EventsKeep, ResumeKeeps, TimingOutKeeps
<1>5. CASE Teardown
  BY <1>5, TeardownKeeps DEF Teardown
<1>6. QED
  BY <1>1, <1>2, <1>3, <1>4, <1>5 DEF Next

\* The inductive invariant holds throughout.
THEOREM Invariance == Spec => []IInv
<1>1. Init => IInv
  <2>1. SUFFICES ASSUME Init PROVE IInv
    OBVIOUS
  <2>2. LoopInv /\ HeapInv
    BY <2>1, LoopInitOK, HeapInitOK DEF Init
  <2>3. EveryHandleGranted
    BY <2>1 DEF Init, HeapInit, EveryHandleGranted, Busy
  <2>4. QED
    BY <2>2, <2>3 DEF IInv
<1>2. IInv /\ [Next]_vars => IInv'
  BY NextKeeps, LoopStepKeeps DEF IInv, Kept
<1>3. QED
  BY <1>1, <1>2, PTL DEF Spec

\* Every variable keeps its type: ids stay within the counter's range, every node named by
\* a table, a task set or the wait exists, and the thread waits only inside an operation.
THEOREM TypeCorrect == Spec => []TypeOK
<1>1. IInv => TypeOK
  BY DEF IInv, LoopInv, HeapInv, TypeOK
<1>2. QED
  BY <1>1, Invariance, PTL

\* A blocked caller is in the queue or being served, once, and nobody is left behind when
\* run() returns.
THEOREM CallsNotLost == Spec => []NoLostCall
<1>1. IInv => NoLostCall
  BY DEF IInv, LoopInv
<1>2. QED
  BY <1>1, Invariance, PTL

\* No promise has two owners, whatever combinators, task sets, awaits and releases the
\* clients put it through, and whatever ids were used again.
THEOREM PromisesOwnedOnce == Spec => []OneOwner
<1>1. IInv => OneOwner
  BY SingleIsOneOwner DEF IInv
<1>2. QED
  BY <1>1, Invariance, PTL

\* retiredPromiseIds_ and promises_ are disjoint, also after the counter has wrapped.
THEOREM RetiredStayGone == Spec => []RetiredIsGone
<1>1. IInv => RetiredIsGone
  BY DEF IInv, HeapInv
<1>2. QED
  BY <1>1, Invariance, PTL

\* Every entry of a table was granted to a call: nothing is kept that nobody can release.
THEOREM NothingKeptUnseen == Spec => []EveryHandleGranted
<1>1. IInv => EveryHandleGranted
  BY DEF IInv
<1>2. QED
  BY <1>1, Invariance, PTL

\* Callers see CallService: operations are served in the order they were queued, each is
\* answered once, only a released runtime refuses, and the thread ends owing nothing.
THEOREM Refinement == Spec => ImplementsService
<1>1. Init => Service!Init
  BY ServiceInitOK DEF Init
<1>2. IInv /\ [Next]_vars => [Service!Next]_Service!vars
  BY NextKeeps, LoopStepRefines DEF IInv, Kept
<1>3. QED
  BY <1>1, <1>2, Invariance, PTL DEF Spec, ImplementsService, Service!Spec

-----------------------------------------------------------------------------
(* The thread never waits in vain.  WaitCanEnd is not inductive: it needs  *)
(* to know what every promise that is still alive can be waiting for.      *)

\* Somebody owns n, when the tables, the sets and the wait are as given.
HeldIn(n, table, taskSets, waiting) ==
    \/ \E ty \in PromiseTypes : \E i \in Ids : table[ty][i] = n
    \/ \E s \in Ids : n \in taskSets[s].tasks
    \/ waiting.node = n

\* Combinators have the parts that their outcome is read from.
PlainNodes ==
    \A n \in Nodes :
       /\ nodes[n].kind \in {"sure", "io", "send", "empty", "then", "catch", "all", "race"}
       /\ nodes[n].kind \in {"then", "catch"} => DOMAIN nodes[n].parts = 1..2
       /\ nodes[n].kind = "race" => DOMAIN nodes[n].parts # {}

\* A part has its combinator's root, and above it the combinator and what is above that.
UnderOne ==
    \A n \in Nodes :
       /\ nodes[n].above \subseteq Nodes
       /\ nodes[n].root = n => nodes[n].above = {}
       /\ \A k \in DOMAIN nodes[n].parts :
             /\ nodes[nodes[n].parts[k]].root = nodes[n].root
             /\ nodes[nodes[n].parts[k]].above \subseteq nodes[n].above \cup {n}

\* A promise of onEmpty that is still alive is the one its set will fulfill, and the set
\* still has a task to lose.
Backed(n) == /\ nodes[n].on[2] \in Ids
             /\ sets[nodes[n].on[2]].empty = n
             /\ sets[nodes[n].on[2]].tasks # {}

EmptyBacked == \A n \in Nodes : nodes[n].kind = "empty" /\ Live(n) => Backed(n)

NoSetNoTasks == \A s \in Ids : s \notin objects["taskSet"] => sets[s].tasks = {}

\* promiseThen and promiseCatch are only ever asked with two ids, promiseRace with two or none.
WellAsked(request) ==
    /\ request[1] \in {"promiseThen", "promiseCatch"} => DOMAIN request[2] = 1..2
    /\ request[1] = "promiseRace" => request[2] = <<>> \/ DOMAIN request[2] = 1..2

AskedWell == \A c \in Calls : WellAsked(req[c])

WaitInv == PlainNodes /\ UnderOne /\ EmptyBacked /\ NoSetNoTasks /\ AskedWell

LEMMA LiveIsHeld ==
    ASSUME NEW n
    PROVE  Live(n) <=> /\ nodes[n].st = "pending"
                       /\ \A a \in nodes[n].above : nodes[a].st = "pending"
                       /\ HeldIn(nodes[n].root, promises, sets, wait)
<1> DEFINE m == nodes[n].root
           tables == UNION {{<<ty, i>> : i \in {j \in Ids : promises[ty][j] = m}} : ty \in PromiseTypes}
           tasks == {<<"taskSet", s>> : s \in {t \in Ids : m \in sets[t].tasks}}
           waits == IF wait.node = m THEN {<<"wait", 0>>} ELSE {}
<1>1. Live(n) <=> /\ nodes[n].st = "pending"
                  /\ \A a \in nodes[n].above : nodes[a].st = "pending"
                  /\ tables \cup tasks \cup waits # {}
  BY DEF Live, Pending, Owners
<1> HIDE DEF m
<1>2. tables # {} <=> \E ty \in PromiseTypes : \E i \in Ids : promises[ty][i] = m
  <2>1. ASSUME NEW a \in tables PROVE \E ty \in PromiseTypes : \E i \in Ids : promises[ty][i] = m
    OBVIOUS
  <2>2. ASSUME NEW ty \in PromiseTypes, NEW i \in Ids, promises[ty][i] = m
        PROVE  <<ty, i>> \in tables
    BY <2>2
  <2>3. QED
    BY <2>1, <2>2
<1>3. tasks # {} <=> \E s \in Ids : m \in sets[s].tasks
  <2>1. ASSUME NEW s \in Ids, m \in sets[s].tasks PROVE <<"taskSet", s>> \in tasks
    BY <2>1
  <2>2. QED
    BY <2>1
<1>4. waits # {} <=> wait.node = m
  OBVIOUS
<1> HIDE DEF tables, tasks, waits
<1>5. QED
  BY <1>1, <1>2, <1>3, <1>4 DEF HeldIn, m

LEMMA LiveIsHeldNext ==
    ASSUME NEW n
    PROVE  Live(n)' <=> /\ nodes'[n].st = "pending"
                        /\ \A a \in nodes'[n].above : nodes'[a].st = "pending"
                        /\ HeldIn(nodes'[n].root, promises', sets', wait')
<1> DEFINE m == nodes'[n].root
           tables == UNION {{<<ty, i>> : i \in {j \in Ids : promises'[ty][j] = m}} : ty \in PromiseTypes}
           tasks == {<<"taskSet", s>> : s \in {t \in Ids : m \in sets'[t].tasks}}
           waits == IF wait'.node = m THEN {<<"wait", 0>>} ELSE {}
<1>1. Live(n)' <=> /\ nodes'[n].st = "pending"
                   /\ \A a \in nodes'[n].above : nodes'[a].st = "pending"
                   /\ tables \cup tasks \cup waits # {}
  BY DEF Live, Pending, Owners
<1> HIDE DEF m
<1>2. tables # {} <=> \E ty \in PromiseTypes : \E i \in Ids : promises'[ty][i] = m
  <2>1. ASSUME NEW a \in tables PROVE \E ty \in PromiseTypes : \E i \in Ids : promises'[ty][i] = m
    OBVIOUS
  <2>2. ASSUME NEW ty \in PromiseTypes, NEW i \in Ids, promises'[ty][i] = m
        PROVE  <<ty, i>> \in tables
    BY <2>2
  <2>3. QED
    BY <2>1, <2>2
<1>3. tasks # {} <=> \E s \in Ids : m \in sets'[s].tasks
  <2>1. ASSUME NEW s \in Ids, m \in sets'[s].tasks PROVE <<"taskSet", s>> \in tasks
    BY <2>1
  <2>2. QED
    BY <2>1
<1>4. waits # {} <=> wait'.node = m
  OBVIOUS
<1> HIDE DEF tables, tasks, waits
<1>5. QED
  BY <1>1, <1>2, <1>3, <1>4 DEF HeldIn, m

\* Of the promises made so far only the status changes, and never back to pending.
SameShape ==
    /\ Nodes \subseteq Nodes'
    /\ \A n \in Nodes :
          /\ nodes'[n].kind = nodes[n].kind /\ nodes'[n].on = nodes[n].on
          /\ nodes'[n].parts = nodes[n].parts /\ nodes'[n].root = nodes[n].root
          /\ nodes'[n].above = nodes[n].above
          /\ nodes'[n].st = "pending" => nodes[n].st = "pending"

\* At most one promise is new, and it waits for no other.
OneLeaf(kinds) ==
    /\ Nodes' \subseteq Nodes \cup {NewNode}
    /\ NewNode \in Nodes' =>
          /\ nodes'[NewNode].kind \in kinds /\ nodes'[NewNode].parts = <<>>
          /\ nodes'[NewNode].above = {}

\* Nobody gets a promise that nobody had.
NothingCaught ==
    \A n \in Nodes : HeldIn(n, promises', sets', wait') => HeldIn(n, promises, sets, wait)

LEMMA NotRevived ==
    ASSUME HeapInv, UnderOne, SameShape, NothingCaught, NEW n \in Nodes, Live(n)'
    PROVE  Live(n)
<1>1. nodes[n].root \in Nodes /\ nodes[n].above \subseteq Nodes
  BY DEF HeapInv, HeapTypeOK, NodesTypeOK, UnderOne
<1>2. /\ nodes'[n].st = "pending"
      /\ \A a \in nodes'[n].above : nodes'[a].st = "pending"
      /\ HeldIn(nodes'[n].root, promises', sets', wait')
  BY LiveIsHeldNext
<1>3. nodes[n].st = "pending" /\ \A a \in nodes[n].above : nodes[a].st = "pending"
  BY <1>1, <1>2 DEF SameShape
<1>4. HeldIn(nodes[n].root, promises, sets, wait)
  BY <1>1, <1>2 DEF SameShape, NothingCaught
<1>5. QED
  BY <1>3, <1>4, LiveIsHeld

LEMMA ShapeKept ==
    ASSUME HeapInv, PlainNodes, UnderOne, SameShape,
           OneLeaf({"sure", "io", "send", "empty"})
    PROVE  PlainNodes' /\ UnderOne'
<1>1. ASSUME NEW n \in Nodes', n \notin Nodes
      PROVE  /\ nodes'[n].kind \in {"sure", "io", "send", "empty"}
             /\ DOMAIN nodes'[n].parts = {} /\ nodes'[n].above = {}
  <2>1. n = NewNode /\ NewNode \in Nodes'
    BY <1>1 DEF OneLeaf
  <2>2. DOMAIN <<>> = {}
    OBVIOUS
  <2> HIDE DEF NewNode
  <2>3. QED
    BY <2>1, <2>2 DEF OneLeaf
<1>2. PlainNodes'
  BY <1>1 DEF PlainNodes, SameShape
<1>3. ASSUME NEW n \in Nodes
      PROVE  /\ nodes'[n].above \subseteq Nodes'
             /\ nodes'[n].root = n => nodes'[n].above = {}
             /\ \A k \in DOMAIN nodes'[n].parts :
                   /\ nodes'[nodes'[n].parts[k]].root = nodes'[n].root
                   /\ nodes'[nodes'[n].parts[k]].above \subseteq nodes'[n].above \cup {n}
  <2>1. \A k \in DOMAIN nodes[n].parts : nodes[n].parts[k] \in Nodes
    <3>1. n \in 1..Len(nodes) /\ Nodes = 1..Len(nodes) /\ Len(nodes) \in Nat
      BY DEF HeapInv, HeapTypeOK, NodesTypeOK, Nodes
    <3>2. \A k \in DOMAIN nodes[n].parts : nodes[n].parts[k] \in 1..(n - 1)
      BY DEF HeapInv, HeapTypeOK, NodesTypeOK
    <3>3. QED
      BY <3>1, <3>2
  <2>2. QED
    BY <2>1 DEF SameShape, UnderOne
<1>4. UnderOne'
  BY <1>1, <1>3 DEF UnderOne
<1>5. QED
  BY <1>2, <1>4

\* A step that leaves the sets alone and makes at most a promise of its own.
Quiet ==
    /\ SameShape /\ OneLeaf({"sure", "io", "send"}) /\ NothingCaught
    /\ UNCHANGED sets /\ objects'["taskSet"] = objects["taskSet"]
    /\ req' = req \/ req' = [req EXCEPT ![cur] = NoRequest]

LEMMA AskedStays ==
    ASSUME LoopInv, AskedWell, req' = req \/ req' = [req EXCEPT ![cur] = NoRequest]
    PROVE  AskedWell'
<1>1. CASE req' = req
  BY <1>1 DEF AskedWell
<1>2. CASE req' = [req EXCEPT ![cur] = NoRequest]
  <2>1. NoRequest[1] = "none"
    BY DEF NoRequest
  <2>2. \A c \in Calls : req'[c] = IF c = cur THEN NoRequest ELSE req[c]
    BY <1>2 DEF LoopInv, LoopTypeOK
  <2>3. QED
    BY <2>1, <2>2 DEF AskedWell, WellAsked
<1>3. QED
  BY <1>1, <1>2

LEMMA QuietKeepsWait ==
    ASSUME LoopInv, HeapInv, WaitInv, Quiet
    PROVE  WaitInv'
<1>1. PlainNodes' /\ UnderOne'
  BY ShapeKept DEF Quiet, WaitInv, OneLeaf
<1>2. EmptyBacked'
  <2>1. ASSUME NEW n \in Nodes', nodes'[n].kind = "empty", Live(n)'
        PROVE  Backed(n)'
    <3>1. n \in Nodes
      <4> HIDE DEF NewNode
      <4>1. QED
        BY <2>1 DEF Quiet, OneLeaf
    <3>2. nodes[n].kind = "empty" /\ nodes'[n].on = nodes[n].on
      BY <2>1, <3>1 DEF Quiet, SameShape
    <3>3. Live(n)
      BY <2>1, <3>1, NotRevived DEF Quiet, WaitInv
    <3>4. Backed(n)
      BY <3>1, <3>2, <3>3 DEF WaitInv, EmptyBacked
    <3>5. QED
      BY <3>2, <3>4 DEF Quiet, Backed
  <2>2. QED
    BY <2>1 DEF EmptyBacked
<1>3. NoSetNoTasks'
  BY DEF Quiet, WaitInv, NoSetNoTasks
<1>4. AskedWell'
  BY AskedStays DEF Quiet, WaitInv
<1>5. QED
  BY <1>1, <1>2, <1>3, <1>4 DEF WaitInv

LEMMA NewIsOut == HeapTypeOK => NewNode \notin Nodes
<1> SUFFICES ASSUME HeapTypeOK PROVE NewNode \notin Nodes
  OBVIOUS
<1>1. Len(nodes) \in Nat /\ Nodes = 1..Len(nodes)
  BY DEF HeapTypeOK, NodesTypeOK, Nodes
<1>2. QED
  BY <1>1 DEF NewNode

LEMMA LeafShape ==
    ASSUME HeapInv, NEW kind \in Kinds, NEW on \in Abouts, NewLeaf(kind, on)
    PROVE  /\ SameShape /\ OneLeaf({kind})
           /\ NewNode \in Nodes' /\ nodes'[NewNode].on = on
<1> DEFINE leaf == Leaf(kind, on)
<1>1. nodes \in Seq(NodeRecords) /\ Len(nodes) \in Nat /\ Nodes = 1..Len(nodes)
  BY DEF HeapInv, HeapTypeOK, NodesTypeOK, Nodes
<1>2. leaf.kind = kind /\ leaf.on = on /\ leaf.parts = <<>> /\ leaf.above = {}
  BY DEF Leaf
<1>3. nodes' = Append(nodes, leaf)
  BY DEF NewLeaf
<1> HIDE DEF leaf
<1>4. /\ Nodes' = Nodes \cup {NewNode}
      /\ nodes'[NewNode] = leaf /\ \A n \in Nodes : nodes'[n] = nodes[n]
  BY <1>1, <1>3 DEF Nodes, NewNode
<1> HIDE DEF NewNode
<1>5. QED
  BY <1>2, <1>4 DEF SameShape, OneLeaf

LEMMA StatusShape ==
    ASSUME HeapInv, NEW n, NEW o \in {"ok", "err"},
           nodes' = nodes \/ (n \in Nodes /\ nodes' = [nodes EXCEPT ![n].st = o])
    PROVE  SameShape /\ Nodes' = Nodes /\ OneLeaf({})
<1>1. nodes \in Seq(NodeRecords) /\ \A m \in Nodes : nodes[m] \in NodeRecords
  BY DEF HeapInv, HeapTypeOK, NodesTypeOK, Nodes
<1>2. Nodes' = Nodes
  BY DEF Nodes
<1>3. SameShape
  <2>1. ASSUME NEW m \in Nodes
        PROVE  nodes'[m] = nodes[m] \/ nodes'[m] = [nodes[m] EXCEPT !.st = o]
    BY <1>1 DEF Nodes
  <2>2. ASSUME NEW m \in Nodes
        PROVE  /\ nodes'[m].kind = nodes[m].kind /\ nodes'[m].on = nodes[m].on
               /\ nodes'[m].parts = nodes[m].parts /\ nodes'[m].root = nodes[m].root
               /\ nodes'[m].above = nodes[m].above
               /\ nodes'[m].st = "pending" => nodes[m].st = "pending"
    <3>1. CASE nodes'[m] = nodes[m]
      BY <3>1
    <3>2. CASE nodes'[m] = [nodes[m] EXCEPT !.st = o]
      <4>1. nodes[m] \in NodeRecords
        BY <1>1
      <4>2. QED
        BY <3>2, <4>1 DEF NodeRecords
    <3>3. QED
      BY <2>1, <3>1, <3>2
  <2>3. QED
    BY <1>2, <2>2 DEF SameShape
<1>4. NewNode \notin Nodes
  BY NewIsOut DEF HeapInv
<1>5. OneLeaf({})
  BY <1>2, <1>4 DEF OneLeaf
<1>6. QED
  BY <1>2, <1>3, <1>5

LEMMA LessCaught ==
    ASSUME HeapInv,
           \A ty \in PromiseTypes : \A i \in Ids : promises'[ty][i] \in {0, NewNode, promises[ty][i]},
           \A s \in Ids : sets'[s].tasks \subseteq sets[s].tasks,
           wait'.node \in {0, NewNode, wait.node}
    PROVE  NothingCaught
<1>1. 0 \notin Nodes /\ NewNode \notin Nodes
  BY ZeroIsNoNode, NewIsOut DEF HeapInv
<1> HIDE DEF NewNode
<1>2. QED
  BY <1>1 DEF NothingCaught, HeldIn

\* What a step does to the operation being served.
Asks == req' = req \/ req' = [req EXCEPT ![cur] = NoRequest]

LEMMA AnswerAsks ==
    ASSUME Fails \/ Succeeds \/ (\E h : Grants(h)) \/ UNCHANGED loopVars
    PROVE  Asks
BY DEF Asks, Fails, Succeeds, Grants, Answer, loopVars, callVars

LEMMA FewerKinds ==
    ASSUME NEW kinds \in SUBSET {"sure", "io", "send"}, OneLeaf(kinds)
    PROVE  OneLeaf({"sure", "io", "send"})
BY DEF OneLeaf

LEMMA StillQuiet ==
    ASSUME HeapInv, Asks, UNCHANGED <<nodes, promises, sets>>, wait' = wait \/ wait' = NoWait,
           objects'["taskSet"] = objects["taskSet"]
    PROVE  Quiet
<1>1. SameShape /\ OneLeaf({})
  BY StatusShape
<1>2. wait'.node \in {0, NewNode, wait.node}
  BY DEF NoWait
<1>3. NothingCaught
  BY <1>2, LessCaught
<1>4. QED
  BY <1>1, <1>3, FewerKinds DEF Quiet, Asks

LEMMA AnswerQuiet ==
    ASSUME HeapInv, Fails \/ Succeeds, UNCHANGED heapVars, wait' = wait \/ wait' = NoWait
    PROVE  Quiet
BY AnswerAsks, StillQuiet DEF heapVars

LEMMA OnlyAnswersQuiet == ASSUME Attending, Rejects \/ Returns PROVE Quiet
BY AnswerQuiet DEF Rejects, Returns, Attending

LEMMA ObjectQuiet ==
    ASSUME HeapInv, NEW ty \in ObjectTypes \ {"taskSet"}, AddObject(ty),
           UNCHANGED <<nodes, promises, retired, sets>>, wait' = wait \/ wait' = NoWait
    PROVE  Quiet
<1>1. objects'["taskSet"] = objects["taskSet"]
  BY DEF AddObject, HeapInv, HeapTypeOK
<1>2. Asks
  BY AnswerAsks DEF AddObject
<1>3. QED
  BY <1>1, <1>2, StillQuiet

LEMMA TableQuiet ==
    ASSUME Attending, NEW ty \in ObjectTypes \ {"taskSet"}, Makes(ty) \/ Erase(ty) \/ AddPair(ty)
    PROVE  Quiet
<1> USE DEF Attending
<1>1. CASE Rejects
  BY <1>1, OnlyAnswersQuiet
<1>2. CASE Makes(ty) /\ ~Rejects
  BY <1>2, ObjectQuiet DEF Makes
<1>3. CASE Erase(ty) /\ ~Rejects
  <2>1. /\ objects' = [objects EXCEPT ![ty] = @ \ {Arg(1)}]
        /\ UNCHANGED <<nodes, promises, sets, wait>>
    BY <1>3 DEF Erase, Needs
  <2>2. Asks
    BY <1>3, AnswerAsks DEF Erase, Needs
  <2>3. objects'["taskSet"] = objects["taskSet"]
    BY <2>1, ObjectsTyped, Words
  <2>4. QED
    BY <2>1, <2>2, <2>3, StillQuiet
<1>4. CASE AddPair(ty)
  <2>1. objects'["taskSet"] = objects["taskSet"] /\ UNCHANGED <<nodes, promises, sets, wait>>
    BY <1>4 DEF AddPair, HeapInv, HeapTypeOK
  <2>2. Asks
    BY <1>4, AnswerAsks DEF AddPair
  <2>3. QED
    BY <2>1, <2>2, StillQuiet
<1>5. QED
  BY <1>1, <1>2, <1>3, <1>4

\* A new promise goes to a table or to the wait.
LEMMA LeafQuiet ==
    ASSUME HeapInv, NEW kind \in {"sure", "io", "send"}, NEW on \in Abouts, NewLeaf(kind, on), Asks,
           UNCHANGED <<objects, sets>>,
           \A ty \in PromiseTypes : \A i \in Ids : promises'[ty][i] \in {NewNode, promises[ty][i]},
           wait'.node \in {NewNode, wait.node}
    PROVE  Quiet
<1>1. SameShape /\ OneLeaf({kind})
  BY LeafShape, Words
<1>2. NothingCaught
  BY LessCaught
<1>3. QED
  BY <1>1, <1>2, FewerKinds DEF Quiet, Asks

LEMMA StartQuiet ==
    ASSUME Attending, NEW ty \in PromiseTypes, NEW kind \in {"sure", "io", "send"},
           NEW on \in Abouts, NEW how \in Hows,
           Start(ty, kind, on) \/ StartAndAwait(ty, kind, on, how) \/ WaitFor(kind, on, how)
    PROVE  Quiet
<1> USE DEF Attending
<1>1. NewLeaf(kind, on) /\ UNCHANGED <<objects, sets>>
  BY DEF Start, StartAndAwait, WaitFor
<1>2. CASE Start(ty, kind, on)
  <2>1. AddPromise(ty, NewNode) /\ UNCHANGED wait
    BY <1>2 DEF Start, NewNode
  <2> HIDE DEF NewNode
  <2>2. \A uy \in PromiseTypes : \A i \in Ids : promises'[uy][i] \in {NewNode, promises[uy][i]}
    BY <2>1 DEF AddPromise, HeapInv, HeapTypeOK
  <2>3. Asks
    BY <2>1, AnswerAsks DEF AddPromise
  <2>4. QED
    BY <1>1, <2>1, <2>2, <2>3, LeafQuiet
<1>3. CASE StartAndAwait(ty, kind, on, how) \/ WaitFor(kind, on, how)
  <2>1. UNCHANGED <<promises, loopVars>> /\ wait'.node = NewNode
    BY <1>3 DEF StartAndAwait, WaitFor, NewNode
  <2>2. Asks
    BY <2>1, AnswerAsks
  <2>3. QED
    BY <1>1, <2>1, <2>2, LeafQuiet
<1>4. QED
  BY <1>2, <1>3

LEMMA UnknownQuiet == ASSUME Attending, NEW ty, UnknownPromise(ty) PROVE Quiet
BY OnlyAnswersQuiet DEF UnknownPromise

\* An entry is taken out, and its promise goes to the wait or nowhere.
LEMMA TakeQuiet ==
    ASSUME Attending, NEW ty \in PromiseTypes, Take(ty), Asks,
           wait' = wait \/ wait'.node = promises[ty][Arg(1)]
    PROVE  Quiet
<1> USE DEF Attending
<1>1. PICK i \in Ids :
         /\ i = Arg(1)
         /\ \A uy \in PromiseTypes : \A j \in Ids :
               promises'[uy][j] = IF uy = ty /\ j = i THEN 0 ELSE promises[uy][j]
         /\ UNCHANGED <<nodes, objects, sets, nextId>>
  BY TakeTyped
<1>2. SameShape /\ OneLeaf({})
  BY <1>1, StatusShape
<1>3. NothingCaught
  <2>1. 0 \notin Nodes
    BY ZeroIsNoNode DEF HeapInv
  <2>2. QED
    BY <1>1, <2>1 DEF NothingCaught, HeldIn
<1>4. QED
  BY <1>1, <1>2, <1>3, FewerKinds DEF Quiet, Asks

LEMMA IdQuiet ==
    ASSUME Attending, NEW ty \in PromiseTypes, NEW how \in Hows,
           AwaitId(ty, how) \/ CancelId(ty) \/ ReleaseId(ty)
    PROVE  Quiet
<1> USE DEF Attending
<1>1. CASE UnknownPromise(ty)
  BY <1>1, UnknownQuiet
<1>2. CASE AwaitId(ty, how) /\ ~UnknownPromise(ty)
  <2>1. Take(ty) /\ wait'.node = promises[ty][Arg(1)] /\ UNCHANGED loopVars
    BY <1>2 DEF AwaitId
  <2>2. QED
    BY <2>1, TakeQuiet, AnswerAsks
<1>3. CASE ReleaseId(ty) /\ ~UnknownPromise(ty)
  <2>1. Take(ty) /\ Succeeds /\ UNCHANGED wait
    BY <1>3 DEF ReleaseId
  <2>2. QED
    BY <2>1, TakeQuiet, AnswerAsks
<1>4. CASE CancelId(ty) /\ ~UnknownPromise(ty)
  <2>1. PICK n \in Nodes : n = promises[ty][Arg(1)]
    BY <1>4 DEF CancelId, Busy, HeapInv, HeapTypeOK
  <2>2. /\ nodes' = nodes \/ nodes' = [nodes EXCEPT ![n].st = "err"]
        /\ Succeeds /\ UNCHANGED <<promises, objects, sets, wait>>
    BY <1>4, <2>1 DEF CancelId
  <2>3. SameShape /\ OneLeaf({})
    BY <2>2, StatusShape
  <2>4. NothingCaught
    BY <2>2, LessCaught
  <2>5. Asks
    BY <2>2, AnswerAsks
  <2>6. QED
    BY <2>2, <2>3, <2>4, <2>5, FewerKinds DEF Quiet, Asks
<1>5. QED
  BY <1>1, <1>2, <1>3, <1>4

\* The handle of a known object is one a promise can be about.
LEMMA AboutsKnown ==
    ASSUME HeapInv
    PROVE  /\ Nothing \in Abouts
           /\ Has("listener", Arg(1)) => <<"listener", Arg(1)>> \in Abouts
           /\ Has("address", Arg(1)) => <<"address", Arg(1)>> \in Abouts
           /\ Has("connection", Arg(1)) => Here \in Abouts
           /\ Has("port", Arg(1)) => Port \in Abouts
BY KnownIsAbout, NothingIsAbout, Words DEF Here, Port

\* The types a client's operations add to or take from, task sets aside.
LEMMA PlainTypes ==
    {"listener", "address", "connection", "port"} \subseteq ObjectTypes \ {"taskSet"}
BY DEF ObjectTypes

LEMMA PromisesQuiet ==
    ASSUME Attending, SleepNanos \/ AwaitPromise \/ CancelPromise \/ ReleasePromise
    PROVE  Quiet
<1>1. CASE SleepNanos
  BY <1>1, StartQuiet, Words, NothingIsAbout DEF SleepNanos
<1>2. QED
  BY <1>1, IdQuiet, Words DEF AwaitPromise, CancelPromise, ReleasePromise

LEMMA ListenersQuiet == ASSUME Attending, RunListeners PROVE Quiet
<1>1. \/ Rejects \/ Erase("listener")
      \/ \E on \in Abouts : \/ WaitFor("io", on, "listener") \/ WaitFor("io", on, "connection")
                            \/ Start("conn", "io", on)
  BY AboutsKnown DEF Attending, RunListeners, Listen, ReleaseListener, Accept, AcceptStart,
     Connect, ConnectStart, Needs
<1>2. QED
  BY <1>1, OnlyAnswersQuiet, TableQuiet, StartQuiet, PlainTypes, Words

LEMMA AddressesQuiet == ASSUME Attending, RunAddresses PROVE Quiet
<1>1. \/ Rejects \/ Returns
      \/ Erase("address") \/ Makes("address") \/ Makes("listener") \/ Makes("port")
      \/ \E on \in Abouts : \/ WaitFor("io", on, "address") \/ WaitFor("io", on, "connection")
                            \/ Start("conn", "io", on)
  BY AboutsKnown DEF Attending, RunAddresses, ParseAddress, ReleaseNetworkAddress,
     NetworkAddressToString, NetworkAddressClone, NetworkAddressConnect,
     NetworkAddressConnectStart, NetworkAddressListen, NetworkAddressBindDatagramPort, Needs
<1>2. QED
  BY <1>1, OnlyAnswersQuiet, TableQuiet, StartQuiet, PlainTypes, Words

LEMMA ConnectionPromisesQuiet == ASSUME Attending, RunConnectionPromises PROVE Quiet
<1>1. \/ AwaitId("conn", "connection") \/ AwaitId("conn", "timed")
      \/ CancelId("conn") \/ ReleaseId("conn") \/ UnknownPromise("conn")
      \/ Take("conn") /\ Fails /\ UNCHANGED wait
      \/ Erase("connection")
  BY DEF RunConnectionPromises, AwaitConnectionPromise, AwaitConnectionPromiseWithTimeout,
     CancelConnectionPromise, ReleaseConnectionPromise, ReleaseConnection
<1>2. CASE Take("conn") /\ Fails /\ UNCHANGED wait
  BY <1>2, TakeQuiet, AnswerAsks, Words
<1>3. QED
  BY <1>1, <1>2, IdQuiet, UnknownQuiet, TableQuiet, PlainTypes, Words

LEMMA ConnectionsQuiet == ASSUME Attending, RunConnections \/ RunConnectionEnds PROVE Quiet
<1>1. PICK kind \in {"sure", "io", "send"} : kind = Kind
  BY DEF Kind
<1>2. \/ Rejects \/ Returns
      \/ AwaitId("bytes", "value") \/ CancelId("bytes") \/ ReleaseId("bytes")
      \/ /\ Here \in Abouts
         /\ \/ Start("void", kind, Here) \/ StartAndAwait("void", kind, Here, "value")
            \/ Start("bytes", kind, Here) \/ StartAndAwait("bytes", kind, Here, "value")
            \/ Start("void", "sure", Here) \/ Start("void", "io", Here)
  BY <1>1, AboutsKnown DEF Attending, RunConnections, ConnectionWrite, ConnectionWriteStart,
     ConnectionRead, ConnectionReadStart, AwaitBytesPromise, CancelBytesPromise,
     ReleaseBytesPromise, ConnectionShutdownWrite, ConnectionShutdownWriteStart,
     RunConnectionEnds, ConnectionWhenWriteDisconnectedStart, ConnectionAbortRead,
     ConnectionAbortWrite, ConnectionDupFd, Needs
<1>3. QED
  BY <1>2, OnlyAnswersQuiet, IdQuiet, StartQuiet, Words

LEMMA WrapsQuiet == ASSUME Attending, RunWraps PROVE Quiet
<1>1. Makes("connection") \/ Makes("listener") \/ Makes("port") \/ AddPair("connection")
  BY DEF RunWraps, WrapSocketFd, WrapSocketFdTake, WrapListenSocketFd,
     WrapListenSocketFdTake, WrapDatagramSocketFd, WrapDatagramSocketFdTake, NewTwoWayPipe,
     NewCapabilityPipe
<1>2. QED
  BY <1>1, TableQuiet, PlainTypes

LEMMA DatagramsQuiet == ASSUME Attending, RunDatagrams \/ RunDatagramReceives PROVE Quiet
<1>1. \/ Rejects \/ Returns \/ Erase("port")
      \/ AwaitId("uint32", "value") \/ CancelId("uint32") \/ ReleaseId("uint32")
      \/ AwaitId("dgram", "value") \/ CancelId("dgram") \/ ReleaseId("dgram")
      \/ \E on \in Abouts :
            \/ WaitFor("io", on, "port")
            \/ Start("uint32", "send", on) \/ StartAndAwait("uint32", "send", on, "value")
            \/ Start("dgram", "io", on) \/ StartAndAwait("dgram", "io", on, "value")
  BY AboutsKnown DEF Attending, RunDatagrams, DatagramBind, DatagramReleasePort, DatagramGetPort,
     DatagramSend, DatagramSendStart, AwaitUInt32Promise, CancelUInt32Promise,
     ReleaseUInt32Promise, RunDatagramReceives, DatagramReceive, DatagramReceiveStart,
     AwaitDatagramReceivePromise, CancelDatagramReceivePromise, ReleaseDatagramReceivePromise,
     Needs
<1>2. QED
  BY <1>1, OnlyAnswersQuiet, TableQuiet, IdQuiet, StartQuiet, PlainTypes, Words

\* The event loop settles promises, and the end of a wait lets go of one.
LEMMA SettleQuiet == ASSUME HeapInv, SettleSure \/ SettlePeer PROVE Quiet
<1>1. PICK n \in Nodes : \E o \in Outcomes(n) : SettleAs(n, o)
  BY DEF SettleSure, SettlePeer, Nodes
<1>2. PICK o \in Outcomes(n) : SettleAs(n, o)
  BY <1>1
<1>3. o \in {"ok", "err"} /\ nodes' = [nodes EXCEPT ![n].st = o]
      /\ UNCHANGED <<promises, retired, objects, sets, nextId, wait, loopVars>>
  BY <1>2, OutcomeIsFinal DEF SettleAs
<1>4. SameShape /\ OneLeaf({})
  BY <1>3, StatusShape
<1>5. NothingCaught
  BY <1>3, LessCaught
<1>6. Asks
  BY <1>3, AnswerAsks
<1>7. QED
  BY <1>3, <1>4, <1>5, <1>6, FewerKinds DEF Quiet, Asks

LEMMA WaitEndsQuiet == ASSUME HeapInv, Resume \/ TimeOut PROVE Quiet
<1>1. CASE ResumeError \/ ResumeValue \/ TimeOut
  BY <1>1, AnswerQuiet DEF ResumeError, ResumeValue, TimeOut
<1>2. CASE ResumeObject
  <2>1. wait.how \in Hows
    BY DEF HeapInv, HeapTypeOK
  <2>2. PICK ty \in ObjectTypes \ {"taskSet"} : ty = Becomes
    BY <1>2, <2>1 DEF ResumeObject, Becomes, Hows
  <2>3. QED
    BY <1>2, <2>2, ObjectQuiet DEF ResumeObject
<1>3. QED
  BY <1>1, <1>2 DEF Resume

LEMMA OutsideQuiet ==
    ASSUME HeapInv, UNCHANGED <<heapVars, wait>>, UNCHANGED req
    PROVE  Quiet
BY StillQuiet DEF heapVars, Asks

\* A step that changes the sets but makes no promise.
LEMMA SetsKeepWait ==
    ASSUME LoopInv, HeapInv, WaitInv, SameShape, OneLeaf({}), NothingCaught, Asks,
           \A n \in Nodes : nodes[n].kind = "empty" /\ Live(n)' /\ Backed(n) => Backed(n)',
           NoSetNoTasks'
    PROVE  WaitInv'
<1>1. PlainNodes' /\ UnderOne'
  BY ShapeKept DEF WaitInv, OneLeaf
<1>2. ASSUME NEW n \in Nodes', nodes'[n].kind = "empty", Live(n)'
      PROVE  Backed(n)'
  <2>1. n \in Nodes
    BY DEF OneLeaf
  <2>2. nodes[n].kind = "empty" /\ Live(n)
    BY <1>2, <2>1, NotRevived DEF SameShape, WaitInv
  <2>3. Backed(n)
    BY <2>1, <2>2 DEF WaitInv, EmptyBacked
  <2>4. QED
    BY <1>2, <2>1, <2>2, <2>3
<1>3. EmptyBacked'
  BY <1>2 DEF EmptyBacked
<1>4. AskedWell'
  BY AskedStays DEF WaitInv, Asks
<1>5. QED
  BY <1>1, <1>3, <1>4 DEF WaitInv

LEMMA NewSetKeepsWait == ASSUME Attending, WaitInv, TaskSetNew PROVE WaitInv'
<1> USE DEF Attending
<1> DEFINE i == FreshFrom(nextId["taskSet"], objects["taskSet"])
<1>1. /\ Room("taskSet")
      /\ objects' = [objects EXCEPT !["taskSet"] = @ \cup {i}]
      /\ Grants({<<"taskSet", i>>})
      /\ sets' = [sets EXCEPT ![i] = NoTasks]
      /\ UNCHANGED <<nodes, promises, retired, wait>>
  BY DEF TaskSetNew, AddObject
<1>2. i \in Ids \ objects["taskSet"]
  BY <1>1, FreeObject, Words DEF HeapInv
<1> HIDE DEF i
<1>3. sets[i].tasks = {} /\ NoTasks.tasks = {}
  BY <1>2 DEF WaitInv, NoSetNoTasks, NoTasks
<1>4. \A s \in Ids : sets'[s] = IF s = i THEN NoTasks ELSE sets[s]
  BY <1>1, SetsTyped
<1>5. SameShape /\ OneLeaf({})
  BY <1>1, StatusShape
<1>6. NothingCaught
  BY <1>1, <1>3, <1>4, LessCaught
<1>7. Asks
  BY <1>1, AnswerAsks
<1>8. ASSUME NEW n \in Nodes, Backed(n) PROVE Backed(n)'
  BY <1>1, <1>3, <1>4, <1>8 DEF Backed
<1>9. NoSetNoTasks'
  <2>1. objects["taskSet"] \subseteq objects'["taskSet"]
    BY <1>1, ObjectsTyped, Words
  <2>2. QED
    BY <1>3, <1>4, <2>1 DEF WaitInv, NoSetNoTasks
<1>10. QED
  BY <1>5, <1>6, <1>7, <1>8, <1>9, SetsKeepWait

\* A set that loses its last task settles the promise that waits for that.
LEMMA EmptiedSet ==
    ASSUME HeapInv, NEW s \in Ids, NEW o \in {"ok", "err"}, NEW n \in Nodes,
           LET e == sets[s].empty IN
              nodes' = IF e # 0 /\ Pending(e) THEN [nodes EXCEPT ![e].st = o] ELSE nodes,
           Backed(n), nodes[n].on[2] = s
    PROVE  ~Live(n)'
<1>1. sets[s].empty = n /\ n # 0
  BY ZeroIsNoNode DEF Backed, HeapInv
<1>2. nodes' = IF nodes[n].st = "pending" THEN [nodes EXCEPT ![n].st = o] ELSE nodes
  BY <1>1 DEF Pending
<1>3. nodes \in Seq(NodeRecords) /\ nodes[n] \in NodeRecords
  BY DEF HeapInv, HeapTypeOK, NodesTypeOK, Nodes
<1>4. nodes'[n].st # "pending"
  <2>1. CASE nodes[n].st = "pending"
    <3>1. nodes'[n] = [nodes[n] EXCEPT !.st = o]
      BY <1>2, <1>3, <2>1 DEF Nodes
    <3>2. QED
      BY <1>3, <3>1 DEF NodeRecords
  <2>2. QED
    BY <1>2, <2>1
<1>5. QED
  BY <1>4, LiveIsHeldNext

\* The set is cleared or destroyed.
LEMMA EmptyingKeepsWait ==
    ASSUME Attending, WaitInv, NEW s \in Ids, NEW o \in {"ok", "err"},
           LET e == sets[s].empty IN
              nodes' = IF e # 0 /\ Pending(e) THEN [nodes EXCEPT ![e].st = o] ELSE nodes,
           \A t \in Ids : t # s => sets'[t] = sets[t],
           sets'[s].tasks = {},
           \A t \in Ids \ {s} : t \in objects["taskSet"] => t \in objects'["taskSet"],
           Succeeds, UNCHANGED <<promises, wait>>
    PROVE  WaitInv'
<1> USE DEF Attending
<1>1. sets[s].empty # 0 => sets[s].empty \in Nodes
  BY SetIsRecord
<1>2. SameShape /\ OneLeaf({})
  BY <1>1, StatusShape
<1>3. NothingCaught
  BY LessCaught
<1>4. Asks
  BY AnswerAsks
<1>5. ASSUME NEW n \in Nodes, Live(n)', Backed(n) PROVE Backed(n)'
  <2>1. nodes[n].on[2] # s
    BY <1>5, EmptiedSet
  <2>2. nodes'[n].on = nodes[n].on
    BY <1>2 DEF SameShape
  <2>3. QED
    BY <1>5, <2>1, <2>2 DEF Backed
<1>6. NoSetNoTasks'
  BY DEF WaitInv, NoSetNoTasks
<1>7. QED
  BY <1>2, <1>3, <1>4, <1>5, <1>6, SetsKeepWait

LEMMA ReleaseSetKeepsWait == ASSUME Attending, WaitInv, TaskSetRelease PROVE WaitInv'
<1>1. CASE Has("taskSet", Arg(1))
  <2>1. PICK s \in Ids : s = Arg(1)
    BY <1>1, KnownSet DEF Attending
  <2>2. /\ objects' = [objects EXCEPT !["taskSet"] = @ \ {s}]
        /\ sets' = [sets EXCEPT ![s] = NoTasks]
        /\ LET e == sets[s].empty IN
              nodes' = IF e # 0 /\ Pending(e) THEN [nodes EXCEPT ![e].st = "err"] ELSE nodes
        /\ Succeeds /\ UNCHANGED <<promises, wait>>
    BY <1>1, <2>1 DEF TaskSetRelease, Needs
  <2>3. sets'[s].tasks = {} /\ \A t \in Ids : t # s => sets'[t] = sets[t]
    BY <2>2, SetsTyped DEF Attending, NoTasks
  <2>4. \A t \in Ids \ {s} : t \in objects["taskSet"] => t \in objects'["taskSet"]
    BY <2>2, ObjectsTyped, Words DEF Attending
  <2>5. QED
    BY <2>2, <2>3, <2>4, EmptyingKeepsWait
<1>2. CASE ~Has("taskSet", Arg(1))
  BY <1>2, OnlyAnswersQuiet, QuietKeepsWait DEF TaskSetRelease, Needs, Attending
<1>3. QED
  BY <1>1, <1>2

LEMMA ClearSetKeepsWait == ASSUME Attending, WaitInv, TaskSetClear PROVE WaitInv'
<1>1. CASE Has("taskSet", Arg(1))
  <2>1. PICK s \in Ids : s = Arg(1)
    BY <1>1, KnownSet DEF Attending
  <2>2. /\ sets' = [sets EXCEPT ![s].tasks = {}, ![s].empty = 0]
        /\ LET e == sets[s].empty IN
              nodes' = IF e # 0 /\ Pending(e) THEN [nodes EXCEPT ![e].st = "ok"] ELSE nodes
        /\ Succeeds /\ UNCHANGED <<promises, objects, wait>>
    BY <1>1, <2>1 DEF TaskSetClear, Needs, Fulfill
  <2>3. sets'[s].tasks = {} /\ \A t \in Ids : t # s => sets'[t] = sets[t]
    BY <2>2, SetsTyped DEF Attending, SetRecords
  <2>4. QED
    BY <2>2, <2>3, EmptyingKeepsWait
<1>2. CASE ~Has("taskSet", Arg(1))
  BY <1>2, OnlyAnswersQuiet, QuietKeepsWait DEF TaskSetClear, Needs, Attending
<1>3. QED
  BY <1>1, <1>2

LEMMA AddTaskKeepsWait == ASSUME Attending, WaitInv, TaskSetAddPromise PROVE WaitInv'
<1> USE DEF Attending
<1>1. CASE Has("taskSet", Arg(1)) /\ Arg(2) \in Busy("void")
  <2>1. PICK s \in Ids : s = Arg(1) /\ s \in objects["taskSet"]
    BY <1>1, KnownSet DEF Has
  <2>2. PICK i \in Ids : i = Arg(2) /\ promises["void"][i] \in Nodes
    BY <1>1, Words DEF Busy, HeapInv, HeapTypeOK
  <2> DEFINE m == promises["void"][i]
  <2>3. /\ promises' = [promises EXCEPT !["void"][i] = 0]
        /\ sets' = [sets EXCEPT ![s].tasks = @ \cup {m}]
        /\ Succeeds /\ UNCHANGED <<nodes, objects, wait>>
    BY <1>1, <2>1, <2>2 DEF TaskSetAddPromise, Needs
  <2>4. \A ty \in PromiseTypes : \A j \in Ids : promises'[ty][j] \in {0, promises[ty][j]}
    BY <2>3 DEF HeapInv, HeapTypeOK
  <2>5. \A t \in Ids : /\ sets'[t].tasks = IF t = s THEN sets[t].tasks \cup {m} ELSE sets[t].tasks
                       /\ sets'[t].empty = sets[t].empty
    BY <2>3, SetsTyped DEF SetRecords
  <2>6. NothingCaught
    <3>1. 0 \notin Nodes /\ "void" \in PromiseTypes
      BY ZeroIsNoNode, Words DEF HeapInv
    <3>2. QED
      BY <2>2, <2>3, <2>4, <2>5, <3>1 DEF NothingCaught, HeldIn
  <2>7. SameShape /\ OneLeaf({})
    BY <2>3, StatusShape
  <2>8. Asks
    BY <2>3, AnswerAsks
  <2>9. \A n \in Nodes : Backed(n) => Backed(n)'
    BY <2>3, <2>5 DEF Backed
  <2>10. NoSetNoTasks'
    BY <2>1, <2>3, <2>5 DEF WaitInv, NoSetNoTasks
  <2>11. QED
    BY <2>6, <2>7, <2>8, <2>9, <2>10, SetsKeepWait
<1>2. CASE ~(Has("taskSet", Arg(1)) /\ Arg(2) \in Busy("void"))
  BY <1>2, OnlyAnswersQuiet, QuietKeepsWait DEF TaskSetAddPromise, Needs
<1>3. QED
  BY <1>1, <1>2

LEMMA LastErrorKeepsWait == ASSUME Attending, WaitInv, TaskSetTakeLastError PROVE WaitInv'
<1> USE DEF Attending
<1>1. CASE Has("taskSet", Arg(1))
  <2>1. PICK s \in Ids : s = Arg(1)
    BY <1>1, KnownSet
  <2>2. /\ sets' = [sets EXCEPT ![s].last = FALSE]
        /\ Succeeds /\ UNCHANGED <<nodes, promises, objects, wait>>
    BY <1>1, <2>1 DEF TaskSetTakeLastError, Needs
  <2>3. \A t \in Ids : sets'[t].tasks = sets[t].tasks /\ sets'[t].empty = sets[t].empty
    BY <2>2, SetsTyped DEF SetRecords
  <2>4. SameShape /\ OneLeaf({}) /\ NothingCaught /\ Asks
    BY <2>2, <2>3, StatusShape, LessCaught, AnswerAsks
  <2>5. (\A n \in Nodes : Backed(n) => Backed(n)') /\ NoSetNoTasks'
    BY <2>2, <2>3 DEF Backed, WaitInv, NoSetNoTasks
  <2>6. QED
    BY <2>4, <2>5, SetsKeepWait
<1>2. CASE ~Has("taskSet", Arg(1))
  BY <1>2, OnlyAnswersQuiet, QuietKeepsWait DEF TaskSetTakeLastError, Needs
<1>3. QED
  BY <1>1, <1>2

\* onEmpty is only granted when the promise granted before it is gone.
LEMMA OnEmptyKeepsWait == ASSUME Attending, WaitInv, TaskSetOnEmptyStart PROVE WaitInv'
<1> USE DEF Attending
<1>1. CASE Rejects \/ Start("void", "sure", Nothing)
  <2>1. Quiet
    BY <1>1, OnlyAnswersQuiet, StartQuiet, NothingIsAbout, Words
  <2>2. QED
    BY <2>1, QuietKeepsWait
<1>2. CASE ~Rejects /\ ~Start("void", "sure", Nothing)
  <2>1. PICK s \in Ids : s = Arg(1)
    BY <1>2, KnownSet DEF TaskSetOnEmptyStart, Needs
  <2>2. /\ sets[s].empty # 0 => ~Live(sets[s].empty)
        /\ sets[s].tasks # {}
        /\ NewLeaf("empty", <<"taskSet", s>>)
        /\ AddPromise("void", NewNode)
        /\ sets' = [sets EXCEPT ![s].empty = NewNode]
        /\ UNCHANGED <<objects, wait>>
    BY <1>2, <2>1 DEF TaskSetOnEmptyStart, Needs, NewNode
  <2>3. <<"taskSet", s>> \in Abouts /\ <<"taskSet", s>>[2] = s
    BY IdSpaceAssumption DEF Abouts, ObjectTypes, Ids
  <2>4. /\ SameShape /\ OneLeaf({"empty"})
        /\ NewNode \in Nodes' /\ nodes'[NewNode].on = <<"taskSet", s>>
    BY <2>2, <2>3, LeafShape, Words
  <2> HIDE DEF NewNode
  <2>5. \A t \in Ids : /\ sets'[t].tasks = sets[t].tasks
                       /\ sets'[t].empty = IF t = s THEN NewNode ELSE sets[t].empty
    BY <2>2, SetsTyped DEF SetRecords
  <2>6. NothingCaught
    <3>1. \A ty \in PromiseTypes : \A i \in Ids : promises'[ty][i] \in {0, NewNode, promises[ty][i]}
      BY <2>2 DEF AddPromise, HeapInv, HeapTypeOK
    <3>2. QED
      BY <2>2, <2>5, <3>1, LessCaught
  <2>7. PlainNodes' /\ UnderOne'
    <3>1. OneLeaf({"sure", "io", "send", "empty"})
      BY <2>4 DEF OneLeaf
    <3>2. QED
      BY <2>4, <3>1, ShapeKept DEF WaitInv
  <2>8. EmptyBacked'
    <3>1. ASSUME NEW n \in Nodes', nodes'[n].kind = "empty", Live(n)' PROVE Backed(n)'
      <4>1. CASE n = NewNode
        BY <2>2, <2>3, <2>4, <2>5, <4>1 DEF Backed
      <4>2. CASE n # NewNode
        <5>1. n \in Nodes /\ n # 0
          BY <2>4, <4>2, ZeroIsNoNode DEF OneLeaf, HeapInv
        <5>2. nodes[n].kind = "empty" /\ nodes'[n].on = nodes[n].on
          BY <2>4, <3>1, <5>1 DEF SameShape
        <5>3. Live(n)
          BY <2>4, <2>6, <3>1, <5>1, NotRevived DEF WaitInv
        <5>4. Backed(n)
          BY <5>1, <5>2, <5>3 DEF WaitInv, EmptyBacked
        <5>5. nodes[n].on[2] # s
          BY <2>2, <5>1, <5>3, <5>4 DEF Backed
        <5>6. QED
          BY <2>5, <5>2, <5>4, <5>5 DEF Backed
      <4>3. QED
        BY <4>1, <4>2
    <3>2. QED
      BY <3>1 DEF EmptyBacked
  <2>9. NoSetNoTasks'
    BY <2>2, <2>5 DEF WaitInv, NoSetNoTasks
  <2>10. AskedWell'
    <3>1. Asks
      BY <2>2, AnswerAsks DEF AddPromise
    <3>2. QED
      BY <3>1, AskedStays DEF WaitInv, Asks
  <2>11. QED
    BY <2>7, <2>8, <2>9, <2>10 DEF WaitInv
<1>3. QED
  BY <1>1, <1>2

LEMMA TaskSetsKeepWait == ASSUME Attending, WaitInv, RunTaskSets PROVE WaitInv'
<1>1. CASE TaskSetIsEmpty \/ TaskSetErrorCount
  BY <1>1, OnlyAnswersQuiet, QuietKeepsWait DEF TaskSetIsEmpty, TaskSetErrorCount, Needs, Attending
<1>2. QED
  BY <1>1, NewSetKeepsWait, ReleaseSetKeepsWait, AddTaskKeepsWait, ClearSetKeepsWait,
     OnEmptyKeepsWait, LastErrorKeepsWait DEF RunTaskSets

\* The last task to leave its set fulfills onEmpty; until then the set has a task left.
LEMMA ReapKeepsWait == ASSUME LoopInv, HeapInv, WaitInv, ReapTask PROVE WaitInv'
<1>1. PICK s \in Ids : \E m \in sets[s].tasks :
         /\ sets' = [sets EXCEPT ![s] = TaskDone(s, m)]
         /\ IF sets[s].tasks = {m} THEN Fulfill(sets[s].empty) ELSE UNCHANGED nodes
  BY DEF ReapTask
<1>2. PICK m \in sets[s].tasks :
         /\ sets' = [sets EXCEPT ![s] = TaskDone(s, m)]
         /\ IF sets[s].tasks = {m} THEN Fulfill(sets[s].empty) ELSE UNCHANGED nodes
  BY <1>1
<1>3. UNCHANGED <<promises, retired, objects, nextId, wait, loopVars>>
  BY DEF ReapTask
<1>4. /\ \A t \in Ids : t # s => sets'[t] = sets[t]
      /\ sets'[s].tasks = sets[s].tasks \ {m}
      /\ sets[s].tasks # {m} => sets'[s].empty = sets[s].empty
  BY <1>2, SetsTyped DEF TaskDone
<1>5. SameShape /\ OneLeaf({})
  <2>1. \/ nodes' = nodes
        \/ sets[s].empty \in Nodes /\ nodes' = [nodes EXCEPT ![sets[s].empty].st = "ok"]
    BY <1>2, SetIsRecord DEF Fulfill
  <2>2. QED
    BY <2>1, StatusShape
<1>6. NothingCaught
  BY <1>3, <1>4, LessCaught
<1>7. Asks
  BY <1>3, AnswerAsks
<1>8. ASSUME NEW n \in Nodes, Live(n)', Backed(n) PROVE Backed(n)'
  <2>1. nodes'[n].on = nodes[n].on
    BY <1>5 DEF SameShape
  <2>2. CASE nodes[n].on[2] # s
    BY <1>4, <1>8, <2>1, <2>2 DEF Backed
  <2>3. CASE nodes[n].on[2] = s /\ sets[s].tasks # {m}
    BY <1>2, <1>4, <1>8, <2>1, <2>3 DEF Backed
  <2>4. CASE nodes[n].on[2] = s /\ sets[s].tasks = {m}
    BY <1>2, <1>8, <2>4, EmptiedSet DEF Fulfill
  <2>5. QED
    BY <2>2, <2>3, <2>4
<1>9. NoSetNoTasks'
  BY <1>3, <1>4 DEF WaitInv, NoSetNoTasks
<1>10. QED
  BY <1>5, <1>6, <1>7, <1>8, <1>9, SetsKeepWait

LEMMA TeardownKeepsWait == ASSUME LoopInv, HeapInv, WaitInv, Leave, ClearTables PROVE WaitInv'
<1>1. /\ UNCHANGED <<nodes, wait, req>> /\ wait.node = 0
      /\ \A ty \in PromiseTypes : \A i \in Ids : promises'[ty][i] = 0
      /\ \A s \in Ids : sets'[s].tasks = {}
  BY DEF Leave, ClearTables, HeapInv, HeapTypeOK, callVars, NoTasks
<1>2. SameShape /\ OneLeaf({}) /\ Asks
  BY <1>1, StatusShape DEF Asks
<1>3. NothingCaught
  BY <1>1, LessCaught
<1>4. ASSUME NEW n \in Nodes PROVE ~Live(n)'
  <2>1. nodes'[n].root \in Nodes /\ 0 \notin Nodes
    BY <1>1, ZeroIsNoNode DEF HeapInv, HeapTypeOK, NodesTypeOK
  <2>2. ~HeldIn(nodes'[n].root, promises', sets', wait')
    BY <1>1, <2>1 DEF HeldIn
  <2>3. QED
    BY <2>2, LiveIsHeldNext
<1>5. NoSetNoTasks'
  BY <1>1 DEF NoSetNoTasks
<1>6. QED
  BY <1>2, <1>3, <1>4, <1>5, SetsKeepWait

\* A combinator with the parts its outcome needs.
Shaped(kind) == /\ kind \in {"then", "catch", "all", "race"}
                /\ kind \in {"then", "catch"} => DOMAIN Named = 1..2
                /\ kind = "race" => DOMAIN Named # {}

LEMMA CombineKeepsWait ==
    ASSUME Attending, WaitInv, NEW kind, Shaped(kind), Combine(kind)
    PROVE  WaitInv'
<1> USE DEF Attending
<1>void. "void" \in PromiseTypes /\ kind \in Kinds /\ kind # "empty" /\ 0 \notin Nodes
  BY Words, ZeroIsNoNode DEF Shaped, HeapInv
<1>take. \A j \in Ids : WithoutTaken[j] \in {0, promises["void"][j]} /\ DOMAIN WithoutTaken = Ids
  BY DEF WithoutTaken
<1>1. UNCHANGED <<objects, sets, wait>> /\ Asks
  BY AnswerAsks DEF Combine
<1>missing. CASE \E k \in DOMAIN Named : Missing(k)
  <2>1. promises' = [promises EXCEPT !["void"] = WithoutTaken] /\ UNCHANGED nodes
    BY <1>missing DEF Combine
  <2>2. \A ty \in PromiseTypes : \A j \in Ids : promises'[ty][j] \in {0, promises[ty][j]}
    BY <1>take, <2>1 DEF HeapInv, HeapTypeOK
  <2>3. SameShape /\ OneLeaf({}) /\ NothingCaught
    BY <1>1, <2>1, <2>2, StatusShape, LessCaught
  <2>4. Quiet
    BY <1>1, <2>3, FewerKinds DEF Quiet, Asks
  <2>5. QED
    BY <2>4, QuietKeepsWait
<1>all. CASE \A k \in DOMAIN Named : ~Missing(k)
  <2> DEFINE i == FreshFrom(nextId["void"], {j \in Ids : WithoutTaken[j] # 0})
  <2>1. /\ nodes' = Joined(kind)
        /\ promises' = [promises EXCEPT !["void"] = [WithoutTaken EXCEPT ![i] = NewNode]]
    BY <1>all DEF Combine, NewNode
  <2>2. NewIsNew /\ JoinedUp(kind)
    BY <1>void, <1>all, <2>1, JoinedTyped
  <2> HIDE DEF i, NewNode
  <2>3. \A ty \in PromiseTypes : \A j \in Ids : promises'[ty][j] \in {0, NewNode, promises[ty][j]}
    BY <1>take, <2>1 DEF HeapInv, HeapTypeOK
  <2>4. NewNode \notin Nodes /\ Nodes' = Nodes \cup {NewNode}
    BY <2>2 DEF NewIsNew, JoinedUp
  <2>5. NothingCaught
    BY <1>1, <2>3, LessCaught
  <2>6. PlainNodes'
    <3>1. ASSUME NEW n \in Nodes
          PROVE  nodes'[n].kind = nodes[n].kind /\ nodes'[n].parts = nodes[n].parts
      BY <2>2 DEF JoinedUp
    <3>2. nodes'[NewNode].kind = kind /\ DOMAIN nodes'[NewNode].parts = DOMAIN Named
      BY <2>2 DEF JoinedUp
    <3>3. QED
      BY <2>4, <3>1, <3>2 DEF PlainNodes, WaitInv, Shaped
  <2>7. ASSUME NEW n \in Nodes, NEW k \in DOMAIN nodes[n].parts
        PROVE  nodes[n].parts[k] \in Nodes
    <3>1. n \in 1..Len(nodes) /\ Nodes = 1..Len(nodes) /\ Len(nodes) \in Nat
      BY DEF HeapInv, HeapTypeOK, NodesTypeOK, Nodes
    <3>2. nodes[n].parts[k] \in 1..(n - 1)
      BY DEF HeapInv, HeapTypeOK, NodesTypeOK
    <3>3. QED
      BY <3>1, <3>2
  <2>8. UnderOne'
    <3>1. ASSUME NEW n \in Nodes
          PROVE  /\ nodes'[n].above \subseteq Nodes'
                 /\ nodes'[n].root = n => nodes'[n].above = {}
      <4>1. nodes[n].above \subseteq Nodes /\ (nodes[n].root = n => nodes[n].above = {})
        BY DEF WaitInv, UnderOne
      <4>2. QED
        BY <2>2, <2>4, <4>1 DEF JoinedUp
    <3>2. ASSUME NEW n \in Nodes, NEW k \in DOMAIN nodes'[n].parts
          PROVE  /\ nodes'[nodes'[n].parts[k]].root = nodes'[n].root
                 /\ nodes'[nodes'[n].parts[k]].above \subseteq nodes'[n].above \cup {n}
      <4>1. nodes'[n].parts = nodes[n].parts
        BY <2>2 DEF JoinedUp
      <4>2. PICK p \in Nodes : p = nodes[n].parts[k]
        BY <2>7, <3>2, <4>1
      <4>3. nodes[p].root = nodes[n].root /\ nodes[p].above \subseteq nodes[n].above \cup {n}
        BY <3>2, <4>1, <4>2 DEF WaitInv, UnderOne
      <4>4. CASE nodes[n].root \in Unders
        BY <2>2, <4>1, <4>2, <4>3, <4>4 DEF JoinedUp
      <4>5. CASE nodes[n].root \notin Unders
        BY <2>2, <4>1, <4>2, <4>3, <4>5 DEF JoinedUp
      <4>6. QED
        BY <4>4, <4>5
    <3>3. /\ nodes'[NewNode].above = {}
          /\ DOMAIN nodes'[NewNode].parts = DOMAIN Named /\ nodes'[NewNode].root = NewNode
      BY <2>2 DEF JoinedUp
    <3>4. ASSUME NEW k \in DOMAIN Named
          PROVE  /\ nodes'[nodes'[NewNode].parts[k]].root = NewNode
                 /\ nodes'[nodes'[NewNode].parts[k]].above = {NewNode}
      <4>1. PICK p \in Nodes : p = nodes'[NewNode].parts[k] /\ p = promises["void"][Named[k]]
        BY <2>2 DEF JoinedUp
      <4>2. p \in Unders /\ Named[k] \in Ids /\ p # 0
        BY <1>void, <1>all, <4>1 DEF Unders, Missing, Busy
      <4>3. nodes[p].root = p
        BY <1>void, <4>1, <4>2 DEF HeapInv, Roots
      <4>4. nodes[p].above = {}
        BY <4>3 DEF WaitInv, UnderOne
      <4>5. QED
        BY <2>2, <4>1, <4>2, <4>3, <4>4 DEF JoinedUp
    <3>5. QED
      BY <2>4, <3>1, <3>2, <3>3, <3>4 DEF UnderOne
  <2>9. EmptyBacked'
    <3>1. ASSUME NEW n \in Nodes', nodes'[n].kind = "empty", Live(n)' PROVE Backed(n)'
      <4>1. n \in Nodes
        BY <1>void, <2>2, <2>4, <3>1 DEF JoinedUp
      <4>2. nodes[n].kind = "empty" /\ nodes'[n].on = nodes[n].on /\ nodes'[n].st = nodes[n].st
            /\ nodes[n].above \subseteq nodes'[n].above
        BY <2>2, <3>1, <4>1 DEF JoinedUp
      <4>3. nodes[n].root \in Nodes /\ nodes[n].above \subseteq Nodes
        BY <4>1 DEF HeapInv, HeapTypeOK, NodesTypeOK, WaitInv, UnderOne
      <4>4. /\ nodes'[n].st = "pending"
            /\ \A a \in nodes'[n].above : nodes'[a].st = "pending"
            /\ HeldIn(nodes'[n].root, promises', sets', wait')
        BY <3>1, LiveIsHeldNext
      <4>5. nodes[n].st = "pending" /\ \A a \in nodes[n].above : nodes[a].st = "pending"
        BY <2>2, <4>2, <4>3, <4>4 DEF JoinedUp
      <4>6. HeldIn(nodes[n].root, promises, sets, wait)
        <5>1. CASE nodes[n].root \in Unders
          <6>1. PICK k \in DOMAIN Named : nodes[n].root = promises["void"][Named[k]]
            BY <5>1 DEF Unders
          <6>2. Named[k] \in Ids
            BY <1>all DEF Missing, Busy
          <6>3. QED
            BY <1>void, <6>1, <6>2 DEF HeldIn
        <5>2. CASE nodes[n].root \notin Unders
          <6>1. nodes'[n].root = nodes[n].root
            BY <2>2, <4>1, <5>2 DEF JoinedUp
          <6>2. QED
            BY <2>5, <4>3, <4>4, <6>1 DEF NothingCaught
        <5>3. QED
          BY <5>1, <5>2
      <4>7. Backed(n)
        BY <4>1, <4>2, <4>5, <4>6, LiveIsHeld DEF WaitInv, EmptyBacked
      <4>8. QED
        BY <1>1, <4>2, <4>7 DEF Backed
    <3>2. QED
      BY <3>1 DEF EmptyBacked
  <2>10. NoSetNoTasks' /\ AskedWell'
    BY <1>1, AskedStays DEF WaitInv, NoSetNoTasks, Asks
  <2>11. QED
    BY <2>6, <2>8, <2>9, <2>10 DEF WaitInv
<1>2. QED
  BY <1>missing, <1>all

LEMMA EnqueueKeepsAsked ==
    ASSUME LoopInv, AskedWell, NEW c \in Calls, NEW requests, \A r \in requests : WellAsked(r),
           Enqueue(c, requests)
    PROVE  AskedWell'
<1>1. PICK r \in requests : req' = req \/ req' = [req EXCEPT ![c] = r]
  BY DEF Enqueue
<1>2. CASE req' = req
  BY <1>2 DEF AskedWell
<1>3. CASE req' = [req EXCEPT ![c] = r]
  <2>1. \A d \in Calls : req'[d] = IF d = c THEN r ELSE req[d]
    BY <1>3 DEF LoopInv, LoopTypeOK
  <2>2. QED
    BY <2>1 DEF AskedWell
<1>4. QED
  BY <1>1, <1>2, <1>3

LEMMA CombinatorsWellAsked == \A r \in PairRequests \cup ArrayRequests : WellAsked(r)
<1>1. ASSUME NEW two \in TwoIds PROVE DOMAIN two = 1..2
  <2>1. PICK i \in Ids, j \in Ids : two = <<i, j>>
    BY DEF TwoIds
  <2>2. QED
    BY <2>1
<1>2. ASSUME NEW r \in PairRequests PROVE WellAsked(r)
  <2>1. r[1] \in {"promiseThen", "promiseCatch"} /\ r[2] \in TwoIds
    BY DEF PairRequests
  <2>2. QED
    BY <1>1, <2>1 DEF WellAsked
<1>3. ASSUME NEW r \in ArrayRequests PROVE WellAsked(r)
  <2>1. r[1] \in {"promiseAll", "promiseRace"} /\ r[2] \in {<<>>} \cup TwoIds
    BY DEF ArrayRequests
  <2>2. QED
    BY <1>1, <2>1 DEF WellAsked
<1>4. QED
  BY <1>2, <1>3

LEMMA OthersWellAsked ==
    ASSUME NEW requests \in {SleepRequests, PromiseRequests, TaskSetRequests,
               TaskSetStateRequests, TaskSetErrorRequests, ListenerRequests, ConnectRequests,
               AddressRequests, AddressUseRequests, ConnectionPromiseRequests,
               ConnectionRequests, TransferRequests, BytesPromiseRequests,
               ShutdownWriteRequests, EndRequests, WrapRequests, WrapOtherRequests,
               PipeRequests, DatagramRequests, UInt32PromiseRequests,
               DatagramReceiveRequests}
    PROVE  \A r \in requests : WellAsked(r)
<1>1. ASSUME NEW r \in requests
      PROVE  r[1] \notin {"promiseThen", "promiseCatch", "promiseRace"}
  <2>1. CASE requests \in {SleepRequests, PromiseRequests}
    BY <2>1 DEF SleepRequests, PromiseRequests
  <2>2. CASE requests \in {TaskSetRequests, TaskSetStateRequests, TaskSetErrorRequests}
    BY <2>2 DEF TaskSetRequests, TaskSetStateRequests, TaskSetErrorRequests
  <2>3. CASE requests \in {ListenerRequests, ConnectRequests, AddressRequests,
                           AddressUseRequests}
    BY <2>3 DEF ListenerRequests, ConnectRequests, AddressRequests, AddressUseRequests
  <2>4. CASE requests \in {ConnectionPromiseRequests, ConnectionRequests, TransferRequests}
    BY <2>4 DEF ConnectionPromiseRequests, ConnectionRequests, TransferRequests
  <2>5. CASE requests \in {BytesPromiseRequests, ShutdownWriteRequests, EndRequests}
    BY <2>5 DEF BytesPromiseRequests, ShutdownWriteRequests, EndRequests
  <2>6. CASE requests \in {WrapRequests, WrapOtherRequests, PipeRequests}
    BY <2>6 DEF WrapRequests, WrapOtherRequests, PipeRequests
  <2>7. CASE requests \in {DatagramRequests, UInt32PromiseRequests, DatagramReceiveRequests}
    BY <2>7 DEF DatagramRequests, UInt32PromiseRequests, DatagramReceiveRequests
  <2>8. QED
    BY <2>1, <2>2, <2>3, <2>4, <2>5, <2>6, <2>7
<1>2. QED
  BY <1>1 DEF WellAsked

\* A caller that enqueues leaves the promises alone.
LEMMA CallXKeepsWait ==
    ASSUME LoopInv, HeapInv, WaitInv, NEW c \in Calls, CallX(c)
    PROVE  WaitInv'
<1>1. \E requests : /\ \A r \in requests : WellAsked(r)
                    /\ Enqueue(c, requests) /\ UNCHANGED <<heapVars, wait>>
  <2>1. CASE CallThenCatch(c) \/ CallAllRace(c)
    BY <2>1, CombinatorsWellAsked DEF Submit, CallThenCatch, CallAllRace
  <2>2. CASE ~CallThenCatch(c) /\ ~CallAllRace(c)
    BY <2>2, OthersWellAsked
       DEF CallX, Submit, CallSleep, CallPromise, CallTaskSet, CallTaskSetState,
       CallTaskSetErrors, CallListener, CallConnect, CallAddress, CallAddressUse,
       CallConnectionPromise, CallReleaseConnection, CallTransfer, CallBytesPromise,
       CallShutdownWrite, CallConnectionEnds, CallWrap, CallWrapOther, CallPipe,
       CallDatagram, CallUInt32Promise, CallDatagramReceive
  <2>3. QED
    BY <2>1, <2>2
<1>2. AskedWell' /\ UNCHANGED <<nodes, promises, objects, sets, wait>>
  BY <1>1, EnqueueKeepsAsked DEF WaitInv, heapVars
<1>3. SameShape /\ OneLeaf({}) /\ NothingCaught
  BY <1>2, StatusShape, LessCaught
<1>4. PlainNodes' /\ UnderOne'
  BY <1>3, ShapeKept DEF WaitInv, OneLeaf
<1>5. EmptyBacked'
  <2>1. \A n \in Nodes : (Live(n)' => Live(n)) /\ (Backed(n) => Backed(n)')
    BY <1>2, <1>3, NotRevived DEF WaitInv, Backed
  <2>2. QED
    BY <1>2, <2>1 DEF WaitInv, EmptyBacked, Nodes
<1>6. NoSetNoTasks'
  BY <1>2 DEF WaitInv, NoSetNoTasks
<1>7. QED
  BY <1>2, <1>4, <1>5, <1>6 DEF WaitInv

LEMMA CombinesKeepWait ==
    ASSUME LoopInv, HeapInv, WaitInv, PromiseThenStart \/ PromiseCatchStart \/ RunArrays
    PROVE  WaitInv'
<1>1. Attending
  BY ServingAttends DEF PromiseThenStart, PromiseCatchStart, RunArrays, PromiseAllStart,
     PromiseRaceStart
<1>2. cur \in Calls
  BY <1>1 DEF LoopInv, LoopTypeOK, Attending
<1>3. /\ Asked("promiseThen") \/ Asked("promiseCatch") => DOMAIN Named = 1..2
      /\ Asked("promiseRace") => Named = <<>> \/ DOMAIN Named = 1..2
  BY <1>2 DEF Asked, Named, WaitInv, AskedWell, WellAsked
<1>4. CASE Rejects
  BY <1>1, <1>4, OnlyAnswersQuiet, QuietKeepsWait DEF Attending
<1>5. CASE ~Rejects
  <2>1. \E kind \in {"then", "catch", "all", "race"} : Shaped(kind) /\ Combine(kind)
    <3>1. CASE PromiseThenStart
      BY <1>3, <3>1 DEF PromiseThenStart, Serving, Shaped
    <3>2. CASE PromiseCatchStart
      BY <1>3, <3>2 DEF PromiseCatchStart, Serving, Shaped
    <3>3. CASE PromiseAllStart
      BY <3>3 DEF PromiseAllStart, Shaped
    <3>4. CASE PromiseRaceStart
      BY <1>3, <1>5, <3>4 DEF PromiseRaceStart, Serving, Shaped
    <3>5. QED
      BY <3>1, <3>2, <3>3, <3>4 DEF RunArrays
  <2>2. QED
    BY <1>1, <2>1, CombineKeepsWait
<1>6. QED
  BY <1>4, <1>5

LEMMA PerformKeepsWait == ASSUME LoopInv, HeapInv, WaitInv, Perform PROVE WaitInv'
<1>1. CASE RunTaskSets
  <2>1. Attending
    BY <1>1, ServingAttends DEF RunTaskSets, TaskSetNew, TaskSetRelease, TaskSetAddPromise,
       TaskSetClear, TaskSetIsEmpty, TaskSetOnEmptyStart, TaskSetErrorCount, TaskSetTakeLastError
  <2>2. QED
    BY <1>1, <2>1, TaskSetsKeepWait
<1>2. CASE PromiseThenStart \/ PromiseCatchStart \/ RunArrays
  BY <1>2, CombinesKeepWait
<1>3. CASE SleepNanos \/ AwaitPromise \/ CancelPromise \/ ReleasePromise
  <2>1. Attending
    BY <1>3, ServingAttends DEF SleepNanos, AwaitPromise, CancelPromise, ReleasePromise
  <2>2. QED
    BY <1>3, <2>1, PromisesQuiet, QuietKeepsWait
<1>4. CASE RunListeners
  <2>1. Attending
    BY <1>4, ServingAttends DEF RunListeners, Listen, ReleaseListener, Accept, AcceptStart,
       Connect, ConnectStart
  <2>2. QED
    BY <1>4, <2>1, ListenersQuiet, QuietKeepsWait
<1>5. CASE RunAddresses
  <2>1. Attending
    BY <1>5, ServingAttends DEF RunAddresses, ParseAddress, ReleaseNetworkAddress,
       NetworkAddressToString, NetworkAddressClone, NetworkAddressConnect,
       NetworkAddressConnectStart, NetworkAddressListen, NetworkAddressBindDatagramPort
  <2>2. QED
    BY <1>5, <2>1, AddressesQuiet, QuietKeepsWait
<1>6. CASE RunConnectionPromises
  <2>1. Attending
    BY <1>6, ServingAttends DEF RunConnectionPromises, AwaitConnectionPromise,
       AwaitConnectionPromiseWithTimeout, CancelConnectionPromise, ReleaseConnectionPromise,
       ReleaseConnection
  <2>2. QED
    BY <1>6, <2>1, ConnectionPromisesQuiet, QuietKeepsWait
<1>7. CASE RunConnections \/ RunConnectionEnds
  <2>1. Attending
    BY <1>7, ServingAttends DEF RunConnections, ConnectionWrite, ConnectionWriteStart,
       ConnectionRead, ConnectionReadStart, AwaitBytesPromise, CancelBytesPromise,
       ReleaseBytesPromise, ConnectionShutdownWrite, ConnectionShutdownWriteStart,
       RunConnectionEnds, ConnectionWhenWriteDisconnectedStart, ConnectionAbortRead,
       ConnectionAbortWrite, ConnectionDupFd
  <2>2. QED
    BY <1>7, <2>1, ConnectionsQuiet, QuietKeepsWait
<1>8. CASE RunWraps
  <2>1. Attending
    BY <1>8, ServingAttends DEF RunWraps, WrapSocketFd, WrapSocketFdTake, WrapListenSocketFd,
       WrapListenSocketFdTake, WrapDatagramSocketFd, WrapDatagramSocketFdTake, NewTwoWayPipe,
       NewCapabilityPipe
  <2>2. QED
    BY <1>8, <2>1, WrapsQuiet, QuietKeepsWait
<1>9. CASE RunDatagrams \/ RunDatagramReceives
  <2>1. Attending
    BY <1>9, ServingAttends DEF RunDatagrams, DatagramBind, DatagramReleasePort, DatagramGetPort,
       DatagramSend, DatagramSendStart, AwaitUInt32Promise, CancelUInt32Promise,
       ReleaseUInt32Promise, RunDatagramReceives, DatagramReceive, DatagramReceiveStart,
       AwaitDatagramReceivePromise, CancelDatagramReceivePromise, ReleaseDatagramReceivePromise
  <2>2. QED
    BY <1>9, <2>1, DatagramsQuiet, QuietKeepsWait
<1>10. QED
  BY <1>1, <1>2, <1>3, <1>4, <1>5, <1>6, <1>7, <1>8, <1>9 DEF Perform, RunPromises

LEMMA NextKeepsWait == ASSUME LoopInv, HeapInv, WaitInv, [Next]_vars PROVE WaitInv'
<1>1. CASE \E c \in Calls : CallX(c)
  BY <1>1, CallXKeepsWait
<1>2. CASE \/ Release \/ TakeNext \/ UNCHANGED vars
           \/ \E c \in Calls : Begin(c) /\ UNCHANGED <<heapVars, wait>>
  <2>1. UNCHANGED <<heapVars, wait>>
    BY <1>2 DEF Release, TakeNext, vars
  <2>2. UNCHANGED req
    BY <1>2 DEF Release, TakeNext, vars, Begin, Unregister, Shutdown, Join, Pop, loopVars, callVars
  <2>3. QED
    BY <2>1, <2>2, OutsideQuiet, QuietKeepsWait
<1>3. CASE Perform
  BY <1>3, PerformKeepsWait
<1>4. CASE SettleSure \/ SettlePeer \/ Resume \/ TimeOut
  BY <1>4, SettleQuiet, WaitEndsQuiet, QuietKeepsWait
<1>5. CASE ReapTask
  BY <1>5, ReapKeepsWait
<1>6. CASE Teardown
  BY <1>6, TeardownKeepsWait DEF Teardown
<1>7. QED
  BY <1>1, <1>2, <1>3, <1>4, <1>5, <1>6 DEF Next

LEMMA WaitInvInit == ASSUME Init PROVE WaitInv
<1>1. Nodes = {}
  BY DEF Init, HeapInit, Nodes
<1>2. PlainNodes /\ UnderOne /\ EmptyBacked
  BY <1>1 DEF PlainNodes, UnderOne, EmptyBacked
<1>3. NoSetNoTasks
  BY DEF Init, HeapInit, NoSetNoTasks, NoTasks
<1>4. AskedWell
  BY DEF Init, LoopInit, AskedWell, WellAsked, NoRequest
<1>5. QED
  BY <1>2, <1>3, <1>4 DEF WaitInv

\* A combinator that cannot settle has a part that is pending.
LEMMA StuckHasPart ==
    ASSUME HeapInv, WaitInv, NEW n \in Nodes, Outcomes(n) = {}, nodes[n].kind # "empty"
    PROVE  \E k \in DOMAIN nodes[n].parts : nodes[nodes[n].parts[k]].st = "pending"
<1> DEFINE part == PartSts(n)
           settled == {part[k] : k \in DOMAIN part} \ {"pending"}
<1>1. DOMAIN part = DOMAIN nodes[n].parts
      /\ \A k \in DOMAIN part : part[k] = nodes[nodes[n].parts[k]].st
  BY DEF PartSts
<1>2. SUFFICES ASSUME \A k \in DOMAIN part : part[k] # "pending"
               PROVE  FALSE
  BY <1>1
<1>3. \A k \in DOMAIN part : part[k] \in settled
  BY <1>2
<1>4. /\ nodes[n].kind \in {"sure", "io", "send", "then", "catch", "all", "race"}
      /\ nodes[n].kind \in {"then", "catch"} => DOMAIN part = 1..2
      /\ nodes[n].kind = "race" => DOMAIN part # {}
  BY <1>1 DEF WaitInv, PlainNodes
<1>5. CASE nodes[n].kind \in {"sure", "io", "send"}
  BY <1>5 DEF Outcomes
<1>6. CASE nodes[n].kind = "all"
  <2>1. Outcomes(n) = IF "err" \in settled THEN {"err"} ELSE {"ok"}
    BY <1>2, <1>6 DEF Outcomes
  <2>2. QED
    BY <2>1
<1>7. CASE nodes[n].kind = "race"
  <2>1. Outcomes(n) = settled
    BY <1>7 DEF Outcomes
  <2>2. QED
    BY <1>3, <1>4, <1>7, <2>1
<1>8. CASE nodes[n].kind \in {"then", "catch"}
  <2>1. part[1] \in settled /\ part[2] \in settled
    BY <1>3, <1>4, <1>8
  <2>2. Outcomes(n) \in {{part[1]} \cap settled, {part[2]} \cap settled}
    BY <1>8 DEF Outcomes
  <2>3. QED
    BY <2>1, <2>2
<1>9. QED
  BY <1>4, <1>5, <1>6, <1>7, <1>8

\* What an owned promise waits for when nothing can move: going down from it to the first
\* of the promises under it that is still alive one finds the promise of some onEmpty.
LEMMA StuckOnSet ==
    ASSUME HeapInv, WaitInv, NEW r \in Nodes, Live(r), nodes[r].root = r,
           \A n \in Nodes : ~CanMove(n)
    PROVE  \E s \in Ids : /\ sets[s].tasks # {}
                          /\ sets[s].empty \in Nodes
                          /\ nodes[sets[s].empty].root = r
<1> DEFINE S == {n \in Nodes : Live(n) /\ nodes[n].root = r}
<1>1. Nodes = 1..Len(nodes) /\ Len(nodes) \in Nat
  BY DEF HeapInv, HeapTypeOK, NodesTypeOK, Nodes
<1>2. PICK n \in S : \A m \in S : n <= m
  <2>1. S \in SUBSET Nat /\ r \in S
    BY <1>1
  <2> HIDE DEF S
  <2>2. QED
    BY <2>1, SmallestExists
<1>3. n \in Nodes /\ Live(n) /\ nodes[n].root = r
  OBVIOUS
<1>4. Outcomes(n) = {}
  BY <1>3 DEF CanMove
<1>5. CASE nodes[n].kind # "empty"
  <2>1. PICK k \in DOMAIN nodes[n].parts : nodes[nodes[n].parts[k]].st = "pending"
    BY <1>3, <1>4, <1>5, StuckHasPart
  <2> DEFINE p == nodes[n].parts[k]
  <2>2. p \in 1..(n - 1)
    BY <1>3 DEF HeapInv, HeapTypeOK, NodesTypeOK
  <2>3. p \in Nodes /\ p < n
    BY <1>1, <1>3, <2>2
  <2>4. nodes[p].root = r /\ nodes[p].above \subseteq nodes[n].above \cup {n}
    BY <1>3 DEF WaitInv, UnderOne
  <2>5. nodes[n].st = "pending" /\ (\A a \in nodes[n].above : nodes[a].st = "pending")
        /\ HeldIn(r, promises, sets, wait)
    BY <1>3, LiveIsHeld
  <2>6. Live(p)
    BY <2>1, <2>4, <2>5, LiveIsHeld
  <2>7. n <= p
    BY <1>2, <2>3, <2>4, <2>6
  <2>8. QED
    BY <1>1, <1>3, <2>3, <2>7
<1>6. CASE nodes[n].kind = "empty"
  <2>1. Backed(n)
    BY <1>3, <1>6 DEF WaitInv, EmptyBacked
  <2>2. QED
    BY <1>3, <2>1 DEF Backed
<1>7. QED
  BY <1>5, <1>6

\* The wait and the tasks of all sets: what the event loop turns for.
Driven == {wait.node} \cup UNION {sets[s].tasks : s \in Ids}

\* When nothing can move, each of them waits for a set that still has a task.  No two wait
\* for the same set, so there are as many of these tasks as there are promises driven; but
\* the awaited one is no task.
LEMMA SomethingMoves == ASSUME HeapInv, WaitInv PROVE WaitCanEnd
<1> SUFFICES ASSUME Turning, ~Reapable, \A n \in Nodes : ~CanMove(n)
             PROVE  FALSE
  BY DEF WaitCanEnd
<1>1. /\ wait.node \in Nodes /\ wait.node # 0
      /\ \A s \in Ids : sets[s].tasks \in SUBSET Nodes
  BY DEF Turning, HeapInv, HeapTypeOK
<1>2. Driven \subseteq Nodes /\ IsFiniteSet(Driven)
  <2>1. Driven \in SUBSET Nodes
    BY <1>1 DEF Driven
  <2>2. IsFiniteSet(Nodes)
    <3>1. Nodes = 1..Len(nodes) /\ Len(nodes) \in Nat
      BY DEF HeapInv, HeapTypeOK, NodesTypeOK, Nodes
    <3>2. QED
      BY <3>1, FS_Interval
  <2>3. QED
    BY <2>1, <2>2, FS_Subset
<1>3. ASSUME NEW r \in Driven PROVE Live(r) /\ nodes[r].root = r
  <2>1. r = wait.node \/ \E s \in Ids : r \in sets[s].tasks
    BY DEF Driven
  <2>2. nodes[r].st = "pending" /\ nodes[r].root = r
    BY <1>1, <2>1 DEF Turning, Reapable, Pending, HeapInv, Roots
  <2>3. nodes[r].above = {}
    BY <1>2, <2>2 DEF WaitInv, UnderOne
  <2>4. HeldIn(r, promises, sets, wait)
    BY <2>1 DEF HeldIn
  <2>5. QED
    BY <2>2, <2>3, <2>4, LiveIsHeld
<1> DEFINE AwaitsSet(r, s) == /\ sets[s].tasks # {}
                              /\ sets[s].empty \in Nodes /\ nodes[sets[s].empty].root = r
           Awaits(r, m) == \E s \in Ids : m \in sets[s].tasks /\ AwaitsSet(r, s)
           Others == Driven \ {wait.node}
           f == [r \in Driven |-> CHOOSE m \in Others : Awaits(r, m)]
<1>4. ASSUME NEW r \in Driven PROVE \E m \in Others : Awaits(r, m)
  <2>1. PICK s \in Ids : AwaitsSet(r, s)
    BY <1>2, <1>3, StuckOnSet
  <2>2. PICK m \in sets[s].tasks : TRUE
    BY <2>1
  <2>3. m \in Driven /\ m # wait.node
    BY <2>2 DEF Driven, HeapInv, Single
  <2>4. QED
    BY <2>1, <2>2, <2>3
<1>5. ASSUME NEW r \in Driven, NEW q \in Driven, NEW m, Awaits(r, m), Awaits(q, m) PROVE r = q
  <2>1. PICK s \in Ids : m \in sets[s].tasks /\ AwaitsSet(r, s)
    BY <1>5
  <2>2. PICK t \in Ids : m \in sets[t].tasks /\ AwaitsSet(q, t)
    BY <1>5
  <2>3. s = t
    BY <2>1, <2>2 DEF HeapInv, Single
  <2>4. QED
    BY <2>1, <2>2, <2>3
<1> HIDE DEF Awaits, AwaitsSet, Others
<1>6. f \in [Driven -> Others] /\ \A r \in Driven : Awaits(r, f[r])
  BY <1>4
<1>7. IsFiniteSet(Others) /\ Cardinality(Others) < Cardinality(Driven)
  <2>1. wait.node \in Driven
    BY DEF Driven
  <2>2. Cardinality(Driven) \in Nat
    BY <1>2, FS_CardinalityType
  <2>3. IsFiniteSet(Others) /\ Cardinality(Others) = Cardinality(Driven) - 1
    BY <1>2, <2>1, FS_RemoveElement DEF Others
  <2>4. QED
    BY <2>2, <2>3
<1> HIDE DEF f
<1>8. PICK r \in Driven, q \in Driven : r # q /\ f[r] = f[q]
  BY <1>2, <1>6, <1>7, FS_PigeonHole
<1>9. QED
  BY <1>5, <1>6, <1>8

\* WaitInv holds throughout, along with the invariant of the tables.
THEOREM WaitInvariance == Spec => [](IInv /\ WaitInv)
<1>1. Init => WaitInv
  BY WaitInvInit
<1>2. IInv /\ WaitInv /\ [Next]_vars => WaitInv'
  BY NextKeepsWait DEF IInv
<1>3. QED
  BY <1>1, <1>2, Invariance, PTL DEF Spec

\* Whatever promises, combinators, task sets and onEmpty promises the clients tie together
\* and take apart again, while the runtime's thread waits something is left that can move.
THEOREM WaitsCanEnd == Spec => []WaitCanEnd
<1>1. IInv /\ WaitInv => WaitCanEnd
  BY SomethingMoves DEF IInv
<1>2. QED
  BY <1>1, WaitInvariance, PTL
=============================================================================
