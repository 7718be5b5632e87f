------------------------------ MODULE KjAsync -------------------------------
(***************************************************************************)
(* A KjAsync runtime and the clients of its timers, promises, task sets,   *)
(* streams and datagrams: the thread and its callers from KjLoop, the      *)
(* tables from KjTables, the operations from KjStreams.                    *)
(***************************************************************************)
EXTENDS KjStreams

vars == <<loopVars, heapVars, wait>>

Init == LoopInit /\ HeapInit

CallX(c) == \/ CallSleep(c) \/ CallPromise(c) \/ CallThenCatch(c) \/ CallAllRace(c)
            \/ CallTaskSet(c) \/ CallTaskSetState(c) \/ CallTaskSetErrors(c)
            \/ CallListener(c) \/ CallConnect(c) \/ CallAddress(c) \/ CallAddressUse(c)
            \/ CallConnectionPromise(c) \/ CallReleaseConnection(c) \/ CallTransfer(c)
            \/ CallBytesPromise(c) \/ CallShutdownWrite(c) \/ CallConnectionEnds(c)
            \/ CallWrap(c) \/ CallWrapOther(c) \/ CallPipe(c) \/ CallDatagram(c)
            \/ CallUInt32Promise(c) \/ CallDatagramReceive(c)

Release == (Unregister \/ Shutdown \/ Join) /\ UNCHANGED <<heapVars, wait>>

TakeNext == Pop /\ UNCHANGED <<heapVars, wait>>

Perform == \/ RunPromises \/ RunArrays \/ RunTaskSets \/ RunListeners \/ RunAddresses
           \/ RunConnectionPromises \/ RunConnections \/ RunConnectionEnds \/ RunWraps
           \/ RunDatagrams \/ RunDatagramReceives

Teardown == Leave /\ ClearTables

Next == \/ \E c \in Calls : \/ Begin(c) /\ UNCHANGED <<heapVars, wait>>
                            \/ CallX(c)
        \/ Release \/ TakeNext \/ Perform
        \/ SettleSure \/ SettlePeer \/ ReapTask \/ Resume \/ TimeOut
        \/ Teardown

Spec == Init /\ [][Next]_vars

\* A thread that has found the runtime goes on, a release once begun is carried through,
\* and the runtime's thread is scheduled.  Nobody has to make a call or a release, and
\* the other end of a connection owes nothing: SettlePeer is not fair.
Fairness ==
    /\ \A c \in Calls : WF_vars(CallX(c))
    /\ WF_vars((Shutdown \/ Join) /\ UNCHANGED <<heapVars, wait>>)
    /\ WF_vars(TakeNext \/ Perform \/ Resume \/ Teardown)
    /\ WF_vars(SettleSure) /\ WF_vars(ReapTask) /\ WF_vars(TimeOut)

FairSpec == Spec /\ Fairness

-----------------------------------------------------------------------------

TypeOK == LoopTypeOK /\ HeapTypeOK

\* The thread answers the callers as CallService says, whatever the operations do.
ImplementsService == Service!Spec

\* What can still move while the thread waits: a live promise that can settle, a finished
\* task to be taken out of its set.
CanMove(n) == Live(n) /\ Outcomes(n) # {}
Reapable   == \E s \in Ids : \E n \in sets[s].tasks : ~Pending(n)

\* The thread never waits for a promise that nothing can settle: the fulfiller of onEmpty
\* is not lost with its set, and no chain of combinators and task sets waits for itself.
\* Such a wait would hang every later call and the release.
WaitCanEnd == Turning => Reapable \/ \E n \in Nodes : CanMove(n)

\* Only the other end of a connection can end this wait.
WaitsForPeer == Turning /\ ~Reapable /\ wait.how # "timed"
                /\ \A n \in Nodes : CanMove(n) => nodes[n].kind \in {"io", "send"}

\* A table with less than two free ids: add* may search it forever.
TableFull == \/ \E ty \in PromiseTypes : Cardinality(Ids \ Busy(ty)) < 2
             \/ \E ty \in ObjectTypes : Cardinality(Ids \ objects[ty]) < 2

Owed == \E c \in Calls : pc[c] = "queued"

\* Every call that got into the queue returns, and a release that began gets to join the
\* thread, unless the thread waits forever for a peer that stays silent or a table is full.
CallsReturn ==
    \/ <>[](WaitsForPeer \/ TableFull)
    \/ (Owed ~> ~Owed) /\ (~registered ~> releaser = "joined")
=============================================================================
