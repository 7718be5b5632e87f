----------------------------- MODULE KjStreams ------------------------------
(***************************************************************************)
(* The KjAsync runtime as a client of promises, task sets, streams and     *)
(* datagrams sees it.  A request is <<operation, arguments>>; for every    *)
(* family of operations there are its requests, the extern functions that  *)
(* submit them, what the runtime does with each, and the branches of run() *)
(* that dispatch to it.                                                    *)
(***************************************************************************)
EXTENDS KjTables

OneId  == {<<i>> : i \in Ids}
TwoIds == {<<i, j>> : i, j \in Ids}
Bytes  == {"empty", "some"}                 \* classes of byte buffers
Spans  == {"inverted", "empty", "some"}     \* minBytes > maxBytes, maxBytes = 0, else
IdWith(S) == {<<i, x>> : i \in Ids, x \in S}

-----------------------------------------------------------------------------
(* Timers and promises.                                                    *)

SleepRequests   == {<<"sleepNanos", <<>>>>}
PromiseRequests == {"awaitPromise", "cancelPromise", "releasePromise"} \X OneId

CallSleep(c)   == Submit(c, SleepRequests)
CallPromise(c) == Submit(c, PromiseRequests)

SleepNanos     == Serving("sleepNanos") /\ Start("void", "sure", Nothing)
AwaitPromise   == Serving("awaitPromise") /\ AwaitId("void", "value")
CancelPromise  == Serving("cancelPromise") /\ CancelId("void")
ReleasePromise == Serving("releasePromise") /\ ReleaseId("void")

-----------------------------------------------------------------------------
(* Combinators take their promises out of promises_ one by one, and an id  *)
(* that is not there stops them after the earlier ones are gone.           *)

PairRequests  == {"promiseThen", "promiseCatch"} \X TwoIds
ArrayRequests == {"promiseAll", "promiseRace"} \X ({<<>>} \cup TwoIds)

CallThenCatch(c) == Submit(c, PairRequests)
CallAllRace(c)   == Submit(c, ArrayRequests)

Named == req[cur][2]
Missing(k) == Named[k] \notin Busy("void") \/ \E j \in 1..(k - 1) : Named[j] = Named[k]
Reached == {k \in DOMAIN Named : \A j \in 1..k : ~Missing(j)}
Taken == {Named[k] : k \in Reached}
WithoutTaken == [i \in Ids |-> IF i \in Taken THEN 0 ELSE promises["void"][i]]

Joined(kind) ==
    LET new   == Len(nodes) + 1
        parts == [k \in DOMAIN Named |-> promises["void"][Named[k]]]
        under == {parts[k] : k \in DOMAIN parts}
    IN Append([m \in DOMAIN nodes |->
                  IF nodes[m].root \in under
                  THEN [nodes[m] EXCEPT !.root = new, !.above = @ \cup {new}] ELSE nodes[m]],
              [kind |-> kind, on |-> Nothing, parts |-> parts, st |-> "pending", root |-> new,
               above |-> {}])

\* Faulty: the promises are copied into the combinator and stay in the table.
CombineCopies(kind) ==
    \/ /\ \A k \in DOMAIN Named : ~Missing(k)
       /\ Room("void")
       /\ nodes' = Joined(kind)
       /\ AddPromise("void", Len(nodes) + 1)
       /\ UNCHANGED <<objects, sets, wait>>
    \/ (\E k \in DOMAIN Named : Missing(k)) /\ Rejects

Combine(kind) ==
    LET i == FreshFrom(nextId["void"], {j \in Ids : WithoutTaken[j] # 0}) IN
    \/ /\ \A k \in DOMAIN Named : ~Missing(k)
       /\ \E j \in Ids : WithoutTaken[j] = 0
       /\ nodes' = Joined(kind)
       /\ promises' = [promises EXCEPT !["void"] = [WithoutTaken EXCEPT ![i] = Len(nodes) + 1]]
       /\ retired' = (retired \cup Taken) \ {i}
       /\ Bump("void", i)
       /\ Grants({<<"void", i>>})
       /\ UNCHANGED <<objects, sets, wait>>
    \/ /\ \E k \in DOMAIN Named : Missing(k)
       /\ promises' = [promises EXCEPT !["void"] = WithoutTaken]
       /\ retired' = retired \cup Taken
       /\ Fails
       /\ UNCHANGED <<nodes, objects, sets, nextId, wait>>

PromiseThenStart  == Serving("promiseThen") /\ Combine("then")
PromiseCatchStart == Serving("promiseCatch") /\ Combine("catch")
PromiseAllStart   == Serving("promiseAll") /\ Combine("all")
PromiseRaceStart  == /\ Serving("promiseRace")
                     /\ \/ Named = <<>> /\ Rejects
                        \/ Named # <<>> /\ Combine("race")

RunPromises == \/ SleepNanos \/ AwaitPromise \/ CancelPromise \/ ReleasePromise
               \/ PromiseThenStart \/ PromiseCatchStart

RunArrays == PromiseAllStart \/ PromiseRaceStart

-----------------------------------------------------------------------------
(* Task sets.                                                              *)

TaskSetRequests      == {<<"taskSetNew", <<>>>>}
                        \cup ({"taskSetRelease"} \X OneId)
                        \cup ({"taskSetAddPromise"} \X TwoIds)
TaskSetStateRequests == {"taskSetClear", "taskSetIsEmpty", "taskSetOnEmptyStart"} \X OneId
TaskSetErrorRequests == {"taskSetErrorCount", "taskSetTakeLastError"} \X OneId

CallTaskSet(c)       == Submit(c, TaskSetRequests)
CallTaskSetState(c)  == Submit(c, TaskSetStateRequests)
CallTaskSetErrors(c) == Submit(c, TaskSetErrorRequests)

TaskSetNew ==
    /\ Serving("taskSetNew")
    /\ AddObject("taskSet")
    /\ sets' = [sets EXCEPT ![FreshFrom(nextId["taskSet"], objects["taskSet"])] = NoTasks]
    /\ UNCHANGED <<nodes, promises, retired, wait>>

\* The set is destroyed with its tasks, and the fulfiller of onEmpty with it.
TaskSetRelease ==
    /\ Serving("taskSetRelease")
    /\ Needs("taskSet",
          LET e == sets[Arg(1)].empty IN
          /\ objects' = [objects EXCEPT !["taskSet"] = @ \ {Arg(1)}]
          /\ sets' = [sets EXCEPT ![Arg(1)] = NoTasks]
          /\ nodes' = IF e # 0 /\ Pending(e) THEN [nodes EXCEPT ![e].st = "err"] ELSE nodes
          /\ Succeeds
          /\ UNCHANGED <<promises, retired, nextId, wait>>)

\* The set is looked up first: an unknown set leaves the promise alone.
TaskSetAddPromise ==
    /\ Serving("taskSetAddPromise")
    /\ Needs("taskSet",
          LET n == promises["void"][Arg(2)] IN
          \/ /\ Arg(2) \in Busy("void")
             /\ promises' = [promises EXCEPT !["void"][Arg(2)] = 0]
             /\ retired' = retired \cup {Arg(2)}
             /\ sets' = [sets EXCEPT ![Arg(1)].tasks = @ \cup {n}]
             /\ Succeeds
             /\ UNCHANGED <<nodes, objects, nextId, wait>>
          \/ Arg(2) \notin Busy("void") /\ Rejects)

TaskSetClear ==
    /\ Serving("taskSetClear")
    /\ Needs("taskSet",
          /\ sets' = [sets EXCEPT ![Arg(1)].tasks = {}, ![Arg(1)].empty = 0]
          /\ Fulfill(sets[Arg(1)].empty)
          /\ Succeeds
          /\ UNCHANGED <<promises, retired, objects, nextId, wait>>)

TaskSetIsEmpty == Serving("taskSetIsEmpty") /\ Needs("taskSet", Returns)

\* KJ allows one waiter on onEmpty at a time.
TaskSetOnEmptyStart ==
    /\ Serving("taskSetOnEmptyStart")
    /\ Needs("taskSet",
          LET e == sets[Arg(1)].empty IN
          \/ e # 0 /\ Live(e) /\ Rejects
          \/ /\ e # 0 => ~Live(e)
             /\ sets[Arg(1)].tasks = {}
             /\ Start("void", "sure", Nothing)
          \/ /\ e # 0 => ~Live(e)
             /\ sets[Arg(1)].tasks # {}
             /\ Room("void")
             /\ NewLeaf("empty", <<"taskSet", Arg(1)>>)
             /\ AddPromise("void", Len(nodes) + 1)
             /\ sets' = [sets EXCEPT ![Arg(1)].empty = Len(nodes) + 1]
             /\ UNCHANGED <<objects, wait>>)

TaskSetErrorCount == Serving("taskSetErrorCount") /\ Needs("taskSet", Returns)

TaskSetTakeLastError ==
    /\ Serving("taskSetTakeLastError")
    /\ Needs("taskSet",
          /\ sets' = [sets EXCEPT ![Arg(1)].last = FALSE]
          /\ Succeeds
          /\ UNCHANGED <<nodes, promises, retired, objects, nextId, wait>>)

RunTaskSets == \/ TaskSetNew \/ TaskSetRelease \/ TaskSetAddPromise \/ TaskSetClear
               \/ TaskSetIsEmpty \/ TaskSetOnEmptyStart \/ TaskSetErrorCount
               \/ TaskSetTakeLastError

-----------------------------------------------------------------------------
(* Listeners, addresses and connections being made.                        *)

ListenerRequests == {<<"listen", <<>>>>}
                    \cup ({"releaseListener", "accept", "acceptStart"} \X OneId)
ConnectRequests  == {"connect", "connectStart"} \X {<<>>}
AddressRequests  == {<<"parseAddress", <<>>>>}
                    \cup ({"releaseNetworkAddress", "networkAddressToString",
                           "networkAddressClone"} \X OneId)
AddressUseRequests == {"networkAddressConnect", "networkAddressConnectStart",
                       "networkAddressListen", "networkAddressBindDatagramPort"} \X OneId

CallListener(c)   == Submit(c, ListenerRequests)
CallConnect(c)    == Submit(c, ConnectRequests)
CallAddress(c)    == Submit(c, AddressRequests)
CallAddressUse(c) == Submit(c, AddressUseRequests)

Listen          == Serving("listen") /\ WaitFor("io", Nothing, "listener")
ReleaseListener == Serving("releaseListener") /\ Erase("listener")
Accept          == /\ Serving("accept")
                   /\ Needs("listener", WaitFor("io", <<"listener", Arg(1)>>, "connection"))
AcceptStart     == /\ Serving("acceptStart")
                   /\ Needs("listener", Start("conn", "io", <<"listener", Arg(1)>>))
Connect         == Serving("connect") /\ WaitFor("io", Nothing, "connection")
ConnectStart    == Serving("connectStart") /\ Start("conn", "io", Nothing)

RunListeners == \/ Listen \/ ReleaseListener \/ Accept \/ AcceptStart \/ Connect
                \/ ConnectStart

\* Adding an object made without waiting; making it may throw.
Makes(ty) == \/ AddObject(ty) /\ UNCHANGED <<nodes, promises, retired, sets, wait>>
             \/ Rejects

ParseAddress           == Serving("parseAddress") /\ WaitFor("io", Nothing, "address")
ReleaseNetworkAddress  == Serving("releaseNetworkAddress") /\ Erase("address")
NetworkAddressToString == Serving("networkAddressToString") /\ Needs("address", Returns)
NetworkAddressClone    == Serving("networkAddressClone") /\ Needs("address", Makes("address"))
NetworkAddressConnect  == /\ Serving("networkAddressConnect")
                          /\ Needs("address", WaitFor("io", <<"address", Arg(1)>>, "connection"))
\* The connect runs on a clone, which the promise does not keep.
NetworkAddressConnectStart == /\ Serving("networkAddressConnectStart")
                              /\ Needs("address", Start("conn", "io", Nothing))
NetworkAddressListen   == Serving("networkAddressListen") /\ Needs("address", Makes("listener"))
NetworkAddressBindDatagramPort == /\ Serving("networkAddressBindDatagramPort")
                                  /\ Needs("address", Makes("port"))

RunAddresses == \/ ParseAddress \/ ReleaseNetworkAddress \/ NetworkAddressToString
                \/ NetworkAddressClone \/ NetworkAddressConnect
                \/ NetworkAddressConnectStart \/ NetworkAddressListen
                \/ NetworkAddressBindDatagramPort

ConnectionPromiseRequests ==
    ({"awaitConnectionPromise", "cancelConnectionPromise", "releaseConnectionPromise"} \X OneId)
    \cup ({"awaitConnectionPromiseWithTimeout"} \X IdWith({"zero", "some", "overflow"}))

CallConnectionPromise(c) == Submit(c, ConnectionPromiseRequests)

AwaitConnectionPromise   == Serving("awaitConnectionPromise") /\ AwaitId("conn", "connection")
CancelConnectionPromise  == Serving("cancelConnectionPromise") /\ CancelId("conn")
ReleaseConnectionPromise == Serving("releaseConnectionPromise") /\ ReleaseId("conn")

\* A timeout of 0 means none; one beyond Int64 throws after the promise was taken.
AwaitConnectionPromiseWithTimeout ==
    /\ Serving("awaitConnectionPromiseWithTimeout")
    /\ \/ Arg(2) = "zero" /\ AwaitId("conn", "connection")
       \/ Arg(2) = "some" /\ AwaitId("conn", "timed")
       \/ Arg(2) = "overflow" /\ Take("conn") /\ Fails /\ UNCHANGED wait
       \/ Arg(2) = "overflow" /\ UnknownPromise("conn")

ConnectionRequests == {"releaseConnection"} \X OneId
CallReleaseConnection(c) == Submit(c, ConnectionRequests)
ReleaseConnection == Serving("releaseConnection") /\ Erase("connection")

RunConnectionPromises == \/ AwaitConnectionPromise \/ AwaitConnectionPromiseWithTimeout
                         \/ CancelConnectionPromise \/ ReleaseConnectionPromise
                         \/ ReleaseConnection

-----------------------------------------------------------------------------
(* Connections in use.                                                     *)

TransferRequests == ({"connectionWrite", "connectionWriteStart"} \X IdWith(Bytes))
                    \cup ({"connectionRead", "connectionReadStart"} \X IdWith(Spans))
BytesPromiseRequests  == {"awaitBytes", "cancelBytes", "releaseBytes"} \X OneId
ShutdownWriteRequests == {"connectionShutdownWrite", "connectionShutdownWriteStart"} \X OneId
EndRequests == {"connectionWhenWriteDisconnectedStart", "connectionAbortRead",
                "connectionAbortWrite", "connectionDupFd"} \X OneId

CallTransfer(c)       == Submit(c, TransferRequests)
CallBytesPromise(c)   == Submit(c, BytesPromiseRequests)
CallShutdownWrite(c)  == Submit(c, ShutdownWriteRequests)
CallConnectionEnds(c) == Submit(c, EndRequests)

\* Nothing to transfer: the promise is ready without the other side.
Kind == IF Arg(2) = "empty" THEN "sure" ELSE "io"
Here == <<"connection", Arg(1)>>

ConnectionWriteStart == /\ Serving("connectionWriteStart")
                        /\ Needs("connection", Start("void", Kind, Here))
ConnectionWrite      == /\ Serving("connectionWrite")
                        /\ Needs("connection", StartAndAwait("void", Kind, Here, "value"))
ConnectionReadStart  == /\ Serving("connectionReadStart")
                        /\ \/ Arg(2) = "inverted" /\ Rejects
                           \/ Arg(2) # "inverted" /\ Needs("connection", Start("bytes", Kind, Here))
ConnectionRead ==
    /\ Serving("connectionRead")
    /\ \/ Arg(2) = "inverted" /\ Rejects
       \/ /\ Arg(2) # "inverted"
          /\ Needs("connection", StartAndAwait("bytes", Kind, Here, "value"))

AwaitBytesPromise   == Serving("awaitBytes") /\ AwaitId("bytes", "value")
CancelBytesPromise  == Serving("cancelBytes") /\ CancelId("bytes")
ReleaseBytesPromise == Serving("releaseBytes") /\ ReleaseId("bytes")

ConnectionShutdownWriteStart == /\ Serving("connectionShutdownWriteStart")
                                /\ Needs("connection", Start("void", "sure", Here) \/ Rejects)
ConnectionShutdownWrite == /\ Serving("connectionShutdownWrite")
                           /\ Needs("connection", Returns \/ Rejects)

RunConnections == \/ ConnectionWrite \/ ConnectionWriteStart \/ ConnectionRead
                  \/ ConnectionReadStart \/ AwaitBytesPromise \/ CancelBytesPromise
                  \/ ReleaseBytesPromise \/ ConnectionShutdownWrite
                  \/ ConnectionShutdownWriteStart

ConnectionWhenWriteDisconnectedStart ==
    /\ Serving("connectionWhenWriteDisconnectedStart")
    /\ Needs("connection", Start("void", "io", Here))
ConnectionAbortRead  == Serving("connectionAbortRead") /\ Needs("connection", Returns)
ConnectionAbortWrite == Serving("connectionAbortWrite") /\ Needs("connection", Returns)
\* dup() may fail.
ConnectionDupFd == Serving("connectionDupFd") /\ Needs("connection", Returns \/ Rejects)

RunConnectionEnds == \/ ConnectionWhenWriteDisconnectedStart \/ ConnectionAbortRead
                     \/ ConnectionAbortWrite \/ ConnectionDupFd

-----------------------------------------------------------------------------
(* File descriptors and pipes.                                             *)

WrapRequests == {"wrapSocketFd", "wrapSocketFdTake"} \X {<<>>}
WrapOtherRequests == {"wrapListenSocketFd", "wrapListenSocketFdTake", "wrapDatagramSocketFd",
                      "wrapDatagramSocketFdTake"} \X {<<>>}
PipeRequests == {"newTwoWayPipe", "newCapabilityPipe"} \X {<<>>}

CallWrap(c)      == Submit(c, WrapRequests)
CallWrapOther(c) == Submit(c, WrapOtherRequests)
CallPipe(c)      == Submit(c, PipeRequests)

WrapSocketFd         == Serving("wrapSocketFd") /\ Makes("connection")
WrapSocketFdTake     == Serving("wrapSocketFdTake") /\ Makes("connection")
WrapListenSocketFd   == Serving("wrapListenSocketFd") /\ Makes("listener")
WrapListenSocketFdTake == Serving("wrapListenSocketFdTake") /\ Makes("listener")
WrapDatagramSocketFd == Serving("wrapDatagramSocketFd") /\ Makes("port")
WrapDatagramSocketFdTake == Serving("wrapDatagramSocketFdTake") /\ Makes("port")

\* Both ends are entered one after the other and granted together.
AddPair(ty) ==
    LET i == FreshFrom(nextId[ty], objects[ty])
        j == FreshFrom((i + 1) % IdSpace, objects[ty] \cup {i})
    IN /\ Cardinality(Ids \ objects[ty]) >= 2
       /\ objects' = [objects EXCEPT ![ty] = @ \cup {i, j}]
       /\ Bump(ty, j)
       /\ Grants({<<ty, i>>, <<ty, j>>})
       /\ UNCHANGED <<nodes, promises, retired, sets, wait>>

NewTwoWayPipe     == Serving("newTwoWayPipe") /\ AddPair("connection")
NewCapabilityPipe == Serving("newCapabilityPipe") /\ AddPair("connection")

RunWraps == \/ WrapSocketFd \/ WrapSocketFdTake \/ WrapListenSocketFd
            \/ WrapListenSocketFdTake \/ WrapDatagramSocketFd \/ WrapDatagramSocketFdTake
            \/ NewTwoWayPipe \/ NewCapabilityPipe

-----------------------------------------------------------------------------
(* Datagrams.                                                              *)

DatagramRequests == {<<"datagramBind", <<>>>>}
                    \cup ({"datagramReleasePort", "datagramGetPort", "datagramSend",
                           "datagramSendStart"} \X OneId)
UInt32PromiseRequests == {"awaitUInt32", "cancelUInt32", "releaseUInt32"} \X OneId
DatagramReceiveRequests == ({"datagramReceive", "datagramReceiveStart"} \X IdWith(Bytes))
                           \cup ({"awaitDatagram", "cancelDatagram", "releaseDatagram"} \X OneId)

CallDatagram(c)        == Submit(c, DatagramRequests)
CallUInt32Promise(c)   == Submit(c, UInt32PromiseRequests)
CallDatagramReceive(c) == Submit(c, DatagramReceiveRequests)

Port == <<"port", Arg(1)>>

DatagramBind        == Serving("datagramBind") /\ WaitFor("io", Nothing, "port")
DatagramReleasePort == Serving("datagramReleasePort") /\ Erase("port")
DatagramGetPort     == Serving("datagramGetPort") /\ Needs("port", Returns)
DatagramSendStart   == Serving("datagramSendStart") /\ Needs("port", Start("uint32", "send", Port))
DatagramSend        == /\ Serving("datagramSend")
                       /\ Needs("port", StartAndAwait("uint32", "send", Port, "value"))

AwaitUInt32Promise   == Serving("awaitUInt32") /\ AwaitId("uint32", "value")
CancelUInt32Promise  == Serving("cancelUInt32") /\ CancelId("uint32")
ReleaseUInt32Promise == Serving("releaseUInt32") /\ ReleaseId("uint32")

RunDatagrams == \/ DatagramBind \/ DatagramReleasePort \/ DatagramGetPort \/ DatagramSend
                \/ DatagramSendStart \/ AwaitUInt32Promise \/ CancelUInt32Promise
                \/ ReleaseUInt32Promise

DatagramReceiveStart == /\ Serving("datagramReceiveStart")
                        /\ \/ Arg(2) = "empty" /\ Rejects
                           \/ Arg(2) # "empty" /\ Needs("port", Start("dgram", "io", Port))
DatagramReceive ==
    /\ Serving("datagramReceive")
    /\ \/ Arg(2) = "empty" /\ Rejects
       \/ Arg(2) # "empty" /\ Needs("port", StartAndAwait("dgram", "io", Port, "value"))

AwaitDatagramReceivePromise   == Serving("awaitDatagram") /\ AwaitId("dgram", "value")
CancelDatagramReceivePromise  == Serving("cancelDatagram") /\ CancelId("dgram")
ReleaseDatagramReceivePromise == Serving("releaseDatagram") /\ ReleaseId("dgram")

RunDatagramReceives == \/ DatagramReceive \/ DatagramReceiveStart
                       \/ AwaitDatagramReceivePromise \/ CancelDatagramReceivePromise
                       \/ ReleaseDatagramReceivePromise
=============================================================================
