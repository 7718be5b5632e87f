----------------------------- MODULE MCKjAsync -----------------------------
(***************************************************************************)
(* Client programs for KjAsync, one for each family of operations, with  *)
(* the arguments that make its cases happen.  A program with two threads   *)
(* has two calls in flight, in every order.                                *)
(***************************************************************************)
EXTENDS KjAsync

Client(threads, script) == [threads |-> threads, script |-> script]

On(ops, ids) == ops \X {<<i>> : i \in ids}

Sleep  == SleepRequests
Await(ids) == On({"awaitPromise"}, ids)
Timing == Sleep \cup On({"awaitPromise", "cancelPromise", "releasePromise"}, {1})

\* The third id is 0, the fourth is 1 again.
Reuse == Sleep \cup On({"awaitPromise", "releasePromise"}, {1})

Combining == ({"promiseThen", "promiseCatch", "promiseRace"} \X {<<1, 2>>})
             \cup ({"promiseAll"} \X {<<1, 2>>, <<1, 1>>, <<>>})
             \cup {<<"promiseRace", <<>>>>, <<"cancelPromise", <<1>>>>}

Tasks == {<<"taskSetAddPromise", <<1, 1>>>>, <<"taskSetAddPromise", <<1, 2>>>>,
          <<"taskSetOnEmptyStart", <<1>>>>, <<"taskSetRelease", <<1>>>>,
          <<"taskSetClear", <<1>>>>, <<"awaitPromise", <<2>>>>, <<"promiseThen", <<2, 1>>>>}
New   == {<<"taskSetNew", <<>>>>}
Ask   == On({"taskSetErrorCount", "taskSetTakeLastError", "taskSetIsEmpty"}, {1})

Listening  == On({"accept", "acceptStart", "releaseListener"}, {1})
              \cup On({"awaitConnectionPromise"}, {1})
Addressing == On({"releaseNetworkAddress", "networkAddressToString", "networkAddressClone"}, {1})
              \cup (AddressUseRequests \cap (STRING \X {<<1>>}))
Promised   == {r \in ConnectionPromiseRequests : r[2][1] = 1} \cup On({"releaseConnection"}, {1})
Transfer   == {r \in TransferRequests \cup ShutdownWriteRequests \cup EndRequests
                       \cup BytesPromiseRequests : r[2][1] = 1}
              \cup On({"awaitPromise", "releaseConnection"}, {1})
Packets    == {r \in DatagramRequests \cup UInt32PromiseRequests \cup DatagramReceiveRequests :
                  r[2] = <<>> \/ r[2][1] = 1}
Wrapping   == WrapRequests \cup WrapOtherRequests \cup PipeRequests

Clients == {
    Client(2, <<Timing, Timing, Timing>>),
    Client(1, <<Reuse, Reuse, Reuse, Reuse, Reuse>>),
    Client(1, <<Sleep, Sleep, Combining, Combining, Await({0, 1})>>),
    Client(1, <<Sleep, New, Tasks, Tasks, Tasks, Tasks>>),
    Client(1, <<Sleep, Sleep \cup New, On({"cancelPromise"}, {1}) \cup New, Tasks, Await({2}), Ask>>),
    Client(2, <<{<<"listen", <<>>>>}, ConnectRequests \cup Listening, Listening>>),
    Client(1, <<{<<"parseAddress", <<>>>>}, Addressing, Addressing>>),
    Client(2, <<ConnectRequests, Promised, Promised>>),
    Client(1, <<PipeRequests, Transfer, Transfer>>),
    Client(2, <<{<<"datagramBind", <<>>>>}, Packets, Packets>>),
    Client(1, <<Wrapping, Wrapping>>)}
=============================================================================
