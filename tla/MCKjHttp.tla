----------------------------- MODULE MCKjHttp ------------------------------
(***************************************************************************)
(* Client programs for KjHttp.  A server makes progress only while the     *)
(* thread waits, so its programs sleep and await between the operations.   *)
(***************************************************************************)
EXTENDS KjHttp

Client(threads, script) == [threads |-> threads, script |-> script]

On(ops, ids) == ops \X {<<i>> : i \in ids}
First(R)     == {r \in R : r[2] = <<>> \/ r[2][1] = 1}
Either(op)   == {op} \X {<<1, 1>>, <<1, 0>>}

Sleep     == SleepRequests
Tick      == On({"awaitPromise"}, {2})
Secure(R) == {r \in R : r[2][1] = "secure"}

Opening  == {<<"httpServerListen", <<"plain">>>>}
Serve   == Either("httpServerRespond") \cup Either("httpServerRespondWebSocket")
           \cup Either("httpServerRespondStartStreaming") \cup First(PollRequests)
           \cup On({"httpServerRelease", "httpServerDrain"}, {1})
Reply  == {"httpServerRespond", "httpServerRespondWebSocket", "httpServerRespondStartStreaming"}
           \X {<<1, 1>>}
Bodies  == First(ServerResponseBodyRequests) \cup First(ServerRequestBodyRequests)
           \cup First(WsReleaseRequests)
           \cup On({"httpServerRelease", "httpServerDrainStart", "awaitPromise"}, {1})
Streams == First(ResponsePromiseRequests) \cup First(StreamingAwaitRequests)
           \cup First(RequestBodyRequests) \cup First(ResponseBodyRequests)
Sockets == First(WsReleaseRequests \cup WsSendRequests \cup WsReceiveStartRequests
                 \cup WsMessageRequests \cup WsReceiveRequests \cup WsCloseRequests
                 \cup WsEndRequests)

HttpPrograms == {
    Client(1, <<Opening, Sleep, Tick, Serve, Serve>>),
    Client(2, <<Opening, Sleep, Tick, Serve>>),
    Client(1, <<Opening, Sleep, Tick, Reply, Bodies, Bodies>>),
    Client(1, <<StreamingRequests, Streams, Streams>>),
    Client(2, <<HttpRequests \cup HttpStartRequests, First(ResponsePromiseRequests)>>),
    Client(1, <<TlsRequests, Secure(HttpRequests \cup HttpStartRequests \cup WsConnectRequests
                                    \cup ServerRequests)>>),
    Client(1, <<WsConnectRequests, First(WsPromiseRequests), First(WsPromiseRequests)>>),
    Client(2, <<WsPipeRequests, Sockets, Sockets>>)}

\* A server that upgrades or streams the answer to its first request.
PumpPrograms == {
    Client(1, <<Opening, Sleep, Tick, First(PollRequests),
                {"httpServerRespondWebSocket", "httpServerRespondStartStreaming"} \X {<<1, 1>>}>>)}
=============================================================================
