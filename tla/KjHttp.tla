------------------------------- MODULE KjHttp -------------------------------
(***************************************************************************)
(* HTTP and WebSockets in a KjAsync runtime: the client's requests and     *)
(* their body streams, WebSockets, and the server, whose requests reach    *)
(* Lean through a queue that is polled and whose answers go back through   *)
(* the fulfillers in pendingResponses.                                     *)
(*                                                                         *)
(* An exchange is one call of RuntimeHttpService::request, that is, the    *)
(* promise it returned.  It is                                             *)
(*   "asked"      until an answer is given for it,                         *)
(*   "told"       with the answer in its fulfiller, not yet acted upon,    *)
(*   "writing", "streaming" or "upgraded" while the answer is sent,        *)
(*   "finishing"  once its body or socket was let go,                      *)
(*   "gone"       when it ended or KJ dropped it, and its cleanup has run. *)
(***************************************************************************)
EXTENDS KjStreams

CONSTANTS MaxRequests,    \* bound: requests that reach the servers in a behaviour
          RequestSpace    \* the width of nextRequestId: its counter wraps

ASSUME RequestsAssumption == MaxRequests \in Nat /\ RequestSpace \in 1..IdSpace

VARIABLES
    tls,       \* tlsContext_ and tlsNetwork_ are set
    server,    \* httpServers_: the HttpServerState of each server id
    exchange,  \* the exchanges, in the order they began
    holder     \* per server body and WebSocket, its exchange (0: none)

httpVars == <<tls, server, exchange, holder>>
vars     == <<loopVars, heapVars, wait, httpVars>>

Held == {"serverRequestBody", "serverResponseBody", "webSocket"}
NoServer == [listen |-> 0, queue |-> <<>>, pending |-> [r \in Ids |-> 0], next |-> 1,
             draining |-> FALSE]

HttpInit ==
    /\ tls = FALSE
    /\ server = [s \in Ids |-> NoServer]
    /\ exchange = <<>>
    /\ holder = [ty \in Held |-> [i \in Ids |-> 0]]

Exchanges == DOMAIN exchange
Status(e) == exchange[e].st
ExchangesOf(s) == {e \in Exchanges : exchange[e].server = s /\ Status(e) # "gone"}

-----------------------------------------------------------------------------
(* TLS.                                                                    *)

TlsRequests == {"enableTls", "configureTls"} \X {<<>>}
CallTls(c)  == Submit(c, TlsRequests)

\* configureTls replaces the context; what fails leaves the old one.
ConfigureTls ==
    /\ Serving("configureTls")
    /\ \/ tls' = TRUE /\ Returns
       \/ UNCHANGED tls /\ Rejects
    /\ UNCHANGED <<server, exchange, holder>>

\* Nothing to do when there is a context.
EnableTls ==
    /\ Serving("enableTls")
    /\ \/ tls' = TRUE /\ Returns
       \/ ~tls /\ UNCHANGED tls /\ Rejects
    /\ UNCHANGED <<server, exchange, holder>>

RunTls == EnableTls \/ ConfigureTls

\* resolveTlsNetwork throws when TLS was not enabled.
Reachable(security) == security = "plain" \/ tls

-----------------------------------------------------------------------------
(* The client.                                                             *)

Securities == {"plain", "secure"}
Uploads    == {"body", "none"}      \* whether the method has a request body

HttpRequests      == {"httpRequest"} \X {<<s>> : s \in Securities}
HttpStartRequests == {"httpRequestStart"} \X {<<s>> : s \in Securities}
StreamingRequests == {"httpRequestStartStreaming"} \X {<<s, u>> : s \in Securities, u \in Uploads}

\* The variants of one function: with headers, over TLS, with a limit on the response.
Plain(requests) == {r \in requests : r[2][1] = "plain"}

CallHttpRequest(c)             == Submit(c, Plain(HttpRequests))
CallHttpRequestHeaders(c)      == Submit(c, HttpRequests)
CallHttpRequestLimited(c)      == Submit(c, HttpRequests)
CallHttpRequestStart(c)        == Submit(c, Plain(HttpStartRequests))
CallHttpRequestStartHeaders(c) == Submit(c, HttpStartRequests)
CallHttpRequestStartLimited(c) == Submit(c, HttpStartRequests)
CallHttpStreaming(c)           == Submit(c, StreamingRequests)

\* The method, the headers or the body may be refused as well.
HttpRequestStart ==
    /\ Serving("httpRequestStart")
    /\ \/ Reachable(Arg(1)) /\ Start("resp", "io", Nothing)
       \/ Rejects
HttpRequest ==
    /\ Serving("httpRequest")
    /\ \/ Reachable(Arg(1)) /\ StartAndAwait("resp", "io", Nothing, "value")
       \/ Rejects

\* The body to write and the promise of the response are entered and granted together.
HttpRequestStartStreaming ==
    LET p == FreshFrom(nextId["resp"], Busy("resp"))
        b == FreshFrom(nextId["requestBody"], objects["requestBody"])
    IN /\ Serving("httpRequestStartStreaming")
       /\ \/ /\ Reachable(Arg(1)) /\ Room("resp") /\ Room("requestBody")
             /\ NewLeaf("stream", Nothing)
             /\ promises' = [promises EXCEPT !["resp"][p] = Len(nodes) + 1]
             /\ IF Arg(2) = "body"
                THEN /\ objects' = [objects EXCEPT !["requestBody"] = @ \cup {b}]
                     /\ nextId' = [nextId EXCEPT !["resp"] = (p + 1) % IdSpace,
                                                 !["requestBody"] = (b + 1) % IdSpace]
                     /\ Grants({<<"resp", p>>, <<"requestBody", b>>})
                ELSE /\ UNCHANGED objects
                     /\ Bump("resp", p)
                     /\ Grants({<<"resp", p>>})
             /\ UNCHANGED <<retired, sets, wait>>
          \/ Rejects

\* decodeStreamingHttpResponse: the body of the response is entered by the event loop,
\* before anybody awaits the promise.
SettleStream ==
    LET b == FreshFrom(nextId["responseBody"], objects["responseBody"]) IN
    /\ Turning
    /\ \E n \in Nodes :
          /\ nodes[n].kind = "stream" /\ Live(n)
          /\ \/ SettleAs(n, "err")
             \/ /\ Room("responseBody")
                /\ nodes' = [nodes EXCEPT ![n].st = "ok", ![n].on = <<"responseBody", b>>]
                /\ objects' = [objects EXCEPT !["responseBody"] = @ \cup {b}]
                /\ Bump("responseBody", b)
                /\ UNCHANGED <<promises, retired, sets, wait, loopVars>>
    /\ UNCHANGED httpVars

ResponsePromiseRequests == {"awaitResponse", "cancelResponse", "releaseResponse"} \X OneId
StreamingAwaitRequests  == {"awaitStreamingResponse"} \X OneId

CallResponsePromise(c)      == Submit(c, ResponsePromiseRequests)
CallResponseWithHeaders(c)  == Submit(c, {"awaitResponse"} \X OneId)
CallStreamingAwait(c)       == Submit(c, StreamingAwaitRequests)

AwaitHttpResponsePromise   == Serving("awaitResponse") /\ AwaitId("resp", "value")
AwaitStreamingResponse     == Serving("awaitStreamingResponse") /\ AwaitId("resp", "response")
CancelHttpResponsePromise  == Serving("cancelResponse") /\ CancelId("resp")
ReleaseHttpResponsePromise == Serving("releaseResponse") /\ ReleaseId("resp")

\* Only the streaming await hands the body on; a response read to its end has none.
ResumeResponse ==
    /\ Settled /\ nodes[wait.node].st = "ok"
    /\ wait.how = "response"
    /\ Grants({nodes[wait.node].on} \ {Nothing})
    /\ wait' = NoWait
    /\ UNCHANGED heapVars

RunHttpClient == \/ HttpRequest \/ HttpRequestStart \/ HttpRequestStartStreaming
                 \/ AwaitHttpResponsePromise \/ AwaitStreamingResponse
                 \/ CancelHttpResponsePromise \/ ReleaseHttpResponsePromise

-----------------------------------------------------------------------------
(* Bodies of the client, and of the requests that a server received.       *)

RequestBodyRequests ==
    ({"requestBodyWriteStart", "requestBodyWrite"} \X IdWith(Bytes))
    \cup ({"requestBodyFinishStart", "requestBodyFinish", "requestBodyRelease"} \X OneId)
ResponseBodyRequests ==
    ({"responseBodyReadStart", "responseBodyRead"} \X IdWith(Spans))
    \cup ({"responseBodyRelease"} \X OneId)
ServerRequestBodyRequests ==
    ({"serverRequestBodyReadStart", "serverRequestBodyRead"} \X IdWith(Spans))
    \cup ({"serverRequestBodyRelease"} \X OneId)

CallRequestBody(c)       == Submit(c, RequestBodyRequests)
CallResponseBody(c)      == Submit(c, ResponseBodyRequests)
CallServerRequestBody(c) == Submit(c, ServerRequestBodyRequests)

WritesStart(ty) == Needs(ty, Start("void", Kind, <<ty, Arg(1)>>))
Writes(ty)      == Needs(ty, StartAndAwait("void", Kind, <<ty, Arg(1)>>, "value"))
ReadsStart(ty)  == \/ Arg(2) = "inverted" /\ Rejects
                   \/ Arg(2) # "inverted" /\ Needs(ty, Start("bytes", Kind, <<ty, Arg(1)>>))
Reads(ty) == \/ Arg(2) = "inverted" /\ Rejects
             \/ /\ Arg(2) # "inverted"
                /\ Needs(ty, StartAndAwait("bytes", Kind, <<ty, Arg(1)>>, "value"))

Gives(ty) == objects' = [objects EXCEPT ![ty] = @ \ {Arg(1)}]

\* Finishing a body erases it and makes a promise that is ready.
ReadyPromise == /\ Room("void")
                /\ NewLeaf("sure", Nothing)
                /\ AddPromise("void", Len(nodes) + 1)
                /\ UNCHANGED <<sets, wait>>
AwaitReady ==
    LET i == FreshFrom(nextId["void"], Busy("void")) IN
    /\ Room("void")
    /\ NewLeaf("sure", Nothing)
    /\ retired' = retired \cup {i}
    /\ Bump("void", i)
    /\ wait' = [node |-> Len(nodes) + 1, how |-> "value"]
    /\ UNCHANGED <<promises, sets, loopVars>>

HttpRequestBodyWriteStart  == Serving("requestBodyWriteStart") /\ WritesStart("requestBody")
HttpRequestBodyWrite       == Serving("requestBodyWrite") /\ Writes("requestBody")
HttpRequestBodyFinishStart == /\ Serving("requestBodyFinishStart")
                              /\ Needs("requestBody", Gives("requestBody") /\ ReadyPromise)
HttpRequestBodyFinish      == /\ Serving("requestBodyFinish")
                              /\ Needs("requestBody", Gives("requestBody") /\ AwaitReady)
HttpRequestBodyRelease     == Serving("requestBodyRelease") /\ Erase("requestBody")

HttpResponseBodyReadStart == Serving("responseBodyReadStart") /\ ReadsStart("responseBody")
HttpResponseBodyRead      == Serving("responseBodyRead") /\ Reads("responseBody")
HttpResponseBodyRelease   == Serving("responseBodyRelease") /\ Erase("responseBody")

HttpServerRequestBodyReadStart == /\ Serving("serverRequestBodyReadStart")
                                  /\ ReadsStart("serverRequestBody")
HttpServerRequestBodyRead      == /\ Serving("serverRequestBodyRead")
                                  /\ Reads("serverRequestBody")
HttpServerRequestBodyRelease   == /\ Serving("serverRequestBodyRelease")
                                  /\ Erase("serverRequestBody")

RunBodies == \/ HttpRequestBodyWriteStart \/ HttpRequestBodyWrite
             \/ HttpRequestBodyFinishStart \/ HttpRequestBodyFinish
             \/ HttpRequestBodyRelease \/ HttpResponseBodyReadStart
             \/ HttpResponseBodyRead \/ HttpResponseBodyRelease
RunServerBodies == \/ HttpServerRequestBodyReadStart \/ HttpServerRequestBodyRead
                   \/ HttpServerRequestBodyRelease

-----------------------------------------------------------------------------
(* WebSockets.                                                             *)

WsConnectRequests == {"webSocketConnect", "webSocketConnectStart"} \X {<<s>> : s \in Securities}
WsPromiseRequests == {"awaitWebSocket", "cancelWebSocket", "releaseWebSocketPromise"} \X OneId
WsReleaseRequests == {"webSocketRelease"} \X OneId
WsSendRequests    == {"webSocketSendTextStart", "webSocketSendText", "webSocketSendBinaryStart",
                      "webSocketSendBinary"} \X OneId
WsReceiveStartRequests == {"webSocketReceiveStart"} \X OneId
WsMessageRequests == {"awaitMessage", "cancelMessage", "releaseMessage"} \X OneId
WsReceiveRequests == {"webSocketReceive"} \X OneId
WsCloseRequests   == {"webSocketCloseStart", "webSocketClose"} \X OneId
WsEndRequests     == {"webSocketDisconnect", "webSocketAbort"} \X OneId
WsPipeRequests    == {<<"newWebSocketPipe", <<>>>>}

CallWsConnect(c)      == Submit(c, WsConnectRequests)
CallWsPromise(c)      == Submit(c, WsPromiseRequests)
CallWsRelease(c)      == Submit(c, WsReleaseRequests)
CallWsSend(c)         == Submit(c, WsSendRequests)
CallWsReceiveStart(c) == Submit(c, WsReceiveStartRequests)
CallWsMessage(c)      == Submit(c, WsMessageRequests)
CallWsReceive(c)      == Submit(c, WsReceiveRequests)
CallWsClose(c)        == Submit(c, WsCloseRequests)
CallWsEnd(c)          == Submit(c, WsEndRequests)
CallWsPipe(c)         == Submit(c, WsPipeRequests)

Socket == <<"webSocket", Arg(1)>>

WebSocketConnectStart ==
    /\ Serving("webSocketConnectStart")
    /\ \/ Reachable(Arg(1)) /\ Start("ws", "io", Nothing)
       \/ Rejects
WebSocketConnect ==
    /\ Serving("webSocketConnect")
    /\ \/ Reachable(Arg(1)) /\ StartAndAwait("ws", "io", Nothing, "webSocket")
       \/ Rejects

AwaitWebSocketPromise   == Serving("awaitWebSocket") /\ AwaitId("ws", "webSocket")
CancelWebSocketPromise  == Serving("cancelWebSocket") /\ CancelId("ws")
ReleaseWebSocketPromise == Serving("releaseWebSocketPromise") /\ ReleaseId("ws")

\* A socket or a response body is let go: its exchange may end.  The fulfiller of one
\* that is gone has nobody waiting.
LetGo(ty) ==
    LET e == holder[ty][Arg(1)] IN
    exchange' = IF e # 0 /\ Status(e) # "gone"
                THEN [exchange EXCEPT ![e].st = "finishing"] ELSE exchange

Releases(ty) ==
    \/ /\ Has(ty, Arg(1))
       /\ Gives(ty)
       /\ LetGo(ty)
       /\ holder' = [holder EXCEPT ![ty][Arg(1)] = 0]
       /\ Succeeds
       /\ UNCHANGED <<nodes, promises, retired, sets, nextId, wait, tls, server>>
    \/ ~Has(ty, Arg(1)) /\ Rejects /\ UNCHANGED httpVars

WebSocketRelease == Serving("webSocketRelease") /\ Releases("webSocket")

SocketWait(how)  == Needs("webSocket", WaitFor("io", Socket, how))
SocketStart(ty)  == Needs("webSocket", Start(ty, "io", Socket))

WebSocketSendTextStart   == Serving("webSocketSendTextStart") /\ SocketStart("void")
WebSocketSendText        == Serving("webSocketSendText") /\ SocketWait("value")
WebSocketSendBinaryStart == Serving("webSocketSendBinaryStart") /\ SocketStart("void")
WebSocketSendBinary      == Serving("webSocketSendBinary") /\ SocketWait("value")
WebSocketReceiveStart    == Serving("webSocketReceiveStart") /\ SocketStart("msg")
WebSocketReceive         == /\ Serving("webSocketReceive")
                            /\ Needs("webSocket", StartAndAwait("msg", "io", Socket, "value"))

AwaitWebSocketMessagePromise   == Serving("awaitMessage") /\ AwaitId("msg", "value")
CancelWebSocketMessagePromise  == Serving("cancelMessage") /\ CancelId("msg")
ReleaseWebSocketMessagePromise == Serving("releaseMessage") /\ ReleaseId("msg")

WebSocketCloseStart == Serving("webSocketCloseStart") /\ SocketStart("void")
WebSocketClose      == /\ Serving("webSocketClose")
                       /\ Needs("webSocket", StartAndAwait("void", "io", Socket, "value"))
WebSocketDisconnect == Serving("webSocketDisconnect") /\ Needs("webSocket", Returns \/ Rejects)
WebSocketAbort      == Serving("webSocketAbort") /\ Needs("webSocket", Returns)
NewWebSocketPipe    == Serving("newWebSocketPipe") /\ AddPair("webSocket")

RunWebSockets == \/ WebSocketConnect \/ WebSocketConnectStart \/ AwaitWebSocketPromise
                 \/ CancelWebSocketPromise \/ ReleaseWebSocketPromise
RunWebSocketSends == \/ WebSocketSendTextStart \/ WebSocketSendText
                     \/ WebSocketSendBinaryStart \/ WebSocketSendBinary
RunWebSocketReceives == \/ WebSocketReceiveStart \/ AwaitWebSocketMessagePromise
                        \/ CancelWebSocketMessagePromise \/ ReleaseWebSocketMessagePromise
                        \/ WebSocketReceive
RunWebSocketEnds == \/ WebSocketCloseStart \/ WebSocketClose \/ WebSocketDisconnect
                    \/ WebSocketAbort \/ NewWebSocketPipe

-----------------------------------------------------------------------------
(* The server.                                                             *)

ServerRequests == ({"httpServerListen"} \X {<<s>> : s \in Securities})
ServerEndRequests == {"httpServerRelease", "httpServerDrainStart", "httpServerDrain"} \X OneId
PollRequests      == {"httpServerPollRequest"} \X OneId
RespondRequests   == {"httpServerRespond"} \X TwoIds
RespondWebSocketRequests == {"httpServerRespondWebSocket"} \X TwoIds
RespondStreamingRequests == {"httpServerRespondStartStreaming"} \X TwoIds
ServerResponseBodyRequests ==
    ({"serverResponseBodyWriteStart", "serverResponseBodyWrite"} \X IdWith(Bytes))
    \cup ({"serverResponseBodyFinishStart", "serverResponseBodyFinish",
           "serverResponseBodyRelease"} \X OneId)

CallServerListen(c)       == Submit(c, ServerRequests)
CallServerEnd(c)          == Submit(c, ServerEndRequests)
CallPoll(c)               == Submit(c, PollRequests)
CallRespond(c)            == Submit(c, RespondRequests)
CallRespondWebSocket(c)   == Submit(c, RespondWebSocketRequests)
CallRespondStreaming(c)   == Submit(c, RespondStreamingRequests)
CallServerResponseBody(c) == Submit(c, ServerResponseBodyRequests)

HttpServerListen == Serving("httpServerListen") /\ WaitFor("io", Nothing, "httpServer")

\* The address is known: the server is entered, and then the promise of listenHttp, whose
\* id only the server remembers.  Without TLS, or with a bad setting, nothing is entered.
ResumeListen ==
    LET s == FreshFrom(nextId["server"], objects["server"])
        p == FreshFrom(nextId["void"], Busy("void"))
    IN /\ Settled /\ nodes[wait.node].st = "ok"
       /\ wait.how = "httpServer"
       /\ \/ /\ Reachable(Arg(1)) /\ Room("server") /\ Room("void")
             /\ NewLeaf("listen", <<"server", s>>)
             /\ promises' = [promises EXCEPT !["void"][p] = Len(nodes) + 1]
             /\ retired' = retired \ {p}
             /\ objects' = [objects EXCEPT !["server"] = @ \cup {s}]
             /\ nextId' = [nextId EXCEPT !["server"] = (s + 1) % IdSpace,
                                         !["void"] = (p + 1) % IdSpace]
             /\ server' = [server EXCEPT ![s] = [NoServer EXCEPT !.listen = p]]
             /\ Grants({<<"server", s>>})
             /\ UNCHANGED <<sets, tls, exchange, holder>>
          \/ Fails /\ UNCHANGED <<heapVars, httpVars>>
       /\ wait' = NoWait

\* kj::HttpServer::drain may be called once; it ends when no request is left.
Drains == /\ ~server[Arg(1)].draining
          /\ server' = [server EXCEPT ![Arg(1)].draining = TRUE]
DrainKind == IF ExchangesOf(Arg(1)) = {} THEN "sure" ELSE "drain"

HttpServerDrainStart ==
    /\ Serving("httpServerDrainStart")
    /\ \/ Has("server", Arg(1)) /\ Drains /\ Start("void", DrainKind, <<"server", Arg(1)>>)
       \/ (Has("server", Arg(1)) => server[Arg(1)].draining) /\ Rejects /\ UNCHANGED server
    /\ UNCHANGED <<tls, exchange, holder>>
HttpServerDrain ==
    /\ Serving("httpServerDrain")
    /\ \/ /\ Has("server", Arg(1)) /\ Drains
          /\ StartAndAwait("void", DrainKind, <<"server", Arg(1)>>, "value")
       \/ (Has("server", Arg(1)) => server[Arg(1)].draining) /\ Rejects /\ UNCHANGED server
    /\ UNCHANGED <<tls, exchange, holder>>

\* The cleanup attached to an exchange: the bodies of the requests that have its number.
Numbered(E) == {<<exchange[e].server, exchange[e].rid>> : e \in E}
BodiesOf(ty, E) == {i \in objects[ty] : \E e \in Exchanges :
                       /\ e = holder[ty][i]
                       /\ <<exchange[e].server, exchange[e].rid>> \in Numbered(E)}

\* Faulty: whose body is taken is not told.
GoneQuietly(E) == [e \in Exchanges |-> IF e \in E THEN [exchange[e] EXCEPT !.st = "gone"]
                                       ELSE exchange[e]]

\* Another exchange whose response body is taken ends with an error.
Gone(E) ==
    LET cut == {holder["serverResponseBody"][i] : i \in BodiesOf("serverResponseBody", E)}
    IN [e \in Exchanges |-> CASE e \in E -> [exchange[e] EXCEPT !.st = "gone"]
                              [] e \in cut \ E -> [exchange[e] EXCEPT !.st = "finishing"]
                              [] OTHER -> exchange[e]]

\* Faulty: the cleanup forgets the bodies of the request.
WithoutResponseBodies(E) ==
    [objects EXCEPT !["serverResponseBody"] = @ \ BodiesOf("serverResponseBody", E)]

WithoutBodies(E) ==
    [objects EXCEPT !["serverRequestBody"] = @ \ BodiesOf("serverRequestBody", E),
                    !["serverResponseBody"] = @ \ BodiesOf("serverResponseBody", E)]

\* releaseHttpServerBodiesForServer.
OfServer(s) == {e \in Exchanges : exchange[e].server = s}

\* Faulty: the promise of listenHttp is left in promises_.
ListenIdsForgotten(S) == {}

\* What the destruction of the servers S does to promises_: the promise of listenHttp is
\* canceled and erased, and a drain that was not over is broken.
ListenIds(S) == {server[s].listen : s \in S} \ {0}
Broken(S) == [n \in Nodes |->
                 IF Pending(n) /\ nodes[n].kind \in {"listen", "drain"} /\ nodes[n].on[2] \in S
                 THEN [nodes[n] EXCEPT !.st = "err"] ELSE nodes[n]]

HttpServerRelease ==
    /\ Serving("httpServerRelease")
    /\ \/ LET s == Arg(1) IN
          /\ Has("server", s)
          /\ nodes' = Broken({s})
          /\ promises' = [promises EXCEPT !["void"] =
                             [i \in Ids |-> IF i \in ListenIds({s}) THEN 0 ELSE @[i]]]
          /\ retired' = retired \cup {i \in ListenIds({s}) : promises["void"][i] # 0}
          /\ objects' = [WithoutBodies(OfServer(s)) EXCEPT !["server"] = @ \ {s}]
          /\ exchange' = Gone(OfServer(s))
          /\ server' = [server EXCEPT ![s] = NoServer]
          /\ Succeeds
          /\ UNCHANGED <<sets, nextId, wait, tls, holder>>
       \/ ~Has("server", Arg(1)) /\ Rejects /\ UNCHANGED httpVars

\* The oldest request is handed out, with its body.
HttpServerPollRequest ==
    /\ Serving("httpServerPollRequest")
    /\ \/ LET q == server[Arg(1)].queue IN
          /\ Has("server", Arg(1)) /\ q # <<>>
          /\ server' = [server EXCEPT ![Arg(1)].queue = Tail(@)]
          /\ Grants({<<"request", Head(q).rid>>, <<"serverRequestBody", Head(q).body>>})
          /\ UNCHANGED <<heapVars, wait>>
       \/ Has("server", Arg(1)) /\ server[Arg(1)].queue = <<>> /\ Returns /\ UNCHANGED server
       \/ ~Has("server", Arg(1)) /\ Rejects /\ UNCHANGED server
    /\ UNCHANGED <<tls, exchange, holder>>

\* The fulfiller leaves pendingResponses and is fulfilled with the answer; nothing comes
\* of it when the exchange is gone.
Told(e, how) == IF Status(e) = "asked"
                THEN [exchange EXCEPT ![e].st = "told", ![e].answer = how] ELSE exchange

Asker == server[Arg(1)].pending[Arg(2)]
CanRespond == Has("server", Arg(1)) /\ Arg(2) \in {r \in Ids : server[Arg(1)].pending[r] # 0}

\* Faulty: the fulfiller stays behind.
AnswersAgain(how) ==
    /\ CanRespond
    /\ exchange' = Told(Asker, how)
    /\ UNCHANGED <<tls, server, holder>>

Answers(how) ==
    /\ CanRespond
    /\ exchange' = Told(Asker, how)
    /\ server' = [server EXCEPT ![Arg(1)].pending[Arg(2)] = 0]
    /\ UNCHANGED <<tls, holder>>

HttpServerRespond ==
    /\ Serving("httpServerRespond")
    /\ \/ Answers("http") /\ Returns
       \/ Rejects /\ UNCHANGED httpVars

\* The thread then turns the event loop until the exchange has completed the call.
Pump == /\ NewLeaf("completion", Nothing)
        /\ wait' = [node |-> Len(nodes) + 1, how |-> "pump"]
        /\ UNCHANGED <<promises, retired, objects, sets, nextId, loopVars>>

HttpServerRespondWebSocket ==
    /\ Serving("httpServerRespondWebSocket")
    /\ \/ Answers("webSocket") /\ Pump
       \/ Rejects /\ UNCHANGED httpVars
HttpServerRespondStartStreaming ==
    /\ Serving("httpServerRespondStartStreaming")
    /\ \/ Answers("serverResponseBody") /\ Pump
       \/ Rejects /\ UNCHANGED httpVars

RunServer == HttpServerDrainStart \/ HttpServerDrain \/ HttpServerRelease
RunServerRequests == \/ HttpServerPollRequest \/ HttpServerRespond
                     \/ HttpServerRespondWebSocket \/ HttpServerRespondStartStreaming

HttpServerResponseBodyWriteStart == /\ Serving("serverResponseBodyWriteStart")
                                    /\ WritesStart("serverResponseBody")
HttpServerResponseBodyWrite      == /\ Serving("serverResponseBodyWrite")
                                    /\ Writes("serverResponseBody")

\* The body is erased, the exchange told that it is done, and a ready promise made.
Finishes == /\ Has("serverResponseBody", Arg(1))
            /\ Gives("serverResponseBody")
            /\ LetGo("serverResponseBody")
            /\ UNCHANGED <<tls, server, holder>>
Unknown  == ~Has("serverResponseBody", Arg(1)) /\ Rejects /\ UNCHANGED httpVars

HttpServerResponseBodyFinishStart ==
    Serving("serverResponseBodyFinishStart") /\ ((Finishes /\ ReadyPromise) \/ Unknown)
HttpServerResponseBodyFinish ==
    Serving("serverResponseBodyFinish") /\ ((Finishes /\ AwaitReady) \/ Unknown)
HttpServerResponseBodyRelease ==
    Serving("serverResponseBodyRelease") /\ Releases("serverResponseBody")

RunServerResponses == \/ HttpServerResponseBodyFinishStart \/ HttpServerResponseBodyFinish
                      \/ HttpServerResponseBodyRelease

-----------------------------------------------------------------------------
(* What the HTTP library does while the thread turns the event loop.       *)

\* RuntimeHttpService::request: the body gets a handle, the fulfiller goes into
\* pendingResponses, the record to the end of the queue.  A number that is still pending
\* keeps its old fulfiller, and the new one is broken.
Arrive ==
    \E s \in objects["server"] :
       LET rid  == server[s].next
           e    == Len(exchange) + 1
           b    == FreshFrom(nextId["serverRequestBody"], objects["serverRequestBody"])
           free == server[s].pending[rid] = 0
       IN /\ Turning
          /\ ~server[s].draining
          /\ Len(exchange) < MaxRequests
          /\ Room("serverRequestBody")
          /\ exchange' = Append(exchange, [server |-> s, rid |-> rid, answer |-> "none",
                                           st |-> IF free THEN "asked" ELSE "finishing"])
          /\ server' = [server EXCEPT ![s].next = (rid + 1) % RequestSpace,
                                      ![s].queue = Append(@, [rid |-> rid, body |-> b]),
                                      ![s].pending[rid] = IF free THEN e ELSE @]
          /\ objects' = [objects EXCEPT !["serverRequestBody"] = @ \cup {b}]
          /\ holder' = [holder EXCEPT !["serverRequestBody"][b] = e]
          /\ Bump("serverRequestBody", b)
          /\ UNCHANGED <<nodes, promises, retired, sets, wait, loopVars, tls>>

\* The continuation of request() on an answer.  A streamed answer or an upgrade completes
\* the call that gave it, with a handle or, when the response throws, with an error.  A
\* plain answer is written, unless it is empty or throws.
Continue(e) ==
    LET ty == exchange[e].answer
        i  == FreshFrom(nextId[ty], objects[ty])
    IN /\ Turning
       /\ Status(e) = "told"
       /\ \/ /\ ty = "http"
             /\ \E st \in {"writing", "finishing"} : exchange' = [exchange EXCEPT ![e].st = st]
             /\ UNCHANGED <<loopVars, heapVars, wait, holder>>
          \/ /\ ty # "http" /\ Room(ty)
             /\ exchange' = [exchange EXCEPT
                   ![e].st = IF ty = "webSocket" THEN "upgraded" ELSE "streaming"]
             /\ objects' = [objects EXCEPT ![ty] = @ \cup {i}]
             /\ holder' = [holder EXCEPT ![ty][i] = e]
             /\ Bump(ty, i)
             /\ Grants({<<ty, i>>})
             /\ wait' = NoWait
             /\ UNCHANGED <<nodes, promises, retired, sets>>
          \/ /\ ty # "http"
             /\ exchange' = [exchange EXCEPT ![e].st = "finishing"]
             /\ Fails
             /\ wait' = NoWait
             /\ UNCHANGED <<heapVars, holder>>
       /\ UNCHANGED <<tls, server>>

\* The promise of request() is destroyed, and its cleanup runs; pendingResponses and the
\* queue keep what they have of it.
Ends(e) == /\ exchange' = Gone({e})
           /\ objects' = WithoutBodies({e})
           /\ UNCHANGED <<nodes, promises, retired, sets, nextId, wait, loopVars, tls, server,
                          holder>>

ExchangeDone == Turning /\ \E e \in Exchanges : Status(e) = "finishing" /\ Ends(e)

\* The answer was written, or its reader is slow or gone.
ExchangeWritten == Turning /\ \E e \in Exchanges : Status(e) = "writing" /\ Ends(e)

\* KJ cancels the processing of a request when its client disconnects.
ClientLeaves == Turning /\ \E e \in Exchanges : Status(e) \notin {"gone", "finishing"} /\ Ends(e)

Drained(n) == nodes[n].kind = "drain" /\ Live(n) /\ ExchangesOf(nodes[n].on[2]) = {}
SettleDrain == /\ Turning
               /\ \E n \in Nodes : Drained(n) /\ SettleAs(n, "ok")
               /\ UNCHANGED httpVars

-----------------------------------------------------------------------------

Init == LoopInit /\ HeapInit /\ HttpInit

CallX(c) == \/ CallSleep(c) \/ CallPromise(c) \/ CallBytesPromise(c) \/ CallTls(c)
            \/ CallHttpRequest(c) \/ CallHttpRequestHeaders(c) \/ CallHttpRequestLimited(c)
            \/ CallHttpRequestStart(c) \/ CallHttpRequestStartHeaders(c)
            \/ CallHttpRequestStartLimited(c) \/ CallHttpStreaming(c)
            \/ CallResponsePromise(c) \/ CallResponseWithHeaders(c)
            \/ CallStreamingAwait(c) \/ CallRequestBody(c)
            \/ CallResponseBody(c) \/ CallServerRequestBody(c) \/ CallWsConnect(c)
            \/ CallWsPromise(c) \/ CallWsRelease(c) \/ CallWsSend(c)
            \/ CallWsReceiveStart(c) \/ CallWsMessage(c) \/ CallWsReceive(c)
            \/ CallWsClose(c) \/ CallWsEnd(c) \/ CallWsPipe(c) \/ CallServerListen(c)
            \/ CallServerEnd(c) \/ CallPoll(c) \/ CallRespond(c) \/ CallRespondWebSocket(c)
            \/ CallRespondStreaming(c) \/ CallServerResponseBody(c)

Clients(c) == \/ Begin(c) /\ UNCHANGED <<heapVars, wait, httpVars>>
              \/ CallX(c) /\ UNCHANGED httpVars

Release == (Unregister \/ Shutdown \/ Join) /\ UNCHANGED <<heapVars, wait, httpVars>>

TakeNext == Pop /\ UNCHANGED <<heapVars, wait, httpVars>>

\* Branches that do not touch the servers, and those that do.
Perform == /\ \/ RunPromises \/ RunConnections \/ RunHttpClient \/ RunBodies
              \/ RunServerBodies \/ RunWebSockets \/ RunWebSocketSends
              \/ RunWebSocketReceives \/ RunWebSocketEnds \/ HttpServerListen
              \/ HttpServerResponseBodyWriteStart \/ HttpServerResponseBodyWrite
           /\ UNCHANGED httpVars
PerformHttp == \/ RunTls \/ WebSocketRelease \/ RunServer \/ RunServerRequests
               \/ RunServerResponses

Finish == \/ (Resume \/ ResumeResponse) /\ UNCHANGED httpVars
          \/ ResumeListen

\* Every server is released, then the tables are cleared.
Teardown == /\ Leave
            /\ ClearTables
            /\ tls' = FALSE
            /\ server' = [s \in Ids |-> NoServer]
            /\ exchange' = Gone(Exchanges)
            /\ holder' = [ty \in Held |-> [i \in Ids |-> 0]]

\* The event loop's own work, and what the other side may do.
Turn == \/ (SettleSure \/ ReapTask) /\ UNCHANGED httpVars
        \/ SettleDrain \/ ExchangeDone
        \/ \E e \in Exchanges : Continue(e)
Peer == \/ SettlePeer /\ UNCHANGED httpVars
        \/ SettleStream \/ Arrive \/ ExchangeWritten \/ ClientLeaves

Next == \/ \E c \in Calls : Clients(c)
        \/ Release \/ TakeNext \/ Perform \/ PerformHttp \/ Finish \/ Teardown
        \/ Turn \/ Peer

Spec == Init /\ [][Next]_vars

\* As in KjAsync; the clients and servers at the other end owe nothing.
Fairness ==
    /\ \A c \in Calls : WF_vars(CallX(c) /\ UNCHANGED httpVars)
    /\ WF_vars((Shutdown \/ Join) /\ UNCHANGED <<heapVars, wait, httpVars>>)
    /\ WF_vars(TakeNext \/ Perform \/ PerformHttp \/ Finish \/ Teardown)
    /\ WF_vars(Turn)

FairSpec == Spec /\ Fairness

-----------------------------------------------------------------------------

TypeOK ==
    /\ LoopTypeOK /\ HeapTypeOK
    /\ tls \in BOOLEAN
    /\ \A e \in Exchanges :
          /\ exchange[e].server \in Ids /\ exchange[e].rid \in Ids
          /\ Status(e) \in {"asked", "told", "writing", "streaming", "upgraded", "finishing",
                            "gone"}
    /\ \A s \in Ids : /\ server[s].listen \in Ids /\ server[s].next \in Ids
                      /\ \A r \in Ids : server[s].pending[r] \in {0} \cup Exchanges
    /\ holder \in [Held -> [Ids -> {0} \cup Exchanges]]

ImplementsService == Service!Spec

\* The stream behind a body handle belongs to its exchange, and a request body is only a
\* pointer into it: while the handle is in its table the exchange is alive, on a server
\* that is alive, and a response body's exchange is the one that streams into it.
BodiesBacked ==
    /\ \A ty \in {"serverRequestBody", "serverResponseBody"} : \A i \in objects[ty] :
          LET e == holder[ty][i] IN
          /\ e # 0 /\ Status(e) # "gone"
          /\ exchange[e].server \in objects["server"]
    /\ \A i \in objects["serverResponseBody"] :
          Status(holder["serverResponseBody"][i]) = "streaming"

\* Whoever waits for an answer can still get one: its fulfiller is in pendingResponses of
\* a live server under its number, and nothing that was answered is in there.
AskedCanBeAnswered ==
    /\ \A e \in Exchanges : Status(e) = "asked" =>
          /\ exchange[e].server \in objects["server"]
          /\ server[exchange[e].server].pending[exchange[e].rid] = e
    /\ \A s, r \in Ids : LET e == server[s].pending[r] IN
          e # 0 => Status(e) \in {"asked", "gone"} /\ exchange[e].answer = "none"

\* An exchange that waits for its stream or its socket to be let go has one that somebody
\* can let go, and one that waits to be acted upon completes the call that waits for it.
ExchangeCanEnd ==
    \A e \in Exchanges :
       /\ Status(e) = "streaming" => \E i \in objects["serverResponseBody"] :
                                        holder["serverResponseBody"][i] = e
       /\ Status(e) = "upgraded" => \E i \in objects["webSocket"] : holder["webSocket"][i] = e
       /\ Status(e) = "told" /\ exchange[e].answer # "http" => wait.how = "pump"

\* The promise that accepts connections is in promises_ only as long as its server: it
\* works on the HttpServer that the server's state owns.  Id 0, which the counter yields
\* after a wrap, is excepted: a server takes a listenPromiseId of 0 for none.
ServerOwnsListen ==
    \A i \in Ids \ {0} : LET n == promises["void"][i] IN
       n # 0 /\ nodes[n].kind = "listen" =>
          /\ nodes[n].on[2] \in objects["server"]
          /\ server[nodes[n].on[2]].listen = i

\* The thread waits for its peers: nothing it does by itself ends the wait, and it does
\* not pump for a callback.
Hindered ==
    /\ Turning /\ wait.how # "pump"
    /\ ~\E s \in Ids : \E n \in sets[s].tasks : ~Pending(n)
    /\ \A n \in Nodes : /\ Live(n) /\ Outcomes(n) # {} => nodes[n].kind \in {"io", "send"}
                        /\ ~Drained(n)
    /\ \A e \in Exchanges : Status(e) \notin {"told", "finishing"}

\* The thread pumps for a callback that went with its exchange.  This hangs the runtime,
\* by its own fault: it is what PumpEnds says never happens.
PumpsForNobody ==
    /\ wait.how = "pump"
    /\ ~\E e \in Exchanges : Status(e) = "told" /\ exchange[e].answer # "http"

TableFull == \/ \E ty \in PromiseTypes : Cardinality(Ids \ Busy(ty)) < 2
             \/ \E ty \in ObjectTypes : Cardinality(Ids \ objects[ty]) < 2

Owed == \E c \in Calls : pc[c] = "queued"

\* Every call that got into the queue returns, and a release that began gets to join the
\* thread, with three exceptions: the thread waits forever for a peer, which is not up to
\* the runtime; a table stays full; or the thread pumps for nobody, which is its own fault.
CallsReturn ==
    \/ <>[](Hindered \/ TableFull \/ PumpsForNobody)
    \/ (Owed ~> ~Owed) /\ (~registered ~> releaser = "joined")

\* The comment on the loop that serves RespondWebSocket and RespondStartStreaming: the
\* thread pumps the KJ loop until the callback of the exchange fires.
PumpEnds == wait.how = "pump" ~> wait.how # "pump"
=============================================================================
