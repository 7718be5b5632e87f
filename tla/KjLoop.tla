------------------------------- MODULE KjLoop -------------------------------
(***************************************************************************)
(* The thread of a Capnp.KjAsync runtime (class KjAsyncRuntimeLoop of      *)
(* ffi/kj_async_bridge.cpp) as its callers see it: the registry, the       *)
(* queue, the completions and the release.  What the thread does with an   *)
(* operation is in KjTables, KjStreams and KjHttp.                         *)
(*                                                                         *)
(* Unlike the RPC runtime of RuntimeLoop, this thread serves one operation *)
(* at a time to its end.  An operation that waits for a promise turns the  *)
(* KJ event loop, and nothing else does: between operations the thread     *)
(* sleeps on a condition variable and no promise makes progress.           *)
(***************************************************************************)
EXTENDS Naturals, Sequences, FiniteSets

CONSTANTS MaxCalls,   \* bound: calls made in a behaviour
          Programs    \* what the clients do: the requests each call may make (script),
                      \* and how many threads make them

ASSUME LoopAssumption ==
    /\ MaxCalls \in Nat
    /\ \A p \in Programs :
          /\ p.threads \in Nat
          /\ DOMAIN p.script \subseteq 1..MaxCalls
          /\ \A k \in DOMAIN p.script : \A r \in p.script[k] :
                Len(r[2]) \in Nat /\ DOMAIN r[2] = 1..Len(r[2])

Calls == 1..MaxCalls

VARIABLES
    program,     \* the client, fixed at the start
    pc,          \* how far each call has come
    req,         \* its operation and arguments, while queued or served
    reply,       \* its completion
    registered,  \* the runtime is in gKjAsyncRuntimes
    releaser,    \* how far runtime_release has come
    stopping,    \* stopping_
    queue,       \* queue_
    cur,         \* the call whose operation the thread executes, or 0
    worker       \* "up", or "dead" once run() has returned

callVars   == <<pc, req, reply>>
sharedVars == <<registered, releaser, stopping>>
loopVars   == <<program, callVars, sharedVars, queue, cur, worker>>

NoRequest == <<"none", <<>>>>
NoReply   == [st |-> "none", got |-> {}]

LoopInit ==
    /\ program \in Programs
    /\ pc = [c \in Calls |-> "new"]
    /\ req = [c \in Calls |-> NoRequest]
    /\ reply = [c \in Calls |-> NoReply]
    /\ registered = TRUE
    /\ releaser = "none"
    /\ stopping = FALSE
    /\ queue = <<>>
    /\ cur = 0
    /\ worker = "up"

-----------------------------------------------------------------------------
(* The calling side.  Calls are numbered in the order they begin.          *)

Goto(c, l) == pc' = [pc EXCEPT ![c] = l]

\* The promise tables: promises_, connectionPromises_, bytesPromises_, uint32Promises_,
\* datagramReceivePromises_, httpResponsePromises_, webSocketPromises_ and
\* webSocketMessagePromises_.
PromiseTypes == {"void", "conn", "bytes", "uint32", "dgram", "resp", "ws", "msg"}

\* The object tables: listeners_, networkAddresses_, connections_, taskSets_, ...
ObjectTypes == {"listener", "address", "connection", "taskSet", "port", "webSocket",
                "requestBody", "responseBody", "server", "serverRequestBody",
                "serverResponseBody"}

\* Handles: the number of a promise, of an object, or of a request that a server handed out.
Handles == SUBSET ((PromiseTypes \cup ObjectTypes \cup {"request"}) \X Nat)

\* Completions: done is set once, with a value or an error.
Completions == [st : {"none", "ok", "error", "refused"}, got : Handles]

Complete(c, r) == /\ reply' = [reply EXCEPT ![c] = r]
                  /\ Goto(c, "done")

Failed(why) == [st |-> why, got |-> {}]

\* getKjAsyncRuntime, the first step of every extern function.
Begin(c) ==
    /\ pc[c] = "new"
    /\ c \in DOMAIN program.script
    /\ \A d \in 1..(c - 1) : pc[d] # "new"
    /\ Cardinality({d \in Calls : pc[d] \in {"found", "queued"}}) < program.threads
    /\ \/ registered /\ Goto(c, "found") /\ UNCHANGED reply
       \/ ~registered /\ Complete(c, Failed("refused"))
    /\ UNCHANGED <<program, req, sharedVars, queue, cur, worker>>

\* Faulty: the push is not guarded by stopping_.
EnqueueUnchecked(c, requests) ==
    /\ pc[c] = "found"
    /\ \E r \in requests \cap program.script[c] :
          /\ queue' = Append(queue, c)
          /\ req' = [req EXCEPT ![c] = r]
          /\ Goto(c, "queued")
          /\ UNCHANGED reply
    /\ UNCHANGED <<program, sharedVars, cur, worker>>

\* enqueueX: refused under queueMutex_ once stopping_ is set, else queued.
Enqueue(c, requests) ==
    /\ pc[c] = "found"
    /\ \E r \in requests \cap program.script[c] :
          \/ /\ stopping
             /\ Complete(c, Failed("refused"))
             /\ UNCHANGED <<queue, req>>
          \/ /\ ~stopping
             /\ queue' = Append(queue, c)
             /\ req' = [req EXCEPT ![c] = r]
             /\ Goto(c, "queued")
             /\ UNCHANGED reply
    /\ UNCHANGED <<program, sharedVars, cur, worker>>

-----------------------------------------------------------------------------
(* The release.                                                            *)

\* unregisterKjAsyncRuntime: only one release gets the runtime.
Unregister ==
    /\ registered
    /\ registered' = FALSE
    /\ releaser' = "unregistered"
    /\ UNCHANGED <<program, callVars, stopping, queue, cur, worker>>

\* shutdown(): set stopping_, wake the thread ...
Shutdown ==
    /\ releaser = "unregistered"
    /\ stopping' = TRUE
    /\ releaser' = "joining"
    /\ UNCHANGED <<program, callVars, registered, queue, cur, worker>>

\* ... and join it.
Join ==
    /\ releaser = "joining"
    /\ worker = "dead"
    /\ releaser' = "joined"
    /\ UNCHANGED <<program, callVars, registered, stopping, queue, cur, worker>>

-----------------------------------------------------------------------------
(* The thread.                                                             *)

\* The head of the loop of run(): everything queued is served, even after stopping_.
Pop ==
    /\ worker = "up"
    /\ cur = 0
    /\ queue # <<>>
    /\ cur' = Head(queue)
    /\ queue' = Tail(queue)
    /\ UNCHANGED <<program, callVars, sharedVars, worker>>

\* A branch of run() ends by completing its operation, with handles or an error.
Answer(r) ==
    /\ Complete(cur, r)
    /\ req' = [req EXCEPT ![cur] = NoRequest]
    /\ cur' = 0
    /\ UNCHANGED <<program, sharedVars, queue, worker>>

Grants(handles) == Answer([st |-> "ok", got |-> handles])
Succeeds == Grants({})
Fails == Answer(Failed("error"))

\* Faulty: the loop ends on stopping_ alone.
LeaveEarly ==
    /\ worker = "up"
    /\ cur = 0
    /\ stopping
    /\ worker' = "dead"
    /\ UNCHANGED <<program, callVars, sharedVars, queue, cur>>

\* The loop ends only when stopping_ is set and the queue is empty.
Leave ==
    /\ worker = "up"
    /\ cur = 0
    /\ stopping
    /\ queue = <<>>
    /\ worker' = "dead"
    /\ UNCHANGED <<program, callVars, sharedVars, queue, cur>>

Asked(op) == cur # 0 /\ req[cur][1] = op
Arg(i) == req[cur][2][i]

-----------------------------------------------------------------------------

LoopTypeOK ==
    /\ program \in Programs
    /\ pc \in [Calls -> {"new", "found", "queued", "done"}]
    /\ DOMAIN req = Calls
    /\ \A c \in Calls : Len(req[c][2]) \in Nat /\ DOMAIN req[c][2] = 1..Len(req[c][2])
    /\ reply \in [Calls -> Completions]
    /\ registered \in BOOLEAN
    /\ releaser \in {"none", "unregistered", "joining", "joined"}
    /\ stopping \in BOOLEAN
    /\ queue \in Seq(Calls)
    /\ cur \in {0} \cup Calls
    /\ worker \in {"up", "dead"}

\* A caller blocked on its completion is in the queue or being served, never both and
\* never twice, and so nobody is left waiting once run() has returned: the queue is
\* drained after stopping_ is set and refuses what comes later.
NoLostCall ==
    /\ \A c \in Calls : pc[c] = "queued" <=> (c = cur \/ \E i \in 1..Len(queue) : queue[i] = c)
    /\ \A i, j \in 1..Len(queue) : queue[i] = queue[j] => i = j
    /\ \A i \in 1..Len(queue) : queue[i] # cur
    /\ worker = "dead" => cur = 0 /\ queue = <<>> /\ stopping

\* What the callers may rely on.
Phase(c) == CASE pc[c] \in {"new", "found"}           -> "new"
              [] pc[c] = "queued" /\ c # cur          -> "waiting"
              [] pc[c] = "queued" /\ c = cur          -> "started"
              [] pc[c] = "done" /\ reply[c].st = "refused" -> "away"
              [] OTHER                                -> "answered"

Gate == CASE registered                   -> "open"
          [] ~registered /\ ~stopping     -> "closing"
          [] stopping /\ worker = "up"    -> "closed"
          [] OTHER                        -> "stopped"

Service == INSTANCE CallService
           WITH phase <- [c \in Calls |-> Phase(c)], line <- queue, gate <- Gate
=============================================================================
