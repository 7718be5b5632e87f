--------------------------- MODULE KjHttpProofs -----------------------------
(***************************************************************************)
(* HTTP and WebSockets in a KjAsync runtime, for any number of calls and   *)
(* requests, any client programs and any size of the id space.             *)
(*                                                                         *)
(* Part 1: the tables, with the lemmas of KjStreamsProofs.  Part 2: the    *)
(* exchanges, pendingResponses and the body handles.  Part 3: an exchange  *)
(* can end.                                                                *)
(***************************************************************************)
EXTENDS KjHttp, KjStreamsProofs

-----------------------------------------------------------------------------
(* Part 1.  A streamed response enters its body before anybody is told, so *)
(* EveryHandleGranted is not among what these operations keep.             *)

Safe == LoopStep /\ HeapInv'

LEMMA KeptIsSafe == Kept => Safe
BY DEF Kept, Safe

\* A new promise is entered under a free id, whatever happens to the objects.
LEMMA EntryAdded ==
    ASSUME HeapInv, Grown, NewIsNew, NEW ty \in PromiseTypes, NEW i \in Ids,
           promises' = [promises EXCEPT ![ty][i] = NewNode],
           retired' = (IF ty = "void" THEN retired \ {i} ELSE retired),
           sets' = sets, wait' = NoWait,
           objects' \in [ObjectTypes -> SUBSET Ids],
           nextId' \in [PromiseTypes \cup ObjectTypes -> Ids]
    PROVE  HeapInv'
<1> HIDE DEF NewNode
<1>1. \A uy \in PromiseTypes : \A j \in Ids :
         promises'[uy][j] = IF uy = ty /\ j = i THEN NewNode ELSE promises[uy][j]
  BY DEF HeapInv, HeapTypeOK
<1>2. wait'.node = 0 /\ wait' \in [node : {0} \cup Nodes', how : Hows]
  BY DEF NoWait, Hows
<1>3. Single' /\ Roots'
  BY <1>1, <1>2, NewInTable
<1>4. promises' \in [PromiseTypes -> [Ids -> {0} \cup Nodes']]
  BY StillTyped DEF HeapInv, NewIsNew
<1>5. sets' \in [Ids -> [tasks : SUBSET Nodes', errors : Nat, last : BOOLEAN,
                         empty : {0} \cup Nodes']]
  BY StillTyped DEF HeapInv
<1>6. retired' \in SUBSET Ids
  BY DEF HeapInv, HeapTypeOK
<1>7. HeapTypeOK'
  BY <1>2, <1>4, <1>5, <1>6 DEF HeapTypeOK, Grown
<1>8. RetiredIsGone'
  BY <1>1, <1>6 DEF HeapInv, HeapTypeOK, RetiredIsGone, PromiseTypes
<1>9. QED
  BY <1>3, <1>7, <1>8 DEF HeapInv

\* An answer, and at most the objects and their counters change.
LEMMA AnswerSafe ==
    ASSUME LoopInv, HeapInv, cur # 0, Fails \/ \E h \in Handles : Grants(h),
           UNCHANGED <<nodes, promises, retired, sets>>, wait' = NoWait,
           objects' \in [ObjectTypes -> SUBSET Ids],
           nextId' \in [PromiseTypes \cup ObjectTypes -> Ids]
    PROVE  Safe
<1>1. LoopStep /\ wait'.node = 0
  BY AnswerIsStep DEF NoWait
<1>2. QED
  BY <1>1, QuietHeap DEF Safe

LEMMA HeapIsTyped ==
    HeapInv => /\ objects \in [ObjectTypes -> SUBSET Ids]
               /\ nextId \in [PromiseTypes \cup ObjectTypes -> Ids]
               /\ wait.node # 0 => cur # 0
BY DEF HeapInv, HeapTypeOK

LEMMA NextOf ==
    ASSUME NEW i \in Ids
    PROVE  (i + 1) % IdSpace \in Ids
BY IdSpaceAssumption DEF Ids

LEMMA StreamingSafe == ASSUME LoopInv, HeapInv, HttpRequestStartStreaming PROVE Safe
<1> DEFINE p == FreshFrom(nextId["resp"], Busy("resp"))
           b == FreshFrom(nextId["requestBody"], objects["requestBody"])
<1>att. Attending
  BY ServingAttends DEF HttpRequestStartStreaming
<1>1. CASE Rejects
  BY <1>1, <1>att, RejectsKeeps, KeptIsSafe
<1>2. CASE ~Rejects
  <2>1. Room("resp") /\ Room("requestBody")
    BY <1>2 DEF HttpRequestStartStreaming
  <2>2. p \in Ids /\ b \in Ids
    BY <2>1, FreeEntry, FreeObject, Words DEF HeapInv
  <2>3. /\ NewLeaf("stream", Nothing)
        /\ promises' = [promises EXCEPT !["resp"][p] = NewNode]
        /\ \/ /\ objects' = [objects EXCEPT !["requestBody"] = @ \cup {b}]
              /\ nextId' = [nextId EXCEPT !["resp"] = (p + 1) % IdSpace,
                                          !["requestBody"] = (b + 1) % IdSpace]
              /\ Grants({<<"resp", p>>, <<"requestBody", b>>})
           \/ /\ UNCHANGED objects
              /\ Bump("resp", p)
              /\ Grants({<<"resp", p>>})
        /\ UNCHANGED <<retired, sets, wait>>
    BY <1>2 DEF HttpRequestStartStreaming, NewNode
  <2> HIDE DEF p, b, NewNode
  <2>4. Grown /\ NewIsNew
    BY <2>3, LeafIsNew, Words, NothingIsAbout DEF HeapInv
  <2>5. {<<"resp", p>>, <<"requestBody", b>>} \in Handles /\ {<<"resp", p>>} \in Handles
    <3>1. {<<"resp", p>>} \in Handles /\ {<<"requestBody", b>>} \in Handles
      BY <2>2, HandleIsHandle, Words
    <3>2. QED
      BY <3>1 DEF Handles
  <2>6. LoopStep
    BY <1>att, <2>3, <2>5, AnswerIsStep DEF Attending
  <2>7. objects' \in [ObjectTypes -> SUBSET Ids]
    BY <2>2, <2>3, HeapIsTyped
  <2>8. nextId' \in [PromiseTypes \cup ObjectTypes -> Ids]
    <3>1. (p + 1) % IdSpace \in Ids /\ (b + 1) % IdSpace \in Ids
      BY <2>2, NextOf
    <3>2. QED
      BY <2>3, <3>1, HeapIsTyped DEF Bump
  <2>9. wait' = NoWait
    BY <1>att, <2>3 DEF Attending
  <2>10. HeapInv'
    BY <2>2, <2>3, <2>4, <2>7, <2>8, <2>9, EntryAdded, Words
  <2>11. QED
    BY <2>6, <2>10 DEF Safe
<1>3. QED
  BY <1>1, <1>2

\* Only the loop moved: objects and counters may change.
LEMMA SilentSafe ==
    ASSUME HeapInv, Grown, Nodes' = Nodes, UNCHANGED <<promises, retired, sets, wait, loopVars>>,
           objects' \in [ObjectTypes -> SUBSET Ids],
           nextId' \in [PromiseTypes \cup ObjectTypes -> Ids]
    PROVE  Safe
<1>1. LoopStep /\ cur' = cur
  BY SilenceAdds
<1>2. sets' \in [Ids -> [tasks : SUBSET Nodes, errors : Nat, last : BOOLEAN,
                         empty : {0} \cup Nodes]]
  BY DEF HeapInv, HeapTypeOK
<1>3. \A s \in Ids : sets'[s].tasks \subseteq sets[s].tasks
  OBVIOUS
<1>4. HeapInv'
  BY <1>1, <1>2, <1>3, HeapIsTyped, StatusOnly
<1>5. QED
  BY <1>1, <1>4 DEF Safe

\* A promise is settled in its place.
LEMMA NodeReplaced ==
    ASSUME HeapTypeOK, NEW n \in Nodes, NEW new \in NodeRecords, new.root = nodes[n].root,
           new.parts = nodes[n].parts, nodes' = [nodes EXCEPT ![n] = new]
    PROVE  Grown /\ Nodes' = Nodes
<1>1. nodes \in Seq(NodeRecords) /\ Len(nodes) \in Nat /\ Nodes = 1..Len(nodes)
  BY DEF HeapTypeOK, NodesTypeOK, Nodes
<1>2. /\ nodes' \in Seq(NodeRecords) /\ Nodes' = Nodes
      /\ \A m \in Nodes : nodes'[m] = IF m = n THEN new ELSE nodes[m]
  BY <1>1, ExceptSeq DEF Nodes
<1>3. \A m \in Nodes : nodes'[m].root = nodes[m].root /\ nodes'[m].parts = nodes[m].parts
  BY <1>2
<1>4. QED
  BY <1>2, <1>3 DEF Grown, HeapTypeOK, NodesTypeOK

\* A streamed response settles with its body.
LEMMA BodySettled ==
    ASSUME HeapTypeOK, NEW n \in Nodes, NEW b \in Ids,
           nodes' = [nodes EXCEPT ![n].st = "ok", ![n].on = <<"responseBody", b>>]
    PROVE  Grown /\ Nodes' = Nodes
<1> DEFINE new == [nodes[n] EXCEPT !.st = "ok", !.on = <<"responseBody", b>>]
<1>1. nodes \in Seq(NodeRecords) /\ Len(nodes) \in Nat /\ Nodes = 1..Len(nodes)
  BY DEF HeapTypeOK, NodesTypeOK, Nodes
<1>2. new \in NodeRecords /\ new.root = nodes[n].root /\ new.parts = nodes[n].parts
  <2>1. nodes[n] \in NodeRecords
    BY <1>1
  <2>2. <<"responseBody", b>> \in {Nothing} \cup (ObjectTypes \X Nat)
    BY Words, IdSpaceAssumption DEF Ids
  <2>3. QED
    BY <2>1, <2>2 DEF NodeRecords
<1>3. nodes' = [nodes EXCEPT ![n] = new]
  BY <1>1
<1> HIDE DEF new
<1>4. QED
  BY <1>2, <1>3, NodeReplaced

LEMMA SettleStreamSafe == ASSUME LoopInv, HeapInv, SettleStream PROVE Safe
<1> DEFINE b == FreshFrom(nextId["responseBody"], objects["responseBody"])
<1>1. PICK n \in Nodes :
         \/ SettleAs(n, "err")
         \/ /\ Room("responseBody")
            /\ nodes' = [nodes EXCEPT ![n].st = "ok", ![n].on = <<"responseBody", b>>]
            /\ objects' = [objects EXCEPT !["responseBody"] = @ \cup {b}]
            /\ Bump("responseBody", b)
            /\ UNCHANGED <<promises, retired, sets, wait, loopVars>>
  BY DEF SettleStream
<1>2. CASE SettleAs(n, "err")
  BY <1>2, SettleKeeps, KeptIsSafe
<1>3. CASE ~SettleAs(n, "err")
  <2>1. b \in Ids
    BY <1>1, <1>3, FreeObject, Words DEF HeapInv
  <2> HIDE DEF b
  <2>2. Grown /\ Nodes' = Nodes
    BY <1>1, <1>3, <2>1, BodySettled DEF HeapInv
  <2>3. objects' \in [ObjectTypes -> SUBSET Ids]
    BY <1>1, <1>3, <2>1, HeapIsTyped
  <2>4. nextId' \in [PromiseTypes \cup ObjectTypes -> Ids]
    BY <1>1, <1>3, <2>1, BumpKeeps, Words DEF HeapInv
  <2>5. QED
    BY <1>1, <1>3, <2>2, <2>3, <2>4, SilentSafe
<1>4. QED
  BY <1>2, <1>3

LEMMA ResumeResponseSafe == ASSUME LoopInv, HeapInv, ResumeResponse PROVE Safe
<1>1. wait.node \in Nodes /\ cur # 0
  BY DEF ResumeResponse, Settled, HeapInv, HeapTypeOK
<1>2. nodes[wait.node] \in NodeRecords
  BY <1>1 DEF HeapInv, HeapTypeOK, NodesTypeOK, Nodes
<1>3. nodes[wait.node].on \in {Nothing} \cup (ObjectTypes \X Nat)
  BY <1>2 DEF NodeRecords
<1>4. {nodes[wait.node].on} \ {Nothing} \in Handles
  BY <1>3 DEF Handles
<1>5. UNCHANGED <<nodes, promises, retired, sets, objects, nextId>>
  BY DEF ResumeResponse, heapVars
<1>6. QED
  BY <1>1, <1>4, <1>5, AnswerSafe, HeapIsTyped DEF ResumeResponse

\* A body or a socket is let go.
LEMMA GivesTyped ==
    ASSUME HeapInv, NEW ty \in ObjectTypes, Gives(ty)
    PROVE  /\ objects' \in [ObjectTypes -> SUBSET Ids]
           /\ objects' = [objects EXCEPT ![ty] = objects'[ty]]
           /\ objects'[ty] = objects[ty] \ {Arg(1)}
           /\ \A uy \in ObjectTypes : objects'[uy] \subseteq objects[uy]
BY HeapIsTyped DEF Gives

LEMMA ReadyPromiseSafe ==
    ASSUME Attending, ReadyPromise, objects' \in [ObjectTypes -> SUBSET Ids]
    PROVE  Safe
<1> DEFINE i == FreshFrom(nextId["void"], Busy("void"))
<1>1. i \in Ids
  BY FreeEntry, Words DEF Attending, HeapInv, ReadyPromise
<1>2. /\ NewLeaf("sure", Nothing)
      /\ promises' = [promises EXCEPT !["void"][i] = NewNode]
      /\ retired' = retired \ {i}
      /\ Bump("void", i) /\ Grants({<<"void", i>>})
      /\ UNCHANGED <<sets, wait>>
  BY DEF ReadyPromise, AddPromise, NewNode
<1> HIDE DEF i, NewNode
<1>3. Grown /\ NewIsNew
  BY <1>2, LeafIsNew, Words, NothingIsAbout DEF Attending, HeapInv
<1>4. nextId' \in [PromiseTypes \cup ObjectTypes -> Ids]
  BY <1>1, <1>2, BumpKeeps, Words DEF Attending, HeapInv
<1>5. {<<"void", i>>} \in Handles
  BY <1>1, HandleIsHandle, Words
<1>6. LoopStep
  BY <1>2, <1>5, AnswerIsStep DEF Attending
<1>7. HeapInv'
  BY <1>1, <1>2, <1>3, <1>4, EntryAdded, Words DEF Attending
<1>8. QED
  BY <1>6, <1>7 DEF Safe

LEMMA AwaitReadySafe ==
    ASSUME Attending, AwaitReady, objects' \in [ObjectTypes -> SUBSET Ids],
           \A uy \in ObjectTypes : objects'[uy] \subseteq objects[uy]
    PROVE  Safe
<1> DEFINE i == FreshFrom(nextId["void"], Busy("void"))
<1>1. i \in Ids /\ promises["void"][i] = 0
  BY FreeEntry, Words DEF Attending, HeapInv, AwaitReady
<1>2. /\ NewLeaf("sure", Nothing) /\ retired' = retired \cup {i} /\ Bump("void", i)
      /\ wait' = [node |-> NewNode, how |-> "value"]
      /\ UNCHANGED <<promises, sets, loopVars>>
  BY DEF AwaitReady, NewNode
<1> HIDE DEF i, NewNode
<1>3. Grown /\ NewIsNew
  BY <1>2, LeafIsNew, Words, NothingIsAbout DEF Attending, HeapInv
<1>4. nextId' \in [PromiseTypes \cup ObjectTypes -> Ids]
  BY <1>1, <1>2, BumpKeeps, Words DEF Attending, HeapInv
<1>5. retired' \in SUBSET Ids /\ RetiredIsGone'
  BY <1>1, <1>2 DEF Attending, HeapInv, HeapTypeOK, RetiredIsGone
<1>6. QED
  BY <1>2, <1>3, <1>4, <1>5, BeginsToWait, Words, KeptIsSafe

LEMMA ReleasesSafe == ASSUME Attending, NEW ty \in ObjectTypes, Releases(ty) PROVE Safe
<1>1. CASE Has(ty, Arg(1))
  <2>1. /\ Gives(ty) /\ Succeeds
        /\ UNCHANGED <<nodes, promises, retired, sets, nextId, wait>>
    BY <1>1 DEF Releases
  <2>2. objects' \in [ObjectTypes -> SUBSET Ids]
    BY <2>1, GivesTyped DEF Attending
  <2>3. nextId' \in [PromiseTypes \cup ObjectTypes -> Ids] /\ wait' = NoWait
    BY <2>1, HeapIsTyped DEF Attending
  <2>4. QED
    BY <2>1, <2>2, <2>3, SucceedsGrants, AnswerSafe DEF Attending
<1>2. CASE ~Has(ty, Arg(1))
  BY <1>2, RejectsKeeps, KeptIsSafe DEF Releases
<1>3. QED
  BY <1>1, <1>2

LEMMA FinishSafe ==
    ASSUME Attending, NEW ty \in ObjectTypes, Gives(ty), ReadyPromise \/ AwaitReady
    PROVE  Safe
BY GivesTyped, ReadyPromiseSafe, AwaitReadySafe DEF Attending

LEMMA PumpSafe == ASSUME Attending, Pump PROVE Safe
<1>1. WaitFor("completion", Nothing, "pump")
  BY DEF Pump, WaitFor
<1>2. QED
  BY <1>1, WaitForKeeps, Words, NothingIsAbout, KeptIsSafe

LEMMA ResumeListenSafe == ASSUME LoopInv, HeapInv, ResumeListen PROVE Safe
<1> DEFINE s == FreshFrom(nextId["server"], objects["server"])
           p == FreshFrom(nextId["void"], Busy("void"))
<1>1. cur # 0 /\ wait' = NoWait
  BY DEF ResumeListen, Settled
<1>2. CASE Fails /\ UNCHANGED <<heapVars, httpVars>>
  BY <1>1, <1>2, AnswerOnly, KeptIsSafe
<1>3. CASE ~(Fails /\ UNCHANGED <<heapVars, httpVars>>)
  <2>1. Room("server") /\ Room("void")
    BY <1>3 DEF ResumeListen
  <2>2. s \in Ids /\ p \in Ids
    BY <2>1, FreeEntry, FreeObject, Words DEF HeapInv
  <2>3. /\ NewLeaf("listen", <<"server", s>>)
        /\ promises' = [promises EXCEPT !["void"][p] = NewNode]
        /\ retired' = retired \ {p}
        /\ objects' = [objects EXCEPT !["server"] = @ \cup {s}]
        /\ nextId' = [nextId EXCEPT !["server"] = (s + 1) % IdSpace,
                                    !["void"] = (p + 1) % IdSpace]
        /\ Grants({<<"server", s>>}) /\ sets' = sets
    BY <1>3 DEF ResumeListen, NewNode
  <2> HIDE DEF s, p, NewNode
  <2>4. <<"server", s>> \in Abouts
    BY <2>2, Words, IdSpaceAssumption DEF Abouts, Ids
  <2>5. Grown /\ NewIsNew
    BY <2>3, <2>4, LeafIsNew, Words DEF HeapInv
  <2>6. objects' \in [ObjectTypes -> SUBSET Ids]
    BY <2>2, <2>3, HeapIsTyped
  <2>7. nextId' \in [PromiseTypes \cup ObjectTypes -> Ids]
    <3>1. (p + 1) % IdSpace \in Ids /\ (s + 1) % IdSpace \in Ids
      BY <2>2, NextOf
    <3>2. QED
      BY <2>3, <3>1, HeapIsTyped
  <2>8. HeapInv'
    BY <1>1, <2>2, <2>3, <2>5, <2>6, <2>7, EntryAdded, Words
  <2>9. {<<"server", s>>} \in Handles
    BY <2>2, HandleIsHandle, Words
  <2>10. LoopStep
    BY <1>1, <2>3, <2>9, AnswerIsStep
  <2>11. QED
    BY <2>8, <2>10 DEF Safe
<1>4. QED
  BY <1>2, <1>3

LEMMA DrainSafe == ASSUME LoopInv, HeapInv, HttpServerDrainStart \/ HttpServerDrain PROVE Safe
<1>0. Attending
  BY ServingAttends DEF HttpServerDrainStart, HttpServerDrain
<1>1. PICK kind \in Kinds : kind = DrainKind
  BY Words DEF DrainKind
<1>2. CASE Rejects
  BY <1>0, <1>2, RejectsKeeps, KeptIsSafe
<1>3. CASE ~Rejects
  <2>1. /\ Has("server", Arg(1))
        /\ \/ Start("void", kind, <<"server", Arg(1)>>)
           \/ StartAndAwait("void", kind, <<"server", Arg(1)>>, "value")
    BY <1>1, <1>3 DEF HttpServerDrainStart, HttpServerDrain
  <2>2. <<"server", Arg(1)>> \in Abouts
    BY <2>1, KnownIsAbout, Words
  <2>3. QED
    BY <1>0, <2>1, <2>2, StartKeeps, StartAndAwaitKeeps, Words, KeptIsSafe
<1>4. QED
  BY <1>2, <1>3

-----------------------------------------------------------------------------
(* What is known of the exchanges, the servers and the bodies.             *)

Statuses == {"asked", "told", "writing", "streaming", "upgraded", "finishing", "gone"}
ExchangeRecords == [server : Ids, rid : Ids, st : Statuses,
                    answer : {"none", "http", "webSocket", "serverResponseBody"}]
QueueRecords  == [rid : Ids, body : Ids]
ServerRecords == [listen : Ids, queue : Seq(QueueRecords), pending : [Ids -> {0} \cup Exchanges],
                  next : Ids, draining : BOOLEAN]

HttpTypeOK ==
    /\ tls \in BOOLEAN
    /\ exchange \in Seq(ExchangeRecords)
    /\ server \in [Ids -> ServerRecords]
    /\ holder \in [Held -> [Ids -> {0} \cup Exchanges]]

LEMMA ExchangesAre ==
    HttpTypeOK => /\ Exchanges = 1..Len(exchange) /\ Len(exchange) \in Nat
                  /\ 0 \notin Exchanges
                  /\ \A e \in Exchanges : exchange[e] \in ExchangeRecords
BY DEF HttpTypeOK, Exchanges

LEMMA NoServerIsRecord == NoServer \in ServerRecords
<1>1. 0 \in Ids /\ 1 \in Ids
  BY IdSpaceAssumption DEF Ids
<1>2. <<>> \in Seq(QueueRecords)
  OBVIOUS
<1>3. QED
  BY <1>1, <1>2 DEF NoServer, ServerRecords

LEMMA WithoutBodiesTyped ==
    ASSUME HeapInv, NEW E
    PROVE  /\ WithoutBodies(E) \in [ObjectTypes -> SUBSET Ids]
           /\ \A ty \in ObjectTypes : WithoutBodies(E)[ty] \subseteq objects[ty]
           /\ \A ty \in ObjectTypes \ {"serverRequestBody", "serverResponseBody"} :
                 WithoutBodies(E)[ty] = objects[ty]
           /\ \A ty \in {"serverRequestBody", "serverResponseBody"} :
                 WithoutBodies(E)[ty] = objects[ty] \ BodiesOf(ty, E)
BY HeapIsTyped, Words DEF WithoutBodies

LEMMA EndsSafe == ASSUME HeapInv, NEW e, Ends(e) PROVE Safe
<1>1. /\ objects' = WithoutBodies({e})
      /\ UNCHANGED <<nodes, promises, retired, sets, nextId, wait, loopVars>>
  BY DEF Ends
<1>2. Grown /\ Nodes' = Nodes
  BY <1>1, SameNodes DEF HeapInv
<1>3. QED
  BY <1>1, <1>2, WithoutBodiesTyped, HeapIsTyped, SilentSafe

LEMMA ArriveSafe == ASSUME HeapInv, Arrive PROVE Safe
<1> DEFINE b == FreshFrom(nextId["serverRequestBody"], objects["serverRequestBody"])
<1>1. /\ Room("serverRequestBody")
      /\ objects' = [objects EXCEPT !["serverRequestBody"] = @ \cup {b}]
      /\ Bump("serverRequestBody", b)
      /\ UNCHANGED <<nodes, promises, retired, sets, wait, loopVars>>
  BY DEF Arrive
<1>2. b \in Ids
  BY <1>1, FreeObject, Words DEF HeapInv
<1> HIDE DEF b
<1>3. Grown /\ Nodes' = Nodes
  BY <1>1, SameNodes DEF HeapInv
<1>4. objects' \in [ObjectTypes -> SUBSET Ids]
  BY <1>1, <1>2, HeapIsTyped
<1>5. nextId' \in [PromiseTypes \cup ObjectTypes -> Ids]
  BY <1>1, <1>2, BumpKeeps, Words DEF HeapInv
<1>6. QED
  BY <1>1, <1>3, <1>4, <1>5, SilentSafe

\* What was told to an exchange is an answer.
ToldHasAnswer == \A e \in Exchanges : Status(e) = "told" => exchange[e].answer # "none"

LEMMA ContinueSafe ==
    ASSUME LoopInv, HeapInv, HttpTypeOK, ToldHasAnswer, NEW e \in Exchanges, Continue(e)
    PROVE  Safe
<1>1. PICK ty \in {"http", "webSocket", "serverResponseBody"} : ty = exchange[e].answer
  BY ExchangesAre DEF Continue, ToldHasAnswer, ExchangeRecords
<1> DEFINE i == FreshFrom(nextId[ty], objects[ty])
<1>2. cur # 0
  BY HeapIsTyped DEF Continue, Turning
<1>3. CASE UNCHANGED <<loopVars, heapVars, wait, holder>>
  <2>1. UNCHANGED <<nodes, promises, retired, objects, sets, nextId, wait, loopVars>>
    BY <1>3 DEF heapVars
  <2>2. Grown /\ Nodes' = Nodes
    BY <2>1, SameNodes DEF HeapInv
  <2>3. QED
    BY <2>1, <2>2, HeapIsTyped, SilentSafe
<1>4. CASE Fails /\ wait' = NoWait /\ UNCHANGED <<heapVars, holder>>
  BY <1>2, <1>4, AnswerOnly, KeptIsSafe
<1>5. CASE /\ ty # "http" /\ Room(ty)
           /\ objects' = [objects EXCEPT ![ty] = @ \cup {i}]
           /\ Bump(ty, i)
           /\ Grants({<<ty, i>>})
           /\ wait' = NoWait
           /\ UNCHANGED <<nodes, promises, retired, sets>>
  <2>1. ty \in ObjectTypes
    BY <1>5, Words
  <2>2. i \in Ids
    BY <1>5, <2>1, FreeObject DEF HeapInv
  <2> HIDE DEF i
  <2>3. objects' \in [ObjectTypes -> SUBSET Ids]
    BY <1>5, <2>1, <2>2, HeapIsTyped
  <2>4. nextId' \in [PromiseTypes \cup ObjectTypes -> Ids]
    BY <1>5, <2>1, <2>2, BumpKeeps DEF HeapInv
  <2>5. {<<ty, i>>} \in Handles
    BY <2>1, <2>2, HandleIsHandle
  <2>6. QED
    BY <1>2, <1>5, <2>3, <2>4, <2>5, AnswerSafe
<1>6. QED
  BY <1>1, <1>3, <1>4, <1>5 DEF Continue

LEMMA PollSafe == ASSUME LoopInv, HeapInv, HttpTypeOK, HttpServerPollRequest PROVE Safe
<1>0. Attending
  BY ServingAttends DEF HttpServerPollRequest
<1>1. CASE Returns \/ Rejects
  BY <1>0, <1>1, ReturnsKeeps, RejectsKeeps, KeptIsSafe
<1>2. CASE ~(Returns \/ Rejects)
  <2>1. PICK s \in Ids : s = Arg(1)
    BY <1>2, HeapIsTyped, Words DEF HttpServerPollRequest, Has
  <2> DEFINE q == server[s].queue
  <2>2. /\ q # <<>>
        /\ Grants({<<"request", Head(q).rid>>, <<"serverRequestBody", Head(q).body>>})
        /\ UNCHANGED <<heapVars, wait>>
    BY <1>2, <2>1 DEF HttpServerPollRequest
  <2>3. q \in Seq(QueueRecords)
    BY DEF HttpTypeOK, ServerRecords
  <2> HIDE DEF q
  <2>4. Head(q) \in QueueRecords
    BY <2>2, <2>3
  <2>5. Head(q).rid \in Nat /\ Head(q).body \in Nat
    BY <2>4, IdSpaceAssumption DEF QueueRecords, Ids
  <2>6. {<<"request", Head(q).rid>>, <<"serverRequestBody", Head(q).body>>} \in Handles
    BY <2>5, Words DEF Handles
  <2>7. UNCHANGED <<nodes, promises, retired, objects, sets, nextId>> /\ wait' = NoWait
    BY <1>0, <2>2 DEF heapVars, Attending
  <2>8. QED
    BY <1>0, <2>2, <2>6, <2>7, HeapIsTyped, AnswerSafe DEF Attending
<1>3. QED
  BY <1>1, <1>2

LEMMA RespondSafe ==
    ASSUME LoopInv, HeapInv,
           \/ HttpServerRespond \/ HttpServerRespondWebSocket \/ HttpServerRespondStartStreaming
    PROVE  Safe
<1>0. Attending
  BY ServingAttends DEF HttpServerRespond, HttpServerRespondWebSocket,
     HttpServerRespondStartStreaming
<1>1. Returns \/ Rejects \/ Pump
  BY DEF HttpServerRespond, HttpServerRespondWebSocket, HttpServerRespondStartStreaming
<1>2. QED
  BY <1>0, <1>1, ReturnsKeeps, RejectsKeeps, PumpSafe, KeptIsSafe

\* The promises that go with a server are broken in place.
LEMMA BrokenTyped ==
    ASSUME HeapTypeOK, NEW S, nodes' = Broken(S)
    PROVE  Grown /\ Nodes' = Nodes
<1>1. nodes \in Seq(NodeRecords) /\ Len(nodes) \in Nat /\ Nodes = 1..Len(nodes)
  BY DEF HeapTypeOK, NodesTypeOK, Nodes
<1>2. \A n \in Nodes : nodes[n] \in NodeRecords
  BY <1>1
<1>3. \A n \in Nodes : [nodes[n] EXCEPT !.st = "err"] \in NodeRecords
  BY <1>2 DEF NodeRecords
<1>4. /\ nodes' = [n \in 1..Len(nodes) |-> nodes'[n]]
      /\ \A n \in Nodes : nodes'[n] \in {nodes[n], [nodes[n] EXCEPT !.st = "err"]}
  BY <1>1 DEF Broken
<1>5. /\ Nodes' = Nodes /\ \A n \in Nodes : nodes'[n] \in NodeRecords
  BY <1>1, <1>2, <1>3, <1>4 DEF Nodes
<1>6. nodes' \in Seq(NodeRecords)
  BY <1>1, <1>4, <1>5
<1>7. \A n \in Nodes : nodes'[n].root = nodes[n].root /\ nodes'[n].parts = nodes[n].parts
  BY <1>2, <1>4 DEF NodeRecords
<1>8. QED
  BY <1>5, <1>6, <1>7 DEF Grown, HeapTypeOK, NodesTypeOK

LEMMA ServerReleaseSafe == ASSUME LoopInv, HeapInv, HttpTypeOK, HttpServerRelease PROVE Safe
<1>0. Attending
  BY ServingAttends DEF HttpServerRelease
<1>1. CASE Rejects
  BY <1>0, <1>1, RejectsKeeps, KeptIsSafe
<1>2. CASE ~Rejects
  <2>1. PICK s \in Ids : s = Arg(1)
    BY <1>2, HeapIsTyped, Words DEF HttpServerRelease, Has
  <2>2. /\ nodes' = Broken({s})
        /\ promises' = [promises EXCEPT !["void"] =
                           [i \in Ids |-> IF i \in ListenIds({s}) THEN 0 ELSE @[i]]]
        /\ retired' = retired \cup {i \in ListenIds({s}) : promises["void"][i] # 0}
        /\ objects' = [WithoutBodies(OfServer(s)) EXCEPT !["server"] = @ \ {s}]
        /\ Succeeds
        /\ UNCHANGED <<sets, nextId, wait>>
    BY <1>2, <2>1 DEF HttpServerRelease
  <2>3. ListenIds({s}) \subseteq Ids
    BY <2>1 DEF ListenIds, HttpTypeOK, ServerRecords
  <2>4. Grown /\ Nodes' = Nodes
    BY <2>2, BrokenTyped DEF HeapInv
  <2>5. LoopStep /\ cur' = 0
    BY <1>0, <2>2, SucceedsGrants, AnswerIsStep DEF Attending
  <2>6. \A ty \in PromiseTypes : \A i \in Ids :
           promises'[ty][i] = IF ty = "void" /\ i \in ListenIds({s}) THEN 0 ELSE promises[ty][i]
    BY <2>2, Words DEF HeapInv, HeapTypeOK
  <2>7. promises' \in [PromiseTypes -> [Ids -> {0} \cup Nodes]]
    BY <2>2, Words DEF HeapInv, HeapTypeOK
  <2>8. wait' = NoWait /\ wait'.node = 0 /\ wait' \in [node : {0} \cup Nodes, how : Hows]
    BY <1>0, <2>2 DEF Attending, NoWait, Hows
  <2>9. objects' \in [ObjectTypes -> SUBSET Ids]
    <3>1. WithoutBodies(OfServer(s)) \in [ObjectTypes -> SUBSET Ids]
      BY WithoutBodiesTyped
    <3>2. QED
      BY <2>2, <3>1
  <2>10. retired' \in SUBSET Ids
    BY <2>2, <2>3 DEF HeapInv, HeapTypeOK
  <2>11. HeapTypeOK'
    BY <2>2, <2>4, <2>7, <2>8, <2>9, <2>10 DEF HeapInv, HeapTypeOK, Grown
  <2>12. Single' /\ Roots'
    <3>1. \A ty \in PromiseTypes : \A i \in Ids : promises'[ty][i] \in {0, promises[ty][i]}
      BY <2>6
    <3>2. \A t \in Ids : sets'[t].tasks \subseteq sets[t].tasks
      BY <2>2
    <3>3. QED
      BY <2>4, <2>8, <3>1, <3>2, LessIsSingle
  <2>13. RetiredIsGone'
    BY <2>2, <2>3, <2>6, <2>10, Words DEF HeapInv, HeapTypeOK, RetiredIsGone
  <2>14. QED
    BY <2>5, <2>11, <2>12, <2>13 DEF Safe, HeapInv
<1>3. QED
  BY <1>1, <1>2

-----------------------------------------------------------------------------
(* What the operations that know nothing of servers leave alone.           *)

\* No promise of listenHttp is entered or moved.
ListenFrame ==
    \A i \in Ids : LET n == promises'["void"][i] IN
       n # 0 /\ nodes'[n].kind = "listen" =>
          promises["void"][i] = n /\ nodes[n].kind = "listen" /\ nodes'[n].on = nodes[n].on

\* Servers and bodies of answers stay, bodies of requests only go, sockets only come.
ObjectsFrame ==
    /\ objects'["server"] = objects["server"]
    /\ objects'["serverRequestBody"] \subseteq objects["serverRequestBody"]
    /\ objects'["serverResponseBody"] = objects["serverResponseBody"]
    /\ objects["webSocket"] \subseteq objects'["webSocket"]

Frame == ListenFrame /\ ObjectsFrame

LEMMA SameObjects == UNCHANGED objects => ObjectsFrame
BY DEF ObjectsFrame

LEMMA FrameFromParts ==
    ASSUME HeapInv,
           \A n \in Nodes : /\ nodes'[n].kind = nodes[n].kind
                            /\ nodes[n].kind = "listen" => nodes'[n].on = nodes[n].on,
           \A i \in Ids : LET n == promises'["void"][i] IN
              n = 0 \/ n = promises["void"][i] \/ nodes'[n].kind # "listen"
    PROVE  ListenFrame
<1>1. \A i \in Ids : promises["void"][i] # 0 => promises["void"][i] \in Nodes
  BY Words DEF HeapInv, HeapTypeOK
<1>2. QED
  BY <1>1 DEF ListenFrame

LEMMA SameFrame ==
    ASSUME UNCHANGED <<nodes, promises>>
    PROVE  ListenFrame
BY DEF ListenFrame

LEMMA HeapSameFrame == UNCHANGED heapVars => Frame
<1>1. UNCHANGED heapVars => UNCHANGED <<nodes, promises, objects>>
  BY DEF heapVars
<1>2. QED
  BY <1>1, SameFrame, SameObjects DEF Frame

LEMMA AnswerFrame == Rejects \/ Returns => Frame
<1>1. Rejects \/ Returns => UNCHANGED heapVars
  BY DEF Rejects, Returns
<1>2. QED
  BY <1>1, HeapSameFrame

\* A new promise of another kind.
LEMMA LeafFrame ==
    ASSUME HeapInv, NEW kind \in Kinds \ {"listen"}, NEW on \in Abouts, NewLeaf(kind, on),
           \A i \in Ids : promises'["void"][i] \in {0, promises["void"][i], NewNode}
    PROVE  ListenFrame
<1>1. nodes \in Seq(NodeRecords) /\ Len(nodes) \in Nat /\ Nodes = 1..Len(nodes)
  BY DEF HeapInv, HeapTypeOK, NodesTypeOK, Nodes
<1> DEFINE leaf == Leaf(kind, on)
<1>2. leaf.kind # "listen"
  BY DEF Leaf
<1> HIDE DEF leaf
<1>3. nodes' = Append(nodes, leaf)
  BY DEF NewLeaf, leaf
<1>4. nodes'[NewNode] = leaf /\ \A n \in Nodes : nodes'[n] = nodes[n]
  BY <1>1, <1>3 DEF NewNode
<1> HIDE DEF NewNode
<1>5. QED
  BY <1>2, <1>4, FrameFromParts

LEMMA StartFrame ==
    ASSUME Attending, NEW ty \in PromiseTypes, NEW kind \in Kinds \ {"listen"}, NEW on \in Abouts,
           Start(ty, kind, on)
    PROVE  Frame
<1> DEFINE i == FreshFrom(nextId[ty], Busy(ty))
<1>1. /\ NewLeaf(kind, on) /\ promises' = [promises EXCEPT ![ty][i] = NewNode]
      /\ UNCHANGED objects
  BY DEF Start, AddPromise, NewNode
<1> HIDE DEF i, NewNode
<1>2. \A j \in Ids : promises'["void"][j] \in {0, promises["void"][j], NewNode}
  BY <1>1, Words DEF Attending, HeapInv, HeapTypeOK
<1>3. QED
  BY <1>1, <1>2, LeafFrame, SameObjects DEF Frame, Attending

LEMMA WaitFrame ==
    ASSUME Attending, NEW ty, NEW kind \in Kinds \ {"listen"}, NEW on \in Abouts, NEW how,
           StartAndAwait(ty, kind, on, how) \/ WaitFor(kind, on, how)
    PROVE  Frame
<1>1. NewLeaf(kind, on) /\ UNCHANGED <<promises, objects>>
  BY DEF StartAndAwait, WaitFor
<1>2. QED
  BY <1>1, LeafFrame, SameObjects DEF Frame, Attending

LEMMA IdFrame ==
    ASSUME Attending, NEW ty \in PromiseTypes, NEW how,
           AwaitId(ty, how) \/ CancelId(ty) \/ ReleaseId(ty)
    PROVE  Frame
<1>1. CASE UnknownPromise(ty)
  BY <1>1, AnswerFrame DEF UnknownPromise
<1>2. CASE Take(ty)
  <2>1. UNCHANGED <<nodes, objects>>
    BY <1>2 DEF Take
  <2>2. \A j \in Ids : promises'["void"][j] \in {0, promises["void"][j]}
    BY <1>2, TakeTyped, Words DEF Attending
  <2>3. QED
    BY <2>1, <2>2, FrameFromParts, SameObjects DEF Frame, Attending
<1>3. CASE Arg(1) \in Busy(ty) /\ CancelId(ty)
  <2>1. PICK n \in Nodes : n = promises[ty][Arg(1)]
    BY <1>3 DEF Busy, Attending, HeapInv, HeapTypeOK
  <2>2. /\ nodes' = nodes \/ nodes' = [nodes EXCEPT ![n].st = "err"]
        /\ UNCHANGED <<promises, objects>>
    BY <1>3, <2>1 DEF CancelId, UnknownPromise
  <2>3. \A m \in Nodes : nodes'[m].kind = nodes[m].kind /\ nodes'[m].on = nodes[m].on
    <3>1. \A m \in Nodes : nodes[m] \in NodeRecords
      BY DEF Attending, HeapInv, HeapTypeOK, NodesTypeOK, Nodes
    <3>2. QED
      BY <2>2, <3>1 DEF NodeRecords, Nodes
  <2>4. QED
    BY <2>2, <2>3, FrameFromParts, SameObjects DEF Frame, Attending
<1>4. QED
  BY <1>1, <1>2, <1>3 DEF AwaitId, CancelId, ReleaseId

LEMMA CombineFrame ==
    ASSUME Attending, NEW kind \in Kinds \ {"listen"}, Combine(kind)
    PROVE  Frame
<1> USE DEF Attending
<1> DEFINE i == FreshFrom(nextId["void"], {j \in Ids : WithoutTaken[j] # 0})
<1>1. UNCHANGED objects
  BY DEF Combine
<1>2. \A j \in Ids : WithoutTaken[j] \in {0, promises["void"][j]}
  BY DEF WithoutTaken
<1>3. CASE promises' = [promises EXCEPT !["void"] = WithoutTaken] /\ UNCHANGED nodes
  <2>1. promises'["void"] = WithoutTaken
    BY <1>3, Words DEF HeapInv, HeapTypeOK
  <2>2. QED
    BY <1>1, <1>2, <1>3, <2>1, FrameFromParts, SameObjects DEF Frame
<1>4. CASE /\ \A k \in DOMAIN Named : ~Missing(k)
           /\ nodes' = Joined(kind)
           /\ promises' = [promises EXCEPT !["void"] = [WithoutTaken EXCEPT ![i] = NewNode]]
  <2> HIDE DEF i
  <2>1. promises'["void"] = [WithoutTaken EXCEPT ![i] = NewNode]
    BY <1>4, Words DEF HeapInv, HeapTypeOK
  <2>2. \A j \in Ids : promises'["void"][j] \in {0, promises["void"][j], NewNode}
    <3> HIDE DEF NewNode
    <3>1. DOMAIN WithoutTaken = Ids
      BY DEF WithoutTaken
    <3>2. QED
      BY <1>2, <2>1, <3>1
  <2>3. /\ nodes'[NewNode].kind = kind
        /\ \A m \in Nodes : nodes'[m].kind = nodes[m].kind /\ nodes'[m].on = nodes[m].on
    BY <1>4, JoinedTyped DEF JoinedUp
  <2> HIDE DEF NewNode
  <2>4. QED
    BY <1>1, <2>2, <2>3, FrameFromParts, SameObjects DEF Frame
<1>5. QED
  BY <1>3, <1>4 DEF Combine, NewNode

\* No task sets are made here, and what the thread pumps the loop for is the promise of a
\* completion, which nothing settles.
NoTaskSets == \A s \in Ids : sets[s].tasks = {}
PumpsFor(n) == n \in Nodes /\ nodes[n].kind = "completion" /\ nodes[n].st = "pending"
PumpInv    == NoTaskSets /\ (wait.how = "pump" => PumpsFor(wait.node))

\* Only an exchange ends its pump.
PumpFrame == PumpInv => PumpInv' /\ (wait.how = "pump" => wait'.how = "pump")

\* No pump is on, and none begins.
LEMMA NoPumpFrame ==
    ASSUME UNCHANGED sets, wait'.how # "pump",
           \/ wait.how # "pump"
           \/ Settled
    PROVE  PumpFrame
<1>1. NoTaskSets => NoTaskSets'
  BY DEF NoTaskSets
<1>2. Settled => ~PumpsFor(wait.node)
  BY DEF Settled, PumpsFor, Pending
<1>3. QED
  BY <1>1, <1>2 DEF PumpFrame, PumpInv

LEMMA ServedFrame ==
    ASSUME Attending, UNCHANGED sets, wait' = wait \/ wait'.how # "pump"
    PROVE  PumpFrame
<1>1. wait.how # "pump"
  BY DEF Attending, NoWait
<1>2. QED
  BY <1>1, NoPumpFrame

\* A pump goes on when what it waits for is left alone.
LEMMA PumpGoesOn ==
    ASSUME UNCHANGED <<sets, wait>>,
           \A n \in Nodes : nodes[n].kind = "completion" =>
              n \in Nodes' /\ nodes'[n].kind = "completion" /\ nodes'[n].st = nodes[n].st
    PROVE  PumpFrame
<1>1. NoTaskSets => NoTaskSets'
  BY DEF NoTaskSets
<1>2. \A n : PumpsFor(n) => PumpsFor(n)'
  BY DEF PumpsFor
<1>3. QED
  BY <1>1, <1>2 DEF PumpFrame, PumpInv

LEMMA SamePump == ASSUME UNCHANGED <<nodes, sets, wait>> PROVE PumpFrame
BY PumpGoesOn DEF Nodes

Calm == Safe /\ Frame /\ PumpFrame

LEMMA AnswerCalm == ASSUME Attending, Rejects \/ Returns PROVE Calm
<1>1. PumpFrame
  BY SamePump DEF Rejects, Returns, heapVars
<1>2. QED
  BY <1>1, RejectsKeeps, ReturnsKeeps, KeptIsSafe, AnswerFrame DEF Calm

LEMMA StartCalm ==
    ASSUME Attending, NEW ty \in PromiseTypes, NEW kind \in Kinds \ {"listen"}, NEW on \in Abouts,
           NEW how \in Hows \ {"pump"},
           Start(ty, kind, on) \/ StartAndAwait(ty, kind, on, how) \/ WaitFor(kind, on, how)
    PROVE  Calm
<1>1. Kept
  BY StartKeeps, StartAndAwaitKeeps, WaitForKeeps
<1>2. Frame
  BY StartFrame, WaitFrame
<1>3. PumpFrame
  BY ServedFrame DEF Start, StartAndAwait, WaitFor
<1>4. QED
  BY <1>1, <1>2, <1>3, KeptIsSafe DEF Calm

LEMMA IdCalm ==
    ASSUME Attending, NEW ty \in PromiseTypes, NEW how \in Hows \ {"pump"},
           AwaitId(ty, how) \/ CancelId(ty) \/ ReleaseId(ty)
    PROVE  Calm
<1>1. PumpFrame
  BY ServedFrame DEF AwaitId, CancelId, ReleaseId, Take, UnknownPromise, Returns, Rejects, heapVars
<1>2. QED
  BY <1>1, AwaitIdKeeps, CancelIdKeeps, ReleaseIdKeeps, KeptIsSafe, IdFrame DEF Calm

LEMMA CombineCalm == ASSUME Attending, NEW kind \in Kinds \ {"listen"}, Combine(kind) PROVE Calm
<1>1. PumpFrame
  BY ServedFrame DEF Combine
<1>2. QED
  BY <1>1, CombineKeeps, KeptIsSafe, CombineFrame DEF Calm

LEMMA EraseCalm ==
    ASSUME Attending, NEW ty \in ObjectTypes \ {"server", "webSocket", "serverResponseBody"},
           Erase(ty)
    PROVE  Calm
<1>1. Safe
  BY EraseKeeps, KeptIsSafe
<1>2. CASE Has(ty, Arg(1))
  <2>1. /\ objects' = [objects EXCEPT ![ty] = @ \ {Arg(1)}]
        /\ UNCHANGED <<nodes, promises, sets, wait>>
    BY <1>2 DEF Erase, Needs
  <2>2. ObjectsFrame
    BY <2>1, HeapIsTyped, Words DEF ObjectsFrame, Attending
  <2>3. QED
    BY <1>1, <2>1, <2>2, SameFrame, SamePump DEF Calm, Frame
<1>3. QED
  BY <1>2, AnswerCalm DEF Erase, Needs

\* The shapes of the operations on a body.
LEMMA BodyCalm ==
    ASSUME Attending, NEW ty \in ObjectTypes,
           WritesStart(ty) \/ Writes(ty) \/ ReadsStart(ty) \/ Reads(ty)
    PROVE  Calm
<1>0. PICK kind \in Kinds \ {"listen"} : kind = Kind
  BY Words DEF Kind
<1>1. CASE Rejects
  BY <1>1, AnswerCalm
<1>2. CASE ~Rejects
  <2>1. /\ Has(ty, Arg(1))
        /\ \/ Start("void", kind, <<ty, Arg(1)>>) \/ Start("bytes", kind, <<ty, Arg(1)>>)
           \/ StartAndAwait("void", kind, <<ty, Arg(1)>>, "value")
           \/ StartAndAwait("bytes", kind, <<ty, Arg(1)>>, "value")
    BY <1>0, <1>2 DEF WritesStart, Writes, ReadsStart, Reads, Needs
  <2>2. <<ty, Arg(1)>> \in Abouts
    BY <2>1, KnownIsAbout DEF Attending
  <2>3. QED
    BY <2>1, <2>2, StartCalm, Words
<1>3. QED
  BY <1>1, <1>2

\* The promise of a body that is finished.
LEMMA ReadyFrame ==
    ASSUME Attending, ReadyPromise \/ AwaitReady
    PROVE  ListenFrame /\ PumpFrame
<1>1. NewLeaf("sure", Nothing)
  BY DEF ReadyPromise, AwaitReady
<1>2. \A j \in Ids : promises'["void"][j] \in {0, promises["void"][j], NewNode}
  <2> DEFINE i == FreshFrom(nextId["void"], Busy("void"))
  <2>1. promises' = promises \/ promises' = [promises EXCEPT !["void"][i] = NewNode]
    BY DEF ReadyPromise, AwaitReady, AddPromise, NewNode
  <2> HIDE DEF i, NewNode
  <2>2. QED
    BY <2>1, Words DEF Attending, HeapInv, HeapTypeOK
<1>3. ListenFrame
  BY <1>1, <1>2, LeafFrame, Words, NothingIsAbout DEF Attending
<1>4. PumpFrame
  BY ServedFrame DEF ReadyPromise, AwaitReady
<1>5. QED
  BY <1>3, <1>4

LEMMA FinishCalm ==
    ASSUME Attending, NEW ty \in ObjectTypes \ {"server", "webSocket", "serverResponseBody"},
           Gives(ty), ReadyPromise \/ AwaitReady
    PROVE  Calm
<1>1. Safe
  BY FinishSafe
<1>2. ObjectsFrame
  BY HeapIsTyped, Words DEF ObjectsFrame, Attending, Gives
<1>3. QED
  BY <1>1, <1>2, ReadyFrame DEF Calm, Frame

LEMMA RunPromisesCalm == ASSUME LoopInv, HeapInv, RunPromises PROVE Calm
<1>0. Attending
  BY ServingAttends DEF RunPromises, SleepNanos, AwaitPromise, CancelPromise, ReleasePromise,
     PromiseThenStart, PromiseCatchStart
<1>1. CASE SleepNanos
  BY <1>0, <1>1, StartCalm, Words, NothingIsAbout DEF SleepNanos
<1>2. CASE AwaitPromise \/ CancelPromise \/ ReleasePromise
  BY <1>0, <1>2, IdCalm, Words DEF AwaitPromise, CancelPromise, ReleasePromise
<1>3. CASE PromiseThenStart \/ PromiseCatchStart
  BY <1>0, <1>3, CombineCalm, Words DEF PromiseThenStart, PromiseCatchStart
<1>4. QED
  BY <1>1, <1>2, <1>3 DEF RunPromises

LEMMA RunConnectionsCalm == ASSUME LoopInv, HeapInv, RunConnections PROVE Calm
<1>0. Attending
  BY ServingAttends DEF RunConnections, ConnectionWrite, ConnectionWriteStart, ConnectionRead,
     ConnectionReadStart, AwaitBytesPromise, CancelBytesPromise, ReleaseBytesPromise,
     ConnectionShutdownWrite, ConnectionShutdownWriteStart
<1>1. CASE AwaitBytesPromise \/ CancelBytesPromise \/ ReleaseBytesPromise
  BY <1>0, <1>1, IdCalm, Words DEF AwaitBytesPromise, CancelBytesPromise, ReleaseBytesPromise
<1>2. CASE Rejects \/ Returns
  BY <1>0, <1>2, AnswerCalm
<1>3. CASE ~(AwaitBytesPromise \/ CancelBytesPromise \/ ReleaseBytesPromise \/ Rejects \/ Returns)
  <2>0. PICK kind \in Kinds \ {"listen"} : kind = Kind
    BY Words DEF Kind
  <2>1. /\ Has("connection", Arg(1))
        /\ \/ Start("void", kind, Here) \/ StartAndAwait("void", kind, Here, "value")
           \/ Start("bytes", kind, Here) \/ StartAndAwait("bytes", kind, Here, "value")
           \/ Start("void", "sure", Here)
    BY <1>3, <2>0 DEF RunConnections, ConnectionWrite, ConnectionWriteStart, ConnectionRead,
       ConnectionReadStart, ConnectionShutdownWrite, ConnectionShutdownWriteStart, Needs
  <2>2. Here \in Abouts
    BY <2>1, KnownIsAbout, Words DEF Here
  <2>3. QED
    BY <1>0, <2>1, <2>2, StartCalm, Words
<1>4. QED
  BY <1>1, <1>2, <1>3

LEMMA RunHttpClientCalm == ASSUME LoopInv, HeapInv, RunHttpClient PROVE Calm
<1>0. Attending
  BY ServingAttends DEF RunHttpClient, HttpRequest, HttpRequestStart, HttpRequestStartStreaming,
     AwaitHttpResponsePromise, AwaitStreamingResponse, CancelHttpResponsePromise,
     ReleaseHttpResponsePromise
<1>1. CASE HttpRequest \/ HttpRequestStart
  BY <1>0, <1>1, StartCalm, AnswerCalm, Words, NothingIsAbout DEF HttpRequest, HttpRequestStart
<1>2. CASE HttpRequestStartStreaming
  <2>1. CASE Rejects
    BY <1>0, <2>1, AnswerCalm
  <2>2. CASE ~Rejects
    <3> DEFINE p == FreshFrom(nextId["resp"], Busy("resp"))
               b == FreshFrom(nextId["requestBody"], objects["requestBody"])
    <3>1. /\ NewLeaf("stream", Nothing)
          /\ promises' = [promises EXCEPT !["resp"][p] = NewNode]
          /\ objects' = objects \/ objects' = [objects EXCEPT !["requestBody"] = @ \cup {b}]
          /\ UNCHANGED <<sets, wait>>
      BY <1>2, <2>2 DEF HttpRequestStartStreaming, NewNode
    <3> HIDE DEF p, b, NewNode
    <3>2. \A j \in Ids : promises'["void"][j] \in {0, promises["void"][j], NewNode}
      BY <3>1, Words DEF HeapInv, HeapTypeOK
    <3>3. ListenFrame
      BY <3>1, <3>2, LeafFrame, Words, NothingIsAbout
    <3>4. ObjectsFrame
      BY <3>1, HeapIsTyped, Words DEF ObjectsFrame
    <3>5. QED
      BY <1>0, <1>2, <3>1, <3>3, <3>4, StreamingSafe, ServedFrame DEF Calm, Frame
  <2>3. QED
    BY <2>1, <2>2
<1>3. CASE \/ AwaitHttpResponsePromise \/ AwaitStreamingResponse \/ CancelHttpResponsePromise
           \/ ReleaseHttpResponsePromise
  BY <1>0, <1>3, IdCalm, Words DEF AwaitHttpResponsePromise, AwaitStreamingResponse,
     CancelHttpResponsePromise, ReleaseHttpResponsePromise
<1>4. QED
  BY <1>1, <1>2, <1>3 DEF RunHttpClient

LEMMA RunBodiesCalm == ASSUME LoopInv, HeapInv, RunBodies \/ RunServerBodies PROVE Calm
<1>0. Attending
  BY ServingAttends DEF RunBodies, RunServerBodies, HttpRequestBodyWriteStart,
     HttpRequestBodyWrite, HttpRequestBodyFinishStart, HttpRequestBodyFinish,
     HttpRequestBodyRelease, HttpResponseBodyReadStart, HttpResponseBodyRead,
     HttpResponseBodyRelease, HttpServerRequestBodyReadStart, HttpServerRequestBodyRead,
     HttpServerRequestBodyRelease
<1>1. CASE \/ HttpRequestBodyWriteStart \/ HttpRequestBodyWrite \/ HttpResponseBodyReadStart
           \/ HttpResponseBodyRead \/ HttpServerRequestBodyReadStart \/ HttpServerRequestBodyRead
  BY <1>0, <1>1, BodyCalm, Words DEF HttpRequestBodyWriteStart, HttpRequestBodyWrite,
     HttpResponseBodyReadStart, HttpResponseBodyRead, HttpServerRequestBodyReadStart,
     HttpServerRequestBodyRead
<1>2. CASE HttpRequestBodyFinishStart \/ HttpRequestBodyFinish
  BY <1>0, <1>2, FinishCalm, AnswerCalm, Words
     DEF HttpRequestBodyFinishStart, HttpRequestBodyFinish, Needs
<1>3. CASE HttpRequestBodyRelease \/ HttpResponseBodyRelease \/ HttpServerRequestBodyRelease
  BY <1>0, <1>3, EraseCalm, Words
     DEF HttpRequestBodyRelease, HttpResponseBodyRelease, HttpServerRequestBodyRelease
<1>4. QED
  BY <1>1, <1>2, <1>3 DEF RunBodies, RunServerBodies

LEMMA RunWebSocketsCalm ==
    ASSUME LoopInv, HeapInv,
           RunWebSockets \/ RunWebSocketSends \/ RunWebSocketReceives \/ RunWebSocketEnds
    PROVE  Calm
<1>0. Attending
  BY ServingAttends DEF RunWebSockets, RunWebSocketSends, RunWebSocketReceives,
     RunWebSocketEnds, WebSocketConnect, WebSocketConnectStart, AwaitWebSocketPromise,
     CancelWebSocketPromise, ReleaseWebSocketPromise, WebSocketSendTextStart,
     WebSocketSendText, WebSocketSendBinaryStart, WebSocketSendBinary, WebSocketReceiveStart,
     AwaitWebSocketMessagePromise, CancelWebSocketMessagePromise,
     ReleaseWebSocketMessagePromise, WebSocketReceive, WebSocketCloseStart, WebSocketClose,
     WebSocketDisconnect, WebSocketAbort, NewWebSocketPipe
<1>1. CASE WebSocketConnect \/ WebSocketConnectStart
  BY <1>0, <1>1, StartCalm, AnswerCalm, Words, NothingIsAbout
     DEF WebSocketConnect, WebSocketConnectStart
<1>2. CASE \/ AwaitWebSocketPromise \/ CancelWebSocketPromise \/ ReleaseWebSocketPromise
           \/ AwaitWebSocketMessagePromise \/ CancelWebSocketMessagePromise
           \/ ReleaseWebSocketMessagePromise
  BY <1>0, <1>2, IdCalm, Words DEF AwaitWebSocketPromise, CancelWebSocketPromise,
     ReleaseWebSocketPromise, AwaitWebSocketMessagePromise, CancelWebSocketMessagePromise,
     ReleaseWebSocketMessagePromise
<1>3. CASE \/ RunWebSocketSends \/ WebSocketReceiveStart \/ WebSocketReceive
           \/ WebSocketCloseStart \/ WebSocketClose \/ WebSocketDisconnect \/ WebSocketAbort
  <2>1. \/ Rejects \/ Returns
        \/ /\ Has("webSocket", Arg(1))
           /\ \/ Start("void", "io", Socket) \/ Start("msg", "io", Socket)
              \/ WaitFor("io", Socket, "value")
              \/ StartAndAwait("msg", "io", Socket, "value")
              \/ StartAndAwait("void", "io", Socket, "value")
    BY <1>3 DEF RunWebSocketSends, WebSocketSendTextStart, WebSocketSendText,
       WebSocketSendBinaryStart, WebSocketSendBinary, WebSocketReceiveStart, WebSocketReceive,
       WebSocketCloseStart, WebSocketClose, WebSocketDisconnect, WebSocketAbort,
       SocketStart, SocketWait, Needs
  <2>2. CASE Rejects \/ Returns
    BY <1>0, <2>2, AnswerCalm
  <2>3. CASE Has("webSocket", Arg(1)) /\ ~(Rejects \/ Returns)
    <3>1. Socket \in Abouts
      BY <2>3, KnownIsAbout, Words DEF Socket
    <3>2. QED
      BY <1>0, <2>1, <2>3, <3>1, StartCalm, Words
  <2>4. QED
    BY <2>1, <2>2, <2>3
<1>4. CASE NewWebSocketPipe
  <2>1. AddPair("webSocket")
    BY <1>4 DEF NewWebSocketPipe
  <2>2. Safe
    BY <1>0, <2>1, AddPairKeeps, Words, KeptIsSafe
  <2>3. /\ UNCHANGED <<nodes, promises, sets, wait>>
        /\ \E S : objects' = [objects EXCEPT !["webSocket"] = @ \cup S]
    BY <2>1 DEF AddPair
  <2>4. ObjectsFrame
    BY <2>3, HeapIsTyped, Words DEF ObjectsFrame
  <2>5. QED
    BY <2>2, <2>3, <2>4, SameFrame, SamePump DEF Calm, Frame
<1>5. QED
  BY <1>1, <1>2, <1>3, <1>4 DEF RunWebSockets, RunWebSocketReceives, RunWebSocketEnds

LEMMA PerformCalm == ASSUME LoopInv, HeapInv, Perform PROVE Calm /\ UNCHANGED httpVars
<1>1. CASE HttpServerListen
  <2>1. Attending
    BY <1>1, ServingAttends DEF HttpServerListen
  <2>2. Calm
    BY <1>1, <2>1, StartCalm, Words, NothingIsAbout DEF HttpServerListen
  <2>3. QED
    BY <2>2 DEF Perform
<1>2. CASE HttpServerResponseBodyWriteStart \/ HttpServerResponseBodyWrite
  <2>1. Attending
    BY <1>2, ServingAttends DEF HttpServerResponseBodyWriteStart, HttpServerResponseBodyWrite
  <2>2. Calm
    BY <1>2, <2>1, BodyCalm, Words
       DEF HttpServerResponseBodyWriteStart, HttpServerResponseBodyWrite
  <2>3. QED
    BY <2>2 DEF Perform
<1>3. QED
  BY <1>1, <1>2, RunPromisesCalm, RunConnectionsCalm, RunHttpClientCalm, RunBodiesCalm,
     RunWebSocketsCalm DEF Perform

\* Callers, the release and the head of the loop.
LEMMA OutsideCalm ==
    ASSUME LoopInv, HeapInv,
           \/ \E c \in Calls : Clients(c)
           \/ Release \/ TakeNext \/ UNCHANGED vars
    PROVE  Calm /\ UNCHANGED httpVars
<1>1. CASE \E c \in Calls : CallX(c) /\ UNCHANGED httpVars
  <2>1. PICK c \in Calls : CallX(c) /\ UNCHANGED httpVars
    BY <1>1
  <2>2. \E requests : Enqueue(c, requests) /\ UNCHANGED <<heapVars, wait>>
    BY <2>1 DEF CallX, Submit, CallSleep, CallPromise, CallBytesPromise, CallTls,
       CallHttpRequest, CallHttpRequestHeaders, CallHttpRequestLimited, CallHttpRequestStart,
       CallHttpRequestStartHeaders, CallHttpRequestStartLimited, CallHttpStreaming,
       CallResponsePromise, CallResponseWithHeaders, CallStreamingAwait, CallRequestBody,
       CallResponseBody, CallServerRequestBody, CallWsConnect, CallWsPromise, CallWsRelease,
       CallWsSend, CallWsReceiveStart, CallWsMessage, CallWsReceive, CallWsClose, CallWsEnd,
       CallWsPipe, CallServerListen, CallServerEnd, CallPoll, CallRespond,
       CallRespondWebSocket, CallRespondStreaming, CallServerResponseBody
  <2>3. Kept /\ UNCHANGED heapVars
    BY <2>2, OutsideKeeps
  <2>4. PumpFrame
    BY <2>2, SamePump DEF heapVars
  <2>5. QED
    BY <2>1, <2>3, <2>4, KeptIsSafe, HeapSameFrame DEF Calm
<1>2. CASE ~\E c \in Calls : CallX(c) /\ UNCHANGED httpVars
  <2>1. /\ UNCHANGED <<heapVars, wait, httpVars>>
        /\ \/ \E c \in Calls : Begin(c)
           \/ Unregister \/ Shutdown \/ Join \/ Pop \/ UNCHANGED loopVars
    BY <1>2 DEF Clients, Release, TakeNext, vars
  <2>2. Kept
    BY <2>1, OutsideKeeps
  <2>3. PumpFrame
    BY <2>1, SamePump DEF heapVars
  <2>4. QED
    BY <2>1, <2>2, <2>3, KeptIsSafe, HeapSameFrame DEF Calm
<1>3. QED
  BY <1>1, <1>2

LEMMA ResumeCalm == ASSUME LoopInv, HeapInv, Resume \/ ResumeResponse PROVE Calm
<1>0. PumpFrame
  <2>1. Settled /\ wait' = NoWait /\ UNCHANGED sets
    BY DEF Resume, ResumeError, ResumeValue, ResumeObject, ResumeResponse, heapVars
  <2>2. QED
    BY <2>1, NoPumpFrame DEF NoWait
<1>1. CASE ResumeError \/ ResumeValue \/ ResumeResponse
  <2>1. UNCHANGED heapVars
    BY <1>1 DEF ResumeError, ResumeValue, ResumeResponse
  <2>2. Safe
    BY <1>1, ResumeKeeps, KeptIsSafe, ResumeResponseSafe DEF Resume
  <2>3. QED
    BY <1>0, <2>1, <2>2, HeapSameFrame DEF Calm
<1>2. CASE ResumeObject
  <2>1. wait.how \in Hows
    BY DEF HeapInv, HeapTypeOK
  <2>2. PICK ty \in {"listener", "address", "connection", "port", "webSocket"} :
           \E S : objects' = [objects EXCEPT ![ty] = @ \cup S]
    BY <1>2, <2>1 DEF ResumeObject, Becomes, AddObject, ObjectTypes, Hows
  <2>3. UNCHANGED <<nodes, promises>>
    BY <1>2 DEF ResumeObject
  <2>4. ObjectsFrame
    BY <2>2, HeapIsTyped, Words DEF ObjectsFrame
  <2>5. Safe
    BY <1>2, ResumeKeeps, KeptIsSafe DEF Resume
  <2>6. QED
    BY <1>0, <2>3, <2>4, <2>5, SameFrame DEF Calm, Frame
<1>3. QED
  BY <1>1, <1>2 DEF Resume

\* Settling changes no kind and, but for the body of a streamed response, nothing else.
LEMMA StatusFrame ==
    ASSUME HeapInv, NEW n \in Nodes, NEW o, nodes' = [nodes EXCEPT ![n].st = o],
           UNCHANGED <<promises, objects>>
    PROVE  Frame
<1>1. \A m \in Nodes : nodes[m] \in NodeRecords
  BY DEF HeapInv, HeapTypeOK, NodesTypeOK, Nodes
<1>2. \A m \in Nodes : nodes'[m].kind = nodes[m].kind /\ nodes'[m].on = nodes[m].on
  BY <1>1 DEF NodeRecords, Nodes
<1>3. QED
  BY <1>2, FrameFromParts, SameObjects DEF Frame

LEMMA SettleFrame ==
    ASSUME HeapInv, NEW n \in Nodes, NEW o, nodes[n].kind # "completion", SettleAs(n, o)
    PROVE  Frame /\ PumpFrame
<1>1. nodes' = [nodes EXCEPT ![n].st = o] /\ UNCHANGED <<promises, objects, sets, wait>>
  BY DEF SettleAs
<1>2. \A m \in Nodes : m # n => m \in Nodes' /\ nodes'[m] = nodes[m]
  BY <1>1 DEF Nodes
<1>3. QED
  BY <1>1, <1>2, StatusFrame, PumpGoesOn

LEMMA EventsCalm ==
    ASSUME LoopInv, HeapInv, SettleSure \/ SettlePeer \/ ReapTask \/ SettleDrain \/ SettleStream
    PROVE  Calm
<1>1. CASE SettleSure \/ SettlePeer
  <2>1. PICK n \in Nodes : \E o \in Outcomes(n) : SettleAs(n, o)
    BY <1>1 DEF SettleSure, SettlePeer, Nodes
  <2>2. nodes[n].kind # "completion"
    BY <2>1 DEF Outcomes
  <2>3. QED
    BY <1>1, <2>1, <2>2, EventsKeep, KeptIsSafe, SettleFrame DEF Calm
<1>2. CASE ReapTask
  <2>1. PICK s \in Ids :
           \/ nodes' = nodes
           \/ sets[s].empty # 0 /\ nodes' = [nodes EXCEPT ![sets[s].empty].st = "ok"]
    BY <1>2 DEF ReapTask, Fulfill
  <2>2. UNCHANGED <<promises, objects>> /\ (sets[s].empty # 0 => sets[s].empty \in Nodes)
    BY <1>2, SetIsRecord DEF ReapTask, SetRecords
  <2>3. Frame
    BY <2>1, <2>2, StatusFrame, SameFrame, SameObjects DEF Frame
  <2>4. PumpFrame
    BY <1>2 DEF ReapTask, PumpFrame, PumpInv, NoTaskSets
  <2>5. QED
    BY <1>2, <2>3, <2>4, EventsKeep, KeptIsSafe DEF Calm
<1>3. CASE SettleDrain
  <2>1. PICK n \in Nodes : nodes[n].kind # "completion" /\ SettleAs(n, "ok")
    BY <1>3 DEF SettleDrain, Drained
  <2>2. QED
    BY <2>1, SettleKeeps, KeptIsSafe, SettleFrame DEF Calm
<1>4. CASE SettleStream
  <2> DEFINE b == FreshFrom(nextId["responseBody"], objects["responseBody"])
  <2>1. PICK n \in Nodes :
           /\ nodes[n].kind = "stream"
           /\ \/ SettleAs(n, "err")
              \/ /\ nodes' = [nodes EXCEPT ![n].st = "ok", ![n].on = <<"responseBody", b>>]
                 /\ objects' = [objects EXCEPT !["responseBody"] = @ \cup {b}]
                 /\ UNCHANGED <<promises, sets, wait>>
    BY <1>4 DEF SettleStream
  <2>2. CASE SettleAs(n, "err")
    <3>1. nodes[n].kind # "completion"
      BY <2>1
    <3>2. QED
      BY <1>4, <2>2, <3>1, SettleStreamSafe, SettleFrame DEF Calm
  <2>3. CASE ~SettleAs(n, "err")
    <3> HIDE DEF b
    <3>1. \A m \in Nodes : nodes[m] \in NodeRecords
      BY DEF HeapInv, HeapTypeOK, NodesTypeOK, Nodes
    <3>2. \A m \in Nodes : /\ nodes'[m].kind = nodes[m].kind
                           /\ m # n => nodes'[m].on = nodes[m].on
      BY <2>1, <2>3, <3>1 DEF NodeRecords, Nodes
    <3>3. ListenFrame
      BY <2>1, <2>3, <3>2, FrameFromParts
    <3>4. ObjectsFrame
      BY <2>1, <2>3, HeapIsTyped, Words DEF ObjectsFrame
    <3>5. \A m \in Nodes : m # n => m \in Nodes' /\ nodes'[m] = nodes[m]
      BY <2>1, <2>3 DEF Nodes
    <3>6. PumpFrame
      BY <2>1, <2>3, <3>5, PumpGoesOn
    <3>7. QED
      BY <1>4, <3>3, <3>4, <3>6, SettleStreamSafe DEF Calm, Frame
  <2>4. QED
    BY <2>2, <2>3
<1>5. QED
  BY <1>1, <1>2, <1>3, <1>4

-----------------------------------------------------------------------------
(* Part 2.  The invariant of the exchanges.                                *)

\* A fulfiller is kept under the number of its exchange.
OwnNumber ==
    \A s, r \in Ids : LET e == server[s].pending[r] IN
       e # 0 => exchange[e].server = s /\ exchange[e].rid = r

\* An exchange streams into one body.
OneBody ==
    \A i, j \in objects["serverResponseBody"] :
       holder["serverResponseBody"][i] = holder["serverResponseBody"][j] => i = j

\* A socket that came from a server is one of an exchange that was upgraded.
SocketsBacked ==
    \A i \in Ids : LET e == holder["webSocket"][i] IN
       e # 0 => i \in objects["webSocket"] /\ Status(e) \in {"upgraded", "finishing", "gone"}

\* The server of an exchange lives as long as it.
LiveOnServer ==
    \A e \in Exchanges : Status(e) # "gone" => exchange[e].server \in objects["server"]

HttpInv == /\ HttpTypeOK /\ ToldHasAnswer /\ OwnNumber /\ AskedCanBeAnswered /\ LiveOnServer
           /\ BodiesBacked /\ OneBody /\ SocketsBacked /\ ServerOwnsListen

LEMMA HttpIsTyped ==
    HttpTypeOK => /\ \A s, r \in Ids : server[s].pending[r] \in {0} \cup Exchanges
                  /\ \A ty \in Held : \A i \in Ids : holder[ty][i] \in {0} \cup Exchanges
                  /\ \A e \in Exchanges : exchange[e].server \in Ids /\ exchange[e].rid \in Ids
                  /\ \A s \in Ids : server[s] \in ServerRecords
BY ExchangesAre DEF HttpTypeOK, ServerRecords, ExchangeRecords

LEMMA ServerReplaced ==
    ASSUME HttpTypeOK, NEW s \in Ids, NEW new \in ServerRecords, server' = [server EXCEPT ![s] = new]
    PROVE  /\ server' \in [Ids -> ServerRecords]
           /\ \A t \in Ids : server'[t] = IF t = s THEN new ELSE server[t]
BY DEF HttpTypeOK

\* The servers stay, and so does what they know of their promises.
LEMMA ListenStays ==
    ASSUME HeapInv, ServerOwnsListen, ListenFrame, objects'["server"] = objects["server"],
           \A s \in Ids : server'[s].listen = server[s].listen
    PROVE  ServerOwnsListen'
<1>1. ASSUME NEW i \in Ids \ {0}, promises'["void"][i] # 0,
             nodes'[promises'["void"][i]].kind = "listen"
      PROVE  /\ nodes'[promises'["void"][i]].on[2] \in objects'["server"]
             /\ server'[nodes'[promises'["void"][i]].on[2]].listen = i
  <2>1. PICK n : n = promises'["void"][i]
    OBVIOUS
  <2>2. promises["void"][i] = n /\ nodes[n].kind = "listen" /\ nodes'[n].on = nodes[n].on
    BY <1>1, <2>1 DEF ListenFrame
  <2>3. nodes[n].on[2] \in objects["server"] /\ server[nodes[n].on[2]].listen = i
    BY <1>1, <2>1, <2>2 DEF ServerOwnsListen
  <2>4. nodes[n].on[2] \in Ids
    BY <2>3, HeapIsTyped, Words
  <2>5. QED
    BY <2>1, <2>2, <2>3, <2>4
<1>2. QED
  BY <1>1 DEF ServerOwnsListen

\* The servers keep their fulfillers, and the exchanges are what they were.
LEMMA ServersOnly ==
    ASSUME HeapInv, HttpInv, Frame, UNCHANGED <<exchange, holder>>, tls' \in BOOLEAN,
           server' \in [Ids -> ServerRecords],
           \A s \in Ids : /\ server'[s].pending = server[s].pending
                          /\ server'[s].listen = server[s].listen
    PROVE  HttpInv'
<1> USE DEF HttpInv
<1>1. Exchanges' = Exchanges
  BY DEF Exchanges
<1>2. HttpTypeOK'
  BY <1>1 DEF HttpTypeOK, ServerRecords
<1>3. ToldHasAnswer' /\ OwnNumber'
  BY <1>1 DEF ToldHasAnswer, OwnNumber, Status
<1>4. AskedCanBeAnswered'
  BY <1>1, HttpIsTyped DEF AskedCanBeAnswered, Status, Frame, ObjectsFrame
<1>5. BodiesBacked' /\ OneBody'
  BY DEF BodiesBacked, OneBody, Status, Frame, ObjectsFrame
<1>6. SocketsBacked'
  BY DEF SocketsBacked, Status, Frame, ObjectsFrame
<1>7. ServerOwnsListen' /\ LiveOnServer'
  BY <1>1, ListenStays DEF Frame, ObjectsFrame, LiveOnServer, Status
<1>8. QED
  BY <1>2, <1>3, <1>4, <1>5, <1>6, <1>7

LEMMA CalmKeeps == ASSUME HeapInv, HttpInv, Frame, UNCHANGED httpVars PROVE HttpInv'
<1>1. UNCHANGED <<tls, server, exchange, holder>>
  BY DEF httpVars
<1>2. tls' \in BOOLEAN /\ server' \in [Ids -> ServerRecords]
  BY <1>1 DEF HttpInv, HttpTypeOK
<1>3. QED
  BY <1>1, <1>2, ServersOnly

LEMMA TlsKeeps == ASSUME LoopInv, HeapInv, HttpInv, RunTls PROVE Safe /\ HttpInv'
<1>0. Attending
  BY ServingAttends DEF RunTls, EnableTls, ConfigureTls
<1>1. /\ Returns \/ Rejects
      /\ tls' = TRUE \/ tls' = tls
      /\ UNCHANGED <<server, exchange, holder>>
  BY DEF RunTls, EnableTls, ConfigureTls
<1>2. Calm
  BY <1>0, <1>1, AnswerCalm
<1>3. tls' \in BOOLEAN /\ server' \in [Ids -> ServerRecords]
  BY <1>1 DEF HttpInv, HttpTypeOK
<1>4. QED
  BY <1>1, <1>2, <1>3, ServersOnly DEF Calm

LEMMA DrainKeeps ==
    ASSUME LoopInv, HeapInv, HttpInv, HttpServerDrainStart \/ HttpServerDrain
    PROVE  Safe /\ HttpInv'
<1>0. Attending
  BY ServingAttends DEF HttpServerDrainStart, HttpServerDrain
<1>1. UNCHANGED <<tls, exchange, holder>>
  BY DEF HttpServerDrainStart, HttpServerDrain
<1>2. PICK kind \in Kinds \ {"listen"} : kind = DrainKind
  BY Words DEF DrainKind
<1>3. CASE Rejects /\ UNCHANGED server
  <2>1. UNCHANGED httpVars
    BY <1>1, <1>3 DEF httpVars
  <2>2. QED
    BY <1>0, <1>3, <2>1, AnswerCalm, CalmKeeps DEF Calm
<1>4. CASE ~(Rejects /\ UNCHANGED server)
  <2>1. PICK s \in Ids : s = Arg(1) /\ Has("server", s)
    BY <1>4, HeapIsTyped, Words DEF HttpServerDrainStart, HttpServerDrain, Has
  <2>2. /\ server' = [server EXCEPT ![s].draining = TRUE]
        /\ \/ Start("void", kind, <<"server", Arg(1)>>)
           \/ StartAndAwait("void", kind, <<"server", Arg(1)>>, "value")
    BY <1>2, <1>4, <2>1 DEF HttpServerDrainStart, HttpServerDrain, Drains
  <2>3. <<"server", Arg(1)>> \in Abouts
    BY <2>1, KnownIsAbout, Words
  <2>4. Calm
    BY <1>0, <2>2, <2>3, StartCalm, Words
  <2>5. \A t \in Ids : server[t] \in ServerRecords
    BY HttpIsTyped DEF HttpInv
  <2>6. /\ server' \in [Ids -> ServerRecords]
        /\ \A t \in Ids : /\ server'[t].pending = server[t].pending
                          /\ server'[t].listen = server[t].listen
    <3> DEFINE new == [server[s] EXCEPT !.draining = TRUE]
    <3>0. PICK old \in ServerRecords : old = server[s]
      BY <2>5
    <3>1. /\ new \in ServerRecords
          /\ new.pending = server[s].pending /\ new.listen = server[s].listen
      BY <3>0 DEF ServerRecords
    <3>2. server' = [server EXCEPT ![s] = new]
      BY <2>2 DEF HttpInv, HttpTypeOK
    <3> HIDE DEF new
    <3>3. QED
      BY <3>1, <3>2, ServerReplaced DEF HttpInv
  <2>7. tls' \in BOOLEAN
    BY <1>1 DEF HttpInv, HttpTypeOK
  <2>8. QED
    BY <1>1, <2>4, <2>6, <2>7, ServersOnly DEF Calm
<1>5. QED
  BY <1>3, <1>4

LEMMA PollKeeps ==
    ASSUME LoopInv, HeapInv, HttpInv, HttpServerPollRequest
    PROVE  Safe /\ HttpInv'
<1>0. Attending
  BY ServingAttends DEF HttpServerPollRequest
<1>1. UNCHANGED heapVars /\ UNCHANGED <<tls, exchange, holder>>
  BY DEF HttpServerPollRequest, Returns, Rejects
<1>2. CASE UNCHANGED server
  BY <1>1, <1>2, PollSafe, HeapSameFrame, CalmKeeps DEF httpVars, HttpInv
<1>3. CASE ~UNCHANGED server
  <2>1. PICK s \in Ids : s = Arg(1)
    BY <1>3, HeapIsTyped, Words DEF HttpServerPollRequest, Has
  <2>2. server[s].queue # <<>> /\ server' = [server EXCEPT ![s].queue = Tail(@)]
    BY <1>3, <2>1 DEF HttpServerPollRequest
  <2>3. \A t \in Ids : server[t] \in ServerRecords
    BY HttpIsTyped DEF HttpInv
  <2>4. Tail(server[s].queue) \in Seq(QueueRecords)
    <3>1. server[s].queue \in Seq(QueueRecords)
      BY <2>3 DEF ServerRecords
    <3>2. QED
      BY <2>2, <3>1
  <2>5. /\ server' \in [Ids -> ServerRecords]
        /\ \A t \in Ids : /\ server'[t].pending = server[t].pending
                          /\ server'[t].listen = server[t].listen
    <3> DEFINE new == [server[s] EXCEPT !.queue = Tail(@)]
    <3>0. PICK old \in ServerRecords : old = server[s]
      BY <2>3
    <3>1. /\ new \in ServerRecords
          /\ new.pending = server[s].pending /\ new.listen = server[s].listen
      BY <3>0, <2>4 DEF ServerRecords
    <3>2. server' = [server EXCEPT ![s] = new]
      BY <2>2 DEF HttpInv, HttpTypeOK
    <3> HIDE DEF new
    <3>3. QED
      BY <3>1, <3>2, ServerReplaced DEF HttpInv
  <2>6. tls' \in BOOLEAN
    BY <1>1 DEF HttpInv, HttpTypeOK
  <2>7. QED
    BY <1>1, <2>5, <2>6, PollSafe, HeapSameFrame, ServersOnly DEF HttpInv
<1>4. QED
  BY <1>2, <1>3

-----------------------------------------------------------------------------
(* The steps of an exchange.                                               *)

LEMMA ExchangeReplaced ==
    ASSUME HttpTypeOK, NEW e \in Exchanges, NEW new \in ExchangeRecords,
           exchange' = [exchange EXCEPT ![e] = new]
    PROVE  /\ exchange' \in Seq(ExchangeRecords) /\ Exchanges' = Exchanges
           /\ \A d \in Exchanges : exchange'[d] = IF d = e THEN new ELSE exchange[d]
<1>1. /\ exchange \in Seq(ExchangeRecords) /\ Len(exchange) \in Nat
      /\ Exchanges = 1..Len(exchange)
  BY DEF HttpTypeOK, Exchanges
<1>2. /\ exchange' \in Seq(ExchangeRecords) /\ Len(exchange') = Len(exchange)
      /\ \A d \in Exchanges : exchange'[d] = IF d = e THEN new ELSE exchange[d]
  BY <1>1, ExceptSeq
<1>3. Exchanges' = 1..Len(exchange')
  BY <1>2 DEF Exchanges
<1>4. QED
  BY <1>1, <1>2, <1>3

\* The exchange e has a new status, and everything else of it stays.
StatusTo(e, st) ==
    /\ exchange' \in Seq(ExchangeRecords) /\ Exchanges' = Exchanges
    /\ \A d \in Exchanges : /\ exchange'[d].server = exchange[d].server
                            /\ exchange'[d].rid = exchange[d].rid
                            /\ exchange'[d].answer = exchange[d].answer
                            /\ exchange'[d].st = IF d = e THEN st ELSE exchange[d].st

LEMMA StatusSet ==
    ASSUME HttpTypeOK, NEW e \in Exchanges, NEW st \in Statuses,
           exchange' = [exchange EXCEPT ![e].st = st]
    PROVE  StatusTo(e, st)
<1> DEFINE new == [exchange[e] EXCEPT !.st = st]
<1>1. PICK old \in ExchangeRecords : old = exchange[e]
  BY ExchangesAre
<1>2. /\ new \in ExchangeRecords /\ new.server = exchange[e].server /\ new.rid = exchange[e].rid
      /\ new.answer = exchange[e].answer /\ new.st = st
  BY <1>1 DEF ExchangeRecords
<1>3. exchange' = [exchange EXCEPT ![e] = new]
  BY ExchangesAre DEF Exchanges
<1> HIDE DEF new
<1>4. /\ exchange' \in Seq(ExchangeRecords) /\ Exchanges' = Exchanges
      /\ \A d \in Exchanges : exchange'[d] = IF d = e THEN new ELSE exchange[d]
  BY <1>2, <1>3, ExchangeReplaced
<1>5. QED
  BY <1>2, <1>4 DEF StatusTo

\* An answer goes to the exchange e, whose fulfiller is the one that s keeps under r.
Answered(s, r, e, how) ==
    /\ server[s].pending[r] = e /\ Status(e) \in {"asked", "gone"}
    /\ exchange' \in Seq(ExchangeRecords) /\ Exchanges' = Exchanges
    /\ \A d \in Exchanges :
          /\ exchange'[d].server = exchange[d].server /\ exchange'[d].rid = exchange[d].rid
          /\ d # e \/ Status(e) = "gone" =>
                exchange'[d].st = exchange[d].st /\ exchange'[d].answer = exchange[d].answer
    /\ Status(e) = "asked" => exchange'[e].st = "told" /\ exchange'[e].answer = how
    /\ server' \in [Ids -> ServerRecords]
    /\ \A t, q \in Ids : server'[t].pending[q] = IF t = s /\ q = r THEN 0 ELSE server[t].pending[q]
    /\ \A t \in Ids : server'[t].listen = server[t].listen /\ server'[t].next = server[t].next

LEMMA AnswersOne ==
    ASSUME HeapInv, HttpInv, NEW how \in {"http", "webSocket", "serverResponseBody"}, Answers(how)
    PROVE  \E s, r \in Ids : \E e \in Exchanges : Answered(s, r, e, how)
<1> USE DEF HttpInv
<1>1. PICK s \in Ids : s = Arg(1)
  BY HeapIsTyped, Words DEF Answers, CanRespond, Has
<1>2. PICK r \in Ids : r = Arg(2) /\ server[s].pending[r] # 0
  BY <1>1 DEF Answers, CanRespond
<1>3. PICK e \in Exchanges : e = server[s].pending[r]
  BY <1>2, HttpIsTyped
<1>4. /\ exchange' = Told(e, how)
      /\ server' = [server EXCEPT ![s].pending[r] = 0]
      /\ UNCHANGED <<tls, holder>>
  BY <1>1, <1>2, <1>3 DEF Answers, Asker
<1>5. Status(e) \in {"asked", "gone"}
  BY <1>2, <1>3 DEF AskedCanBeAnswered
<1>6. /\ exchange' \in Seq(ExchangeRecords) /\ Exchanges' = Exchanges
      /\ \A d \in Exchanges :
            /\ exchange'[d].server = exchange[d].server /\ exchange'[d].rid = exchange[d].rid
            /\ d # e \/ Status(e) = "gone" =>
                  exchange'[d].st = exchange[d].st /\ exchange'[d].answer = exchange[d].answer
      /\ Status(e) = "asked" => exchange'[e].st = "told" /\ exchange'[e].answer = how
  <2>1. CASE Status(e) = "asked"
    <3> DEFINE new == [exchange[e] EXCEPT !.st = "told", !.answer = how]
    <3>1. PICK old \in ExchangeRecords : old = exchange[e]
      BY ExchangesAre
    <3>2. /\ new \in ExchangeRecords /\ new.server = exchange[e].server
          /\ new.rid = exchange[e].rid /\ new.answer = how /\ new.st = "told"
      BY <3>1 DEF ExchangeRecords, Statuses
    <3>3. exchange' = [exchange EXCEPT ![e] = new]
      BY <1>4, <2>1, ExchangesAre DEF Told, Exchanges
    <3> HIDE DEF new
    <3>4. /\ exchange' \in Seq(ExchangeRecords) /\ Exchanges' = Exchanges
          /\ \A d \in Exchanges : exchange'[d] = IF d = e THEN new ELSE exchange[d]
      BY <3>2, <3>3, ExchangeReplaced
    <3>5. QED
      BY <2>1, <3>2, <3>4
  <2>2. CASE Status(e) # "asked"
    BY <1>4, <2>2 DEF Told, HttpTypeOK, Exchanges
  <2>3. QED
    BY <2>1, <2>2
<1>7. /\ server' \in [Ids -> ServerRecords]
      /\ \A t, q \in Ids : server'[t].pending[q] = IF t = s /\ q = r THEN 0 ELSE server[t].pending[q]
      /\ \A t \in Ids : server'[t].listen = server[t].listen /\ server'[t].next = server[t].next
  <2> DEFINE new == [server[s] EXCEPT !.pending[r] = 0]
  <2>1. PICK old \in ServerRecords : old = server[s]
    BY HttpIsTyped
  <2>2. /\ new \in ServerRecords /\ new.listen = server[s].listen /\ new.next = server[s].next
        /\ \A q \in Ids : new.pending[q] = IF q = r THEN 0 ELSE server[s].pending[q]
    BY <2>1 DEF ServerRecords
  <2>3. server' = [server EXCEPT ![s] = new]
    BY <1>4 DEF HttpTypeOK
  <2> HIDE DEF new
  <2>4. QED
    BY <2>2, <2>3, ServerReplaced
<1>8. QED
  BY <1>2, <1>3, <1>5, <1>6, <1>7 DEF Answered

\* An answer is given: the fulfiller leaves the table and the exchange is told.
LEMMA AnswersKeep ==
    ASSUME HeapInv, HttpInv, Frame, UNCHANGED objects,
           NEW how \in {"http", "webSocket", "serverResponseBody"}, Answers(how)
    PROVE  HttpInv'
<1> USE DEF HttpInv
<1>1. PICK s, r \in Ids : \E e \in Exchanges : Answered(s, r, e, how)
  BY AnswersOne
<1>2. PICK e \in Exchanges : Answered(s, r, e, how)
  BY <1>1
<1>3. e = server[s].pending[r] /\ e # 0
  BY <1>2, ExchangesAre DEF Answered
<1>4. UNCHANGED <<tls, holder>>
  BY DEF Answers
<1>5. Status(e) \in {"asked", "gone"}
  BY <1>2 DEF Answered
<1>6. /\ exchange' \in Seq(ExchangeRecords) /\ Exchanges' = Exchanges
      /\ \A d \in Exchanges :
            /\ exchange'[d].server = exchange[d].server /\ exchange'[d].rid = exchange[d].rid
            /\ d # e \/ Status(e) = "gone" =>
                  exchange'[d].st = exchange[d].st /\ exchange'[d].answer = exchange[d].answer
      /\ Status(e) = "asked" => exchange'[e].st = "told" /\ exchange'[e].answer = how
  BY <1>2 DEF Answered
<1>7. /\ server' \in [Ids -> ServerRecords]
      /\ \A t, q \in Ids : server'[t].pending[q] = IF t = s /\ q = r THEN 0 ELSE server[t].pending[q]
      /\ \A t \in Ids : server'[t].listen = server[t].listen
  BY <1>2 DEF Answered
<1>8. HttpTypeOK'
  BY <1>4, <1>6, <1>7 DEF HttpTypeOK, ServerRecords
<1>9. ToldHasAnswer'
  BY <1>5, <1>6 DEF ToldHasAnswer, Status
<1>10. OwnNumber'
  BY <1>6, <1>7, HttpIsTyped DEF OwnNumber
<1>11. AskedCanBeAnswered'
  <2>1. \A d \in Exchanges : exchange'[d].st = "asked" =>
           /\ exchange'[d].server \in objects'["server"]
           /\ server'[exchange'[d].server].pending[exchange'[d].rid] = d
    <3>1. SUFFICES ASSUME NEW d \in Exchanges, exchange'[d].st = "asked"
                   PROVE  /\ exchange'[d].server \in objects'["server"]
                          /\ server'[exchange'[d].server].pending[exchange'[d].rid] = d
      OBVIOUS
    <3>2. /\ d # e /\ exchange[d].st = "asked"
          /\ exchange'[d].server = exchange[d].server /\ exchange'[d].rid = exchange[d].rid
      BY <1>5, <1>6, <3>1 DEF Status
    <3>3. /\ exchange[d].server \in objects["server"]
          /\ server[exchange[d].server].pending[exchange[d].rid] = d
      BY <3>2 DEF AskedCanBeAnswered, Status
    <3>4. exchange[d].server \in Ids /\ exchange[d].rid \in Ids
      BY HttpIsTyped
    <3>5. exchange[d].server # s \/ exchange[d].rid # r
      BY <1>3, <3>2, <3>3
    <3>6. QED
      BY <1>7, <3>2, <3>3, <3>4, <3>5
  <2>2. ASSUME NEW t \in Ids, NEW q \in Ids, server'[t].pending[q] # 0
        PROVE  /\ exchange'[server'[t].pending[q]].st \in {"asked", "gone"}
               /\ exchange'[server'[t].pending[q]].answer = "none"
    <3>0. server[t].pending[q] # 0 /\ server'[t].pending[q] = server[t].pending[q]
      BY <1>7, <2>2
    <3>1. PICK d \in Exchanges : d = server[t].pending[q] /\ d = server'[t].pending[q]
      BY <3>0, HttpIsTyped
    <3>2. t # s \/ q # r
      BY <1>7, <2>2
    <3>3. d # e
      <4>0. exchange[server[t].pending[q]].server = t /\ exchange[server[t].pending[q]].rid = q
        BY <3>0 DEF OwnNumber
      <4>1. exchange[d].server = t /\ exchange[d].rid = q
        BY <3>1, <4>0
      <4>2. exchange[e].server = s /\ exchange[e].rid = r
        BY <1>3 DEF OwnNumber
      <4>3. QED
        BY <3>2, <4>1, <4>2
    <3>4. Status(d) \in {"asked", "gone"} /\ exchange[d].answer = "none"
      <4>0. /\ Status(server[t].pending[q]) \in {"asked", "gone"}
            /\ exchange[server[t].pending[q]].answer = "none"
        BY <3>0 DEF AskedCanBeAnswered
      <4>1. QED
        BY <3>1, <4>0
    <3>5. QED
      BY <1>6, <3>1, <3>3, <3>4 DEF Status
  <2>3. QED
    BY <1>6, <2>1, <2>2 DEF AskedCanBeAnswered, Status
<1>12. BodiesBacked' /\ OneBody'
  <2>1. \A i \in objects["serverRequestBody"] : holder["serverRequestBody"][i] \in Exchanges
    BY HeapIsTyped, HttpIsTyped, Words DEF BodiesBacked, Held
  <2>2. \A i \in objects["serverResponseBody"] : holder["serverResponseBody"][i] \in Exchanges
    BY HeapIsTyped, HttpIsTyped, Words DEF BodiesBacked, Held
  <2>3. QED
    BY <1>4, <1>5, <1>6, <2>1, <2>2 DEF BodiesBacked, OneBody, Status
<1>13. SocketsBacked'
  BY <1>4, <1>5, <1>6, HttpIsTyped DEF SocketsBacked, Status, Held
<1>14. ServerOwnsListen' /\ LiveOnServer'
  BY <1>5, <1>6, <1>7, ListenStays DEF Frame, LiveOnServer, Status
<1>15. QED
  BY <1>8, <1>9, <1>10, <1>11, <1>12, <1>13, <1>14

LEMMA RespondKeeps ==
    ASSUME LoopInv, HeapInv, HttpInv,
           \/ HttpServerRespond \/ HttpServerRespondWebSocket \/ HttpServerRespondStartStreaming
    PROVE  Safe /\ HttpInv'
<1>0. Attending
  BY ServingAttends DEF HttpServerRespond, HttpServerRespondWebSocket,
     HttpServerRespondStartStreaming
<1>1. CASE Rejects /\ UNCHANGED httpVars
  BY <1>0, <1>1, AnswerCalm, CalmKeeps DEF Calm
<1>2. CASE ~(Rejects /\ UNCHANGED httpVars)
  <2>1. /\ Returns \/ Pump
        /\ Answers("http") \/ Answers("webSocket") \/ Answers("serverResponseBody")
    BY <1>2 DEF HttpServerRespond, HttpServerRespondWebSocket, HttpServerRespondStartStreaming
  <2>2. UNCHANGED objects
    BY <2>1 DEF Returns, Pump, heapVars
  <2>3. Frame
    <3>1. CASE Returns
      BY <3>1, AnswerFrame
    <3>2. CASE Pump
      <4>1. WaitFor("completion", Nothing, "pump")
        BY <3>2 DEF Pump, WaitFor
      <4>2. QED
        BY <1>0, <4>1, WaitFrame, Words, NothingIsAbout
    <3>3. QED
      BY <2>1, <3>1, <3>2
  <2>4. QED
    BY <2>1, <2>2, <2>3, RespondSafe, AnswersKeep
<1>3. QED
  BY <1>1, <1>2

\* An exchange ends, or one that has its answer goes on.
Moves ==
    /\ exchange' \in Seq(ExchangeRecords) /\ Exchanges' = Exchanges
    /\ \A d \in Exchanges :
          /\ exchange'[d].server = exchange[d].server /\ exchange'[d].rid = exchange[d].rid
          /\ exchange'[d].answer = exchange[d].answer
          /\ \/ exchange'[d].st = exchange[d].st
             \/ exchange'[d].st = "gone"
             \/ /\ exchange[d].st \notin {"asked", "gone"}
                /\ exchange'[d].st \in {"writing", "streaming", "upgraded", "finishing"}

LEMMA StatusMoves ==
    ASSUME NEW e \in Exchanges, NEW st \in {"writing", "streaming", "upgraded", "finishing"},
           exchange[e].st \notin {"asked", "gone"}, StatusTo(e, st)
    PROVE  Moves
BY DEF StatusTo, Moves

\* What of the invariant is not about bodies and sockets.
ExchangesOK == /\ HttpTypeOK /\ ToldHasAnswer /\ OwnNumber /\ AskedCanBeAnswered
               /\ LiveOnServer /\ ServerOwnsListen

LEMMA MovesKeep ==
    ASSUME HeapInv, HttpInv, Moves, ListenFrame, UNCHANGED <<tls, server>>,
           objects'["server"] = objects["server"],
           holder' \in [Held -> [Ids -> {0} \cup Exchanges]]
    PROVE  ExchangesOK'
<1> USE DEF HttpInv
<1>1. HttpTypeOK'
  BY DEF Moves, HttpTypeOK, ServerRecords
<1>2. ToldHasAnswer' /\ LiveOnServer'
  BY DEF Moves, ToldHasAnswer, LiveOnServer, Status
<1>3. \A s, r \in Ids : server[s].pending[r] # 0 => server[s].pending[r] \in Exchanges
  BY HttpIsTyped
<1>4. OwnNumber'
  BY <1>3 DEF Moves, OwnNumber
<1>5. AskedCanBeAnswered'
  <2>1. \A d \in Exchanges : exchange'[d].st = "asked" =>
           /\ exchange'[d].server \in objects'["server"]
           /\ server'[exchange'[d].server].pending[exchange'[d].rid] = d
    BY DEF Moves, AskedCanBeAnswered, Status
  <2>2. ASSUME NEW t \in Ids, NEW q \in Ids, server[t].pending[q] # 0
        PROVE  /\ exchange'[server[t].pending[q]].st \in {"asked", "gone"}
               /\ exchange'[server[t].pending[q]].answer = "none"
    <3>1. /\ exchange[server[t].pending[q]].st \in {"asked", "gone"}
          /\ exchange[server[t].pending[q]].answer = "none"
      BY <2>2 DEF AskedCanBeAnswered, Status
    <3>2. QED
      BY <1>3, <2>2, <3>1 DEF Moves
  <2>3. QED
    BY <2>1, <2>2 DEF Moves, AskedCanBeAnswered, Status
<1>6. ServerOwnsListen'
  BY ListenStays
<1>7. QED
  BY <1>1, <1>2, <1>4, <1>5, <1>6 DEF ExchangesOK

LEMMA BodiesTyped ==
    ASSUME HeapInv, HttpInv
    PROVE  /\ \A i \in objects["serverRequestBody"] :
                 i \in Ids /\ holder["serverRequestBody"][i] \in Exchanges
           /\ \A i \in objects["serverResponseBody"] :
                 i \in Ids /\ holder["serverResponseBody"][i] \in Exchanges
           /\ \A i \in Ids : holder["webSocket"][i] # 0 => holder["webSocket"][i] \in Exchanges
BY HeapIsTyped, HttpIsTyped, Words DEF HttpInv, BodiesBacked, Held

\* An exchange that is told to end was sending.
LEMMA LetGoMoves ==
    ASSUME HttpInv, NEW ty \in {"serverResponseBody", "webSocket"},
           NEW i \in Ids \cap objects[ty], i = Arg(1), LetGo(ty)
    PROVE  /\ Moves
           /\ \A d \in Exchanges : /\ d # holder[ty][i] => exchange'[d].st = exchange[d].st
                                   /\ exchange'[d].st \in {exchange[d].st, "finishing"}
                                   /\ exchange[d].st = "gone" => exchange'[d].st = "gone"
                                   /\ d = holder[ty][i] =>
                                         exchange'[d].st \in {"finishing", "gone"}
<1> USE DEF HttpInv
<1>1. PICK e \in {0} \cup Exchanges : e = holder[ty][i]
  BY HttpIsTyped DEF Held
<1>2. e # 0 => exchange[e].st \notin {"asked", "told", "writing"}
  BY <1>1 DEF BodiesBacked, SocketsBacked, Status
<1>3. CASE e # 0 /\ exchange[e].st # "gone"
  <2>1. exchange' = [exchange EXCEPT ![e].st = "finishing"]
    BY <1>1, <1>3 DEF LetGo, Status
  <2>2. e \in Exchanges /\ "finishing" \in Statuses
    BY <1>3 DEF Statuses
  <2>3. StatusTo(e, "finishing")
    BY <2>1, <2>2, StatusSet
  <2>4. Moves
    BY <1>2, <1>3, <2>2, <2>3, StatusMoves
  <2>5. QED
    BY <1>1, <1>3, <2>2, <2>3, <2>4 DEF StatusTo
<1>4. CASE ~(e # 0 /\ exchange[e].st # "gone")
  <2>1. exchange' = exchange
    BY <1>1, <1>4 DEF LetGo, Status
  <2>2. Moves
    BY <2>1 DEF Moves, HttpTypeOK, Exchanges
  <2>3. \A d \in Exchanges : d # 0
    BY ExchangesAre
  <2>4. QED
    BY <1>1, <1>4, <2>1, <2>2, <2>3
<1>5. QED
  BY <1>3, <1>4

\* A response body or a socket is let go, and its exchange told so.
LEMMA LetGoKeeps ==
    ASSUME HeapInv, HttpInv, ListenFrame, NEW ty \in {"serverResponseBody", "webSocket"},
           NEW i \in objects[ty], i = Arg(1), Gives(ty), LetGo(ty), UNCHANGED <<tls, server>>,
           \/ holder' = [holder EXCEPT ![ty][i] = 0]
           \/ ty = "serverResponseBody" /\ holder' = holder
    PROVE  HttpInv'
<1> USE DEF HttpInv
<1>0. i \in Ids /\ ty \in ObjectTypes /\ ty \in Held
  BY HeapIsTyped, Words DEF Held
<1>1. PICK e \in {0} \cup Exchanges : e = holder[ty][i]
  BY <1>0, HttpIsTyped
<1>2. \A uy \in ObjectTypes : objects'[uy] = IF uy = ty THEN objects[uy] \ {i} ELSE objects[uy]
  BY <1>0, HeapIsTyped DEF Gives
<1>3. \A uy \in Held : \A j \in Ids :
         uy # ty \/ j # i => holder'[uy][j] = holder[uy][j]
  BY <1>0 DEF HttpTypeOK
<1>4. holder' \in [Held -> [Ids -> {0} \cup Exchanges]]
  BY <1>0 DEF HttpTypeOK
<1>6. /\ Moves
      /\ \A d \in Exchanges : /\ d # e => exchange'[d].st = exchange[d].st
                              /\ exchange'[d].st \in {exchange[d].st, "finishing"}
                              /\ exchange[d].st = "gone" => exchange'[d].st = "gone"
  BY <1>0, <1>1, LetGoMoves
<1>7. ExchangesOK'
  BY <1>2, <1>4, <1>6, MovesKeep, Words
<1>8. \A j \in objects'["serverResponseBody"] :
         /\ j \in objects["serverResponseBody"]
         /\ holder'["serverResponseBody"][j] = holder["serverResponseBody"][j]
         /\ holder["serverResponseBody"][j] # e \/ exchange[e].st = "gone"
  <2>1. SUFFICES ASSUME NEW j \in objects'["serverResponseBody"]
                 PROVE  /\ j \in objects["serverResponseBody"]
                        /\ holder'["serverResponseBody"][j] = holder["serverResponseBody"][j]
                        /\ holder["serverResponseBody"][j] # e \/ exchange[e].st = "gone"
    OBVIOUS
  <2>2. j \in objects["serverResponseBody"] /\ (ty = "serverResponseBody" => j # i)
    BY <1>2, Words
  <2>3. holder'["serverResponseBody"][j] = holder["serverResponseBody"][j]
    BY <1>3, <2>2, BodiesTyped DEF Held
  <2>4. CASE ty = "serverResponseBody"
    BY <1>1, <2>2, <2>3, <2>4 DEF OneBody
  <2>5. CASE ty = "webSocket"
    <3>1. holder["serverResponseBody"][j] # 0
          /\ exchange[holder["serverResponseBody"][j]].st = "streaming"
      BY <2>2 DEF BodiesBacked, Status
    <3>2. e # 0 => exchange[e].st # "streaming"
      BY <1>0, <1>1, <2>5 DEF SocketsBacked, Status
    <3>3. QED
      BY <2>2, <2>3, <3>1, <3>2
  <2>6. QED
    BY <2>2, <2>3, <2>4, <2>5
<1>9. \A j \in objects'["serverRequestBody"] :
         /\ j \in objects["serverRequestBody"]
         /\ holder'["serverRequestBody"][j] = holder["serverRequestBody"][j]
  BY <1>2, <1>3, BodiesTyped, Words DEF Held
<1>10. OneBody'
  BY <1>8 DEF OneBody
<1>11. BodiesBacked'
  <2>1. ASSUME NEW j \in objects'["serverRequestBody"]
        PROVE  /\ holder'["serverRequestBody"][j] # 0
               /\ exchange'[holder'["serverRequestBody"][j]].st # "gone"
               /\ exchange'[holder'["serverRequestBody"][j]].server \in objects'["server"]
    <3>1. j \in objects["serverRequestBody"]
      BY <1>9
    <3>2. PICK d \in Exchanges : d = holder["serverRequestBody"][j]
      BY <3>1, BodiesTyped
    <3>3. d # 0 /\ exchange[d].st # "gone" /\ exchange[d].server \in objects["server"]
      BY <3>1, <3>2 DEF BodiesBacked, Status
    <3>4. exchange'[d].st # "gone" /\ exchange'[d].server \in objects'["server"]
      BY <1>2, <1>6, <1>9, <3>2, <3>3, Words DEF Moves
    <3>5. QED
      BY <1>9, <3>2, <3>3, <3>4
  <2>2. ASSUME NEW j \in objects'["serverResponseBody"]
        PROVE  /\ holder'["serverResponseBody"][j] # 0
               /\ exchange'[holder'["serverResponseBody"][j]].st = "streaming"
               /\ exchange'[holder'["serverResponseBody"][j]].server \in objects'["server"]
    <3>1. j \in objects["serverResponseBody"]
      BY <1>8
    <3>2. PICK d \in Exchanges : d = holder["serverResponseBody"][j]
      BY <3>1, BodiesTyped
    <3>3. d # 0 /\ exchange[d].st = "streaming" /\ exchange[d].server \in objects["server"]
      BY <3>1, <3>2 DEF BodiesBacked, Status
    <3>4. exchange'[d].st = "streaming" /\ exchange'[d].server \in objects'["server"]
      BY <1>2, <1>6, <1>8, <3>2, <3>3, Words DEF Moves
    <3>5. QED
      BY <1>8, <3>2, <3>3, <3>4
  <2>3. QED
    BY <2>1, <2>2 DEF BodiesBacked, Status
<1>12. SocketsBacked'
  <2>1. ASSUME NEW j \in Ids, holder'["webSocket"][j] # 0
        PROVE  /\ j \in objects'["webSocket"]
               /\ exchange'[holder'["webSocket"][j]].st \in {"upgraded", "finishing", "gone"}
    <3>1. ty = "webSocket" => j # i
      BY <1>0, <2>1 DEF HttpTypeOK
    <3>2. holder'["webSocket"][j] = holder["webSocket"][j]
      BY <1>3, <3>1 DEF Held
    <3>3. /\ j \in objects["webSocket"] /\ holder["webSocket"][j] \in Exchanges
          /\ exchange[holder["webSocket"][j]].st \in {"upgraded", "finishing", "gone"}
      BY <2>1, <3>2, BodiesTyped DEF SocketsBacked, Status
    <3>4. j \in objects'["webSocket"]
      BY <1>2, <3>1, <3>3, Words
    <3>5. QED
      BY <1>6, <3>2, <3>3, <3>4
  <2>2. QED
    BY <2>1 DEF SocketsBacked, Status
<1>13. QED
  BY <1>7, <1>10, <1>11, <1>12 DEF ExchangesOK

LEMMA ReleasesKeep ==
    ASSUME LoopInv, HeapInv, HttpInv, WebSocketRelease \/ HttpServerResponseBodyRelease
    PROVE  Safe /\ HttpInv'
<1>0. Attending
  BY ServingAttends DEF WebSocketRelease, HttpServerResponseBodyRelease
<1>1. PICK ty \in {"serverResponseBody", "webSocket"} : Releases(ty)
  BY DEF WebSocketRelease, HttpServerResponseBodyRelease
<1>2. ty \in ObjectTypes
  BY Words
<1>3. CASE ~Has(ty, Arg(1))
  BY <1>0, <1>1, <1>3, AnswerCalm, CalmKeeps DEF Releases, Calm
<1>4. CASE Has(ty, Arg(1))
  <2>1. /\ Arg(1) \in objects[ty] /\ Gives(ty) /\ LetGo(ty)
        /\ holder' = [holder EXCEPT ![ty][Arg(1)] = 0]
        /\ UNCHANGED <<nodes, promises, tls, server>>
    BY <1>1, <1>4 DEF Releases, Has
  <2>2. ListenFrame
    BY <2>1, SameFrame
  <2>3. QED
    BY <1>0, <1>1, <1>2, <2>1, <2>2, ReleasesSafe, LetGoKeeps
<1>5. QED
  BY <1>3, <1>4

LEMMA FinishesKeep ==
    ASSUME LoopInv, HeapInv, HttpInv,
           HttpServerResponseBodyFinishStart \/ HttpServerResponseBodyFinish
    PROVE  Safe /\ HttpInv'
<1>0. Attending
  BY ServingAttends DEF HttpServerResponseBodyFinishStart, HttpServerResponseBodyFinish
<1>1. CASE Unknown
  BY <1>0, <1>1, AnswerCalm, CalmKeeps DEF Unknown, Calm
<1>2. CASE ~Unknown
  <2>1. /\ Arg(1) \in objects["serverResponseBody"]
        /\ Gives("serverResponseBody") /\ LetGo("serverResponseBody")
        /\ ReadyPromise \/ AwaitReady
        /\ UNCHANGED <<tls, server, holder>>
    BY <1>2 DEF HttpServerResponseBodyFinishStart, HttpServerResponseBodyFinish, Finishes, Has
  <2>2. Safe
    BY <1>0, <2>1, FinishSafe, Words
  <2>3. QED
    BY <1>0, <2>1, <2>2, ReadyFrame, LetGoKeeps
<1>3. QED
  BY <1>1, <1>2

\* The exchanges whose response body the cleanup of the exchanges E takes.
Cut(E) == {holder["serverResponseBody"][i] : i \in BodiesOf("serverResponseBody", E)}

LEMMA CutStreams ==
    ASSUME HttpInv, NEW E, NEW d \in Exchanges \cap Cut(E)
    PROVE  exchange[d].st = "streaming" /\ <<exchange[d].server, exchange[d].rid>> \in Numbered(E)
<1>1. PICK i \in BodiesOf("serverResponseBody", E) : d = holder["serverResponseBody"][i]
  BY DEF Cut
<1>2. QED
  BY <1>1 DEF BodiesOf, HttpInv, BodiesBacked, Status

\* The exchanges that end are gone, and those whose body they take finish.
LEMMA GoneMoves ==
    ASSUME HttpInv, NEW E, exchange' = Gone(E)
    PROVE  /\ Moves
           /\ \A d \in Exchanges : exchange'[d].st = IF d \in E THEN "gone"
                                                     ELSE IF d \in Cut(E) THEN "finishing"
                                                     ELSE exchange[d].st
<1> DEFINE To(d, st) == [exchange[d] EXCEPT !.st = st]
<1>1. Len(exchange) \in Nat /\ Exchanges = 1..Len(exchange)
  BY ExchangesAre DEF HttpInv
<1>2. \A d \in Exchanges : exchange[d] \in ExchangeRecords
  BY ExchangesAre DEF HttpInv
<1>3. \A d \in Exchanges : \A st \in {"gone", "finishing"} :
         /\ To(d, st) \in ExchangeRecords /\ To(d, st).st = st
         /\ To(d, st).server = exchange[d].server /\ To(d, st).rid = exchange[d].rid
         /\ To(d, st).answer = exchange[d].answer
  BY <1>2 DEF ExchangeRecords, Statuses
<1>4. /\ exchange' = [d \in 1..Len(exchange) |-> exchange'[d]]
      /\ \A d \in Exchanges : exchange'[d] = IF d \in E THEN To(d, "gone")
                                             ELSE IF d \in Cut(E) THEN To(d, "finishing")
                                             ELSE exchange[d]
  <2>1. exchange' = [d \in Exchanges |-> CASE d \in E -> To(d, "gone")
                                           [] d \in Cut(E) \ E -> To(d, "finishing")
                                           [] OTHER -> exchange[d]]
    BY DEF Gone, Cut
  <2> HIDE DEF To
  <2>2. QED
    BY <1>1, <2>1
<1> HIDE DEF To
<1>5. Exchanges' = Exchanges /\ \A d \in Exchanges : exchange'[d] \in ExchangeRecords
  BY <1>1, <1>2, <1>3, <1>4 DEF Exchanges
<1>6. exchange' \in Seq(ExchangeRecords)
  BY <1>1, <1>4, <1>5
<1>7. \A d \in Exchanges :
         /\ exchange'[d].server = exchange[d].server /\ exchange'[d].rid = exchange[d].rid
         /\ exchange'[d].answer = exchange[d].answer
         /\ exchange'[d].st = IF d \in E THEN "gone"
                              ELSE IF d \in Cut(E) THEN "finishing" ELSE exchange[d].st
  BY <1>3, <1>4
<1>8. \A d \in Exchanges : d \in Cut(E) => exchange[d].st = "streaming"
  BY CutStreams
<1>9. QED
  BY <1>5, <1>6, <1>7, <1>8 DEF Moves

\* The cleanup of all the exchanges of a server takes no other's body.
LEMMA ServerGoneMoves ==
    ASSUME HttpInv, NEW s, exchange' = Gone(OfServer(s))
    PROVE  /\ Moves
           /\ \A d \in Exchanges :
                 exchange'[d].st = IF d \in OfServer(s) THEN "gone" ELSE exchange[d].st
<1>1. \A d \in Exchanges : d \in Cut(OfServer(s)) => d \in OfServer(s)
  BY CutStreams DEF Numbered, OfServer
<1>2. QED
  BY <1>1, GoneMoves

\* The bodies that are left are not those of exchanges that ended or were cut.
LEMMA BodiesLeft ==
    ASSUME HeapInv, HttpInv, NEW E, NEW ty \in {"serverRequestBody", "serverResponseBody"},
           NEW j \in objects[ty] \ BodiesOf(ty, E)
    PROVE  holder[ty][j] \in Exchanges \ (E \cup Cut(E))
<1>1. PICK d \in Exchanges : d = holder[ty][j]
  BY BodiesTyped
<1>2. <<exchange[d].server, exchange[d].rid>> \notin Numbered(E)
  BY <1>1 DEF BodiesOf
<1>3. d \notin E /\ d \notin Cut(E)
  BY <1>2, CutStreams DEF Numbered
<1>4. QED
  BY <1>1, <1>3

LEMMA EndingKeepsBodies ==
    ASSUME HeapInv, HttpInv, NEW E, exchange' = Gone(E), UNCHANGED holder,
           \A ty \in {"serverRequestBody", "serverResponseBody"} :
              objects'[ty] = objects[ty] \ BodiesOf(ty, E),
           objects'["webSocket"] = objects["webSocket"],
           \A e \in Exchanges \ E : exchange[e].server \in objects["server"] =>
                                       exchange[e].server \in objects'["server"]
    PROVE  BodiesBacked' /\ OneBody' /\ SocketsBacked'
<1> USE DEF HttpInv
<1>1. /\ Moves
      /\ \A d \in Exchanges : exchange'[d].st = IF d \in E THEN "gone"
                                                ELSE IF d \in Cut(E) THEN "finishing"
                                                ELSE exchange[d].st
  BY GoneMoves
<1>2. ASSUME NEW ty \in {"serverRequestBody", "serverResponseBody"}, NEW j \in objects'[ty]
      PROVE  /\ j \in objects[ty]
             /\ holder[ty][j] # 0 /\ exchange'[holder[ty][j]].st # "gone"
             /\ ty = "serverResponseBody" => exchange'[holder[ty][j]].st = "streaming"
             /\ exchange'[holder[ty][j]].server \in objects'["server"]
  <2>1. j \in objects[ty] \ BodiesOf(ty, E)
    BY <1>2
  <2>2. PICK d \in Exchanges \ (E \cup Cut(E)) : d = holder[ty][j]
    BY <2>1, BodiesLeft
  <2>3. /\ d # 0 /\ exchange[d].st # "gone" /\ exchange[d].server \in objects["server"]
        /\ ty = "serverResponseBody" => exchange[d].st = "streaming"
    BY <2>1, <2>2 DEF BodiesBacked, Status
  <2>4. exchange'[d].st = exchange[d].st /\ exchange'[d].server = exchange[d].server
    BY <1>1, <2>2 DEF Moves
  <2>5. QED
    BY <2>1, <2>2, <2>3, <2>4
<1>3. BodiesBacked'
  BY <1>2 DEF BodiesBacked, Status
<1>4. OneBody'
  BY <1>2 DEF OneBody
<1>5. SocketsBacked'
  <2>1. ASSUME NEW j \in Ids, holder["webSocket"][j] # 0
        PROVE  /\ j \in objects'["webSocket"]
               /\ exchange'[holder["webSocket"][j]].st \in {"upgraded", "finishing", "gone"}
    BY <1>1, <2>1, BodiesTyped DEF SocketsBacked, Status
  <2>2. QED
    BY <2>1 DEF SocketsBacked, Status
<1>6. QED
  BY <1>3, <1>4, <1>5

LEMMA EndsKeep == ASSUME HeapInv, HttpInv, NEW e, Ends(e) PROVE Safe /\ HttpInv'
<1> USE DEF HttpInv
<1>1. /\ exchange' = Gone({e}) /\ objects' = WithoutBodies({e})
      /\ UNCHANGED <<nodes, promises, tls, server, holder>>
  BY DEF Ends
<1>2. /\ objects'["server"] = objects["server"]
      /\ objects'["webSocket"] = objects["webSocket"]
      /\ \A ty \in {"serverRequestBody", "serverResponseBody"} :
            objects'[ty] = objects[ty] \ BodiesOf(ty, {e})
  BY <1>1, WithoutBodiesTyped, Words
<1>3. Moves /\ ListenFrame
  BY <1>1, GoneMoves, SameFrame
<1>4. holder' \in [Held -> [Ids -> {0} \cup Exchanges]]
  BY <1>1 DEF HttpTypeOK
<1>5. ExchangesOK'
  BY <1>1, <1>2, <1>3, <1>4, MovesKeep
<1>6. BodiesBacked' /\ OneBody' /\ SocketsBacked'
  BY <1>1, <1>2, EndingKeepsBodies
<1>7. QED
  BY <1>5, <1>6, EndsSafe DEF ExchangesOK

\* The exchange that has its answer sends it.
LEMMA ContinueKeeps ==
    ASSUME LoopInv, HeapInv, HttpInv, NEW e \in Exchanges, Continue(e)
    PROVE  Safe /\ HttpInv'
<1> USE DEF HttpInv
<1>1. PICK ty \in {"http", "webSocket", "serverResponseBody"} : ty = exchange[e].answer
  BY ExchangesAre DEF Continue, ToldHasAnswer, ExchangeRecords
<1> DEFINE i == FreshFrom(nextId[ty], objects[ty])
<1>2. exchange[e].st = "told" /\ UNCHANGED <<tls, server>>
  BY DEF Continue, Status
<1>3. e # 0 /\ \A j \in Ids : holder["webSocket"][j] # e
  BY <1>2, ExchangesAre DEF SocketsBacked, Status
<1>4. \A j \in objects["serverResponseBody"] : holder["serverResponseBody"][j] # e
  BY <1>2 DEF BodiesBacked, Status
<1>5. PICK st \in {"writing", "streaming", "upgraded", "finishing"} :
         /\ exchange' = [exchange EXCEPT ![e].st = st]
         /\ \/ UNCHANGED <<nodes, promises, objects, holder>>
            \/ /\ ty # "http" /\ Room(ty)
               /\ st = IF ty = "webSocket" THEN "upgraded" ELSE "streaming"
               /\ objects' = [objects EXCEPT ![ty] = @ \cup {i}]
               /\ holder' = [holder EXCEPT ![ty][i] = e]
               /\ UNCHANGED <<nodes, promises>>
  BY <1>1 DEF Continue, heapVars
<1>6. StatusTo(e, st) /\ Moves
  BY <1>2, <1>5, StatusSet, StatusMoves DEF Statuses
<1>7. ListenFrame
  BY <1>5, SameFrame
<1>8. \A d \in Exchanges : /\ exchange'[d].server = exchange[d].server
                           /\ exchange'[d].st = IF d = e THEN st ELSE exchange[d].st
  BY <1>6 DEF StatusTo
<1>9. CASE UNCHANGED <<objects, holder>>
  <2>1. ExchangesOK'
    BY <1>2, <1>6, <1>7, <1>9, MovesKeep DEF HttpTypeOK
  <2>2. ASSUME NEW uy \in {"serverRequestBody", "serverResponseBody"}, NEW j \in objects[uy]
        PROVE  /\ holder[uy][j] # 0 /\ exchange'[holder[uy][j]].st # "gone"
               /\ uy = "serverResponseBody" => exchange'[holder[uy][j]].st = "streaming"
               /\ exchange'[holder[uy][j]].server \in objects["server"]
    <3>1. PICK d \in Exchanges : d = holder[uy][j]
      BY BodiesTyped
    <3>2. /\ d # 0 /\ exchange[d].st # "gone" /\ exchange[d].server \in objects["server"]
          /\ uy = "serverResponseBody" => exchange[d].st = "streaming" /\ d # e
      BY <1>4, <3>1 DEF BodiesBacked, Status
    <3>3. QED
      BY <1>5, <1>8, <3>1, <3>2
  <2>3. BodiesBacked' /\ OneBody'
    BY <1>9, <2>2 DEF BodiesBacked, OneBody, Status
  <2>4. SocketsBacked'
    BY <1>3, <1>8, <1>9, BodiesTyped DEF SocketsBacked, Status
  <2>5. QED
    BY <2>1, <2>3, <2>4, ContinueSafe DEF ExchangesOK
<1>10. CASE ~UNCHANGED <<objects, holder>>
  <2>1. /\ ty \in {"webSocket", "serverResponseBody"} /\ Room(ty)
        /\ st = IF ty = "webSocket" THEN "upgraded" ELSE "streaming"
        /\ objects' = [objects EXCEPT ![ty] = @ \cup {i}]
        /\ holder' = [holder EXCEPT ![ty][i] = e]
    BY <1>5, <1>10
  <2>2. ty \in ObjectTypes /\ ty \in Held
    BY <2>1, Words DEF Held
  <2>3. i \in Ids \ objects[ty]
    BY <2>1, <2>2, FreeObject DEF HeapInv
  <2> HIDE DEF i
  <2>4. \A uy \in ObjectTypes :
           objects'[uy] = IF uy = ty THEN objects[uy] \cup {i} ELSE objects[uy]
    BY <2>1, <2>2, HeapIsTyped
  <2>5. \A uy \in Held : \A j \in Ids :
           holder'[uy][j] = IF uy = ty /\ j = i THEN e ELSE holder[uy][j]
    BY <2>1, <2>2, <2>3 DEF HttpTypeOK
  <2>6. holder' \in [Held -> [Ids -> {0} \cup Exchanges]]
    BY <2>1, <2>2, <2>3 DEF HttpTypeOK
  <2>7. ExchangesOK'
    <3>1. objects'["server"] = objects["server"]
      BY <2>1, <2>4, Words
    <3>2. QED
      BY <1>2, <1>6, <1>7, <2>6, <3>1, MovesKeep
  <2>8. ASSUME NEW uy \in {"serverRequestBody", "serverResponseBody"}, NEW j \in objects'[uy]
        PROVE  /\ holder'[uy][j] # 0 /\ exchange'[holder'[uy][j]].st # "gone"
               /\ uy = "serverResponseBody" => exchange'[holder'[uy][j]].st = "streaming"
               /\ exchange'[holder'[uy][j]].server \in objects'["server"]
               /\ holder'[uy][j] = IF uy = ty /\ j = i THEN e ELSE holder[uy][j]
               /\ j \in objects[uy] \/ (uy = ty /\ j = i)
    <3>0. uy \in ObjectTypes /\ uy \in Held /\ objects'["server"] = objects["server"]
      BY <2>1, <2>4, Words DEF Held
    <3>1. CASE uy = ty /\ j = i
      <4>1. exchange[e].server \in objects["server"]
        BY <1>2 DEF LiveOnServer, Status
      <4>2. holder'[uy][j] = e /\ exchange'[e].st = st
        BY <1>8, <2>3, <2>5, <3>0, <3>1
      <4>3. QED
        BY <1>3, <1>8, <2>1, <3>0, <3>1, <4>1, <4>2
    <3>2. CASE ~(uy = ty /\ j = i)
      <4>1. j \in objects[uy]
        BY <2>4, <3>0, <3>2
      <4>2. PICK d \in Exchanges : d = holder[uy][j]
        BY <4>1, BodiesTyped
      <4>3. j \in Ids /\ holder'[uy][j] = d
        BY <2>5, <3>0, <3>2, <4>1, <4>2, BodiesTyped
      <4>4. /\ d # 0 /\ exchange[d].st # "gone" /\ exchange[d].server \in objects["server"]
            /\ uy = "serverResponseBody" => exchange[d].st = "streaming" /\ d # e
        BY <1>4, <4>1, <4>2 DEF BodiesBacked, Status
      <4>5. QED
        BY <1>5, <1>8, <3>0, <3>2, <4>1, <4>2, <4>3, <4>4
    <3>3. QED
      BY <3>1, <3>2
  <2>9. BodiesBacked'
    BY <2>8 DEF BodiesBacked, Status
  <2>10. OneBody'
    <3>1. SUFFICES ASSUME NEW j \in objects'["serverResponseBody"],
                          NEW k \in objects'["serverResponseBody"],
                          holder'["serverResponseBody"][j] = holder'["serverResponseBody"][k]
                   PROVE  j = k
      BY DEF OneBody
    <3>2. QED
      BY <1>4, <2>8, <3>1 DEF OneBody
  <2>11. SocketsBacked'
    <3>1. ASSUME NEW j \in Ids, holder'["webSocket"][j] # 0
          PROVE  /\ j \in objects'["webSocket"]
                 /\ exchange'[holder'["webSocket"][j]].st \in {"upgraded", "finishing", "gone"}
      <4>1. CASE ty = "webSocket" /\ j = i
        BY <1>8, <2>1, <2>2, <2>4, <2>5, <4>1
      <4>2. CASE ~(ty = "webSocket" /\ j = i)
        <5>1. holder'["webSocket"][j] = holder["webSocket"][j]
          BY <2>5, <4>2 DEF Held
        <5>2. /\ j \in objects["webSocket"] /\ holder["webSocket"][j] \in Exchanges
              /\ exchange[holder["webSocket"][j]].st \in {"upgraded", "finishing", "gone"}
          BY <3>1, <5>1, BodiesTyped DEF SocketsBacked, Status
        <5>3. QED
          BY <1>3, <1>8, <2>4, <5>1, <5>2, Words
      <4>3. QED
        BY <4>1, <4>2
    <3>2. QED
      BY <3>1 DEF SocketsBacked, Status
  <2>12. QED
    BY <2>7, <2>9, <2>10, <2>11, ContinueSafe DEF ExchangesOK
<1>11. QED
  BY <1>9, <1>10

\* A request arrives: it gets the next number, and a fulfiller if that number is free.
LEMMA ArriveKeeps == ASSUME HeapInv, HttpInv, Arrive PROVE Safe /\ HttpInv'
<1> USE DEF HttpInv
<1>1. PICK s \in objects["server"] :
         LET rid  == server[s].next
             b    == FreshFrom(nextId["serverRequestBody"], objects["serverRequestBody"])
             free == server[s].pending[rid] = 0
             e    == Len(exchange) + 1
         IN /\ Room("serverRequestBody")
            /\ exchange' = Append(exchange, [server |-> s, rid |-> rid, answer |-> "none",
                                             st |-> IF free THEN "asked" ELSE "finishing"])
            /\ server' = [server EXCEPT ![s].next = (rid + 1) % RequestSpace,
                                        ![s].queue = Append(@, [rid |-> rid, body |-> b]),
                                        ![s].pending[rid] = IF free THEN e ELSE @]
            /\ objects' = [objects EXCEPT !["serverRequestBody"] = @ \cup {b}]
            /\ holder' = [holder EXCEPT !["serverRequestBody"][b] = e]
            /\ UNCHANGED <<nodes, promises, tls>>
  BY DEF Arrive
<1>2. s \in Ids /\ server[s] \in ServerRecords
  BY HeapIsTyped, HttpIsTyped, Words
<1>3. PICK rid \in Ids : rid = server[s].next
  BY <1>2 DEF ServerRecords
<1> DEFINE bb == FreshFrom(nextId["serverRequestBody"], objects["serverRequestBody"])
<1>4. bb \in Ids \ objects["serverRequestBody"]
  BY <1>1, FreeObject, Words DEF HeapInv
<1> HIDE DEF bb
<1>5. PICK b \in Ids \ objects["serverRequestBody"] : b = bb
  BY <1>4
<1>6. PICK e \in Nat : e = Len(exchange) + 1 /\ e # 0 /\ e \notin Exchanges
  BY ExchangesAre
<1>7. PICK free \in BOOLEAN : free <=> server[s].pending[rid] = 0
  OBVIOUS
<1>8. PICK new \in ExchangeRecords :
         /\ new = [server |-> s, rid |-> rid, answer |-> "none",
                   st |-> IF free THEN "asked" ELSE "finishing"]
         /\ new.server = s /\ new.rid = rid /\ new.answer = "none"
         /\ new.st = IF free THEN "asked" ELSE "finishing"
  <2> DEFINE x == [server |-> s, rid |-> rid, answer |-> "none",
                   st |-> IF free THEN "asked" ELSE "finishing"]
  <2>1. /\ x \in ExchangeRecords
        /\ x.server = s /\ x.rid = rid /\ x.answer = "none"
        /\ x.st = IF free THEN "asked" ELSE "finishing"
    BY <1>2 DEF ExchangeRecords, Statuses
  <2>2. QED
    BY <2>1
<1>9. /\ exchange' = Append(exchange, new)
      /\ server' = [server EXCEPT ![s].next = (rid + 1) % RequestSpace,
                                  ![s].queue = Append(@, [rid |-> rid, body |-> b]),
                                  ![s].pending[rid] = IF free THEN e ELSE @]
      /\ objects' = [objects EXCEPT !["serverRequestBody"] = @ \cup {b}]
      /\ holder' = [holder EXCEPT !["serverRequestBody"][b] = e]
      /\ UNCHANGED <<nodes, promises, tls>>
  BY <1>1, <1>3, <1>5, <1>6, <1>7, <1>8 DEF bb
<1>10. /\ exchange' \in Seq(ExchangeRecords) /\ Exchanges' = Exchanges \cup {e}
       /\ exchange'[e] = new /\ \A d \in Exchanges : exchange'[d] = exchange[d]
  <2>1. exchange \in Seq(ExchangeRecords) /\ Len(exchange) \in Nat /\ Exchanges = 1..Len(exchange)
    BY DEF HttpTypeOK, Exchanges
  <2>2. /\ exchange' \in Seq(ExchangeRecords) /\ Len(exchange') = Len(exchange) + 1
        /\ exchange'[e] = new /\ \A d \in Exchanges : exchange'[d] = exchange[d]
    BY <1>6, <1>9, <2>1
  <2>3. Exchanges' = 1..Len(exchange')
    BY <2>2 DEF Exchanges
  <2>4. QED
    BY <1>6, <2>1, <2>2, <2>3
<1>11. /\ server' \in [Ids -> ServerRecords']
       /\ \A t \in Ids : server'[t].listen = server[t].listen
       /\ \A t, q \in Ids : server'[t].pending[q] =
             IF t = s /\ q = rid /\ free THEN e ELSE server[t].pending[q]
  <2> DEFINE body == [rid |-> rid, body |-> b]
             mine == [server[s] EXCEPT !.next = (rid + 1) % RequestSpace,
                                       !.queue = Append(@, body),
                                       !.pending[rid] = IF free THEN e ELSE @]
  <2>1. body \in QueueRecords /\ (rid + 1) % RequestSpace \in Ids
    BY RequestsAssumption, IdSpaceAssumption DEF QueueRecords, Ids
  <2> HIDE DEF body
  <2>2. PICK old \in ServerRecords : old = server[s]
    BY <1>2
  <2>3. Append(old.queue, body) \in Seq(QueueRecords)
    BY <2>1 DEF ServerRecords
  <2>4. /\ mine \in ServerRecords' /\ mine.listen = server[s].listen
        /\ \A q \in Ids : mine.pending[q] =
              IF q = rid /\ free THEN e ELSE server[s].pending[q]
    <3>1. [old.pending EXCEPT ![rid] = IF free THEN e ELSE @] \in [Ids -> {0} \cup Exchanges']
      BY <1>10 DEF ServerRecords
    <3>2. \A q \in Ids : [old.pending EXCEPT ![rid] = IF free THEN e ELSE @][q] =
             IF q = rid /\ free THEN e ELSE old.pending[q]
      BY DEF ServerRecords
    <3>3. QED
      BY <2>1, <2>2, <2>3, <3>1, <3>2 DEF ServerRecords
  <2>5. server' = [server EXCEPT ![s] = mine]
    BY <1>9 DEF HttpTypeOK, body
  <2> HIDE DEF mine
  <2>6. \A t \in Ids : server[t] \in ServerRecords'
    BY <1>10, HttpIsTyped DEF ServerRecords
  <2>7. QED
    BY <1>2, <2>4, <2>5, <2>6 DEF HttpTypeOK
<1>12. \A uy \in ObjectTypes :
          objects'[uy] = IF uy = "serverRequestBody" THEN objects[uy] \cup {b} ELSE objects[uy]
  BY <1>9, HeapIsTyped, Words
<1>13. /\ holder' \in [Held -> [Ids -> {0} \cup Exchanges']]
       /\ \A uy \in Held : \A j \in Ids : holder'[uy][j] =
             IF uy = "serverRequestBody" /\ j = b THEN e ELSE holder[uy][j]
  BY <1>9, <1>10 DEF HttpTypeOK, Held
<1>14. HttpTypeOK'
  BY <1>9, <1>10, <1>11, <1>13 DEF HttpTypeOK
<1>15. ToldHasAnswer'
  BY <1>8, <1>10 DEF ToldHasAnswer, Status
<1>16. \A t, q \in Ids : server[t].pending[q] # 0 => server[t].pending[q] \in Exchanges
  BY HttpIsTyped
<1>17. OwnNumber'
  BY <1>8, <1>10, <1>11, <1>16 DEF OwnNumber
<1>18. objects'["server"] = objects["server"]
  BY <1>12, Words
<1>19. AskedCanBeAnswered'
  <2>1. ASSUME NEW d \in Exchanges', exchange'[d].st = "asked"
        PROVE  /\ exchange'[d].server \in objects'["server"]
               /\ server'[exchange'[d].server].pending[exchange'[d].rid] = d
    <3>1. CASE d = e
      BY <1>2, <1>8, <1>10, <1>11, <1>18, <2>1, <3>1
    <3>2. CASE d # e
      <4>1. d \in Exchanges /\ exchange'[d] = exchange[d]
        BY <1>10, <3>2
      <4>2. /\ exchange[d].server \in objects["server"]
            /\ server[exchange[d].server].pending[exchange[d].rid] = d
        BY <2>1, <4>1 DEF AskedCanBeAnswered, Status
      <4>3. d # 0 /\ exchange[d].server \in Ids /\ exchange[d].rid \in Ids
        BY <4>1, ExchangesAre, HttpIsTyped
      <4>4. QED
        BY <1>7, <1>11, <1>18, <4>1, <4>2, <4>3
    <3>3. QED
      BY <3>1, <3>2
  <2>2. ASSUME NEW t \in Ids, NEW q \in Ids, server'[t].pending[q] # 0
        PROVE  /\ exchange'[server'[t].pending[q]].st \in {"asked", "gone"}
               /\ exchange'[server'[t].pending[q]].answer = "none"
    <3>1. CASE t = s /\ q = rid /\ free
      BY <1>8, <1>10, <1>11, <3>1
    <3>2. CASE ~(t = s /\ q = rid /\ free)
      <4>1. server'[t].pending[q] = server[t].pending[q] /\ server[t].pending[q] # 0
        BY <1>11, <2>2, <3>2
      <4>2. /\ exchange[server[t].pending[q]].st \in {"asked", "gone"}
            /\ exchange[server[t].pending[q]].answer = "none"
        BY <4>1 DEF AskedCanBeAnswered, Status
      <4>3. QED
        BY <1>10, <1>16, <4>1, <4>2
    <3>3. QED
      BY <3>1, <3>2
  <2>3. QED
    BY <2>1, <2>2 DEF AskedCanBeAnswered, Status
<1>20. LiveOnServer'
  BY <1>8, <1>10, <1>18 DEF LiveOnServer, Status
<1>21. ServerOwnsListen'
  <2>1. ListenFrame
    BY <1>9, SameFrame
  <2>2. QED
    BY <1>11, <1>18, <2>1, ListenStays
<1>22. ASSUME NEW uy \in {"serverRequestBody", "serverResponseBody"}, NEW j \in objects'[uy]
       PROVE  /\ holder'[uy][j] # 0 /\ exchange'[holder'[uy][j]].st # "gone"
              /\ exchange'[holder'[uy][j]].server \in objects'["server"]
              /\ uy = "serverResponseBody" =>
                    /\ j \in objects[uy] /\ holder'[uy][j] = holder[uy][j]
                    /\ exchange'[holder'[uy][j]].st = "streaming"
  <2>0. uy \in ObjectTypes /\ uy \in Held
    BY Words DEF Held
  <2>1. CASE uy = "serverRequestBody" /\ j = b
    <3>1. holder'[uy][j] = e
      BY <1>13, <2>0, <2>1
    <3>2. QED
      BY <1>6, <1>8, <1>10, <1>18, <2>1, <3>1
  <2>2. CASE ~(uy = "serverRequestBody" /\ j = b)
    <3>1. j \in objects[uy]
      BY <1>12, <2>0, <2>2
    <3>2. PICK d \in Exchanges : d = holder[uy][j]
      BY <3>1, BodiesTyped
    <3>3. holder'[uy][j] = d
      BY <1>13, <2>0, <2>2, <3>1, <3>2, BodiesTyped
    <3>4. /\ d # 0 /\ exchange[d].st # "gone" /\ exchange[d].server \in objects["server"]
          /\ uy = "serverResponseBody" => exchange[d].st = "streaming"
      BY <3>1, <3>2 DEF BodiesBacked, Status
    <3>5. QED
      BY <1>10, <1>18, <3>1, <3>2, <3>3, <3>4
  <2>3. QED
    BY <2>1, <2>2
<1>23. BodiesBacked' /\ OneBody'
  BY <1>22 DEF BodiesBacked, OneBody, Status
<1>24. SocketsBacked'
  <2>1. objects'["webSocket"] = objects["webSocket"]
    BY <1>12, Words
  <2>2. \A j \in Ids : holder'["webSocket"][j] = holder["webSocket"][j]
    BY <1>13 DEF Held
  <2>3. QED
    BY <1>10, <2>1, <2>2, BodiesTyped DEF SocketsBacked, Status
<1>25. QED
  BY <1>14, <1>15, <1>17, <1>19, <1>20, <1>21, <1>23, <1>24, ArriveSafe

-----------------------------------------------------------------------------
(* The servers come and go.                                                *)

LEMMA ListenKeeps == ASSUME LoopInv, HeapInv, HttpInv, ResumeListen PROVE Safe /\ HttpInv'
<1> USE DEF HttpInv
<1>1. CASE Fails /\ UNCHANGED <<heapVars, httpVars>>
  BY <1>1, HeapSameFrame, CalmKeeps, ResumeListenSafe
<1>2. CASE ~(Fails /\ UNCHANGED <<heapVars, httpVars>>)
  <2> DEFINE ss == FreshFrom(nextId["server"], objects["server"])
             pp == FreshFrom(nextId["void"], Busy("void"))
  <2>1. /\ Room("server") /\ Room("void")
        /\ NewLeaf("listen", <<"server", ss>>)
        /\ promises' = [promises EXCEPT !["void"][pp] = NewNode]
        /\ objects' = [objects EXCEPT !["server"] = @ \cup {ss}]
        /\ server' = [server EXCEPT ![ss] = [NoServer EXCEPT !.listen = pp]]
        /\ UNCHANGED <<tls, exchange, holder>>
    BY <1>2 DEF ResumeListen, NewNode
  <2>2. ss \in Ids \ objects["server"] /\ pp \in Ids
    BY <2>1, FreeEntry, FreeObject, Words DEF HeapInv
  <2> HIDE DEF ss, pp
  <2>3. PICK s \in Ids \ objects["server"] : s = ss
    BY <2>2
  <2>4. PICK p \in Ids : p = pp
    BY <2>2
  <2> DEFINE leaf == Leaf("listen", <<"server", s>>)
             mine == [NoServer EXCEPT !.listen = p]
  <2>5. leaf.kind = "listen" /\ leaf.on[2] = s
    BY DEF Leaf
  <2>6. /\ mine \in ServerRecords /\ mine.listen = p
        /\ \A r \in Ids : mine.pending[r] = 0
    <3>1. NoServer \in ServerRecords /\ \A r \in Ids : NoServer.pending[r] = 0
      BY NoServerIsRecord DEF NoServer
    <3>2. PICK old \in ServerRecords : old = NoServer
      BY <3>1
    <3>3. QED
      BY <3>1, <3>2 DEF ServerRecords
  <2>7. /\ nodes' = Append(nodes, leaf)
        /\ promises' = [promises EXCEPT !["void"][p] = NewNode]
        /\ objects' = [objects EXCEPT !["server"] = @ \cup {s}]
        /\ server' = [server EXCEPT ![s] = mine]
    BY <2>1, <2>3, <2>4 DEF NewLeaf
  <2> HIDE DEF leaf, mine
  <2>8. nodes'[NewNode] = leaf /\ \A n \in Nodes : nodes'[n] = nodes[n]
    <3>1. nodes \in Seq(NodeRecords) /\ Len(nodes) \in Nat /\ Nodes = 1..Len(nodes)
      BY DEF HeapInv, HeapTypeOK, NodesTypeOK, Nodes
    <3>2. QED
      BY <2>7, <3>1 DEF NewNode
  <2> HIDE DEF NewNode
  <2>9. \A i \in Ids : /\ promises'["void"][i] = IF i = p THEN NewNode ELSE promises["void"][i]
                       /\ promises["void"][i] # 0 => promises["void"][i] \in Nodes
    <3>1. promises \in [PromiseTypes -> [Ids -> {0} \cup Nodes]] /\ "void" \in PromiseTypes
      BY Words DEF HeapInv, HeapTypeOK
    <3>2. promises'["void"] = [promises["void"] EXCEPT ![p] = NewNode]
      BY <2>7, <3>1
    <3>3. promises["void"] \in [Ids -> {0} \cup Nodes]
      BY <3>1
    <3>4. QED
      BY <3>2, <3>3
  <2>10. \A uy \in ObjectTypes :
            objects'[uy] = IF uy = "server" THEN objects[uy] \cup {s} ELSE objects[uy]
    BY <2>7, HeapIsTyped, Words
  <2>11. /\ server' \in [Ids -> ServerRecords]
         /\ \A t \in Ids : server'[t] = IF t = s THEN mine ELSE server[t]
    BY <2>6, <2>7, ServerReplaced
  <2>12. Exchanges' = Exchanges
    BY <2>1 DEF Exchanges
  <2>13. HttpTypeOK'
    BY <2>1, <2>11, <2>12 DEF HttpTypeOK, ServerRecords
  <2>14. ToldHasAnswer' /\ OwnNumber'
    <3>1. ToldHasAnswer'
      BY <2>1, <2>12 DEF ToldHasAnswer, Status
    <3>2. \A t, q \in Ids : server'[t].pending[q] # 0 =>
             server'[t].pending[q] = server[t].pending[q]
      BY <2>6, <2>11
    <3>3. OwnNumber'
      BY <2>1, <3>2 DEF OwnNumber
    <3>4. QED
      BY <3>1, <3>3
  <2>15. objects["server"] \subseteq objects'["server"]
    BY <2>10, Words
  <2>16. AskedCanBeAnswered'
    <3>1. ASSUME NEW d \in Exchanges, exchange[d].st = "asked"
          PROVE  /\ exchange[d].server \in objects'["server"]
                 /\ server'[exchange[d].server].pending[exchange[d].rid] = d
      <4>1. /\ exchange[d].server \in objects["server"]
            /\ server[exchange[d].server].pending[exchange[d].rid] = d
        BY <3>1 DEF AskedCanBeAnswered, Status
      <4>2. exchange[d].server \in Ids /\ exchange[d].server # s
        BY <4>1, HttpIsTyped
      <4>3. QED
        BY <2>11, <2>15, <4>1, <4>2
    <3>2. \A t, q \in Ids : server'[t].pending[q] # 0 =>
             /\ exchange[server'[t].pending[q]].st \in {"asked", "gone"}
             /\ exchange[server'[t].pending[q]].answer = "none"
      BY <2>6, <2>11 DEF AskedCanBeAnswered, Status
    <3>3. QED
      BY <2>1, <2>12, <3>1, <3>2 DEF AskedCanBeAnswered, Status
  <2>17. LiveOnServer'
    BY <2>1, <2>12, <2>15 DEF LiveOnServer, Status
  <2>18. \A ty \in {"serverRequestBody", "serverResponseBody", "webSocket"} :
            objects'[ty] = objects[ty]
    BY <2>10, Words
  <2>19. BodiesBacked' /\ OneBody' /\ SocketsBacked'
    BY <2>1, <2>15, <2>18 DEF BodiesBacked, OneBody, SocketsBacked, Status
  <2>20. ServerOwnsListen'
    <3>1. ASSUME NEW i \in Ids \ {0}, promises'["void"][i] # 0,
                 nodes'[promises'["void"][i]].kind = "listen"
          PROVE  /\ nodes'[promises'["void"][i]].on[2] \in objects'["server"]
                 /\ server'[nodes'[promises'["void"][i]].on[2]].listen = i
      <4>1. CASE i = p
        <5>1. nodes'[promises'["void"][i]] = leaf
          BY <2>8, <2>9, <4>1
        <5>2. s \in objects'["server"] /\ server'[s].listen = i
          BY <2>6, <2>10, <2>11, <4>1, Words
        <5>3. QED
          BY <2>5, <5>1, <5>2
      <4>2. CASE i # p
        <5>1. PICK n \in Nodes : n = promises["void"][i] /\ n = promises'["void"][i]
          BY <2>9, <3>1, <4>2
        <5>2. nodes'[n] = nodes[n] /\ n # 0 /\ nodes[n].kind = "listen"
          BY <2>8, <3>1, <5>1
        <5>3. nodes[n].on[2] \in objects["server"] /\ server[nodes[n].on[2]].listen = i
          BY <5>1, <5>2 DEF ServerOwnsListen
        <5>4. nodes[n].on[2] \in Ids /\ nodes[n].on[2] # s
          BY <5>3, HeapIsTyped, Words
        <5>5. server'[nodes[n].on[2]].listen = i
          BY <2>11, <5>3, <5>4
        <5>6. QED
          BY <2>15, <5>1, <5>2, <5>3, <5>5
      <4>3. QED
        BY <4>1, <4>2
    <3>2. QED
      BY <3>1 DEF ServerOwnsListen
  <2>21. QED
    BY <2>13, <2>14, <2>16, <2>17, <2>19, <2>20, ResumeListenSafe
<1>3. QED
  BY <1>1, <1>2

\* A server goes with its exchanges, their bodies and the promise that accepts.
LEMMA ServerReleaseKeeps ==
    ASSUME LoopInv, HeapInv, HttpInv, HttpServerRelease
    PROVE  Safe /\ HttpInv'
<1> USE DEF HttpInv
<1>1. CASE Rejects /\ UNCHANGED httpVars
  <2>1. Attending
    BY ServingAttends DEF HttpServerRelease
  <2>2. QED
    BY <1>1, <2>1, AnswerCalm, CalmKeeps DEF Calm
<1>2. CASE ~(Rejects /\ UNCHANGED httpVars)
  <2>1. PICK s \in Ids : s = Arg(1)
    BY <1>2, HeapIsTyped, Words DEF HttpServerRelease, Has
  <2>2. /\ nodes' = Broken({s})
        /\ promises' = [promises EXCEPT !["void"] =
                           [i \in Ids |-> IF i \in ListenIds({s}) THEN 0 ELSE @[i]]]
        /\ objects' = [WithoutBodies(OfServer(s)) EXCEPT !["server"] = @ \ {s}]
        /\ exchange' = Gone(OfServer(s))
        /\ server' = [server EXCEPT ![s] = NoServer]
        /\ UNCHANGED <<tls, holder>>
    BY <1>2, <2>1 DEF HttpServerRelease
  <2>3. /\ objects'["server"] = objects["server"] \ {s}
        /\ objects'["webSocket"] = objects["webSocket"]
        /\ \A ty \in {"serverRequestBody", "serverResponseBody"} :
              objects'[ty] = objects[ty] \ BodiesOf(ty, OfServer(s))
    <3> DEFINE left == WithoutBodies(OfServer(s))
    <3>1. /\ left \in [ObjectTypes -> SUBSET Ids]
          /\ left["server"] = objects["server"] /\ left["webSocket"] = objects["webSocket"]
          /\ \A ty \in {"serverRequestBody", "serverResponseBody"} :
                left[ty] = objects[ty] \ BodiesOf(ty, OfServer(s))
      BY WithoutBodiesTyped, Words
    <3>2. objects' = [left EXCEPT !["server"] = @ \ {s}]
      BY <2>2
    <3> HIDE DEF left
    <3>3. QED
      BY <3>1, <3>2, Words
  <2>4. /\ Moves
        /\ \A d \in Exchanges :
              exchange'[d].st = IF d \in OfServer(s) THEN "gone" ELSE exchange[d].st
    BY <2>2, ServerGoneMoves
  <2>5. \A d \in Exchanges : d \in OfServer(s) <=> exchange[d].server = s
    BY DEF OfServer
  <2>6. BodiesBacked' /\ OneBody' /\ SocketsBacked'
    BY <2>2, <2>3, <2>5, EndingKeepsBodies
  <2>7. /\ server' \in [Ids -> ServerRecords]
        /\ \A t \in Ids : server'[t] = IF t = s THEN NoServer ELSE server[t]
    BY <2>2, NoServerIsRecord, ServerReplaced
  <2>8. \A r \in Ids : NoServer.pending[r] = 0
    BY DEF NoServer
  <2>9. HttpTypeOK'
    BY <2>2, <2>4, <2>7 DEF Moves, HttpTypeOK, ServerRecords
  <2>10. ToldHasAnswer' /\ LiveOnServer'
    BY <2>3, <2>4, <2>5 DEF Moves, ToldHasAnswer, LiveOnServer, Status
  <2>11. \A t, q \in Ids : server'[t].pending[q] # 0 =>
            /\ server'[t].pending[q] = server[t].pending[q]
            /\ server[t].pending[q] \in Exchanges
    BY <2>7, <2>8, HttpIsTyped
  <2>12. OwnNumber'
    BY <2>4, <2>11 DEF Moves, OwnNumber
  <2>13. AskedCanBeAnswered'
    <3>1. ASSUME NEW d \in Exchanges, exchange'[d].st = "asked"
          PROVE  /\ exchange'[d].server \in objects'["server"]
                 /\ server'[exchange'[d].server].pending[exchange'[d].rid] = d
      <4>1. exchange[d].st = "asked" /\ exchange[d].server # s
        BY <2>4, <2>5, <3>1
      <4>2. /\ exchange[d].server \in objects["server"] /\ exchange[d].server \in Ids
            /\ server[exchange[d].server].pending[exchange[d].rid] = d
        BY <4>1, HttpIsTyped DEF AskedCanBeAnswered, Status
      <4>3. QED
        BY <2>3, <2>4, <2>7, <4>1, <4>2 DEF Moves
    <3>2. ASSUME NEW t \in Ids, NEW q \in Ids, server'[t].pending[q] # 0
          PROVE  /\ exchange'[server'[t].pending[q]].st \in {"asked", "gone"}
                 /\ exchange'[server'[t].pending[q]].answer = "none"
      <4>1. PICK d \in Exchanges : d = server[t].pending[q] /\ d = server'[t].pending[q]
        BY <2>11, <3>2
      <4>2. server[t].pending[q] # 0
        BY <2>11, <3>2
      <4>3. /\ exchange[server[t].pending[q]].st \in {"asked", "gone"}
            /\ exchange[server[t].pending[q]].answer = "none"
        BY <4>2 DEF AskedCanBeAnswered, Status
      <4>4. QED
        BY <2>4, <4>1, <4>3 DEF Moves
    <3>3. QED
      BY <2>4, <3>1, <3>2 DEF AskedCanBeAnswered, Moves, Status
  <2>14. ServerOwnsListen'
    <3>1. \A n \in Nodes : nodes'[n].kind = nodes[n].kind /\ nodes'[n].on = nodes[n].on
      <4>1. \A n \in Nodes : nodes[n] \in NodeRecords
        BY DEF HeapInv, HeapTypeOK, NodesTypeOK, Nodes
      <4>2. QED
        BY <2>2, <4>1 DEF Broken, NodeRecords
    <3>2. \A i \in Ids :
             /\ promises'["void"][i] = IF i \in ListenIds({s}) THEN 0 ELSE promises["void"][i]
             /\ promises["void"][i] # 0 => promises["void"][i] \in Nodes
      BY <2>2, Words DEF HeapInv, HeapTypeOK
    <3>3. ASSUME NEW i \in Ids \ {0}, promises'["void"][i] # 0,
                 nodes'[promises'["void"][i]].kind = "listen"
          PROVE  /\ nodes'[promises'["void"][i]].on[2] \in objects'["server"]
                 /\ server'[nodes'[promises'["void"][i]].on[2]].listen = i
      <4>1. PICK n \in Nodes : n = promises["void"][i] /\ n = promises'["void"][i]
        BY <3>2, <3>3
      <4>2. nodes[n].kind = "listen" /\ n # 0 /\ nodes'[n].on = nodes[n].on
        BY <3>1, <3>3, <4>1
      <4>3. nodes[n].on[2] \in objects["server"] /\ server[nodes[n].on[2]].listen = i
        BY <4>1, <4>2 DEF ServerOwnsListen
      <4>4. nodes[n].on[2] # s
        BY <3>2, <3>3, <4>3 DEF ListenIds
      <4>5. nodes[n].on[2] \in Ids
        BY <4>3, HeapIsTyped, Words
      <4>6. QED
        BY <2>3, <2>7, <4>1, <4>2, <4>3, <4>4, <4>5
    <3>4. QED
      BY <3>3 DEF ServerOwnsListen
  <2>15. QED
    BY <2>6, <2>9, <2>10, <2>12, <2>13, <2>14, ServerReleaseSafe
<1>3. QED
  BY <1>1, <1>2

\* The end of run(): every server is released and every table cleared.
LEMMA TearDownKeeps == ASSUME LoopInv, HeapInv, HttpInv, Teardown PROVE Safe /\ HttpInv'
<1> USE DEF HttpInv
<1>1. Safe
  BY TeardownKeeps, KeptIsSafe DEF Teardown
<1>2. /\ exchange' = Gone(Exchanges) /\ tls' = FALSE
      /\ server' = [s \in Ids |-> NoServer]
      /\ holder' = [ty \in Held |-> [i \in Ids |-> 0]]
      /\ promises' = [ty \in PromiseTypes |-> [i \in Ids |-> 0]]
      /\ objects' = [ty \in ObjectTypes |-> {}]
  BY DEF Teardown, ClearTables
<1>3. Moves /\ \A d \in Exchanges : exchange'[d].st = "gone"
  BY <1>2, GoneMoves
<1>4. NoServer \in ServerRecords' /\ \A r \in Ids : NoServer.pending[r] = 0
  BY <1>3, NoServerIsRecord DEF NoServer, ServerRecords, Moves
<1>5. HttpTypeOK'
  BY <1>2, <1>3, <1>4 DEF HttpTypeOK, Moves
<1>6. ToldHasAnswer' /\ LiveOnServer'
  BY <1>3 DEF Moves, ToldHasAnswer, LiveOnServer, Status
<1>7. OwnNumber' /\ AskedCanBeAnswered'
  BY <1>2, <1>3, <1>4 DEF Moves, OwnNumber, AskedCanBeAnswered, Status
<1>8. BodiesBacked' /\ OneBody'
  BY <1>2, Words DEF BodiesBacked, OneBody
<1>9. SocketsBacked'
  BY <1>2 DEF SocketsBacked, Held
<1>10. ServerOwnsListen'
  BY <1>2, Words DEF ServerOwnsListen
<1>11. QED
  BY <1>1, <1>5, <1>6, <1>7, <1>8, <1>9, <1>10

LEMMA HttpInitOK == HttpInit /\ HeapInit => HttpInv
<1> SUFFICES ASSUME HttpInit, HeapInit PROVE HttpInv
  OBVIOUS
<1>1. /\ exchange = <<>> /\ tls = FALSE /\ server = [s \in Ids |-> NoServer]
      /\ holder = [ty \in Held |-> [i \in Ids |-> 0]]
      /\ \A i \in Ids : promises["void"][i] = 0
      /\ \A ty \in ObjectTypes : objects[ty] = {}
  BY Words DEF HttpInit, HeapInit
<1>2. exchange \in Seq(ExchangeRecords) /\ Exchanges = {}
  BY <1>1 DEF Exchanges
<1>3. \A r \in Ids : NoServer.pending[r] = 0
  BY DEF NoServer
<1>4. HttpTypeOK
  BY <1>1, <1>2, NoServerIsRecord DEF HttpTypeOK
<1>5. ToldHasAnswer /\ LiveOnServer /\ OwnNumber /\ AskedCanBeAnswered
  BY <1>1, <1>2, <1>3 DEF ToldHasAnswer, LiveOnServer, OwnNumber, AskedCanBeAnswered
<1>6. BodiesBacked /\ OneBody /\ SocketsBacked
  BY <1>1, Words DEF BodiesBacked, OneBody, SocketsBacked, Held
<1>7. ServerOwnsListen
  BY <1>1 DEF ServerOwnsListen
<1>8. QED
  BY <1>4, <1>5, <1>6, <1>7 DEF HttpInv

LEMMA NextKeeps ==
    ASSUME LoopInv, HeapInv, HttpInv, [Next]_vars
    PROVE  Safe /\ HttpInv'
<1>1. CASE (\E c \in Calls : Clients(c)) \/ Release \/ TakeNext \/ UNCHANGED vars
  BY <1>1, OutsideCalm, CalmKeeps DEF Calm
<1>2. CASE Perform
  BY <1>2, PerformCalm, CalmKeeps DEF Calm
<1>3. CASE PerformHttp
  BY <1>3, TlsKeeps, ReleasesKeep, DrainKeeps, ServerReleaseKeeps, PollKeeps, RespondKeeps,
     FinishesKeep DEF PerformHttp, RunServer, RunServerRequests, RunServerResponses
<1>4. CASE Finish
  BY <1>4, ResumeCalm, CalmKeeps, ListenKeeps DEF Finish, Calm
<1>5. CASE Teardown
  BY <1>5, TearDownKeeps
<1>6. CASE Turn
  <2>1. CASE ((SettleSure \/ ReapTask) /\ UNCHANGED httpVars) \/ SettleDrain
    BY <2>1, EventsCalm, CalmKeeps DEF Calm, SettleDrain
  <2>2. CASE ExchangeDone
    BY <2>2, EndsKeep DEF ExchangeDone
  <2>3. CASE \E e \in Exchanges : Continue(e)
    BY <2>3, ContinueKeeps
  <2>4. QED
    BY <1>6, <2>1, <2>2, <2>3 DEF Turn
<1>7. CASE Peer
  <2>1. CASE (SettlePeer /\ UNCHANGED httpVars) \/ SettleStream
    BY <2>1, EventsCalm, CalmKeeps DEF Calm, SettleStream
  <2>2. CASE ExchangeWritten \/ ClientLeaves
    BY <2>2, EndsKeep DEF ExchangeWritten, ClientLeaves
  <2>3. CASE Arrive
    BY <2>3, ArriveKeeps
  <2>4. QED
    BY <1>7, <2>1, <2>2, <2>3 DEF Peer
<1>8. QED
  BY <1>1, <1>2, <1>3, <1>4, <1>5, <1>6, <1>7 DEF Next

-----------------------------------------------------------------------------
(* Part 3.  Exchanges can end.  An exchange that loses its body to the     *)
(* cleanup of another, which has its number, ends with it.                 *)

\* An answer that completes the call that gave it.
Pumped(e) == Status(e) = "told" /\ exchange[e].answer # "http"

\* The thread pumps for one exchange at a time.
OneTold   == \A d, e \in Exchanges : Pumped(d) /\ Pumped(e) => d = e
ToldWaits == \A e \in Exchanges : Pumped(e) => wait.how = "pump"

\* Who streams has a body, and who is upgraded a socket.
HeldHere ==
    \A e \in Exchanges :
       /\ Status(e) = "streaming" => \E i \in objects["serverResponseBody"] :
                                        holder["serverResponseBody"][i] = e
       /\ Status(e) = "upgraded" => \E i \in objects["webSocket"] : holder["webSocket"][i] = e

EndInv == OneTold /\ ToldWaits /\ PumpInv /\ HeldHere

LEMMA ToldKept ==
    ASSUME OneTold, ToldWaits, PumpInv, PumpFrame, Exchanges' = Exchanges,
           \A d \in Exchanges : /\ exchange'[d].st = "told" => exchange[d].st = "told"
                                /\ exchange'[d].answer = exchange[d].answer
    PROVE  OneTold' /\ ToldWaits' /\ PumpInv'
<1>1. \A d \in Exchanges : Pumped(d)' => Pumped(d)
  BY DEF Pumped, Status
<1>2. PumpInv' /\ (wait.how = "pump" => wait'.how = "pump")
  BY DEF PumpFrame
<1>3. OneTold'
  BY <1>1 DEF OneTold
<1>4. ToldWaits'
  BY <1>1, <1>2 DEF ToldWaits
<1>5. QED
  BY <1>2, <1>3, <1>4

LEMMA HeldKept ==
    ASSUME HeldHere, Exchanges' = Exchanges,
           \A d \in Exchanges : exchange'[d].st \in {"streaming", "upgraded"} =>
              /\ exchange[d].st = exchange'[d].st
              /\ \A ty \in {"serverResponseBody", "webSocket"} : \A i \in objects[ty] :
                    holder[ty][i] = d => i \in objects'[ty] /\ holder'[ty][i] = d
    PROVE  HeldHere'
<1>1. SUFFICES ASSUME NEW d \in Exchanges
               PROVE  /\ exchange'[d].st = "streaming" =>
                            \E i \in objects'["serverResponseBody"] :
                               holder'["serverResponseBody"][i] = d
                      /\ exchange'[d].st = "upgraded" =>
                            \E i \in objects'["webSocket"] : holder'["webSocket"][i] = d
  BY DEF HeldHere, Status
<1>2. CASE exchange'[d].st = "streaming"
  <2>1. PICK i \in objects["serverResponseBody"] : holder["serverResponseBody"][i] = d
    BY <1>2 DEF HeldHere, Status
  <2>2. QED
    BY <1>2, <2>1
<1>3. CASE exchange'[d].st = "upgraded"
  <2>1. PICK i \in objects["webSocket"] : holder["webSocket"][i] = d
    BY <1>3 DEF HeldHere, Status
  <2>2. QED
    BY <1>3, <2>1
<1>4. QED
  BY <1>2, <1>3

\* Exchanges, bodies and sockets stay as they are.
LEMMA QuietCanEnd ==
    ASSUME HttpInv, EndInv, Frame, PumpFrame, UNCHANGED <<exchange, holder>>
    PROVE  EndInv'
<1> USE DEF HttpInv, EndInv
<1>1. exchange' \in Seq(ExchangeRecords) /\ Exchanges' = Exchanges
  BY DEF HttpTypeOK, Exchanges
<1>2. OneTold' /\ ToldWaits' /\ PumpInv'
  BY <1>1, ToldKept
<1>3. HeldHere'
  BY <1>1, HeldKept DEF Frame, ObjectsFrame
<1>4. QED
  BY <1>2, <1>3

LEMMA CalmCanEnd ==
    ASSUME HttpInv, EndInv, Calm, UNCHANGED httpVars
    PROVE  EndInv'
BY QuietCanEnd DEF Calm, httpVars

LEMMA TlsCanEnd == ASSUME LoopInv, HeapInv, HttpInv, EndInv, RunTls PROVE EndInv'
<1>1. Attending
  BY ServingAttends DEF RunTls, EnableTls, ConfigureTls
<1>2. (Returns \/ Rejects) /\ UNCHANGED <<server, exchange, holder>>
  BY DEF RunTls, EnableTls, ConfigureTls
<1>3. QED
  BY <1>1, <1>2, AnswerCalm, QuietCanEnd DEF Calm

LEMMA DrainCanEnd ==
    ASSUME LoopInv, HeapInv, HttpInv, EndInv, HttpServerDrainStart \/ HttpServerDrain
    PROVE  EndInv'
<1>0. Attending
  BY ServingAttends DEF HttpServerDrainStart, HttpServerDrain
<1>1. UNCHANGED <<tls, exchange, holder>>
  BY DEF HttpServerDrainStart, HttpServerDrain
<1>2. PICK kind \in Kinds \ {"listen"} : kind = DrainKind
  BY Words DEF DrainKind
<1>3. CASE Rejects /\ UNCHANGED server
  BY <1>0, <1>1, <1>3, AnswerCalm, QuietCanEnd DEF Calm
<1>4. CASE ~(Rejects /\ UNCHANGED server)
  <2>1. PICK s \in Ids : s = Arg(1) /\ Has("server", s)
    BY <1>4, HeapIsTyped, Words DEF HttpServerDrainStart, HttpServerDrain, Has
  <2>2. \/ Start("void", kind, <<"server", Arg(1)>>)
        \/ StartAndAwait("void", kind, <<"server", Arg(1)>>, "value")
    BY <1>2, <1>4, <2>1 DEF HttpServerDrainStart, HttpServerDrain
  <2>3. <<"server", Arg(1)>> \in Abouts
    BY <2>1, KnownIsAbout, Words
  <2>4. Calm
    BY <1>0, <2>2, <2>3, StartCalm, Words
  <2>5. QED
    BY <1>1, <2>4, QuietCanEnd DEF Calm
<1>5. QED
  BY <1>3, <1>4

LEMMA PollCanEnd ==
    ASSUME LoopInv, HeapInv, HttpInv, EndInv, HttpServerPollRequest
    PROVE  EndInv'
<1>1. UNCHANGED heapVars /\ UNCHANGED <<wait, exchange, holder>>
  BY DEF HttpServerPollRequest, Returns, Rejects
<1>2. Frame /\ PumpFrame
  BY <1>1, HeapSameFrame, SamePump DEF heapVars
<1>3. QED
  BY <1>1, <1>2, QuietCanEnd

\* A response body or a socket is let go: nobody else streamed into it.
LEMMA LetGoCanEnd ==
    ASSUME HeapInv, HttpInv, EndInv, PumpFrame, NEW ty \in {"serverResponseBody", "webSocket"},
           NEW i \in objects[ty], i = Arg(1), Gives(ty), LetGo(ty), UNCHANGED server,
           \/ holder' = [holder EXCEPT ![ty][i] = 0]
           \/ holder' = holder
    PROVE  EndInv'
<1> USE DEF HttpInv, EndInv
<1>0. i \in Ids /\ ty \in ObjectTypes /\ ty \in Held
  BY HeapIsTyped, Words DEF Held
<1>1. /\ Moves
      /\ \A d \in Exchanges : /\ exchange'[d].st \in {exchange[d].st, "finishing"}
                              /\ exchange[d].st = "gone" => exchange'[d].st = "gone"
                              /\ d = holder[ty][i] => exchange'[d].st \in {"finishing", "gone"}
  BY <1>0, LetGoMoves
<1>2. OneTold' /\ ToldWaits' /\ PumpInv'
  BY <1>1, ToldKept DEF Moves
<1>3. HeldHere'
  <2>1. \A uy \in ObjectTypes : objects'[uy] = IF uy = ty THEN objects[uy] \ {i} ELSE objects[uy]
    BY <1>0, HeapIsTyped DEF Gives
  <2>2. \A uy \in Held : \A j \in Ids :
           uy # ty \/ j # i => holder'[uy][j] = holder[uy][j]
    BY <1>0 DEF HttpTypeOK
  <2>3. ASSUME NEW d \in Exchanges, exchange'[d].st \in {"streaming", "upgraded"},
               NEW uy \in {"serverResponseBody", "webSocket"}, NEW j \in objects[uy],
               holder[uy][j] = d
        PROVE  j \in objects'[uy] /\ holder'[uy][j] = d
    <3>1. uy # ty \/ j # i
      BY <1>1, <2>3
    <3>2. uy \in ObjectTypes /\ uy \in Held /\ j \in Ids
      BY HeapIsTyped, Words DEF Held
    <3>3. QED
      BY <2>1, <2>2, <2>3, <3>1, <3>2
  <2>4. QED
    BY <1>1, <2>3, HeldKept DEF Moves
<1>4. QED
  BY <1>2, <1>3

LEMMA ReleasesCanEnd ==
    ASSUME LoopInv, HeapInv, HttpInv, EndInv, WebSocketRelease \/ HttpServerResponseBodyRelease
    PROVE  EndInv'
<1>0. Attending
  BY ServingAttends DEF WebSocketRelease, HttpServerResponseBodyRelease
<1>1. PICK ty \in {"serverResponseBody", "webSocket"} : Releases(ty)
  BY DEF WebSocketRelease, HttpServerResponseBodyRelease
<1>2. CASE ~Has(ty, Arg(1))
  BY <1>0, <1>1, <1>2, AnswerCalm, CalmCanEnd DEF Releases
<1>3. CASE Has(ty, Arg(1))
  <2>1. /\ Arg(1) \in objects[ty] /\ Gives(ty) /\ LetGo(ty)
        /\ holder' = [holder EXCEPT ![ty][Arg(1)] = 0]
        /\ UNCHANGED <<sets, wait, server>>
    BY <1>1, <1>3 DEF Releases, Has
  <2>2. PumpFrame
    BY <1>0, <2>1, ServedFrame
  <2>3. QED
    BY <2>1, <2>2, LetGoCanEnd
<1>4. QED
  BY <1>2, <1>3

LEMMA FinishesCanEnd ==
    ASSUME LoopInv, HeapInv, HttpInv, EndInv,
           HttpServerResponseBodyFinishStart \/ HttpServerResponseBodyFinish
    PROVE  EndInv'
<1>0. Attending
  BY ServingAttends DEF HttpServerResponseBodyFinishStart, HttpServerResponseBodyFinish
<1>1. CASE Unknown
  BY <1>0, <1>1, AnswerCalm, CalmCanEnd DEF Unknown
<1>2. CASE ~Unknown
  <2>1. /\ Arg(1) \in objects["serverResponseBody"]
        /\ Gives("serverResponseBody") /\ LetGo("serverResponseBody")
        /\ ReadyPromise \/ AwaitReady
        /\ UNCHANGED <<server, holder>>
    BY <1>2 DEF HttpServerResponseBodyFinishStart, HttpServerResponseBodyFinish, Finishes, Has
  <2>2. QED
    BY <1>0, <2>1, ReadyFrame, LetGoCanEnd
<1>3. QED
  BY <1>1, <1>2

\* An answer is given while no pump is on, and begins one unless it is a plain answer.
LEMMA RespondCanEnd ==
    ASSUME LoopInv, HeapInv, HttpInv, EndInv,
           \/ HttpServerRespond \/ HttpServerRespondWebSocket \/ HttpServerRespondStartStreaming
    PROVE  EndInv'
<1> USE DEF HttpInv, EndInv
<1>0. Attending
  BY ServingAttends DEF HttpServerRespond, HttpServerRespondWebSocket,
     HttpServerRespondStartStreaming
<1>1. CASE Rejects /\ UNCHANGED httpVars
  BY <1>0, <1>1, AnswerCalm, CalmCanEnd
<1>2. CASE ~(Rejects /\ UNCHANGED httpVars)
  <2>1. PICK how \in {"http", "webSocket", "serverResponseBody"} :
           Answers(how) /\ (Pump \/ (how = "http" /\ Returns))
    BY <1>2 DEF HttpServerRespond, HttpServerRespondWebSocket, HttpServerRespondStartStreaming
  <2>2. UNCHANGED <<objects, sets, holder>>
    BY <2>1 DEF Returns, Pump, heapVars, Answers
  <2>3. PICK s, r \in Ids : \E e \in Exchanges : Answered(s, r, e, how)
    BY <2>1, AnswersOne
  <2>4. PICK e \in Exchanges : Answered(s, r, e, how)
    BY <2>3
  <2>5. /\ exchange' \in Seq(ExchangeRecords) /\ Exchanges' = Exchanges
        /\ exchange[e].st \in {"asked", "gone"}
        /\ \A d \in Exchanges :
              /\ exchange'[d].server = exchange[d].server /\ exchange'[d].rid = exchange[d].rid
              /\ d # e \/ exchange[e].st = "gone" =>
                    exchange'[d].st = exchange[d].st /\ exchange'[d].answer = exchange[d].answer
        /\ exchange[e].st = "asked" => exchange'[e].st = "told" /\ exchange'[e].answer = how
    BY <2>4 DEF Answered, Status
  <2>6. \A d \in Exchanges : Pumped(d)' => d = e /\ how # "http"
    <3>1. \A d \in Exchanges : ~Pumped(d)
      BY <1>0 DEF Attending, NoWait, ToldWaits
    <3>2. QED
      BY <2>5, <3>1 DEF Pumped, Status
  <2>7. OneTold'
    BY <2>5, <2>6 DEF OneTold
  <2>8. PumpInv' /\ (how # "http" => wait'.how = "pump")
    <3>1. NoTaskSets'
      BY <2>2 DEF PumpInv, NoTaskSets
    <3>2. CASE Returns /\ how = "http"
      BY <1>0, <3>1, <3>2 DEF Returns, PumpInv, Attending, NoWait
    <3>3. CASE Pump
      <4>1. nodes \in Seq(NodeRecords) /\ Len(nodes) \in Nat
        BY DEF HeapInv, HeapTypeOK, NodesTypeOK
      <4> DEFINE leaf == Leaf("completion", Nothing)
      <4>0. PICK n : n = Len(nodes) + 1
        OBVIOUS
      <4>2. leaf.kind = "completion" /\ leaf.st = "pending"
        BY DEF Leaf
      <4> HIDE DEF leaf
      <4>3. nodes' = Append(nodes, leaf) /\ wait'.how = "pump" /\ wait'.node = n
        BY <3>3, <4>0 DEF Pump, NewLeaf, leaf
      <4>4. n \in DOMAIN nodes' /\ nodes'[n] = leaf
        BY <4>0, <4>1, <4>3
      <4>5. PumpsFor(n)'
        BY <4>2, <4>4 DEF PumpsFor, Nodes
      <4>6. QED
        BY <3>1, <4>3, <4>5 DEF PumpInv
    <3>4. QED
      BY <2>1, <3>2, <3>3
  <2>9. ToldWaits'
    BY <2>5, <2>6, <2>8 DEF ToldWaits
  <2>10. HeldHere'
    BY <2>2, <2>5, HeldKept
  <2>11. QED
    BY <2>7, <2>8, <2>9, <2>10
<1>3. QED
  BY <1>1, <1>2

\* Exchanges end, and those whose body their cleanup takes no longer stream.
LEMMA EndingKeepsHeld ==
    ASSUME HeapInv, HttpInv, HeldHere, NEW E, exchange' = Gone(E), UNCHANGED holder,
           objects'["serverResponseBody"] =
              objects["serverResponseBody"] \ BodiesOf("serverResponseBody", E),
           objects'["webSocket"] = objects["webSocket"]
    PROVE  HeldHere'
<1>1. /\ Moves
      /\ \A d \in Exchanges : exchange'[d].st = IF d \in E THEN "gone"
                                                ELSE IF d \in Cut(E) THEN "finishing"
                                                ELSE exchange[d].st
  BY GoneMoves
<1>2. ASSUME NEW d \in Exchanges, exchange'[d].st \in {"streaming", "upgraded"},
             NEW ty \in {"serverResponseBody", "webSocket"}, NEW i \in objects[ty],
             holder[ty][i] = d
      PROVE  i \in objects'[ty]
  <2>1. d \notin Cut(E)
    BY <1>1, <1>2
  <2>2. ty = "serverResponseBody" => i \notin BodiesOf(ty, E)
    BY <1>2, <2>1 DEF Cut
  <2>3. QED
    BY <2>2
<1>3. \A d \in Exchanges : exchange'[d].st \in {"streaming", "upgraded"} =>
         exchange[d].st = exchange'[d].st
  BY <1>1
<1>4. QED
  BY <1>1, <1>2, <1>3, HeldKept DEF Moves

LEMMA EndsCanEnd ==
    ASSUME HeapInv, HttpInv, EndInv, NEW e \in Exchanges, Ends(e)
    PROVE  EndInv'
<1> USE DEF EndInv
<1>1. /\ exchange' = Gone({e}) /\ objects' = WithoutBodies({e})
      /\ UNCHANGED <<nodes, sets, wait, holder>>
  BY DEF Ends
<1>2. /\ objects'["webSocket"] = objects["webSocket"]
      /\ objects'["serverResponseBody"] =
            objects["serverResponseBody"] \ BodiesOf("serverResponseBody", {e})
  BY <1>1, WithoutBodiesTyped, Words
<1>3. Moves /\ \A d \in Exchanges : exchange'[d].st = "told" => exchange[d].st = "told"
  BY <1>1, GoneMoves
<1>4. OneTold' /\ ToldWaits' /\ PumpInv'
  BY <1>1, <1>3, SamePump, ToldKept DEF Moves
<1>5. HeldHere'
  BY <1>1, <1>2, EndingKeepsHeld
<1>6. QED
  BY <1>4, <1>5

\* A server goes with all its exchanges.
LEMMA ServerReleaseCanEnd ==
    ASSUME LoopInv, HeapInv, HttpInv, EndInv, HttpServerRelease
    PROVE  EndInv'
<1> USE DEF HttpInv, EndInv
<1>0. Attending
  BY ServingAttends DEF HttpServerRelease
<1>1. CASE Rejects /\ UNCHANGED httpVars
  BY <1>0, <1>1, AnswerCalm, CalmCanEnd
<1>2. CASE ~(Rejects /\ UNCHANGED httpVars)
  <2>1. PICK s \in Ids : s = Arg(1)
    BY <1>2, HeapIsTyped, Words DEF HttpServerRelease, Has
  <2>2. /\ objects' = [WithoutBodies(OfServer(s)) EXCEPT !["server"] = @ \ {s}]
        /\ exchange' = Gone(OfServer(s))
        /\ server' = [server EXCEPT ![s] = NoServer]
        /\ UNCHANGED <<sets, wait, holder>>
    BY <1>2, <2>1 DEF HttpServerRelease
  <2>3. /\ objects'["webSocket"] = objects["webSocket"]
        /\ objects'["serverResponseBody"] =
              objects["serverResponseBody"] \ BodiesOf("serverResponseBody", OfServer(s))
    <3> DEFINE left == WithoutBodies(OfServer(s))
    <3>1. /\ left \in [ObjectTypes -> SUBSET Ids]
          /\ left["webSocket"] = objects["webSocket"]
          /\ left["serverResponseBody"] =
                objects["serverResponseBody"] \ BodiesOf("serverResponseBody", OfServer(s))
      BY WithoutBodiesTyped, Words
    <3>2. objects' = [left EXCEPT !["server"] = @ \ {s}]
      BY <2>2
    <3> HIDE DEF left
    <3>3. QED
      BY <3>1, <3>2, Words
  <2>4. /\ Moves
        /\ \A d \in Exchanges :
              exchange'[d].st = IF exchange[d].server = s THEN "gone" ELSE exchange[d].st
    BY <2>2, ServerGoneMoves DEF OfServer
  <2>5. OneTold' /\ ToldWaits' /\ PumpInv'
    BY <1>0, <2>2, <2>4, ServedFrame, ToldKept DEF Moves
  <2>6. HeldHere'
    BY <2>2, <2>3, EndingKeepsHeld
  <2>7. QED
    BY <2>5, <2>6
<1>3. QED
  BY <1>1, <1>2

\* The answer is acted upon: the pump ends, and a body or a socket is there to let go.
LEMMA ContinueCanEnd ==
    ASSUME LoopInv, HeapInv, HttpInv, EndInv, NEW e \in Exchanges, Continue(e)
    PROVE  EndInv'
<1> USE DEF HttpInv, EndInv
<1>1. PICK ty \in {"http", "webSocket", "serverResponseBody"} : ty = exchange[e].answer
  BY ExchangesAre DEF Continue, ToldHasAnswer, ExchangeRecords
<1> DEFINE i == FreshFrom(nextId[ty], objects[ty])
<1>2. exchange[e].st = "told" /\ UNCHANGED server
  BY DEF Continue, Status
<1>3. PICK st \in {"writing", "streaming", "upgraded", "finishing"} :
         /\ exchange' = [exchange EXCEPT ![e].st = st]
         /\ \/ /\ ty = "http" /\ st \in {"writing", "finishing"}
               /\ UNCHANGED <<nodes, sets, wait, objects, holder>>
            \/ /\ ty # "http" /\ st = "finishing"
               /\ wait' = NoWait /\ UNCHANGED <<sets, objects, holder>>
            \/ /\ ty # "http" /\ Room(ty)
               /\ st = IF ty = "webSocket" THEN "upgraded" ELSE "streaming"
               /\ objects' = [objects EXCEPT ![ty] = @ \cup {i}]
               /\ holder' = [holder EXCEPT ![ty][i] = e]
               /\ wait' = NoWait /\ UNCHANGED sets
  BY <1>1 DEF Continue, heapVars
<1>4. Moves /\ \A d \in Exchanges : exchange'[d].st = IF d = e THEN st ELSE exchange[d].st
  <2>1. StatusTo(e, st)
    BY <1>3, StatusSet DEF Statuses
  <2>2. QED
    BY <1>2, <2>1, StatusMoves DEF StatusTo
<1>5. OneTold' /\ ToldWaits' /\ PumpInv'
  <2>1. CASE ty = "http"
    <3>1. PumpFrame
      BY <1>3, <2>1, SamePump
    <3>2. QED
      BY <1>3, <1>4, <3>1, ToldKept DEF Moves
  <2>2. CASE ty # "http"
    <3>1. wait'.how # "pump" /\ UNCHANGED sets
      BY <1>3, <2>2 DEF NoWait
    <3>2. PumpInv'
      BY <3>1 DEF PumpInv, NoTaskSets
    <3>3. \A d \in Exchanges : ~Pumped(d)'
      <4>1. Pumped(e)
        BY <1>1, <1>2, <2>2 DEF Pumped, Status
      <4>2. \A d \in Exchanges : Pumped(d)' => Pumped(d) /\ d # e
        BY <1>3, <1>4 DEF Moves, Pumped, Status
      <4>3. QED
        BY <4>1, <4>2 DEF OneTold
    <3>4. QED
      BY <1>4, <3>2, <3>3 DEF Moves, OneTold, ToldWaits
  <2>3. QED
    BY <2>1, <2>2
<1>6. HeldHere'
  <2>1. CASE UNCHANGED <<objects, holder>> /\ st \in {"writing", "finishing"}
    BY <1>4, <2>1, HeldKept DEF Moves
  <2>2. CASE ~(UNCHANGED <<objects, holder>> /\ st \in {"writing", "finishing"})
    <3>1. /\ ty \in {"webSocket", "serverResponseBody"} /\ Room(ty)
          /\ st = IF ty = "webSocket" THEN "upgraded" ELSE "streaming"
          /\ objects' = [objects EXCEPT ![ty] = @ \cup {i}]
          /\ holder' = [holder EXCEPT ![ty][i] = e]
      BY <1>3, <2>2
    <3>2. ty \in ObjectTypes /\ ty \in Held
      BY <3>1, Words DEF Held
    <3>3. i \in Ids \ objects[ty]
      BY <3>1, <3>2, FreeObject DEF HeapInv
    <3> HIDE DEF i
    <3>4. /\ i \in objects'[ty]
          /\ \A uy \in ObjectTypes : objects[uy] \subseteq objects'[uy]
      BY <3>1, <3>2, HeapIsTyped
    <3>5. \A uy \in Held : \A j \in Ids :
             holder'[uy][j] = IF uy = ty /\ j = i THEN e ELSE holder[uy][j]
      BY <3>1, <3>2, <3>3 DEF HttpTypeOK
    <3>6. \A uy \in {"serverResponseBody", "webSocket"} : \A j \in objects[uy] :
             j \in objects'[uy] /\ holder'[uy][j] = holder[uy][j]
      <4>1. SUFFICES ASSUME NEW uy \in {"serverResponseBody", "webSocket"}, NEW j \in objects[uy]
                     PROVE  j \in objects'[uy] /\ holder'[uy][j] = holder[uy][j]
        OBVIOUS
      <4>2. uy \in ObjectTypes /\ uy \in Held /\ j \in Ids
        BY HeapIsTyped, Words DEF Held
      <4>3. QED
        BY <3>3, <3>4, <3>5, <4>2
    <3>7. ASSUME NEW d \in Exchanges
          PROVE  /\ exchange'[d].st = "streaming" =>
                       \E j \in objects'["serverResponseBody"] :
                          holder'["serverResponseBody"][j] = d
                 /\ exchange'[d].st = "upgraded" =>
                       \E j \in objects'["webSocket"] : holder'["webSocket"][j] = d
      <4>1. CASE d = e
        <5>1. holder'[ty][i] = e /\ exchange'[d].st = st
          BY <1>4, <3>2, <3>3, <3>5, <4>1
        <5>2. QED
          BY <3>1, <3>4, <4>1, <5>1
      <4>2. CASE d # e
        <5>1. exchange'[d].st = exchange[d].st
          BY <1>4, <4>2
        <5>2. /\ exchange[d].st = "streaming" =>
                    \E j \in objects["serverResponseBody"] : holder["serverResponseBody"][j] = d
              /\ exchange[d].st = "upgraded" =>
                    \E j \in objects["webSocket"] : holder["webSocket"][j] = d
          BY DEF HeldHere, Status
        <5>3. QED
          BY <3>6, <5>1, <5>2
      <4>3. QED
        BY <4>1, <4>2
    <3>8. QED
      BY <1>4, <3>7 DEF Moves, HeldHere, Status
  <2>3. QED
    BY <2>1, <2>2
<1>7. QED
  BY <1>5, <1>6

\* A request that arrives has no answer yet.
LEMMA ArriveCanEnd ==
    ASSUME HeapInv, HttpInv, EndInv, Arrive
    PROVE  EndInv'
<1> USE DEF HttpInv, EndInv
<1> DEFINE b == FreshFrom(nextId["serverRequestBody"], objects["serverRequestBody"])
<1>1. PICK s \in objects["server"] :
         /\ Room("serverRequestBody")
         /\ \E st \in {"asked", "finishing"} : exchange' =
               Append(exchange, [server |-> s, rid |-> server[s].next, answer |-> "none", st |-> st])
         /\ objects' = [objects EXCEPT !["serverRequestBody"] = @ \cup {b}]
         /\ holder' = [holder EXCEPT !["serverRequestBody"][b] = Len(exchange) + 1]
         /\ UNCHANGED <<nodes, sets, wait>>
  BY DEF Arrive
<1>2. PICK rid \in Ids : rid = server[s].next
  BY HeapIsTyped, HttpIsTyped, Words DEF ServerRecords
<1>3. PICK len \in Nat : len = Len(exchange) /\ Exchanges = 1..len
  BY ExchangesAre
<1>4. PICK new \in ExchangeRecords :
         exchange' = Append(exchange, new) /\ new.st \in {"asked", "finishing"}
  <2>1. PICK st \in {"asked", "finishing"} : exchange' =
           Append(exchange, [server |-> s, rid |-> rid, answer |-> "none", st |-> st])
    BY <1>1, <1>2
  <2> DEFINE x == [server |-> s, rid |-> rid, answer |-> "none", st |-> st]
  <2>2. x \in ExchangeRecords /\ x.st = st
    BY <1>1, <1>2, <2>1, HeapIsTyped, Words DEF ExchangeRecords, Statuses
  <2>3. QED
    BY <2>1, <2>2
<1>5. /\ Exchanges' = 1..(len + 1) /\ exchange'[len + 1] = new
      /\ \A d \in Exchanges : exchange'[d] = exchange[d]
  <2>1. exchange \in Seq(ExchangeRecords)
    BY DEF HttpTypeOK
  <2>2. /\ exchange' \in Seq(ExchangeRecords) /\ Len(exchange') = len + 1
        /\ exchange'[len + 1] = new /\ \A d \in 1..len : exchange'[d] = exchange[d]
    BY <1>3, <1>4, <2>1
  <2>3. Exchanges' = 1..Len(exchange')
    BY <2>2 DEF Exchanges
  <2>4. QED
    BY <1>3, <2>2, <2>3
<1>6. \A d \in Exchanges' : exchange'[d].st \in {"told", "streaming", "upgraded"} =>
         d \in Exchanges /\ exchange'[d] = exchange[d]
  BY <1>3, <1>4, <1>5
<1>7. OneTold' /\ ToldWaits'
  <2>1. \A d \in Exchanges' : Pumped(d)' => d \in Exchanges /\ Pumped(d)
    BY <1>6 DEF Pumped, Status
  <2>2. QED
    BY <1>1, <2>1 DEF OneTold, ToldWaits
<1>8. PumpInv'
  BY <1>1, SamePump DEF PumpFrame
<1>9. HeldHere'
  <2>1. b \in Ids
    BY <1>1, FreeObject, Words DEF HeapInv
  <2> HIDE DEF b
  <2>2. /\ objects'["serverResponseBody"] = objects["serverResponseBody"]
        /\ objects'["webSocket"] = objects["webSocket"]
        /\ holder'["serverResponseBody"] = holder["serverResponseBody"]
        /\ holder'["webSocket"] = holder["webSocket"]
    BY <1>1, HeapIsTyped, Words DEF HttpTypeOK, Held
  <2>3. QED
    BY <1>6, <2>2 DEF HeldHere, Status
<1>10. QED
  BY <1>7, <1>8, <1>9

\* A new server has no exchange yet.
LEMMA ListenCanEnd ==
    ASSUME LoopInv, HeapInv, HttpInv, EndInv, ResumeListen
    PROVE  EndInv'
<1> USE DEF HttpInv, EndInv
<1> DEFINE s == FreshFrom(nextId["server"], objects["server"])
<1>1. Settled /\ wait' = NoWait /\ UNCHANGED <<sets, exchange, holder>>
  BY DEF ResumeListen, heapVars, httpVars
<1>2. PumpFrame
  BY <1>1, NoPumpFrame DEF NoWait
<1>3. CASE Fails /\ UNCHANGED <<heapVars, httpVars>>
  BY <1>2, <1>3, HeapSameFrame, QuietCanEnd DEF httpVars
<1>4. CASE ~(Fails /\ UNCHANGED <<heapVars, httpVars>>)
  <2>1. objects' = [objects EXCEPT !["server"] = @ \cup {s}]
    BY <1>4 DEF ResumeListen
  <2> HIDE DEF s
  <2>2. exchange' \in Seq(ExchangeRecords) /\ Exchanges' = Exchanges
    BY <1>1 DEF HttpTypeOK, Exchanges
  <2>3. OneTold' /\ ToldWaits' /\ PumpInv'
    BY <1>1, <1>2, <2>2, ToldKept
  <2>4. HeldHere'
    <3>1. /\ objects'["serverResponseBody"] = objects["serverResponseBody"]
          /\ objects'["webSocket"] = objects["webSocket"]
      BY <2>1, HeapIsTyped, Words
    <3>2. QED
      BY <1>1, <2>2, <3>1, HeldKept
  <2>5. QED
    BY <2>3, <2>4
<1>5. QED
  BY <1>3, <1>4

LEMMA TearDownCanEnd == ASSUME HttpInv, EndInv, Teardown PROVE EndInv'
<1> USE DEF HttpInv, EndInv
<1>1. /\ exchange' = Gone(Exchanges) /\ server' = [s \in Ids |-> NoServer]
      /\ sets' = [i \in Ids |-> NoTasks] /\ UNCHANGED <<nodes, wait>>
  BY DEF Teardown, ClearTables
<1>2. Moves /\ \A d \in Exchanges : exchange'[d].st = "gone"
  BY <1>1, GoneMoves
<1>3. PumpInv'
  <2>1. NoTaskSets'
    BY <1>1 DEF NoTaskSets, NoTasks
  <2>2. \A n : PumpsFor(n) => PumpsFor(n)'
    BY <1>1 DEF PumpsFor, Nodes
  <2>3. QED
    BY <1>1, <2>1, <2>2 DEF PumpInv
<1>4. OneTold' /\ ToldWaits' /\ HeldHere'
  BY <1>2 DEF Moves, OneTold, ToldWaits, Pumped, HeldHere, Status
<1>5. QED
  BY <1>3, <1>4

LEMMA EndInitOK == HttpInit /\ HeapInit /\ HttpInv => EndInv
<1> SUFFICES ASSUME HttpInit, HeapInit, HttpInv PROVE EndInv
  OBVIOUS
<1>1. exchange = <<>> /\ Exchanges = {} /\ Len(exchange) = 0
  BY DEF HttpInit, Exchanges
<1>2. OneTold /\ ToldWaits /\ HeldHere
  BY <1>1 DEF OneTold, ToldWaits, HeldHere
<1>3. PumpInv
  BY DEF HeapInit, PumpInv, NoTaskSets, NoTasks, NoWait
<1>4. QED
  BY <1>2, <1>3 DEF EndInv

LEMMA NextCanEnd ==
    ASSUME LoopInv, HeapInv, HttpInv, EndInv, [Next]_vars
    PROVE  EndInv'
<1>1. CASE (\E c \in Calls : Clients(c)) \/ Release \/ TakeNext \/ UNCHANGED vars
  BY <1>1, OutsideCalm, CalmCanEnd
<1>2. CASE Perform
  BY <1>2, PerformCalm, CalmCanEnd
<1>3. CASE PerformHttp
  BY <1>3, TlsCanEnd, ReleasesCanEnd, DrainCanEnd, ServerReleaseCanEnd, PollCanEnd,
     RespondCanEnd, FinishesCanEnd
     DEF PerformHttp, RunServer, RunServerRequests, RunServerResponses
<1>4. CASE Finish
  BY <1>4, ResumeCalm, CalmCanEnd, ListenCanEnd DEF Finish
<1>5. CASE Teardown
  BY <1>5, TearDownCanEnd
<1>6. CASE Turn
  <2>1. CASE ((SettleSure \/ ReapTask) /\ UNCHANGED httpVars) \/ SettleDrain
    BY <2>1, EventsCalm, CalmCanEnd DEF SettleDrain
  <2>2. CASE ExchangeDone
    BY <2>2, EndsCanEnd DEF ExchangeDone
  <2>3. CASE \E e \in Exchanges : Continue(e)
    BY <2>3, ContinueCanEnd
  <2>4. QED
    BY <1>6, <2>1, <2>2, <2>3 DEF Turn
<1>7. CASE Peer
  <2>1. CASE (SettlePeer /\ UNCHANGED httpVars) \/ SettleStream
    BY <2>1, EventsCalm, CalmCanEnd DEF SettleStream
  <2>2. CASE ExchangeWritten \/ ClientLeaves
    BY <2>2, EndsCanEnd DEF ExchangeWritten, ClientLeaves
  <2>3. CASE Arrive
    BY <2>3, ArriveCanEnd
  <2>4. QED
    BY <1>7, <2>1, <2>2, <2>3 DEF Peer
<1>8. QED
  BY <1>1, <1>2, <1>3, <1>4, <1>5, <1>6, <1>7 DEF Next

-----------------------------------------------------------------------------
(* The theorems.                                                           *)

\* The loop, the tables, and the exchanges with their servers, fulfillers and bodies.
IInv == LoopInv /\ HeapInv /\ HttpInv

\* The inductive invariant holds throughout.
THEOREM Invariance == Spec => []IInv
<1>1. Init => IInv
  BY LoopInitOK, HeapInitOK, HttpInitOK DEF Init, IInv
<1>2. IInv /\ [Next]_vars => IInv'
  BY NextKeeps, LoopStepKeeps DEF IInv, Safe
<1>3. QED
  BY <1>1, <1>2, PTL DEF Spec

\* Every variable keeps its type; in particular the fulfillers in pendingResponses and the
\* holders of bodies and sockets name exchanges that exist.
THEOREM TypeCorrect == Spec => []TypeOK
<1>1. IInv => TypeOK
  <2> SUFFICES ASSUME IInv PROVE TypeOK
    OBVIOUS
  <2>1. LoopTypeOK /\ HeapTypeOK /\ HttpTypeOK
    BY DEF IInv, LoopInv, HeapInv, HttpInv
  <2>2. \A e \in Exchanges :
           /\ exchange[e].server \in Ids /\ exchange[e].rid \in Ids
           /\ Status(e) \in {"asked", "told", "writing", "streaming", "upgraded",
                             "finishing", "gone"}
    BY <2>1, ExchangesAre DEF ExchangeRecords, Statuses, Status
  <2>3. \A s \in Ids : /\ server[s].listen \in Ids /\ server[s].next \in Ids
                       /\ \A r \in Ids : server[s].pending[r] \in {0} \cup Exchanges
    BY <2>1, HttpIsTyped DEF ServerRecords
  <2>4. QED
    BY <2>1, <2>2, <2>3 DEF HttpTypeOK, TypeOK
<1>2. QED
  BY <1>1, Invariance, PTL

\* Whoever waits in RuntimeHttpService::request can be answered through pendingResponses,
\* and no fulfiller in there is one that was used, also when request numbers wrap.
THEOREM AskedStaysAnswerable == Spec => []AskedCanBeAnswered
<1>1. IInv => AskedCanBeAnswered
  BY DEF IInv, HttpInv
<1>2. QED
  BY <1>1, Invariance, PTL

\* A body handle of a server's table always has its exchange, and its server, behind it.
THEOREM NoBodyDangles == Spec => []BodiesBacked
<1>1. IInv => BodiesBacked
  BY DEF IInv, HttpInv
<1>2. QED
  BY <1>1, Invariance, PTL

\* The promise of listenHttp, but for one under id 0, goes when its server goes.
THEOREM ListenGoesWithServer == Spec => []ServerOwnsListen
<1>1. IInv => ServerOwnsListen
  BY DEF IInv, HttpInv
<1>2. QED
  BY <1>1, Invariance, PTL

\* Every exchange that streams or was upgraded has its body or its socket in a table where
\* it can be let go, and an answer that completes its call has the thread pumping for it.
\* When two live requests have one number, the cleanup of the first takes the body of the
\* second, and rejects what the second waits for.
THEOREM ExchangesCanEnd == Spec => []ExchangeCanEnd
<1>1. Init /\ IInv => EndInv
  BY EndInitOK DEF Init, IInv
<1>2. IInv /\ EndInv /\ [Next]_vars => EndInv'
  BY NextCanEnd DEF IInv
<1>3. EndInv => ExchangeCanEnd
  BY DEF EndInv, HeldHere, ToldWaits, Pumped, ExchangeCanEnd
<1>4. QED
  BY <1>1, <1>2, <1>3, Invariance, PTL DEF Spec

\* Callers see CallService, also while the thread pumps the loop for an exchange.
THEOREM Refinement == Spec => ImplementsService
<1>1. Init => Service!Init
  BY ServiceInitOK DEF Init
<1>2. IInv /\ [Next]_vars => [Service!Next]_Service!vars
  BY NextKeeps, LoopStepRefines DEF IInv, Safe
<1>3. QED
  BY <1>1, <1>2, Invariance, PTL DEF Spec, ImplementsService, Service!Spec
=============================================================================
