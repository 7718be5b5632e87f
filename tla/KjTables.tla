------------------------------ MODULE KjTables ------------------------------
(***************************************************************************)
(* The tables of a KjAsync runtime: the promises and objects that Lean     *)
(* holds by number, and the KJ promises behind the numbers.                *)
(*                                                                         *)
(* A node is a KJ promise.  It is pending until the event loop settles it, *)
(* which the loop does only while the thread waits.  A node that a         *)
(* combinator took over has the combinator as its root, and above is every *)
(* combinator between the two: KJ drops what hangs under a settled one.    *)
(***************************************************************************)
EXTENDS KjLoop

CONSTANTS IdSpace     \* 2^32 in the code: the counters are uint32_t and wrap

ASSUME IdSpaceAssumption == IdSpace \in Nat \ {0, 1}

Ids == 0..(IdSpace - 1)

VARIABLES
    nodes,      \* every KJ promise made so far
    promises,   \* per table and id, the pending promise (0: none)
    retired,    \* retiredPromiseIds_
    objects,    \* per table, the ids in use
    sets,       \* the task sets
    nextId,     \* the counters
    wait        \* the promise the thread waits for, and what it does next

heapVars == <<nodes, promises, retired, objects, sets, nextId>>

Pending(n)   == nodes[n].st = "pending"
NoWait       == [node |-> 0, how |-> "none"]
NoTasks      == [tasks |-> {}, errors |-> 0, last |-> FALSE, empty |-> 0]

HeapInit ==
    /\ nodes = <<>>
    /\ promises = [ty \in PromiseTypes |-> [i \in Ids |-> 0]]
    /\ retired = {}
    /\ objects = [ty \in ObjectTypes |-> {}]
    /\ sets = [i \in Ids |-> NoTasks]
    /\ nextId = [ty \in PromiseTypes \cup ObjectTypes |-> 1]
    /\ wait = NoWait

-----------------------------------------------------------------------------
(* Adding: the counter is used and bumped until it names a free entry.     *)

Busy(ty) == {i \in Ids : promises[ty][i] # 0}

FreshFrom(n, used) ==
    LET k == CHOOSE d \in 0..IdSpace :
                 /\ (n + d) % IdSpace \notin used
                 /\ \A e \in 0..(d - 1) : (n + e) % IdSpace \in used
    IN (n + k) % IdSpace

\* Faulty: the counter does not wrap.
BumpUnwrapped(ty, i) == nextId' = [nextId EXCEPT ![ty] = i + 1]

Bump(ty, i) == nextId' = [nextId EXCEPT ![ty] = (i + 1) % IdSpace]

Leaf(kind, on) == [kind |-> kind, on |-> on, parts |-> <<>>, st |-> "pending",
                   root |-> Len(nodes) + 1, above |-> {}]

NewLeaf(kind, on) == nodes' = Append(nodes, Leaf(kind, on))

Nothing == <<"none", 0>>

\* A bound of the model, not of the code: with every id in use add* would not return.
Room(ty) == IF ty \in PromiseTypes THEN Busy(ty) # Ids ELSE objects[ty] # Ids

\* Faulty: the id stays retired.
AddPromiseStillRetired(ty, n) ==
    LET i == FreshFrom(nextId[ty], Busy(ty)) IN
    /\ promises' = [promises EXCEPT ![ty][i] = n]
    /\ UNCHANGED retired
    /\ Bump(ty, i)
    /\ Grants({<<ty, i>>})

\* addPromise forgets that the id was retired; the typed tables retire nothing.
AddPromise(ty, n) ==
    LET i == FreshFrom(nextId[ty], Busy(ty)) IN
    /\ promises' = [promises EXCEPT ![ty][i] = n]
    /\ retired' = IF ty = "void" THEN retired \ {i} ELSE retired
    /\ Bump(ty, i)
    /\ Grants({<<ty, i>>})

\* XStart: make the promise, keep it in its table, complete with its id.
Start(ty, kind, on) ==
    /\ Room(ty)
    /\ NewLeaf(kind, on)
    /\ AddPromise(ty, Len(nodes) + 1)
    /\ UNCHANGED <<objects, sets, wait>>

\* X: the same, awaited at once through awaitXPromise, so that the id is spent.
StartAndAwait(ty, kind, on, how) ==
    LET i == FreshFrom(nextId[ty], Busy(ty)) IN
    /\ Room(ty)
    /\ NewLeaf(kind, on)
    /\ retired' = IF ty = "void" THEN retired \cup {i} ELSE retired
    /\ Bump(ty, i)
    /\ wait' = [node |-> Len(nodes) + 1, how |-> how]
    /\ UNCHANGED <<promises, objects, sets, loopVars>>

\* A promise that never gets an id: promise.wait(waitScope).
WaitFor(kind, on, how) ==
    /\ NewLeaf(kind, on)
    /\ wait' = [node |-> Len(nodes) + 1, how |-> how]
    /\ UNCHANGED <<promises, retired, objects, sets, nextId, loopVars>>

\* addX of an object table, and the completion with the new handle.
AddObject(ty) ==
    LET i == FreshFrom(nextId[ty], objects[ty]) IN
    /\ Room(ty)
    /\ objects' = [objects EXCEPT ![ty] = @ \cup {i}]
    /\ Bump(ty, i)
    /\ Grants({<<ty, i>>})

Has(ty, i) == i \in objects[ty]

\* An unknown handle, or an argument the function rejects: an error and no other effect.
Rejects == Fails /\ UNCHANGED <<heapVars, wait>>

\* The function did its work outside the tables.
Returns == Succeeds /\ UNCHANGED <<heapVars, wait>>

\* The operation needs the object it names.
Needs(ty, A) == \/ Has(ty, Arg(1)) /\ A
                \/ ~Has(ty, Arg(1)) /\ Rejects

\* x_.erase(it): the object goes, whatever is still pending on it.
Erase(ty) ==
    Needs(ty, /\ objects' = [objects EXCEPT ![ty] = @ \ {Arg(1)}]
              /\ Succeeds
              /\ UNCHANGED <<nodes, promises, retired, sets, nextId, wait>>)

\* The extern functions differ in what they enqueue.
Submit(c, requests) == Enqueue(c, requests) /\ UNCHANGED <<heapVars, wait>>

Serving(op) == Asked(op) /\ wait = NoWait

-----------------------------------------------------------------------------
(* Await, cancel and release by id.                                        *)

\* Only promises_ remembers what it had: a spent id is answered with success.
UnknownPromise(ty) ==
    /\ Arg(1) \notin Busy(ty)
    /\ IF ty = "void" /\ Arg(1) \in retired THEN Returns ELSE Rejects

Take(ty) ==
    /\ Arg(1) \in Busy(ty)
    /\ promises' = [promises EXCEPT ![ty][Arg(1)] = 0]
    /\ retired' = IF ty = "void" THEN retired \cup {Arg(1)} ELSE retired
    /\ UNCHANGED <<nodes, objects, sets, nextId>>

\* The entry is moved out before the wait: no other operation can name it any more.
AwaitId(ty, how) ==
    \/ /\ Take(ty)
       /\ wait' = [node |-> promises[ty][Arg(1)], how |-> how]
       /\ UNCHANGED loopVars
    \/ UnknownPromise(ty)

\* Canceler::cancel rejects a promise that is still pending; the entry stays.
CancelId(ty) ==
    \/ LET n == promises[ty][Arg(1)] IN
       /\ Arg(1) \in Busy(ty)
       /\ nodes' = IF Pending(n) THEN [nodes EXCEPT ![n].st = "err"] ELSE nodes
       /\ Succeeds
       /\ UNCHANGED <<promises, retired, objects, sets, nextId, wait>>
    \/ UnknownPromise(ty)

ReleaseId(ty) ==
    \/ Take(ty) /\ Succeeds /\ UNCHANGED wait
    \/ UnknownPromise(ty)

-----------------------------------------------------------------------------
(* The KJ event loop, external: it runs only inside wait(waitScope), until *)
(* the awaited promise is settled.                                         *)

Turning == wait.node # 0 /\ Pending(wait.node)

\* Where a promise is owned: a table, a task set, or the wait.
Owners(n) ==
    (UNION {{<<ty, i>> : i \in {j \in Ids : promises[ty][j] = n}} : ty \in PromiseTypes})
    \cup {<<"taskSet", s>> : s \in {t \in Ids : n \in sets[t].tasks}}
    \cup (IF wait.node = n THEN {<<"wait", 0>>} ELSE {})

\* A loser of exclusiveJoin, and what a cancelled combinator waited for, are gone.
Live(n) == /\ Pending(n)
           /\ \A a \in nodes[n].above : Pending(a)
           /\ Owners(nodes[n].root) # {}

PartSts(n) == [k \in DOMAIN nodes[n].parts |-> nodes[nodes[n].parts[k]].st]

\* "io" is up to the other side; "send" looks its port up again when the address is
\* known; "empty" is fulfilled by its task set.
Outcomes(n) ==
    LET node == nodes[n]
        part == PartSts(n)
        settled == {part[k] : k \in DOMAIN part} \ {"pending"}
    IN CASE node.kind = "sure"  -> {"ok"}
         [] node.kind = "io"    -> {"ok", "err"}
         [] node.kind = "send"  -> {"err"} \cup {"ok" : i \in objects["port"] \cap {node.on[2]}}
         [] node.kind = "all"   -> IF \E k \in DOMAIN part : part[k] = "pending" THEN {}
                                   ELSE IF "err" \in settled THEN {"err"} ELSE {"ok"}
         [] node.kind = "race"  -> settled
         [] node.kind = "then"  -> IF part[1] = "ok" THEN {part[2]} \cap settled
                                   ELSE {part[1]} \cap settled
         [] node.kind = "catch" -> IF part[1] = "err" THEN {part[2]} \cap settled
                                   ELSE {part[1]} \cap settled
         [] OTHER -> {}

SettleAs(n, o) ==
    /\ nodes' = [nodes EXCEPT ![n].st = o]
    /\ UNCHANGED <<promises, retired, objects, sets, nextId, wait, loopVars>>

\* Progress the runtime itself guarantees: timers, ready promises, combinators.
SettleSure == /\ Turning
              /\ \E n \in DOMAIN nodes :
                    /\ Live(n)
                    /\ nodes[n].kind \notin {"io", "send"}
                    /\ \E o \in Outcomes(n) : SettleAs(n, o)

\* Progress that needs the other side.
SettlePeer == /\ Turning
              /\ \E n \in DOMAIN nodes :
                    /\ Live(n)
                    /\ nodes[n].kind \in {"io", "send"}
                    /\ \E o \in Outcomes(n) : SettleAs(n, o)

\* A finished task leaves its set; a failed one is counted by taskFailed.
TaskDone(s, n) ==
    LET rest  == sets[s].tasks \ {n}
        error == nodes[n].st = "err"
    IN [tasks  |-> rest,
        errors |-> sets[s].errors + (IF error THEN 1 ELSE 0),
        last   |-> sets[s].last \/ error,
        empty  |-> IF rest = {} THEN 0 ELSE sets[s].empty]

\* Faulty: the set forgets its fulfiller unfulfilled.
FulfillLost(n) == UNCHANGED nodes

\* The promise of onEmpty, if somebody still holds it.
Fulfill(n) == nodes' = IF n # 0 /\ Pending(n) THEN [nodes EXCEPT ![n].st = "ok"] ELSE nodes

\* The task set hears of a finished task; the last one to leave fulfills onEmpty.
ReapTask ==
    /\ Turning
    /\ \E s \in Ids : \E n \in sets[s].tasks :
          /\ ~Pending(n)
          /\ sets' = [sets EXCEPT ![s] = TaskDone(s, n)]
          /\ IF sets[s].tasks = {n} THEN Fulfill(sets[s].empty) ELSE UNCHANGED nodes
    /\ UNCHANGED <<promises, retired, objects, nextId, wait, loopVars>>

-----------------------------------------------------------------------------
(* The end of a wait.                                                      *)

Settled == cur # 0 /\ wait.node # 0 /\ ~Pending(wait.node)

\* wait() threw: the branch's catch clauses complete with the error.
ResumeError ==
    /\ Settled /\ nodes[wait.node].st = "err"
    /\ Fails
    /\ wait' = NoWait
    /\ UNCHANGED heapVars

\* wait() returned a value for the completion.
ResumeValue ==
    /\ Settled /\ nodes[wait.node].st = "ok"
    /\ wait.how = "value"
    /\ Succeeds
    /\ wait' = NoWait
    /\ UNCHANGED heapVars

\* wait() returned an object, which is entered into its table only now.
Becomes == IF wait.how = "timed" THEN "connection" ELSE wait.how

ResumeObject ==
    /\ Settled /\ nodes[wait.node].st = "ok"
    /\ Becomes \in ObjectTypes
    /\ AddObject(Becomes)
    /\ wait' = NoWait
    /\ UNCHANGED <<nodes, promises, retired, sets>>

\* Faulty: the promise keeps running, and its stream is entered into the table.
TimeOutKeeps ==
    /\ Turning
    /\ wait.how = "timed"
    /\ objects["connection"] # Ids
    /\ objects' = [objects EXCEPT !["connection"] =
                     @ \cup {FreshFrom(nextId["connection"], @)}]
    /\ Succeeds
    /\ wait' = NoWait
    /\ UNCHANGED <<nodes, promises, retired, sets, nextId>>

\* The timer of awaitConnectionPromiseWithTimeout won: the id is spent, and a stream
\* that arrives later is dropped with its promise.
TimeOut ==
    /\ Turning
    /\ wait.how = "timed"
    /\ Succeeds
    /\ wait' = NoWait
    /\ UNCHANGED heapVars

Resume == ResumeError \/ ResumeValue \/ ResumeObject

\* The end of run(): every table is cleared.
ClearTables ==
    /\ promises' = [ty \in PromiseTypes |-> [i \in Ids |-> 0]]
    /\ retired' = {}
    /\ objects' = [ty \in ObjectTypes |-> {}]
    /\ sets' = [i \in Ids |-> NoTasks]
    /\ UNCHANGED <<nodes, nextId, wait>>

-----------------------------------------------------------------------------

Nodes == DOMAIN nodes

\* The last four are promises of the HTTP operations.
Kinds == {"sure", "io", "send", "empty", "then", "catch", "all", "race",
          "stream", "listen", "drain", "completion"}
Hows  == {"none", "value", "timed", "listener", "address", "connection", "port", "webSocket",
          "response", "httpServer", "pump"}

NodeRecords == [kind : Kinds, on : {Nothing} \cup (ObjectTypes \X Nat), parts : Seq(Nat),
                st : {"pending", "ok", "err"}, root : Nat, above : SUBSET Nat]

NodesTypeOK ==
    /\ nodes \in Seq(NodeRecords)
    /\ \A n \in Nodes :
          /\ nodes[n].root \in Nodes
          /\ \A k \in DOMAIN nodes[n].parts : nodes[n].parts[k] \in 1..(n - 1)

HeapTypeOK ==
    /\ NodesTypeOK
    /\ promises \in [PromiseTypes -> [Ids -> {0} \cup Nodes]]
    /\ retired \in SUBSET Ids
    /\ objects \in [ObjectTypes -> SUBSET Ids]
    /\ sets \in [Ids -> [tasks : SUBSET Nodes, errors : Nat, last : BOOLEAN,
                        empty : {0} \cup Nodes]]
    /\ nextId \in [PromiseTypes \cup ObjectTypes -> Ids]
    /\ wait \in [node : {0} \cup Nodes, how : Hows]
    /\ wait.node # 0 => cur # 0

\* kj::Promise is a move-only value: a promise is in one table entry, one task set, one
\* combinator or the wait, never in two.  Two owners would consume it twice.
OneOwner ==
    \A n \in Nodes : /\ \A a, b \in Owners(n) : a = b
                     /\ nodes[n].root # n => Owners(n) = {}

\* An id is either pending or retired: awaiting a retired id succeeds at once, so an id
\* that is both would let a caller skip the wait.
RetiredIsGone == \A i \in retired : promises["void"][i] = 0

Granted == UNION {reply[c].got : c \in Calls}

\* Nothing is kept that no caller was told of: every entry of a table was granted to
\* some call.
EveryHandleGranted ==
    /\ \A ty \in PromiseTypes : \A i \in Busy(ty) : <<ty, i>> \in Granted
    /\ \A ty \in ObjectTypes : \A i \in objects[ty] : <<ty, i>> \in Granted
=============================================================================
