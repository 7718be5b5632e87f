----------------------------- MODULE TargetTable -----------------------------
(***************************************************************************)
(* targets_ of the RPC runtime (ffi/rpc_bridge_runtime.cpp) and the two    *)
(* tables that keep a connection alive while a capability id made from it  *)
(* is: loopbackPeers_ and networkClientPeers_, each with its               *)
(* OwnerByTarget_ and OwnerRefCount_.  Ids are uint32_t taken from         *)
(* nextTargetId_, which wraps; IdSpace stands for 2^32.                    *)
(*                                                                         *)
(* Every operation runs on the worker thread.  releaseTargets is a loop    *)
(* and takes one step for each id of its batch; nothing else runs between. *)
(***************************************************************************)
EXTENDS Integers, FiniteSets, Sequences

CONSTANTS IdSpace,    \* the number of capability ids: 2^32 in the code
          MaxAdds,    \* bound on the capabilities that are ever registered
          MaxPeers,   \* bound on the connections that are ever made
          MaxBatch,   \* bound on the length of a releaseTargets request
          Tables,     \* {"loopback", "network"} in the code
          NoId        \* no owner

Ids == 0 .. IdSpace - 1
Peers == 1 .. MaxPeers
Local == 0           \* the route of a capability that is not behind a connection
Gone == 0            \* no peer object in a table

ASSUME TableAssumption ==
    /\ IdSpace \in Nat /\ IdSpace > 1
    /\ MaxAdds \in Nat /\ MaxPeers \in Nat /\ MaxBatch \in Nat
    /\ NoId \notin Ids
    /\ IsFiniteSet(Tables)

VARIABLES
    nextId,      \* nextTargetId_
    targets,     \* the keys of targets_
    peers,       \* per table: the peer object stored under each owner id
    ownerOf,     \* per table: OwnerByTarget_
    count,       \* per table: OwnerRefCount_, 0 when absent
    batch,       \* what is left of the releaseTargets request being executed
    forwarders,  \* ids made by registerTailCallTarget
    route,       \* history: the connection each id's capability goes through
    adds, made   \* history: capabilities registered and connections made so far

tableVars == <<peers, ownerOf, count>>
vars == <<nextId, targets, tableVars, batch, forwarders, route, adds, made>>

Init ==
    /\ nextId = 1
    /\ targets = {}
    /\ peers = [k \in Tables |-> [o \in Ids |-> Gone]]
    /\ ownerOf = [k \in Tables |-> [t \in Ids |-> NoId]]
    /\ count = [k \in Tables |-> [o \in Ids |-> 0]]
    /\ batch = <<>>
    /\ forwarders = {}
    /\ route = [t \in Ids |-> Local]
    /\ adds = 0
    /\ made = 0

-----------------------------------------------------------------------------
(* Helpers.                                                                *)

\* addTarget: the first id from nextTargetId_ on, cyclically, that is not a key.
Fresh(id) ==
    \E d \in Ids : /\ id = (nextId + d) % IdSpace
                   /\ id \notin targets
                   /\ \A e \in Ids : e < d => (nextId + e) % IdSpace \in targets

AddTarget(id, r) ==
    /\ batch = <<>>
    /\ adds < MaxAdds
    /\ adds' = adds + 1
    /\ Fresh(id)
    /\ nextId' = (id + 1) % IdSpace
    /\ targets' = targets \cup {id}
    /\ route' = [route EXCEPT ![id] = r]

\* unordered_map::emplace keeps an entry that is already there.
Emplace(old, absent, new) == IF old = absent THEN new ELSE old

\* Faulty: the copy joins the owner but is not counted.
RetainUncounted(source, copy) ==
    /\ ownerOf' = [k \in Tables |->
         IF ownerOf[k][source] = NoId THEN ownerOf[k]
         ELSE [ownerOf[k] EXCEPT ![copy] = Emplace(@, NoId, ownerOf[k][source])]]
    /\ UNCHANGED <<count, peers>>

\* Faulty: the copy becomes an owner of its own.
RetainAsOwner(source, copy) ==
    /\ ownerOf' = [k \in Tables |->
         IF ownerOf[k][source] = NoId THEN ownerOf[k]
         ELSE [ownerOf[k] EXCEPT ![copy] = Emplace(@, NoId, copy)]]
    /\ count' = [k \in Tables |->
         IF ownerOf[k][source] = NoId THEN count[k]
         ELSE [count[k] EXCEPT ![ownerOf[k][source]] = Emplace(@, 0, 1) + 1]]
    /\ UNCHANGED peers

\* retainPeerOwnership, for every table: the copy joins the source's owner.
RetainPeerOwnership(source, copy) ==
    /\ ownerOf' = [k \in Tables |->
         IF ownerOf[k][source] = NoId THEN ownerOf[k]
         ELSE [ownerOf[k] EXCEPT ![copy] = Emplace(@, NoId, ownerOf[k][source])]]
    /\ count' = [k \in Tables |->
         IF ownerOf[k][source] = NoId THEN count[k]
         ELSE [count[k] EXCEPT ![ownerOf[k][source]] = Emplace(@, 0, 1) + 1]]
    /\ UNCHANGED peers

\* Faulty: the holder stays in OwnerByTarget_ and is counted down again.
ReleaseStaysHolder(t) ==
    /\ count' = [k \in Tables |->
         IF ownerOf[k][t] = NoId THEN count[k]
         ELSE [count[k] EXCEPT ![ownerOf[k][t]] = @ - 1]]
    /\ UNCHANGED <<ownerOf, peers>>

\* Faulty: any holder takes the peer with it.
ReleaseErasesPeer(t) ==
    /\ ownerOf' = [k \in Tables |-> [ownerOf[k] EXCEPT ![t] = NoId]]
    /\ count' = [k \in Tables |->
         IF ownerOf[k][t] = NoId THEN count[k] ELSE [count[k] EXCEPT ![ownerOf[k][t]] = @ - 1]]
    /\ peers' = [k \in Tables |->
         IF ownerOf[k][t] # NoId THEN [peers[k] EXCEPT ![ownerOf[k][t]] = Gone] ELSE peers[k]]

\* Faulty: the peer goes one release too late, that is never.
ReleaseKeepsPeer(t) ==
    /\ ownerOf' = [k \in Tables |-> [ownerOf[k] EXCEPT ![t] = NoId]]
    /\ count' = [k \in Tables |->
         IF ownerOf[k][t] = NoId THEN count[k] ELSE [count[k] EXCEPT ![ownerOf[k][t]] = @ - 1]]
    /\ UNCHANGED peers

\* releasePeerOwnership, for every table: the last holder erases the peer.
ReleasePeerOwnership(t) ==
    /\ ownerOf' = [k \in Tables |-> [ownerOf[k] EXCEPT ![t] = NoId]]
    /\ count' = [k \in Tables |->
         IF ownerOf[k][t] = NoId \/ count[k][ownerOf[k][t]] = 0 THEN count[k]
         ELSE [count[k] EXCEPT ![ownerOf[k][t]] = @ - 1]]
    /\ peers' = [k \in Tables |->
         IF ownerOf[k][t] # NoId /\ count[k][ownerOf[k][t]] = 1
         THEN [peers[k] EXCEPT ![ownerOf[k][t]] = Gone]
         ELSE peers[k]]

\* dropTargetIfPresent runs both halves whether or not the id is a key.
DropTargetIfPresent(t) ==
    /\ targets' = targets \ {t}
    /\ forwarders' = forwarders \ {t}
    /\ ReleasePeerOwnership(t)

-----------------------------------------------------------------------------
(* Operations.                                                             *)

\* register*Target, newPromiseCapability, a capability of a local answer.
Register ==
    \E id \in Ids :
        /\ AddTarget(id, Local)
        /\ UNCHANGED <<tableVars, batch, forwarders, made>>

\* serializeResponse, getPipelinedCap, encodeRequestForLean: a capability that
\* arrives through the connection of another one gets an id but no ownership.
Receive ==
    \E source \in targets, id \in Ids :
        /\ AddTarget(id, route[source])
        /\ UNCHANGED <<tableVars, batch, forwarders, made>>

\* connectTargetPeer (k = "network"), registerLoopbackTarget (k = "loopback").
Connect(k) ==
    \E id \in Ids :
        /\ made < MaxPeers
        /\ made' = made + 1
        /\ AddTarget(id, made + 1)
        /\ peers' = [peers EXCEPT ![k][id] = Emplace(@, Gone, made + 1)]
        /\ ownerOf' = [ownerOf EXCEPT ![k][id] = Emplace(@, NoId, id)]
        /\ count' = [count EXCEPT ![k][id] = Emplace(@, 0, 1)]
        /\ UNCHANGED <<batch, forwarders>>

\* retainTarget: an unknown id throws before anything changes.
Retain ==
    \E source \in targets, id \in Ids :
        /\ AddTarget(id, route[source])
        /\ RetainPeerOwnership(source, id)
        /\ UNCHANGED <<batch, forwarders, made>>

\* registerTailCallTarget: a forwarding server over the target.
RegisterTailCall ==
    \E source \in targets, id \in Ids :
        /\ AddTarget(id, route[source])
        /\ RetainPeerOwnership(source, id)
        /\ forwarders' = forwarders \cup {id}
        /\ UNCHANGED <<batch, made>>

\* releaseTarget, and the request capabilities dropped after a Lean handler.
Release(t) ==
    /\ batch = <<>>
    /\ DropTargetIfPresent(t)
    /\ UNCHANGED <<nextId, batch, route, adds, made>>

\* releaseTargets is called with any list of ids.
ReleaseTargets ==
    /\ batch = <<>>
    /\ \E n \in 2 .. MaxBatch : batch' \in [1 .. n -> Ids]
    /\ UNCHANGED <<nextId, targets, tableVars, forwarders, route, adds, made>>

\* One turn of its loop: 0 is skipped, an unknown id ends it with an exception.
ReleaseNext ==
    /\ batch # <<>>
    /\ IF Head(batch) = 0
       THEN /\ batch' = Tail(batch)
            /\ UNCHANGED <<targets, tableVars, forwarders>>
       ELSE /\ DropTargetIfPresent(Head(batch))
            /\ batch' = IF Head(batch) \in targets THEN Tail(batch) ELSE <<>>
    /\ UNCHANGED <<nextId, route, adds, made>>

Next == \/ Register
        \/ Receive
        \/ \E k \in Tables : Connect(k)
        \/ Retain
        \/ RegisterTailCall
        \/ \E t \in Ids : Release(t)
        \/ ReleaseTargets
        \/ ReleaseNext

Spec == Init /\ [][Next]_vars

-----------------------------------------------------------------------------
(* Properties.                                                             *)

\* Every variable has its type.
TypeOK ==
    /\ nextId \in Ids
    /\ targets \in SUBSET Ids
    /\ peers \in [Tables -> [Ids -> Peers \cup {Gone}]]
    /\ ownerOf \in [Tables -> [Ids -> Ids \cup {NoId}]]
    /\ count \in [Tables -> [Ids -> Nat]]
    /\ batch \in Seq(Ids)
    /\ forwarders \in SUBSET Ids
    /\ route \in [Ids -> Peers \cup {Local}]
    /\ adds \in Nat /\ made \in 0 .. MaxPeers

Holders(k, o) == {t \in Ids : ownerOf[k][t] = o}

\* OwnerRefCount_ is the number of ids that name the owner in OwnerByTarget_, so
\* the decrement that reaches zero is the one of the last holder.
RefCountExact ==
    \A k \in Tables, o \in Ids : count[k][o] = Cardinality(Holders(k, o))

\* An id that holds a connection is live, its peer object is still in the table,
\* and it is the very connection the id's capability goes through.
OwnedPeerAlive ==
    \A k \in Tables, t \in Ids :
        ownerOf[k][t] # NoId =>
            /\ t \in targets
            /\ peers[k][ownerOf[k][t]] # Gone
            /\ peers[k][ownerOf[k][t]] = route[t]

\* No connection outlives the last id that holds it: release leaks no peer.
NoOrphanPeer ==
    \A k \in Tables, o \in Ids : peers[k][o] # Gone => Holders(k, o) # {}

\* The tables as PeerSharing sees them.
Holds(t) == \E k \in Tables : ownerOf[k][t] # NoId
Sharers  == [p \in Peers |-> {t \in Ids : route[t] = p /\ Holds(t)}]
Open     == {peers[k][o] : k \in Tables, o \in Ids} \ {Gone}
Sharing  == INSTANCE PeerSharing WITH holders <- Sharers, up <- Open

\* Retain, release, batches that fail half-way and tail-call forwarders together
\* share connections as PeerSharing says.
ImplementsPeerSharing == Sharing!Spec

\* The comment in registerTailCallTarget: "Keep any underlying peer ownership
\* alive while the forwarder exists."
ForwarderKeepsPeer ==
    \A f \in forwarders, k \in Tables :
        ownerOf[k][f] # NoId => route[f] \in {peers[k][o] : o \in Ids}
=============================================================================
