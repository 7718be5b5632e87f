-------------------------- MODULE PromiseCapability --------------------------
(***************************************************************************)
(* Promised capabilities of the RPC runtime: a capability id whose object  *)
(* is decided later through a fulfiller id, and the hold that keeps        *)
(* resolutions back until they are flushed (promiseCapability*,            *)
(* *HeldPromiseCapabilityResolve* in ffi/rpc_bridge_runtime.cpp).  Every   *)
(* operation runs on the worker thread and is one step.                    *)
(*                                                                         *)
(* Ids are taken in order and never come back here; what their wrap does   *)
(* to targets_ is TargetTable's question.                                  *)
(***************************************************************************)
EXTENDS Integers, Sequences, FiniteSets

CONSTANTS MaxIds,       \* bound on the capability ids ever registered
          MaxPromises   \* bound on the promised capabilities ever made

ASSUME BoundsAssumption == MaxIds \in Nat /\ MaxPromises \in Nat

Ids == 1 .. MaxIds
Fulfillers == 1 .. MaxPromises

Absent == -1         \* the object of an id that is not a key of targets_
Server == 0          \* an object that is no promise
Objects == Fulfillers \cup {Server}   \* a fulfiller stands for its promise

Unresolved == -2     \* outcomes other than an object
Broken == -3

VARIABLES
    nextId,      \* nextTargetId_
    object,      \* targets_: the object behind each id
    nextFul,     \* nextPromiseCapabilityFulfillerId_
    pending,     \* the keys of promiseCapabilityFulfillers_
    own,         \* promiseTarget of each fulfiller
    holding,     \* holdPromiseCapabilityResolves_
    held,        \* heldPromiseCapabilityResolves_
    heldIds,     \* heldPromiseCapabilityFulfillerIds_
    outcome      \* what each promise has been resolved to

targetVars == <<nextId, object>>
madeVars   == <<nextFul, own>>
heldVars   == <<held, heldIds>>
vars == <<targetVars, madeVars, pending, holding, heldVars, outcome>>

Init ==
    /\ nextId = 1
    /\ object = [t \in Ids |-> Absent]
    /\ nextFul = 1
    /\ pending = {}
    /\ own = [f \in Fulfillers |-> 0]
    /\ holding = FALSE
    /\ held = <<>>
    /\ heldIds = {}
    /\ outcome = [f \in Fulfillers |-> Unresolved]

-----------------------------------------------------------------------------
AddTarget(o) ==
    /\ nextId \in Ids
    /\ object' = [object EXCEPT ![nextId] = o]
    /\ nextId' = nextId + 1

RegisterTarget ==
    /\ AddTarget(Server)
    /\ UNCHANGED <<madeVars, pending, holding, heldVars, outcome>>

\* retainTarget: another id for the same object.
RetainTarget(t) ==
    /\ object[t] # Absent
    /\ AddTarget(object[t])
    /\ UNCHANGED <<madeVars, pending, holding, heldVars, outcome>>

ReleaseTarget(t) ==
    /\ object[t] # Absent
    /\ object' = [object EXCEPT ![t] = Absent]
    /\ UNCHANGED <<nextId, madeVars, pending, holding, heldVars, outcome>>

NewPromiseCapability ==
    /\ nextFul \in Fulfillers
    /\ AddTarget(nextFul)
    /\ own' = [own EXCEPT ![nextFul] = nextId]
    /\ pending' = pending \cup {nextFul}
    /\ nextFul' = nextFul + 1
    /\ UNCHANGED <<holding, heldVars, outcome>>

-----------------------------------------------------------------------------
\* The checks that promiseCapabilityFulfill and ...FulfillNow share.
MayFulfill(f, t) == f \in pending /\ t # own[f] /\ object[t] # Absent

\* Faulty: the fulfiller stays after it has been used.
ResolveAllKept(fs, to) ==
    /\ outcome' = [f \in Fulfillers |-> IF f \in fs THEN to[f] ELSE outcome[f]]
    /\ UNCHANGED pending

\* The fulfillers of fs are used and erased.
ResolveAll(fs, to) ==
    /\ outcome' = [f \in Fulfillers |-> IF f \in fs THEN to[f] ELSE outcome[f]]
    /\ pending' = pending \ fs

\* Faulty: a held resolve does not stop a second one.
FulfillTwice(f, t) ==
    /\ MayFulfill(f, t)
    /\ IF holding
       THEN /\ held' = Append(held, [fulfiller |-> f, target |-> t])
            /\ heldIds' = heldIds \cup {f}
            /\ UNCHANGED <<pending, outcome>>
       ELSE /\ ResolveAll({f}, [g \in {f} |-> object[t]])
            /\ UNCHANGED heldVars
    /\ UNCHANGED <<targetVars, madeVars, holding>>

\* promiseCapabilityFulfill: held back, or applied at once.
Fulfill(f, t) ==
    /\ f \notin heldIds
    /\ MayFulfill(f, t)
    /\ IF holding
       THEN /\ held' = Append(held, [fulfiller |-> f, target |-> t])
            /\ heldIds' = heldIds \cup {f}
            /\ UNCHANGED <<pending, outcome>>
       ELSE /\ ResolveAll({f}, [g \in {f} |-> object[t]])
            /\ UNCHANGED heldVars
    /\ UNCHANGED <<targetVars, madeVars, holding>>

HoldsFor(f) == {i \in DOMAIN held : held[i].fulfiller = f}

\* dropHeldPromiseCapabilityResolve: at most one request is taken out.
DropHeld(f) ==
    /\ heldIds' = heldIds \ {f}
    /\ \/ /\ f \in heldIds
          /\ \E i \in HoldsFor(f) :
                /\ \A j \in HoldsFor(f) : i <= j
                /\ held' = SubSeq(held, 1, i - 1) \o SubSeq(held, i + 1, Len(held))
       \/ /\ f \notin heldIds \/ HoldsFor(f) = {}
          /\ UNCHANGED held

\* promiseCapabilityReject and promiseCapabilityRelease: a held resolve is
\* dropped, a promise that is still open is broken.
Break(f) ==
    /\ DropHeld(f)
    /\ ResolveAll({f} \cap pending, [g \in {f} |-> Broken])
    /\ UNCHANGED <<targetVars, madeVars, holding>>

\* orderingSetResolveHold: switching the hold off does not flush.
SetHold ==
    /\ holding' = ~holding
    /\ UNCHANGED <<targetVars, madeVars, pending, heldVars, outcome>>

\* The fulfillers of the held resolves at the positions of some, and what each of
\* them is to be resolved to.
HeldAt(some) == {held[i].fulfiller : i \in some}
HeldObject == [f \in heldIds |->
                 object[held[CHOOSE i \in DOMAIN held : held[i].fulfiller = f].target]]

\* The first n held resolves go through and the next one, if there is one, throws.
Good(n) == /\ \A i \in 1 .. n : MayFulfill(held[i].fulfiller, held[i].target)
           /\ n < Len(held) => ~MayFulfill(held[n + 1].fulfiller, held[n + 1].target)

\* Faulty: the targets are not looked up again.
FlushUnchecked ==
    /\ held # <<>>
    /\ ResolveAll(heldIds, HeldObject)
    /\ held' = <<>>
    /\ heldIds' = {}
    /\ UNCHANGED <<targetVars, madeVars, holding>>

\* Faulty: a resolve that throws takes the rest of the queue with it.
FlushClears ==
    /\ held # <<>>
    /\ \E n \in 0 .. Len(held) : Good(n) /\ ResolveAll(HeldAt(1 .. n), HeldObject)
    /\ held' = <<>>
    /\ heldIds' = {}
    /\ UNCHANGED <<targetVars, madeVars, holding>>

\* Faulty: a resolve that throws is passed over and stays held.
FlushPassesOver ==
    /\ held # <<>>
    /\ LET Fails(r) == ~MayFulfill(r.fulfiller, r.target)
           good == HeldAt({j \in DOMAIN held : ~Fails(held[j])})
       IN  /\ ResolveAll(good, HeldObject)
           /\ held' = SelectSeq(held, Fails)
           /\ heldIds' = heldIds \ good
    /\ UNCHANGED <<targetVars, madeVars, holding>>

\* flushHeldPromiseCapabilityResolves: apply from the front; a resolve that throws
\* is gone and ends the loop, those behind it stay held.
Flush ==
    /\ held # <<>>
    /\ \E n \in 0 .. Len(held) :
          /\ Good(n)
          /\ ResolveAll(HeldAt(1 .. n), HeldObject)
          /\ held' = SubSeq(held, n + 2, Len(held))
          /\ heldIds' = heldIds \ HeldAt(DOMAIN held \cap 1 .. n + 1)
    /\ UNCHANGED <<targetVars, madeVars, holding>>

Next == \/ RegisterTarget
        \/ \E t \in Ids : RetainTarget(t) \/ ReleaseTarget(t)
        \/ NewPromiseCapability
        \/ \E f \in Fulfillers, t \in Ids : Fulfill(f, t)
        \/ \E f \in Fulfillers : Break(f)
        \/ SetHold
        \/ Flush

Spec == Init /\ [][Next]_vars

-----------------------------------------------------------------------------
(* Properties.                                                             *)

HeldRequests == {held[i] : i \in DOMAIN held}

\* Every variable has its type.
TypeOK ==
    /\ nextId \in 1 .. MaxIds + 1
    /\ object \in [Ids -> Objects \cup {Absent}]
    /\ nextFul \in 1 .. MaxPromises + 1
    /\ pending \in SUBSET Fulfillers
    /\ own \in [Fulfillers -> Ids \cup {0}]
    /\ holding \in BOOLEAN
    /\ held \in Seq([fulfiller : Fulfillers, target : Ids])
    /\ heldIds \in SUBSET Fulfillers
    /\ outcome \in [Fulfillers -> Objects \cup {Unresolved, Broken}]

\* The deque and the id set that guards it agree, whatever is rejected, released
\* or flushed in between: a fulfiller is held at most once, and only while its
\* promise is open.
HeldConsistent ==
    /\ heldIds = {r.fulfiller : r \in HeldRequests}
    /\ \A i, j \in DOMAIN held : held[i].fulfiller = held[j].fulfiller => i = j
    /\ heldIds \subseteq pending

\* A promise is open exactly as long as there is a fulfiller for it: it is neither
\* abandoned with its callers waiting nor resolved a second time.
NotAbandoned ==
    \A f \in Fulfillers :
        f \in pending <=> f < nextFul /\ outcome[f] = Unresolved

\* A fulfill that was accepted while resolutions are held is carried out as
\* accepted, unless its promise is rejected or released first or the target was
\* released before the flush.
HeldIsApplied ==
    [][\A r \in HeldRequests :
          \/ \E i \in DOMAIN held' : held'[i] = r
          \/ object[r.target] = Absent
          \/ outcome'[r.fulfiller] \in {Broken, object[r.target]}]_vars

\* Held resolves are carried out in the order in which they were accepted.
HeldInOrder ==
    [][\A i, j \in DOMAIN held :
          (i < j /\ outcome'[held[j].fulfiller] \notin {Unresolved, Broken})
             => \A k \in DOMAIN held' : held'[k] # held[i]]_vars

\* The check in promiseCapabilityFulfill: "cannot fulfill promise capability with
\* itself".
NeverItself == \A f \in Fulfillers : outcome[f] # f
=============================================================================
