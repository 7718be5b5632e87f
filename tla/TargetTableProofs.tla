-------------------------- MODULE TargetTableProofs --------------------------
(***************************************************************************)
(* Proofs about TargetTable for tables and bounds of any size, as long as  *)
(* nextTargetId_ does not wrap: fewer capabilities are registered than     *)
(* there are ids.  (The run "wrap" shows what happens when it does.)       *)
(***************************************************************************)
EXTENDS TargetTable, FiniteSetTheorems, SequenceTheorems, TLAPS

\* The ids outlast the capabilities that are ever registered.
NoWrap == MaxAdds + 1 < IdSpace

\* No id from nextTargetId_ on was ever used.
Unused ==
    /\ nextId = adds + 1 /\ adds <= MaxAdds
    /\ \A t \in Ids : t >= nextId =>
         /\ t \notin targets
         /\ \A k \in Tables : /\ ownerOf[k][t] = NoId
                              /\ count[k][t] = 0
                              /\ peers[k][t] = Gone

IInv == TypeOK /\ Unused /\ RefCountExact /\ OwnedPeerAlive /\ NoOrphanPeer

LEMMA IdsFinite == IsFiniteSet(Ids)
BY FS_Interval, TableAssumption DEF Ids

LEMMA HoldersFinite ==
    ASSUME NEW k, NEW o
    PROVE  IsFiniteSet(Holders(k, o)) /\ Cardinality(Holders(k, o)) \in Nat
<1>1. Holders(k, o) \in SUBSET Ids
  BY DEF Holders
<1>2. QED
  BY <1>1, IdsFinite, FS_Subset, FS_CardinalityType

\* Without a wrap addTarget returns nextTargetId_ itself.
LEMMA FreshIsNext ==
    ASSUME NoWrap, TypeOK, Unused, adds < MaxAdds, NEW id \in Ids, Fresh(id)
    PROVE  /\ id = nextId
           /\ (id + 1) % IdSpace = adds + 2
           /\ adds + 2 \in Ids
<1>1. /\ nextId \in Ids /\ nextId = adds + 1 /\ adds \in Nat
      /\ IdSpace \in Nat /\ MaxAdds \in Nat /\ adds + 2 < IdSpace
  BY TableAssumption DEF TypeOK, Unused, NoWrap
<1>2. nextId \notin targets
  BY <1>1 DEF Unused
<1>3. PICK d \in Ids : /\ id = (nextId + d) % IdSpace
                       /\ \A e \in Ids : e < d => (nextId + e) % IdSpace \in targets
  BY DEF Fresh
<1>4. 0 \in Ids /\ (nextId + 0) % IdSpace = nextId
  BY <1>1 DEF Ids
<1>5. d = 0
  BY <1>1, <1>2, <1>3, <1>4 DEF Ids
<1>6. id = nextId
  BY <1>3, <1>4, <1>5
<1>7. QED
  BY <1>1, <1>6 DEF Ids

LEMMA InitIInv == NoWrap /\ Init => IInv
<1> SUFFICES ASSUME NoWrap, Init PROVE IInv
  OBVIOUS
<1> USE TableAssumption DEF Init
<1>1. TypeOK
  BY EmptySeq DEF TypeOK, Ids, Peers, Gone, Local, NoWrap
<1>2. Unused
  BY DEF Unused, Ids, Gone
<1>3. \A k \in Tables, o \in Ids : Holders(k, o) = {}
  BY DEF Holders
<1>4. RefCountExact
  BY <1>3, FS_EmptySet DEF RefCountExact
<1>5. OwnedPeerAlive /\ NoOrphanPeer
  BY DEF OwnedPeerAlive, NoOrphanPeer
<1>6. QED
  BY <1>1, <1>2, <1>4, <1>5 DEF IInv

\* What addTarget does to the table, once the id it picks is known.
LEMMA AddTargetEffect ==
    ASSUME NoWrap, IInv, NEW id \in Ids, NEW r, AddTarget(id, r)
    PROVE  /\ id = nextId /\ nextId' = nextId + 1 /\ nextId' \in Ids
           /\ adds' = adds + 1 /\ adds' \in Nat /\ adds' <= MaxAdds
           /\ targets' = targets \cup {id}
           /\ route' = [route EXCEPT ![id] = r]
           /\ id \notin targets
           /\ \A k \in Tables : ownerOf[k][id] = NoId /\ count[k][id] = 0 /\ peers[k][id] = Gone
<1>1. /\ id = nextId /\ nextId' = adds + 2 /\ nextId' \in Ids
  BY FreshIsNext DEF AddTarget, IInv
<1>2. QED
  BY <1>1, TableAssumption DEF AddTarget, IInv, Unused, TypeOK, Ids

\* A new id joins the holders of an owner; nobody else moves.
LEMMA Joins ==
    ASSUME NEW k \in Tables, NEW o \in Ids, NEW id \in Ids, TypeOK, ownerOf[k][id] = NoId,
           \A t \in Ids : ownerOf'[k][t] = IF t = id THEN o ELSE ownerOf[k][t]
    PROVE  /\ Holders(k, o)' = Holders(k, o) \cup {id}
           /\ id \notin Holders(k, o)
           /\ \A p \in Ids \ {o} : Holders(k, p)' = Holders(k, p)
BY TableAssumption DEF Holders, TypeOK

\* An id leaves the holders of its owner.
LEMMA Leaves ==
    ASSUME NEW k \in Tables, NEW o \in Ids, NEW id \in Ids, TypeOK, ownerOf[k][id] = o,
           \A t \in Ids : ownerOf'[k][t] = IF t = id THEN NoId ELSE ownerOf[k][t]
    PROVE  /\ Holders(k, o)' = Holders(k, o) \ {id}
           /\ id \in Holders(k, o)
           /\ \A p \in Ids \ {o} : Holders(k, p)' = Holders(k, p)
BY TableAssumption DEF Holders, TypeOK

\* register*Target and the capabilities that arrive through a connection.
LEMMA RegisterIInv ==
    ASSUME NoWrap, IInv, NEW id \in Ids, NEW r \in Peers \cup {Local}, AddTarget(id, r),
           UNCHANGED <<tableVars, batch, forwarders, made>>
    PROVE  IInv'
<1> USE DEF tableVars
<1>1. /\ id = nextId /\ nextId' = nextId + 1 /\ nextId' \in Ids
      /\ adds' = adds + 1 /\ adds' \in Nat /\ adds' <= MaxAdds
      /\ targets' = targets \cup {id}
      /\ route' = [route EXCEPT ![id] = r]
      /\ \A k \in Tables : ownerOf[k][id] = NoId
  BY AddTargetEffect
<1>2. TypeOK'
  BY <1>1 DEF IInv, TypeOK
<1>3. Unused'
  BY <1>1, TableAssumption DEF IInv, Unused, Ids, TypeOK
<1>4. RefCountExact'
  BY DEF IInv, RefCountExact, Holders
<1>5. OwnedPeerAlive'
  BY <1>1 DEF IInv, OwnedPeerAlive, TypeOK
<1>6. NoOrphanPeer'
  BY DEF IInv, NoOrphanPeer, Holders
<1>7. QED
  BY <1>2, <1>3, <1>4, <1>5, <1>6 DEF IInv

LEMMA ConnectIInv ==
    ASSUME NoWrap, IInv, NEW k \in Tables, Connect(k)
    PROVE  IInv'
<1>1. PICK id \in Ids :
        /\ made < MaxPeers
        /\ made' = made + 1
        /\ AddTarget(id, made + 1)
        /\ peers' = [peers EXCEPT ![k][id] = Emplace(@, Gone, made + 1)]
        /\ ownerOf' = [ownerOf EXCEPT ![k][id] = Emplace(@, NoId, id)]
        /\ count' = [count EXCEPT ![k][id] = Emplace(@, 0, 1)]
        /\ UNCHANGED <<batch, forwarders>>
  BY DEF Connect
<1>2. /\ id = nextId /\ nextId' = nextId + 1 /\ nextId' \in Ids
      /\ adds' = adds + 1 /\ adds' \in Nat /\ adds' <= MaxAdds
      /\ targets' = targets \cup {id}
      /\ route' = [route EXCEPT ![id] = made + 1]
      /\ \A j \in Tables : ownerOf[j][id] = NoId /\ count[j][id] = 0 /\ peers[j][id] = Gone
  BY <1>1, AddTargetEffect
<1>3. TypeOK
  BY DEF IInv
<1>4. made + 1 \in Peers /\ made + 1 # Gone
  BY <1>1, <1>3, TableAssumption DEF TypeOK, Peers, Gone
<1>5. /\ peers' = [peers EXCEPT ![k][id] = made + 1]
      /\ ownerOf' = [ownerOf EXCEPT ![k][id] = id]
      /\ count' = [count EXCEPT ![k][id] = 1]
  BY <1>1, <1>2 DEF Emplace
<1>6. TypeOK'
  <2>1. peers' \in [Tables -> [Ids -> Peers \cup {Gone}]]
    BY <1>3, <1>4, <1>5 DEF TypeOK
  <2>2. ownerOf' \in [Tables -> [Ids -> Ids \cup {NoId}]]
    BY <1>3, <1>5 DEF TypeOK
  <2>3. count' \in [Tables -> [Ids -> Nat]]
    BY <1>3, <1>5 DEF TypeOK
  <2>4. made' \in 0 .. MaxPeers
    BY <1>1, <1>3, TableAssumption DEF TypeOK
  <2>5. route' \in [Ids -> Peers \cup {Local}] /\ targets' \in SUBSET Ids
    BY <1>2, <1>3, <1>4 DEF TypeOK
  <2>6. QED
    BY <1>1, <1>2, <1>3, <2>1, <2>2, <2>3, <2>4, <2>5 DEF TypeOK
<1>7. Unused'
  <2>1. ASSUME NEW t \in Ids, t >= nextId'
        PROVE  t >= nextId /\ t # id
    BY <2>1, <1>2, <1>3 DEF TypeOK, Ids
  <2>2. QED
    BY <2>1, <1>2, <1>3, <1>5 DEF IInv, Unused, TypeOK
<1>8. \A t \in Ids : ownerOf[k][t] # id
  <2>1. SUFFICES ASSUME NEW t \in Ids, ownerOf[k][t] = id
                 PROVE  FALSE
    OBVIOUS
  <2>2. ownerOf[k][t] # NoId
    BY <2>1, TableAssumption
  <2>3. peers[k][id] # Gone
    BY <2>1, <2>2 DEF IInv, OwnedPeerAlive
  <2>4. QED
    BY <2>3, <1>2
<1>9. RefCountExact'
  <2>1. ASSUME NEW j \in Tables, j # k, NEW o \in Ids
        PROVE  count'[j][o] = Cardinality(Holders(j, o))'
    <3>1. count'[j] = count[j] /\ ownerOf'[j] = ownerOf[j]
      BY <2>1, <1>3, <1>5 DEF TypeOK
    <3>2. Holders(j, o)' = Holders(j, o)
      BY <3>1 DEF Holders
    <3>3. QED
      BY <3>1, <3>2 DEF IInv, RefCountExact
  <2>2. /\ Holders(k, id)' = {id}
        /\ \A o \in Ids \ {id} : Holders(k, o)' = Holders(k, o)
    <3>1. \A t \in Ids : ownerOf'[k][t] = IF t = id THEN id ELSE ownerOf[k][t]
      BY <1>3, <1>5 DEF TypeOK
    <3>2. QED
      BY <3>1, <1>2, <1>8, TableAssumption DEF Holders
  <2>3. ASSUME NEW o \in Ids
        PROVE  count'[k][o] = Cardinality(Holders(k, o))'
    <3>1. CASE o = id
      BY <2>2, <3>1, <1>3, <1>5, FS_Singleton DEF TypeOK
    <3>2. CASE o # id
      BY <2>2, <3>2, <1>3, <1>5 DEF TypeOK, IInv, RefCountExact
    <3>3. QED
      BY <3>1, <3>2
  <2>4. QED
    BY <2>1, <2>3 DEF RefCountExact
<1>10. OwnedPeerAlive'
  <2>1. ASSUME NEW j \in Tables, NEW t \in Ids, ownerOf'[j][t] # NoId
        PROVE  /\ t \in targets'
               /\ peers'[j][ownerOf'[j][t]] # Gone
               /\ peers'[j][ownerOf'[j][t]] = route'[t]
    <3>1. CASE j = k /\ t = id
      BY <3>1, <1>2, <1>3, <1>4, <1>5 DEF TypeOK
    <3>2. CASE ~(j = k /\ t = id)
      <4>1. ownerOf'[j][t] = ownerOf[j][t]
        BY <3>2, <1>3, <1>5 DEF TypeOK
      <4>2. t # id /\ ownerOf[j][t] \in Ids
        BY <2>1, <4>1, <1>2, <1>3 DEF TypeOK
      <4>3. peers'[j][ownerOf[j][t]] = peers[j][ownerOf[j][t]]
        BY <4>2, <1>3, <1>5, <1>8 DEF TypeOK
      <4>4. route'[t] = route[t]
        BY <4>2, <1>2, <1>3 DEF TypeOK
      <4>5. QED
        BY <2>1, <4>1, <4>3, <4>4, <1>2 DEF IInv, OwnedPeerAlive
    <3>3. QED
      BY <3>1, <3>2
  <2>2. QED
    BY <2>1 DEF OwnedPeerAlive
<1>11. NoOrphanPeer'
  <2>1. ASSUME NEW j \in Tables, NEW o \in Ids, peers'[j][o] # Gone
        PROVE  \E t \in Ids : ownerOf'[j][t] = o
    <3>1. CASE j = k /\ o = id
      BY <3>1, <1>3, <1>5 DEF TypeOK
    <3>2. CASE ~(j = k /\ o = id)
      <4>1. peers[j][o] # Gone
        BY <2>1, <3>2, <1>3, <1>5 DEF TypeOK
      <4>2. PICK t \in Ids : ownerOf[j][t] = o
        BY <4>1 DEF IInv, NoOrphanPeer, Holders
      <4>3. t # id
        BY <4>2, <1>2, TableAssumption
      <4>4. ownerOf'[j][t] = o
        BY <4>2, <4>3, <1>3, <1>5 DEF TypeOK
      <4>5. QED
        BY <4>4
    <3>3. QED
      BY <3>1, <3>2
  <2>2. QED
    BY <2>1 DEF NoOrphanPeer, Holders
<1>12. QED
  BY <1>6, <1>7, <1>9, <1>10, <1>11 DEF IInv

\* retainTarget and registerTailCallTarget: the new id joins its source's owner.
LEMMA RetainIInv ==
    ASSUME NoWrap, IInv, NEW source \in targets, NEW id \in Ids,
           AddTarget(id, route[source]), RetainPeerOwnership(source, id),
           forwarders' \in SUBSET Ids, UNCHANGED <<batch, made>>
    PROVE  IInv'
<1>1. TypeOK /\ source \in Ids
  BY DEF IInv, TypeOK
<1>2. /\ id = nextId /\ nextId' = nextId + 1 /\ nextId' \in Ids
      /\ adds' = adds + 1 /\ adds' \in Nat /\ adds' <= MaxAdds
      /\ targets' = targets \cup {id}
      /\ route' = [route EXCEPT ![id] = route[source]]
      /\ id \notin targets
      /\ \A j \in Tables : ownerOf[j][id] = NoId /\ count[j][id] = 0 /\ peers[j][id] = Gone
  BY <1>1, AddTargetEffect
<1>3. source # id /\ peers' = peers
  BY <1>2 DEF RetainPeerOwnership
<1>4. ASSUME NEW k \in Tables, ownerOf[k][source] = NoId
      PROVE  ownerOf'[k] = ownerOf[k] /\ count'[k] = count[k]
  BY <1>4 DEF RetainPeerOwnership
<1>5. ASSUME NEW k \in Tables, ownerOf[k][source] # NoId
      PROVE  /\ ownerOf[k][source] \in Ids
             /\ ownerOf'[k] \in [Ids -> Ids \cup {NoId}] /\ count'[k] \in [Ids -> Nat]
             /\ \A t \in Ids : ownerOf'[k][t] = IF t = id THEN ownerOf[k][source]
                                                ELSE ownerOf[k][t]
             /\ \A o \in Ids : count'[k][o] = IF o = ownerOf[k][source] THEN count[k][o] + 1
                                              ELSE count[k][o]
  <2>1. ownerOf[k][source] \in Ids
    BY <1>1, <1>5 DEF TypeOK
  <2>2. source \in Holders(k, ownerOf[k][source])
    BY <1>1 DEF Holders
  <2>3. count[k][ownerOf[k][source]] # 0
    BY <2>1, <2>2, HoldersFinite, FS_EmptySet DEF IInv, RefCountExact
  <2>4. ownerOf'[k] = [ownerOf[k] EXCEPT ![id] = ownerOf[k][source]]
    BY <1>2, <1>5 DEF RetainPeerOwnership, Emplace
  <2>5. count'[k] = [count[k] EXCEPT ![ownerOf[k][source]] = @ + 1]
    BY <1>5, <2>3 DEF RetainPeerOwnership, Emplace
  <2>6. ownerOf[k] \in [Ids -> Ids \cup {NoId}] /\ count[k] \in [Ids -> Nat]
    BY <1>1 DEF TypeOK
  <2>7. QED
    BY <2>1, <2>4, <2>5, <2>6
<1>6. TypeOK'
  <2>1. ownerOf' \in [Tables -> [Ids -> Ids \cup {NoId}]]
    <3>1. ASSUME NEW k \in Tables PROVE ownerOf'[k] \in [Ids -> Ids \cup {NoId}]
      <4>1. CASE ownerOf[k][source] = NoId
        BY <4>1, <1>1, <1>4 DEF TypeOK
      <4>2. CASE ownerOf[k][source] # NoId
        BY <4>2, <1>5
      <4>3. QED
        BY <4>1, <4>2
    <3>2. QED
      BY <3>1 DEF RetainPeerOwnership
  <2>2. count' \in [Tables -> [Ids -> Nat]]
    <3>1. ASSUME NEW k \in Tables PROVE count'[k] \in [Ids -> Nat]
      <4>1. CASE ownerOf[k][source] = NoId
        BY <4>1, <1>1, <1>4 DEF TypeOK
      <4>2. CASE ownerOf[k][source] # NoId
        BY <4>2, <1>5
      <4>3. QED
        BY <4>1, <4>2
    <3>2. QED
      BY <3>1 DEF RetainPeerOwnership
  <2>3. route' \in [Ids -> Peers \cup {Local}] /\ targets' \in SUBSET Ids
    BY <1>1, <1>2 DEF TypeOK
  <2>4. QED
    BY <1>1, <1>2, <1>3, <2>1, <2>2, <2>3 DEF TypeOK
<1>7. Unused'
  <2>1. ASSUME NEW t \in Ids, t >= nextId'
        PROVE  t >= nextId /\ t # id
    BY <2>1, <1>1, <1>2 DEF TypeOK, Ids
  <2>2. ASSUME NEW t \in Ids, t >= nextId', NEW k \in Tables
        PROVE  ownerOf'[k][t] = NoId /\ count'[k][t] = 0
    <3>1. t # id /\ ownerOf[k][t] = NoId /\ count[k][t] = 0 /\ t >= nextId
      BY <2>1, <2>2 DEF IInv, Unused
    <3>2. CASE ownerOf[k][source] = NoId
      BY <3>1, <3>2, <1>4
    <3>3. CASE ownerOf[k][source] # NoId
      <4>1. peers[k][ownerOf[k][source]] # Gone
        BY <3>3, <1>1 DEF IInv, OwnedPeerAlive
      <4>2. t # ownerOf[k][source]
        BY <4>1, <3>1 DEF IInv, Unused
      <4>3. QED
        BY <3>1, <3>3, <4>2, <1>5
    <3>4. QED
      BY <3>2, <3>3
  <2>3. \A t \in Ids : t >= nextId' => t \notin targets' /\ \A k \in Tables : peers'[k][t] = Gone
    BY <2>1, <1>2, <1>3 DEF IInv, Unused
  <2>4. nextId' = adds' + 1 /\ adds' <= MaxAdds
    BY <1>1, <1>2 DEF IInv, Unused, TypeOK
  <2>5. QED
    BY <2>2, <2>3, <2>4 DEF Unused
<1>8. RefCountExact'
  <2>1. SUFFICES ASSUME NEW k \in Tables, NEW o \in Ids
                 PROVE  count'[k][o] = Cardinality(Holders(k, o))'
    BY DEF RefCountExact
  <2>2. count[k][o] = Cardinality(Holders(k, o))
    BY DEF IInv, RefCountExact
  <2>3. CASE ownerOf[k][source] = NoId
    BY <2>2, <2>3, <1>4 DEF Holders
  <2>4. CASE ownerOf[k][source] # NoId /\ o = ownerOf[k][source]
    <3>1. Holders(k, o)' = Holders(k, o) \cup {id} /\ id \notin Holders(k, o)
      BY <2>4, <1>1, <1>2, <1>5, Joins
    <3>2. count'[k][o] = count[k][o] + 1
      BY <2>4, <1>5
    <3>3. QED
      BY <2>2, <3>1, <3>2, HoldersFinite, FS_AddElement
  <2>5. CASE ownerOf[k][source] # NoId /\ o # ownerOf[k][source]
    <3>1. Holders(k, o)' = Holders(k, o)
      BY <2>5, <1>1, <1>2, <1>5, Joins
    <3>2. count'[k][o] = count[k][o]
      BY <2>5, <1>5
    <3>3. QED
      BY <2>2, <3>1, <3>2
  <2>6. QED
    BY <2>3, <2>4, <2>5
<1>9. ASSUME NEW k \in Tables, NEW t \in Ids, t # id
      PROVE  ownerOf'[k][t] = ownerOf[k][t] /\ route'[t] = route[t]
  <2>1. route'[t] = route[t]
    BY <1>1, <1>2, <1>9 DEF TypeOK
  <2>2. ownerOf'[k][t] = ownerOf[k][t]
    <3>1. CASE ownerOf[k][source] = NoId
      BY <3>1, <1>4
    <3>2. CASE ownerOf[k][source] # NoId
      BY <3>2, <1>5, <1>9
    <3>3. QED
      BY <3>1, <3>2
  <2>3. QED
    BY <2>1, <2>2
<1>10. OwnedPeerAlive'
  <2>1. ASSUME NEW k \in Tables, NEW t \in Ids, ownerOf'[k][t] # NoId
        PROVE  /\ t \in targets'
               /\ peers'[k][ownerOf'[k][t]] # Gone
               /\ peers'[k][ownerOf'[k][t]] = route'[t]
    <3>1. CASE t = id
      <4>1. ownerOf[k][source] # NoId
        BY <2>1, <3>1, <1>2, <1>4
      <4>2. ownerOf'[k][t] = ownerOf[k][source] /\ route'[t] = route[source]
        <5>1. ownerOf'[k][t] = ownerOf[k][source]
          BY <3>1, <4>1, <1>5
        <5>2. route'[t] = route[source]
          BY <3>1, <1>1, <1>2 DEF TypeOK
        <5>3. QED
          BY <5>1, <5>2
      <4>3. /\ peers[k][ownerOf[k][source]] # Gone
            /\ peers[k][ownerOf[k][source]] = route[source]
        BY <4>1, <1>1 DEF IInv, OwnedPeerAlive
      <4>4. QED
        BY <3>1, <4>2, <4>3, <1>2, <1>3
    <3>2. CASE t # id
      BY <2>1, <3>2, <1>2, <1>3, <1>9 DEF IInv, OwnedPeerAlive
    <3>3. QED
      BY <3>1, <3>2
  <2>2. QED
    BY <2>1 DEF OwnedPeerAlive
<1>11. NoOrphanPeer'
  <2>1. ASSUME NEW k \in Tables, NEW o \in Ids, peers'[k][o] # Gone
        PROVE  \E t \in Ids : ownerOf'[k][t] = o
    <3>1. PICK t \in Ids : ownerOf[k][t] = o
      BY <2>1, <1>3 DEF IInv, NoOrphanPeer, Holders
    <3>2. t # id
      BY <3>1, <1>2, TableAssumption
    <3>3. QED
      BY <3>1, <3>2, <1>9
  <2>2. QED
    BY <2>1 DEF NoOrphanPeer, Holders
<1>12. QED
  BY <1>6, <1>7, <1>8, <1>10, <1>11 DEF IInv

\* dropTargetIfPresent, the half of releaseTarget and releaseTargets that changes
\* the tables: the last holder takes the connection with it, earlier ones do not.
LEMMA DropIInv ==
    ASSUME NoWrap, IInv, NEW t \in Ids, DropTargetIfPresent(t), batch' \in Seq(Ids),
           UNCHANGED <<nextId, route, adds, made>>
    PROVE  IInv'
<1>1. TypeOK
  BY DEF IInv
<1>2. targets' = targets \ {t} /\ forwarders' = forwarders \ {t}
  BY DEF DropTargetIfPresent
<1>3. \A k \in Tables, o \in Ids : count[k][o] = Cardinality(Holders(k, o)) /\ count[k][o] \in Nat
  BY <1>1 DEF IInv, RefCountExact, TypeOK
<1>4. ASSUME NEW k \in Tables, NEW u \in Ids
      PROVE  ownerOf'[k][u] = IF u = t THEN NoId ELSE ownerOf[k][u]
  BY <1>1 DEF DropTargetIfPresent, ReleasePeerOwnership, TypeOK
<1>5. ASSUME NEW k \in Tables, ownerOf[k][t] = NoId
      PROVE  count'[k] = count[k] /\ peers'[k] = peers[k]
  BY <1>5 DEF DropTargetIfPresent, ReleasePeerOwnership
<1>6. ASSUME NEW k \in Tables, ownerOf[k][t] # NoId
      PROVE  /\ ownerOf[k][t] \in Ids
             /\ count[k][ownerOf[k][t]] # 0
             /\ count'[k] \in [Ids -> Nat] /\ peers'[k] \in [Ids -> Peers \cup {Gone}]
             /\ \A o \in Ids : count'[k][o] = IF o = ownerOf[k][t] THEN count[k][o] - 1
                                              ELSE count[k][o]
             /\ \A o \in Ids : peers'[k][o] = IF o = ownerOf[k][t] /\ count[k][o] = 1
                                              THEN Gone ELSE peers[k][o]
  <2>1. ownerOf[k][t] \in Ids
    BY <1>1, <1>6 DEF TypeOK
  <2>2. t \in Holders(k, ownerOf[k][t])
    BY DEF Holders
  <2>3. count[k][ownerOf[k][t]] \in Nat \ {0}
    BY <1>3, <2>1, <2>2, HoldersFinite, FS_EmptySet
  <2>4. count'[k] = [count[k] EXCEPT ![ownerOf[k][t]] = @ - 1]
    BY <1>6, <2>3 DEF DropTargetIfPresent, ReleasePeerOwnership
  <2>5. peers'[k] = IF count[k][ownerOf[k][t]] = 1
                    THEN [peers[k] EXCEPT ![ownerOf[k][t]] = Gone] ELSE peers[k]
    BY <1>6 DEF DropTargetIfPresent, ReleasePeerOwnership
  <2>6. peers[k] \in [Ids -> Peers \cup {Gone}] /\ count[k] \in [Ids -> Nat]
    BY <1>1 DEF TypeOK
  <2>7. count'[k] \in [Ids -> Nat]
    BY <2>1, <2>3, <2>4, <2>6
  <2>8. peers'[k] \in [Ids -> Peers \cup {Gone}]
    BY <2>5, <2>6
  <2>9. QED
    BY <2>1, <2>3, <2>4, <2>5, <2>6, <2>7, <2>8
<1>7. TypeOK'
  <2>1. ASSUME NEW k \in Tables
        PROVE  /\ ownerOf'[k] \in [Ids -> Ids \cup {NoId}]
               /\ count'[k] \in [Ids -> Nat] /\ peers'[k] \in [Ids -> Peers \cup {Gone}]
    <3>1. ownerOf'[k] \in [Ids -> Ids \cup {NoId}]
      BY <1>1 DEF DropTargetIfPresent, ReleasePeerOwnership, TypeOK
    <3>2. CASE ownerOf[k][t] = NoId
      BY <3>1, <3>2, <1>1, <1>5 DEF TypeOK
    <3>3. CASE ownerOf[k][t] # NoId
      BY <3>1, <3>3, <1>6
    <3>4. QED
      BY <3>2, <3>3
  <2>2. /\ ownerOf' = [k \in Tables |-> ownerOf'[k]]
        /\ count' = [k \in Tables |-> count'[k]]
        /\ peers' = [k \in Tables |-> peers'[k]]
    BY DEF DropTargetIfPresent, ReleasePeerOwnership
  <2>3. /\ ownerOf' \in [Tables -> [Ids -> Ids \cup {NoId}]]
        /\ count' \in [Tables -> [Ids -> Nat]]
        /\ peers' \in [Tables -> [Ids -> Peers \cup {Gone}]]
    BY <2>1, <2>2
  <2>4. QED
    BY <1>1, <1>2, <2>3 DEF TypeOK
<1>8. ASSUME NEW k \in Tables, NEW o \in Ids
      PROVE  /\ peers'[k][o] # Gone => peers'[k][o] = peers[k][o]
             /\ peers[k][o] = Gone => peers'[k][o] = Gone
             /\ count[k][o] = 0 => count'[k][o] = 0
  <2>1. CASE ownerOf[k][t] = NoId
    BY <2>1, <1>5
  <2>2. CASE ownerOf[k][t] # NoId
    BY <2>2, <1>6
  <2>3. QED
    BY <2>1, <2>2
<1>9. Unused'
  BY <1>2, <1>4, <1>8 DEF IInv, Unused
<1>10. RefCountExact'
  <2>1. SUFFICES ASSUME NEW k \in Tables, NEW o \in Ids
                 PROVE  count'[k][o] = Cardinality(Holders(k, o))'
    BY DEF RefCountExact
  <2>2. CASE ownerOf[k][t] = NoId
    <3>1. Holders(k, o)' = Holders(k, o)
      BY <2>2, <1>4, TableAssumption DEF Holders
    <3>2. QED
      BY <2>2, <3>1, <1>3, <1>5
  <2>3. CASE ownerOf[k][t] # NoId /\ o = ownerOf[k][t]
    <3>1. Holders(k, o)' = Holders(k, o) \ {t} /\ t \in Holders(k, o)
      BY <2>3, <1>1, <1>4, Leaves
    <3>2. Cardinality(Holders(k, o) \ {t}) = Cardinality(Holders(k, o)) - 1
      BY <3>1, HoldersFinite, FS_RemoveElement
    <3>3. count'[k][o] = count[k][o] - 1
      BY <2>3, <1>6
    <3>4. QED
      BY <3>1, <3>2, <3>3, <1>3
  <2>4. CASE ownerOf[k][t] # NoId /\ o # ownerOf[k][t]
    <3>1. ownerOf[k][t] \in Ids /\ Holders(k, o)' = Holders(k, o)
      BY <2>4, <1>1, <1>4, <1>6, Leaves
    <3>2. QED
      BY <2>4, <3>1, <1>3, <1>6
  <2>5. QED
    BY <2>2, <2>3, <2>4
<1>11. ASSUME NEW k \in Tables, NEW u \in Ids, u # t, ownerOf[k][u] # NoId
       PROVE  peers'[k][ownerOf[k][u]] = peers[k][ownerOf[k][u]]
  <2>1. CASE ownerOf[k][t] = ownerOf[k][u]
    <3>1. ownerOf[k][u] \in Ids /\ {t, u} \subseteq Holders(k, ownerOf[k][u])
      BY <2>1, <1>1, <1>11 DEF Holders, TypeOK
    <3>2. Cardinality(Holders(k, ownerOf[k][u])) # 1
      BY <3>1, <1>11, HoldersFinite, FS_Singleton
    <3>3. QED
      BY <2>1, <3>1, <3>2, <1>3, <1>6, <1>11
  <2>2. CASE ownerOf[k][t] # ownerOf[k][u]
    <3>1. ownerOf[k][u] \in Ids
      BY <1>1, <1>11 DEF TypeOK
    <3>2. QED
      BY <2>2, <3>1, <1>5, <1>6
  <2>3. QED
    BY <2>1, <2>2
<1>12. OwnedPeerAlive'
  <2>1. ASSUME NEW k \in Tables, NEW u \in Ids, ownerOf'[k][u] # NoId
        PROVE  /\ u \in targets'
               /\ peers'[k][ownerOf'[k][u]] # Gone
               /\ peers'[k][ownerOf'[k][u]] = route[u]
    <3>1. u # t /\ ownerOf'[k][u] = ownerOf[k][u]
      BY <2>1, <1>4
    <3>2. QED
      BY <2>1, <3>1, <1>2, <1>11 DEF IInv, OwnedPeerAlive
  <2>2. QED
    BY <2>1 DEF OwnedPeerAlive
<1>13. NoOrphanPeer'
  <2>1. SUFFICES ASSUME NEW k \in Tables, NEW o \in Ids, peers'[k][o] # Gone,
                        Holders(k, o)' = {}
                 PROVE  FALSE
    BY DEF NoOrphanPeer
  <2>2. Holders(k, o) # {}
    BY <2>1, <1>8 DEF IInv, NoOrphanPeer
  <2>3. Holders(k, o) = {t}
    BY <2>1, <2>2, <1>4 DEF Holders
  <2>4. ownerOf[k][t] = o /\ count[k][o] = 1
    <3>1. t \in Holders(k, o) /\ Cardinality(Holders(k, o)) = 1
      BY <2>3, FS_Singleton
    <3>2. QED
      BY <3>1, <1>3 DEF Holders
  <2>5. QED
    BY <2>1, <2>4, <1>6, TableAssumption
<1>14. QED
  BY <1>7, <1>9, <1>10, <1>12, <1>13 DEF IInv

LEMMA NextIInv == NoWrap /\ IInv /\ [Next]_vars => IInv'
<1> SUFFICES ASSUME NoWrap, IInv, [Next]_vars PROVE IInv'
  OBVIOUS
<1>1. CASE Register
  <2>1. PICK id \in Ids : AddTarget(id, Local) /\ UNCHANGED <<tableVars, batch, forwarders, made>>
    BY <1>1 DEF Register
  <2>2. QED
    BY <2>1, RegisterIInv
<1>2. CASE Receive
  <2>1. PICK source \in targets, id \in Ids :
          AddTarget(id, route[source]) /\ UNCHANGED <<tableVars, batch, forwarders, made>>
    BY <1>2 DEF Receive
  <2>2. route[source] \in Peers \cup {Local}
    BY <2>1 DEF IInv, TypeOK
  <2>3. QED
    BY <2>1, <2>2, RegisterIInv
<1>3. CASE \E k \in Tables : Connect(k)
  BY <1>3, ConnectIInv
<1>4. CASE Retain \/ RegisterTailCall
  <2>1. PICK source \in targets, id \in Ids :
          /\ AddTarget(id, route[source])
          /\ RetainPeerOwnership(source, id)
          /\ forwarders' \in SUBSET Ids
          /\ UNCHANGED <<batch, made>>
    BY <1>4 DEF Retain, RegisterTailCall, IInv, TypeOK
  <2>2. QED
    BY <2>1, RetainIInv
<1>5. CASE \E t \in Ids : Release(t)
  <2>1. PICK t \in Ids : Release(t)
    BY <1>5
  <2>2. batch' \in Seq(Ids)
    BY <2>1 DEF Release, IInv, TypeOK
  <2>3. QED
    BY <2>1, <2>2, DropIInv DEF Release
<1>6. CASE ReleaseTargets
  <2>1. UNCHANGED <<nextId, targets, tableVars, forwarders, route, adds, made>>
    BY <1>6 DEF ReleaseTargets
  <2>2. batch' \in Seq(Ids)
    <3>1. PICK n \in 2 .. MaxBatch : batch' \in [1 .. n -> Ids]
      BY <1>6 DEF ReleaseTargets
    <3>2. n \in Nat
      BY <3>1, TableAssumption
    <3>3. QED
      BY <3>1, <3>2, SeqDef
  <2>3. QED
    BY <2>1, <2>2 DEF IInv, TypeOK, Unused, RefCountExact, OwnedPeerAlive, NoOrphanPeer,
                      Holders, tableVars
<1>7. CASE ReleaseNext
  <2>1. batch # <<>> /\ batch \in Seq(Ids)
    BY <1>7 DEF ReleaseNext, IInv, TypeOK
  <2>2. Head(batch) \in Ids /\ Tail(batch) \in Seq(Ids) /\ <<>> \in Seq(Ids)
    BY <2>1, HeadTailProperties, EmptySeq
  <2>3. batch' \in Seq(Ids)
    BY <1>7, <2>2 DEF ReleaseNext
  <2>4. CASE Head(batch) = 0
    <3>1. UNCHANGED <<nextId, targets, tableVars, forwarders, route, adds, made>>
      BY <1>7, <2>4 DEF ReleaseNext
    <3>2. QED
      BY <2>3, <3>1 DEF IInv, TypeOK, Unused, RefCountExact, OwnedPeerAlive, NoOrphanPeer,
                        Holders, tableVars
  <2>5. CASE Head(batch) # 0
    BY <1>7, <2>2, <2>3, <2>5, DropIInv DEF ReleaseNext
  <2>6. QED
    BY <2>4, <2>5
<1>8. CASE UNCHANGED vars
  BY <1>8 DEF vars, tableVars, IInv, TypeOK, Unused, RefCountExact, OwnedPeerAlive,
              NoOrphanPeer, Holders
<1>9. QED
  BY <1>1, <1>2, <1>3, <1>4, <1>5, <1>6, <1>7, <1>8 DEF Next

THEOREM Invariance == NoWrap => (Spec => []IInv)
<1> SUFFICES ASSUME NoWrap PROVE Spec => []IInv
  OBVIOUS
<1>1. Init => IInv
  BY InitIInv
<1>2. IInv /\ [Next]_vars => IInv'
  BY NextIInv
<1>3. QED
  BY <1>1, <1>2, PTL DEF Spec

-----------------------------------------------------------------------------
(* The properties.                                                         *)

\* The tables and the id counter keep their types.
THEOREM TypeCorrect == NoWrap => (Spec => []TypeOK)
<1>1. IInv => TypeOK
  BY DEF IInv
<1>2. QED
  BY <1>1, Invariance, PTL

\* The reference count of retainPeerOwnership and releasePeerOwnership is the
\* number of ids that name the owner, however often ids are copied and released.
THEOREM CountsHolders == NoWrap => (Spec => []RefCountExact)
<1>1. IInv => RefCountExact
  BY DEF IInv
<1>2. QED
  BY <1>1, Invariance, PTL

\* The connection an id holds is not torn down under it.
THEOREM PeerOutlivesIds == NoWrap => (Spec => []OwnedPeerAlive)
<1>1. IInv => OwnedPeerAlive
  BY DEF IInv
<1>2. QED
  BY <1>1, Invariance, PTL

\* Releasing the last id of a connection removes its peer object.
THEOREM NoPeerLeaks == NoWrap => (Spec => []NoOrphanPeer)
<1>1. IInv => NoOrphanPeer
  BY DEF IInv
<1>2. QED
  BY <1>1, Invariance, PTL

\* What registerTailCallTarget promises holds as long as ids are not reused.
THEOREM ForwardersKeepPeers == NoWrap => (Spec => []ForwarderKeepsPeer)
<1>1. IInv => ForwarderKeepsPeer
  BY DEF IInv, TypeOK, OwnedPeerAlive, ForwarderKeepsPeer
<1>2. QED
  BY <1>1, Invariance, PTL

-----------------------------------------------------------------------------
(* TargetTable implements PeerSharing.                                     *)

\* A connection is behind one owner of one table, and none is there that was not made:
\* a new connection is not already open, and its last holder takes it from every table.
PeersDistinct ==
    \A j, k \in Tables : \A o, u \in Ids :
        peers[j][o] # Gone /\ peers[j][o] = peers[k][u] => j = k /\ o = u

PeersMade == \A k \in Tables, o \in Ids : peers[k][o] <= made

SharingInv == PeersDistinct /\ PeersMade

\* An id that holds a connection has it behind its owner, in one table only.
LEMMA HoldsOne ==
    ASSUME IInv, SharingInv, NEW j \in Tables, NEW k \in Tables, NEW t \in Ids, NEW u \in Ids,
           ownerOf[j][t] # NoId, ownerOf[k][u] # NoId, route[t] = route[u]
    PROVE  j = k /\ ownerOf[j][t] = ownerOf[k][u]
<1>1. /\ ownerOf[j][t] \in Ids /\ ownerOf[k][u] \in Ids
      /\ peers[j][ownerOf[j][t]] # Gone
      /\ peers[j][ownerOf[j][t]] = route[t] /\ peers[k][ownerOf[k][u]] = route[u]
  BY DEF IInv, TypeOK, OwnedPeerAlive
<1>2. QED
  BY <1>1 DEF SharingInv, PeersDistinct

\* What PeerSharing sees changes only where an id joins or leaves a connection.
LEMMA SharersSame ==
    ASSUME NEW p \in Peers, \A t \in Ids : route'[t] = p /\ Holds(t)' <=> route[t] = p /\ Holds(t)
    PROVE  Sharers'[p] = Sharers[p]
BY DEF Sharers

LEMMA NothingShared ==
    ASSUME \A t \in Ids : Holds(t)' <=> Holds(t),
           \A t \in Ids : Holds(t) => route'[t] = route[t],
           peers' = peers
    PROVE  UNCHANGED Sharing!vars
<1>1. \A p \in Peers : Sharers'[p] = Sharers[p]
  BY SharersSame
<1>2. Sharers' = [p \in Peers |-> Sharers'[p]] /\ Sharers = [p \in Peers |-> Sharers[p]]
  BY DEF Sharers
<1>3. Sharers' = Sharers
  BY <1>1, <1>2
<1>4. Open' = Open
  BY DEF Open
<1>5. QED
  BY <1>3, <1>4 DEF Sharing!vars

LEMMA OneChanges ==
    ASSUME NEW p \in Peers, NEW S, Sharers'[p] = S,
           \A q \in Peers \ {p} : Sharers'[q] = Sharers[q]
    PROVE  Sharers' = [Sharers EXCEPT ![p] = S]
<1>1. Sharers' = [q \in Peers |-> Sharers'[q]] /\ Sharers = [q \in Peers |-> Sharers[q]]
  BY DEF Sharers
<1>2. QED
  BY <1>1

\* A new connection has one holder, the id it was registered under.
LEMMA ConnectShares ==
    ASSUME NoWrap, IInv, SharingInv, NEW k \in Tables, Connect(k)
    PROVE  SharingInv' /\ Sharing!Next
<1>1. PICK id \in Ids :
        /\ made < MaxPeers
        /\ made' = made + 1
        /\ AddTarget(id, made + 1)
        /\ peers' = [peers EXCEPT ![k][id] = Emplace(@, Gone, made + 1)]
        /\ ownerOf' = [ownerOf EXCEPT ![k][id] = Emplace(@, NoId, id)]
  BY DEF Connect
<1>2. /\ route' = [route EXCEPT ![id] = made + 1]
      /\ \A j \in Tables : ownerOf[j][id] = NoId /\ peers[j][id] = Gone
  BY <1>1, AddTargetEffect
<1> DEFINE p == made + 1
<1>3. TypeOK
  BY DEF IInv
<1>4. p \in Peers /\ p # Gone /\ made \in Nat
  BY <1>1, <1>3, TableAssumption DEF TypeOK, Peers, Gone
<1>5. \A j \in Tables, o \in Ids :
         /\ peers'[j][o] = IF j = k /\ o = id THEN p ELSE peers[j][o]
         /\ ownerOf'[j][o] = IF j = k /\ o = id THEN id ELSE ownerOf[j][o]
  BY <1>1, <1>2, <1>3 DEF Emplace, TypeOK
<1>6. \A t \in Ids : route'[t] = IF t = id THEN p ELSE route[t]
  BY <1>2, <1>3 DEF TypeOK
<1>7. \A j \in Tables, o \in Ids : peers[j][o] \in Nat /\ peers[j][o] <= made /\ peers[j][o] # p
  BY <1>3, <1>4, TableAssumption DEF SharingInv, PeersMade, TypeOK, Peers, Gone
<1>8. SharingInv'
  <2>1. PeersDistinct'
    BY <1>5, <1>7 DEF SharingInv, PeersDistinct
  <2>2. PeersMade'
    BY <1>1, <1>4, <1>5, <1>7 DEF PeersMade
  <2>3. QED
    BY <2>1, <2>2 DEF SharingInv
<1>9. /\ Holds(id)' /\ ~Holds(id)
      /\ \A t \in Ids \ {id} : Holds(t)' <=> Holds(t)
  BY <1>2, <1>5, TableAssumption DEF Holds
<1>10. \A t \in Ids : Holds(t) => route[t] # p
  <2>1. SUFFICES ASSUME NEW t \in Ids, NEW j \in Tables, ownerOf[j][t] # NoId
                 PROVE  route[t] # p
    BY DEF Holds
  <2>2. ownerOf[j][t] \in Ids /\ peers[j][ownerOf[j][t]] = route[t]
    BY <2>1, <1>3 DEF IInv, OwnedPeerAlive, TypeOK
  <2>3. QED
    BY <2>2, <1>7
<1>11. Sharers[p] = {} /\ Sharers'[p] = {id}
  BY <1>4, <1>6, <1>9, <1>10 DEF Sharers
<1>12. \A q \in Peers \ {p} : Sharers'[q] = Sharers[q]
  BY <1>6, <1>9, SharersSame
<1>13. p \notin Open /\ Open' = Open \cup {p}
  <2>1. p \notin Open
    BY <1>7 DEF Open
  <2>2. p \in Open'
    BY <1>4, <1>5 DEF Open
  <2>3. ASSUME NEW q \in Open' PROVE q \in Open \cup {p}
    <3>1. PICK j \in Tables, o \in Ids : q = peers'[j][o] /\ q # Gone
      BY DEF Open
    <3>2. QED
      BY <3>1, <1>5 DEF Open
  <2>4. ASSUME NEW q \in Open PROVE q \in Open'
    <3>1. PICK j \in Tables, o \in Ids : q = peers[j][o] /\ q # Gone
      BY DEF Open
    <3>2. peers'[j][o] = q
      BY <3>1, <1>2, <1>5
    <3>3. QED
      BY <3>1, <3>2 DEF Open
  <2>5. QED
    BY <2>1, <2>2, <2>3, <2>4
<1>14. Sharing!Connect(p, id)
  BY <1>4, <1>11, <1>12, <1>13, OneChanges DEF Sharing!Connect
<1>15. QED
  BY <1>4, <1>8, <1>14 DEF Sharing!Next

\* A retained id and a forwarder share the connection of their source, if it holds one.
LEMMA RetainShares ==
    ASSUME NoWrap, IInv, SharingInv, NEW source \in targets, NEW id \in Ids,
           AddTarget(id, route[source]), RetainPeerOwnership(source, id), UNCHANGED made
    PROVE  SharingInv' /\ [Sharing!Next]_Sharing!vars
<1>1. TypeOK /\ source \in Ids
  BY DEF IInv, TypeOK
<1>2. /\ route' = [route EXCEPT ![id] = route[source]]
      /\ id \notin targets
      /\ \A j \in Tables : ownerOf[j][id] = NoId
  BY <1>1, AddTargetEffect
<1>3. source # id /\ peers' = peers
  BY <1>2 DEF RetainPeerOwnership
<1>4. \A k \in Tables, t \in Ids :
         ownerOf'[k][t] = IF t = id THEN ownerOf[k][source] ELSE ownerOf[k][t]
  BY <1>1, <1>2, <1>3 DEF RetainPeerOwnership, Emplace, TypeOK
<1>5. \A t \in Ids : route'[t] = IF t = id THEN route[source] ELSE route[t]
  BY <1>1, <1>2 DEF TypeOK
<1>6. SharingInv'
  BY <1>3 DEF SharingInv, PeersDistinct, PeersMade
<1>7. /\ ~Holds(id) /\ (Holds(id)' <=> Holds(source))
      /\ \A t \in Ids \ {id} : Holds(t)' <=> Holds(t)
  BY <1>2, <1>4 DEF Holds
<1>8. CASE Holds(source)
  <2> DEFINE p == route[source]
  <2>1. p \in Peers
    <3>1. PICK k \in Tables : ownerOf[k][source] # NoId
      BY <1>8 DEF Holds
    <3>2. QED
      BY <3>1, <1>1, TableAssumption DEF IInv, OwnedPeerAlive, TypeOK, Gone
  <2>2. source \in Sharers[p] /\ id \notin Sharers[p]
    BY <1>1, <1>7, <1>8, <2>1 DEF Sharers
  <2>3. Sharers'[p] = Sharers[p] \cup {id}
    BY <1>5, <1>7, <1>8, <2>1 DEF Sharers
  <2>4. \A q \in Peers \ {p} : Sharers'[q] = Sharers[q]
    BY <1>5, <1>7, SharersSame
  <2>5. Open' = Open
    BY <1>3 DEF Open
  <2>6. Sharing!Share(p, id)
    BY <2>1, <2>2, <2>3, <2>4, <2>5, OneChanges DEF Sharing!Share
  <2>7. QED
    BY <1>6, <2>1, <2>6 DEF Sharing!Next
<1>9. CASE ~Holds(source)
  <2>1. \A t \in Ids : (Holds(t)' <=> Holds(t)) /\ (Holds(t) => route'[t] = route[t])
    BY <1>5, <1>7, <1>9
  <2>2. UNCHANGED Sharing!vars
    BY <1>3, <2>1, NothingShared
  <2>3. QED
    BY <1>6, <2>2
<1>10. QED
  BY <1>8, <1>9

\* A released id leaves its connection; the last one closes it.
LEMMA DropShares ==
    ASSUME IInv, SharingInv, NEW t \in Ids, DropTargetIfPresent(t), UNCHANGED <<route, made>>
    PROVE  SharingInv' /\ [Sharing!Next]_Sharing!vars
<1>1. TypeOK
  BY DEF IInv
<1>2. \A k \in Tables, u \in Ids : ownerOf'[k][u] = IF u = t THEN NoId ELSE ownerOf[k][u]
  BY <1>1 DEF DropTargetIfPresent, ReleasePeerOwnership, TypeOK
<1>3. \A k \in Tables, o \in Ids :
         peers'[k][o] = IF ownerOf[k][t] # NoId /\ o = ownerOf[k][t] /\ count[k][o] = 1
                        THEN Gone ELSE peers[k][o]
  BY <1>1 DEF DropTargetIfPresent, ReleasePeerOwnership, TypeOK
<1>4. SharingInv'
  <2>1. \A k \in Tables, o \in Ids : peers'[k][o] \in {peers[k][o], Gone}
    BY <1>3
  <2>2. \A k \in Tables, o \in Ids : Gone <= made /\ peers[k][o] <= made
    BY <1>1, TableAssumption DEF SharingInv, PeersMade, TypeOK, Gone
  <2>3. PeersDistinct'
    BY <2>1 DEF SharingInv, PeersDistinct
  <2>4. PeersMade'
    BY <2>1, <2>2 DEF PeersMade
  <2>5. QED
    BY <2>3, <2>4 DEF SharingInv
<1>5. ~Holds(t)' /\ \A u \in Ids \ {t} : Holds(u)' <=> Holds(u)
  BY <1>2 DEF Holds
<1>6. CASE ~Holds(t)
  <2>1. peers' = peers
    <3>1. \A k \in Tables : ownerOf[k][t] = NoId
      BY <1>6 DEF Holds
    <3>2. peers' = [k \in Tables |-> peers[k]]
      BY <3>1 DEF DropTargetIfPresent, ReleasePeerOwnership
    <3>3. QED
      BY <3>2, <1>1 DEF TypeOK
  <2>2. UNCHANGED Sharing!vars
    BY <1>5, <1>6, <2>1, NothingShared
  <2>3. QED
    BY <1>4, <2>2
<1>7. CASE Holds(t)
  <2>1. PICK k \in Tables : ownerOf[k][t] # NoId
    BY <1>7 DEF Holds
  <2> DEFINE o == ownerOf[k][t]
             p == route[t]
  <2>2. o \in Ids /\ peers[k][o] = p /\ p # Gone /\ p \in Peers
    BY <2>1, <1>1 DEF IInv, OwnedPeerAlive, TypeOK
  <2>3. Sharers[p] = Holders(k, o)
    <3>1. ASSUME NEW u \in Sharers[p] PROVE u \in Holders(k, o)
      <4>1. PICK j \in Tables : ownerOf[j][u] # NoId /\ u \in Ids /\ route[u] = p
        BY <2>2 DEF Sharers, Holds
      <4>2. QED
        BY <2>1, <4>1, HoldsOne DEF Holders
    <3>2. ASSUME NEW u \in Holders(k, o) PROVE u \in Sharers[p]
      <4>1. u \in Ids /\ ownerOf[k][u] = o /\ o # NoId
        BY <2>2, TableAssumption DEF Holders
      <4>2. route[u] = p
        BY <2>2, <4>1 DEF IInv, OwnedPeerAlive
      <4>3. QED
        BY <2>2, <4>1, <4>2 DEF Sharers, Holds
    <3>3. QED
      BY <3>1, <3>2
  <2>4. t \in Sharers[p] /\ Sharers'[p] = Sharers[p] \ {t}
    BY <1>5, <1>7, <2>2 DEF Sharers
  <2>5. \A q \in Peers \ {p} : Sharers'[q] = Sharers[q]
    BY <1>5, SharersSame
  <2>6. count[k][o] = 1 <=> Sharers[p] = {t}
    <3>1. count[k][o] = Cardinality(Holders(k, o)) /\ IsFiniteSet(Holders(k, o))
      BY <2>2, HoldersFinite DEF IInv, RefCountExact
    <3>2. ASSUME Cardinality(Holders(k, o)) = 1 PROVE Sharers[p] = {t}
      <4> DEFINE H == Holders(k, o)
      <4>1. t \in H /\ IsFiniteSet(H) /\ Cardinality(H) = 1
        BY <3>1, <3>2, <2>3, <2>4
      <4> HIDE DEF H
      <4>2. IsFiniteSet(H \ {t}) /\ Cardinality(H \ {t}) = 0
        BY <4>1, FS_RemoveElement
      <4>3. H \ {t} = {}
        BY <4>2, FS_EmptySet
      <4>4. H = {t}
        BY <4>1, <4>3
      <4>5. QED
        BY <4>4, <2>3 DEF H
    <3>3. Sharers[p] = {t} => Cardinality(Holders(k, o)) = 1
      BY <2>3, FS_Singleton
    <3>4. QED
      BY <3>1, <3>2, <3>3
  <2>7. \A j \in Tables, u \in Ids :
           peers'[j][u] = IF j = k /\ u = o /\ Sharers[p] = {t} THEN Gone ELSE peers[j][u]
    <3>1. \A j \in Tables : ownerOf[j][t] # NoId => j = k
      BY <2>1, HoldsOne
    <3>2. QED
      BY <1>3, <2>1, <2>6, <3>1
  <2>8. Open' = IF Sharers[p] = {t} THEN Open \ {p} ELSE Open
    <3>1. CASE Sharers[p] # {t}
      <4>1. \A j \in Tables, u \in Ids : peers'[j][u] = peers[j][u]
        BY <2>7, <3>1
      <4>2. QED
        BY <3>1, <4>1 DEF Open
    <3>2. CASE Sharers[p] = {t}
      <4>1. \A j \in Tables, u \in Ids :
               peers'[j][u] = IF peers[j][u] = p THEN Gone ELSE peers[j][u]
        BY <2>2, <2>7, <3>2 DEF SharingInv, PeersDistinct
      <4>2. ASSUME NEW q \in Open' PROVE q \in Open \ {p}
        <5>1. PICK j \in Tables, u \in Ids : q = peers'[j][u] /\ q # Gone
          BY DEF Open
        <5>2. QED
          BY <4>1, <5>1 DEF Open
      <4>3. ASSUME NEW q \in Open \ {p} PROVE q \in Open'
        <5>1. PICK j \in Tables, u \in Ids : q = peers[j][u] /\ q # Gone
          BY DEF Open
        <5>2. peers'[j][u] = q
          BY <4>1, <4>3, <5>1
        <5>3. QED
          BY <5>1, <5>2 DEF Open
      <4>4. QED
        BY <3>2, <4>2, <4>3
    <3>3. QED
      BY <3>1, <3>2
  <2>9. Sharing!Leave(p, t)
    BY <2>2, <2>4, <2>5, <2>8, OneChanges DEF Sharing!Leave
  <2>10. QED
    BY <1>4, <2>2, <2>9 DEF Sharing!Next
<1>8. QED
  BY <1>6, <1>7

\* Retain, release, forwarders and batches that fail half-way, as the worker executes
\* them, share connections as PeerSharing says: each connection is open while some id
\* holds it and is closed by the release of the last one.
THEOREM Refinement == NoWrap => (Spec => ImplementsPeerSharing)
<1> SUFFICES ASSUME NoWrap PROVE Spec => ImplementsPeerSharing
  OBVIOUS
<1>1. Init => SharingInv /\ Sharing!Init
  <2> SUFFICES ASSUME Init PROVE SharingInv /\ Sharing!Init
    OBVIOUS
  <2>1. \A k \in Tables, o \in Ids : peers[k][o] = Gone /\ ownerOf[k][o] = NoId
    BY DEF Init
  <2>2. SharingInv
    BY <2>1 DEF SharingInv, PeersDistinct, PeersMade, Init, Gone
  <2>3. Sharers = [p \in Peers |-> {}] /\ Open = {}
    BY <2>1 DEF Sharers, Holds, Open
  <2>4. QED
    BY <2>2, <2>3 DEF Sharing!Init
<1>2. IInv /\ SharingInv /\ [Next]_vars => SharingInv' /\ [Sharing!Next]_Sharing!vars
  <2> SUFFICES ASSUME IInv, SharingInv, [Next]_vars
               PROVE  SharingInv' /\ [Sharing!Next]_Sharing!vars
    OBVIOUS
  <2>1. ASSUME NEW id \in Ids, NEW r, AddTarget(id, r), UNCHANGED <<tableVars, made>>
        PROVE  SharingInv' /\ UNCHANGED Sharing!vars
    <3>1. /\ route' = [route EXCEPT ![id] = r]
          /\ \A k \in Tables : ownerOf[k][id] = NoId
      BY <2>1, AddTargetEffect
    <3>2. \A t \in Ids : (Holds(t)' <=> Holds(t)) /\ (Holds(t) => route'[t] = route[t])
      BY <2>1, <3>1 DEF Holds, tableVars, IInv, TypeOK
    <3>3. UNCHANGED Sharing!vars
      BY <2>1, <3>2, NothingShared DEF tableVars
    <3>4. QED
      BY <2>1, <3>3 DEF tableVars, SharingInv, PeersDistinct, PeersMade
  <2>2. CASE Register \/ Receive
    BY <2>1, <2>2 DEF Register, Receive
  <2>3. CASE \E k \in Tables : Connect(k)
    BY <2>3, ConnectShares
  <2>4. CASE Retain \/ RegisterTailCall
    BY <2>4, RetainShares DEF Retain, RegisterTailCall
  <2>5. CASE \E t \in Ids : Release(t)
    BY <2>5, DropShares DEF Release
  <2>6. ASSUME UNCHANGED <<tableVars, route, made>>
        PROVE  SharingInv' /\ UNCHANGED Sharing!vars
    <3>1. \A t \in Ids : (Holds(t)' <=> Holds(t)) /\ (Holds(t) => route'[t] = route[t])
      BY <2>6 DEF Holds, tableVars
    <3>2. QED
      BY <2>6, <3>1, NothingShared DEF tableVars, SharingInv, PeersDistinct, PeersMade
  <2>7. CASE ReleaseTargets \/ UNCHANGED vars
    BY <2>6, <2>7 DEF ReleaseTargets, vars
  <2>8. CASE ReleaseNext
    <3>1. CASE Head(batch) = 0
      BY <2>6, <2>8, <3>1 DEF ReleaseNext
    <3>2. CASE Head(batch) # 0
      <4>1. Head(batch) \in Ids
        BY <2>8, HeadTailProperties DEF ReleaseNext, IInv, TypeOK
      <4>2. QED
        BY <2>8, <3>2, <4>1, DropShares DEF ReleaseNext
    <3>3. QED
      BY <3>1, <3>2
  <2>9. QED
    BY <2>2, <2>3, <2>4, <2>5, <2>7, <2>8 DEF Next
<1>3. QED
  BY <1>1, <1>2, Invariance, PTL DEF Spec, ImplementsPeerSharing, Sharing!Spec
=============================================================================
