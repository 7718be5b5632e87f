---------------------- MODULE PromiseCapabilityProofs ----------------------
(***************************************************************************)
(* Proofs about PromiseCapability for any number of capabilities and       *)
(* promises, and so for held queues of any length.                         *)
(***************************************************************************)
EXTENDS PromiseCapability, SequenceTheorems, TLAPS

Request == [fulfiller : Fulfillers, target : Ids]

\* A promise that has not been made has not been resolved.
Untouched == \A f \in Fulfillers : f >= nextFul => outcome[f] = Unresolved

\* What promiseCapabilityFulfill checked of a held resolve still holds, but for the
\* target being there.
HeldNotOwn == \A i \in DOMAIN held : held[i].target # own[held[i].fulfiller]

IInv == TypeOK /\ HeldConsistent /\ NotAbandoned /\ Untouched /\ HeldNotOwn

LEMMA HeldElements ==
    ASSUME TypeOK
    PROVE  /\ held \in Seq(Request)
           /\ Len(held) \in Nat /\ DOMAIN held = 1 .. Len(held)
           /\ \A i \in DOMAIN held : /\ held[i] \in Request
                                     /\ held[i].fulfiller \in Fulfillers
                                     /\ held[i].target \in Ids
<1>1. held \in Seq(Request)
  BY DEF TypeOK, Request
<1>2. Len(held) \in Nat /\ DOMAIN held = 1 .. Len(held)
  BY <1>1, LenProperties
<1>3. \A i \in DOMAIN held : held[i] \in Request
  BY <1>1, <1>2, ElementOfSeq
<1>4. QED
  BY <1>1, <1>2, <1>3 DEF Request

LEMMA HeldUnique ==
    ASSUME HeldConsistent, NEW i \in DOMAIN held, NEW j \in DOMAIN held,
           held[i].fulfiller = held[j].fulfiller
    PROVE  i = j
BY DEF HeldConsistent

LEMMA HeldMembers ==
    ASSUME HeldConsistent
    PROVE  heldIds = {held[i].fulfiller : i \in DOMAIN held} /\ heldIds \subseteq pending
BY DEF HeldConsistent, HeldRequests

\* What is left of a sequence behind its first m elements.
LEMMA Suffix ==
    ASSUME NEW S, NEW s \in Seq(S), NEW m \in Nat
    PROVE  /\ SubSeq(s, m + 1, Len(s)) \in Seq(S)
           /\ Len(SubSeq(s, m + 1, Len(s))) = IF m <= Len(s) THEN Len(s) - m ELSE 0
           /\ \A k \in 1 .. Len(s) - m : SubSeq(s, m + 1, Len(s))[k] = s[m + k]
<1>1. Len(s) \in Nat /\ \A i \in m + 1 .. Len(s) : s[i] \in S
  BY LenProperties, ElementOfSeq
<1>2. m + 1 \in Int /\ Len(s) \in Int
  BY <1>1
<1> DEFINE t == SubSeq(s, m + 1, Len(s))
<1>3. /\ t \in Seq(S)
      /\ Len(t) = IF m + 1 <= Len(s) THEN Len(s) - (m + 1) + 1 ELSE 0
      /\ \A i \in 1 .. Len(s) - (m + 1) + 1 : t[i] = s[(m + 1) + i - 1]
  BY <1>1, <1>2, SubSeqProperties
<1> HIDE DEF t
<1>4. Len(t) = IF m <= Len(s) THEN Len(s) - m ELSE 0
  <2>1. Len(t) = IF m + 1 <= Len(s) THEN Len(s) - (m + 1) + 1 ELSE 0
    BY <1>3
  <2>2. CASE m + 1 <= Len(s)
    BY <1>1, <2>1, <2>2
  <2>3. CASE ~(m + 1 <= Len(s))
    <3>1. Len(t) = 0 /\ (m <= Len(s) => Len(s) - m = 0)
      BY <1>1, <2>1, <2>3
    <3>2. QED
      BY <3>1
  <2>4. QED
    BY <2>2, <2>3
<1>5. ASSUME NEW k \in 1 .. Len(s) - m PROVE t[k] = s[m + k]
  <2>1. k \in 1 .. Len(s) - (m + 1) + 1 /\ (m + 1) + k - 1 = m + k
    BY <1>1
  <2>2. QED
    BY <1>3, <2>1
<1>6. QED
  BY <1>3, <1>4, <1>5 DEF t

\* The requests of held whose positions are in keep, in their order, are held'.
Keeps(keep) ==
    /\ held' \in Seq(Request)
    /\ \A k \in DOMAIN held' : \E i \in keep : held'[k] = held[i]
    /\ \A i \in keep : \E k \in DOMAIN held' : held'[k] = held[i]
    /\ \A k, l \in DOMAIN held' : held'[k].fulfiller = held'[l].fulfiller => k = l

\* dropHeldPromiseCapabilityResolve keeps exactly the other fulfillers' requests.
LEMMA DropKeeps ==
    ASSUME TypeOK, HeldConsistent, NEW f \in Fulfillers, DropHeld(f)
    PROVE  Keeps(DOMAIN held \ HoldsFor(f))
<1> DEFINE keep == DOMAIN held \ HoldsFor(f)
<1>0. /\ held \in Seq(Request) /\ Len(held) \in Nat /\ DOMAIN held = 1 .. Len(held)
  BY HeldElements
<1>1. CASE f \notin heldIds \/ HoldsFor(f) = {}
  <2>1. HoldsFor(f) = {}
    BY <1>1, HeldMembers DEF HoldsFor
  <2>2. held' = held
    BY <2>1 DEF DropHeld
  <2>3. QED
    BY <2>1, <2>2, <1>0 DEF Keeps, HeldConsistent
<1>2. CASE f \in heldIds /\ HoldsFor(f) # {}
  <2>1. PICK p \in HoldsFor(f) :
          held' = SubSeq(held, 1, p - 1) \o SubSeq(held, p + 1, Len(held))
    BY <1>2 DEF DropHeld
  <2>2. p \in 1 .. Len(held) /\ held[p].fulfiller = f
    BY <2>1, <1>0 DEF HoldsFor
  <2>3. keep = DOMAIN held \ {p}
    BY <2>1, <2>2, <1>0, HeldUnique DEF HoldsFor
  <2> DEFINE a == SubSeq(held, 1, p - 1)
             b == SubSeq(held, p + 1, Len(held))
  <2>4. /\ a \in Seq(Request) /\ Len(a) = p - 1
        /\ \A i \in 1 .. p - 1 : a[i] = held[i]
    BY <1>0, <2>2, SubSeqProperties
  <2>5. /\ b \in Seq(Request) /\ Len(b) = Len(held) - p
        /\ \A i \in 1 .. Len(held) - p : b[i] = held[p + i]
    <3>1. p \in Nat /\ p <= Len(held)
      BY <1>0, <2>2
    <3>2. QED
      BY <1>0, <3>1, Suffix
  <2> HIDE DEF a, b
  <2>6. held' = a \o b
    BY <2>1 DEF a, b
  <2>7. /\ held' \in Seq(Request) /\ Len(held') = Len(held) - 1
        /\ \A k \in 1 .. Len(held) - 1 :
              held'[k] = IF k < p THEN held[k] ELSE held[k + 1]
    <3>1. /\ held' \in Seq(Request) /\ Len(held') = Len(a) + Len(b)
          /\ \A k \in 1 .. Len(a) + Len(b) :
               held'[k] = IF k <= Len(a) THEN a[k] ELSE b[k - Len(a)]
      BY <2>4, <2>5, <2>6, ConcatProperties
    <3>2. Len(a) + Len(b) = Len(held) - 1
      BY <2>4, <2>5, <2>2, <1>0
    <3>3. ASSUME NEW k \in 1 .. Len(held) - 1, k < p PROVE held'[k] = held[k]
      BY <3>1, <3>2, <3>3, <2>2, <2>4, <1>0
    <3>4. ASSUME NEW k \in 1 .. Len(held) - 1, ~(k < p) PROVE held'[k] = held[k + 1]
      <4>1. held'[k] = b[k - (p - 1)]
        BY <3>1, <3>2, <3>4, <2>2, <2>4, <1>0
      <4>2. k - (p - 1) \in 1 .. Len(held) - p /\ p + (k - (p - 1)) = k + 1
        BY <3>4, <2>2, <1>0
      <4>3. QED
        BY <4>1, <4>2, <2>5
    <3>5. QED
      BY <3>1, <3>2, <3>3, <3>4
  <2>8. DOMAIN held' = 1 .. Len(held) - 1
    BY <2>7, LenProperties
  <2>9. \A k \in DOMAIN held' : \E i \in keep : held'[k] = held[i]
    <3>1. TAKE k \in DOMAIN held'
    <3>2. CASE k < p
      BY <3>2, <2>2, <2>3, <2>7, <2>8, <1>0
    <3>3. CASE k >= p
      <4>1. k + 1 \in keep
        BY <3>3, <2>2, <2>3, <2>8, <1>0
      <4>2. QED
        BY <4>1, <3>3, <2>2, <2>7, <2>8
    <3>4. QED
      BY <3>2, <3>3, <2>2, <2>8, <1>0
  <2>10. \A i \in keep : \E k \in DOMAIN held' : held'[k] = held[i]
    <3>1. TAKE i \in keep
    <3>2. CASE i < p
      BY <3>2, <2>2, <2>3, <2>7, <2>8, <1>0
    <3>3. CASE i > p
      <4>1. i - 1 \in DOMAIN held' /\ ~(i - 1 < p) /\ (i - 1) + 1 = i
        BY <3>3, <2>2, <2>3, <2>8, <1>0
      <4>2. QED
        BY <4>1, <2>7, <2>8
    <3>4. QED
      BY <3>2, <3>3, <2>2, <2>3, <1>0
  <2>11. ASSUME NEW k \in DOMAIN held', NEW l \in DOMAIN held',
                held'[k].fulfiller = held'[l].fulfiller
         PROVE  k = l
    <3> DEFINE At(m) == IF m < p THEN m ELSE m + 1
    <3>1. At(k) \in DOMAIN held /\ held'[k] = held[At(k)]
      BY <2>2, <2>7, <2>8, <1>0
    <3>2. At(l) \in DOMAIN held /\ held'[l] = held[At(l)]
      BY <2>2, <2>7, <2>8, <1>0
    <3>3. At(k) = At(l)
      BY <3>1, <3>2, <2>11, HeldUnique
    <3>4. QED
      BY <3>3, <2>2, <2>8, <1>0
  <2>12. QED
    BY <2>7, <2>9, <2>10, <2>11 DEF Keeps
<1>3. QED
  BY <1>1, <1>2

LEMMA SameLength ==
    ASSUME NEW x \in Nat, NEW n \in 0 .. x
    PROVE  (IF n + 1 <= x THEN x - (n + 1) ELSE 0) = (IF n + 2 <= x THEN x - n - 1 ELSE 0)
OBVIOUS

\* flushHeldPromiseCapabilityResolves keeps exactly what is behind the request that
\* throws.
LEMMA FlushKeeps ==
    ASSUME TypeOK, HeldConsistent, NEW n \in 0 .. Len(held),
           held' = SubSeq(held, n + 2, Len(held))
    PROVE  /\ Keeps(n + 2 .. Len(held))
           /\ \A k \in DOMAIN held' : /\ k + n + 1 \in n + 2 .. Len(held)
                                      /\ held'[k] = held[k + n + 1]
<1>0. /\ held \in Seq(Request) /\ Len(held) \in Nat /\ DOMAIN held = 1 .. Len(held)
  BY HeldElements
<1>1. /\ held' \in Seq(Request)
      /\ Len(held') = IF n + 2 <= Len(held) THEN Len(held) - n - 1 ELSE 0
      /\ \A k \in 1 .. Len(held) - n - 1 : held'[k] = held[k + n + 1]
  <2>1. n + 1 \in Nat /\ (n + 1) + 1 = n + 2
    BY <1>0
  <2>2. /\ held' \in Seq(Request)
        /\ Len(held') = IF n + 1 <= Len(held) THEN Len(held) - (n + 1) ELSE 0
        /\ \A k \in 1 .. Len(held) - (n + 1) : held'[k] = held[(n + 1) + k]
    <3>1. held' = SubSeq(held, (n + 1) + 1, Len(held))
      BY <2>1
    <3>2. /\ SubSeq(held, (n + 1) + 1, Len(held)) \in Seq(Request)
          /\ Len(SubSeq(held, (n + 1) + 1, Len(held)))
                = IF n + 1 <= Len(held) THEN Len(held) - (n + 1) ELSE 0
          /\ \A k \in 1 .. Len(held) - (n + 1) :
                SubSeq(held, (n + 1) + 1, Len(held))[k] = held[(n + 1) + k]
      BY <1>0, <2>1, Suffix, Zenon
    <3>3. QED
      BY <3>1, <3>2, Zenon
  <2>3. Len(held') = IF n + 2 <= Len(held) THEN Len(held) - n - 1 ELSE 0
    <3>1. Len(held') = IF n + 1 <= Len(held) THEN Len(held) - (n + 1) ELSE 0
      BY <2>2
    <3>2. QED
      BY <1>0, <3>1, SameLength
  <2>4. ASSUME NEW k \in 1 .. Len(held) - n - 1
        PROVE  held'[k] = held[k + n + 1]
    <3>1. k \in 1 .. Len(held) - (n + 1) /\ (n + 1) + k = k + n + 1
      BY <1>0
    <3>2. QED
      BY <2>2, <3>1
  <2>5. QED
    BY <2>2, <2>3, <2>4
<1>2. DOMAIN held' = 1 .. Len(held')
  BY <1>1, LenProperties
<1>3. \A k \in DOMAIN held' : /\ k + n + 1 \in n + 2 .. Len(held)
                              /\ held'[k] = held[k + n + 1]
  BY <1>0, <1>1, <1>2
<1>4. ASSUME NEW i \in n + 2 .. Len(held)
      PROVE  \E k \in DOMAIN held' : held'[k] = held[i]
  <2>1. i - n - 1 \in DOMAIN held' /\ (i - n - 1) + n + 1 = i
    BY <1>0, <1>1, <1>2
  <2>2. QED
    BY <2>1, <1>3
<1>5. ASSUME NEW k \in DOMAIN held', NEW l \in DOMAIN held',
             held'[k].fulfiller = held'[l].fulfiller
      PROVE  k = l
  <2>1. k + n + 1 \in DOMAIN held /\ l + n + 1 \in DOMAIN held
    BY <1>0, <1>3
  <2>2. k + n + 1 = l + n + 1
    BY <2>1, <1>3, <1>5, HeldUnique
  <2>3. k \in Int /\ l \in Int
    BY <1>2, <1>1, <1>0
  <2>4. QED
    BY <2>2, <2>3
<1>6. QED
  BY <1>1, <1>3, <1>4, <1>5 DEF Keeps

-----------------------------------------------------------------------------
(* The two halves of an operation: what it does to the held requests, and  *)
(* what it does to the promises.                                           *)

LEMMA KeepsInv ==
    ASSUME IInv, NEW keep \in SUBSET (DOMAIN held), Keeps(keep), own' = own,
           heldIds' = {held[i].fulfiller : i \in keep}, heldIds' \subseteq pending'
    PROVE  /\ held' \in Seq([fulfiller : Fulfillers, target : Ids])
           /\ heldIds' \in SUBSET Fulfillers
           /\ HeldConsistent' /\ HeldNotOwn'
<1>1. held' \in Seq([fulfiller : Fulfillers, target : Ids])
  BY DEF Keeps, Request
<1>2. heldIds' \in SUBSET Fulfillers
  BY HeldElements DEF IInv
<1>3. heldIds' = {held'[k].fulfiller : k \in DOMAIN held'}
  BY DEF Keeps
<1>4. HeldConsistent'
  BY <1>3 DEF HeldConsistent, HeldRequests, Keeps
<1>5. HeldNotOwn'
  BY DEF HeldNotOwn, Keeps, IInv
<1>6. QED
  BY <1>1, <1>2, <1>4, <1>5

\* Using open fulfillers, each once, keeps promises and fulfillers in step.
LEMMA ResolveInv ==
    ASSUME IInv, NEW fs \in SUBSET pending, NEW to, ResolveAll(fs, to),
           \A f \in fs : to[f] \in Objects \cup {Broken}, nextFul' = nextFul
    PROVE  /\ pending' \in SUBSET Fulfillers
           /\ outcome' \in [Fulfillers -> Objects \cup {Unresolved, Broken}]
           /\ NotAbandoned' /\ Untouched'
<1>1. /\ pending \in SUBSET Fulfillers
      /\ outcome \in [Fulfillers -> Objects \cup {Unresolved, Broken}]
      /\ nextFul \in Int
  BY BoundsAssumption DEF IInv, TypeOK
<1>2. /\ pending' = pending \ fs
      /\ outcome' = [f \in Fulfillers |-> IF f \in fs THEN to[f] ELSE outcome[f]]
  BY DEF ResolveAll
<1>3. outcome' \in [Fulfillers -> Objects \cup {Unresolved, Broken}]
  BY <1>1, <1>2
<1>4. \A f \in fs : to[f] # Unresolved
  BY BoundsAssumption DEF Objects, Fulfillers, Server, Unresolved, Broken
<1>5. NotAbandoned'
  BY <1>1, <1>2, <1>4 DEF NotAbandoned, IInv
<1>6. \A f \in fs : f < nextFul
  BY <1>1 DEF NotAbandoned, IInv
<1>7. Untouched'
  <2>1. SUFFICES ASSUME NEW f \in Fulfillers, f >= nextFul PROVE outcome'[f] = Unresolved
    BY DEF Untouched
  <2>2. f \notin fs
    BY <1>1, <1>6, <2>1, BoundsAssumption DEF Fulfillers
  <2>3. QED
    BY <1>2, <2>1, <2>2 DEF Untouched, IInv
<1>8. QED
  BY <1>1, <1>2, <1>3, <1>5, <1>7

\* What the requests before the one that throws are resolved to.
LEMMA GoodResolves ==
    ASSUME IInv, NEW n \in 0 .. Len(held), Good(n)
    PROVE  /\ HeldAt(1 .. n) \in SUBSET pending
           /\ \A i \in 1 .. n : /\ held[i].fulfiller \in HeldAt(1 .. n)
                                /\ HeldObject[held[i].fulfiller] = object[held[i].target]
           /\ \A f \in HeldAt(1 .. n) : HeldObject[f] \in Objects
<1>0. /\ Len(held) \in Nat /\ DOMAIN held = 1 .. Len(held)
      /\ \A i \in DOMAIN held : held[i].fulfiller \in Fulfillers /\ held[i].target \in Ids
  BY HeldElements DEF IInv
<1>1. ASSUME NEW i \in 1 .. n
      PROVE  /\ i \in DOMAIN held
             /\ held[i].fulfiller \in pending
             /\ held[i].fulfiller \in heldIds
             /\ object[held[i].target] \in Objects
  <2>1. i \in DOMAIN held
    BY <1>0
  <2>2. MayFulfill(held[i].fulfiller, held[i].target)
    BY DEF Good
  <2>3. held[i].fulfiller \in heldIds
    BY <2>1, HeldMembers DEF IInv
  <2>4. QED
    BY <2>1, <2>2, <2>3, <1>0 DEF MayFulfill, IInv, TypeOK
<1>2. ASSUME NEW i \in 1 .. n
      PROVE  HeldObject[held[i].fulfiller] = object[held[i].target]
  <2> DEFINE f == held[i].fulfiller
             j == CHOOSE j \in DOMAIN held : held[j].fulfiller = f
  <2>1. j \in DOMAIN held /\ held[j].fulfiller = f
    BY <1>1
  <2>2. j = i
    BY <2>1, <1>1, HeldUnique DEF IInv
  <2>3. HeldObject[f] = object[held[j].target]
    BY <1>1 DEF HeldObject
  <2>4. QED
    BY <2>2, <2>3
<1>3. QED
  BY <1>1, <1>2 DEF HeldAt

-----------------------------------------------------------------------------
LEMMA InitIInv == Init => IInv
<1> SUFFICES ASSUME Init PROVE IInv
  OBVIOUS
<1> USE BoundsAssumption DEF Init
<1>1. held = <<>> /\ DOMAIN held = {} /\ held \in Seq([fulfiller : Fulfillers, target : Ids])
  BY EmptySeq
<1>2. TypeOK
  <2>1. nextId \in 1 .. MaxIds + 1 /\ nextFul \in 1 .. MaxPromises + 1
    OBVIOUS
  <2>2. /\ object \in [Ids -> Objects \cup {Absent}]
        /\ own \in [Fulfillers -> Ids \cup {0}]
        /\ outcome \in [Fulfillers -> Objects \cup {Unresolved, Broken}]
    OBVIOUS
  <2>3. holding \in BOOLEAN /\ pending \in SUBSET Fulfillers /\ heldIds \in SUBSET Fulfillers
    OBVIOUS
  <2>4. QED
    BY <1>1, <2>1, <2>2, <2>3 DEF TypeOK
<1>3. HeldConsistent /\ HeldNotOwn
  BY <1>1 DEF HeldConsistent, HeldRequests, HeldNotOwn
<1>4. NotAbandoned /\ Untouched
  BY DEF NotAbandoned, Untouched, Fulfillers
<1>5. QED
  BY <1>2, <1>3, <1>4 DEF IInv

LEMMA AddTargetTypes ==
    ASSUME TypeOK, NEW o \in Objects, AddTarget(o)
    PROVE  /\ nextId' \in 1 .. MaxIds + 1 /\ nextId \in Ids
           /\ object' \in [Ids -> Objects \cup {Absent}]
BY BoundsAssumption DEF TypeOK, AddTarget, Ids

LEMMA FulfillIInv ==
    ASSUME IInv, NEW f \in Fulfillers, NEW t \in Ids, Fulfill(f, t)
    PROVE  IInv'
<1>0. /\ f \notin heldIds /\ f \in pending /\ t # own[f] /\ object[t] \in Objects
      /\ UNCHANGED <<nextId, object, nextFul, own, holding>>
  BY DEF IInv, TypeOK, Fulfill, MayFulfill, targetVars, madeVars
<1>1. CASE holding
  <2> DEFINE r == [fulfiller |-> f, target |-> t]
  <2>1. held' = Append(held, r) /\ heldIds' = heldIds \cup {f} /\ UNCHANGED <<pending, outcome>>
    BY <1>1 DEF Fulfill
  <2>2. /\ held \in Seq(Request) /\ Len(held) \in Nat /\ DOMAIN held = 1 .. Len(held)
        /\ r \in Request /\ r.fulfiller = f /\ r.target = t
    BY HeldElements DEF IInv, Request
  <2> HIDE DEF r
  <2>3. /\ held' \in Seq(Request) /\ Len(held') = Len(held) + 1
        /\ \A i \in 1 .. Len(held) : held'[i] = held[i]
        /\ held'[Len(held) + 1] = r
    BY <2>1, <2>2, AppendProperties
  <2>4. DOMAIN held' = DOMAIN held \cup {Len(held) + 1} /\ Len(held) + 1 \notin DOMAIN held
    BY <2>2, <2>3, LenProperties
  <2>5. heldIds' = {held'[i].fulfiller : i \in DOMAIN held'}
    BY <2>1, <2>2, <2>3, <2>4, HeldMembers DEF IInv
  <2>6. ASSUME NEW i \in DOMAIN held', NEW j \in DOMAIN held',
               held'[i].fulfiller = held'[j].fulfiller
        PROVE  i = j
    <3>1. \A k \in DOMAIN held : held'[k] = held[k] /\ held[k].fulfiller # f
      BY <2>2, <2>3, <1>0, HeldMembers DEF IInv
    <3>2. CASE i \in DOMAIN held /\ j \in DOMAIN held
      BY <3>1, <3>2, <2>6, HeldUnique DEF IInv
    <3>3. QED
      BY <3>1, <3>2, <2>2, <2>3, <2>4, <2>6
  <2>7. HeldConsistent'
    <3>1. heldIds' \subseteq pending'
      BY <2>1, <1>0, HeldMembers DEF IInv
    <3>2. QED
      BY <2>5, <2>6, <3>1 DEF HeldConsistent, HeldRequests
  <2>8. HeldNotOwn'
    BY <2>2, <2>3, <2>4, <1>0 DEF HeldNotOwn, IInv
  <2>9. TypeOK'
    BY <2>1, <2>3, <1>0 DEF TypeOK, IInv, Request
  <2>10. NotAbandoned' /\ Untouched'
    BY <2>1, <1>0 DEF IInv, NotAbandoned, Untouched
  <2>11. QED
    BY <2>7, <2>8, <2>9, <2>10 DEF IInv
<1>2. CASE ~holding
  <2> DEFINE to == [g \in {f} |-> object[t]]
  <2>1. ResolveAll({f}, to) /\ held' = held /\ heldIds' = heldIds
    BY <1>2 DEF Fulfill, heldVars
  <2>2. /\ pending' \in SUBSET Fulfillers
        /\ outcome' \in [Fulfillers -> Objects \cup {Unresolved, Broken}]
        /\ NotAbandoned' /\ Untouched'
    <3>1. {f} \in SUBSET pending /\ \A g \in {f} : to[g] \in Objects \cup {Broken}
      BY <1>0
    <3> HIDE DEF to
    <3>2. QED
      BY <2>1, <3>1, <1>0, ResolveInv
  <2>3. TypeOK'
    BY <2>1, <2>2, <1>0 DEF TypeOK, IInv
  <2>4. HeldConsistent' /\ HeldNotOwn'
    <3>1. heldIds' \subseteq pending'
      BY <2>1, <1>0, HeldMembers DEF IInv, ResolveAll
    <3>2. QED
      BY <2>1, <3>1, <1>0 DEF HeldConsistent, HeldRequests, HeldNotOwn, IInv
  <2>5. QED
    BY <2>2, <2>3, <2>4 DEF IInv
<1>3. QED
  BY <1>1, <1>2

LEMMA BreakIInv ==
    ASSUME IInv, NEW f \in Fulfillers, Break(f)
    PROVE  IInv'
<1>0. UNCHANGED <<nextId, object, nextFul, own, holding>> /\ DropHeld(f)
  BY DEF Break, targetVars, madeVars
<1> DEFINE fs == {f} \cap pending
           to == [g \in {f} |-> Broken]
           keep == DOMAIN held \ HoldsFor(f)
<1>1. ResolveAll(fs, to) /\ fs \in SUBSET pending /\ \A g \in fs : to[g] \in Objects \cup {Broken}
  BY DEF Break
<1>2. pending' = pending \ {f}
  BY <1>1 DEF ResolveAll
<1>3. heldIds' = heldIds \ {f}
  BY <1>0 DEF DropHeld
<1>4. heldIds' = {held[i].fulfiller : i \in keep} /\ heldIds' \subseteq pending'
  BY <1>2, <1>3, HeldMembers DEF IInv, HoldsFor
<1>5. Keeps(keep)
  BY <1>0, DropKeeps DEF IInv
<1> HIDE DEF fs, to
<1>6. /\ pending' \in SUBSET Fulfillers
      /\ outcome' \in [Fulfillers -> Objects \cup {Unresolved, Broken}]
      /\ NotAbandoned' /\ Untouched'
  BY <1>0, <1>1, ResolveInv
<1>7. keep \in SUBSET (DOMAIN held)
  OBVIOUS
<1> HIDE DEF keep
<1>8. /\ held' \in Seq([fulfiller : Fulfillers, target : Ids])
      /\ heldIds' \in SUBSET Fulfillers
      /\ HeldConsistent' /\ HeldNotOwn'
  BY <1>0, <1>4, <1>5, <1>7, KeepsInv
<1>9. TypeOK'
  BY <1>0, <1>6, <1>8 DEF TypeOK, IInv
<1>10. QED
  BY <1>6, <1>8, <1>9 DEF IInv

LEMMA FlushIInv ==
    ASSUME IInv, Flush
    PROVE  IInv'
<1>0. UNCHANGED <<nextId, object, nextFul, own, holding>>
  BY DEF Flush, targetVars, madeVars
<1>1. PICK n \in 0 .. Len(held) :
        /\ Good(n)
        /\ ResolveAll(HeldAt(1 .. n), HeldObject)
        /\ held' = SubSeq(held, n + 2, Len(held))
        /\ heldIds' = heldIds \ HeldAt(DOMAIN held \cap 1 .. n + 1)
  BY DEF Flush
<1>2. Len(held) \in Nat /\ DOMAIN held = 1 .. Len(held)
  BY HeldElements DEF IInv
<1> DEFINE keep == n + 2 .. Len(held)
<1>3. Keeps(keep)
  BY <1>1, FlushKeeps DEF IInv
<1>4. keep \in SUBSET (DOMAIN held)
  BY <1>2
<1>5. heldIds' = {held[i].fulfiller : i \in keep}
  <2>1. ASSUME NEW i \in DOMAIN held
        PROVE  i \in keep <=> held[i].fulfiller \notin HeldAt(DOMAIN held \cap 1 .. n + 1)
    <3>1. i \in keep <=> i \notin 1 .. n + 1
      BY <1>2
    <3>2. held[i].fulfiller \in HeldAt(DOMAIN held \cap 1 .. n + 1) <=> i \in 1 .. n + 1
      BY HeldUnique DEF HeldAt, IInv
    <3>3. QED
      BY <3>1, <3>2
  <2> HIDE DEF keep
  <2>2. QED
    BY <1>1, <1>4, <2>1, HeldMembers DEF IInv
<1>6. heldIds' \subseteq pending'
  <2>1. pending' = pending \ HeldAt(1 .. n)
    BY <1>1 DEF ResolveAll
  <2>2. HeldAt(1 .. n) \subseteq HeldAt(DOMAIN held \cap 1 .. n + 1)
    <3>1. 1 .. n \subseteq DOMAIN held \cap 1 .. n + 1
      BY <1>2
    <3>2. QED
      BY <3>1 DEF HeldAt
  <2>3. QED
    BY <1>1, <2>1, <2>2, HeldMembers DEF IInv
<1>7. /\ pending' \in SUBSET Fulfillers
      /\ outcome' \in [Fulfillers -> Objects \cup {Unresolved, Broken}]
      /\ NotAbandoned' /\ Untouched'
  <2>1. /\ HeldAt(1 .. n) \in SUBSET pending
        /\ \A f \in HeldAt(1 .. n) : HeldObject[f] \in Objects \cup {Broken}
    BY <1>1, GoodResolves
  <2>2. QED
    BY <1>0, <1>1, <2>1, ResolveInv
<1> HIDE DEF keep
<1>8. /\ held' \in Seq([fulfiller : Fulfillers, target : Ids])
      /\ heldIds' \in SUBSET Fulfillers
      /\ HeldConsistent' /\ HeldNotOwn'
  BY <1>0, <1>3, <1>4, <1>5, <1>6, KeepsInv
<1>9. TypeOK'
  BY <1>0, <1>7, <1>8 DEF TypeOK, IInv
<1>10. QED
  BY <1>7, <1>8, <1>9 DEF IInv

LEMMA NewPromiseIInv ==
    ASSUME IInv, NewPromiseCapability
    PROVE  IInv'
<1>0. /\ nextFul \in Fulfillers /\ AddTarget(nextFul) /\ TypeOK /\ nextFul \in Objects
      /\ own' = [own EXCEPT ![nextFul] = nextId]
      /\ pending' = pending \cup {nextFul} /\ nextFul' = nextFul + 1
      /\ UNCHANGED <<holding, held, heldIds, outcome>>
  BY DEF NewPromiseCapability, IInv, Objects, heldVars
<1>1. /\ nextId' \in 1 .. MaxIds + 1 /\ nextId \in Ids
      /\ object' \in [Ids -> Objects \cup {Absent}]
  BY <1>0, AddTargetTypes
<1>2. TypeOK'
  <2>1. own' \in [Fulfillers -> Ids \cup {0}] /\ pending' \in SUBSET Fulfillers
    BY <1>0, <1>1 DEF TypeOK
  <2>2. nextFul' \in 1 .. MaxPromises + 1
    BY <1>0, BoundsAssumption DEF Fulfillers
  <2>3. QED
    BY <1>0, <1>1, <2>1, <2>2 DEF TypeOK
<1>3. nextFul \notin pending /\ outcome[nextFul] = Unresolved
  BY <1>0, BoundsAssumption DEF IInv, NotAbandoned, Untouched, Fulfillers
<1>4. \A f \in Fulfillers : (f < nextFul' <=> f < nextFul \/ f = nextFul)
                            /\ (f >= nextFul' => f >= nextFul)
  BY <1>0, BoundsAssumption DEF Fulfillers
<1>5. NotAbandoned' /\ Untouched'
  BY <1>0, <1>3, <1>4 DEF IInv, NotAbandoned, Untouched
<1>6. HeldConsistent'
  BY <1>0 DEF IInv, HeldConsistent, HeldRequests
<1>7. HeldNotOwn'
  <2>1. \A i \in DOMAIN held : /\ held[i].fulfiller \in Fulfillers
                               /\ held[i].fulfiller # nextFul
    BY <1>3, HeldElements, HeldMembers DEF IInv
  <2>2. QED
    BY <1>0, <2>1 DEF IInv, TypeOK, HeldNotOwn
<1>8. QED
  BY <1>2, <1>5, <1>6, <1>7 DEF IInv

LEMMA NextIInv == IInv /\ [Next]_vars => IInv'
<1> SUFFICES ASSUME IInv, [Next]_vars PROVE IInv'
  OBVIOUS
<1> USE DEF targetVars, madeVars, heldVars
<1>1. ASSUME UNCHANGED <<nextFul, own, pending, held, heldIds, outcome>>,
             nextId' \in 1 .. MaxIds + 1, object' \in [Ids -> Objects \cup {Absent}],
             holding' \in BOOLEAN
      PROVE  IInv'
  BY <1>1 DEF IInv, TypeOK, HeldConsistent, HeldRequests, NotAbandoned, Untouched, HeldNotOwn
<1>2. CASE UNCHANGED vars
  BY <1>1, <1>2 DEF vars, IInv, TypeOK
<1>3. CASE RegisterTarget
  BY <1>1, <1>3, AddTargetTypes DEF RegisterTarget, IInv, TypeOK, Objects
<1>4. ASSUME NEW t \in Ids, RetainTarget(t) PROVE IInv'
  <2>1. object[t] \in Objects
    BY <1>4 DEF RetainTarget, IInv, TypeOK
  <2>2. QED
    BY <1>1, <1>4, <2>1, AddTargetTypes DEF RetainTarget, IInv, TypeOK
<1>5. ASSUME NEW t \in Ids, ReleaseTarget(t) PROVE IInv'
  BY <1>1, <1>5 DEF ReleaseTarget, IInv, TypeOK
<1>6. CASE NewPromiseCapability
  BY <1>6, NewPromiseIInv
<1>7. ASSUME NEW f \in Fulfillers, NEW t \in Ids, Fulfill(f, t) PROVE IInv'
  BY <1>7, FulfillIInv
<1>8. ASSUME NEW f \in Fulfillers, Break(f) PROVE IInv'
  BY <1>8, BreakIInv
<1>9. CASE SetHold
  BY <1>1, <1>9 DEF SetHold, IInv, TypeOK
<1>10. CASE Flush
  BY <1>10, FlushIInv
<1>11. QED
  BY <1>2, <1>3, <1>4, <1>5, <1>6, <1>7, <1>8, <1>9, <1>10 DEF Next

\* The inductive invariant.
THEOREM Invariance == Spec => []IInv
<1>1. QED
  BY InitIInv, NextIInv, PTL DEF Spec

-----------------------------------------------------------------------------
(* The properties.                                                         *)

\* Every variable keeps its type; in particular a promise is never resolved to the
\* object of a target that is gone.
THEOREM TypeCorrect == Spec => []TypeOK
<1>1. IInv => TypeOK
  BY DEF IInv
<1>2. QED
  BY <1>1, Invariance, PTL

\* heldPromiseCapabilityResolves_ and heldPromiseCapabilityFulfillerIds_ agree
\* through every fulfill, reject, release and flush, also one that throws.
THEOREM DequeAndSetAgree == Spec => []HeldConsistent
<1>1. IInv => HeldConsistent
  BY DEF IInv
<1>2. QED
  BY <1>1, Invariance, PTL

\* A promised capability is open exactly as long as its fulfiller is in the table.
THEOREM NonePromisedInVain == Spec => []NotAbandoned
<1>1. IInv => NotAbandoned
  BY DEF IInv
<1>2. QED
  BY <1>1, Invariance, PTL

\* The requests a step of Flush takes, passes on or loses.
LEMMA FlushTakes ==
    ASSUME IInv, Flush
    PROVE  \E n \in 0 .. Len(held) :
             /\ \A i \in 1 .. n : outcome'[held[i].fulfiller] = object[held[i].target]
             /\ n < Len(held) => object[held[n + 1].target] = Absent
             /\ \A i \in n + 1 .. Len(held) : outcome'[held[i].fulfiller] = Unresolved
             /\ Keeps(n + 2 .. Len(held))
<1>1. PICK n \in 0 .. Len(held) :
        /\ Good(n)
        /\ ResolveAll(HeldAt(1 .. n), HeldObject)
        /\ held' = SubSeq(held, n + 2, Len(held))
  BY DEF Flush
<1>2. /\ Len(held) \in Nat /\ DOMAIN held = 1 .. Len(held)
      /\ \A i \in DOMAIN held : held[i].fulfiller \in Fulfillers
  BY HeldElements DEF IInv
<1>3. Keeps(n + 2 .. Len(held))
  BY <1>1, FlushKeeps DEF IInv
<1>4. outcome' = [f \in Fulfillers |-> IF f \in HeldAt(1 .. n) THEN HeldObject[f] ELSE outcome[f]]
  BY <1>1 DEF ResolveAll
<1>5. \A i \in 1 .. n : outcome'[held[i].fulfiller] = object[held[i].target]
  <2>1. TAKE i \in 1 .. n
  <2>2. i \in DOMAIN held
    BY <1>2
  <2>3. /\ held[i].fulfiller \in HeldAt(1 .. n)
        /\ HeldObject[held[i].fulfiller] = object[held[i].target]
    BY <1>1, GoodResolves
  <2>4. QED
    BY <1>2, <1>4, <2>2, <2>3
<1>6. ASSUME NEW i \in n + 1 .. Len(held)
      PROVE  outcome'[held[i].fulfiller] = Unresolved
  <2>1. i \in DOMAIN held /\ i \notin 1 .. n /\ 1 .. n \subseteq DOMAIN held
    BY <1>2
  <2>2. held[i].fulfiller \notin HeldAt(1 .. n)
    BY <2>1, HeldUnique DEF HeldAt, IInv
  <2>3. outcome[held[i].fulfiller] = Unresolved
    BY <2>1, <1>2, HeldMembers DEF IInv, NotAbandoned
  <2>4. QED
    BY <1>2, <1>4, <2>1, <2>2, <2>3
<1>7. n < Len(held) => object[held[n + 1].target] = Absent
  <2>1. HAVE n < Len(held)
  <2>2. ~MayFulfill(held[n + 1].fulfiller, held[n + 1].target)
    BY <1>1, <2>1 DEF Good
  <2>3. n + 1 \in DOMAIN held
    BY <1>2, <2>1
  <2>4. held[n + 1].fulfiller \in pending /\ held[n + 1].target # own[held[n + 1].fulfiller]
    BY <2>3, HeldMembers DEF IInv, HeldNotOwn
  <2>5. QED
    BY <2>2, <2>4 DEF MayFulfill
<1>8. QED
  BY <1>3, <1>5, <1>6, <1>7

\* The promises other steps leave open, and the requests they leave held.
LEMMA OtherStep ==
    ASSUME IInv, Next, ~Flush, NEW i \in DOMAIN held
    PROVE  /\ outcome'[held[i].fulfiller] \in {Unresolved, Broken}
           /\ \/ outcome'[held[i].fulfiller] = Broken
              \/ \E k \in DOMAIN held' : held'[k] = held[i]
<1>0. /\ Len(held) \in Nat /\ DOMAIN held = 1 .. Len(held)
      /\ held \in Seq(Request)
      /\ held[i].fulfiller \in Fulfillers /\ held[i].fulfiller \in heldIds
      /\ held[i].fulfiller \in pending
      /\ outcome[held[i].fulfiller] = Unresolved
  BY HeldElements, HeldMembers DEF IInv, NotAbandoned
<1>1. CASE held' = held /\ outcome' = outcome
  BY <1>0, <1>1
<1>2. CASE RegisterTarget \/ NewPromiseCapability \/ SetHold
           \/ \E t \in Ids : RetainTarget(t) \/ ReleaseTarget(t)
  <2>1. held' = held /\ outcome' = outcome
    BY <1>2 DEF RegisterTarget, NewPromiseCapability, SetHold, RetainTarget,
                ReleaseTarget, heldVars
  <2>2. QED
    BY <1>1, <2>1
<1>3. ASSUME NEW f \in Fulfillers, NEW t \in Ids, Fulfill(f, t)
      PROVE  /\ outcome'[held[i].fulfiller] = Unresolved
             /\ \E k \in DOMAIN held' : held'[k] = held[i]
  <2>1. f # held[i].fulfiller
    BY <1>0, <1>3 DEF Fulfill
  <2>2. CASE holding
    <3> DEFINE r == [fulfiller |-> f, target |-> t]
    <3>1. held' = Append(held, r) /\ outcome' = outcome
      BY <1>3, <2>2 DEF Fulfill
    <3>2. r \in Request
      BY DEF Request
    <3> HIDE DEF r
    <3>3. /\ held' \in Seq(Request) /\ Len(held') = Len(held) + 1
          /\ held'[i] = held[i]
      BY <1>0, <3>1, <3>2, AppendProperties
    <3>4. i \in DOMAIN held'
      BY <1>0, <3>3, LenProperties
    <3>5. QED
      BY <1>0, <3>1, <3>3, <3>4
  <2>3. CASE ~holding
    <3>1. held' = held /\ ResolveAll({f}, [g \in {f} |-> object[t]])
      BY <1>3, <2>3 DEF Fulfill, heldVars
    <3>2. outcome'[held[i].fulfiller] = Unresolved
      BY <1>0, <2>1, <3>1 DEF ResolveAll
    <3>3. QED
      BY <3>1, <3>2
  <2>4. QED
    BY <2>2, <2>3
<1>4. ASSUME NEW f \in Fulfillers, Break(f)
      PROVE  /\ outcome'[held[i].fulfiller] \in {Unresolved, Broken}
             /\ \/ outcome'[held[i].fulfiller] = Broken
                \/ \E k \in DOMAIN held' : held'[k] = held[i]
  <2>1. Keeps(DOMAIN held \ HoldsFor(f))
    BY <1>4, DropKeeps DEF Break, IInv
  <2>2. outcome' = [g \in Fulfillers |-> IF g \in {f} \cap pending
                                         THEN [h \in {f} |-> Broken][g] ELSE outcome[g]]
    BY <1>4 DEF Break, ResolveAll
  <2>3. CASE held[i].fulfiller = f
    BY <1>0, <2>2, <2>3
  <2>4. CASE held[i].fulfiller # f
    <3>1. outcome'[held[i].fulfiller] = Unresolved
      BY <1>0, <2>2, <2>4
    <3>2. i \in DOMAIN held \ HoldsFor(f)
      BY <2>4 DEF HoldsFor
    <3>3. QED
      BY <2>1, <3>1, <3>2 DEF Keeps
  <2>5. QED
    BY <2>3, <2>4
<1>5. QED
  BY <1>2, <1>3, <1>4 DEF Next

\* A fulfill accepted while resolutions are held back is carried out as accepted,
\* unless the promise is rejected or released or the target released before.
THEOREM AcceptedIsApplied == Spec => HeldIsApplied
<1>1. ASSUME IInv, [Next]_vars, NEW r \in HeldRequests
      PROVE  \/ \E i \in DOMAIN held' : held'[i] = r
             \/ object[r.target] = Absent
             \/ outcome'[r.fulfiller] \in {Broken, object[r.target]}
  <2>1. PICK i \in DOMAIN held : r = held[i]
    BY DEF HeldRequests
  <2>2. CASE UNCHANGED vars
    BY <2>1, <2>2 DEF vars, heldVars
  <2>3. CASE Flush
    <3>1. PICK n \in 0 .. Len(held) :
             /\ \A j \in 1 .. n : outcome'[held[j].fulfiller] = object[held[j].target]
             /\ n < Len(held) => object[held[n + 1].target] = Absent
             /\ Keeps(n + 2 .. Len(held))
      BY <1>1, <2>3, FlushTakes
    <3>2. Len(held) \in Nat /\ DOMAIN held = 1 .. Len(held)
      BY <1>1, HeldElements DEF IInv
    <3>3. i \in 1 .. n \/ (i = n + 1 /\ n < Len(held)) \/ i \in n + 2 .. Len(held)
      BY <3>2
    <3>4. QED
      BY <2>1, <3>1, <3>3 DEF Keeps
  <2>4. CASE Next /\ ~Flush
    BY <1>1, <2>1, <2>4, OtherStep
  <2>5. QED
    BY <1>1, <2>2, <2>3, <2>4
<1>2. IInv /\ [Next]_vars
        => [\A r \in HeldRequests :
              \/ \E i \in DOMAIN held' : held'[i] = r
              \/ object[r.target] = Absent
              \/ outcome'[r.fulfiller] \in {Broken, object[r.target]}]_vars
  BY <1>1
<1>3. QED
  BY <1>2, Invariance, PTL DEF Spec, HeldIsApplied

\* No held resolve overtakes another.
THEOREM AppliedInOrder == Spec => HeldInOrder
<1>1. ASSUME IInv, [Next]_vars, NEW i \in DOMAIN held, NEW j \in DOMAIN held,
             i < j, outcome'[held[j].fulfiller] \notin {Unresolved, Broken},
             NEW k \in DOMAIN held'
      PROVE  held'[k] # held[i]
  <2>1. outcome[held[j].fulfiller] = Unresolved
    BY <1>1, HeldElements, HeldMembers DEF IInv, NotAbandoned
  <2>2. CASE UNCHANGED vars
    BY <1>1, <2>1, <2>2 DEF vars
  <2>3. CASE Flush
    <3>1. PICK n \in 0 .. Len(held) :
             /\ \A m \in n + 1 .. Len(held) : outcome'[held[m].fulfiller] = Unresolved
             /\ Keeps(n + 2 .. Len(held))
      BY <1>1, <2>3, FlushTakes
    <3>2. Len(held) \in Nat /\ DOMAIN held = 1 .. Len(held)
      BY <1>1, HeldElements DEF IInv
    <3>3. j \notin n + 1 .. Len(held)
      BY <1>1, <3>1
    <3>4. i \notin n + 2 .. Len(held) /\ n + 2 .. Len(held) \subseteq DOMAIN held
      BY <1>1, <3>2, <3>3
    <3>5. PICK m \in n + 2 .. Len(held) : held'[k] = held[m]
      BY <1>1, <3>1 DEF Keeps
    <3>6. QED
      BY <1>1, <3>4, <3>5, HeldUnique DEF IInv
  <2>4. CASE Next /\ ~Flush
    BY <1>1, <2>4, OtherStep
  <2>5. QED
    BY <1>1, <2>2, <2>3, <2>4
<1>2. IInv /\ [Next]_vars
        => [\A i, j \in DOMAIN held :
              (i < j /\ outcome'[held[j].fulfiller] \notin {Unresolved, Broken})
                 => \A k \in DOMAIN held' : held'[k] # held[i]]_vars
  BY <1>1
<1>3. QED
  BY <1>2, Invariance, PTL DEF Spec, HeldInOrder
=============================================================================
