------------------------ MODULE DeferredCallsProofs -------------------------
(***************************************************************************)
(* Proofs about DeferredCalls for any set of calls and any number of       *)
(* deferrals of one call.                                                  *)
(***************************************************************************)
EXTENDS DeferredCalls, SequenceTheorems, WellFoundedInduction, TLAPS

\* A chain that has not begun has no states, and a state allows cancellation only once
\* its handler has deferred.
StagesBegun == /\ \A c \in Calls : chain[c] = "none" => stage[c] = 0
               /\ \A s \in cancelable : s[2] <= stage[s[1]]

\* A handler defers again only on the result of its last task.
EarlierCompleted == \A c \in Calls : \A k \in 1 .. MaxStages :
                       k < stage[c] => <<c, k>> \in completed

IInv == TypeOK /\ StillTracked /\ StagesBegun /\ EarlierCompleted

LEMMA ActiveIs ==
    ASSUME TypeOK
    PROVE  /\ Len(active) \in Nat /\ DOMAIN active = 1 .. Len(active)
           /\ \A i \in DOMAIN active : active[i] \in cancelable
           /\ ToSet(active) = {active[i] : i \in 1 .. Len(active)}
BY DEF TypeOK, ToSet

LEMMA StatesAre ==
    ASSUME NEW s \in States
    PROVE  s[1] \in Calls /\ s[2] \in 1 .. MaxStages /\ s = <<s[1], s[2]>>
BY DEF States

LEMMA StageIs ==
    ASSUME TypeOK, NEW c \in Calls
    PROVE  /\ stage[c] \in 0 .. MaxStages /\ stage[c] \in Nat /\ MaxStages \in Nat
           /\ stage[c] > 0 => Current(c) \in States
           /\ StatesOf(c) \subseteq States
BY StagesAssumption DEF TypeOK, Current, States, StatesOf

\* What the invariant says of the deque when nothing is deferred or canceled.
LEMMA TasksStay ==
    ASSUME IInv, UNCHANGED <<stage, cancelable, active>>,
           chain' \in [Calls -> {"none", "waiting", "settled"}],
           caller' \in [Calls -> {"idle", "pending", "awaited", "released", "answered"}],
           \A c \in Calls : chain'[c] = chain[c] \/ chain'[c] = "settled",
           finished \subseteq finished', finished' \subseteq States,
           completed \subseteq completed', completed' \subseteq finished',
           requested \subseteq requested', requested' \subseteq cancelable
    PROVE  IInv'
<1> USE DEF IInv
<1>1. TypeOK'
  BY DEF TypeOK
<1>2. StillTracked'
  <2>1. SUFFICES ASSUME NEW s \in cancelable, Alive(s)', Accepts(s)'
                 PROVE  s \in ToSet(active)
    BY DEF StillTracked
  <2>2. s[1] \in Calls
    BY StatesAre DEF TypeOK
  <2>3. chain[s[1]] = "waiting" /\ s[2] <= stage[s[1]]
    BY <2>1, <2>2 DEF Alive
  <2>4. s \notin completed /\ s \notin requested
    BY <2>1 DEF Accepts
  <2>5. QED
    BY <2>3, <2>4 DEF StillTracked, Alive, Accepts
<1>3. StagesBegun' /\ EarlierCompleted'
  BY DEF StagesBegun, EarlierCompleted
<1>4. QED
  BY <1>1, <1>2, <1>3

\* The end of a chain.
LEMMA SettleKeeps ==
    ASSUME IInv, NEW c \in Calls, Settle(c), finished' = finished,
           completed \subseteq completed', completed' \subseteq finished
    PROVE  IInv'
<1>1. /\ chain' = [chain EXCEPT ![c] = "settled"]
      /\ caller' = caller \/ caller' = [caller EXCEPT ![c] = "answered"]
      /\ requested' = requested \cup ((StatesOf(c) \cap cancelable) \ completed')
      /\ UNCHANGED <<stage, cancelable, active>>
  BY DEF Settle, Chain, Move, RequestCancellation, IInv, TypeOK
<1>2. /\ chain' \in [Calls -> {"none", "waiting", "settled"}]
      /\ \A d \in Calls : chain'[d] = chain[d] \/ chain'[d] = "settled"
      /\ caller' \in [Calls -> {"idle", "pending", "awaited", "released", "answered"}]
      /\ requested' \subseteq cancelable /\ requested \subseteq requested'
      /\ finished' \subseteq States
  BY <1>1 DEF IInv, TypeOK
<1>3. QED
  BY <1>1, <1>2, TasksStay

\* One more deferral: the state it lists is the only one that begins to live.
LEMMA DeferKeeps ==
    ASSUME IInv, NEW c \in Calls, NEW allow \in BOOLEAN, Defer(c, allow), stage[c] < MaxStages,
           finished' = finished, completed \subseteq completed', completed' \subseteq finished,
           stage[c] > 0 => Current(c) \in completed' /\ chain[c] = "waiting"
    PROVE  IInv'
<1> USE DEF IInv
<1>1. PICK s : s = <<c, stage[c] + 1>>
  OBVIOUS
<1>2. /\ stage' = [stage EXCEPT ![c] = stage[c] + 1]
      /\ chain' = [chain EXCEPT ![c] = "waiting"]
      /\ cancelable' = IF allow THEN cancelable \cup {s} ELSE cancelable
      /\ active' = IF allow THEN Append(active, s) ELSE active
      /\ UNCHANGED <<caller, requested>>
  BY <1>1 DEF Defer, Chain, TypeOK
<1>3. stage[c] \in Nat /\ MaxStages \in Nat /\ stage[c] + 1 \in 1 .. MaxStages
  BY StageIs
<1>4. s \in States /\ s[1] = c /\ s[2] = stage[c] + 1
  BY <1>1, <1>3 DEF States
<1>5. stage' \in [Calls -> 0 .. MaxStages]
  BY <1>2, <1>3 DEF TypeOK
<1>6. \A d \in Calls : /\ stage'[d] = IF d = c THEN stage[c] + 1 ELSE stage[d]
                       /\ chain'[d] = IF d = c THEN "waiting" ELSE chain[d]
  BY <1>2 DEF TypeOK
<1>7. /\ active' \in Seq(cancelable')
      /\ ToSet(active') = IF allow THEN ToSet(active) \cup {s} ELSE ToSet(active)
  <2>1. CASE allow
    <3>1. active \in Seq(cancelable') /\ s \in cancelable'
      <4>1. active \in Seq(cancelable) /\ cancelable \subseteq cancelable' /\ s \in cancelable'
        BY <1>2, <2>1 DEF TypeOK
      <4>2. QED
        BY <4>1
    <3>2. active' = Append(active, s)
      BY <1>2, <2>1
    <3>3. /\ active' \in Seq(cancelable') /\ Len(active) \in Nat
          /\ Len(active') = Len(active) + 1 /\ active'[Len(active) + 1] = s
          /\ \A i \in 1 .. Len(active) : active'[i] = active[i]
      BY <3>1, <3>2, AppendProperties
    <3>4. DOMAIN active = 1 .. Len(active) /\ DOMAIN active' = 1 .. Len(active) + 1
      BY <3>1, <3>3
    <3>5. ToSet(active') = ToSet(active) \cup {s}
      BY <3>3, <3>4 DEF ToSet
    <3>6. QED
      BY <2>1, <3>3, <3>5
  <2>2. CASE ~allow
    BY <1>2, <2>2 DEF TypeOK
  <2>3. QED
    BY <2>1, <2>2
<1>8. TypeOK'
  BY <1>2, <1>4, <1>5, <1>7 DEF TypeOK
<1>9. s \notin cancelable
  BY <1>3, <1>4 DEF StagesBegun
<1>10. StillTracked'
  <2>1. SUFFICES ASSUME NEW t \in cancelable', Alive(t)', Accepts(t)'
                 PROVE  t \in ToSet(active')
    BY DEF StillTracked
  <2>2. CASE t = s
    BY <1>2, <1>7, <1>9, <2>2
  <2>3. CASE t # s
    <3>1. t \in cancelable /\ t \in States
      BY <1>2, <2>3 DEF TypeOK
    <3>2. t \notin completed /\ t \notin requested
      BY <1>2, <2>1 DEF Accepts
    <3>3. t[2] <= stage[t[1]] /\ t[1] \in Calls /\ t[2] \in 1 .. MaxStages
      BY <3>1, StatesAre DEF StagesBegun
    <3>4. chain[t[1]] = "waiting"
      BY <1>3, <1>6, <2>1, <3>3 DEF Alive
    <3>5. t \in ToSet(active)
      BY <3>1, <3>2, <3>3, <3>4 DEF StillTracked, Alive, Accepts
    <3>6. QED
      BY <1>7, <3>5
  <2>4. QED
    BY <2>2, <2>3
<1>11. StagesBegun'
  <2>1. \A d \in Calls : chain'[d] = "none" => stage'[d] = 0
    BY <1>6 DEF StagesBegun
  <2>2. ASSUME NEW t \in cancelable' PROVE t[2] <= stage'[t[1]]
    <3>1. CASE t = s
      BY <1>3, <1>4, <1>6, <3>1
    <3>2. CASE t # s
      <4>1. t \in cancelable /\ t[1] \in Calls /\ t[2] \in Nat /\ t[2] <= stage[t[1]]
        BY <1>2, <3>2, StatesAre, StageIs DEF TypeOK, StagesBegun
      <4>2. QED
        BY <1>3, <1>6, <4>1
    <3>3. QED
      BY <3>1, <3>2
  <2>3. QED
    BY <2>1, <2>2 DEF StagesBegun
<1>12. EarlierCompleted'
  <2>1. SUFFICES ASSUME NEW d \in Calls, NEW k \in 1 .. MaxStages, k < stage'[d]
                 PROVE  <<d, k>> \in completed'
    BY DEF EarlierCompleted
  <2>2. CASE k < stage[d]
    BY <2>2 DEF EarlierCompleted
  <2>3. CASE ~(k < stage[d])
    <3>1. d = c /\ k = stage[c] /\ stage[c] > 0
      BY <1>3, <1>6, <2>1, <2>3, StageIs
    <3>2. QED
      BY <3>1 DEF Current
  <2>4. QED
    BY <2>2, <2>3
<1>13. QED
  BY <1>8, <1>10, <1>11, <1>12

-----------------------------------------------------------------------------
(* cancelOneActiveDeferredTask.                                            *)

LEMMA LessIsPair ==
    ASSUME NEW x \in Nat, NEW y \in Nat, y < x
    PROVE  <<y, x>> \in OpToRel(<, Nat)
<1>1. <<y, x>> \in Nat \X Nat /\ <<y, x>>[1] = y /\ <<y, x>>[2] = x
  OBVIOUS
<1>2. <<y, x>>[1] < <<y, x>>[2]
  BY <1>1
<1>3. QED
  BY <1>1, <1>2, Zenon DEF OpToRel

LEMMA FrontExists ==
    ASSUME NEW T \in SUBSET Nat, T # {}
    PROVE  \E x \in T : \A y \in T : x <= y
<1>1. PICK x \in T : \A y \in T : <<y, x>> \notin OpToRel(<, Nat)
  BY WFMin, NatLessThanWellFounded
<1>2. \A y \in T : ~(y < x)
  BY <1>1, LessIsPair, Zenon
<1>3. QED
  BY <1>2

\* Entries are popped up to the first that takes the request: what is dropped before it
\* could not have taken it.
LEMMA CancelOneKeeps ==
    ASSUME IInv, CancelOneActiveDeferredTask
    PROVE  /\ active' \in Seq(cancelable)
           /\ \A s \in ToSet(active) :
                 Alive(s) /\ Accepts(s) => s \in ToSet(active') \/ s \in requested'
           /\ requested \subseteq requested' /\ requested' \subseteq cancelable
           /\ \A s \in requested' \ requested : Alive(s)
<1> USE DEF IInv
<1> DEFINE takes == {i \in DOMAIN active : Alive(active[i]) /\ Accepts(active[i])}
           kk == CHOOSE i \in takes : \A j \in takes : i <= j
<1>1. /\ active \in Seq(cancelable) /\ Len(active) \in Nat /\ DOMAIN active = 1 .. Len(active)
      /\ \A i \in DOMAIN active : active[i] \in cancelable
      /\ requested \subseteq cancelable
  BY ActiveIs DEF TypeOK
<1>2. CASE takes = {}
  <2>1. active' = <<>> /\ requested' = requested
    BY <1>2 DEF CancelOneActiveDeferredTask
  <2>2. \A s \in ToSet(active) : ~(Alive(s) /\ Accepts(s))
    BY <1>2 DEF ToSet
  <2>3. QED
    BY <1>1, <2>1, <2>2
<1>3. CASE takes # {}
  <2>1. takes \subseteq Nat
    BY <1>1
  <2>2. kk \in takes /\ \A j \in takes : kk <= j
    BY <1>3, <2>1, FrontExists
  <2>3. /\ active' = SubSeq(active, kk + 1, Len(active))
        /\ requested' = requested \cup (({active[kk]} \cap cancelable) \ completed)
    BY <1>3 DEF CancelOneActiveDeferredTask, RequestCancellation
  <2> HIDE DEF kk
  <2>4. PICK k \in 1 .. Len(active) :
           /\ k = kk /\ Alive(active[k]) /\ Accepts(active[k])
           /\ \A i \in DOMAIN active : Alive(active[i]) /\ Accepts(active[i]) => k <= i
    BY <1>1, <2>2
  <2>5. active[k] \in cancelable /\ active[k] \notin completed
    BY <1>1, <2>4 DEF Accepts
  <2>6. /\ active' \in Seq(cancelable)
        /\ \A i \in 1 .. Len(active) - k : active'[i] = active[k + i]
        /\ Len(active') = Len(active) - k
    <3>0. PICK m \in Nat : m = k + 1
      OBVIOUS
    <3>1. /\ m \in Int /\ Len(active) \in Int
          /\ \A i \in m .. Len(active) : active[i] \in cancelable
          /\ active' = SubSeq(active, m, Len(active))
      BY <1>1, <2>3, <2>4, <3>0
    <3>2. /\ active' \in Seq(cancelable)
          /\ Len(active') = IF m <= Len(active) THEN Len(active) - m + 1 ELSE 0
          /\ \A i \in 1 .. Len(active) - m + 1 : active'[i] = active[m + i - 1]
      BY <3>1, SubSeqProperties
    <3>3. Len(active') = Len(active) - k
      <4>1. PICK len \in Nat : len = Len(active)
        BY <1>1
      <4>2. k \in Nat /\ k <= len
        BY <4>1
      <4>3. (IF m <= len THEN len - m + 1 ELSE 0) = len - k
        BY <3>0, <4>2
      <4>4. QED
        BY <3>2, <4>1, <4>3
    <3>4. ASSUME NEW i \in 1 .. Len(active) - k PROVE active'[i] = active[k + i]
      <4>1. i \in 1 .. Len(active) - m + 1 /\ m + i - 1 = k + i
        BY <1>1, <3>0
      <4>2. active'[i] = active[m + i - 1]
        BY <3>2, <4>1
      <4>3. QED
        BY <4>1, <4>2
    <3>5. QED
      BY <3>2, <3>3, <3>4
  <2>7. ASSUME NEW s \in ToSet(active), Alive(s) /\ Accepts(s)
        PROVE  s \in ToSet(active') \/ s \in requested'
    <3>1. PICK i \in 1 .. Len(active) : s = active[i]
      BY <1>1 DEF ToSet
    <3>2. k <= i
      BY <1>1, <2>4, <2>7, <3>1
    <3>3. CASE i = k
      BY <2>3, <2>4, <2>5, <3>1, <3>3
    <3>4. CASE i # k
      <4>1. i - k \in 1 .. Len(active) - k /\ k + (i - k) = i
        BY <1>1, <3>2, <3>4
      <4>2. active'[i - k] = s
        BY <2>6, <3>1, <4>1
      <4>3. DOMAIN active' = 1 .. Len(active')
        BY <2>6
      <4>4. QED
        BY <2>6, <4>1, <4>2, <4>3 DEF ToSet
    <3>5. QED
      BY <3>3, <3>4
  <2>8. QED
    BY <1>1, <2>3, <2>4, <2>5, <2>6, <2>7
<1>4. QED
  BY <1>2, <1>3

LEMMA ReleaseKeeps == ASSUME IInv, NEW c \in Calls, Release(c) PROVE IInv'
<1> USE DEF IInv
<1>1. /\ caller' = [caller EXCEPT ![c] = "released"]
      /\ CancelOneActiveDeferredTask
      /\ UNCHANGED <<chain, stage, cancelable, finished, completed>>
  BY DEF Release, Move, taskVars
<1>2. TypeOK'
  BY <1>1, CancelOneKeeps DEF TypeOK
<1>3. StillTracked'
  <2>1. SUFFICES ASSUME NEW s \in cancelable, Alive(s)', Accepts(s)'
                 PROVE  s \in ToSet(active')
    BY <1>1 DEF StillTracked
  <2>2. Alive(s) /\ Accepts(s) /\ s \notin requested'
    BY <1>1, <2>1, CancelOneKeeps DEF Alive, Accepts
  <2>3. s \in ToSet(active)
    BY <2>2 DEF StillTracked
  <2>4. QED
    BY <1>1, <2>2, <2>3, CancelOneKeeps
<1>4. StagesBegun' /\ EarlierCompleted'
  BY <1>1 DEF StagesBegun, EarlierCompleted
<1>5. QED
  BY <1>2, <1>3, <1>4

LEMMA DropIs ==
    ASSUME IInv, NEW c \in Calls, Drop(c)
    PROVE  IInv' /\ requested' \ requested \subseteq StatesOf(c)
<1>1. /\ chain' = [chain EXCEPT ![c] = "settled"]
      /\ requested' = requested \cup ((StatesOf(c) \cap cancelable) \ completed)
      /\ UNCHANGED <<caller, stage, cancelable, finished, completed, active>>
  BY DEF Drop, Chain, RequestCancellation, taskVars
<1>2. /\ chain' \in [Calls -> {"none", "waiting", "settled"}]
      /\ \A d \in Calls : chain'[d] = chain[d] \/ chain'[d] = "settled"
      /\ requested' \subseteq cancelable
      /\ caller' \in [Calls -> {"idle", "pending", "awaited", "released", "answered"}]
      /\ finished' \subseteq States /\ completed' \subseteq finished'
  BY <1>1 DEF IInv, TypeOK
<1>3. QED
  BY <1>1, <1>2, TasksStay

LEMMA NextKeeps == ASSUME IInv, [Next]_vars PROVE IInv'
<1> USE DEF IInv
<1>1. CASE UNCHANGED vars
  <2>1. UNCHANGED <<caller, chain, stage, cancelable, finished, completed, requested, active>>
    BY <1>1 DEF vars, taskVars
  <2>2. QED
    BY <2>1, TasksStay DEF TypeOK
<1>2. ASSUME NEW c \in Calls, Start(c) \/ Await(c)
      PROVE  IInv'
  <2>1. UNCHANGED <<chain, stage, cancelable, finished, completed, requested, active>>
    BY <1>2 DEF Start, Await, taskVars
  <2>2. caller' \in [Calls -> {"idle", "pending", "awaited", "released", "answered"}]
    BY <1>2 DEF Start, Await, Move, TypeOK
  <2>3. QED
    BY <2>1, <2>2, TasksStay DEF TypeOK
<1>3. ASSUME NEW c \in Calls, Dispatch(c)
      PROVE  IInv'
  <2>1. chain[c] = "none" /\ UNCHANGED <<finished, completed>> /\ stage[c] = 0
    BY <1>3 DEF Dispatch, StagesBegun
  <2>2. stage[c] < MaxStages
    BY <2>1, StagesAssumption
  <2>3. completed' \subseteq finished
    BY <2>1 DEF TypeOK
  <2>4. QED
    BY <1>3, <2>1, <2>2, <2>3, SettleKeeps, DeferKeeps DEF Dispatch
<1>4. ASSUME NEW c \in Calls, TaskEnds(c)
      PROVE  IInv'
  <2>1. /\ stage[c] > 0 /\ finished' = finished \cup {Current(c)}
        /\ UNCHANGED <<caller, chain, stage, cancelable, completed, requested, active>>
    BY <1>4 DEF TaskEnds
  <2>2. finished' \subseteq States
    BY <2>1, StageIs DEF TypeOK
  <2>3. QED
    BY <2>1, <2>2, TasksStay DEF TypeOK
<1>5. ASSUME NEW c \in Calls, Continue(c)
      PROVE  IInv'
  <2>1. /\ chain[c] = "waiting" /\ completed' = completed \cup {Current(c)}
        /\ Current(c) \in finished /\ finished' = finished
    BY <1>5 DEF Continue
  <2>2. completed' \subseteq finished
    BY <2>1 DEF TypeOK
  <2>3. CASE Settle(c)
    BY <2>1, <2>2, <2>3, SettleKeeps
  <2>4. CASE ~Settle(c)
    <3>1. stage[c] < MaxStages /\ \E allow \in BOOLEAN : Defer(c, allow)
      BY <1>5, <2>4 DEF Continue
    <3>2. QED
      BY <2>1, <2>2, <3>1, DeferKeeps
  <2>5. QED
    BY <2>3, <2>4
<1>6. QED
  BY <1>1, <1>2, <1>3, <1>4, <1>5, ReleaseKeeps, DropIs DEF Next

\* The end of a chain that ran to its end asks nothing to stop.
LEMMA SettleAsksNone ==
    ASSUME IInv, NEW c \in Calls, Settle(c),
           \A k \in 1 .. stage[c] : <<c, k>> \in completed'
    PROVE  requested' = requested
<1>1. requested' = requested \cup ((StatesOf(c) \cap cancelable) \ completed')
  BY DEF Settle, RequestCancellation
<1>2. StatesOf(c) \subseteq completed'
  BY DEF StatesOf
<1>3. QED
  BY <1>1, <1>2

LEMMA AsksOnlyWaiting ==
    ASSUME IInv, [Next]_vars
    PROVE  \A s \in requested' \ requested :
              chain'[s[1]] = "waiting" \/ caller[s[1]] = "released"
<1> USE DEF IInv
<1>1. ASSUME NEW c \in Calls, Release(c)
      PROVE  \A s \in requested' \ requested : chain'[s[1]] = "waiting"
  BY <1>1, CancelOneKeeps DEF Release, Alive
<1>2. ASSUME NEW c \in Calls, Drop(c)
      PROVE  \A s \in requested' \ requested : caller[s[1]] = "released"
  BY <1>2, DropIs DEF Drop, StatesOf
<1>3. ASSUME NEW c \in Calls, Dispatch(c)
      PROVE  requested' = requested
  <2>1. stage[c] = 0
    BY <1>3 DEF Dispatch, StagesBegun
  <2>2. CASE Settle(c)
    BY <2>1, <2>2, SettleAsksNone
  <2>3. CASE ~Settle(c)
    BY <1>3, <2>3 DEF Dispatch, Defer
  <2>4. QED
    BY <2>2, <2>3
<1>4. ASSUME NEW c \in Calls, Continue(c)
      PROVE  requested' = requested
  <2>1. completed' = completed \cup {Current(c)} /\ stage[c] \in 0 .. MaxStages
    BY <1>4, StageIs DEF Continue
  <2>2. \A k \in 1 .. stage[c] : <<c, k>> \in completed'
    BY <2>1, StagesAssumption DEF EarlierCompleted, Current
  <2>3. CASE Settle(c)
    BY <2>2, <2>3, SettleAsksNone
  <2>4. CASE ~Settle(c)
    BY <1>4, <2>4 DEF Continue, Defer
  <2>5. QED
    BY <2>3, <2>4
<1>5. CASE UNCHANGED vars
  BY <1>5 DEF vars
<1>6. ASSUME NEW c \in Calls, Start(c) \/ Await(c) \/ TaskEnds(c)
      PROVE  requested' = requested
  BY <1>6 DEF Start, Await, TaskEnds
<1>7. QED
  BY <1>1, <1>2, <1>3, <1>4, <1>5, <1>6 DEF Next

-----------------------------------------------------------------------------
(* The theorems.                                                           *)

\* The inductive invariant holds throughout.
THEOREM Invariance == Spec => []IInv
<1>1. Init => IInv
  <2> SUFFICES ASSUME Init PROVE IInv
    OBVIOUS
  <2>1. TypeOK
    BY StagesAssumption DEF Init, TypeOK
  <2>2. StillTracked /\ StagesBegun
    BY DEF Init, StillTracked, StagesBegun
  <2>3. EarlierCompleted
    BY StagesAssumption DEF Init, EarlierCompleted
  <2>4. QED
    BY <2>1, <2>2, <2>3 DEF IInv
<1>2. IInv /\ [Next]_vars => IInv'
  BY NextKeeps
<1>3. QED
  BY <1>1, <1>2, PTL DEF Spec

\* Every variable keeps its type: only tasks that ended are completed, and only states
\* that allow cancellation are asked to stop or listed in activeCancelableDeferredTasks_.
THEOREM TypeCorrect == Spec => []TypeOK
<1>1. IInv => TypeOK
  BY DEF IInv
<1>2. QED
  BY <1>1, Invariance, PTL

\* A running task that can still be canceled is in activeCancelableDeferredTasks_,
\* whatever releasePendingCall has popped from it.
THEOREM RunningStaysTracked == Spec => []StillTracked
<1>1. IInv => StillTracked
  BY DEF IInv
<1>2. QED
  BY <1>1, Invariance, PTL

\* The destructor of DeferredLeanTaskState asks no task of an answered call to stop.
THEOREM AnswerCancelsNothing == Spec => NoCancelAfterAnswer
<1>1. IInv /\ [Next]_vars =>
         [\A s \in requested' \ requested :
             chain'[s[1]] = "waiting" \/ caller[s[1]] = "released"]_vars
  BY AsksOnlyWaiting
<1>2. QED
  BY <1>1, Invariance, PTL DEF Spec, NoCancelAfterAnswer
=============================================================================
